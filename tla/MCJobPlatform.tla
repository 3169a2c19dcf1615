--------------------------- MODULE MCJobPlatform ----------------------------
(* Small instances of JobPlatform. *)
EXTENDS JobPlatform, TLC

\* Slots and jobs are interchangeable in the safety runs.
Symmetry == Permutations(Workers) \cup Permutations(Jobs)

=============================================================================
