------------------------ MODULE MCJobPlatformCompat -------------------------
(* Small instances of JobPlatformCompat. *)
EXTENDS JobPlatformCompat, TLC

\* The slots are interchangeable.
Symmetry == Permutations(Workers)

=============================================================================
