------------------------- MODULE MCCronOccurrences --------------------------
(* Small instances of CronOccurrences: a change of the clock by three minutes*)
(* stands for the usual hour.                                                *)
EXTENDS CronOccurrences

Plain == [at |-> 0, shift |-> 0]
Back == [at |-> 7, shift |-> 0 - 3]
Forward == [at |-> 5, shift |-> 3]
SomeZones == {Plain, Back, Forward}

\* Local minutes may lie outside of the instants, and a search may look beyond.
LocalMinutes == (0 - 9)..(Far + 9)

\* Every minute, every other, every third.
SomeExpressions == {{m \in LocalMinutes : m % p = 0} : p \in 1..3}

=============================================================================
