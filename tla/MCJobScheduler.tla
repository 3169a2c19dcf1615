-------------------------- MODULE MCJobScheduler ----------------------------
(* Small instances of JobScheduler.                                          *)
EXTENDS JobScheduler

\* One expression for every minute and one for every other minute.
SomeCrons == {1..(MaxTime + 1), {o \in 1..(MaxTime + 2) : o % 2 = 0}}

=============================================================================
