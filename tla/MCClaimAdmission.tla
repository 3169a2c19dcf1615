------------------------- MODULE MCClaimAdmission ---------------------------
(* Small instances of ClaimAdmission: jobs are numbers, in dispatch order.   *)
EXTENDS ClaimAdmission

\* Jobs 1 and 2 of one queue and 3 and 4 of the other share one handler; the
\* two queues meet the two keys in opposite orders.
AcrossJobs == 1..4
AcrossQueueOf == [j \in AcrossJobs |-> IF j <= 2 THEN "q1" ELSE "q2"]
AcrossScopeOf == [j \in AcrossJobs |-> IF j \in {1, 3} THEN "s1" ELSE "s2"]
AcrossHandlerOf == [j \in AcrossJobs |-> "h1"]
AcrossKeyOf == [j \in AcrossJobs |-> IF j \in {1, 4} THEN "k1" ELSE "k2"]

\* One queue: two jobs of a busy scope and one job of each of two others.
OneJobs == 1..4
OneQueueOf == [j \in OneJobs |-> "q1"]
OneScopeOf == [j \in OneJobs |-> IF j <= 2 THEN "s1" ELSE IF j = 3 THEN "s2" ELSE "s3"]
OneHandlerOf == [j \in OneJobs |-> "h1"]
OneKeyOf == [j \in OneJobs |-> "none"]

\* Jobs by number, and the locks in an order that two hashes may well have.
ByNumber(i, j) == i < j
LockRank == [k1 |-> 1, k2 |-> 2, none |-> 3]
ByHash(l, m) == LockRank[l[2]] < LockRank[m[2]]

=============================================================================
