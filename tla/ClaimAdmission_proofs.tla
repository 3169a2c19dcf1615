----------------------- MODULE ClaimAdmission_proofs -----------------------
(* Proofs about ClaimAdmission for any jobs, slots, queues, scopes, handlers *)
(* and keys, and any limits.                                                 *)
EXTENDS ClaimAdmission, FiniteSetTheorems, TLAPS

-----------------------------------------------------------------------------
(* The order of the candidates                                               *)

\* Whatever jobs are queued, there is one way to put them in dispatch order: a job's
\* place is the number of jobs before it.
LEMMA InOrderFacts ==
    ASSUME NEW set \in SUBSET Jobs
    PROVE  InOrder(set) \in SetToSeqs(set)
<1> DEFINE n == Cardinality(set)
           earlier(j) == {i \in set : Before(i, j)}
           place == [j \in set |-> Cardinality(earlier(j)) + 1]
<1>1. IsFiniteSet(set) /\ n \in Nat
      BY TablesAssumption, FS_Subset, FS_CardinalityType
<1>2. ASSUME NEW j \in set
      PROVE  /\ IsFiniteSet(earlier(j)) /\ Cardinality(earlier(j)) \in Nat
             /\ Cardinality(earlier(j)) < n
  <2>1. IsFiniteSet(earlier(j)) /\ Cardinality(earlier(j)) <= n
        BY <1>1, FS_Subset
  <2>2. Cardinality(earlier(j)) = n => earlier(j) = set
        BY <1>1, FS_Subset, earlier(j) \in SUBSET set
  <2>3. j \notin earlier(j)
        BY DispatchAssumption
  <2> QED BY <1>1, <2>1, <2>2, <2>3, FS_CardinalityType
<1>3. ASSUME NEW i \in set, NEW j \in set, Before(i, j)
      PROVE  Cardinality(earlier(i)) < Cardinality(earlier(j))
  <2>1. earlier(i) \in SUBSET earlier(j) /\ i \in earlier(j) /\ i \notin earlier(i)
        BY <1>3, DispatchAssumption
  <2>2. /\ Cardinality(earlier(i)) <= Cardinality(earlier(j))
        /\ Cardinality(earlier(j)) = Cardinality(earlier(i)) => earlier(j) = earlier(i)
        BY <1>2, <2>1, FS_Subset
  <2> QED BY <1>2, <2>1, <2>2
<1>4. place \in [set -> 1..n]
      BY <1>1, <1>2
<1>5. ASSUME NEW i \in set, NEW j \in set, i # j
      PROVE  place[i] # place[j]
  <2>1. Before(i, j) \/ Before(j, i)
        BY <1>5, DispatchAssumption
  <2> HIDE DEF earlier
  <2> QED BY <1>2, <1>3, <2>1
<1>6. place \in Injection(set, 1..n)
      BY <1>4, <1>5 DEF Injection, IsInjective
<1>7. IsFiniteSet(1..n) /\ Cardinality(1..n) = n
      BY <1>1, FS_Interval
<1>8. place \in Surjection(set, 1..n)
      BY <1>6, <1>7, FS_Injection
<1>9. \A k \in 1..n : \E j \in set : place[j] = k
      BY <1>8 DEF Surjection
<1> DEFINE at == [k \in 1..n |-> CHOOSE j \in set : place[j] = k]
<1>10. at \in [1..n -> set] /\ \A k \in 1..n : place[at[k]] = k
       BY <1>9
<1>11. at \in SetToSeqs(set)
       BY <1>10 DEF SetToSeqs
<1> HIDE DEF at
<1>12. ASSUME NEW i \in DOMAIN at, NEW k \in DOMAIN at, i < k
       PROVE  Before(at[i], at[k])
  <2>1. at[i] \in set /\ at[k] \in set /\ place[at[i]] < place[at[k]]
        BY <1>10, <1>12
  <2>2. at[i] # at[k] /\ ~Before(at[k], at[i])
    <3> HIDE DEF earlier
    <3> QED BY <1>2, <1>3, <2>1
  <2> QED BY <2>1, <2>2, DispatchAssumption
<1>13. DOMAIN at = 1..n /\ \A i, k \in DOMAIN at : i < k => Before(at[i], at[k])
       BY <1>10, <1>12
<1> HIDE DEF place, earlier, n
<1> QED BY <1>11, <1>13 DEF InOrder

\* What a scope offers are queued jobs of it.
LEMMA CandidatesFacts ==
    ASSUME NEW q, NEW sc
    PROVE  /\ Candidates(q, sc) \in Seq(Jobs)
           /\ \A i \in DOMAIN Candidates(q, sc) :
                  /\ Candidates(q, sc)[i] \in InScope(q, sc)
                  /\ status[Candidates(q, sc)[i]] = "queued"
<1> DEFINE queued == {j \in InScope(q, sc) : status[j] = "queued"}
           ordered == InOrder(queued)
           m == IF Len(ordered) < Window THEN Len(ordered) ELSE Window
<1>1. queued \in SUBSET Jobs
      BY DEF InScope, InQueue
<1>2. IsFiniteSet(queued) /\ Cardinality(queued) \in Nat
      BY <1>1, TablesAssumption, FS_Subset, FS_CardinalityType
<1>3. ordered \in [1..Cardinality(queued) -> queued]
      BY <1>1, InOrderFacts DEF SetToSeqs
<1>4. ordered \in Seq(queued)
      BY <1>2, <1>3
<1>5. Candidates(q, sc) = SubSeq(ordered, 1, m)
      BY DEF Candidates
<1>6. m \in Nat /\ m <= Len(ordered)
      BY <1>4, LimitsAssumption
<1> HIDE DEF m, ordered, queued
<1>7. SubSeq(ordered, 1, m) \in Seq(queued)
      BY <1>4, <1>6
<1>8. \A i \in DOMAIN Candidates(q, sc) : Candidates(q, sc)[i] \in queued
      BY <1>5, <1>7
<1>9. Candidates(q, sc) \in Seq(Jobs)
      BY <1>1, <1>5, <1>7
<1> QED BY <1>8, <1>9 DEF queued

-----------------------------------------------------------------------------
(* The cursor                                                                *)

Orders == SetToSeqs(Scopes)

LEMMA OrdersFacts ==
    ASSUME NEW order \in Orders
    PROVE  /\ order \in Seq(Scopes) /\ Len(order) = Cardinality(Scopes)
           /\ order \in [1..Cardinality(Scopes) -> Scopes] /\ Cardinality(Scopes) \in Nat
           /\ \A i, k \in 1..Cardinality(Scopes) : i # k => order[i] # order[k]
           /\ \A sc \in Scopes : \E i \in 1..Cardinality(Scopes) : order[i] = sc
<1> DEFINE n == Cardinality(Scopes)
<1>1. n \in Nat
      BY TablesAssumption, FS_CardinalityType
<1>2. order \in [1..n -> Scopes] /\ \A i, k \in 1..n : i # k => order[i] # order[k]
      BY DEF Orders, SetToSeqs
<1>3. order \in Injection(1..n, Scopes)
      BY <1>2 DEF Injection, IsInjective
<1>4. IsFiniteSet(1..n) /\ Cardinality(1..n) = n
      BY <1>1, FS_Interval
<1>5. order \in Surjection(1..n, Scopes)
      BY <1>3, <1>4, TablesAssumption, FS_Injection
<1>6. \A sc \in Scopes : \E i \in 1..n : order[i] = sc
      BY <1>5 DEF Surjection
<1> QED BY <1>1, <1>2, <1>6

\* There is an order to begin with.
LEMMA FirstOrder == SetToSeq(Scopes) \in Orders
<1> DEFINE n == Cardinality(Scopes)
<1>1. ExistsBijection(1..n, Scopes)
      BY TablesAssumption, FS_CardinalityType
<1>2. PICK f \in Bijection(1..n, Scopes) : TRUE
      BY <1>1 DEF ExistsBijection
<1>3. f \in [1..n -> Scopes] /\ IsInjective(f)
      BY <1>2 DEF Bijection, Injection
<1>4. SetToSeq(Scopes) \in [1..n -> Scopes] /\ IsInjective(SetToSeq(Scopes))
      BY <1>3 DEF SetToSeq
<1> QED BY <1>4 DEF Orders, SetToSeqs, IsInjective

\* A scope that is served goes to the end, and every other keeps its turn.
LEMMA ServedFacts ==
    ASSUME NEW order \in Orders, NEW sc \in Scopes
    PROVE  Served(order, sc) \in Orders
<1> DEFINE n == Cardinality(Scopes)
           at == CHOOSE i \in DOMAIN order : order[i] = sc
           front == SubSeq(order, 1, at - 1)
           back == SubSeq(order, at + 1, Len(order))
           rest == front \o back
           new == Append(rest, sc)
<1>1. /\ order \in Seq(Scopes) /\ Len(order) = n /\ n \in Nat
      /\ order \in [1..n -> Scopes] /\ DOMAIN order = 1..n
      /\ \A i, k \in 1..n : i # k => order[i] # order[k]
      /\ at \in 1..n /\ order[at] = sc
      BY OrdersFacts
<1>2. Served(order, sc) = new
      BY DEF Served, RemoveAt
<1> HIDE DEF at, n
<1>3. /\ front \in Seq(Scopes) /\ Len(front) = at - 1
      /\ \A i \in 1..(at - 1) : front[i] = order[i]
      BY <1>1
<1>4. /\ back \in Seq(Scopes) /\ Len(back) = n - at
      /\ \A i \in 1..(n - at) : back[i] = order[i + at]
      BY <1>1
<1> HIDE DEF front, back
<1>9. /\ rest \in Seq(Scopes) /\ Len(rest) = n - 1
      /\ \A i \in 1..(n - 1) : rest[i] = IF i < at THEN order[i] ELSE order[i + 1]
  <2>1. rest \in Seq(Scopes) /\ Len(rest) = Len(front) + Len(back)
        BY <1>3, <1>4
  <2>3. Len(rest) = n - 1
    <3> HIDE DEF rest
    <3> QED BY <1>1, <1>3, <1>4, <2>1
  <2>2. ASSUME NEW i \in 1..(n - 1)
        PROVE  rest[i] = IF i < at THEN order[i] ELSE order[i + 1]
    <3>1. CASE i < at
          BY <1>1, <1>3, <1>4, <3>1
    <3>2. CASE ~(i < at)
      <4> DEFINE k == i - (at - 1)
      <4>1. k \in 1..(n - at) /\ k + at = i + 1 /\ ~(i < at)
            BY <1>1, <3>2
      <4>2. rest[i] = back[k]
            BY <1>1, <1>3, <1>4, <3>2
      <4> HIDE DEF k
      <4>3. back[k] = order[i + 1]
            BY <1>4, <4>1
      <4> QED BY <4>1, <4>2, <4>3
    <3> QED BY <3>1, <3>2
  <2> QED BY <2>1, <2>2, <2>3
<1> HIDE DEF rest
<1>5. /\ new \in Seq(Scopes) /\ Len(new) = n /\ new[n] = sc
      /\ \A i \in 1..(at - 1) : new[i] = order[i]
      /\ \A i \in at..(n - 1) : new[i] = order[i + 1]
      BY <1>1, <1>9
<1> HIDE DEF new
<1>6. new \in [1..n -> Scopes]
      BY <1>5
<1>7. ASSUME NEW i \in 1..n, NEW k \in 1..n, i < k
      PROVE  new[i] # new[k]
      BY <1>1, <1>5, <1>7
<1>8. \A i, k \in 1..n : i # k => new[i] # new[k]
      BY <1>1, <1>7
<1> QED BY <1>2, <1>6, <1>8 DEF Orders, SetToSeqs, n

-----------------------------------------------------------------------------
(* The inductive invariant                                                   *)

\* What a transaction found out and relies on until it commits: room in its queue
\* and in the scope it looks at, candidates that are queued there, and, for the job
\* it is about to claim, room under the locks it holds.
Sound(t) ==
    LET sc == Head(t.scopes)  j == Head(t.jobs)  h == HandlerOf[j]  k == KeyOf[j] IN
    /\ t.pc = "idle" => t.locks = {}
    /\ t.pc # "idle" => ~AtCapacity(QueueLimit, InQueue(t.queue))
    /\ t.pc \in {"jobs", "locking", "claiming"} =>
           /\ t.scopes # << >>
           /\ ~AtCapacity(ScopeLimit, InScope(t.queue, sc))
           /\ \A i \in DOMAIN t.jobs : /\ t.jobs[i] \in InScope(t.queue, sc)
                                      /\ status[t.jobs[i]] = "queued"
    /\ t.pc \in {"locking", "claiming"} => t.jobs # << >>
    /\ t.pc = "claiming" =>
           /\ Wanted(j) \subseteq t.locks
           /\ ~AtCapacity(HandlerLimit, WithHandler(h))
           /\ k # NoKey => ~AtCapacity(KeyLimit, WithKey(h, k))

\* The queue row has one holder, and so has every advisory lock.
LocksHeldOnce ==
    \A c, d \in Claimers : c # d =>
        /\ txn[c].pc # "idle" /\ txn[d].pc # "idle" => txn[c].queue # txn[d].queue
        /\ txn[c].locks \cap txn[d].locks = {}

AdmissionInv ==
    /\ AdmissionTypeOK
    /\ LocksHeldOnce
    /\ \A c \in Claimers : Sound(txn[c])
    /\ LimitsHold

-----------------------------------------------------------------------------
(* Counting running jobs                                                     *)

LEMMA SubsetsFacts ==
    /\ \A q : InQueue(q) \in SUBSET Jobs
    /\ \A q, sc : InScope(q, sc) \in SUBSET Jobs
    /\ \A h : WithHandler(h) \in SUBSET Jobs
    /\ \A h, k : WithKey(h, k) \in SUBSET Jobs
    /\ {QueueLimit, ScopeLimit, HandlerLimit, KeyLimit} \subseteq Nat
BY LimitsAssumption DEF InQueue, InScope, WithHandler, WithKey

LEMMA RunningFacts ==
    ASSUME NEW set \in SUBSET Jobs
    PROVE  /\ IsFiniteSet(Running(set)) /\ Cardinality(Running(set)) \in Nat
           /\ IsFiniteSet(Running(set)') /\ Cardinality(Running(set)') \in Nat
<1>1. IsFiniteSet(set)
      BY TablesAssumption, FS_Subset
<1>2. Running(set) \in SUBSET set /\ Running(set)' \in SUBSET set
      BY DEF Running
<1> QED BY <1>1, <1>2, FS_Subset, FS_CardinalityType

\* A job that changes its status changes the count of a set by one at most, and
\* raises it only by starting to run in that set.
LEMMA OneJobCounts ==
    ASSUME AdmissionTypeOK, NEW j \in Jobs, NEW x, status' = [status EXCEPT ![j] = x],
           NEW set \in SUBSET Jobs
    PROVE  /\ j \notin set \/ x # "running" =>
                   Cardinality(Running(set)') <= Cardinality(Running(set))
           /\ Cardinality(Running(set)') <= Cardinality(Running(set)) + 1
<1>1. \A i \in Jobs : status'[i] = IF i = j THEN x ELSE status[i]
      BY DEF AdmissionTypeOK
<1>2. CASE j \notin set \/ x # "running"
  <2>1. Running(set)' \in SUBSET Running(set)
        BY <1>1, <1>2 DEF Running
  <2>2. Cardinality(Running(set)') <= Cardinality(Running(set))
        BY <2>1, RunningFacts, FS_Subset
  <2> QED BY <2>2, RunningFacts
<1>3. CASE ~(j \notin set \/ x # "running")
  <2>1. Running(set)' = Running(set) \cup {j}
        BY <1>1, <1>3 DEF Running
  <2>3. IsFiniteSet(Running(set)) /\ Cardinality(Running(set)) \in Nat
        BY RunningFacts
  <2>2. Cardinality(Running(set)') <= Cardinality(Running(set)) + 1
        BY <2>1, <2>3, FS_AddElement
  <2> QED BY <1>3, <2>2
<1> QED BY <1>2, <1>3

LEMMA RoomFacts ==
    ASSUME AdmissionTypeOK, NEW j \in Jobs, NEW x, status' = [status EXCEPT ![j] = x],
           NEW set \in SUBSET Jobs, NEW limit \in Nat
    PROVE  /\ j \notin set \/ x # "running" =>
                  /\ ~AtCapacity(limit, set) => ~AtCapacity(limit, set)'
                  /\ Within(limit, set) => Within(limit, set)'
           /\ ~AtCapacity(limit, set) => Within(limit, set)'
<1>1. /\ Cardinality(Running(set)) \in Nat /\ Cardinality(Running(set)') \in Nat
      BY RunningFacts
<1>2. /\ j \notin set \/ x # "running" =>
             Cardinality(Running(set)') <= Cardinality(Running(set))
      /\ Cardinality(Running(set)') <= Cardinality(Running(set)) + 1
      BY OneJobCounts
<1> QED BY <1>1, <1>2 DEF AtCapacity, Within, Running

-----------------------------------------------------------------------------
(* The steps                                                                 *)

LEMMA AdmissionInitInv == AdmissionInit => AdmissionInv
<1> SUFFICES ASSUME AdmissionInit PROVE AdmissionInv
    OBVIOUS
<1>1. NoTxn \in Txn /\ NoTxn.pc = "idle" /\ NoTxn.locks = {}
      BY TablesAssumption DEF NoTxn, Txn, AnyQueue
<1>2. AdmissionTypeOK
      BY <1>1, FirstOrder DEF AdmissionInit, AdmissionTypeOK, Orders
<1>3. LocksHeldOnce /\ \A c \in Claimers : Sound(txn[c])
      BY <1>1 DEF AdmissionInit, LocksHeldOnce, Sound
<1>4. ASSUME NEW set \in SUBSET Jobs, NEW limit \in Nat
      PROVE  Within(limit, set)
  <2>1. Running(set) = {}
        BY DEF Running, AdmissionInit
  <2> QED BY <2>1, FS_EmptySet DEF Within
<1>5. LimitsHold
      BY <1>4, SubsetsFacts DEF LimitsHold
<1> QED BY <1>2, <1>3, <1>5 DEF AdmissionInv

\* One transaction goes on, and nothing of the tables changes.
LEMMA OneMoves ==
    ASSUME AdmissionInv, NEW c \in Claimers, NEW t \in Txn, Step(c, t), Keep, Sound(t),
           \A d \in Claimers \ {c} :
               /\ t.pc # "idle" /\ txn[d].pc # "idle" => t.queue # txn[d].queue
               /\ t.locks \cap txn[d].locks = {}
    PROVE  AdmissionInv'
<1>1. UNCHANGED <<status, cursor, paused>> /\ txn' = [txn EXCEPT ![c] = t]
      BY DEF Step, Keep
<1>2. txn \in [Claimers -> Txn]
      BY DEF AdmissionInv, AdmissionTypeOK
<1>3. \A d \in Claimers : txn'[d] = IF d = c THEN t ELSE txn[d]
      BY <1>1, <1>2
<1>4. AdmissionTypeOK'
      BY <1>1, <1>2 DEF AdmissionInv, AdmissionTypeOK
<1>5. LocksHeldOnce'
      BY <1>3 DEF AdmissionInv, LocksHeldOnce
<1>6. ASSUME NEW d \in Claimers PROVE Sound(txn[d])'
  <2>1. CASE d = c
    <3>1. txn'[d] = t
          BY <1>3, <2>1
    <3> QED BY <1>1, <3>1 DEF Sound, AtCapacity, Running
  <2>2. CASE d # c
    <3>1. txn'[d] = txn[d] /\ Sound(txn[d])
          BY <1>3, <2>2 DEF AdmissionInv
    <3> QED BY <1>1, <3>1 DEF Sound, AtCapacity, Running
  <2> QED BY <2>1, <2>2
<1>7. LimitsHold'
      BY <1>1 DEF AdmissionInv, LimitsHold, Within, Running
<1> QED BY <1>4, <1>5, <1>6, <1>7 DEF AdmissionInv

LEMMA NoTxnFacts ==
    /\ NoTxn \in Txn /\ NoTxn.pc = "idle" /\ NoTxn.locks = {}
    /\ Sound(NoTxn)
BY TablesAssumption DEF NoTxn, Txn, AnyQueue, Sound

LEMMA RollbackInv ==
    ASSUME AdmissionInv, NEW c \in Claimers, Rollback(c)
    PROVE  AdmissionInv'
<1>1. Step(c, NoTxn) /\ Keep
      BY DEF Rollback, Keep
<1> QED BY <1>1, NoTxnFacts, OneMoves

\* What the invariant says of one transaction.
LEMMA TxnFacts ==
    ASSUME AdmissionInv, NEW c \in Claimers
    PROVE  /\ txn[c] \in Txn /\ Sound(txn[c])
           /\ txn[c].queue \in Queues /\ txn[c].scopes \in Seq(Scopes)
           /\ txn[c].jobs \in Seq(Jobs) /\ txn[c].locks \in SUBSET AdvisoryLocks
           /\ \A d \in Claimers \ {c} :
                  /\ txn[c].pc # "idle" /\ txn[d].pc # "idle" => txn[c].queue # txn[d].queue
                  /\ txn[c].locks \cap txn[d].locks = {}
BY DEF AdmissionInv, AdmissionTypeOK, Txn, LocksHeldOnce

LEMMA LockQueueInv ==
    ASSUME AdmissionInv, NEW c \in Claimers, NEW q \in Queues, LockQueue(c, q)
    PROVE  AdmissionInv'
<1> DEFINE t == [NoTxn EXCEPT !.pc = "scopes", !.queue = q, !.scopes = cursor[q]]
<1>1. cursor[q] \in Seq(Scopes)
      BY OrdersFacts DEF AdmissionInv, AdmissionTypeOK, Orders
<1>2. /\ t \in Txn /\ t.pc = "scopes" /\ t.queue = q /\ t.locks = {}
      BY <1>1, NoTxnFacts DEF Txn
<1>3. Step(c, t) /\ Keep /\ ~AtCapacity(QueueLimit, InQueue(q))
      /\ \A d \in Claimers : txn[d].pc # "idle" => txn[d].queue # q
      BY DEF LockQueue
<1> HIDE DEF t
<1>4. Sound(t)
      BY <1>2, <1>3 DEF Sound
<1> QED BY <1>2, <1>3, <1>4, OneMoves

LEMMA ReadScopeInv ==
    ASSUME AdmissionInv, NEW c \in Claimers, ReadScope(c)
    PROVE  AdmissionInv'
<1> DEFINE t == txn[c]
           sc == Head(t.scopes)
           found == Candidates(t.queue, sc)
           next == [t EXCEPT !.scopes = Tail(@)]
           look == [t EXCEPT !.pc = "jobs", !.jobs = found]
<1>1. /\ t \in Txn /\ t.pc = "scopes" /\ t.scopes # << >> /\ Keep
      /\ t.scopes \in Seq(Scopes)
      BY TxnFacts DEF ReadScope
<1>2. CASE AtCapacity(ScopeLimit, InScope(t.queue, sc))
  <2>1. Step(c, next)
        BY <1>2 DEF ReadScope
  <2>2. Tail(t.scopes) \in Seq(Scopes)
        BY <1>1
  <2>3. next \in Txn /\ next.pc = "scopes" /\ next.queue = t.queue /\ next.locks = t.locks
        BY <1>1, <2>2 DEF Txn
  <2> HIDE DEF next
  <2>4. Sound(next)
        BY <1>1, <2>3, TxnFacts DEF Sound
  <2> QED BY <1>1, <2>1, <2>3, <2>4, TxnFacts, OneMoves
<1>3. CASE ~AtCapacity(ScopeLimit, InScope(t.queue, sc))
  <2>1. Step(c, look)
        BY <1>3 DEF ReadScope
  <2>2. /\ found \in Seq(Jobs)
        /\ \A i \in DOMAIN found : found[i] \in InScope(t.queue, sc) /\ status[found[i]] = "queued"
        BY CandidatesFacts
  <2> HIDE DEF found
  <2>3. /\ look \in Txn /\ look.pc = "jobs" /\ look.queue = t.queue /\ look.locks = t.locks
        /\ look.scopes = t.scopes /\ look.jobs = found
        BY <1>1, <2>2 DEF Txn
  <2> HIDE DEF look
  <2>4. Sound(look)
        BY <1>1, <1>3, <2>2, <2>3, TxnFacts DEF Sound
  <2> QED BY <1>1, <2>1, <2>3, <2>4, TxnFacts, OneMoves
<1> QED BY <1>2, <1>3

LEMMA ReadJobInv ==
    ASSUME AdmissionInv, NEW c \in Claimers, ReadJob(c)
    PROVE  AdmissionInv'
<1> DEFINE t == txn[c]
           next == [t EXCEPT !.pc = "scopes", !.scopes = Tail(@)]
           lock == [t EXCEPT !.pc = "locking"]
<1>1. /\ t \in Txn /\ t.pc = "jobs" /\ Keep /\ t.scopes \in Seq(Scopes) /\ t.scopes # << >>
      BY TxnFacts DEF ReadJob, Sound
<1>2. CASE t.jobs = << >>
  <2>1. Step(c, next)
        BY <1>2 DEF ReadJob
  <2>2. Tail(t.scopes) \in Seq(Scopes)
        BY <1>1
  <2>3. next \in Txn /\ next.pc = "scopes" /\ next.queue = t.queue /\ next.locks = t.locks
        BY <1>1, <2>2 DEF Txn
  <2> HIDE DEF next
  <2>4. Sound(next)
        BY <1>1, <2>3, TxnFacts DEF Sound
  <2> QED BY <1>1, <2>1, <2>3, <2>4, TxnFacts, OneMoves
<1>3. CASE t.jobs # << >>
  <2>1. Step(c, lock)
        BY <1>3 DEF ReadJob
  <2>2. /\ lock \in Txn /\ lock.pc = "locking" /\ lock.queue = t.queue /\ lock.locks = t.locks
        /\ lock.scopes = t.scopes /\ lock.jobs = t.jobs
        BY <1>1 DEF Txn
  <2> HIDE DEF lock
  <2>3. Sound(lock)
        BY <1>1, <1>3, <2>2, TxnFacts DEF Sound
  <2> QED BY <1>1, <2>1, <2>2, <2>3, TxnFacts, OneMoves
<1> QED BY <1>2, <1>3

LEMMA NextLockFacts ==
    ASSUME AdmissionInv, NEW c \in Claimers, txn[c].pc = "locking", ~Locked(c)
    PROVE  NextLock(c) \in AdvisoryLocks
<1> DEFINE j == Head(txn[c].jobs)
           missing == Wanted(j) \ txn[c].locks
           a == <<HandlerOf[j], NoKey>>
           b == <<HandlerOf[j], KeyOf[j]>>
<1>1. j \in Jobs
      BY TxnFacts DEF Sound
<1>2. missing \subseteq {a, b} /\ a \in AdvisoryLocks /\ b \in AdvisoryLocks
      BY <1>1, ColumnsAssumption DEF Wanted, AdvisoryLocks
<1>3. missing # {}
      BY DEF Locked
<1>4. \E l \in missing : \A m \in missing \ {l} : Lower(l, m)
  <2> HIDE DEF missing, a, b
  <2>1. CASE missing = {a} \/ missing = {b}
        BY <2>1
  <2>2. CASE missing = {a, b} /\ a # b
        BY <1>2, <2>2, LocksAssumption
  <2> QED BY <1>2, <1>3, <2>1, <2>2
<1>5. NextLock(c) \in missing
      BY <1>4 DEF NextLock
<1> QED BY <1>2, <1>5

LEMMA LockInv ==
    ASSUME AdmissionInv, NEW c \in Claimers, Lock(c)
    PROVE  AdmissionInv'
<1> DEFINE t == txn[c]
           l == NextLock(c)
           u == [t EXCEPT !.locks = @ \cup {l}]
<1>1. /\ t \in Txn /\ t.pc = "locking" /\ Step(c, u) /\ Keep /\ ~Locked(c)
      /\ t.locks \in SUBSET AdvisoryLocks
      BY TxnFacts DEF Lock
<1>2. \A d \in Claimers \ {c} : l \notin txn[d].locks
      BY <1>1 DEF Lock, WaitsFor
<1>3. l \in AdvisoryLocks
      BY <1>1, NextLockFacts
<1> HIDE DEF l
<1>4. /\ u \in Txn /\ u.pc = "locking" /\ u.queue = t.queue /\ u.locks = t.locks \cup {l}
      /\ u.scopes = t.scopes /\ u.jobs = t.jobs
      BY <1>1, <1>3 DEF Txn
<1> HIDE DEF u
<1>5. Sound(u)
      BY <1>1, <1>4, TxnFacts DEF Sound
<1> QED BY <1>1, <1>2, <1>4, <1>5, TxnFacts, OneMoves

LEMMA CheckJobInv ==
    ASSUME AdmissionInv, NEW c \in Claimers, CheckJob(c)
    PROVE  AdmissionInv'
<1> DEFINE t == txn[c]
           j == Head(t.jobs)
           full == \/ AtCapacity(HandlerLimit, WithHandler(HandlerOf[j]))
                   \/ KeyOf[j] # NoKey /\ AtCapacity(KeyLimit, WithKey(HandlerOf[j], KeyOf[j]))
           skip == Skip(t)
           take == [t EXCEPT !.pc = "claiming"]
<1>1. /\ t \in Txn /\ t.pc = "locking" /\ Keep /\ t.jobs \in Seq(Jobs) /\ t.jobs # << >>
      /\ Wanted(j) \subseteq t.locks
      BY TxnFacts DEF CheckJob, Sound, Locked
<1>2. CASE full
  <2>1. Step(c, skip)
        BY <1>2 DEF CheckJob
  <2>2. /\ Tail(t.jobs) \in Seq(Jobs)
        /\ \A i \in DOMAIN Tail(t.jobs) : i + 1 \in DOMAIN t.jobs /\ Tail(t.jobs)[i] = t.jobs[i + 1]
        BY <1>1
  <2>3. /\ skip \in Txn /\ skip.pc = "jobs" /\ skip.queue = t.queue /\ skip.locks = t.locks
        /\ skip.scopes = t.scopes /\ skip.jobs = Tail(t.jobs)
        BY <1>1, <2>2 DEF Txn, Skip
  <2> HIDE DEF skip
  <2>4. Sound(skip)
        BY <1>1, <2>2, <2>3, TxnFacts DEF Sound
  <2> QED BY <1>1, <2>1, <2>3, <2>4, TxnFacts, OneMoves
<1>3. CASE ~full
  <2>1. Step(c, take)
        BY <1>3 DEF CheckJob
  <2>2. /\ take \in Txn /\ take.pc = "claiming" /\ take.queue = t.queue /\ take.locks = t.locks
        /\ take.scopes = t.scopes /\ take.jobs = t.jobs
        BY <1>1 DEF Txn
  <2> HIDE DEF take
  <2>3. Sound(take)
        BY <1>1, <1>3, <2>2, TxnFacts DEF Sound
  <2> QED BY <1>1, <2>1, <2>2, <2>3, TxnFacts, OneMoves
<1> QED BY <1>2, <1>3

\* A claim fills room that its transaction found under locks it has held since.
LEMMA ClaimInv ==
    ASSUME AdmissionInv, NEW c \in Claimers, Claim(c)
    PROVE  AdmissionInv'
<1> DEFINE t == txn[c]
           j == Head(t.jobs)
           q == t.queue
           sc == Head(t.scopes)
           h == HandlerOf[j]
           k == KeyOf[j]
<1>1. /\ t \in Txn /\ Sound(t) /\ t.pc = "claiming" /\ q \in Queues
      /\ t.jobs \in Seq(Jobs) /\ t.jobs # << >>
      BY TxnFacts DEF Claim, Sound
<1>2. j \in Jobs /\ j \in InScope(q, sc) /\ QueueOf[j] = q /\ ScopeOf[j] = sc /\ j \in InQueue(q)
      BY <1>1 DEF Sound, InScope, InQueue
<1>3. /\ status' = [status EXCEPT ![j] = "running"]
      /\ cursor' = [cursor EXCEPT ![q] = Served(@, ScopeOf[j])]
      /\ txn' = [txn EXCEPT ![c] = NoTxn] /\ paused' = paused
      BY DEF Claim, Step
<1>4. /\ AdmissionTypeOK
      /\ \A i \in Jobs : status'[i] = IF i = j THEN "running" ELSE status[i]
      /\ \A d \in Claimers : txn'[d] = IF d = c THEN NoTxn ELSE txn[d]
      BY <1>3 DEF AdmissionInv, AdmissionTypeOK
<1>5. AdmissionTypeOK'
  <2>1. status' \in [Jobs -> {"queued", "running", "done"}] /\ paused' \in SUBSET Queues
        BY <1>3, <1>4 DEF AdmissionTypeOK
  <2>2. cursor' \in [Queues -> SetToSeqs(Scopes)]
    <3>1. cursor[q] \in SetToSeqs(Scopes) /\ ScopeOf[j] \in Scopes
          BY <1>1, <1>2, <1>4, ColumnsAssumption DEF AdmissionTypeOK
    <3>2. Served(cursor[q], ScopeOf[j]) \in SetToSeqs(Scopes)
          BY <3>1, ServedFacts DEF Orders
    <3> QED BY <1>3, <1>4, <3>2 DEF AdmissionTypeOK
  <2>3. txn' \in [Claimers -> Txn]
        BY <1>3, <1>4, NoTxnFacts DEF AdmissionTypeOK
  <2> QED BY <2>1, <2>2, <2>3 DEF AdmissionTypeOK
<1>6. LocksHeldOnce'
      BY <1>4, NoTxnFacts DEF AdmissionInv, LocksHeldOnce
\* Room that does not concern j stays, and j fills room there was.
<1>7. ASSUME NEW set \in SUBSET Jobs, NEW limit \in Nat
      PROVE  /\ j \notin set /\ ~AtCapacity(limit, set) => ~AtCapacity(limit, set)'
             /\ j \notin set /\ Within(limit, set) => Within(limit, set)'
             /\ ~AtCapacity(limit, set) => Within(limit, set)'
      BY <1>2, <1>3, <1>4, RoomFacts
<1>8. LimitsHold'
  <2>1. ASSUME NEW p \in Queues
        PROVE  Within(QueueLimit, InQueue(p))'
    <3>1. Within(QueueLimit, InQueue(p)) /\ (p = q => ~AtCapacity(QueueLimit, InQueue(p)))
          BY <1>1 DEF AdmissionInv, LimitsHold, Sound
    <3>2. p # q => j \notin InQueue(p)
          BY <1>2 DEF InQueue
    <3>3. InQueue(p) \in SUBSET Jobs /\ QueueLimit \in Nat
          BY SubsetsFacts
    <3>4. Within(QueueLimit, InQueue(p))'
          BY <1>7, <3>1, <3>2, <3>3
    <3> QED BY <3>4
  <2>2. ASSUME NEW p \in Queues, NEW s \in Scopes
        PROVE  Within(ScopeLimit, InScope(p, s))'
    <3>1. Within(ScopeLimit, InScope(p, s))
          /\ (p = q /\ s = sc => ~AtCapacity(ScopeLimit, InScope(p, s)))
          BY <1>1 DEF AdmissionInv, LimitsHold, Sound
    <3>2. ~(p = q /\ s = sc) => j \notin InScope(p, s)
          BY <1>2 DEF InScope, InQueue
    <3>3. InScope(p, s) \in SUBSET Jobs /\ ScopeLimit \in Nat
          BY SubsetsFacts
    <3> QED BY <1>7, <3>1, <3>2, <3>3
  <2>3. ASSUME NEW g \in Handlers
        PROVE  Within(HandlerLimit, WithHandler(g))'
    <3>1. Within(HandlerLimit, WithHandler(g))
          /\ (g = h => ~AtCapacity(HandlerLimit, WithHandler(g)))
          BY <1>1 DEF AdmissionInv, LimitsHold, Sound
    <3>2. g # h => j \notin WithHandler(g)
          BY DEF WithHandler
    <3>3. WithHandler(g) \in SUBSET Jobs /\ HandlerLimit \in Nat
          BY SubsetsFacts
    <3> QED BY <1>7, <3>1, <3>2, <3>3
  <2>4. ASSUME NEW g \in Handlers, NEW m \in Keys
        PROVE  Within(KeyLimit, WithKey(g, m))'
    <3>1. Within(KeyLimit, WithKey(g, m))
          /\ (g = h /\ m = k => ~AtCapacity(KeyLimit, WithKey(g, m)))
          BY <1>1, ColumnsAssumption DEF AdmissionInv, LimitsHold, Sound
    <3>2. ~(g = h /\ m = k) => j \notin WithKey(g, m)
          BY DEF WithKey, WithHandler
    <3>3. WithKey(g, m) \in SUBSET Jobs /\ KeyLimit \in Nat
          BY SubsetsFacts
    <3> QED BY <1>7, <3>1, <3>2, <3>3
  <2> QED BY <2>1, <2>2, <2>3, <2>4 DEF LimitsHold
<1>9. ASSUME NEW d \in Claimers
      PROVE  Sound(txn[d])'
  <2>1. CASE d = c \/ txn[d].pc = "idle"
    <3>1. txn'[d].pc = "idle" /\ txn'[d].locks = {}
          BY <1>4, <2>1, NoTxnFacts, TxnFacts DEF Sound
    <3> QED BY <3>1 DEF Sound
  <2>2. CASE d # c /\ txn[d].pc # "idle"
    <3> DEFINE u == txn[d]
               i == Head(u.jobs)
    <3>1. /\ txn'[d] = u /\ u \in Txn /\ Sound(u) /\ u.queue # q /\ u.jobs \in Seq(Jobs)
          /\ t.locks \cap u.locks = {}
          BY <1>1, <1>4, <2>2, TxnFacts
    <3>2. j \notin InQueue(u.queue) /\ \A s \in Scopes : j \notin InScope(u.queue, s)
          BY <1>2, <3>1 DEF InQueue, InScope
    <3>3. ~AtCapacity(QueueLimit, InQueue(u.queue))'
      <4>1. ~AtCapacity(QueueLimit, InQueue(u.queue))
            BY <2>2, <3>1 DEF Sound
      <4>2. InQueue(u.queue) \in SUBSET Jobs /\ QueueLimit \in Nat
            BY SubsetsFacts
      <4> QED BY <1>7, <3>1, <3>2, <4>1, <4>2
    <3>4. u.pc \in {"jobs", "locking", "claiming"} =>
             /\ u.scopes # << >>
             /\ ~AtCapacity(ScopeLimit, InScope(u.queue, Head(u.scopes)))'
      <4>1. InScope(u.queue, Head(u.scopes)) \in SUBSET Jobs /\ ScopeLimit \in Nat
            BY SubsetsFacts
      <4>2. j \notin InScope(u.queue, Head(u.scopes))
            BY <1>2, <3>1 DEF InScope, InQueue
      <4> QED BY <1>7, <3>1, <4>1, <4>2 DEF Sound
    <3>5. u.pc \in {"jobs", "locking", "claiming"} =>
             \A n \in DOMAIN u.jobs : /\ u.jobs[n] \in InScope(u.queue, Head(u.scopes))
                                      /\ status'[u.jobs[n]] = "queued"
          BY <1>2, <1>4, <3>1, <3>2 DEF Sound, InScope, InQueue
    <3>6. u.pc = "claiming" => i \in Jobs /\ Wanted(i) \subseteq u.locks
          BY <3>1 DEF Sound
    <3>7. Wanted(j) \subseteq t.locks
          BY <1>1 DEF Sound
    <3>8. u.pc = "claiming" => ~AtCapacity(HandlerLimit, WithHandler(HandlerOf[i]))'
      <4>1. WithHandler(HandlerOf[i]) \in SUBSET Jobs /\ HandlerLimit \in Nat
            BY SubsetsFacts
      <4>2. CASE HandlerLimit = 0
            BY <4>2 DEF AtCapacity
      <4>3. CASE HandlerLimit # 0
        <5>1. <<h, NoKey>> \in Wanted(j) /\ <<HandlerOf[i], NoKey>> \in Wanted(i)
              BY <4>3 DEF Wanted
        <5>2. u.pc = "claiming" => HandlerOf[i] # h
              BY <3>1, <3>6, <3>7, <5>1
        <5>3. u.pc = "claiming" => j \notin WithHandler(HandlerOf[i])
              BY <5>2 DEF WithHandler
        <5> QED BY <1>7, <3>1, <4>1, <5>3 DEF Sound
      <4> QED BY <4>2, <4>3
    <3>9. u.pc = "claiming" /\ KeyOf[i] # NoKey =>
             ~AtCapacity(KeyLimit, WithKey(HandlerOf[i], KeyOf[i]))'
      <4>1. WithKey(HandlerOf[i], KeyOf[i]) \in SUBSET Jobs /\ KeyLimit \in Nat
            BY SubsetsFacts
      <4>2. CASE KeyLimit = 0
            BY <4>2 DEF AtCapacity
      <4>3. CASE KeyLimit # 0
        <5>1. /\ k # NoKey => <<h, k>> \in Wanted(j)
              /\ KeyOf[i] # NoKey => <<HandlerOf[i], KeyOf[i]>> \in Wanted(i)
              BY <4>3 DEF Wanted
        <5>2. u.pc = "claiming" /\ KeyOf[i] # NoKey => <<HandlerOf[i], KeyOf[i]>> # <<h, k>>
              BY <3>1, <3>6, <3>7, <5>1
        <5>3. u.pc = "claiming" /\ KeyOf[i] # NoKey => j \notin WithKey(HandlerOf[i], KeyOf[i])
              BY <5>2 DEF WithKey, WithHandler
        <5> QED BY <1>7, <3>1, <4>1, <5>3 DEF Sound
      <4> QED BY <4>2, <4>3
    <3>10. u.pc \in {"locking", "claiming"} => u.jobs # << >>
          BY <3>1 DEF Sound
    <3> HIDE DEF u
    <3> QED BY <2>2, <3>1, <3>3, <3>4, <3>5, <3>6, <3>8, <3>9, <3>10
            DEF Sound, AtCapacity, Running, u
  <2> QED BY <2>1, <2>2
<1> QED BY <1>5, <1>6, <1>8, <1>9 DEF AdmissionInv

\* A job that leaves makes room, and no transaction had it among its candidates.
LEMMA LeaveInv ==
    ASSUME AdmissionInv, NEW j \in Jobs, Leave(j)
    PROVE  AdmissionInv'
<1>1. PICK x \in {"queued", "done"} : status' = [status EXCEPT ![j] = x]
      BY DEF Leave
<1>2. /\ AdmissionTypeOK /\ status[j] = "running" /\ UNCHANGED <<cursor, paused, txn>>
      /\ \A i \in Jobs : status'[i] = IF i = j THEN x ELSE status[i]
      BY <1>1 DEF Leave, AdmissionInv, AdmissionTypeOK
<1>3. AdmissionTypeOK' /\ LocksHeldOnce'
      BY <1>1, <1>2 DEF AdmissionTypeOK, AdmissionInv, LocksHeldOnce
<1>4. ASSUME NEW set \in SUBSET Jobs, NEW limit \in Nat
      PROVE  /\ ~AtCapacity(limit, set) => ~AtCapacity(limit, set)'
             /\ Within(limit, set) => Within(limit, set)'
      BY <1>1, <1>2, RoomFacts
<1>5. LimitsHold'
  <2>1. ASSUME NEW q \in Queues PROVE Within(QueueLimit, InQueue(q))'
        BY <1>4, SubsetsFacts DEF AdmissionInv, LimitsHold
  <2>2. ASSUME NEW q \in Queues, NEW s \in Scopes PROVE Within(ScopeLimit, InScope(q, s))'
        BY <1>4, SubsetsFacts DEF AdmissionInv, LimitsHold
  <2>3. ASSUME NEW h \in Handlers PROVE Within(HandlerLimit, WithHandler(h))'
        BY <1>4, SubsetsFacts DEF AdmissionInv, LimitsHold
  <2>4. ASSUME NEW h \in Handlers, NEW k \in Keys PROVE Within(KeyLimit, WithKey(h, k))'
        BY <1>4, SubsetsFacts DEF AdmissionInv, LimitsHold
  <2> QED BY <2>1, <2>2, <2>3, <2>4 DEF LimitsHold
<1>6. ASSUME NEW c \in Claimers PROVE Sound(txn[c])'
  <2> DEFINE t == txn[c]
             i == Head(t.jobs)
  <2>1. txn'[c] = t /\ t \in Txn /\ Sound(t) /\ t.jobs \in Seq(Jobs)
        BY <1>2, TxnFacts
  <2>2. t.pc # "idle" => ~AtCapacity(QueueLimit, InQueue(t.queue))'
        BY <1>4, <2>1, SubsetsFacts DEF Sound
  <2>3. t.pc \in {"jobs", "locking", "claiming"} =>
            ~AtCapacity(ScopeLimit, InScope(t.queue, Head(t.scopes)))'
        BY <1>4, <2>1, SubsetsFacts DEF Sound
  <2>4. t.pc \in {"jobs", "locking", "claiming"} =>
            \A n \in DOMAIN t.jobs : status'[t.jobs[n]] = "queued"
        BY <1>2, <2>1 DEF Sound
  <2>5. t.pc = "claiming" => ~AtCapacity(HandlerLimit, WithHandler(HandlerOf[i]))'
        BY <1>4, <2>1, SubsetsFacts DEF Sound
  <2>6. t.pc = "claiming" /\ KeyOf[i] # NoKey =>
            ~AtCapacity(KeyLimit, WithKey(HandlerOf[i], KeyOf[i]))'
        BY <1>4, <2>1, SubsetsFacts DEF Sound
  <2> HIDE DEF t
  <2> QED BY <2>1, <2>2, <2>3, <2>4, <2>5, <2>6 DEF Sound, AtCapacity, Running, t
<1> QED BY <1>3, <1>5, <1>6 DEF AdmissionInv

\* Pausing a queue, and a step of something else, change nothing of it.
LEMMA OtherInv ==
    ASSUME AdmissionInv, UNCHANGED <<status, cursor, txn>>, paused' \in SUBSET Queues
    PROVE  AdmissionInv'
<1>1. AdmissionTypeOK' /\ LocksHeldOnce'
      BY DEF AdmissionInv, AdmissionTypeOK, LocksHeldOnce
<1>2. LimitsHold'
      BY DEF AdmissionInv, LimitsHold, Within, Running
<1>3. ASSUME NEW c \in Claimers PROVE Sound(txn[c])'
  <2>1. Sound(txn[c]) /\ txn'[c] = txn[c]
        BY DEF AdmissionInv
  <2> QED BY <2>1 DEF Sound, AtCapacity, Running
<1> QED BY <1>1, <1>2, <1>3 DEF AdmissionInv

LEMMA AdmissionStepInv == AdmissionInv /\ [AdmissionNext]_admissionVars => AdmissionInv'
<1> SUFFICES ASSUME AdmissionInv, [AdmissionNext]_admissionVars
             PROVE  AdmissionInv'
    OBVIOUS
<1>1. ASSUME NEW c \in Claimers, NEW q \in Queues, LockQueue(c, q) PROVE AdmissionInv'
      BY <1>1, LockQueueInv
<1>2. ASSUME NEW c \in Claimers, Transact(c) PROVE AdmissionInv'
  <2>1. CASE ReadScope(c)
        BY <2>1, ReadScopeInv
  <2>2. CASE NothingFound(c) \/ DeadlockAbort(c) \/ RefusePayload(c)
        BY <2>2, RollbackInv DEF NothingFound, DeadlockAbort, RefusePayload
  <2>3. CASE ReadJob(c)
        BY <2>3, ReadJobInv
  <2>4. CASE Lock(c)
        BY <2>4, LockInv
  <2>5. CASE CheckJob(c)
        BY <2>5, CheckJobInv
  <2>6. CASE Claim(c)
        BY <2>6, ClaimInv
  <2> QED BY <1>2, <2>1, <2>2, <2>3, <2>4, <2>5, <2>6 DEF Transact
<1>3. ASSUME NEW j \in Jobs, Leave(j) PROVE AdmissionInv'
      BY <1>3, LeaveInv
<1>4. ASSUME NEW q \in Queues, Configure(q) PROVE AdmissionInv'
  <2>1. paused' \in SUBSET Queues /\ UNCHANGED <<status, cursor, txn>>
        BY <1>4 DEF Configure, AdmissionInv, AdmissionTypeOK
  <2> QED BY <2>1, OtherInv
<1>5. CASE UNCHANGED admissionVars
      BY <1>5, OtherInv DEF admissionVars, AdmissionInv, AdmissionTypeOK
<1> QED BY <1>1, <1>2, <1>3, <1>4, <1>5 DEF AdmissionNext

-----------------------------------------------------------------------------
(* What holds of every behaviour                                             *)

\* The invariant holds of the claim transactions in every state they reach: what
\* a transaction counted under its locks is still so when it claims.
THEOREM AdmissionInvariant == AdmissionSpec => []AdmissionInv
<1>1. AdmissionInit => AdmissionInv
      BY AdmissionInitInv
<1>2. AdmissionInv /\ [AdmissionNext]_admissionVars => AdmissionInv'
      BY AdmissionStepInv
<1> QED BY <1>1, <1>2, PTL DEF AdmissionSpec

\* The tables and transactions keep their types; above all the dispatch cursor of a
\* queue stays an order of all scopes, each in one place, however often a claim moves
\* one of them to the end.
THEOREM AdmissionTypeCorrect == AdmissionSpec => []AdmissionTypeOK
<1>1. AdmissionInv => AdmissionTypeOK
      BY DEF AdmissionInv
<1> QED BY <1>1, AdmissionInvariant, PTL

\* Two transactions about to claim hold different queue rows, so that they are about
\* to claim jobs of different queues.
LEMMA ClaimsApart == AdmissionInv => ClaimsDistinct
<1> SUFFICES ASSUME AdmissionInv, NEW c \in Claimers, txn[c].pc = "claiming"
             PROVE  /\ status[Head(txn[c].jobs)] = "queued"
                    /\ \A d \in Claimers \ {c} :
                           txn[d].pc = "claiming" => Head(txn[d].jobs) # Head(txn[c].jobs)
    BY DEF ClaimsDistinct
<1>1. ASSUME NEW e \in Claimers, txn[e].pc = "claiming"
      PROVE  status[Head(txn[e].jobs)] = "queued" /\ QueueOf[Head(txn[e].jobs)] = txn[e].queue
  <2>1. /\ txn[e].jobs \in Seq(Jobs) /\ txn[e].jobs # << >>
        /\ \A i \in DOMAIN txn[e].jobs :
               /\ txn[e].jobs[i] \in InScope(txn[e].queue, Head(txn[e].scopes))
               /\ status[txn[e].jobs[i]] = "queued"
        BY <1>1, TxnFacts DEF Sound
  <2>2. 1 \in DOMAIN txn[e].jobs /\ Head(txn[e].jobs) = txn[e].jobs[1]
        BY <2>1
  <2> QED BY <2>1, <2>2 DEF InScope, InQueue
<1> QED BY <1>1, TxnFacts

\* However the claim transactions of any number of slots overlap, in one queue or in
\* several: no limit of queue, scope, handler or key is exceeded, and no job is claimed
\* twice.
THEOREM ClaimsAlwaysHold == AdmissionSpec => []ClaimsHold
<1>1. AdmissionInv => ClaimsHold
      BY ClaimsApart DEF AdmissionInv, ClaimsHold
<1> QED BY <1>1, AdmissionInvariant, PTL

=============================================================================
