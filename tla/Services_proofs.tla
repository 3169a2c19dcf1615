--------------------------- MODULE Services_proofs --------------------------
(* Proofs about five of the services, each for any value of its constants:   *)
(* SystemTask (any replicas, interval and length of the clock), JobListing   *)
(* (any jobs, times and size of a page), KnowledgeReviews (any proposals,    *)
(* memories and requests), RuntimeSettings (any administrators, workspaces,  *)
(* connections and changes) and SchemaMigrations (any cap of the retries and *)
(* number of attempts); and about the ten parts of MCServices together.      *)
EXTENDS MCServices, Identity_proofs, Chat_proofs, JobRequests_proofs,
        FiniteSetTheorems, SequenceTheorems, WellFoundedInduction, TLAPS

-----------------------------------------------------------------------------
(* The periodic task: its inductive invariant                                *)

\* What a running transaction that was not forced decided holds still: the
\* success it read is an interval behind the instant it read, and that instant is
\* not ahead of the clock.
DueWhenRunning ==
    \A r \in Replicas :
        /\ tick[r].now <= clock
        /\ tick[r].pc = "running" => tick[r].force \/ IsDue(tick[r].row, tick[r].now)

\* The object of a session is the row as it was read, which nobody had leased.
ReadUnleased ==
    \A r \in Replicas : tick[r].pc = "waiting" => tick[r].row.lockedBy = NoReplica

\* The inductive invariant of the periodic task.
TaskInv == TaskTypeOK /\ LeaseNeverLeft /\ DueWhenRunning /\ ReadUnleased

LEMMA TaskInitInv == TaskInit => TaskInv
BY TaskAssumption DEF TaskInit, TaskInv, TaskTypeOK, LeaseNeverLeft, DueWhenRunning,
   ReadUnleased, NewTask, NoTick, TaskRow, Tick

-----------------------------------------------------------------------------
(* The steps of the task                                                     *)

\* Only the tick of one replica changes, and the invariant holds of its new value.
LEMMA TickChanges ==
    ASSUME TaskInv, NEW r \in Replicas, NEW t \in Tick,
           tick' = [tick EXCEPT ![r] = t], UNCHANGED <<clock, task>>,
           t.now <= clock,
           t.pc = "running" => t.force \/ IsDue(t.row, t.now),
           t.pc = "waiting" => t.row.lockedBy = NoReplica
    PROVE  TaskInv'
<1>1. TaskTypeOK'
      BY DEF TaskInv, TaskTypeOK
<1>2. \A q \in Replicas : tick'[q] = IF q = r THEN t ELSE tick[q]
      BY DEF TaskInv, TaskTypeOK
<1>3. LeaseNeverLeft' /\ DueWhenRunning' /\ ReadUnleased'
      BY <1>2 DEF TaskInv, LeaseNeverLeft, DueWhenRunning, ReadUnleased, IsDue
<1> QED BY <1>1, <1>3 DEF TaskInv

LEMMA NoTickFacts ==
    TaskInv => NoTick \in Tick /\ NoTick.now = 0 /\ NoTick.pc = "idle" /\ 0 <= clock
BY TaskAssumption DEF TaskInv, TaskTypeOK, NoTick, NewTask, Tick, TaskRow

LEMMA StartTaskTickInv ==
    ASSUME TaskInv, NEW r \in Replicas, NEW f \in BOOLEAN, StartTaskTick(r, f)
    PROVE  TaskInv'
<1> DEFINE t == [pc |-> "waiting", now |-> clock, force |-> f, row |-> task]
<1>1. t \in Tick
      BY DEF TaskInv, TaskTypeOK, Tick
<1>2. t.now <= clock /\ t.pc = "waiting" /\ t.row.lockedBy = NoReplica
      BY DEF TaskInv, TaskTypeOK, LeaseNeverLeft
<1>3. tick' = [tick EXCEPT ![r] = t] /\ UNCHANGED <<clock, task>>
      BY DEF StartTaskTick
<1> HIDE DEF t
<1> QED BY <1>1, <1>2, <1>3, TickChanges

LEMMA TryLeaseInv ==
    ASSUME TaskInv, NEW r \in Replicas, TryLease(r)
    PROVE  TaskInv'
<1> DEFINE t == tick[r]
           row == [t.row EXCEPT !.lockedBy = r, !.status = "running",
                                !.lockedUntil = t.now + Interval]
           u == [t EXCEPT !.pc = "running", !.row = row]
<1>1. /\ t \in Tick /\ t.now <= clock /\ t.row \in TaskRow
      /\ UNCHANGED <<clock, task>>
      BY DEF TaskInv, TaskTypeOK, DueWhenRunning, Tick, TryLease
<1>2. CASE LeasedByOther(r, t.row, t.now) \/ ~(t.force \/ IsDue(t.row, t.now))
      <2>1. tick' = [tick EXCEPT ![r] = NoTick]
            BY <1>2 DEF TryLease
      <2> QED BY <1>1, <2>1, NoTickFacts, TickChanges
<1>3. CASE ~(LeasedByOther(r, t.row, t.now) \/ ~(t.force \/ IsDue(t.row, t.now)))
      <2>1. tick' = [tick EXCEPT ![r] = u]
            BY <1>3 DEF TryLease
      <2>2. t.now + Interval \in 0..(MaxClock + Interval)
            BY <1>1, TaskAssumption DEF Tick
      <2>3. row \in TaskRow /\ row.succeeded = t.row.succeeded
            BY <1>1, <2>2 DEF TaskRow
      <2> HIDE DEF row
      <2>4. u \in Tick /\ u.now = t.now /\ u.force = t.force /\ u.pc = "running" /\ u.row = row
            BY <1>1, <2>3 DEF Tick
      <2>5. u.force \/ IsDue(u.row, u.now)
            BY <1>3, <2>3, <2>4 DEF IsDue
      <2> HIDE DEF u, t
      <2> QED BY <1>1, <2>1, <2>4, <2>5, TickChanges
<1> QED BY <1>2, <1>3

LEMMA LostInv ==
    ASSUME TaskInv, NEW r \in Replicas, Lost(r)
    PROVE  TaskInv'
BY NoTickFacts, TickChanges DEF Lost

LEMMA CloseInv ==
    ASSUME TaskInv, NEW r \in Replicas, NEW s \in {"succeeded", "failed"}, Close(r, s)
    PROVE  TaskInv'
<1> DEFINE row == tick[r].row
           at == IF s = "succeeded" THEN clock ELSE task.succeeded
           new == [row EXCEPT !.status = s, !.lockedBy = NoReplica, !.lockedUntil = 0,
                              !.succeeded = at]
<1>1. row \in TaskRow /\ at \in 0..MaxClock /\ 0 \in 0..(MaxClock + Interval)
      BY TaskAssumption DEF TaskInv, TaskTypeOK, Tick, TaskRow
<1>2. task' = new /\ tick' = [tick EXCEPT ![r] = NoTick] /\ clock' = clock
      BY DEF Close
<1> HIDE DEF row, at
<1>3. new \in TaskRow /\ new.lockedBy = NoReplica
      BY <1>1 DEF TaskRow
<1> HIDE DEF new
<1>4. TaskTypeOK' /\ LeaseNeverLeft'
      BY <1>2, <1>3, NoTickFacts DEF TaskInv, TaskTypeOK, LeaseNeverLeft
<1>5. \A q \in Replicas : tick'[q] = IF q = r THEN NoTick ELSE tick[q]
      BY <1>2 DEF TaskInv, TaskTypeOK
<1>6. DueWhenRunning' /\ ReadUnleased'
      BY <1>2, <1>5, NoTickFacts DEF TaskInv, DueWhenRunning, ReadUnleased, IsDue
<1> QED BY <1>4, <1>6 DEF TaskInv

LEMMA TimePassesInv ==
    ASSUME TaskInv, TimePasses
    PROVE  TaskInv'
<1>1. clock' \in 1..MaxClock /\ clock <= clock' /\ UNCHANGED <<task, tick>>
      BY TaskAssumption DEF TaskInv, TaskTypeOK, TimePasses
<1>2. TaskTypeOK' /\ LeaseNeverLeft' /\ ReadUnleased'
      BY <1>1 DEF TaskInv, TaskTypeOK, LeaseNeverLeft, ReadUnleased
<1>3. DueWhenRunning'
      BY <1>1, TaskAssumption DEF TaskInv, TaskTypeOK, DueWhenRunning, IsDue, Tick
<1> QED BY <1>2, <1>3 DEF TaskInv

LEMMA TaskStepInv == TaskInv /\ [TaskNext]_taskVars => TaskInv'
<1> SUFFICES ASSUME TaskInv, [TaskNext]_taskVars PROVE TaskInv'
    OBVIOUS
<1>1. CASE UNCHANGED taskVars
      BY <1>1 DEF TaskInv, TaskTypeOK, LeaseNeverLeft, DueWhenRunning, ReadUnleased,
                  IsDue, taskVars
<1>2. CASE TimePasses
      BY <1>2, TimePassesInv
<1>3. ASSUME NEW r \in Replicas, \E f \in BOOLEAN : StartTaskTick(r, f) PROVE TaskInv'
      BY <1>3, StartTaskTickInv
<1>4. ASSUME NEW r \in Replicas, TryLease(r) PROVE TaskInv'
      BY <1>4, TryLeaseInv
<1>5. ASSUME NEW r \in Replicas, Lost(r) PROVE TaskInv'
      BY <1>5, LostInv
<1>6. ASSUME NEW r \in Replicas, \E s \in {"succeeded", "failed"} : Close(r, s)
      PROVE  TaskInv'
      BY <1>6, CloseInv
<1> QED BY <1>1, <1>2, <1>3, <1>4, <1>5, <1>6 DEF TaskNext

-----------------------------------------------------------------------------
(* The theorems about the task                                               *)

LEMMA TaskInvHolds == TaskSpec => []TaskInv
BY TaskInitInv, TaskStepInv, PTL DEF TaskSpec

\* A step that closes a run with success, unless it was forced or had an outdated
\* row, comes an interval after the last success.
KeepsInterval(r) ==
    Succeeds(r) /\ task # task' /\ task.succeeded # 0 /\ clock - task.succeeded < Interval =>
        tick[r].force \/ tick[r].row.succeeded # task.succeeded

LEMMA StepKeepsInterval ==
    ASSUME TaskInv, [TaskNext]_taskVars, NEW r \in Replicas
    PROVE  KeepsInterval(r)
<1> SUFFICES ASSUME Succeeds(r), task # task', task.succeeded # 0,
                    clock - task.succeeded < Interval,
                    ~tick[r].force, tick[r].row.succeeded = task.succeeded
             PROVE  FALSE
    BY DEF KeepsInterval
<1>1. IsDue(tick[r].row, tick[r].now) /\ tick[r].now <= clock
      BY DEF TaskInv, DueWhenRunning, Succeeds
<1>2. /\ tick[r].now \in Nat /\ task.succeeded \in Nat /\ clock \in Nat
      BY DEF TaskInv, TaskTypeOK, Tick, TaskRow
<1>3. tick[r].now - task.succeeded >= Interval
      BY <1>1 DEF IsDue
<1> QED BY <1>1, <1>2, <1>3, TaskAssumption

\* The rows of the task and of the ticks keep their types.
THEOREM TaskTypeCorrect == TaskSpec => []TaskTypeOK
<1>1. TaskInv => TaskTypeOK
      BY DEF TaskInv
<1> QED BY <1>1, TaskInvHolds, PTL

\* However many replicas tick, crash and fail: no lease outlives its transaction,
\* and two successes of the periodic task are an interval apart unless the second
\* was forced or decided on a row read before the first.
THEOREM TimeIsKept == TaskSpec => TaskKeepsTime
<1>1. TaskInv => LeaseNeverLeft
      BY DEF TaskInv
<1>2. TaskInv /\ [TaskNext]_taskVars => [\A r \in Replicas : KeepsInterval(r)]_taskVars
      BY StepKeepsInterval
<1>3. TaskSpec => IntervalKept
      BY <1>2, TaskInvHolds, PTL DEF TaskSpec, IntervalKept, KeepsInterval
<1> QED BY <1>1, <1>3, TaskInvHolds, PTL DEF TaskKeepsTime

-----------------------------------------------------------------------------
(* The order of a listing                                                    *)

LEMMA LeastNumber ==
    ASSUME NEW set \in SUBSET Nat, set # {}
    PROVE  \E x \in set : \A y \in set : x <= y
<1>1. PICK x \in set : \A y \in set : ~(<<y, x>> \in OpToRel(<, Nat))
      BY NatLessThanWellFounded, WFMin
<1>2. ASSUME NEW y \in set, y < x PROVE <<y, x>> \in OpToRel(<, Nat)
  <2>1. <<y, x>> \in Nat \X Nat /\ <<y, x>>[1] < <<y, x>>[2]
        BY <1>2
  <2>2. OpToRel(<, Nat) = {ss \in Nat \X Nat : ss[1] < ss[2]}
        BY DEF OpToRel
  <2> QED BY <2>1, <2>2
<1>3. \A y \in set : ~(y < x)
      BY <1>1, <1>2, Zenon
<1>4. x \in Nat /\ \A y \in set : y \in Nat
      OBVIOUS
<1> QED BY <1>3, <1>4

\* The jobs before one of a set: a job that precedes another has fewer.
Place(S, j) == Cardinality({i \in S : Precedes(i, j)})

LEMMA OrderFacts ==
    ASSUME ListingTypeOK
    PROVE  /\ \A j \in ListedIds : createdAt[j] \in Nat /\ j \in Nat
           /\ \A i, j \in ListedIds : i # j => Precedes(i, j) \/ Precedes(j, i)
           /\ \A i, j \in ListedIds : Precedes(i, j) => ~Precedes(j, i) /\ i # j
           /\ \A i, j, k \in ListedIds : Precedes(i, j) /\ Precedes(j, k) => Precedes(i, k)
<1>1. ASSUME NEW j \in ListedIds PROVE createdAt[j] \in Nat /\ j \in Nat
  <2>1. createdAt[j] \in Times \cup {0}
        BY DEF ListingTypeOK
  <2>2. j \in Nat /\ (Times \cup {0}) \subseteq Nat
        BY ListingAssumption
  <2> QED BY <2>1, <2>2
<1> QED BY <1>1 DEF Precedes

LEMMA PlaceFacts ==
    ASSUME ListingTypeOK, NEW S \in SUBSET ListedIds
    PROVE  /\ IsFiniteSet(S)
           /\ \A j \in S : Place(S, j) \in Nat /\ Place(S, j) < Cardinality(S)
           /\ \A i, j \in S : Precedes(i, j) => Place(S, i) < Place(S, j)
<1>1. IsFiniteSet(S) /\ Cardinality(S) \in Nat
      BY ListingAssumption, FS_Subset, FS_CardinalityType
<1> DEFINE B(j) == {i \in S : Precedes(i, j)}
<1>2. ASSUME NEW T \in SUBSET S, NEW U \in SUBSET S, T \subseteq U, T # U
      PROVE  Cardinality(T) \in Nat /\ Cardinality(U) \in Nat /\ Cardinality(T) < Cardinality(U)
      BY <1>1, <1>2, FS_Subset, FS_CardinalityType
<1>3. ASSUME NEW j \in S
      PROVE  Place(S, j) \in Nat /\ Place(S, j) < Cardinality(S)
  <2>1. B(j) \in SUBSET S /\ j \notin B(j)
        BY OrderFacts
  <2> QED BY <1>2, <2>1 DEF Place
<1>4. ASSUME NEW i \in S, NEW j \in S, Precedes(i, j)
      PROVE  Place(S, i) < Place(S, j)
  <2>1. B(i) \subseteq B(j) /\ i \in B(j) /\ i \notin B(i)
        BY <1>4, OrderFacts
  <2> QED BY <1>2, <2>1 DEF Place
<1> QED BY <1>1, <1>3, <1>4

\* Of a set of jobs that is not empty one is the first and one is the last.
LEMMA EndsFacts ==
    ASSUME ListingTypeOK, NEW S \in SUBSET ListedIds, S # {}
    PROVE  /\ \E j \in S : \A i \in S \ {j} : Precedes(j, i)
           /\ \E j \in S : \A i \in S \ {j} : Precedes(i, j)
<1> DEFINE C == Cardinality(S)
<1>1. IsFiniteSet(S) /\ C \in Nat
      BY PlaceFacts, FS_CardinalityType
<1>2. \A j \in S : Place(S, j) \in Nat /\ Place(S, j) < C
      BY PlaceFacts
<1>3. \A i, j \in S : Precedes(i, j) => Place(S, i) < Place(S, j)
      BY PlaceFacts
<1>4. \A i, j \in S : i # j => Precedes(i, j) \/ Precedes(j, i)
      BY OrderFacts
<1> HIDE DEF C
<1>5. \E j \in S : \A i \in S \ {j} : Precedes(j, i)
  <2> DEFINE places == {Place(S, j) : j \in S}
  <2>1. places \in SUBSET Nat /\ places # {}
        BY <1>2
  <2>2. PICK x \in places : \A y \in places : x <= y
        BY <2>1, LeastNumber
  <2>3. PICK j \in S : x = Place(S, j)
        BY <2>2
  <2>4. ASSUME NEW i \in S \ {j} PROVE Precedes(j, i)
    <3>1. Place(S, j) <= Place(S, i) /\ Place(S, i) \in Nat /\ Place(S, j) \in Nat
          BY <1>2, <2>2, <2>3
    <3> QED BY <1>3, <1>4, <3>1
  <2> QED BY <2>4
<1>6. \E j \in S : \A i \in S \ {j} : Precedes(i, j)
  <2> DEFINE places == {C - Place(S, j) : j \in S}
  <2>1. places \in SUBSET Nat /\ places # {}
        BY <1>1, <1>2
  <2>2. PICK x \in places : \A y \in places : x <= y
        BY <2>1, LeastNumber
  <2>3. PICK j \in S : x = C - Place(S, j)
        BY <2>2
  <2>4. ASSUME NEW i \in S \ {j} PROVE Precedes(i, j)
    <3>1. C - Place(S, j) <= C - Place(S, i) /\ Place(S, i) \in Nat /\ Place(S, j) \in Nat
          BY <1>2, <2>2, <2>3
    <3> QED BY <1>1, <1>3, <1>4, <3>1
  <2> QED BY <2>4
<1> QED BY <1>5, <1>6

\* A page: all there is, or a page that ends in a job with the rest behind it.
LEMMA PageFacts ==
    ASSUME ListingTypeOK, NEW S \in SUBSET ListedIds
    PROVE  /\ Cardinality(S) \in Nat
           /\ ~(Cardinality(S) > PageLimit) => FirstOf(S, PageLimit) = S
           /\ Cardinality(S) > PageLimit =>
                  \E j \in FirstOf(S, PageLimit) :
                      /\ \A i \in FirstOf(S, PageLimit) \ {j} : Precedes(i, j)
                      /\ \A i \in S \ FirstOf(S, PageLimit) : Precedes(j, i)
<1>1. /\ Cardinality(S) \in Nat
      /\ \A j \in S : Place(S, j) \in Nat /\ Place(S, j) < Cardinality(S)
      /\ \A i, j \in S : Precedes(i, j) => Place(S, i) < Place(S, j)
      BY PlaceFacts, FS_CardinalityType
<1>2. PageLimit \in Nat \ {0}
      BY ListingAssumption
<1>3. FirstOf(S, PageLimit) = {j \in S : Place(S, j) < PageLimit}
      BY DEF FirstOf, Place
<1>4. CASE ~(Cardinality(S) > PageLimit)
      BY <1>1, <1>2, <1>3, <1>4
<1>5. CASE Cardinality(S) > PageLimit
  <2> DEFINE V == {j \in S : Place(S, j) < PageLimit}
  <2>1. S # {}
        BY <1>2, <1>5, FS_EmptySet
  <2>2. PICK f \in S : \A i \in S \ {f} : Precedes(f, i)
        BY <2>1, EndsFacts
  <2>3. {i \in S : Precedes(i, f)} = {}
        BY <2>2, OrderFacts
  <2>4. f \in V
        BY <1>2, <2>3, FS_EmptySet DEF Place
  <2>5. PICK j \in V : \A i \in V \ {j} : Precedes(i, j)
    <3> HIDE DEF V
    <3>1. V \in SUBSET ListedIds
          BY DEF V
    <3>2. \A X \in SUBSET ListedIds : X # {} => \E j \in X : \A i \in X \ {j} : Precedes(i, j)
          BY EndsFacts, Zenon
    <3> QED BY <2>4, <3>1, <3>2, Zenon
  <2>6. ASSUME NEW i \in S \ V PROVE Precedes(j, i)
    <3>1. ~Precedes(i, j)
          BY <1>1, <1>2
    <3> QED BY <3>1, OrderFacts
  <2> QED BY <1>1, <1>3, <1>5, <2>5, <2>6
<1> QED BY <1>1, <1>4, <1>5

-----------------------------------------------------------------------------
(* The inductive invariant of a listing                                      *)

\* What the client got stands before its cursor, and what it lacks of the jobs that
\* were there stands behind it.
ListingInv ==
    /\ ListingTypeOK
    /\ listing.twice = {}
    /\ listing.state = "idle" =>
           listing.cursor = <<>> /\ listing.first = {} /\ listing.seen = {}
    /\ listing.state = "open" =>
           /\ listing.cursor # <<>>
           /\ \A j \in listing.seen \cap Listed : ~Behind(j, listing.cursor)
           /\ \A j \in (listing.first \cap Listed) \ listing.seen : Behind(j, listing.cursor)
    /\ ListingComplete

LEMMA ListingInitInv == ListingInit => ListingInv
<1> SUFFICES ASSUME ListingInit PROVE ListingInv
    OBVIOUS
<1>1. listing \in Listing
      BY DEF ListingInit, Listing
<1> QED BY <1>1 DEF ListingInit, ListingInv, ListingTypeOK, ListingComplete

LEMMA JobsChangeInv ==
    ASSUME ListingInv, UNCHANGED listing, NEW j \in ListedIds, NEW t \in Times \cup {0},
           createdAt' = [createdAt EXCEPT ![j] = t],
           t # 0 => j \notin listing.first \cup listing.seen
    PROVE  ListingInv'
<1>1. /\ createdAt \in [ListedIds -> Times \cup {0}] /\ ListingTypeOK'
      BY DEF ListingInv, ListingTypeOK
<1>2. \A i \in ListedIds : i \in Listed' => i \in Listed \/ (i = j /\ t # 0)
      BY <1>1 DEF Listed
<1>3. \A i \in ListedIds : i # j => createdAt'[i] = createdAt[i]
      BY <1>1
<1>4. listing.first \subseteq ListedIds /\ listing.seen \subseteq ListedIds /\ Listed' \subseteq ListedIds
      BY <1>1 DEF ListingInv, ListingTypeOK, Listing, Listed
<1>5. \A i \in (listing.first \cup listing.seen) \cap Listed' :
          i \in Listed /\ (i # j)
  <2> SUFFICES ASSUME NEW i \in (listing.first \cup listing.seen) \cap Listed'
               PROVE  i \in Listed /\ i # j
      OBVIOUS
  <2>1. i \in ListedIds /\ createdAt'[i] # 0
        BY <1>4 DEF Listed
  <2>2. i # j
        BY <1>1, <2>1
  <2> QED BY <1>3, <2>1, <2>2 DEF Listed
<1>6. \A i \in (listing.first \cup listing.seen) \cap Listed' :
          Behind(i, listing.cursor)' <=> Behind(i, listing.cursor)
      BY <1>3, <1>4, <1>5 DEF Behind
<1> QED BY <1>1, <1>5, <1>6 DEF ListingInv, ListingComplete

LEMMA ReadPageInv == ASSUME ListingInv, ReadPage PROVE ListingInv'
<1> DEFINE cursor == listing.cursor
           rest == {j \in Listed : Behind(j, cursor)}
           visible == FirstOf(rest, PageLimit)
           more == Cardinality(rest) > PageLimit
           last == CHOOSE j \in visible : \A i \in visible \ {j} : Precedes(i, j)
           next == IF more THEN <<createdAt[last], last>> ELSE cursor
           first == IF listing.state = "idle" THEN Listed ELSE listing.first
<1>1. /\ listing.state # "done" /\ UNCHANGED <<createdAt, Listed>>
      /\ listing' = [state |-> IF more THEN "open" ELSE "done", cursor |-> next, first |-> first,
                     seen |-> listing.seen \cup visible,
                     twice |-> listing.twice \cup (visible \cap listing.seen)]
      BY DEF ReadPage, Listed
<1>2. /\ listing \in Listing /\ listing.twice = {} /\ ListingTypeOK
      /\ createdAt \in [ListedIds -> Times \cup {0}]
      /\ Listed \subseteq ListedIds /\ listing.first \subseteq ListedIds /\ listing.seen \subseteq ListedIds
      BY DEF ListingInv, ListingTypeOK, Listing, Listed
<1>3. rest \subseteq Listed /\ rest \in SUBSET ListedIds /\ visible \subseteq rest
      BY <1>2 DEF FirstOf
<1>4. /\ ~more => visible = rest
      /\ more => /\ last \in visible
                 /\ \A i \in visible \ {last} : Precedes(i, last)
                 /\ \A i \in rest \ visible : Precedes(last, i)
  <2>1. ~more => visible = rest
        BY <1>2, <1>3, PageFacts
  <2>2. ASSUME more
        PROVE  /\ last \in visible /\ \A i \in visible \ {last} : Precedes(i, last)
               /\ \A i \in rest \ visible : Precedes(last, i)
    <3>1. PICK j \in visible : /\ \A i \in visible \ {j} : Precedes(i, j)
                               /\ \A i \in rest \ visible : Precedes(j, i)
          BY <1>2, <1>3, <2>2, PageFacts
    <3>2. last \in visible /\ \A i \in visible \ {last} : Precedes(i, last)
          BY <3>1
    <3>3. last = j
          BY <1>2, <1>3, <3>1, <3>2, OrderFacts
    <3> QED BY <3>1, <3>2, <3>3
  <2> QED BY <2>1, <2>2
<1>5. /\ visible \cap listing.seen = {}
      /\ \A j \in (first \cap Listed) \ listing.seen : j \in rest
      /\ first \subseteq ListedIds
  <2>1. CASE listing.state = "idle"
        BY <1>2, <2>1 DEF ListingInv, Behind
  <2>2. CASE listing.state = "open"
        BY <1>2, <1>3, <2>2 DEF ListingInv
  <2> QED BY <1>1, <1>2, <2>1, <2>2 DEF Listing
<1> HIDE DEF visible, last
<1>6. more => /\ createdAt[last] \in Times /\ last \in ListedIds
  <2> SUFFICES ASSUME more PROVE createdAt[last] \in Times /\ last \in ListedIds
      OBVIOUS
  <2>1. last \in Listed
        BY <1>3, <1>4
  <2> QED BY <1>2, <2>1 DEF Listed
<1>7. ListingTypeOK'
  <2>1. next \in {<<>>} \cup (Times \X ListedIds)
        BY <1>2, <1>6 DEF Listing
  <2>2. listing.seen \cup visible \subseteq ListedIds
        BY <1>2, <1>3
  <2>3. listing.twice \cup (visible \cap listing.seen) = {}
        BY <1>2, <1>5
  <2> HIDE DEF next, first, more, rest
  <2> QED BY <1>1, <1>2, <1>5, <2>1, <2>2, <2>3 DEF ListingTypeOK, Listing
<1>8. CASE ~more
  <2>1. listing'.state = "done" /\ listing'.first = first /\ listing'.seen = listing.seen \cup visible
        /\ listing'.twice = {}
        BY <1>1, <1>2, <1>5, <1>8
  <2>2. first \cap Listed \subseteq listing.seen \cup visible
        BY <1>4, <1>5, <1>8
  <2> HIDE DEF first, more, rest
  <2> QED BY <1>1, <1>7, <2>1, <2>2 DEF ListingInv, ListingComplete
<1>9. CASE more
  <2>1. /\ listing'.state = "open" /\ listing'.first = first /\ listing'.seen = listing.seen \cup visible
        /\ listing'.twice = {} /\ listing'.cursor = <<createdAt[last], last>>
        BY <1>1, <1>2, <1>5, <1>9
  <2>2. last \in rest /\ last \in ListedIds /\ \A j \in ListedIds : createdAt[j] \in Nat /\ j \in Nat
        BY <1>2, <1>3, <1>4, <1>6, <1>9, OrderFacts
  <2>3. \A j \in ListedIds : Behind(j, <<createdAt[last], last>>) <=> Precedes(last, j)
        BY <2>2 DEF Behind, Precedes
  <2>4. ASSUME NEW j \in listing.seen \cap Listed PROVE ~Precedes(last, j)
    <3>1. listing.state = "open" /\ cursor # <<>> /\ ~Behind(j, cursor)
          BY <1>1, <1>2 DEF ListingInv, Listing
    <3>2. Behind(last, cursor)
          BY <2>2
    <3>3. cursor \in Times \X ListedIds
          BY <1>2, <3>1 DEF Listing
    <3>4. cursor[1] \in Nat /\ cursor[2] \in Nat /\ j \in ListedIds
          BY <1>2, <3>3, ListingAssumption
    <3> QED BY <2>2, <3>1, <3>2, <3>4 DEF Behind, Precedes
  <2>5. ASSUME NEW j \in visible PROVE ~Precedes(last, j)
        BY <1>2, <1>3, <1>4, <1>9, <2>2, OrderFacts
  <2>6. ASSUME NEW j \in (first \cap Listed) \ (listing.seen \cup visible) PROVE Precedes(last, j)
        BY <1>4, <1>5, <1>9
  <2> HIDE DEF first, more, rest
  <2>7. \A j \in listing'.seen \cap Listed : ~Behind(j, listing'.cursor)
        BY <1>2, <2>1, <2>3, <2>4, <2>5
  <2>8. \A j \in (listing'.first \cap Listed) \ listing'.seen : Behind(j, listing'.cursor)
        BY <1>2, <2>1, <2>3, <2>6
  <2> QED BY <1>1, <1>7, <2>1, <2>7, <2>8 DEF ListingInv, ListingComplete, Behind
<1> QED BY <1>8, <1>9

LEMMA ListingStepInv == ListingInv /\ [ListingNext]_listingVars => ListingInv'
<1> SUFFICES ASSUME ListingInv, [ListingNext]_listingVars PROVE ListingInv'
    OBVIOUS
<1>1. CASE ReadPage
      BY <1>1, ReadPageInv
<1>2. ASSUME NEW j \in ListedIds, JobDisappears(j) PROVE ListingInv'
      BY <1>2, JobsChangeInv DEF JobDisappears
<1>3. ASSUME NEW j \in ListedIds, NEW t \in Times, JobAppears(j, t) PROVE ListingInv'
      BY <1>3, JobsChangeInv DEF JobAppears
<1>4. CASE UNCHANGED listingVars
      BY <1>4 DEF listingVars, ListingInv, ListingTypeOK, ListingComplete, Listed, Behind
<1> QED BY <1>1, <1>2, <1>3, <1>4 DEF ListingNext

LEMMA ListingInvHolds == ListingSpec => []ListingInv
BY ListingInitInv, ListingStepInv, PTL DEF ListingSpec

\* For any page size and however many jobs come and go between two pages, before or
\* behind the cursor: a listing that went to its end has shown every job that was
\* there all the time, and none twice.
THEOREM ListingsAreComplete == ListingSpec => []ListingComplete
<1>1. ListingInv => ListingComplete
      BY DEF ListingInv
<1> QED BY <1>1, ListingInvHolds, PTL

-----------------------------------------------------------------------------
(* The inductive invariant of the reviews                                    *)

Approves(r) == At(r, "ok") /\ review[r].op \in {"approve", "refineApprove"}

\* A request names a row that is there; one that has created the source of a
\* proposal, and has not committed it, found none.
ReviewFits(r) ==
    /\ review[r].op \in ProposalOps =>
           review[r].of \in Proposals /\ proposal[review[r].of].status # "none"
    /\ review[r].op \in MemoryOps =>
           review[r].of \in Memories /\ memory[review[r].of].status # "none"
    /\ At(r, "asked") => review[r].op # "none"
    /\ At(r, "refined") => review[r].op = "refineApprove"
    /\ At(r, "sourced") =>
           review[r].op \in {"approve", "refineApprove"} /\ source[review[r].of] = {}

\* The name of a source is inserted by one transaction at a time.
NamesApart ==
    \A r, q \in Reviews :
        At(r, "sourced") /\ At(q, "sourced") /\ review[r].of = review[q].of => r = q

\* A proposal has a source or none, and says which; it has one once an approval was
\* answered, of which there is one.
SourceFits(p) ==
    /\ source[p] = {} \/ \E a \in Author : source[p] = {a}
    /\ proposal[p].status = "none" => source[p] = {}
    /\ source[p] # {} <=> proposal[p].hasSource
    /\ \A r \in Reviews : Approves(r) /\ review[r].of = p => source[p] # {}
    /\ \A r, q \in Reviews :
           Approves(r) /\ Approves(q) /\ review[r].of = p /\ review[q].of = p => r = q

\* A memory that was reviewed says what the last review said, and the other way
\* round.
MemoryFits(m) ==
    /\ lastReview[m] # "none" => memory[m].status = lastReview[m]
    /\ memory[m].status \in {"approved", "rejected"} => lastReview[m] = memory[m].status

ReviewsInv ==
    /\ ReviewsTypeOK
    /\ NamesApart
    /\ \A r \in Reviews : ReviewFits(r)
    /\ \A p \in Proposals : SourceFits(p)
    /\ \A m \in Memories : MemoryFits(m)

NoRow == [pc |-> "idle", op |-> "none", of |-> NoReview, seen |-> NoReview]

LEMMA NoRowFacts == NoRow \in Review
BY DEF NoRow, Review, Author

LEMMA ReviewsInitInv == ReviewsInit => ReviewsInv
<1> SUFFICES ASSUME ReviewsInit PROVE ReviewsInv
    OBVIOUS
<1>1. review = [r \in Reviews |-> NoRow]
      BY DEF ReviewsInit, NoRow
<1>2. ReviewsTypeOK
      BY <1>1, NoRowFacts DEF ReviewsInit, ReviewsTypeOK, Proposal, Author, Memory
<1>3. \A r \in Reviews : review[r].pc = "idle" /\ review[r].op = "none"
      BY <1>1 DEF NoRow
<1>4. NamesApart /\ \A r \in Reviews : ReviewFits(r)
      BY <1>3 DEF NamesApart, ReviewFits, At, ProposalOps, MemoryOps
<1>5. \A p \in Proposals : SourceFits(p)
      BY <1>3 DEF ReviewsInit, SourceFits, Approves, At
<1>6. \A m \in Memories : MemoryFits(m)
      BY DEF ReviewsInit, MemoryFits
<1> QED BY <1>2, <1>4, <1>5, <1>6 DEF ReviewsInv

-----------------------------------------------------------------------------
(* The steps of the reviews                                                  *)

LEMMA ReviewRows ==
    ASSUME ReviewsInv, NEW r \in Reviews
    PROVE  /\ review \in [Reviews -> Review] /\ review[r] \in Review
           /\ review[r].pc \in {"idle", "asked", "refined", "sourced", "ok", "refused"}
           /\ review[r].op \in ProposalOps \cup MemoryOps \cup {"none"}
           /\ review[r].seen \in Author
BY DEF ReviewsInv, ReviewsTypeOK, Review

\* The place of a request alone changes.
LEMMA RowGoes ==
    ASSUME ReviewsInv, NEW r \in Reviews,
           NEW pc \in {"idle", "asked", "refined", "sourced", "ok", "refused"}, ReviewGoes(r, pc)
    PROVE  /\ review' \in [Reviews -> Review]
           /\ \A q \in Reviews : /\ review'[q].pc = IF q = r THEN pc ELSE review[q].pc
                                 /\ review'[q].op = review[q].op
                                 /\ review'[q].of = review[q].of
                                 /\ review'[q].seen = review[q].seen
<1> DEFINE w == [review[r] EXCEPT !.pc = pc]
<1>1. w \in Review /\ w.pc = pc /\ w.op = review[r].op /\ w.of = review[r].of /\ w.seen = review[r].seen
      BY ReviewRows DEF Review
<1>2. review \in [Reviews -> Review] /\ review' = [review EXCEPT ![r] = w]
      BY ReviewRows DEF ReviewGoes
<1> HIDE DEF w
<1> QED BY <1>1, <1>2

\* One request takes another place, and nothing else of it, or of the tables, changes.
LEMMA GoesInv ==
    ASSUME ReviewsInv, NEW r \in Reviews,
           NEW pc \in {"refined", "sourced", "ok", "refused"}, ReviewGoes(r, pc),
           UNCHANGED <<proposal, source, memory, belongs, lastReview, injected>>,
           pc = "refined" => review[r].op = "refineApprove",
           pc = "sourced" =>
               /\ review[r].op \in {"approve", "refineApprove"}
               /\ source[review[r].of] = {} /\ ~NamePending(review[r].of),
           pc = "ok" => review[r].op \in MemoryOps
    PROVE  ReviewsInv'
<1>1. /\ review' \in [Reviews -> Review]
      /\ \A q \in Reviews : /\ review'[q].pc = IF q = r THEN pc ELSE review[q].pc
                            /\ review'[q].op = review[q].op
                            /\ review'[q].of = review[q].of
      BY RowGoes
<1>2. ReviewsTypeOK'
      BY <1>1 DEF ReviewsInv, ReviewsTypeOK
<1>3. NamesApart'
      BY <1>1 DEF ReviewsInv, NamesApart, NamePending, At
<1>4. \A q \in Reviews : ReviewFits(q)'
      BY <1>1 DEF ReviewsInv, ReviewFits, At
<1>5. \A q \in Reviews : Approves(q)' => Approves(q)
      BY <1>1 DEF Approves, At, MemoryOps
<1>6. \A p \in Proposals : SourceFits(p)'
      BY <1>1, <1>5 DEF ReviewsInv, SourceFits
<1>7. \A m \in Memories : MemoryFits(m)'
      BY DEF ReviewsInv, MemoryFits
<1> QED BY <1>2, <1>3, <1>4, <1>6, <1>7 DEF ReviewsInv

\* A request begins or ends, with another row.
LEMMA RowInv ==
    ASSUME ReviewsInv, NEW r \in Reviews, NEW w \in Review, review' = [review EXCEPT ![r] = w],
           w.pc \in {"idle", "asked", "refused"}, w.pc = "asked" => w.op # "none",
           w.op \in ProposalOps => w.of \in Proposals /\ proposal[w.of].status # "none",
           w.op \in MemoryOps => w.of \in Memories /\ memory[w.of].status # "none",
           UNCHANGED <<proposal, source, memory, belongs, lastReview, injected>>
    PROVE  ReviewsInv'
<1>1. /\ review' \in [Reviews -> Review]
      /\ \A q \in Reviews : review'[q] = IF q = r THEN w ELSE review[q]
      BY ReviewRows
<1>2. ReviewsTypeOK'
      BY <1>1 DEF ReviewsInv, ReviewsTypeOK
<1>3. NamesApart'
      BY <1>1 DEF ReviewsInv, NamesApart, At
<1>4. \A q \in Reviews : ReviewFits(q)'
      BY <1>1 DEF ReviewsInv, ReviewFits, At
<1>5. \A q \in Reviews : Approves(q)' => Approves(q) /\ review'[q] = review[q]
      BY <1>1 DEF Approves, At
<1>6. \A p \in Proposals : SourceFits(p)'
      BY <1>5 DEF ReviewsInv, SourceFits
<1>7. \A m \in Memories : MemoryFits(m)'
      BY DEF ReviewsInv, MemoryFits
<1> QED BY <1>2, <1>3, <1>4, <1>6, <1>7 DEF ReviewsInv

LEMMA SubmitInv == ASSUME ReviewsInv, NEW p \in Proposals, Submit(p) PROVE ReviewsInv'
<1>1. /\ proposal[p].status = "none" /\ proposal \in [Proposals -> Proposal]
      /\ source \in [Proposals -> SUBSET Author] /\ source[p] = {}
      /\ UNCHANGED <<review, memory, belongs, lastReview, injected>>
      BY DEF Submit, ReviewsInv, ReviewsTypeOK, SourceFits, MemoryRows
<1>2. PICK w \in Proposal, set \in SUBSET Author :
          /\ proposal' = [proposal EXCEPT ![p] = w] /\ source' = [source EXCEPT ![p] = set]
          /\ w.status # "none" /\ (set = {} \/ \E a \in Author : set = {a})
          /\ set # {} <=> w.hasSource
  <2>1. proposal[p] \in Proposal /\ ~proposal[p].hasSource
        BY <1>1 DEF ReviewsInv, SourceFits
  <2>2. CASE proposal' = [proposal EXCEPT ![p].status = "pending"] /\ UNCHANGED source
    <3> DEFINE w == [proposal[p] EXCEPT !.status = "pending"]
    <3>1. w \in Proposal /\ w.status = "pending" /\ ~w.hasSource
          BY <2>1 DEF Proposal
    <3>2. proposal' = [proposal EXCEPT ![p] = w] /\ source' = [source EXCEPT ![p] = {}]
          BY <1>1, <2>2
    <3> HIDE DEF w
    <3> QED BY <3>1, <3>2
  <2>3. CASE /\ proposal' = [proposal EXCEPT ![p].status = "approved", ![p].hasSource = TRUE]
             /\ source' = [source EXCEPT ![p] = {NoReview}]
    <3> DEFINE w == [proposal[p] EXCEPT !.status = "approved", !.hasSource = TRUE]
    <3>1. w \in Proposal /\ w.status = "approved" /\ w.hasSource
          BY <2>1 DEF Proposal
    <3>2. proposal' = [proposal EXCEPT ![p] = w]
          BY <1>1, <2>3
    <3> DEFINE set == {NoReview}
    <3>3. set \in SUBSET Author /\ set # {} /\ \E a \in Author : set = {a}
          BY DEF Author
    <3>4. source' = [source EXCEPT ![p] = set]
          BY <2>3
    <3> HIDE DEF w, set
    <3> QED BY <3>1, <3>2, <3>3, <3>4
  <2> QED BY <2>2, <2>3 DEF Submit
<1>3. /\ \A x \in Proposals : proposal'[x] = IF x = p THEN w ELSE proposal[x]
      /\ \A x \in Proposals : source'[x] = IF x = p THEN set ELSE source[x]
      BY <1>1, <1>2
<1>4. ReviewsTypeOK'
      BY <1>1, <1>2 DEF ReviewsInv, ReviewsTypeOK
<1>5. NamesApart'
      BY <1>1 DEF ReviewsInv, NamesApart, At
<1>6. ASSUME NEW r \in Reviews PROVE ReviewFits(r)'
  <2>1. ReviewFits(r)
        BY DEF ReviewsInv
  <2>2. review[r].op \in ProposalOps => review[r].of # p
        BY <1>1, <2>1 DEF ReviewFits
  <2> QED BY <1>1, <1>3, <2>1, <2>2 DEF ReviewFits, At, ProposalOps
<1>7. ASSUME NEW r \in Reviews, Approves(r) PROVE review[r].of # p
      BY <1>1, <1>7 DEF ReviewsInv, ReviewFits, Approves, ProposalOps
<1>8. ASSUME NEW x \in Proposals PROVE SourceFits(x)'
      BY <1>1, <1>2, <1>3, <1>7 DEF ReviewsInv, SourceFits, Approves, At
<1>9. \A m \in Memories : MemoryFits(m)'
      BY <1>1 DEF ReviewsInv, MemoryFits
<1> QED BY <1>4, <1>5, <1>6, <1>8, <1>9 DEF ReviewsInv

LEMMA AskProposalInv ==
    ASSUME ReviewsInv, NEW r \in Reviews, NEW op \in ProposalOps, NEW p \in Proposals,
           AskProposal(r, op, p)
    PROVE  ReviewsInv'
<1> DEFINE w == [pc |-> IF proposal[p].status = "pending" THEN "asked" ELSE "refused",
                 op |-> op, of |-> p, seen |-> proposal[p].refined]
<1>1. /\ proposal[p].status # "none" /\ review' = [review EXCEPT ![r] = w]
      /\ UNCHANGED <<proposal, source, memory, belongs, lastReview, injected>>
      BY DEF AskProposal, MemoryRows
<1>2. proposal[p].refined \in Author
      BY DEF ReviewsInv, ReviewsTypeOK, Proposal
<1>3. w \in Review /\ w.pc \in {"asked", "refused"} /\ w.op = op /\ w.of = p
      BY <1>2 DEF Review
<1>4. op # "none" /\ op \notin MemoryOps
      BY DEF ProposalOps, MemoryOps
<1> HIDE DEF w
<1> QED BY <1>1, <1>3, <1>4, RowInv

LEMMA AskMemoryInv ==
    ASSUME ReviewsInv, NEW r \in Reviews, NEW op \in MemoryOps, NEW m \in Memories,
           AskMemory(r, op, m)
    PROVE  ReviewsInv'
<1> DEFINE c == /\ memory[m].status \in AllowedFrom(op)
                /\ op = "accept" => (memory[m].scoped => belongs)
           w == [pc |-> IF c THEN "asked" ELSE "refused", op |-> op, of |-> m, seen |-> NoReview]
<1>1. /\ memory[m].status # "none" /\ review' = [review EXCEPT ![r] = w]
      /\ UNCHANGED <<proposal, source, memory, belongs, lastReview, injected>>
      BY DEF AskMemory, MemoryRows, ProposalRows
<1> HIDE DEF c
<1>2. w \in Review /\ w.pc \in {"asked", "refused"} /\ w.op = op /\ w.of = m
      BY DEF Review, Author
<1>3. op # "none" /\ op \notin ProposalOps
      BY DEF ProposalOps, MemoryOps
<1> HIDE DEF w
<1> QED BY <1>1, <1>2, <1>3, RowInv

LEMMA AskAgainInv == ASSUME ReviewsInv, NEW r \in Reviews, AskAgain(r) PROVE ReviewsInv'
<1>1. /\ review' = [review EXCEPT ![r] = NoRow]
      /\ UNCHANGED <<proposal, source, memory, belongs, lastReview, injected>>
      BY DEF AskAgain, MemoryRows, ProposalRows, NoRow
<1>2. NoRow.pc = "idle" /\ NoRow.op \notin ProposalOps \cup MemoryOps
      BY DEF NoRow, ProposalOps, MemoryOps
<1> QED BY <1>1, <1>2, NoRowFacts, RowInv

LEMMA RefineFirstInv == ASSUME ReviewsInv, NEW r \in Reviews, RefineFirst(r) PROVE ReviewsInv'
<1> DEFINE w == [review[r] EXCEPT !.pc = "refined", !.seen = r]
<1>1. /\ review[r].op = "refineApprove" /\ review' = [review EXCEPT ![r] = w]
      /\ UNCHANGED <<proposal, source, memory, belongs, lastReview, injected>>
      BY ReviewRows DEF RefineFirst, MemoryRows
<1>2. w \in Review /\ w.pc = "refined" /\ w.op = review[r].op /\ w.of = review[r].of
      BY ReviewRows DEF Review, Author
<1> HIDE DEF w
<1>3. /\ review' \in [Reviews -> Review]
      /\ \A q \in Reviews : review'[q] = IF q = r THEN w ELSE review[q]
      BY <1>1, <1>2, ReviewRows
<1>4. ReviewsTypeOK'
      BY <1>1, <1>3 DEF ReviewsInv, ReviewsTypeOK
<1>5. NamesApart'
      BY <1>2, <1>3 DEF ReviewsInv, NamesApart, At
<1>6. \A q \in Reviews : ReviewFits(q)'
      BY <1>1, <1>2, <1>3 DEF ReviewsInv, ReviewFits, At
<1>7. \A q \in Reviews : Approves(q)' => Approves(q) /\ review'[q] = review[q]
      BY <1>2, <1>3 DEF Approves, At
<1>8. \A p \in Proposals : SourceFits(p)'
      BY <1>1, <1>7 DEF ReviewsInv, SourceFits
<1>9. \A m \in Memories : MemoryFits(m)'
      BY <1>1 DEF ReviewsInv, MemoryFits
<1> QED BY <1>4, <1>5, <1>6, <1>8, <1>9 DEF ReviewsInv

LEMMA CreateSourceInv == ASSUME ReviewsInv, NEW r \in Reviews, CreateSource(r) PROVE ReviewsInv'
<1>1. review[r].op \in {"approve", "refineApprove"}
      BY DEF CreateSource, ReadyForSource, ReviewsInv, ReviewFits
<1>2. UNCHANGED <<proposal, source, memory, belongs, lastReview, injected>>
      BY DEF CreateSource, MemoryRows
<1>3. CASE source[review[r].of] = {}
      BY <1>1, <1>2, <1>3, GoesInv DEF CreateSource
<1>4. CASE source[review[r].of] # {}
      BY <1>2, <1>4, GoesInv DEF CreateSource
<1> QED BY <1>3, <1>4

LEMMA BreakDeadlockInv ==
    ASSUME ReviewsInv, NEW r \in Reviews, NEW q \in Reviews, BreakDeadlock(r, q) PROVE ReviewsInv'
BY GoesInv DEF BreakDeadlock, MemoryRows

\* One proposal and one request change, and a source comes to the proposal if the
\* request approved it.
LEMMA ProposalInv ==
    ASSUME ReviewsInv, NEW r \in Reviews, NEW p \in Proposals, NEW w \in Proposal,
           NEW set \in SUBSET Author, review[r].of = p, review[r].op \in ProposalOps,
           w.status # "none", proposal' = [proposal EXCEPT ![p] = w],
           source' = [source EXCEPT ![p] = set], ReviewGoes(r, "ok"),
           \/ At(r, "sourced") /\ w.hasSource /\ \E a \in Author : set = {a}
           \/ /\ set = source[p] /\ w.hasSource = proposal[p].hasSource
              /\ review[r].op \notin {"approve", "refineApprove"},
           UNCHANGED <<memory, belongs, lastReview, injected>>
    PROVE  ReviewsInv'
<1>1. /\ review' \in [Reviews -> Review]
      /\ \A q \in Reviews : /\ review'[q].pc = IF q = r THEN "ok" ELSE review[q].pc
                            /\ review'[q].op = review[q].op
                            /\ review'[q].of = review[q].of
      BY RowGoes
<1>2. /\ proposal \in [Proposals -> Proposal] /\ source \in [Proposals -> SUBSET Author]
      /\ \A x \in Proposals : proposal'[x] = IF x = p THEN w ELSE proposal[x]
      /\ \A x \in Proposals : source'[x] = IF x = p THEN set ELSE source[x]
      BY DEF ReviewsInv, ReviewsTypeOK
<1>3. ReviewsTypeOK'
      BY <1>1, <1>2 DEF ReviewsInv, ReviewsTypeOK
<1>4. NamesApart'
      BY <1>1 DEF ReviewsInv, NamesApart, At
<1>5. ASSUME NEW q \in Reviews PROVE ReviewFits(q)'
  <2>1. ReviewFits(q) /\ ReviewFits(r)
        BY DEF ReviewsInv
  <2>2. At(q, "sourced")' => q # r /\ At(q, "sourced")
        BY <1>1 DEF At
  <2>3. At(q, "sourced")' => source'[review[q].of] = {}
    <3> SUFFICES ASSUME At(q, "sourced")' PROVE source'[review[q].of] = {}
        OBVIOUS
    <3>1. review[q].of \in Proposals /\ source[review[q].of] = {}
          BY <2>1, <2>2 DEF ReviewFits, ProposalOps
    <3>2. CASE review[q].of # p
          BY <1>2, <3>1, <3>2
    <3>3. CASE review[q].of = p
      <4>1. ~At(r, "sourced")
            BY <2>2, <3>3 DEF ReviewsInv, NamesApart
      <4> QED BY <1>2, <3>1, <3>3, <4>1
    <3> QED BY <3>2, <3>3
  <2> QED BY <1>1, <1>2, <2>1, <2>3 DEF ReviewFits, At
<1>6. ASSUME NEW x \in Proposals PROVE SourceFits(x)'
  <2>1. SourceFits(x) /\ ReviewFits(r)
        BY DEF ReviewsInv
  <2>2. \A q \in Reviews : Approves(q)' =>
            Approves(q) \/ (q = r /\ review[r].op \in {"approve", "refineApprove"})
        BY <1>1 DEF Approves, At
  <2>3. CASE x # p
        BY <1>1, <1>2, <2>1, <2>2, <2>3 DEF SourceFits
  <2>4. CASE x = p /\ At(r, "sourced") /\ w.hasSource /\ \E a \in Author : set = {a}
    <3>1. source[p] = {}
          BY <2>1, <2>4 DEF ReviewFits
    <3>2. \A q \in Reviews : Approves(q)' /\ review'[q].of = p => q = r
          BY <1>1, <2>1, <2>2, <2>4, <3>1 DEF SourceFits
    <3>3. source'[x] = set /\ proposal'[x] = w /\ set # {}
          BY <1>2, <2>4
    <3> QED BY <2>4, <3>2, <3>3 DEF SourceFits
  <2>5. CASE /\ x = p /\ set = source[p] /\ w.hasSource = proposal[p].hasSource
             /\ review[r].op \notin {"approve", "refineApprove"}
        BY <1>1, <1>2, <2>1, <2>2, <2>5 DEF SourceFits
  <2> QED BY <2>3, <2>4, <2>5
<1>7. \A m \in Memories : MemoryFits(m)'
      BY DEF ReviewsInv, MemoryFits
<1> QED BY <1>3, <1>4, <1>5, <1>6, <1>7 DEF ReviewsInv

LEMMA ApproveInv == ASSUME ReviewsInv, NEW r \in Reviews, Approve(r) PROVE ReviewsInv'
<1> DEFINE p == review[r].of
<1>1. /\ review[r].op \in {"approve", "refineApprove"} /\ p \in Proposals /\ At(r, "sourced")
      /\ source[p] = {} /\ review[r].seen \in Author /\ review[r].op \in ProposalOps
      BY ReviewRows DEF Approve, ReviewsInv, ReviewFits, ProposalOps
<1>2. PICK noted \in BOOLEAN :
          proposal' = [proposal EXCEPT ![p].status = "approved", ![p].hasSource = TRUE,
                            ![p].note = IF noted THEN r ELSE @,
                            ![p].refined = IF HasRow(r) THEN r ELSE @]
      BY DEF Approve
<1>3. /\ source' = [source EXCEPT ![p] = {review[r].seen}] /\ ReviewGoes(r, "ok")
      /\ UNCHANGED <<memory, belongs, lastReview, injected>>
  <2>1. source' = [source EXCEPT ![p] = source[p] \cup {review[r].seen}]
        BY <1>1 DEF Approve, ReviewsInv, ReviewsTypeOK
  <2> QED BY <1>1, <2>1 DEF Approve, MemoryRows
<1> DEFINE note == IF noted THEN r ELSE proposal[p].note
           text == IF HasRow(r) THEN r ELSE proposal[p].refined
           w == [proposal[p] EXCEPT !.status = "approved", !.hasSource = TRUE,
                                    !.note = note, !.refined = text]
<1>4. proposal[p] \in Proposal /\ note \in Author /\ text \in Author
      BY <1>1 DEF ReviewsInv, ReviewsTypeOK, Proposal, Author
<1>5. proposal' = [proposal EXCEPT ![p] = w]
      BY <1>1, <1>2 DEF ReviewsInv, ReviewsTypeOK
<1> HIDE DEF note, text
<1>6. w \in Proposal /\ w.status = "approved" /\ w.hasSource
      BY <1>4 DEF Proposal
<1> DEFINE set == {review[r].seen}
<1>7. /\ set \in SUBSET Author /\ (\E a \in Author : set = {a}) /\ review[r].of = p
      /\ w.status # "none" /\ source' = [source EXCEPT ![p] = set]
      BY <1>1, <1>3, <1>6
<1> HIDE DEF w, p, set
<1> QED BY <1>1, <1>3, <1>5, <1>6, <1>7, ProposalInv

LEMMA RejectInv == ASSUME ReviewsInv, NEW r \in Reviews, Reject(r) PROVE ReviewsInv'
<1> DEFINE p == review[r].of
           w == [proposal[p] EXCEPT !.status = "rejected", !.note = r]
<1>1. /\ review[r].op = "reject" /\ review[r].op \in ProposalOps /\ p \in Proposals
      /\ proposal[p] \in Proposal /\ ReviewGoes(r, "ok")
      /\ UNCHANGED <<source, memory, belongs, lastReview, injected>>
      BY DEF Reject, ReviewsInv, ReviewsTypeOK, ReviewFits, ProposalOps, MemoryRows
<1>2. proposal' = [proposal EXCEPT ![p] = w] /\ source' = [source EXCEPT ![p] = source[p]]
      BY <1>1 DEF Reject, ReviewsInv, ReviewsTypeOK
<1>3. w \in Proposal /\ w.status = "rejected" /\ w.hasSource = proposal[p].hasSource
      BY <1>1 DEF Proposal, Author
<1>4. source[p] \in SUBSET Author
      BY <1>1 DEF ReviewsInv, ReviewsTypeOK
<1> HIDE DEF w, p
<1> QED BY <1>1, <1>2, <1>3, <1>4, ProposalInv DEF p

LEMMA RefineInv == ASSUME ReviewsInv, NEW r \in Reviews, Refine(r) PROVE ReviewsInv'
<1> DEFINE p == review[r].of
           w == [proposal[p] EXCEPT !.refined = r]
<1>1. /\ review[r].op = "refine" /\ review[r].op \in ProposalOps /\ p \in Proposals
      /\ proposal[p] \in Proposal /\ ReviewGoes(r, "ok") /\ proposal[p].status # "none"
      /\ UNCHANGED <<source, memory, belongs, lastReview, injected>>
      BY DEF Refine, ReviewsInv, ReviewsTypeOK, ReviewFits, ProposalOps, MemoryRows
<1>2. proposal' = [proposal EXCEPT ![p] = w] /\ source' = [source EXCEPT ![p] = source[p]]
      BY <1>1 DEF Refine, ReviewsInv, ReviewsTypeOK
<1>3. w \in Proposal /\ w.status # "none" /\ w.hasSource = proposal[p].hasSource
      BY <1>1 DEF Proposal, Author
<1>4. source[p] \in SUBSET Author
      BY <1>1 DEF ReviewsInv, ReviewsTypeOK
<1> HIDE DEF w, p
<1> QED BY <1>1, <1>2, <1>3, <1>4, ProposalInv DEF p

-----------------------------------------------------------------------------
\* Memories change, each to one that fits, and none goes.
LEMMA MemoriesInv ==
    ASSUME ReviewsInv, UNCHANGED <<proposal, source>>, review' \in [Reviews -> Review],
           \A q \in Reviews :
               /\ \/ review'[q].pc = review[q].pc
                  \/ review[q].op \in MemoryOps /\ review'[q].pc = "ok"
               /\ review'[q].op = review[q].op /\ review'[q].of = review[q].of,
           memory' \in [Memories -> Memory], belongs' \in BOOLEAN,
           lastReview' \in [Memories -> {"none", "approved", "rejected"}],
           injected' \subseteq Memories,
           \A m \in Memories : MemoryFits(m)' /\ (memory[m].status # "none" => memory'[m].status # "none")
    PROVE  ReviewsInv'
<1>1. ReviewsTypeOK'
      BY DEF ReviewsInv, ReviewsTypeOK
<1>2. \A r \in Reviews : At(r, "sourced")' => At(r, "sourced")
      BY DEF At
<1>3. NamesApart'
      BY <1>2 DEF ReviewsInv, NamesApart
<1>4. \A r \in Reviews : ReviewFits(r)'
  <2> SUFFICES ASSUME NEW r \in Reviews PROVE ReviewFits(r)'
      OBVIOUS
  <2>1. ReviewFits(r) /\ review'[r].op = review[r].op /\ review'[r].of = review[r].of
        BY DEF ReviewsInv
  <2>2. \/ review'[r].pc = review[r].pc
        \/ review[r].op \in MemoryOps /\ review'[r].pc = "ok"
        OBVIOUS
  <2> QED BY <2>1, <2>2 DEF ReviewFits, At
<1>5. \A r \in Reviews : Approves(r)' => Approves(r)
      BY DEF Approves, At, MemoryOps
<1>6. \A p \in Proposals : SourceFits(p)'
      BY <1>5 DEF ReviewsInv, SourceFits
<1> QED BY <1>1, <1>3, <1>4, <1>6 DEF ReviewsInv

LEMMA ProposeInv == ASSUME ReviewsInv, NEW m \in Memories, Propose(m) PROVE ReviewsInv'
<1>1. PICK scoped \in BOOLEAN :
          memory' = [memory EXCEPT ![m] = [status |-> "proposed", scoped |-> scoped]]
      BY DEF Propose
<1>2. /\ memory[m].status = "none" /\ memory \in [Memories -> Memory] /\ review \in [Reviews -> Review]
      /\ lastReview \in [Memories -> {"none", "approved", "rejected"}]
      /\ belongs \in BOOLEAN /\ injected \subseteq Memories
      /\ UNCHANGED <<proposal, source, review, belongs, lastReview, injected>>
      BY DEF Propose, ProposalRows, ReviewsInv, ReviewsTypeOK
<1>3. /\ memory' \in [Memories -> Memory] /\ memory'[m].status = "proposed"
      /\ \A k \in Memories : k # m => memory'[k] = memory[k]
      BY <1>1, <1>2 DEF Memory
<1>4. \A k \in Memories : MemoryFits(k)' /\ (memory[k].status # "none" => memory'[k].status # "none")
      BY <1>2, <1>3 DEF ReviewsInv, MemoryFits
<1> QED BY <1>2, <1>3, <1>4, MemoriesInv

LEMMA ReviewMemoryInv == ASSUME ReviewsInv, NEW r \in Reviews, ReviewMemory(r) PROVE ReviewsInv'
<1> DEFINE m == review[r].of
           status == IF review[r].op = "accept" THEN "approved" ELSE "rejected"
           w == [memory[m] EXCEPT !.status = status]
<1>1. /\ review[r].op \in MemoryOps /\ m \in Memories /\ ReviewGoes(r, "ok")
      /\ memory \in [Memories -> Memory] /\ lastReview \in [Memories -> {"none", "approved", "rejected"}]
      /\ belongs \in BOOLEAN /\ injected \subseteq Memories
      /\ UNCHANGED <<proposal, source, belongs, injected>>
      BY DEF ReviewMemory, ReviewsInv, ReviewFits, ReviewsTypeOK, MemoryOps, ProposalRows
<1>2. memory' = [memory EXCEPT ![m] = w] /\ lastReview' = [lastReview EXCEPT ![m] = status]
      BY <1>1 DEF ReviewMemory
<1>3. status \in {"approved", "rejected"}
      OBVIOUS
<1> HIDE DEF status
<1>4. w \in Memory /\ w.status = status
      BY <1>1, <1>3 DEF Memory
<1> HIDE DEF w
<1>5. /\ review' \in [Reviews -> Review]
      /\ \A q \in Reviews : /\ review'[q].pc = IF q = r THEN "ok" ELSE review[q].pc
                            /\ review'[q].op = review[q].op
                            /\ review'[q].of = review[q].of
      BY <1>1, RowGoes
<1>6. \A k \in Memories : MemoryFits(k)' /\ (memory[k].status # "none" => memory'[k].status # "none")
      BY <1>1, <1>2, <1>3, <1>4 DEF ReviewsInv, MemoryFits
<1>7. memory' \in [Memories -> Memory]
      BY <1>1, <1>2, <1>4
<1>8. lastReview' \in [Memories -> {"none", "approved", "rejected"}]
      BY <1>1, <1>2, <1>3
<1> QED BY <1>1, <1>5, <1>6, <1>7, <1>8, MemoriesInv

LEMMA OthersInv == ASSUME ReviewsInv, ChangeMembership \/ Inject PROVE ReviewsInv'
<1>1. /\ memory \in [Memories -> Memory] /\ review \in [Reviews -> Review]
      /\ lastReview \in [Memories -> {"none", "approved", "rejected"}]
      /\ belongs' \in BOOLEAN /\ injected' \subseteq Memories
      /\ UNCHANGED <<proposal, source, review, memory, lastReview>>
      BY DEF ChangeMembership, Inject, ProposalRows, ReviewsInv, ReviewsTypeOK
<1>2. \A k \in Memories : MemoryFits(k)'
      BY <1>1 DEF ReviewsInv, MemoryFits
<1> QED BY <1>1, <1>2, MemoriesInv

LEMMA ReviewsStepInv == ReviewsInv /\ [ReviewsNext]_reviewVars => ReviewsInv'
<1> SUFFICES ASSUME ReviewsInv, [ReviewsNext]_reviewVars PROVE ReviewsInv'
    OBVIOUS
<1>1. ASSUME NEW p \in Proposals, Submit(p) PROVE ReviewsInv'
      BY <1>1, SubmitInv
<1>2. ASSUME NEW r \in Reviews, NEW op \in ProposalOps, NEW p \in Proposals, AskProposal(r, op, p)
      PROVE  ReviewsInv'
      BY <1>2, AskProposalInv
<1>3. ASSUME NEW r \in Reviews,
             RefineFirst(r) \/ CreateSource(r) \/ Approve(r) \/ Reject(r) \/ Refine(r)
      PROVE  ReviewsInv'
      BY <1>3, RefineFirstInv, CreateSourceInv, ApproveInv, RejectInv, RefineInv
<1>4. ASSUME NEW r \in Reviews, NEW q \in Reviews, BreakDeadlock(r, q) PROVE ReviewsInv'
      BY <1>4, BreakDeadlockInv
<1>5. ASSUME NEW m \in Memories, Propose(m) PROVE ReviewsInv'
      BY <1>5, ProposeInv
<1>6. ASSUME NEW r \in Reviews, NEW op \in MemoryOps, NEW m \in Memories, AskMemory(r, op, m)
      PROVE  ReviewsInv'
      BY <1>6, AskMemoryInv
<1>7. ASSUME NEW r \in Reviews, EditMemory(r) PROVE ReviewsInv'
      BY <1>7, GoesInv DEF EditMemory, ProposalRows, MemoryRows, MemoryOps
<1>8. ASSUME NEW r \in Reviews, ReviewMemory(r) \/ AskAgain(r) PROVE ReviewsInv'
      BY <1>8, ReviewMemoryInv, AskAgainInv
<1>9. CASE ChangeMembership \/ Inject
      BY <1>9, OthersInv
<1>10. CASE UNCHANGED reviewVars
  <2>1. ReviewsTypeOK' /\ NamesApart'
        BY <1>10 DEF reviewVars, ReviewsInv, ReviewsTypeOK, NamesApart, At
  <2>2. \A r \in Reviews : ReviewFits(r)'
        BY <1>10 DEF reviewVars, ReviewsInv, ReviewFits, At
  <2>3. \A p \in Proposals : SourceFits(p)'
        BY <1>10 DEF reviewVars, ReviewsInv, SourceFits, Approves, At
  <2>4. \A m \in Memories : MemoryFits(m)'
        BY <1>10 DEF reviewVars, ReviewsInv, MemoryFits
  <2> QED BY <2>1, <2>2, <2>3, <2>4 DEF ReviewsInv
<1> QED BY <1>1, <1>2, <1>3, <1>4, <1>5, <1>6, <1>7, <1>8, <1>9, <1>10 DEF ReviewsNext

LEMMA ReviewsInvHolds == ReviewsSpec => []ReviewsInv
BY ReviewsInitInv, ReviewsStepInv, PTL DEF ReviewsSpec

\* Proposals, memories and the requests about them keep their types: every request
\* that is in progress writes a row of its kind.
THEOREM ReviewsTypeCorrect == ReviewsSpec => []ReviewsTypeOK
<1>1. ReviewsInv => ReviewsTypeOK
      BY DEF ReviewsInv
<1> QED BY <1>1, ReviewsInvHolds, PTL

-----------------------------------------------------------------------------
(* What the reviews leave standing                                           *)

LEMMA ReviewsInvImplies == ReviewsInv => OneSourceEach /\ SourceIsNamed /\ LastReviewStands
<1> SUFFICES ASSUME ReviewsInv PROVE OneSourceEach /\ SourceIsNamed /\ LastReviewStands
    OBVIOUS
<1>1. ASSUME NEW p \in Proposals
      PROVE  /\ Cardinality(source[p]) <= 1
             /\ Cardinality(Approvals(p)) <= 1
             /\ Approvals(p) # {} => source[p] # {}
  <2>1. SourceFits(p)
        BY DEF ReviewsInv
  <2>2. Cardinality(source[p]) <= 1
        BY <2>1, FS_EmptySet, FS_Singleton DEF SourceFits
  <2>3. \A r \in Approvals(p) : r \in Reviews /\ Approves(r) /\ review[r].of = p
        BY DEF Approvals, Approves
  <2>4. Approvals(p) = {} \/ \E r : Approvals(p) = {r}
        BY <2>1, <2>3 DEF SourceFits
  <2>5. Cardinality(Approvals(p)) <= 1
    <3>1. Approvals(p) = {} => Cardinality(Approvals(p)) = 0
          BY FS_EmptySet
    <3>2. (\E r : Approvals(p) = {r}) => Cardinality(Approvals(p)) = 1
          BY FS_Singleton
    <3> DEFINE C == Cardinality(Approvals(p))
    <3>3. C = 0 \/ C = 1
          BY <2>4, <3>1, <3>2, Zenon
    <3> HIDE DEF C
    <3>4. C <= 1
          BY <3>3
    <3> QED BY <3>4, Zenon DEF C
  <2>6. Approvals(p) # {} => source[p] # {}
        BY <2>1, <2>3 DEF SourceFits
  <2> QED BY <2>2, <2>5, <2>6
<1>2. SourceIsNamed
      BY DEF ReviewsInv, SourceFits, SourceIsNamed
<1>3. LastReviewStands
      BY DEF ReviewsInv, MemoryFits, LastReviewStands
<1> QED BY <1>1, <1>2, <1>3 DEF OneSourceEach

\* The newest of a set of memories, at most MaxInjected of them.
Newer(m) == {k \in Memories : k > m /\ Approved(k)}

LEMMA InjectedFacts ==
    ASSUME ReviewsInv
    PROVE  LET set == {m \in Memories : Approved(m) /\ Cardinality(Newer(m)) < MaxInjected} IN
           Cardinality(set) <= MaxInjected
<1> DEFINE set == {m \in Memories : Approved(m) /\ Cardinality(Newer(m)) < MaxInjected}
           places == 0..(MaxInjected - 1)
           f == [m \in set |-> Cardinality(Newer(m))]
<1>1. MaxInjected \in Nat \ {0} /\ LastMemory \in Nat
      BY ReviewsAssumption
<1>2. IsFiniteSet(Memories) /\ \A m \in Memories : m \in Nat
      BY <1>1, FS_Interval DEF Memories
<1>3. ASSUME NEW m \in Memories PROVE IsFiniteSet(Newer(m)) /\ Cardinality(Newer(m)) \in Nat
  <2>1. Newer(m) \in SUBSET Memories
        BY DEF Newer
  <2> QED BY <1>2, <2>1, FS_Subset, FS_CardinalityType
<1>4. ASSUME NEW m \in set, NEW k \in set, m < k PROVE Cardinality(Newer(k)) < Cardinality(Newer(m))
  <2>1. Newer(k) \subseteq Newer(m) /\ k \in Newer(m) /\ k \notin Newer(k)
        BY <1>2, <1>4 DEF Newer
  <2>2. IsFiniteSet(Newer(m)) /\ Cardinality(Newer(m)) \in Nat /\ Cardinality(Newer(k)) \in Nat
        BY <1>3
  <2>3. Cardinality(Newer(k)) <= Cardinality(Newer(m)) /\ Cardinality(Newer(k)) # Cardinality(Newer(m))
        BY <2>1, <2>2, FS_Subset
  <2> QED BY <2>2, <2>3
<1>5. f \in [set -> places]
  <2>1. ASSUME NEW m \in set PROVE Cardinality(Newer(m)) \in places
    <3>1. Cardinality(Newer(m)) \in Nat /\ Cardinality(Newer(m)) < MaxInjected
          BY <1>3
    <3> QED BY <1>1, <3>1
  <2> QED BY <2>1
<1>6. \A m, k \in set : f[m] = f[k] => m = k
  <2> SUFFICES ASSUME NEW m \in set, NEW k \in set, m # k PROVE f[m] # f[k]
      OBVIOUS
  <2>1. m < k \/ k < m
        BY <1>2
  <2>2. Cardinality(Newer(m)) \in Nat /\ Cardinality(Newer(k)) \in Nat
        BY <1>3
  <2>3. Cardinality(Newer(m)) # Cardinality(Newer(k))
        BY <1>4, <2>1, <2>2
  <2> QED BY <2>3
<1>7. f \in Injection(set, places)
  <2> HIDE DEF f, set, places
  <2> QED BY <1>5, <1>6 DEF Injection, IsInjective
<1>8. IsFiniteSet(places) /\ Cardinality(places) = MaxInjected
      BY <1>1, FS_Interval
<1> HIDE DEF f, set, places
<1>9. Cardinality(set) <= Cardinality(places)
      BY <1>7, <1>8, FS_Injection
<1> QED BY <1>8, <1>9 DEF set

\* However requests about a proposal or a memory overlap: a proposal gets one source
\* of one approval and names it, a memory says what its last review said, and the
\* context of a turn has no memory but approved ones, within its limit.
THEOREM ReviewsAlwaysStand == ReviewsSpec => ReviewsStand
<1>1. ReviewsInv /\ [ReviewsNext]_reviewVars =>
          [injected' # injected =>
              /\ \A m \in injected' : lastReview[m] = "approved"
              /\ Cardinality(injected') <= MaxInjected]_reviewVars
  <2> SUFFICES ASSUME ReviewsInv, [ReviewsNext]_reviewVars, injected' # injected
               PROVE  /\ \A m \in injected' : lastReview[m] = "approved"
                      /\ Cardinality(injected') <= MaxInjected
      OBVIOUS
  <2>1. Inject
    <3>1. ~UNCHANGED reviewVars
          BY DEF reviewVars
    <3> QED BY <3>1 DEF ReviewsNext, Submit, AskProposal, RefineFirst, CreateSource, Approve, Reject,
                    Refine, BreakDeadlock, Propose, AskMemory, EditMemory, ReviewMemory, AskAgain,
                    ChangeMembership, MemoryRows
  <2>2. injected' = {m \in Memories : Approved(m) /\ Cardinality(Newer(m)) < MaxInjected}
        BY <2>1 DEF Inject, Newer
  <2>3. \A m \in Memories : Approved(m) => lastReview[m] = "approved"
        BY DEF ReviewsInv, MemoryFits, Approved
  <2> QED BY <2>2, <2>3, InjectedFacts
<1>2. ReviewsSpec => InjectedIsApproved
      BY <1>1, ReviewsInvHolds, PTL DEF ReviewsSpec, InjectedIsApproved
<1>3. ReviewsSpec => [](OneSourceEach /\ SourceIsNamed /\ LastReviewStands)
      BY ReviewsInvImplies, ReviewsInvHolds, PTL
<1> QED BY <1>2, <1>3, PTL DEF ReviewsStand

-----------------------------------------------------------------------------
(* The settings: what the operations make of the rows                       *)

LEMMA RowsFacts ==
    ASSUME NEW s \in Rows
    PROVE  /\ s.connection \in [Connections -> SUBSET SlotNames]
           /\ s.catalog \in [Connections \X SlotNames -> {"out", "in"}]
           /\ s.pool \in [Scopes \X Connections -> {"out", "in", "default"}]
           /\ s.choice \in [Scopes \X SlotNames -> Connections \cup {NoChoice}]
BY DEF Rows

LEMMA SettingsNumbers ==
    /\ LastConnection \in Nat \ {0} /\ Connections \subseteq Nat
    /\ \A c \in Connections : c # NoChoice
    /\ "global" \in Scopes
BY SettingsAssumption DEF Connections, NoChoice, Scopes

LEMMA LeastConnection ==
    ASSUME NEW set \in SUBSET Connections, set # {}
    PROVE  LeastOf(set) \in set
<1>1. set \in SUBSET Nat
      BY SettingsNumbers
<1>2. \E c \in set : \A d \in set : c <= d
      BY <1>1, LeastNumber
<1> QED BY <1>2 DEF LeastOf

LEMMA EnteredFacts ==
    ASSUME NEW pool \in [Scopes \X Connections -> {"out", "in", "default"}],
           NEW scope \in Scopes, NEW c \in Connections, NEW default \in BOOLEAN
    PROVE  Entered(pool, scope, c, default) \in [Scopes \X Connections -> {"out", "in", "default"}]
<1> DEFINE E(x) == CASE x = <<scope, c>> /\ default -> "default"
                     [] x = <<scope, c>> /\ ~default /\ pool[x] = "out" -> "in"
                     [] x[1] = scope /\ x[2] # c /\ default /\ pool[x] = "default" -> "in"
                     [] OTHER -> pool[x]
<1>1. Entered(pool, scope, c, default) = [x \in Scopes \X Connections |-> E(x)]
      BY DEF Entered
<1>2. \A x \in Scopes \X Connections : E(x) \in {"out", "in", "default"}
      OBVIOUS
<1> HIDE DEF E
<1> QED BY <1>1, <1>2

\* A model that enters as the default is the only default of its pool.
LEMMA EnteredAsDefault ==
    ASSUME NEW pool \in [Scopes \X Connections -> {"out", "in", "default"}],
           NEW scope \in Scopes, NEW c \in Connections
    PROVE  /\ Entered(pool, scope, c, TRUE)[<<scope, c>>] = "default"
           /\ \A d \in Connections :
                  d # c => Entered(pool, scope, c, TRUE)[<<scope, d>>] # "default"
<1>1. Entered(pool, scope, c, TRUE)[<<scope, c>>] = "default"
      BY DEF Entered
<1>2. ASSUME NEW d \in Connections, d # c
      PROVE  Entered(pool, scope, c, TRUE)[<<scope, d>>] # "default"
  <2>1. <<scope, d>> \in DOMAIN pool
        OBVIOUS
  <2>2. <<scope, d>>[1] = scope /\ <<scope, d>>[2] = d /\ <<scope, d>> # <<scope, c>>
        BY <1>2
  <2> QED BY <1>2, <2>1, <2>2 DEF Entered
<1> QED BY <1>1, <1>2

LEMMA SlotChosenFacts ==
    ASSUME NEW s \in Rows, NEW scope \in Scopes, NEW slot \in SlotNames, NEW c \in Connections
    PROVE  /\ SlotChosen(s, scope, slot, c) \in Rows
           /\ SlotChosen(s, scope, slot, c).connection = s.connection
           /\ slot = "chat" => SlotChosen(s, scope, slot, c).pool = Entered(s.pool, scope, c, TRUE)
           /\ SlotChosen(s, scope, slot, c).choice[<<scope, slot>>] = c
<1> DEFINE pool == IF slot = "chat" THEN Entered(s.pool, scope, c, TRUE) ELSE s.pool
           choice == [s.choice EXCEPT ![<<scope, slot>>] = c]
           t == [s EXCEPT !.choice = choice, !.pool = pool]
<1>1. SlotChosen(s, scope, slot, c) = t
      BY DEF SlotChosen, Rows
<1>2. pool \in [Scopes \X Connections -> {"out", "in", "default"}]
      BY RowsFacts, EnteredFacts
<1>3. /\ choice \in [Scopes \X SlotNames -> Connections \cup {NoChoice}]
      /\ \A x \in Scopes \X SlotNames : choice[x] = IF x = <<scope, slot>> THEN c ELSE s.choice[x]
      BY RowsFacts
<1> HIDE DEF pool, choice
<1>4. /\ t \in Rows /\ t.connection = s.connection /\ t.catalog = s.catalog
      /\ t.pool = pool /\ t.choice = choice
      BY <1>2, <1>3 DEF Rows
<1> HIDE DEF t
<1> QED BY <1>1, <1>3, <1>4 DEF pool

LEMMA SlotChosenOthers ==
    ASSUME NEW s \in Rows, NEW scope \in Scopes, NEW slot \in SlotNames, NEW c \in Connections,
           NEW x \in Scopes \X SlotNames, x # <<scope, slot>>
    PROVE  SlotChosen(s, scope, slot, c).choice[x] = s.choice[x]
<1>1. s.choice \in [Scopes \X SlotNames -> Connections \cup {NoChoice}]
      BY RowsFacts
<1> DEFINE choice == [s.choice EXCEPT ![<<scope, slot>>] = c]
<1>2. SlotChosen(s, scope, slot, c).choice = choice
      BY DEF SlotChosen, Rows
<1>3. choice[x] = s.choice[x]
      BY <1>1
<1> QED BY <1>2, <1>3

LEMMA AddedFacts ==
    ASSUME NEW s \in Rows, NEW scope \in Scopes, NEW c \in Connections, NEW first \in BOOLEAN
    PROVE  /\ Added(s, scope, c, first) \in Rows
           /\ Added(s, scope, c, first).connection = s.connection
           /\ Added(s, scope, c, first).catalog = s.catalog
           /\ Added(s, scope, c, first).pool =
                  Entered(s.pool, scope, c, first \/ Pool(s, scope) = {})
           /\ \A x \in Scopes \X SlotNames :
                  Added(s, scope, c, first).choice[x] =
                      IF x = <<scope, "chat">> /\ Added(s, scope, c, first).pool[<<scope, c>>] = "default"
                      THEN c ELSE s.choice[x]
<1> DEFINE pool == Entered(s.pool, scope, c, first \/ Pool(s, scope) = {})
           choice == [s.choice EXCEPT ![<<scope, "chat">>] = IF pool[<<scope, c>>] = "default" THEN c ELSE @]
           t == [s EXCEPT !.pool = pool, !.choice = choice]
<1>1. Added(s, scope, c, first) = t
      BY DEF Added, Rows
<1>2. pool \in [Scopes \X Connections -> {"out", "in", "default"}]
      BY RowsFacts, EnteredFacts
<1> HIDE DEF pool
<1>3. /\ choice \in [Scopes \X SlotNames -> Connections \cup {NoChoice}]
      /\ \A x \in Scopes \X SlotNames :
             choice[x] = IF x = <<scope, "chat">> /\ pool[<<scope, c>>] = "default" THEN c ELSE s.choice[x]
      BY RowsFacts DEF SlotNames
<1> HIDE DEF choice
<1>4. /\ t \in Rows /\ t.connection = s.connection /\ t.catalog = s.catalog
      /\ t.pool = pool /\ t.choice = choice
      BY <1>2, <1>3 DEF Rows
<1> HIDE DEF t
<1> QED BY <1>1, <1>3, <1>4 DEF pool

\* Neither takes a connection away, or changes another choice.
LEMMA EnteringFacts ==
    ASSUME NEW s \in Rows, NEW scope \in Scopes, NEW c \in Connections
    PROVE  /\ \A slot \in SlotNames :
                  /\ SlotChosen(s, scope, slot, c) \in Rows
                  /\ SlotChosen(s, scope, slot, c).connection = s.connection
                  /\ \A x \in Scopes \X SlotNames :
                         x # <<scope, slot>> => SlotChosen(s, scope, slot, c).choice[x] = s.choice[x]
           /\ \A first \in BOOLEAN :
                  /\ Added(s, scope, c, first) \in Rows
                  /\ Added(s, scope, c, first).connection = s.connection
                  /\ \A x \in Scopes \X SlotNames :
                         x # <<scope, "chat">> => Added(s, scope, c, first).choice[x] = s.choice[x]
<1>1. ASSUME NEW slot \in SlotNames, NEW x \in Scopes \X SlotNames, x # <<scope, slot>>
      PROVE  SlotChosen(s, scope, slot, c).choice[x] = s.choice[x]
      BY <1>1, SlotChosenOthers
<1>2. ASSUME NEW slot \in SlotNames
      PROVE  /\ SlotChosen(s, scope, slot, c) \in Rows
             /\ SlotChosen(s, scope, slot, c).connection = s.connection
      BY SlotChosenFacts, Zenon
<1>3. ASSUME NEW first \in BOOLEAN, NEW x \in Scopes \X SlotNames, x # <<scope, "chat">>
      PROVE  Added(s, scope, c, first).choice[x] = s.choice[x]
  <2>1. Added(s, scope, c, first).choice[x] =
            IF x = <<scope, "chat">> /\ Added(s, scope, c, first).pool[<<scope, c>>] = "default"
            THEN c ELSE s.choice[x]
        BY AddedFacts, Zenon
  <2> QED BY <1>3, <2>1
<1>4. ASSUME NEW first \in BOOLEAN
      PROVE  /\ Added(s, scope, c, first) \in Rows
             /\ Added(s, scope, c, first).connection = s.connection
      BY AddedFacts, Zenon
<1> QED BY <1>1, <1>2, <1>3, <1>4

LEMMA PrunedFacts ==
    ASSUME NEW s \in Rows, NEW c \in Connections
    PROVE  LET t == Pruned(s, c) IN
           /\ t \in Rows
           /\ t.connection = s.connection /\ t.pool = s.pool /\ t.choice = s.choice
           /\ \A x \in Connections \X SlotNames : t.catalog[x] \in {"out", s.catalog[x]}
<1> DEFINE catalog == [x \in Connections \X SlotNames |->
                          IF x[1] = c /\ x[2] \notin s.connection[c] THEN "out" ELSE s.catalog[x]]
           t == [s EXCEPT !.catalog = catalog]
<1>1. Pruned(s, c) = t
      BY RowsFacts DEF Pruned, Rows
<1>2. /\ catalog \in [Connections \X SlotNames -> {"out", "in"}]
      /\ \A x \in Connections \X SlotNames : catalog[x] \in {"out", s.catalog[x]}
      BY RowsFacts
<1> HIDE DEF catalog
<1> QED BY <1>1, <1>2 DEF Rows

LEMMA DisconnectedFacts ==
    ASSUME NEW s \in Rows, NEW c \in Connections
    PROVE  LET t == Disconnected(s, c) IN
           /\ t \in Rows
           /\ t.connection = [s.connection EXCEPT ![c] = {}]
           /\ \A d \in Connections, m \in SlotNames :
                  t.catalog[<<d, m>>] = IF d = c THEN "out" ELSE s.catalog[<<d, m>>]
           /\ \A o \in Scopes, d \in Connections :
                  t.pool[<<o, d>>] = IF d = c THEN "out" ELSE s.pool[<<o, d>>]
           /\ \A x \in Scopes \X SlotNames :
                  t.choice[x] = IF s.choice[x] = c THEN NoChoice ELSE s.choice[x]
<1> DEFINE connection == [s.connection EXCEPT ![c] = {}]
           catalog == [x \in DOMAIN s.catalog |-> IF x[1] = c THEN "out" ELSE s.catalog[x]]
           pool == [x \in DOMAIN s.pool |-> IF x[2] = c THEN "out" ELSE s.pool[x]]
           choice == [x \in DOMAIN s.choice |-> IF s.choice[x] = c THEN NoChoice ELSE s.choice[x]]
<1>1. connection \in [Connections -> SUBSET SlotNames]
      BY RowsFacts
<1>2. /\ catalog \in [Connections \X SlotNames -> {"out", "in"}]
      /\ \A d \in Connections, m \in SlotNames :
             catalog[<<d, m>>] = IF d = c THEN "out" ELSE s.catalog[<<d, m>>]
      BY RowsFacts
<1>3. /\ pool \in [Scopes \X Connections -> {"out", "in", "default"}]
      /\ \A o \in Scopes, d \in Connections : pool[<<o, d>>] = IF d = c THEN "out" ELSE s.pool[<<o, d>>]
      BY RowsFacts
<1>4. /\ choice \in [Scopes \X SlotNames -> Connections \cup {NoChoice}]
      /\ \A x \in Scopes \X SlotNames : choice[x] = IF s.choice[x] = c THEN NoChoice ELSE s.choice[x]
      BY RowsFacts
<1>5. Disconnected(s, c) = [connection |-> connection, catalog |-> catalog, pool |-> pool, choice |-> choice]
      BY DEF Disconnected
<1> DEFINE t == [connection |-> connection, catalog |-> catalog, pool |-> pool, choice |-> choice]
<1> HIDE DEF connection, catalog, pool, choice
<1>6. /\ t \in Rows /\ t.connection = connection /\ t.catalog = catalog
      /\ t.pool = pool /\ t.choice = choice
      BY <1>1, <1>2, <1>3, <1>4 DEF Rows
<1> HIDE DEF t
<1>7. Disconnected(s, c) = t
      BY <1>5 DEF t
<1> QED BY <1>2, <1>3, <1>4, <1>6, <1>7 DEF connection

-----------------------------------------------------------------------------
(* The settings: the operations                                             *)

LEMMA OperationFacts ==
    ASSUME NEW op \in Operations
    PROVE  /\ op.kind \in {"choose", "drop", "add", "rotate", "remove", "connect", "sync", "disconnect"}
           /\ op.kind \in {"choose", "drop", "add", "rotate", "remove"} => op.scope \in Scopes
           /\ op.kind \in {"choose", "drop"} => op.slot \in SlotNames
           /\ op.kind \in {"choose", "add", "rotate", "remove", "connect", "sync", "disconnect"} =>
                  op.on \in Connections
           /\ op.kind \in {"connect", "sync"} => op.caps \in SUBSET SlotNames
           /\ op.kind = "add" => op.first \in BOOLEAN
BY DEF Operations

\* A change of the settings is one of these, or none.
LEMMA OutcomeCases ==
    ASSUME NEW s \in Rows, NEW op \in Operations, Outcome(s, op) # s
    PROVE  \/ op.kind = "choose" /\ Outcome(s, op) = SlotChosen(s, op.scope, op.slot, op.on)
           \/ op.kind = "drop" /\ Outcome(s, op) = SlotDropped(s, op.scope, op.slot)
           \/ op.kind = "add" /\ Outcome(s, op) = Added(s, op.scope, op.on, op.first)
           \/ op.kind = "rotate" /\ Outcome(s, op) = SlotChosen(s, op.scope, "chat", op.on)
           \/ /\ op.kind = "remove" /\ op.on \in Pool(s, op.scope) \ Defaults(s, op.scope)
              /\ Cardinality(Pool(s, op.scope)) > 1
              /\ Outcome(s, op) = [s EXCEPT !.pool[<<op.scope, op.on>>] = "out"]
           \/ op.kind = "connect" /\ Outcome(s, op) = Connected(s, op.on, op.caps)
           \/ op.kind = "disconnect" /\ Outcome(s, op) = Disconnected(s, op.on)
<1>1. op.kind \in {"choose", "drop", "add", "rotate", "remove", "connect", "sync", "disconnect"}
      BY OperationFacts
<1>2. CASE op.kind = "choose"
      BY <1>2 DEF Outcome
<1>3. CASE op.kind = "drop"
      BY <1>3 DEF Outcome
<1>4. CASE op.kind = "add"
      BY <1>4 DEF Outcome
<1>5. CASE op.kind = "rotate"
      BY <1>5 DEF Outcome, Rotated
<1>6. CASE op.kind = "remove"
      BY <1>6 DEF Outcome, Removed
<1>7. CASE op.kind = "connect"
      BY <1>7 DEF Outcome
<1>8. CASE op.kind = "disconnect"
      BY <1>8 DEF Outcome
<1>9. CASE op.kind = "sync"
      BY <1>9 DEF Outcome
<1> QED BY <1>1, <1>2, <1>3, <1>4, <1>5, <1>6, <1>7, <1>8, <1>9

\* The connections that are emptied: the one that is deleted.
LosesOnly(r) ==
    \A c \in Connections :
        r.wanted.connection[c] = {} /\ r.seen.connection[c] # {} =>
            r.op.kind = "disconnect" /\ r.op.on = c

LEMMA OutcomeFacts ==
    ASSUME NEW s \in Rows, NEW op \in Operations, Outcome(s, op) # s
    PROVE  /\ Outcome(s, op) \in Rows
           /\ op.kind \in {"choose", "drop", "add", "rotate", "remove"} =>
                  Outcome(s, op).connection = s.connection
           /\ op.kind = "connect" =>
                  Outcome(s, op).connection = [s.connection EXCEPT ![op.on] = op.caps]
           /\ op.kind = "disconnect" =>
                  Outcome(s, op).connection = [s.connection EXCEPT ![op.on] = {}]
<1>1. CASE op.kind \in {"choose", "rotate"}
  <2>1. "chat" \in SlotNames
        BY DEF SlotNames
  <2>2. PICK slot \in SlotNames : Outcome(s, op) = SlotChosen(s, op.scope, slot, op.on)
        BY <1>1, <2>1, OutcomeCases, OperationFacts
  <2>3. op.scope \in Scopes /\ op.on \in Connections
        BY <1>1, OperationFacts
  <2>4. /\ SlotChosen(s, op.scope, slot, op.on) \in Rows
        /\ SlotChosen(s, op.scope, slot, op.on).connection = s.connection
        BY <2>3, EnteringFacts
  <2> QED BY <1>1, <2>2, <2>4
<1>2. CASE op.kind = "drop"
  <2> DEFINE choice == [s.choice EXCEPT ![<<op.scope, op.slot>>] = NoChoice]
  <2>1. Outcome(s, op) = [s EXCEPT !.choice = choice]
        BY <1>2, OutcomeCases DEF SlotDropped, Rows
  <2>2. choice \in [Scopes \X SlotNames -> Connections \cup {NoChoice}]
        BY RowsFacts
  <2> HIDE DEF choice
  <2>3. [s EXCEPT !.choice = choice] \in Rows /\ [s EXCEPT !.choice = choice].connection = s.connection
        BY <2>2 DEF Rows
  <2> QED BY <1>2, <2>1, <2>3
<1>3. CASE op.kind = "add"
  <2>1. op.scope \in Scopes /\ op.on \in Connections /\ op.first \in BOOLEAN
        BY <1>3, OperationFacts
  <2>2. /\ Added(s, op.scope, op.on, op.first) \in Rows
        /\ Added(s, op.scope, op.on, op.first).connection = s.connection
        BY <2>1, EnteringFacts
  <2> QED BY <1>3, <2>2, OutcomeCases
<1>4. CASE op.kind = "remove"
  <2> DEFINE pool == [s.pool EXCEPT ![<<op.scope, op.on>>] = "out"]
  <2>1. Outcome(s, op) = [s EXCEPT !.pool = pool]
        BY <1>4, OutcomeCases DEF Rows
  <2>2. pool \in [Scopes \X Connections -> {"out", "in", "default"}]
        BY RowsFacts
  <2> HIDE DEF pool
  <2>3. [s EXCEPT !.pool = pool] \in Rows /\ [s EXCEPT !.pool = pool].connection = s.connection
        BY <2>2 DEF Rows
  <2> QED BY <1>4, <2>1, <2>3
<1>5. CASE op.kind = "connect"
  <2> DEFINE connection == [s.connection EXCEPT ![op.on] = op.caps]
             t == [s EXCEPT !.connection = connection]
  <2>1. op.on \in Connections /\ op.caps \in SUBSET SlotNames
        BY <1>5, OperationFacts
  <2>2. Outcome(s, op) = Pruned(t, op.on)
        BY <1>5, OutcomeCases DEF Connected, Rows
  <2>3. connection \in [Connections -> SUBSET SlotNames]
        BY <2>1, RowsFacts
  <2> HIDE DEF connection
  <2>4. t \in Rows /\ t.connection = connection
        BY <2>3 DEF Rows
  <2> HIDE DEF t
  <2>5. Pruned(t, op.on) \in Rows /\ Pruned(t, op.on).connection = connection
        BY <2>1, <2>4, PrunedFacts
  <2> QED BY <1>5, <2>2, <2>5 DEF connection
<1>6. CASE op.kind = "disconnect"
  <2>1. op.on \in Connections
        BY <1>6, OperationFacts
  <2>2. Outcome(s, op) = Disconnected(s, op.on)
        BY <1>6, OutcomeCases
  <2>3. Disconnected(s, op.on) \in Rows /\ Disconnected(s, op.on).connection = [s.connection EXCEPT ![op.on] = {}]
        BY <2>1, DisconnectedFacts
  <2> QED BY <1>6, <2>2, <2>3
<1>7. op.kind # "sync" /\ op.kind \in {"choose", "drop", "add", "rotate", "remove", "connect", "disconnect"}
      BY OutcomeCases
<1> QED BY <1>1, <1>2, <1>3, <1>4, <1>5, <1>6, <1>7

\* What is filled in was not there.
LEMMA FilledFacts ==
    ASSUME NEW s \in Rows
    PROVE  /\ Filled(s) \in Rows /\ Filled(s).connection = s.connection
           /\ \A x \in Scopes \X SlotNames :
                  s.choice[x] # NoChoice => Filled(s).choice[x] = s.choice[x]
<1> DEFINE chats == Candidates(s, "chat")
           chat == IF Pool(s, "global") = {} /\ s.choice[<<"global", "chat">>] = NoChoice /\ chats # {}
                   THEN Added(s, "global", LeastOf(chats), TRUE) ELSE s
           reranks == Candidates(chat, "rerank")
           both == IF chat.choice[<<"global", "rerank">>] = NoChoice /\ reranks # {}
                   THEN SlotChosen(chat, "global", "rerank", LeastOf(reranks)) ELSE chat
<1>1. Filled(s) = both
      BY DEF Filled
<1>2. "global" \in Scopes /\ "chat" \in SlotNames /\ "rerank" \in SlotNames
      BY SettingsNumbers DEF SlotNames
<1>3. /\ chat \in Rows /\ chat.connection = s.connection
      /\ \A x \in Scopes \X SlotNames : s.choice[x] # NoChoice => chat.choice[x] = s.choice[x]
  <2>1. CASE Pool(s, "global") = {} /\ s.choice[<<"global", "chat">>] = NoChoice /\ chats # {}
    <3> DEFINE c == LeastOf(chats)
    <3>1. chats \in SUBSET Connections
          BY DEF Candidates
    <3>2. c \in Connections
          BY <2>1, <3>1, LeastConnection
    <3>3. chat = Added(s, "global", c, TRUE)
          BY <2>1
    <3> HIDE DEF c, chat
    <3>4. /\ chat \in Rows /\ chat.connection = s.connection
          /\ \A x \in Scopes \X SlotNames : x # <<"global", "chat">> => chat.choice[x] = s.choice[x]
      <4>1. TRUE \in BOOLEAN
            OBVIOUS
      <4>2. /\ Added(s, "global", c, TRUE) \in Rows
            /\ Added(s, "global", c, TRUE).connection = s.connection
            /\ \A x \in Scopes \X SlotNames :
                   x # <<"global", "chat">> => Added(s, "global", c, TRUE).choice[x] = s.choice[x]
            BY <1>2, <3>2, <4>1, EnteringFacts, Zenon
      <4> QED BY <3>3, <4>2
    <3> QED BY <2>1, <3>4
  <2>2. CASE ~(Pool(s, "global") = {} /\ s.choice[<<"global", "chat">>] = NoChoice /\ chats # {})
        BY <2>2
  <2> QED BY <2>1, <2>2
<1> HIDE DEF chat
<1>4. /\ both \in Rows /\ both.connection = s.connection
      /\ \A x \in Scopes \X SlotNames : s.choice[x] # NoChoice => both.choice[x] = s.choice[x]
  <2>1. CASE chat.choice[<<"global", "rerank">>] = NoChoice /\ reranks # {}
    <3> DEFINE c == LeastOf(reranks)
    <3>1. reranks \in SUBSET Connections
          BY DEF Candidates
    <3>2. c \in Connections
          BY <2>1, <3>1, LeastConnection
    <3>3. both = SlotChosen(chat, "global", "rerank", c)
          BY <2>1
    <3> HIDE DEF c, both, reranks
    <3>4. /\ both \in Rows /\ both.connection = chat.connection
          /\ \A x \in Scopes \X SlotNames :
                 x # <<"global", "rerank">> => both.choice[x] = chat.choice[x]
          BY <1>2, <1>3, <3>2, <3>3, EnteringFacts
    <3>5. ASSUME NEW x \in Scopes \X SlotNames, s.choice[x] # NoChoice
          PROVE  both.choice[x] = s.choice[x]
      <4>1. chat.choice[x] = s.choice[x]
            BY <1>3, <3>5
      <4>2. x # <<"global", "rerank">>
            BY <2>1, <3>5, <4>1
      <4> QED BY <3>4, <4>1, <4>2
    <3> QED BY <1>3, <3>4, <3>5
  <2>2. CASE ~(chat.choice[<<"global", "rerank">>] = NoChoice /\ reranks # {})
        BY <1>3, <2>2
  <2> QED BY <2>1, <2>2
<1> HIDE DEF both
<1> QED BY <1>1, <1>4

LEMMA SyncedFacts ==
    ASSUME NEW s \in Rows, NEW c \in Connections, NEW offered \in SUBSET SlotNames
    PROVE  /\ Synced(s, c, offered) \in Rows
           /\ Synced(s, c, offered).connection = s.connection
           /\ \A x \in Scopes \X SlotNames :
                  s.choice[x] # NoChoice => Synced(s, c, offered).choice[x] = s.choice[x]
<1> DEFINE catalog == [x \in Connections \X SlotNames |->
                          IF x \in Upserted(s, c, offered) THEN "in" ELSE s.catalog[x]]
           listed == [s EXCEPT !.catalog = catalog]
           filled == Filled(listed)
<1>1. Synced(s, c, offered) = Pruned(filled, c)
      BY RowsFacts DEF Synced, Rows
<1>2. catalog \in [Connections \X SlotNames -> {"out", "in"}]
      BY RowsFacts
<1> HIDE DEF catalog
<1>3. listed \in Rows /\ listed.connection = s.connection /\ listed.choice = s.choice
      BY <1>2 DEF Rows
<1> HIDE DEF listed
<1>4. /\ filled \in Rows /\ filled.connection = s.connection
      /\ \A x \in Scopes \X SlotNames : s.choice[x] # NoChoice => filled.choice[x] = s.choice[x]
      BY <1>3, FilledFacts
<1> HIDE DEF filled
<1>5. /\ Pruned(filled, c) \in Rows /\ Pruned(filled, c).connection = filled.connection
      /\ Pruned(filled, c).choice = filled.choice
      BY <1>4, PrunedFacts
<1> QED BY <1>1, <1>4, <1>5

-----------------------------------------------------------------------------
(* The settings: what is written when a transaction commits                 *)

LEMMA MergedFacts ==
    ASSUME NEW now \in Rows, NEW seen \in Rows, NEW wanted \in Rows
    PROVE  /\ Merged(now, seen, wanted) \in Rows
           /\ \A x \in Connections :
                  Merged(now, seen, wanted).connection[x] =
                      IF wanted.connection[x] = seen.connection[x]
                      THEN now.connection[x] ELSE wanted.connection[x]
           /\ \A x \in Connections \X SlotNames :
                  Merged(now, seen, wanted).catalog[x] =
                      IF wanted.catalog[x] = seen.catalog[x]
                      THEN now.catalog[x] ELSE wanted.catalog[x]
           /\ \A x \in Scopes \X Connections :
                  Merged(now, seen, wanted).pool[x] =
                      IF wanted.pool[x] = seen.pool[x]
                      THEN now.pool[x] ELSE wanted.pool[x]
           /\ \A x \in Scopes \X SlotNames :
                  Merged(now, seen, wanted).choice[x] =
                      IF wanted.choice[x] = seen.choice[x]
                      THEN now.choice[x] ELSE wanted.choice[x]
<1> DEFINE M(t) == [x \in DOMAIN now[t] |->
                       IF wanted[t][x] = seen[t][x] THEN now[t][x] ELSE wanted[t][x]]
<1>1. M("connection") \in [Connections -> SUBSET SlotNames]
      BY RowsFacts
<1>2. M("catalog") \in [Connections \X SlotNames -> {"out", "in"}]
      BY RowsFacts
<1>3. M("pool") \in [Scopes \X Connections -> {"out", "in", "default"}]
      BY RowsFacts
<1>4. M("choice") \in [Scopes \X SlotNames -> Connections \cup {NoChoice}]
      BY RowsFacts
<1>5. /\ \A x \in Connections :
             M("connection")[x] = IF wanted.connection[x] = seen.connection[x]
                                  THEN now.connection[x] ELSE wanted.connection[x]
      /\ \A x \in Connections \X SlotNames :
             M("catalog")[x] = IF wanted.catalog[x] = seen.catalog[x]
                               THEN now.catalog[x] ELSE wanted.catalog[x]
      /\ \A x \in Scopes \X Connections :
             M("pool")[x] = IF wanted.pool[x] = seen.pool[x] THEN now.pool[x] ELSE wanted.pool[x]
      /\ \A x \in Scopes \X SlotNames :
             M("choice")[x] = IF wanted.choice[x] = seen.choice[x]
                              THEN now.choice[x] ELSE wanted.choice[x]
      BY RowsFacts
<1>6. Merged(now, seen, wanted) = [t \in DOMAIN now |-> M(t)]
      BY DEF Merged
<1> HIDE DEF M
<1>7. DOMAIN now = {"connection", "catalog", "pool", "choice"}
      BY DEF Rows
<1>8. [t \in DOMAIN now |-> M(t)] =
          [connection |-> M("connection"), catalog |-> M("catalog"),
           pool |-> M("pool"), choice |-> M("choice")]
      BY <1>7
<1> QED BY <1>1, <1>2, <1>3, <1>4, <1>5, <1>6, <1>8 DEF Rows

-----------------------------------------------------------------------------
(* The settings: their inductive invariant                                  *)

\* A listing only fills in what it read as not chosen.
OnlyFills(r) ==
    \A x \in Scopes \X SlotNames :
        r.seen.choice[x] # NoChoice => r.wanted.choice[x] = r.seen.choice[x]

\* What a transaction is about to write follows from what it read.
Justified(r) ==
    /\ LosesOnly(r)
    /\ r.op.kind = "sync" => OnlyFills(r)
    /\ r.op.kind # "sync" => r.wanted = Outcome(r.seen, r.op) /\ r.wanted # r.seen

ChangesJustified ==
    \A a \in Admins :
        /\ change[a].step = "writing" => Justified(change[a])
        /\ change[a].step = "listing" => change[a].op.kind = "sync"

SettingsInv == SettingsTypeOK /\ ChoicesExist /\ ChangesJustified

LEMMA ChangeFacts ==
    ASSUME SettingsTypeOK, NEW a \in Admins
    PROVE  /\ change[a] \in Change
           /\ change[a].step \in {"idle", "listing", "writing"}
           /\ change[a].step = "listing" => change[a].op \in Operations
           /\ change[a].step = "writing" =>
                  /\ change[a].op \in Operations
                  /\ change[a].seen \in Rows /\ change[a].wanted \in Rows
                  /\ change[a].updated \in SUBSET (Connections \X SlotNames)
<1>1. change[a] \in Change
      BY DEF SettingsTypeOK
<1>2. \A r \in Change :
          /\ r.step \in {"idle", "listing", "writing"}
          /\ r.step = "listing" => r.op \in Operations
          /\ r.step = "writing" =>
                 /\ r.op \in Operations
                 /\ r.seen \in Rows /\ r.wanted \in Rows
                 /\ r.updated \in SUBSET (Connections \X SlotNames)
      BY DEF Change
<1> QED BY <1>1, <1>2

\* A transaction that writes, or has nothing to write, disturbs no other.
LEMMA ChangeSet ==
    ASSUME SettingsTypeOK, ChangesJustified, NEW a \in Admins, NEW r \in Change,
           change' = [change EXCEPT ![a] = r],
           r.step = "writing" => Justified(r),
           r.step = "listing" => r.op.kind = "sync"
    PROVE  change' \in [Admins -> Change] /\ ChangesJustified'
<1>1. change \in [Admins -> Change]
      BY DEF SettingsTypeOK
<1>2. change' \in [Admins -> Change] /\ \A b \in Admins : change'[b] = IF b = a THEN r ELSE change[b]
      BY <1>1
<1>3. ASSUME NEW b \in Admins
      PROVE  /\ change'[b].step = "writing" => Justified(change'[b])
             /\ change'[b].step = "listing" => change'[b].op.kind = "sync"
  <2>1. CASE b = a
        BY <1>2, <2>1
  <2>2. CASE b # a
        BY <1>2, <2>2 DEF ChangesJustified
  <2> QED BY <2>1, <2>2
<1> QED BY <1>2, <1>3 DEF ChangesJustified

LEMMA NoChangeFacts == NoChange \in Change /\ NoChange.step = "idle"
BY DEF NoChange, Change

LEMMA BeginKeeps ==
    ASSUME SettingsInv, NEW a \in Admins, NEW op \in Operations,
           op.kind # "sync", op.kind = "connect" => op.caps # {},
           BeginSetting(a, op)
    PROVE  SettingsInv'
<1> DEFINE o == Outcome(settings, op)
           r == [step |-> "writing", op |-> op, seen |-> settings, wanted |-> o, updated |-> {}]
<1>1. settings \in Rows /\ o # settings /\ UNCHANGED settings /\ change' = [change EXCEPT ![a] = r]
      BY DEF SettingsInv, SettingsTypeOK, BeginSetting, Write
<1>2. begun' \in 0..LastChange
      BY SettingsAssumption DEF SettingsInv, SettingsTypeOK, BeginSetting
<1>3. /\ o \in Rows
      /\ op.kind \in {"choose", "drop", "add", "rotate", "remove"} => o.connection = settings.connection
      /\ op.kind = "connect" => o.connection = [settings.connection EXCEPT ![op.on] = op.caps]
      /\ op.kind = "disconnect" => o.connection = [settings.connection EXCEPT ![op.on] = {}]
      BY <1>1, OutcomeFacts
<1>4. ASSUME NEW c \in Connections, o.connection[c] = {}, settings.connection[c] # {}
      PROVE  op.kind = "disconnect" /\ op.on = c
  <2>1. settings.connection \in [Connections -> SUBSET SlotNames]
        BY <1>1, RowsFacts
  <2>2. CASE op.kind = "connect"
        BY <1>3, <1>4, <2>1, <2>2
  <2>3. CASE op.kind = "disconnect"
        BY <1>3, <1>4, <2>1, <2>3
  <2>4. CASE op.kind \in {"choose", "drop", "add", "rotate", "remove"}
        BY <1>3, <1>4, <2>4
  <2> QED BY <2>2, <2>3, <2>4, OperationFacts
<1> HIDE DEF o
<1>5. r \in Change /\ r.step = "writing" /\ r.op = op /\ r.seen = settings /\ r.wanted = o
      BY <1>1, <1>3 DEF Change
<1> HIDE DEF r
<1>6. Justified(r)
      BY <1>1, <1>4, <1>5 DEF Justified, LosesOnly, o
<1>7. change' \in [Admins -> Change] /\ ChangesJustified'
      BY <1>1, <1>5, <1>6, ChangeSet DEF SettingsInv
<1>8. ChoicesExist'
      BY <1>1 DEF SettingsInv, ChoicesExist
<1> QED BY <1>1, <1>2, <1>7, <1>8 DEF SettingsInv, SettingsTypeOK

LEMMA ListingKeeps ==
    ASSUME SettingsInv, NEW a \in Admins, ListModels(a)
    PROVE  SettingsInv'
<1> DEFINE op == change[a].op
           connection == [settings.connection EXCEPT ![op.on] = op.caps]
           read == [settings EXCEPT !.connection = connection]
           W(offered) == Synced(read, op.on, offered)
           U(offered) == Upserted(read, op.on, offered)
           R(offered) == [step |-> "writing", op |-> op, seen |-> read, wanted |-> W(offered),
                          updated |-> U(offered)]
<1>1. settings \in Rows /\ UNCHANGED <<settings, begun>> /\ change[a].step = "listing"
      BY DEF SettingsInv, SettingsTypeOK, ListModels
<1>2. [settings EXCEPT !.connection[op.on] = op.caps] = read
      BY <1>1 DEF Rows
<1>3. PICK offered \in SUBSET SlotNames : change' = [change EXCEPT ![a] = R(offered)]
      BY <1>2 DEF ListModels, Write
<1>4. /\ op \in Operations /\ op.kind = "sync"
      /\ op.on \in Connections /\ op.caps \in SUBSET SlotNames
  <2>1. op \in Operations /\ op.kind = "sync"
        BY <1>1, ChangeFacts DEF SettingsInv, ChangesJustified
  <2> QED BY <2>1, OperationFacts
<1>5. connection \in [Connections -> SUBSET SlotNames]
      BY <1>1, <1>4, RowsFacts
<1> HIDE DEF connection
<1>6. read \in Rows
      BY <1>1, <1>5 DEF Rows
<1> HIDE DEF read
<1>7. /\ W(offered) \in Rows /\ W(offered).connection = read.connection
      /\ \A x \in Scopes \X SlotNames :
             read.choice[x] # NoChoice => W(offered).choice[x] = read.choice[x]
      BY <1>4, <1>6, SyncedFacts
<1>8. U(offered) \in SUBSET (Connections \X SlotNames)
      BY <1>4 DEF Upserted, Seeded, SlotNames
<1> HIDE DEF op, W, U
<1> DEFINE r == R(offered)
<1>9. /\ r \in Change /\ r.step = "writing" /\ r.op = op
      /\ r.seen = read /\ r.wanted = W(offered)
      BY <1>4, <1>6, <1>7, <1>8 DEF Change
<1>10. change' = [change EXCEPT ![a] = r]
      BY <1>3
<1> HIDE DEF r, R
<1>11. Justified(r)
      BY <1>4, <1>7, <1>9 DEF Justified, LosesOnly, OnlyFills
<1>12. change' \in [Admins -> Change] /\ ChangesJustified'
      BY <1>9, <1>10, <1>11, ChangeSet DEF SettingsInv
<1>13. ChoicesExist'
      BY <1>1 DEF SettingsInv, ChoicesExist
<1> QED BY <1>1, <1>12, <1>13 DEF SettingsInv, SettingsTypeOK

\* A row that was inserted was absent, one that was updated still there.
LEMMA FitsFacts ==
    ASSUME NEW now \in Rows, NEW r, r.seen \in Rows, r.wanted \in Rows, Fits(now, r)
    PROVE  /\ \A c \in Connections, m \in SlotNames :
                  r.wanted.catalog[<<c, m>>] # r.seen.catalog[<<c, m>>] /\ r.wanted.catalog[<<c, m>>] = "in" =>
                      now.connection[c] # {}
           /\ \A x \in Scopes \X Connections :
                  r.wanted.pool[x] # r.seen.pool[x] /\ r.wanted.pool[x] # "out" =>
                      /\ r.seen.pool[x] = "out" => now.connection[x[2]] # {}
                      /\ r.seen.pool[x] # "out" => now.pool[x] # "out"
           /\ \A x \in Scopes \X SlotNames :
                  r.wanted.choice[x] # r.seen.choice[x] /\ r.wanted.choice[x] # NoChoice =>
                      /\ now.connection[r.wanted.choice[x]] # {}
                      /\ (now.choice[x] = NoChoice) <=> (r.seen.choice[x] = NoChoice)
<1>1. /\ DOMAIN now = {"connection", "catalog", "pool", "choice"}
      /\ DOMAIN now.pool = Scopes \X Connections
      /\ DOMAIN now.choice = Scopes \X SlotNames
      /\ DOMAIN r.wanted.catalog = Connections \X SlotNames
      /\ DOMAIN r.wanted.pool = Scopes \X Connections
      /\ DOMAIN r.wanted.choice = Scopes \X SlotNames
      BY DEF Rows
<1>2. \A c \in Referred(r.seen, r.wanted) : now.connection[c] # {}
      BY DEF Fits
<1>3. ASSUME NEW c \in Connections, NEW m \in SlotNames,
             r.wanted.catalog[<<c, m>>] # r.seen.catalog[<<c, m>>], r.wanted.catalog[<<c, m>>] = "in"
      PROVE  now.connection[c] # {}
  <2>1. <<c, m>> \in DOMAIN r.wanted.catalog /\ <<c, m>>[1] = c
        BY <1>1
  <2>2. c \in Referred(r.seen, r.wanted)
        BY <1>3, <2>1 DEF Referred
  <2> QED BY <1>2, <2>2
<1>4. ASSUME NEW x \in Scopes \X Connections,
             r.wanted.pool[x] # r.seen.pool[x], r.wanted.pool[x] # "out"
      PROVE  /\ r.seen.pool[x] = "out" => now.connection[x[2]] # {}
             /\ r.seen.pool[x] # "out" => now.pool[x] # "out"
  <2>1. CASE r.seen.pool[x] = "out"
        BY <1>1, <1>2, <1>4, <2>1 DEF Referred
  <2>2. CASE r.seen.pool[x] # "out"
    <3>1. NoSetting("pool") = "out"
          BY DEF NoSetting
    <3>2. r.wanted["pool"][x] \notin {r.seen["pool"][x], NoSetting("pool")} =>
              (now["pool"][x] = NoSetting("pool")) = (r.seen["pool"][x] = NoSetting("pool"))
          BY <1>1 DEF Fits, WritesFit
    <3> QED BY <1>4, <2>2, <3>1, <3>2
  <2> QED BY <2>1, <2>2
<1>5. ASSUME NEW x \in Scopes \X SlotNames,
             r.wanted.choice[x] # r.seen.choice[x], r.wanted.choice[x] # NoChoice
      PROVE  /\ now.connection[r.wanted.choice[x]] # {}
             /\ (now.choice[x] = NoChoice) <=> (r.seen.choice[x] = NoChoice)
  <2>1. now.connection[r.wanted.choice[x]] # {}
        BY <1>1, <1>2, <1>5 DEF Referred
  <2>2. NoSetting("choice") = NoChoice
        BY DEF NoSetting
  <2>3. r.wanted["choice"][x] \notin {r.seen["choice"][x], NoSetting("choice")} =>
            (now["choice"][x] = NoSetting("choice")) = (r.seen["choice"][x] = NoSetting("choice"))
        BY <1>1 DEF Fits, WritesFit
  <2> QED BY <1>5, <2>1, <2>2, <2>3
<1> QED BY <1>3, <1>4, <1>5

\* No row names c.
Unnamed(s, c) ==
    /\ \A m \in SlotNames : s.catalog[<<c, m>>] = "out"
    /\ \A scope \in Scopes :
           s.pool[<<scope, c>>] = "out" /\ \A m \in SlotNames : s.choice[<<scope, m>>] # c

LEMMA ChangeCommitFacts ==
    ASSUME SettingsInv, NEW a \in Admins, CommitChange(a)
    PROVE  LET r == change[a]
               m == Merged(settings, r.seen, r.wanted)
           IN  /\ settings \in Rows /\ r.seen \in Rows /\ r.wanted \in Rows /\ m \in Rows
               /\ r.op \in Operations
               /\ r.op.kind = "disconnect" => r.op.on \in Connections
               /\ Justified(r) /\ Fits(settings, r)
               /\ settings' = IF r.op.kind = "disconnect" THEN Disconnected(m, r.op.on) ELSE m
<1>1. change[a].step = "writing" /\ settings \in Rows
      BY DEF CommitChange, SettingsInv, SettingsTypeOK
<1>2. /\ change[a].op \in Operations /\ change[a].seen \in Rows /\ change[a].wanted \in Rows
      BY <1>1, ChangeFacts DEF SettingsInv
<1>3. Justified(change[a])
      BY <1>1 DEF SettingsInv, ChangesJustified
<1>4. change[a].op.kind = "disconnect" => change[a].op.on \in Connections
      BY <1>2, OperationFacts
<1>5. Merged(settings, change[a].seen, change[a].wanted) \in Rows
      BY <1>1, <1>2, MergedFacts
<1> QED BY <1>1, <1>2, <1>3, <1>4, <1>5 DEF CommitChange

LEMMA CommitKeeps ==
    ASSUME SettingsInv, NEW a \in Admins, CommitChange(a)
    PROVE  SettingsInv'
<1> DEFINE r == change[a]
           m == Merged(settings, r.seen, r.wanted)
<1>1. /\ settings \in Rows /\ r.seen \in Rows /\ r.wanted \in Rows /\ m \in Rows
      /\ r.op \in Operations
      /\ r.op.kind = "disconnect" => r.op.on \in Connections
      /\ Justified(r) /\ Fits(settings, r)
      /\ settings' = IF r.op.kind = "disconnect" THEN Disconnected(m, r.op.on) ELSE m
      BY ChangeCommitFacts
<1>2. change' = [change EXCEPT ![a] = NoChange] /\ UNCHANGED begun
      BY DEF CommitChange
<1>3. change' \in [Admins -> Change] /\ ChangesJustified'
      BY <1>2, NoChangeFacts, ChangeSet DEF SettingsInv
<1>4. /\ \A d \in Connections, n \in SlotNames :
             r.wanted.catalog[<<d, n>>] # r.seen.catalog[<<d, n>>] /\ r.wanted.catalog[<<d, n>>] = "in" =>
                 settings.connection[d] # {}
      /\ \A x \in Scopes \X Connections :
             r.wanted.pool[x] # r.seen.pool[x] /\ r.wanted.pool[x] # "out" =>
                 /\ r.seen.pool[x] = "out" => settings.connection[x[2]] # {}
                 /\ r.seen.pool[x] # "out" => settings.pool[x] # "out"
      /\ \A x \in Scopes \X SlotNames :
             r.wanted.choice[x] # r.seen.choice[x] /\ r.wanted.choice[x] # NoChoice =>
                 /\ settings.connection[r.wanted.choice[x]] # {}
                 /\ (settings.choice[x] = NoChoice) <=> (r.seen.choice[x] = NoChoice)
      BY <1>1, FitsFacts
<1>5. ASSUME NEW c \in Connections, m.connection[c] = {},
             ~(r.op.kind = "disconnect" /\ r.op.on = c)
      PROVE  Unnamed(m, c)
  <2>1. m.connection[c] = IF r.wanted.connection[c] = r.seen.connection[c]
                          THEN settings.connection[c] ELSE r.wanted.connection[c]
    <3>1. settings \in Rows /\ r.seen \in Rows /\ r.wanted \in Rows
          BY <1>1, Zenon
    <3> QED BY <3>1, MergedFacts, SMTT(30)
  <2>2. settings.connection[c] = {}
        BY <1>1, <1>5, <2>1 DEF Justified, LosesOnly
  <2>3. Unnamed(settings, c)
        BY <2>2 DEF SettingsInv, ChoicesExist, Unnamed
  <2>4. ASSUME NEW n \in SlotNames PROVE m.catalog[<<c, n>>] = "out"
    <3>1. m.catalog[<<c, n>>] = IF r.wanted.catalog[<<c, n>>] = r.seen.catalog[<<c, n>>]
                                THEN settings.catalog[<<c, n>>] ELSE r.wanted.catalog[<<c, n>>]
          BY <1>1, MergedFacts
    <3>2. r.wanted.catalog[<<c, n>>] \in {"out", "in"}
          BY <1>1, RowsFacts
    <3>3. r.wanted.catalog[<<c, n>>] # r.seen.catalog[<<c, n>>] => r.wanted.catalog[<<c, n>>] # "in"
          BY <1>4, <2>2
    <3>4. settings.catalog[<<c, n>>] = "out"
          BY <2>3 DEF Unnamed
    <3> QED BY <3>1, <3>2, <3>3, <3>4
  <2>5. ASSUME NEW o \in Scopes PROVE m.pool[<<o, c>>] = "out"
    <3>1. m.pool[<<o, c>>] = IF r.wanted.pool[<<o, c>>] = r.seen.pool[<<o, c>>]
                             THEN settings.pool[<<o, c>>] ELSE r.wanted.pool[<<o, c>>]
          BY <1>1, MergedFacts
    <3>2. settings.pool[<<o, c>>] = "out"
          BY <2>3 DEF Unnamed
    <3>3. r.wanted.pool[<<o, c>>] # r.seen.pool[<<o, c>>] => r.wanted.pool[<<o, c>>] = "out"
          BY <1>4, <2>2, <3>2
    <3> QED BY <3>1, <3>2, <3>3
  <2>6. ASSUME NEW o \in Scopes, NEW n \in SlotNames PROVE m.choice[<<o, n>>] # c
    <3>1. m.choice[<<o, n>>] = IF r.wanted.choice[<<o, n>>] = r.seen.choice[<<o, n>>]
                               THEN settings.choice[<<o, n>>] ELSE r.wanted.choice[<<o, n>>]
          BY <1>1, MergedFacts
    <3>2. settings.choice[<<o, n>>] # c
          BY <2>3 DEF Unnamed
    <3>3. r.wanted.choice[<<o, n>>] # r.seen.choice[<<o, n>>] => r.wanted.choice[<<o, n>>] # c
          BY <1>4, <2>2, SettingsNumbers
    <3> QED BY <3>1, <3>2, <3>3
  <2> QED BY <2>4, <2>5, <2>6 DEF Unnamed
<1> HIDE DEF m
<1>6. ASSUME r.op.kind = "disconnect"
      PROVE  \E s \in Rows : settings' = s /\ \A c \in Connections : s.connection[c] = {} => Unnamed(s, c)
  <2>1. PICK on \in Connections : on = r.op.on
        BY <1>1, <1>6
  <2> DEFINE d == Disconnected(m, on)
  <2>2. /\ d \in Rows
        /\ d.connection = [m.connection EXCEPT ![on] = {}]
        /\ \A c \in Connections, n \in SlotNames :
               d.catalog[<<c, n>>] = IF c = on THEN "out" ELSE m.catalog[<<c, n>>]
        /\ \A o \in Scopes, c \in Connections :
               d.pool[<<o, c>>] = IF c = on THEN "out" ELSE m.pool[<<o, c>>]
        /\ \A x \in Scopes \X SlotNames :
               d.choice[x] = IF m.choice[x] = on THEN NoChoice ELSE m.choice[x]
    <3>1. m \in Rows
          BY <1>1, Zenon
    <3> QED BY <3>1, DisconnectedFacts
  <2>3. settings' = d
        BY <1>1, <1>6, <2>1
  <2> HIDE DEF d
  <2>4. ASSUME NEW c \in Connections, d.connection[c] = {} PROVE Unnamed(d, c)
    <3>1. CASE c = on
      <4>1. ASSUME NEW o \in Scopes, NEW n \in SlotNames PROVE d.choice[<<o, n>>] # c
        <5>1. d.choice[<<o, n>>] = IF m.choice[<<o, n>>] = c THEN NoChoice ELSE m.choice[<<o, n>>]
              BY <2>2, <3>1
        <5> QED BY <5>1, SettingsNumbers
      <4> QED BY <2>2, <3>1, <4>1 DEF Unnamed
    <3>2. CASE c # on
      <4>1. m.connection[c] = {}
            BY <1>1, <2>2, <2>4, <3>2, RowsFacts
      <4>2. Unnamed(m, c)
            BY <1>5, <2>1, <3>2, <4>1
      <4>3. ASSUME NEW o \in Scopes, NEW n \in SlotNames PROVE d.choice[<<o, n>>] # c
        <5>1. d.choice[<<o, n>>] \in {NoChoice, m.choice[<<o, n>>]}
              BY <2>2
        <5> QED BY <4>2, <5>1, SettingsNumbers DEF Unnamed
      <4> QED BY <2>2, <3>2, <4>2, <4>3 DEF Unnamed
    <3> QED BY <3>1, <3>2
  <2> QED BY <2>2, <2>3, <2>4
<1>7. ASSUME r.op.kind # "disconnect"
      PROVE  \E s \in Rows : settings' = s /\ \A c \in Connections : s.connection[c] = {} => Unnamed(s, c)
  <2>1. settings' = m
        BY <1>1, <1>7
  <2>2. \A c \in Connections : m.connection[c] = {} => Unnamed(m, c)
        BY <1>5, <1>7
  <2> QED BY <1>1, <2>1, <2>2
<1>8. settings' \in Rows /\ \A c \in Connections : settings'.connection[c] = {} => Unnamed(settings', c)
      BY <1>6, <1>7
<1>9. ChoicesExist'
      BY <1>8 DEF ChoicesExist, Unnamed
<1>10. SettingsTypeOK'
      BY <1>2, <1>3, <1>8 DEF SettingsInv, SettingsTypeOK
<1> QED BY <1>3, <1>9, <1>10 DEF SettingsInv

LEMMA SettingsInductive ==
    ASSUME SettingsInv, [SettingsNext]_settingsVars
    PROVE  SettingsInv'
<1>1. CASE UNCHANGED settingsVars
      BY <1>1 DEF settingsVars, SettingsInv, SettingsTypeOK, ChoicesExist, ChangesJustified
<1>2. ASSUME NEW a \in Admins, ChangeGlobal(a) \/ ChangeWorkspace(a) PROVE SettingsInv'
  <2>1. PICK op \in Operations :
            /\ op.kind \in {"choose", "drop", "add", "rotate", "remove"}
            /\ BeginSetting(a, op)
        BY <1>2 DEF ChangeGlobal, ChangeWorkspace
  <2> QED BY <2>1, BeginKeeps
<1>3. ASSUME NEW a \in Admins, ChangeConnection(a) PROVE SettingsInv'
  <2>1. PICK op \in Operations :
            /\ op.kind \in {"connect", "disconnect"}
            /\ op.kind = "connect" => op.caps # {}
            /\ BeginSetting(a, op)
        BY <1>3 DEF ChangeConnection
  <2> QED BY <2>1, BeginKeeps
<1>4. ASSUME NEW a \in Admins, NEW c \in Connections, AskModels(a, c) PROVE SettingsInv'
  <2> DEFINE op == [kind |-> "sync", on |-> c, caps |-> settings.connection[c]]
             r == [step |-> "listing", op |-> op]
  <2>1. change' = [change EXCEPT ![a] = r] /\ begun' \in 0..LastChange /\ UNCHANGED settings
        BY <1>4, SettingsAssumption DEF AskModels, SettingsInv, SettingsTypeOK
  <2>2. settings.connection[c] \in SUBSET SlotNames
        BY RowsFacts DEF SettingsInv, SettingsTypeOK
  <2>3. op \in Operations /\ op.kind = "sync"
        BY <2>2 DEF Operations
  <2> HIDE DEF op
  <2>4. r \in Change /\ r.step = "listing" /\ r.op = op
        BY <2>3 DEF Change
  <2> HIDE DEF r
  <2>5. change' \in [Admins -> Change] /\ ChangesJustified'
        BY <2>1, <2>3, <2>4, ChangeSet DEF SettingsInv
  <2> QED BY <2>1, <2>5 DEF SettingsInv, SettingsTypeOK, ChoicesExist
<1>5. ASSUME NEW a \in Admins, ListingFails(a) \/ AbortChange(a) PROVE SettingsInv'
  <2>1. change' = [change EXCEPT ![a] = NoChange] /\ UNCHANGED <<settings, begun>>
        BY <1>5 DEF ListingFails, AbortChange
  <2>2. change' \in [Admins -> Change] /\ ChangesJustified'
        BY <2>1, NoChangeFacts, ChangeSet DEF SettingsInv
  <2> QED BY <2>1, <2>2 DEF SettingsInv, SettingsTypeOK, ChoicesExist
<1> QED BY <1>1, <1>2, <1>3, <1>4, <1>5, ListingKeeps, CommitKeeps DEF SettingsNext

LEMMA SettingsInitially == SettingsInit => SettingsInv
<1> SUFFICES ASSUME SettingsInit PROVE SettingsInv
    OBVIOUS
<1>1. /\ settings.connection = [c \in Connections |-> SlotNames]
      /\ settings \in Rows
      BY DEF SettingsInit, Rows
<1>2. \A c \in Connections : settings.connection[c] # {}
      BY <1>1 DEF SlotNames
<1>3. change \in [Admins -> Change] /\ \A a \in Admins : change[a].step = "idle"
      BY NoChangeFacts DEF SettingsInit
<1>4. begun \in 0..LastChange
      BY SettingsAssumption DEF SettingsInit
<1> QED BY <1>1, <1>2, <1>3, <1>4 DEF SettingsInv, SettingsTypeOK, ChoicesExist, ChangesJustified

LEMMA SettingsInvariant == SettingsSpec => []SettingsInv
<1>1. SettingsInv /\ [SettingsNext]_settingsVars => SettingsInv'
      BY SettingsInductive
<1> QED BY <1>1, SettingsInitially, PTL DEF SettingsSpec

-----------------------------------------------------------------------------
(* The settings: what a commit does to the choices                          *)

LEMMA OnlyCommits ==
    ASSUME SettingsInv, [SettingsNext]_settingsVars, NEW a \in Admins, ChangeCommits(a)
    PROVE  CommitChange(a)
<1>1. /\ change[a].step = "writing" /\ Fits(settings, change[a]) /\ change'[a] = NoChange
      /\ change \in [Admins -> Change]
      BY DEF ChangeCommits, SettingsInv, SettingsTypeOK
<1>2. change[a] # NoChange /\ change'[a] # change[a]
      BY <1>1 DEF NoChange
<1>3. PICK b \in Admins :
          \/ ChangeGlobal(b) \/ ChangeWorkspace(b) \/ ChangeConnection(b)
          \/ \E c \in Connections : AskModels(b, c)
          \/ ListModels(b) \/ ListingFails(b)
          \/ CommitChange(b) \/ AbortChange(b)
      BY <1>2 DEF SettingsNext, settingsVars
<1>4. \E r : change' = [change EXCEPT ![b] = r]
  <2>1. CASE \E op \in Operations : BeginSetting(b, op)
        BY <2>1 DEF BeginSetting, Write
  <2>2. CASE ChangeGlobal(b) \/ ChangeWorkspace(b) \/ ChangeConnection(b)
        BY <2>1, <2>2 DEF ChangeGlobal, ChangeWorkspace, ChangeConnection
  <2>3. CASE \E c \in Connections : AskModels(b, c)
        BY <2>3 DEF AskModels
  <2>4. CASE ListModels(b)
        BY <2>4 DEF ListModels, Write
  <2>5. CASE ListingFails(b) \/ CommitChange(b) \/ AbortChange(b)
        BY <2>5 DEF ListingFails, CommitChange, AbortChange
  <2> QED BY <1>3, <2>2, <2>3, <2>4, <2>5
<1>5. b = a
      BY <1>1, <1>2, <1>4
<1>6. ~ListingFails(a) /\ ~ListModels(a) /\ ~AbortChange(a)
      BY <1>1 DEF ListingFails, ListModels, AbortChange
<1>7. ~ChangeGlobal(a) /\ ~ChangeWorkspace(a) /\ ~ChangeConnection(a)
      /\ ~\E c \in Connections : AskModels(a, c)
      BY <1>2 DEF ChangeGlobal, ChangeWorkspace, ChangeConnection, BeginSetting, AskModels
<1> QED BY <1>3, <1>5, <1>6, <1>7

\* The rows after a commit that deletes no connection are the merged ones.
LEMMA Committed ==
    ASSUME SettingsInv, [SettingsNext]_settingsVars, NEW a \in Admins, ChangeCommits(a),
           change[a].op.kind # "disconnect"
    PROVE  /\ settings \in Rows /\ settings' \in Rows
           /\ change[a].seen \in Rows /\ change[a].wanted \in Rows
           /\ change[a].op \in Operations
           /\ Justified(change[a]) /\ Fits(settings, change[a])
           /\ settings' = Merged(settings, change[a].seen, change[a].wanted)
<1>1. CommitChange(a)
      BY OnlyCommits
<1> QED BY <1>1, ChangeCommitFacts

LEMMA CommittedRows ==
    ASSUME SettingsInv, [SettingsNext]_settingsVars, NEW a \in Admins, ChangeCommits(a),
           change[a].op.kind # "disconnect"
    PROVE  /\ \A x \in Scopes \X Connections :
                  settings'.pool[x] =
                      IF change[a].wanted.pool[x] = change[a].seen.pool[x]
                      THEN settings.pool[x] ELSE change[a].wanted.pool[x]
           /\ \A x \in Scopes \X SlotNames :
                  settings'.choice[x] =
                      IF change[a].wanted.choice[x] = change[a].seen.choice[x]
                      THEN settings.choice[x] ELSE change[a].wanted.choice[x]
<1>1. /\ settings \in Rows /\ change[a].seen \in Rows /\ change[a].wanted \in Rows
      /\ settings' = Merged(settings, change[a].seen, change[a].wanted)
  <2>1. CommitChange(a)
        BY OnlyCommits
  <2> QED BY <2>1, ChangeCommitFacts
<1> DEFINE seen == change[a].seen
           wanted == change[a].wanted
           m == Merged(settings, seen, wanted)
<1>2. settings \in Rows /\ seen \in Rows /\ wanted \in Rows /\ settings' = m
      BY <1>1
<1> HIDE DEF seen, wanted
<1>3. /\ \A x \in Scopes \X Connections :
             m.pool[x] = IF wanted.pool[x] = seen.pool[x] THEN settings.pool[x] ELSE wanted.pool[x]
      /\ \A x \in Scopes \X SlotNames :
             m.choice[x] = IF wanted.choice[x] = seen.choice[x]
                           THEN settings.choice[x] ELSE wanted.choice[x]
      BY <1>2, MergedFacts
<1> HIDE DEF m
<1> QED BY <1>2, <1>3 DEF seen, wanted

LEMMA SyncStep ==
    ASSUME SettingsInv, [SettingsNext]_settingsVars, NEW a \in Admins, ChangeCommits(a),
           change[a].op.kind = "sync",
           NEW x \in Scopes \X SlotNames, settings.choice[x] # NoChoice
    PROVE  settings'.choice[x] = settings.choice[x]
<1> DEFINE seen == change[a].seen
           wanted == change[a].wanted
<1>1. settings \in Rows /\ seen \in Rows /\ wanted \in Rows /\ Fits(settings, change[a])
      BY Committed
<1>2. settings'.choice[x] = IF wanted.choice[x] = seen.choice[x]
                            THEN settings.choice[x] ELSE wanted.choice[x]
      BY CommittedRows
<1>3. seen.choice[x] # NoChoice => wanted.choice[x] = seen.choice[x]
      BY Committed DEF Justified, OnlyFills
<1>4. wanted.choice[x] # seen.choice[x] /\ wanted.choice[x] # NoChoice =>
          ((settings.choice[x] = NoChoice) <=> (seen.choice[x] = NoChoice))
      BY <1>1, FitsFacts
<1> QED BY <1>2, <1>3, <1>4

\* t is s after c became the default of a scope.
MakesDefault(t, s, scope, c) ==
    t = SlotChosen(s, scope, "chat", c) \/ t = Added(s, scope, c, TRUE)

\* A model that becomes the default is the choice of the slot, and the only
\* default of the pool.
LEMMA DefaultMade ==
    ASSUME NEW s \in Rows, NEW scope \in Scopes, NEW c \in Connections, NEW t,
           MakesDefault(t, s, scope, c)
    PROVE  /\ t.choice[<<scope, "chat">>] = c
           /\ \A d \in Connections : t.pool[<<scope, d>>] = "default" <=> d = c
<1>1. "chat" \in SlotNames /\ <<scope, "chat">> \in Scopes \X SlotNames
      BY DEF SlotNames
<1> DEFINE entered == Entered(s.pool, scope, c, TRUE)
<1>2. \A d \in Connections : entered[<<scope, d>>] = "default" <=> d = c
  <2>1. s.pool \in [Scopes \X Connections -> {"out", "in", "default"}]
        BY RowsFacts
  <2>2. entered[<<scope, c>>] = "default"
        BY <2>1, EnteredAsDefault
  <2>3. ASSUME NEW d \in Connections, d # c PROVE entered[<<scope, d>>] # "default"
        BY <2>1, <2>3, EnteredAsDefault
  <2> HIDE DEF entered
  <2> QED BY <2>2, <2>3
<1> HIDE DEF entered
<1>3. CASE t = SlotChosen(s, scope, "chat", c)
  <2>1. t.pool = entered /\ t.choice[<<scope, "chat">>] = c
    <3>1. /\ SlotChosen(s, scope, "chat", c).pool = Entered(s.pool, scope, c, TRUE)
          /\ SlotChosen(s, scope, "chat", c).choice[<<scope, "chat">>] = c
          BY <1>1, SlotChosenFacts, Zenon
    <3> QED BY <1>3, <3>1, Zenon DEF entered
  <2> QED BY <1>2, <2>1
<1>4. CASE t = Added(s, scope, c, TRUE)
  <2> DEFINE n == Added(s, scope, c, TRUE)
  <2>1. (TRUE \/ Pool(s, scope) = {}) = TRUE
        OBVIOUS
  <2>2. n.pool = Entered(s.pool, scope, c, TRUE \/ Pool(s, scope) = {})
        BY AddedFacts
  <2>3. n.pool = entered
        BY <2>1, <2>2 DEF entered
  <2>4. n.choice[<<scope, "chat">>] =
            IF <<scope, "chat">> = <<scope, "chat">> /\ n.pool[<<scope, c>>] = "default"
            THEN c ELSE s.choice[<<scope, "chat">>]
        BY <1>1, AddedFacts
  <2> HIDE DEF n
  <2>5. n.pool[<<scope, c>>] = "default"
        BY <1>2, <2>3
  <2>6. n.choice[<<scope, "chat">>] = c
        BY <2>4, <2>5
  <2> QED BY <1>2, <1>4, <2>3, <2>6 DEF n
<1> QED BY <1>3, <1>4 DEF MakesDefault

\* The only default of a pool is what the chat of its scope resolves to.
LEMMA OnlyDefault ==
    ASSUME NEW s \in Rows, NEW scope \in Scopes, NEW c \in Connections,
           \A d \in Connections : s.pool[<<scope, d>>] = "default" <=> d = c
    PROVE  /\ Defaults(s, scope) = {c}
           /\ Resolved(s, scope, "chat") = c
<1>1. Defaults(s, scope) = {c}
      BY DEF Defaults
<1>2. c \in Pool(s, scope)
      BY DEF Pool
<1>3. EffectivePool(s, scope) = scope
      BY <1>2 DEF EffectivePool
<1>4. LeastOf({c}) = c
  <2>1. {c} \in SUBSET Connections /\ {c} # {}
        OBVIOUS
  <2>2. LeastOf({c}) \in {c}
        BY <2>1, LeastConnection
  <2> QED BY <2>2
<1> QED BY <1>1, <1>3, <1>4 DEF Resolved

LEMMA RotationStep ==
    ASSUME SettingsInv, [SettingsNext]_settingsVars, NEW a \in Admins, ChangeCommits(a),
           \/ change[a].op.kind = "rotate"
           \/ change[a].op.kind = "choose" /\ change[a].op.slot = "chat"
           \/ change[a].op.kind = "add" /\ change[a].op.first,
           PoolUnchanged(a)
    PROVE  LET op == change[a].op IN
           /\ Resolved(settings', op.scope, "chat") = op.on
           /\ ChoiceUnchanged(a) => settings'.choice[op.scope, "chat"] = op.on
           /\ Defaults(settings', op.scope) = {op.on}
<1> DEFINE op == change[a].op
           seen == change[a].seen
           wanted == change[a].wanted
<1>1. op.kind \in {"rotate", "choose", "add"}
      BY Zenon
<1>2. /\ settings \in Rows /\ settings' \in Rows /\ seen \in Rows /\ wanted \in Rows
      /\ op \in Operations
      BY <1>1, Committed
<1>3. wanted = Outcome(seen, op) /\ wanted # seen
      BY <1>1, Committed DEF Justified
<1>4. op.scope \in Scopes /\ op.on \in Connections
      BY <1>1, <1>2, OperationFacts
<1>5. MakesDefault(wanted, seen, op.scope, op.on)
  <2>1. op.kind = "add" => op.first = TRUE
        BY <1>2, OperationFacts
  <2>2. op.kind = "choose" => op.slot = "chat"
        OBVIOUS
  <2> HIDE DEF op, seen, wanted
  <2> QED BY <1>1, <1>2, <1>3, <2>1, <2>2, OutcomeCases DEF MakesDefault
<1>6. /\ \A x \in Scopes \X Connections :
             settings'.pool[x] =
                 IF wanted.pool[x] = seen.pool[x] THEN settings.pool[x] ELSE wanted.pool[x]
      /\ \A x \in Scopes \X SlotNames :
             settings'.choice[x] =
                 IF wanted.choice[x] = seen.choice[x] THEN settings.choice[x] ELSE wanted.choice[x]
      BY <1>1, CommittedRows
<1>7. \A d \in Connections : settings.pool[op.scope, d] = seen.pool[op.scope, d]
      BY DEF PoolUnchanged
<1>8. ChoiceUnchanged(a) => settings.choice[op.scope, "chat"] = seen.choice[op.scope, "chat"]
      BY DEF ChoiceUnchanged
<1>9. PICK scope \in Scopes : scope = op.scope
      BY <1>4
<1>10. PICK c \in Connections : c = op.on
      BY <1>4
<1> HIDE DEF op, seen, wanted
<1>11. /\ wanted.choice[<<scope, "chat">>] = c
       /\ \A d \in Connections : wanted.pool[<<scope, d>>] = "default" <=> d = c
  <2>1. MakesDefault(wanted, seen, scope, c)
        BY <1>5, <1>9, <1>10
  <2> QED BY <1>2, <2>1, DefaultMade
<1>12. ASSUME NEW d \in Connections PROVE settings'.pool[<<scope, d>>] = "default" <=> d = c
  <2>1. settings'.pool[<<scope, d>>] = IF wanted.pool[<<scope, d>>] = seen.pool[<<scope, d>>]
                                       THEN settings.pool[<<scope, d>>] ELSE wanted.pool[<<scope, d>>]
        BY <1>6
  <2>2. settings.pool[<<scope, d>>] = seen.pool[<<scope, d>>]
        BY <1>7, <1>9
  <2>3. wanted.pool[<<scope, d>>] = "default" <=> d = c
        BY <1>11
  <2> QED BY <2>1, <2>2, <2>3
<1>13. ASSUME ChoiceUnchanged(a) PROVE settings'.choice[<<scope, "chat">>] = c
  <2>1. <<scope, "chat">> \in Scopes \X SlotNames
        BY DEF SlotNames
  <2>2. settings'.choice[<<scope, "chat">>] =
            IF wanted.choice[<<scope, "chat">>] = seen.choice[<<scope, "chat">>]
            THEN settings.choice[<<scope, "chat">>] ELSE wanted.choice[<<scope, "chat">>]
        BY <1>6, <2>1
  <2>3. settings.choice[<<scope, "chat">>] = seen.choice[<<scope, "chat">>]
        BY <1>8, <1>9, <1>13
  <2> QED BY <1>11, <2>2, <2>3
<1> DEFINE s == settings'
<1>14. s \in Rows /\ \A d \in Connections : s.pool[<<scope, d>>] = "default" <=> d = c
      BY <1>2, <1>12
<1> HIDE DEF s
<1>15. Defaults(s, scope) = {c} /\ Resolved(s, scope, "chat") = c
      BY <1>14, OnlyDefault
<1> QED BY <1>9, <1>10, <1>13, <1>15 DEF op, s

LEMMA RemovalStep ==
    ASSUME SettingsInv, [SettingsNext]_settingsVars, NEW a \in Admins, ChangeCommits(a),
           change[a].op.kind = "remove", PoolUnchanged(a), NEW o \in Scopes
    PROVE  Resolved(settings', o, "chat") = Resolved(settings, o, "chat")
<1> DEFINE op == change[a].op
           seen == change[a].seen
           wanted == change[a].wanted
           now == settings
           then == settings'
<1>1. /\ now \in Rows /\ then \in Rows /\ seen \in Rows /\ wanted \in Rows /\ op \in Operations
      BY Committed
<1>2. wanted = Outcome(seen, op) /\ wanted # seen
      BY Committed DEF Justified
<1>3. op.scope \in Scopes /\ op.on \in Connections /\ op.kind = "remove"
      BY <1>1, OperationFacts
<1>4. /\ \A x \in Scopes \X Connections :
             then.pool[x] = IF wanted.pool[x] = seen.pool[x] THEN now.pool[x] ELSE wanted.pool[x]
      /\ \A x \in Scopes \X SlotNames :
             then.choice[x] = IF wanted.choice[x] = seen.choice[x] THEN now.choice[x] ELSE wanted.choice[x]
      BY CommittedRows
<1>5. \A d \in Connections : now.pool[op.scope, d] = seen.pool[op.scope, d]
      BY DEF PoolUnchanged
<1>6. PICK scope \in Scopes : scope = op.scope
      BY <1>3
<1>7. PICK c \in Connections : c = op.on
      BY <1>3
<1> HIDE DEF op, seen, wanted, now, then
<1>8. /\ c \in Pool(seen, scope) \ Defaults(seen, scope)
      /\ Cardinality(Pool(seen, scope)) > 1
      /\ wanted = [seen EXCEPT !.pool[<<scope, c>>] = "out"]
      BY <1>1, <1>2, <1>3, <1>6, <1>7, OutcomeCases
<1>9. /\ wanted.choice = seen.choice
      /\ \A x \in Scopes \X Connections :
             wanted.pool[x] = IF x = <<scope, c>> THEN "out" ELSE seen.pool[x]
      BY <1>1, <1>8, RowsFacts DEF Rows
<1>10. then.choice = now.choice
  <2>1. \A x \in Scopes \X SlotNames : then.choice[x] = now.choice[x]
        BY <1>4, <1>9
  <2> QED BY <1>1, <2>1, RowsFacts
<1>11. \A p \in Scopes, d \in Connections :
           then.pool[<<p, d>>] = IF p = scope /\ d = c THEN "out" ELSE now.pool[<<p, d>>]
  <2> SUFFICES ASSUME NEW p \in Scopes, NEW d \in Connections
               PROVE  then.pool[<<p, d>>] = IF p = scope /\ d = c THEN "out" ELSE now.pool[<<p, d>>]
      OBVIOUS
  <2>1. then.pool[<<p, d>>] = IF wanted.pool[<<p, d>>] = seen.pool[<<p, d>>]
                              THEN now.pool[<<p, d>>] ELSE wanted.pool[<<p, d>>]
        BY <1>4
  <2>2. wanted.pool[<<p, d>>] = IF <<p, d>> = <<scope, c>> THEN "out" ELSE seen.pool[<<p, d>>]
        BY <1>9
  <2>3. p = scope => now.pool[<<p, d>>] = seen.pool[<<p, d>>]
        BY <1>5, <1>6
  <2> QED BY <2>1, <2>2, <2>3
<1>12. now.pool[<<scope, c>>] = "in" /\ Cardinality(Pool(now, scope)) > 1
  <2>1. Pool(now, scope) = Pool(seen, scope)
        BY <1>5, <1>6 DEF Pool
  <2>2. seen.pool[<<scope, c>>] \in {"out", "in", "default"}
        BY <1>1, RowsFacts
  <2> QED BY <1>5, <1>6, <1>8, <2>1, <2>2 DEF Pool, Defaults
<1>13. Pool(then, scope) # {} /\ Pool(now, scope) # {}
  <2>1. Pool(now, scope) # {c}
    <3>1. Cardinality({c}) = 1
          BY FS_Singleton
    <3>2. IsFiniteSet(Pool(now, scope))
      <4>1. IsFiniteSet(Connections)
            BY SettingsNumbers, FS_Interval DEF Connections
      <4>2. Pool(now, scope) \subseteq Connections
            BY DEF Pool
      <4> QED BY <4>1, <4>2, FS_Subset
    <3>3. Cardinality(Pool(now, scope)) \in Nat
          BY <3>2, FS_CardinalityType
    <3>4. Cardinality(Pool(now, scope)) # 1
          BY <1>12, <3>3
    <3> QED BY <3>1, <3>4, Zenon
  <2>2. PICK d \in Pool(now, scope) : d # c
        BY <1>12, <2>1 DEF Pool
  <2> QED BY <1>11, <2>2 DEF Pool
<1>14. ASSUME NEW p \in Scopes
       PROVE  /\ Defaults(then, p) = Defaults(now, p)
              /\ EffectivePool(then, p) = EffectivePool(now, p)
  <2>1. Defaults(then, p) = Defaults(now, p)
        BY <1>11, <1>12 DEF Defaults
  <2>2. p # scope => Pool(then, p) = Pool(now, p)
        BY <1>11 DEF Pool
  <2> QED BY <1>13, <2>1, <2>2 DEF EffectivePool
<1>15. EffectivePool(now, o) \in Scopes
      BY SettingsNumbers DEF EffectivePool
<1>16. Defaults(then, EffectivePool(then, o)) = Defaults(now, EffectivePool(now, o))
      BY <1>14, <1>15
<1>17. EffectiveChoice(then, o, "chat") = EffectiveChoice(now, o, "chat")
      BY <1>10 DEF EffectiveChoice
<1> QED BY <1>16, <1>17 DEF Resolved, now, then

-----------------------------------------------------------------------------
(* The settings: the theorems                                               *)

\* The settings, and what each open transaction read and is about to write, are
\* always of their types.
THEOREM SettingsTypeCorrect == SettingsSpec => []SettingsTypeOK
BY SettingsInvariant, PTL DEF SettingsInv

\* The choices of models are kept: none names a connection that was deleted, one
\* that is made takes effect, a removal changes the chat model of no scope, and
\* a listing changes no choice (core/runtime_settings.py, core/chat_models.py).
THEOREM ChoicesAreKept == SettingsSpec => ChoicesKept
<1> DEFINE Rotation ==
               \A a \in Admins :
                   (/\ ChangeCommits(a)
                    /\ \/ change[a].op.kind = "rotate"
                       \/ change[a].op.kind = "choose" /\ change[a].op.slot = "chat"
                       \/ change[a].op.kind = "add" /\ change[a].op.first
                    /\ PoolUnchanged(a))
                   => LET op == change[a].op IN
                      /\ Resolved(settings', op.scope, "chat") = op.on
                      /\ ChoiceUnchanged(a) => settings'.choice[op.scope, "chat"] = op.on
                      /\ Defaults(settings', op.scope) = {op.on}
           Removal ==
               \A a \in Admins :
                   (ChangeCommits(a) /\ change[a].op.kind = "remove" /\ PoolUnchanged(a))
                   => \A scope \in Scopes :
                          Resolved(settings', scope, "chat") = Resolved(settings, scope, "chat")
           Filling ==
               \A a \in Admins :
                   (ChangeCommits(a) /\ change[a].op.kind = "sync")
                   => \A x \in Scopes \X SlotNames :
                          settings.choice[x] # NoChoice => settings'.choice[x] = settings.choice[x]
<1>1. SettingsInv /\ [SettingsNext]_settingsVars => Rotation
      BY RotationStep
<1>2. SettingsInv /\ [SettingsNext]_settingsVars => Removal
      BY RemovalStep
<1>3. SettingsInv /\ [SettingsNext]_settingsVars => Filling
      BY SyncStep
<1>4. SettingsSpec => [][SettingsNext]_settingsVars
      BY PTL DEF SettingsSpec
<1>5. SettingsSpec => []ChoicesExist
      BY SettingsInvariant, PTL DEF SettingsInv
<1>6. SettingsSpec => [][Rotation]_settingsVars
  <2> HIDE DEF Rotation
  <2> QED BY <1>1, <1>4, SettingsInvariant, PTL
<1>7. SettingsSpec => [][Removal]_settingsVars
  <2> HIDE DEF Removal
  <2> QED BY <1>2, <1>4, SettingsInvariant, PTL
<1>8. SettingsSpec => [][Filling]_settingsVars
  <2> HIDE DEF Filling
  <2> QED BY <1>3, <1>4, SettingsInvariant, PTL
<1> QED BY <1>5, <1>6, <1>7, <1>8, PTL
        DEF ChoicesKept, RotationTakesEffect, RemovalIsQuiet, SyncOnlyFills

-----------------------------------------------------------------------------
(* SchemaMigrations: what holds up to a number                               *)

LEMMA UpTo ==
    ASSUME NEW n \in Nat, NEW S, 0 \in S,
           \A k \in 0..n : k \in S /\ k < n => k + 1 \in S
    PROVE  \A k \in 0..n : k \in S
<1> SUFFICES ASSUME {k \in 0..n : k \notin S} # {} PROVE FALSE
    OBVIOUS
<1> DEFINE left == {k \in 0..n : k \notin S}
<1>1. left \in SUBSET Nat
      OBVIOUS
<1>2. PICK k \in left : \A y \in left : k <= y
      BY <1>1, LeastNumber
<1>3. k # 0 /\ k - 1 \in 0..n /\ k - 1 \notin left
      BY <1>2
<1>4. k - 1 \in S
      BY <1>3
<1> QED BY <1>3, <1>4

-----------------------------------------------------------------------------
(* SchemaMigrations: one statement                                           *)

Kinds == {"create", "remove", "add", "drop", "key", "unkey", "check", "rename", "column",
          "stem", "rewrite"}
Rewrites == {"backfill", "recover", "uncancel", "canonical"}

Legal(s) == s.do \in Kinds /\ (s.do = "rewrite" => s.how \in Rewrites)

LegalRows == [jobs : SUBSET Job, event : SUBSET PlatformEvents,
         session : SUBSET {"running", "succeeded", "failed", "canceled"},
         slot : SUBSET Slots, passage : SUBSET {"chunk", "null"},
         login : SUBSET ((1..2) \X Logins)]

IsDatabase(db) ==
    db = [tables |-> db.tables, columns |-> db.columns, keys |-> db.keys,
          admits |-> db.admits, rows |-> db.rows, sound |-> db.sound]

IsKey(k) == k = [table |-> k.table, column |-> k.column, to |-> k.to, stem |-> k.stem]

\* Keys refer from tables to tables, once no statement was refused.
DatabaseInv(db) ==
    /\ IsDatabase(db) /\ db.rows \in LegalRows
    /\ db.sound => \A k \in db.keys : IsKey(k) /\ k.table \in db.tables /\ k.to \in db.tables

LEMMA JobFacts ==
    ASSUME NEW j \in Job
    PROVE  /\ Forgotten(j) \in Job /\ Backfilled(j) \in Job /\ Recovered(j) \in Job
           /\ [j EXCEPT !.numbers = {}] \in Job
<1>1. RetryCap \in Nat /\ LastTry \in Nat \ {0}
      BY MigrationsAssumption
<1>2. /\ j.attempts \in 0..LastTry /\ j.max \in 1..Greatest(LastTry, RetryCap) + 1
      /\ j.count \in 0..LastTry /\ j.numbers \in SUBSET (1..LastTry)
      BY DEF Job
<1>3. Forgotten(j) \in Job /\ [j EXCEPT !.numbers = {}] \in Job
  <2>1. 0 \in 0..LastTry /\ 0 \in 0..RetryCap /\ {} \in SUBSET (1..LastTry)
        BY <1>1
  <2>2. Forgotten(j) \in Job
        BY <2>1 DEF Job, Forgotten
  <2>3. [j EXCEPT !.numbers = {}] \in Job
        BY <2>1 DEF Job
  <2> QED BY <2>2, <2>3
<1>4. Backfilled(j) \in Job
  <2>1. Least(j.attempts, j.max) \in 0..LastTry
        BY <1>1, <1>2 DEF Least, Greatest
  <2>2. Least(Greatest(j.max - 1, 0), RetryCap) \in 0..RetryCap
        BY <1>1, <1>2 DEF Least, Greatest
  <2>3. (IF j.status = "blocked" THEN 0 ELSE Least(j.attempts, j.max)) \in 0..LastTry
        BY <1>1, <2>1
  <2> QED BY <1>2, <2>2, <2>3 DEF Backfilled, Job
<1>5. Recovered(j) \in Job
  <2>1. Greatest(j.count, 1) \in 1..LastTry /\ Greatest(j.count, 1) \in 0..LastTry
        BY <1>1, <1>2 DEF Greatest
  <2>2. j.numbers \cup {Greatest(j.count, 1)} \in SUBSET (1..LastTry)
        BY <1>2, <2>1
  <2>3. (IF j.attempts >= j.max THEN "dead_letter" ELSE "queued") \in JobStatuses
        BY DEF JobStatuses, LegacyStatuses
  <2> QED BY <2>1, <2>2, <2>3 DEF Recovered, Job
<1> QED BY <1>3, <1>4, <1>5

LEMMA EmptiedFacts ==
    ASSUME NEW rows \in LegalRows, NEW t
    PROVE  /\ Emptied(rows, t) \in LegalRows
           /\ t # "job_attempts" => Emptied(rows, t).jobs \subseteq rows.jobs
           /\ t = "job_attempts" => \A j \in Emptied(rows, t).jobs : j.numbers = {}
<1> DEFINE e == Emptied(rows, t)
<1>1. DOMAIN rows = {"jobs", "event", "session", "slot", "passage", "login"}
      BY DEF LegalRows
<1>2. e = [f \in DOMAIN rows |-> e[f]]
      BY DEF Emptied
<1>3. e = [jobs |-> e.jobs, event |-> e.event, session |-> e.session, slot |-> e.slot,
           passage |-> e.passage, login |-> e.login]
      BY <1>1, <1>2
<1>4. e.jobs = IF t = "jobs" THEN {}
               ELSE IF t = "job_attempts" THEN {[j EXCEPT !.numbers = {}] : j \in rows.jobs}
               ELSE rows.jobs
      BY <1>1 DEF Emptied
<1>5. e.jobs \in SUBSET Job
  <2>1. \A j \in rows.jobs : j \in Job /\ [j EXCEPT !.numbers = {}] \in Job
        BY JobFacts DEF LegalRows
  <2>2. rows.jobs \in SUBSET Job /\ {[j EXCEPT !.numbers = {}] : j \in rows.jobs} \in SUBSET Job
        BY <2>1
  <2> HIDE DEF e
  <2> QED BY <1>4, <2>2
<1>6. e.login \in SUBSET ((1..2) \X Logins)
  <2>1. e.login = IF t = "users" THEN {} ELSE rows.login
        BY <1>1 DEF Emptied
  <2> QED BY <2>1 DEF LegalRows
<1>7. /\ e.event \in SUBSET PlatformEvents
      /\ e.session \in SUBSET {"running", "succeeded", "failed", "canceled"}
      /\ e.slot \in SUBSET Slots /\ e.passage \in SUBSET {"chunk", "null"}
  <2>1. /\ e.event = IF TableOf["event"] = t THEN {} ELSE rows.event
        /\ e.session = IF TableOf["session"] = t THEN {} ELSE rows.session
        /\ e.slot = IF TableOf["slot"] = t THEN {} ELSE rows.slot
        /\ e.passage = IF TableOf["passage"] = t THEN {} ELSE rows.passage
        BY <1>1 DEF Emptied
  <2> QED BY <2>1 DEF LegalRows
<1>8. e \in LegalRows
  <2> HIDE DEF e
  <2> QED BY <1>3, <1>5, <1>6, <1>7 DEF LegalRows
<1>9. t = "job_attempts" => \A j \in e.jobs : j.numbers = {}
  <2> SUFFICES ASSUME t = "job_attempts", NEW j \in e.jobs PROVE j.numbers = {}
      OBVIOUS
  <2>1. e.jobs = {[k EXCEPT !.numbers = {}] : k \in rows.jobs}
        BY <1>4
  <2> HIDE DEF e
  <2>2. PICK k \in rows.jobs : j = [k EXCEPT !.numbers = {}]
        BY <2>1
  <2>3. k \in Job
        BY DEF LegalRows
  <2> QED BY <2>2, <2>3 DEF Job
<1> QED BY <1>4, <1>8, <1>9

LEMMA RewrittenFacts ==
    ASSUME NEW rows \in LegalRows, NEW how \in Rewrites
    PROVE  /\ Rewritten(rows, how) \in LegalRows
           /\ Rewritten(rows, how).jobs =
                  IF how = "backfill" THEN {Backfilled(j) : j \in rows.jobs}
                  ELSE IF how = "recover" THEN {Recovered(j) : j \in rows.jobs}
                  ELSE rows.jobs
<1>1. rows = [jobs |-> rows.jobs, event |-> rows.event, session |-> rows.session,
              slot |-> rows.slot, passage |-> rows.passage, login |-> rows.login]
      BY DEF LegalRows
<1>2. \A j \in rows.jobs : j \in Job /\ Backfilled(j) \in Job /\ Recovered(j) \in Job
      BY JobFacts DEF LegalRows
<1>3. CASE how = "backfill"
  <2>1. Rewritten(rows, how) = [rows EXCEPT !.jobs = {Backfilled(j) : j \in @}]
        BY <1>3 DEF Rewritten
  <2>2. {Backfilled(j) : j \in rows.jobs} \in SUBSET Job
        BY <1>2
  <2> QED BY <1>3, <2>1, <2>2 DEF LegalRows
<1>4. CASE how = "recover"
  <2> DEFINE expired == {"expired" : j \in {k \in rows.jobs : k.status = "running"}}
  <2>1. Rewritten(rows, how) = [rows EXCEPT !.jobs = {Recovered(j) : j \in @},
                                            !.event = @ \cup expired]
        BY <1>4 DEF Rewritten
  <2>2. {Recovered(j) : j \in rows.jobs} \in SUBSET Job
        BY <1>2
  <2>3. rows.event \cup expired \in SUBSET PlatformEvents
        BY DEF LegalRows, PlatformEvents
  <2> HIDE DEF expired
  <2> QED BY <1>4, <2>1, <2>2, <2>3 DEF LegalRows
<1>5. CASE how = "uncancel"
  <2> DEFINE sessions == {IF s = "canceled" THEN "failed" ELSE s : s \in rows.session}
  <2>1. Rewritten(rows, how) = [rows EXCEPT !.session = sessions]
        BY <1>5 DEF Rewritten
  <2>2. sessions \in SUBSET {"running", "succeeded", "failed", "canceled"}
        BY DEF LegalRows
  <2> HIDE DEF sessions
  <2> QED BY <1>5, <2>1, <2>2 DEF LegalRows
<1>6. CASE how = "canonical"
  <2> DEFINE logins == {<<l[1], "ana">> : l \in rows.login}
  <2>1. Rewritten(rows, how) = [rows EXCEPT !.login = logins]
        BY <1>6 DEF Rewritten
  <2>2. logins \in SUBSET ((1..2) \X Logins)
        BY DEF LegalRows, Logins
  <2> HIDE DEF logins
  <2> QED BY <1>6, <2>1, <2>2 DEF LegalRows
<1> QED BY <1>3, <1>4, <1>5, <1>6 DEF Rewrites

\* What a statement does to the rows, and that it never makes good what one before it
\* was refused.
LEMMA ExecutedFacts ==
    ASSUME NEW db, DatabaseInv(db), NEW s, Legal(s)
    PROVE  /\ IsDatabase(Executed(db, s))
           /\ Executed(db, s).sound => db.sound
           /\ Executed(db, s).rows =
                  IF s.do = "remove" THEN Emptied(db.rows, s.table)
                  ELSE IF s.do = "drop" /\ s.table = "jobs" /\ "attempt_count" \in s.columns
                  THEN [db.rows EXCEPT !.jobs = {Forgotten(j) : j \in @}]
                  ELSE IF s.do = "rewrite" THEN Rewritten(db.rows, s.how)
                  ELSE db.rows
           /\ Executed(db, s).sound =>
                  \A k \in Executed(db, s).keys : /\ IsKey(k)
                                                  /\ k.table \in Executed(db, s).tables
                                                  /\ k.to \in Executed(db, s).tables
<1> SUFFICES ASSUME NEW e, e = Executed(db, s)
             PROVE  /\ IsDatabase(e)
                    /\ e.sound => db.sound
                    /\ e.rows =
                           IF s.do = "remove" THEN Emptied(db.rows, s.table)
                           ELSE IF s.do = "drop" /\ s.table = "jobs" /\ "attempt_count" \in s.columns
                           THEN [db.rows EXCEPT !.jobs = {Forgotten(j) : j \in @}]
                           ELSE IF s.do = "rewrite" THEN Rewritten(db.rows, s.how)
                           ELSE db.rows
                    /\ e.sound => \A k \in e.keys : /\ IsKey(k) /\ k.table \in e.tables
                                                    /\ k.to \in e.tables
    OBVIOUS
<1>1. db = [tables |-> db.tables, columns |-> db.columns, keys |-> db.keys,
            admits |-> db.admits, rows |-> db.rows, sound |-> db.sound]
      BY DEF DatabaseInv, IsDatabase
<1>2. db.sound => \A k \in db.keys : IsKey(k) /\ k.table \in db.tables /\ k.to \in db.tables
      BY DEF DatabaseInv
<1>3. CASE s.do = "create"
  <2> DEFINE new == {[table |-> s.table, column |-> c, to |-> s.refs[c],
                      stem |-> <<s.table, c>>] : c \in DOMAIN s.refs}
             ok == /\ db.sound /\ s.table \notin db.tables
                   /\ \A c \in DOMAIN s.refs : s.refs[c] \in db.tables \cup {s.table}
  <2>1. e = [tables |-> db.tables \cup {s.table}, columns |-> db.columns,
             keys |-> db.keys \cup new, admits |-> db.admits, rows |-> db.rows, sound |-> ok]
        BY <1>1, <1>3 DEF Executed
  <2>2. ok => \A k \in new : /\ IsKey(k) /\ k.table \in db.tables \cup {s.table}
                             /\ k.to \in db.tables \cup {s.table}
        BY DEF IsKey
  <2> HIDE DEF new
  <2> QED BY <1>2, <1>3, <2>1, <2>2 DEF IsDatabase
<1>4. CASE s.do = "remove"
  <2> DEFINE ok == /\ db.sound /\ s.table \in db.tables
                   /\ \A k \in db.keys : k.to = s.table => k.table = s.table
  <2>1. e = [tables |-> db.tables \ {s.table}, columns |-> e.columns,
             keys |-> {k \in db.keys : k.table # s.table}, admits |-> e.admits,
             rows |-> Emptied(db.rows, s.table), sound |-> ok]
        BY <1>1, <1>4 DEF Executed
  <2> QED BY <1>2, <1>4, <2>1 DEF IsDatabase
<1>5. CASE s.do = "add"
  <2> DEFINE ok == /\ db.sound /\ s.table \in db.tables
                   /\ \A c \in s.columns : <<s.table, c>> \notin db.columns
  <2>1. e = [tables |-> db.tables, columns |-> e.columns, keys |-> db.keys,
             admits |-> db.admits, rows |-> db.rows, sound |-> ok]
        BY <1>1, <1>5 DEF Executed
  <2> QED BY <1>2, <1>5, <2>1 DEF IsDatabase
<1>6. CASE s.do = "drop"
  <2> DEFINE ok == db.sound /\ \A c \in s.columns : <<s.table, c>> \in db.columns
             forgets == s.table = "jobs" /\ "attempt_count" \in s.columns
             rows == [db.rows EXCEPT !.jobs = IF forgets THEN {Forgotten(j) : j \in @} ELSE @]
  <2>1. e = [tables |-> db.tables, columns |-> e.columns,
             keys |-> {k \in db.keys : ~(k.table = s.table /\ k.column \in s.columns)},
             admits |-> db.admits, rows |-> rows, sound |-> ok]
        BY <1>1, <1>6 DEF Executed
  <2>2. ~forgets => rows = db.rows
        BY DEF DatabaseInv, LegalRows
  <2>6. ok => db.sound
        OBVIOUS
  <2> HIDE DEF ok
  <2>7. IsDatabase(e)
        BY <2>1 DEF IsDatabase
  <2>8. e.sound => db.sound
        BY <2>1, <2>6
  <2>9. e.rows = IF s.do = "remove" THEN Emptied(db.rows, s.table)
                 ELSE IF s.do = "drop" /\ s.table = "jobs" /\ "attempt_count" \in s.columns
                 THEN [db.rows EXCEPT !.jobs = {Forgotten(j) : j \in @}]
                 ELSE IF s.do = "rewrite" THEN Rewritten(db.rows, s.how)
                 ELSE db.rows
        BY <1>6, <2>1, <2>2
  <2>10. e.sound => \A k \in e.keys : IsKey(k) /\ k.table \in e.tables /\ k.to \in e.tables
        BY <1>2, <2>1, <2>8
  <2> QED BY <2>7, <2>8, <2>9, <2>10
<1>7. CASE s.do = "key"
  <2> DEFINE new == [table |-> s.table, column |-> s.column, to |-> s.to,
                     stem |-> <<s.table, s.column>>]
             ok == db.sound /\ {s.table, s.to} \subseteq db.tables
  <2>1. e = [tables |-> db.tables, columns |-> db.columns, keys |-> db.keys \cup {new},
             admits |-> db.admits, rows |-> db.rows,
             sound |-> ok]
        BY <1>1, <1>7 DEF Executed
  <2>6. /\ ok => db.sound /\ s.table \in db.tables /\ s.to \in db.tables
        /\ IsKey(new) /\ new.table = s.table /\ new.to = s.to
        BY DEF IsKey
  <2> HIDE DEF ok, new
  <2>7. IsDatabase(e)
        BY <2>1 DEF IsDatabase
  <2>8. e.sound => db.sound
        BY <2>1, <2>6
  <2>9. e.rows = IF s.do = "remove" THEN Emptied(db.rows, s.table)
                 ELSE IF s.do = "drop" /\ s.table = "jobs" /\ "attempt_count" \in s.columns
                 THEN [db.rows EXCEPT !.jobs = {Forgotten(j) : j \in @}]
                 ELSE IF s.do = "rewrite" THEN Rewritten(db.rows, s.how)
                 ELSE db.rows
        BY <1>7, <2>1
  <2>10. e.sound => \A k \in e.keys : IsKey(k) /\ k.table \in e.tables /\ k.to \in e.tables
        BY <1>2, <2>1, <2>6, <2>8
  <2> QED BY <2>7, <2>8, <2>9, <2>10
<1>8. CASE s.do = "unkey"
  <2> DEFINE ok == db.sound /\ \E k \in db.keys : /\ k.table = s.table /\ k.stem = <<s.table, s.column>>
  <2>1. e = [tables |-> db.tables, columns |-> db.columns,
             keys |-> {k \in db.keys : k.stem # <<s.table, s.column>>},
             admits |-> db.admits, rows |-> db.rows,
             sound |-> ok]
        BY <1>1, <1>8 DEF Executed
  <2>6. ok => db.sound
        OBVIOUS
  <2> HIDE DEF ok
  <2>7. IsDatabase(e)
        BY <2>1 DEF IsDatabase
  <2>8. e.sound => db.sound
        BY <2>1, <2>6
  <2>9. e.rows = IF s.do = "remove" THEN Emptied(db.rows, s.table)
                 ELSE IF s.do = "drop" /\ s.table = "jobs" /\ "attempt_count" \in s.columns
                 THEN [db.rows EXCEPT !.jobs = {Forgotten(j) : j \in @}]
                 ELSE IF s.do = "rewrite" THEN Rewritten(db.rows, s.how)
                 ELSE db.rows
        BY <1>8, <2>1
  <2>10. e.sound => \A k \in e.keys : IsKey(k) /\ k.table \in e.tables /\ k.to \in e.tables
        BY <1>2, <2>1, <2>8
  <2> QED BY <2>7, <2>8, <2>9, <2>10
<1>9. CASE s.do = "check"
  <2> DEFINE ok == db.sound /\ (s.values # {} => Held(db.rows, s.check) \subseteq s.values)
  <2>1. e = [tables |-> db.tables, columns |-> db.columns, keys |-> db.keys,
             admits |-> e.admits, rows |-> db.rows,
             sound |-> ok]
        BY <1>1, <1>9 DEF Executed
  <2>6. ok => db.sound
        OBVIOUS
  <2> HIDE DEF ok
  <2>7. IsDatabase(e)
        BY <2>1 DEF IsDatabase
  <2>8. e.sound => db.sound
        BY <2>1, <2>6
  <2>9. e.rows = IF s.do = "remove" THEN Emptied(db.rows, s.table)
                 ELSE IF s.do = "drop" /\ s.table = "jobs" /\ "attempt_count" \in s.columns
                 THEN [db.rows EXCEPT !.jobs = {Forgotten(j) : j \in @}]
                 ELSE IF s.do = "rewrite" THEN Rewritten(db.rows, s.how)
                 ELSE db.rows
        BY <1>9, <2>1
  <2>10. e.sound => \A k \in e.keys : IsKey(k) /\ k.table \in e.tables /\ k.to \in e.tables
        BY <1>2, <2>1, <2>8
  <2> QED BY <2>7, <2>8, <2>9, <2>10
<1>10. CASE s.do = "rename"
  <2> DEFINE New(t) == IF \E p \in s.pairs : p[1] = t
                       THEN (CHOOSE p \in s.pairs : p[1] = t)[2] ELSE t
             keys == {[k EXCEPT !.table = New(@), !.to = New(@)] : k \in db.keys}
             tables == {New(t) : t \in db.tables}
             ok == db.sound /\ \A p \in s.pairs : p[1] \in db.tables /\ p[2] \notin db.tables
  <2>1. e = [tables |-> tables, columns |-> e.columns, keys |-> keys,
             admits |-> db.admits, rows |-> db.rows,
             sound |-> ok]
        BY <1>1, <1>10 DEF Executed
  <2>2. ASSUME db.sound, NEW k \in keys PROVE IsKey(k) /\ k.table \in tables /\ k.to \in tables
    <3>1. PICK j \in db.keys : k = [j EXCEPT !.table = New(@), !.to = New(@)]
          OBVIOUS
    <3>2. /\ j = [table |-> j.table, column |-> j.column, to |-> j.to, stem |-> j.stem]
          /\ j.table \in db.tables /\ j.to \in db.tables
          BY <1>2, <2>2 DEF IsKey
    <3>3. New(j.table) \in tables /\ New(j.to) \in tables
          BY <3>2
    <3> HIDE DEF New, tables, keys
    <3>4. k = [table |-> New(j.table), column |-> j.column, to |-> New(j.to), stem |-> j.stem]
          BY <3>1, <3>2
    <3> QED BY <3>3, <3>4 DEF IsKey
  <2> HIDE DEF tables, keys
  <2>6. ok => db.sound
        OBVIOUS
  <2> HIDE DEF ok
  <2>7. IsDatabase(e)
        BY <2>1 DEF IsDatabase
  <2>8. e.sound => db.sound
        BY <2>1, <2>6
  <2>9. e.rows = IF s.do = "remove" THEN Emptied(db.rows, s.table)
                 ELSE IF s.do = "drop" /\ s.table = "jobs" /\ "attempt_count" \in s.columns
                 THEN [db.rows EXCEPT !.jobs = {Forgotten(j) : j \in @}]
                 ELSE IF s.do = "rewrite" THEN Rewritten(db.rows, s.how)
                 ELSE db.rows
        BY <1>10, <2>1
  <2>10. e.sound => \A k \in e.keys : IsKey(k) /\ k.table \in e.tables /\ k.to \in e.tables
        BY <1>2, <2>1, <2>8, <2>2
  <2> QED BY <2>7, <2>8, <2>9, <2>10
<1>11. CASE s.do = "column"
  <2> DEFINE Is(t, c) == t \in s.tables /\ c = s.column
             keys == {IF Is(k.table, k.column) THEN [k EXCEPT !.column = s.new] ELSE k : k \in db.keys}
             ok == db.sound /\ \A t \in s.tables : \E k \in db.keys : k.table = t /\ k.column = s.column
  <2>1. e = [tables |-> db.tables, columns |-> e.columns, keys |-> keys,
             admits |-> db.admits, rows |-> db.rows,
             sound |-> ok]
        BY <1>1, <1>11 DEF Executed
  <2>2. ASSUME db.sound, NEW k \in keys
        PROVE  IsKey(k) /\ k.table \in db.tables /\ k.to \in db.tables
    <3>1. PICK j \in db.keys : k = j \/ k = [j EXCEPT !.column = s.new]
          OBVIOUS
    <3>2. /\ j = [table |-> j.table, column |-> j.column, to |-> j.to, stem |-> j.stem]
          /\ j.table \in db.tables /\ j.to \in db.tables
          BY <1>2, <2>2 DEF IsKey
    <3>3. CASE k = j
          BY <3>2, <3>3 DEF IsKey
    <3>4. CASE k = [j EXCEPT !.column = s.new]
      <4>1. k = [table |-> j.table, column |-> s.new, to |-> j.to, stem |-> j.stem]
            BY <3>2, <3>4
      <4> QED BY <3>2, <4>1 DEF IsKey
    <3> QED BY <3>1, <3>3, <3>4
  <2> HIDE DEF keys
  <2>6. ok => db.sound
        OBVIOUS
  <2> HIDE DEF ok
  <2>7. IsDatabase(e)
        BY <2>1 DEF IsDatabase
  <2>8. e.sound => db.sound
        BY <2>1, <2>6
  <2>9. e.rows = IF s.do = "remove" THEN Emptied(db.rows, s.table)
                 ELSE IF s.do = "drop" /\ s.table = "jobs" /\ "attempt_count" \in s.columns
                 THEN [db.rows EXCEPT !.jobs = {Forgotten(j) : j \in @}]
                 ELSE IF s.do = "rewrite" THEN Rewritten(db.rows, s.how)
                 ELSE db.rows
        BY <1>11, <2>1
  <2>10. e.sound => \A k \in e.keys : IsKey(k) /\ k.table \in e.tables /\ k.to \in e.tables
        BY <1>2, <2>1, <2>8, <2>2
  <2> QED BY <2>7, <2>8, <2>9, <2>10
<1>12. CASE s.do = "stem"
  <2> DEFINE Is(k, r) == k.table = r[1] /\ k.stem = r[2]
             keys == {IF \E r \in s.stems : Is(k, r)
                      THEN [k EXCEPT !.stem = (CHOOSE r \in s.stems : Is(k, r))[3]]
                      ELSE k : k \in db.keys}
             ok == db.sound /\ \A r \in s.stems : \E k \in db.keys : Is(k, r)
  <2>1. e = [tables |-> db.tables, columns |-> db.columns, keys |-> keys,
             admits |-> db.admits, rows |-> db.rows,
             sound |-> ok]
        BY <1>1, <1>12 DEF Executed
  <2>2. ASSUME db.sound, NEW k \in keys
        PROVE  IsKey(k) /\ k.table \in db.tables /\ k.to \in db.tables
    <3>1. PICK j \in db.keys : k = j \/ \E x : k = [j EXCEPT !.stem = x]
          OBVIOUS
    <3>2. /\ j = [table |-> j.table, column |-> j.column, to |-> j.to, stem |-> j.stem]
          /\ j.table \in db.tables /\ j.to \in db.tables
          BY <1>2, <2>2 DEF IsKey
    <3>3. CASE k = j
          BY <3>2, <3>3 DEF IsKey
    <3>4. ASSUME NEW x, k = [j EXCEPT !.stem = x]
          PROVE  IsKey(k) /\ k.table \in db.tables /\ k.to \in db.tables
      <4>1. k = [table |-> j.table, column |-> j.column, to |-> j.to, stem |-> x]
            BY <3>2, <3>4
      <4> QED BY <3>2, <4>1 DEF IsKey
    <3> QED BY <3>1, <3>3, <3>4
  <2> HIDE DEF keys
  <2>6. ok => db.sound
        OBVIOUS
  <2> HIDE DEF ok
  <2>7. IsDatabase(e)
        BY <2>1 DEF IsDatabase
  <2>8. e.sound => db.sound
        BY <2>1, <2>6
  <2>9. e.rows = IF s.do = "remove" THEN Emptied(db.rows, s.table)
                 ELSE IF s.do = "drop" /\ s.table = "jobs" /\ "attempt_count" \in s.columns
                 THEN [db.rows EXCEPT !.jobs = {Forgotten(j) : j \in @}]
                 ELSE IF s.do = "rewrite" THEN Rewritten(db.rows, s.how)
                 ELSE db.rows
        BY <1>12, <2>1
  <2>10. e.sound => \A k \in e.keys : IsKey(k) /\ k.table \in e.tables /\ k.to \in e.tables
        BY <1>2, <2>1, <2>8, <2>2
  <2> QED BY <2>7, <2>8, <2>9, <2>10
<1>13. CASE s.do = "rewrite"
  <2> DEFINE ok == db.sound /\ Unique(Rewritten(db.rows, s.how).login)
  <2>1. e = [tables |-> db.tables, columns |-> db.columns, keys |-> db.keys,
             admits |-> db.admits, rows |-> Rewritten(db.rows, s.how),
             sound |-> ok]
        BY <1>1, <1>13 DEF Executed
  <2>6. ok => db.sound
        OBVIOUS
  <2> HIDE DEF ok
  <2>7. IsDatabase(e)
        BY <2>1 DEF IsDatabase
  <2>8. e.sound => db.sound
        BY <2>1, <2>6
  <2>9. e.rows = IF s.do = "remove" THEN Emptied(db.rows, s.table)
                 ELSE IF s.do = "drop" /\ s.table = "jobs" /\ "attempt_count" \in s.columns
                 THEN [db.rows EXCEPT !.jobs = {Forgotten(j) : j \in @}]
                 ELSE IF s.do = "rewrite" THEN Rewritten(db.rows, s.how)
                 ELSE db.rows
        BY <1>13, <2>1
  <2>10. e.sound => \A k \in e.keys : IsKey(k) /\ k.table \in e.tables /\ k.to \in e.tables
        BY <1>2, <2>1, <2>8
  <2> QED BY <2>7, <2>8, <2>9, <2>10
<1> QED BY <1>3, <1>4, <1>5, <1>6, <1>7, <1>8, <1>9, <1>10, <1>11, <1>12, <1>13 DEF Legal, Kinds

NoNumbers(jobs) == \A j \in jobs : j.numbers = {}

\* A statement that leaves of the jobs at most what it finds.
Plain(s) ==
    /\ s.do = "rewrite" => s.how \notin {"backfill", "recover"}
    /\ s.do = "remove" => s.table # "job_attempts"
    /\ s.do = "drop" => ~(s.table = "jobs" /\ "attempt_count" \in s.columns)

LEMMA StatementInv ==
    ASSUME NEW db, DatabaseInv(db), NEW s, Legal(s)
    PROVE  /\ DatabaseInv(Executed(db, s))
           /\ Executed(db, s).sound => db.sound
           /\ Plain(s) => Executed(db, s).rows.jobs \subseteq db.rows.jobs
           /\ s.do = "remove" /\ s.table = "job_attempts" => NoNumbers(Executed(db, s).rows.jobs)
           /\ NoNumbers(db.rows.jobs) /\ ~(s.do = "rewrite" /\ s.how = "recover") =>
                  NoNumbers(Executed(db, s).rows.jobs)
<1> DEFINE rows == db.rows
           after == Executed(db, s).rows
<1>1. rows \in LegalRows /\ rows.jobs \in SUBSET Job
      BY DEF DatabaseInv, LegalRows
<1>2. after = IF s.do = "remove" THEN Emptied(rows, s.table)
              ELSE IF s.do = "drop" /\ s.table = "jobs" /\ "attempt_count" \in s.columns
              THEN [rows EXCEPT !.jobs = {Forgotten(j) : j \in @}]
              ELSE IF s.do = "rewrite" THEN Rewritten(rows, s.how)
              ELSE rows
      BY ExecutedFacts
<1> DEFINE Goal == /\ after \in LegalRows
                   /\ Plain(s) => after.jobs \subseteq rows.jobs
                   /\ s.do = "remove" /\ s.table = "job_attempts" => NoNumbers(after.jobs)
                   /\ NoNumbers(rows.jobs) /\ ~(s.do = "rewrite" /\ s.how = "recover") =>
                          NoNumbers(after.jobs)
<1> HIDE DEF after, rows
<1>3. ASSUME s.do = "remove" PROVE Goal
  <2>1. after = Emptied(rows, s.table)
        BY <1>2, <1>3
  <2>2. /\ after \in LegalRows
        /\ s.table # "job_attempts" => after.jobs \subseteq rows.jobs
        /\ s.table = "job_attempts" => NoNumbers(after.jobs)
        BY <1>1, <2>1, EmptiedFacts DEF NoNumbers
  <2> QED BY <1>3, <2>2 DEF Plain, NoNumbers
<1>4. ASSUME s.do = "drop" /\ s.table = "jobs" /\ "attempt_count" \in s.columns PROVE Goal
  <2> DEFINE jobs == {Forgotten(j) : j \in rows.jobs}
  <2>1. after = [rows EXCEPT !.jobs = jobs]
        BY <1>2, <1>4
  <2>2. jobs \in SUBSET Job
        BY <1>1, JobFacts
  <2>3. NoNumbers(rows.jobs) => NoNumbers(jobs)
        BY <1>1 DEF NoNumbers, Forgotten, Job
  <2> HIDE DEF jobs
  <2>4. after \in LegalRows /\ after.jobs = jobs
        BY <1>1, <2>1, <2>2 DEF LegalRows
  <2> QED BY <1>4, <2>3, <2>4 DEF Plain
<1>5. ASSUME s.do = "rewrite" PROVE Goal
  <2>1. after = Rewritten(rows, s.how) /\ s.how \in Rewrites
        BY <1>2, <1>5 DEF Legal
  <2>2. /\ after \in LegalRows
        /\ after.jobs = IF s.how = "backfill" THEN {Backfilled(j) : j \in rows.jobs}
                        ELSE IF s.how = "recover" THEN {Recovered(j) : j \in rows.jobs}
                        ELSE rows.jobs
        BY <1>1, <2>1, RewrittenFacts
  <2>3. NoNumbers(rows.jobs) => NoNumbers({Backfilled(j) : j \in rows.jobs})
        BY <1>1 DEF NoNumbers, Backfilled, Job
  <2> QED BY <1>5, <2>2, <2>3 DEF Plain
<1>6. ASSUME s.do \notin {"remove", "rewrite"},
             ~(s.do = "drop" /\ s.table = "jobs" /\ "attempt_count" \in s.columns)
      PROVE  Goal
  <2>1. after = rows
        BY <1>2, <1>6
  <2> QED BY <1>1, <1>6, <2>1
<1>7. Goal
      BY <1>3, <1>4, <1>5, <1>6
<1> QED BY <1>7, ExecutedFacts DEF DatabaseInv, after, rows

-----------------------------------------------------------------------------
(* SchemaMigrations: sequences of statements                                 *)

LEMMA PerformedFunction ==
    ASSUME NEW db, NEW s, Len(s) \in Nat
    PROVE  \E f : /\ f[0] = db /\ Performed(db, s) = f[Len(s)]
                  /\ \A n \in 1..Len(s) : f[n] = Executed(f[n - 1], s[n])
<1> DEFINE Step(f, m) == [n \in 0..m |-> IF n = 0 THEN db ELSE Executed(f[n - 1], s[n])]
           S == {m \in 0..Len(s) : \E f : f = Step(f, m)}
<1>1. 0 \in S
  <2> DEFINE f == [n \in 0..0 |-> db]
  <2>1. f = Step(f, 0)
        OBVIOUS
  <2>2. \E g : g = Step(g, 0)
        BY <2>1
  <2>3. 0 \in 0..Len(s)
        OBVIOUS
  <2> QED BY <2>2, <2>3
<1>2. ASSUME NEW k \in 0..Len(s), k \in S, k < Len(s) PROVE k + 1 \in S
  <2>1. PICK f : f = Step(f, k)
        BY <1>2
  <2> DEFINE g == [n \in 0..(k + 1) |-> IF n <= k THEN f[n] ELSE Executed(f[k], s[k + 1])]
  <2>2. g = Step(g, k + 1)
    <3>1. ASSUME NEW n \in 0..(k + 1)
          PROVE  g[n] = IF n = 0 THEN db ELSE Executed(g[n - 1], s[n])
      <4>1. CASE n <= k
            BY <2>1, <4>1
      <4>2. CASE n = k + 1
            BY <2>1, <4>2
      <4> QED BY <4>1, <4>2
    <3> QED BY <3>1
  <2>3. k + 1 \in 0..Len(s)
        BY <1>2
  <2> QED BY <2>2, <2>3
<1>3. Len(s) \in S
  <2>1. \A k \in 0..Len(s) : k \in S /\ k < Len(s) => k + 1 \in S
        BY <1>2
  <2> HIDE DEF S
  <2>2. \A k \in 0..Len(s) : k \in S
        BY <1>1, <2>1, UpTo
  <2> QED BY <2>2
<1>4. \E f : f = Step(f, Len(s))
      BY <1>3
<1> HIDE DEF S
<1> DEFINE after == CHOOSE f : f = Step(f, Len(s))
<1>5. after = Step(after, Len(s)) /\ Performed(db, s) = after[Len(s)]
      BY <1>4, Zenon DEF Performed
<1> HIDE DEF after
<1>6. after[0] = db /\ \A n \in 1..Len(s) : after[n] = Executed(after[n - 1], s[n])
      BY <1>5
<1> QED BY <1>5, <1>6

\* What one statement keeps, a sequence of them keeps.
LEMMA PerformedInv ==
    ASSUME NEW db, DatabaseInv(db), NEW s, Len(s) \in Nat, \A n \in 1..Len(s) : Legal(s[n])
    PROVE  /\ DatabaseInv(Performed(db, s))
           /\ Performed(db, s).sound => db.sound
           /\ (\A n \in 1..Len(s) : Plain(s[n])) => Performed(db, s).rows.jobs \subseteq db.rows.jobs
<1>1. PICK f : /\ f[0] = db /\ Performed(db, s) = f[Len(s)]
               /\ \A n \in 1..Len(s) : f[n] = Executed(f[n - 1], s[n])
      BY PerformedFunction
<1> DEFINE plain == \A n \in 1..Len(s) : Plain(s[n])
           Good(d) == /\ DatabaseInv(d) /\ (d.sound => db.sound)
                      /\ plain => d.rows.jobs \subseteq db.rows.jobs
           S == {k \in 0..Len(s) : Good(f[k])}
<1>2. 0 \in S
      BY <1>1
<1>3. ASSUME NEW k \in 0..Len(s), k \in S, k < Len(s) PROVE k + 1 \in S
  <2>1. k + 1 \in 1..Len(s) /\ k + 1 \in 0..Len(s) /\ (k + 1) - 1 = k
        BY <1>3
  <2>2. f[k + 1] = Executed(f[k], s[k + 1]) /\ Legal(s[k + 1]) /\ (plain => Plain(s[k + 1]))
        BY <1>1, <2>1
  <2>3. Good(f[k])
        BY <1>3
  <2> HIDE DEF plain
  <2>4. Good(Executed(f[k], s[k + 1]))
        BY <2>2, <2>3, StatementInv
  <2> HIDE DEF Good
  <2> QED BY <2>1, <2>2, <2>4
<1>4. \A k \in 0..Len(s) : k \in S /\ k < Len(s) => k + 1 \in S
      BY <1>3
<1>5. Len(s) \in S
  <2> HIDE DEF S
  <2>1. \A k \in 0..Len(s) : k \in S
        BY <1>2, <1>4, UpTo
  <2> QED BY <2>1
<1>6. Good(f[Len(s)])
      BY <1>5
<1> QED BY <1>1, <1>6

Recovers(s) == s.do = "rewrite" /\ s.how = "recover"
Removes(s) == s.do = "remove" /\ s.table = "job_attempts"

\* Once job_attempts is dropped, no job has an attempt.
LEMMA PerformedForgets ==
    ASSUME NEW db, DatabaseInv(db), NEW s, Len(s) \in Nat,
           \A n \in 1..Len(s) : Legal(s[n]) /\ ~Recovers(s[n]),
           NoNumbers(db.rows.jobs) \/ \E n \in 1..Len(s) : Removes(s[n])
    PROVE  NoNumbers(Performed(db, s).rows.jobs)
<1>1. PICK f : /\ f[0] = db /\ Performed(db, s) = f[Len(s)]
               /\ \A n \in 1..Len(s) : f[n] = Executed(f[n - 1], s[n])
      BY PerformedFunction
<1>2. PICK m \in 0..Len(s) : IF m = 0 THEN NoNumbers(db.rows.jobs) ELSE Removes(s[m])
      OBVIOUS
<1> DEFINE Good(k, d) == DatabaseInv(d) /\ (m <= k => NoNumbers(d.rows.jobs))
           S == {k \in 0..Len(s) : Good(k, f[k])}
<1>3. 0 \in S
      BY <1>1, <1>2
<1>4. ASSUME NEW k \in 0..Len(s), k \in S, k < Len(s) PROVE k + 1 \in S
  <2>1. k + 1 \in 1..Len(s) /\ k + 1 \in 0..Len(s) /\ (k + 1) - 1 = k
        BY <1>4
  <2>2. f[k + 1] = Executed(f[k], s[k + 1]) /\ Legal(s[k + 1]) /\ ~Recovers(s[k + 1])
        BY <1>1, <2>1
  <2>3. DatabaseInv(f[k]) /\ (m <= k => NoNumbers(f[k].rows.jobs))
        BY <1>4
  <2>4. m <= k + 1 => m <= k \/ Removes(s[k + 1])
        BY <1>2, <1>4
  <2>5. Good(k + 1, Executed(f[k], s[k + 1]))
        BY <2>2, <2>3, <2>4, StatementInv DEF Recovers, Removes
  <2> HIDE DEF Good
  <2> QED BY <2>1, <2>2, <2>5
<1>5. \A k \in 0..Len(s) : k \in S /\ k < Len(s) => k + 1 \in S
      BY <1>4
<1>6. Len(s) \in S
  <2> HIDE DEF S
  <2>1. \A k \in 0..Len(s) : k \in S
        BY <1>3, <1>5, UpTo
  <2> QED BY <2>1
<1>7. Good(Len(s), f[Len(s)])
      BY <1>6
<1> QED BY <1>1, <1>2, <1>7

\* Two sequences in one are one after the other.
LEMMA PerformedConcat ==
    ASSUME NEW X, NEW s \in Seq(X), NEW t \in Seq(X), NEW db
    PROVE  Performed(db, s \o t) = Performed(Performed(db, s), t)
<1> DEFINE st == s \o t
           ls == Len(s)
           lt == Len(t)
<1>1. /\ ls \in Nat /\ lt \in Nat /\ Len(st) = ls + lt
      /\ \A n \in 1..ls : st[n] = s[n]
      /\ \A n \in 1..lt : st[ls + n] = t[n]
  <2>1. /\ ls \in Nat /\ lt \in Nat /\ Len(st) = ls + lt
        BY LenProperties, ConcatProperties
  <2>2. \A n \in 1..(ls + lt) : st[n] = IF n <= ls THEN s[n] ELSE t[n - ls]
        BY ConcatProperties
  <2>3. ASSUME NEW n \in 1..ls PROVE st[n] = s[n]
    <3>1. n \in 1..(ls + lt) /\ n <= ls
          BY <2>1
    <3> QED BY <2>2, <3>1
  <2>4. ASSUME NEW n \in 1..lt PROVE st[ls + n] = t[n]
    <3>1. ls + n \in 1..(ls + lt) /\ ~(ls + n <= ls) /\ (ls + n) - ls = n
          BY <2>1
    <3> QED BY <2>2, <3>1
  <2> QED BY <2>1, <2>3, <2>4
<1> HIDE DEF st, ls, lt
<1>2. PICK f : /\ f[0] = db /\ Performed(db, st) = f[ls + lt]
               /\ \A n \in 1..(ls + lt) : f[n] = Executed(f[n - 1], st[n])
      BY <1>1, PerformedFunction
<1>3. PICK g : /\ g[0] = db /\ Performed(db, s) = g[ls]
               /\ \A n \in 1..ls : g[n] = Executed(g[n - 1], s[n])
      BY <1>1, PerformedFunction DEF ls
<1>4. PICK h : /\ h[0] = Performed(db, s) /\ Performed(Performed(db, s), t) = h[lt]
               /\ \A n \in 1..lt : h[n] = Executed(h[n - 1], t[n])
  <2> DEFINE mid == Performed(db, s)
  <2> HIDE DEF mid
  <2>0. Len(t) \in Nat
        BY <1>1 DEF lt
  <2>1. \E h : /\ h[0] = mid /\ Performed(mid, t) = h[Len(t)]
               /\ \A n \in 1..Len(t) : h[n] = Executed(h[n - 1], t[n])
        BY <2>0, PerformedFunction
  <2> QED BY <2>1 DEF mid, lt
<1>5. f[ls] = g[ls]
  <2> DEFINE S == {k \in 0..ls : f[k] = g[k]}
  <2>1. 0 \in S
        BY <1>1, <1>2, <1>3
  <2>2. ASSUME NEW k \in 0..ls, k \in S, k < ls PROVE k + 1 \in S
    <3>1. k + 1 \in 1..ls /\ k + 1 \in 1..(ls + lt) /\ k + 1 \in 0..ls /\ (k + 1) - 1 = k
          BY <1>1, <2>2
    <3>2. f[k + 1] = Executed(f[k], st[k + 1]) /\ g[k + 1] = Executed(g[k], s[k + 1])
          BY <1>2, <1>3, <3>1
    <3>3. st[k + 1] = s[k + 1]
          BY <1>1, <3>1
    <3> QED BY <2>2, <3>1, <3>2, <3>3
  <2>3. \A k \in 0..ls : k \in S /\ k < ls => k + 1 \in S
        BY <2>2
  <2> HIDE DEF S
  <2>4. \A k \in 0..ls : k \in S
        BY <1>1, <2>1, <2>3, UpTo
  <2>5. ls \in S
        BY <1>1, <2>4
  <2> QED BY <2>5 DEF S
<1>6. f[ls + lt] = h[lt]
  <2> DEFINE S == {k \in 0..lt : f[ls + k] = h[k]}
  <2>1. 0 \in S
        BY <1>1, <1>3, <1>4, <1>5
  <2>2. ASSUME NEW k \in 0..lt, k \in S, k < lt PROVE k + 1 \in S
    <3>1. /\ k + 1 \in 1..lt /\ ls + (k + 1) \in 1..(ls + lt) /\ k + 1 \in 0..lt
          /\ (k + 1) - 1 = k /\ (ls + (k + 1)) - 1 = ls + k
          BY <1>1, <2>2
    <3>2. f[ls + (k + 1)] = Executed(f[ls + k], st[ls + (k + 1)])
          BY <1>2, <3>1
    <3>3. h[k + 1] = Executed(h[k], t[k + 1])
          BY <1>4, <3>1
    <3>4. st[ls + (k + 1)] = t[k + 1]
          BY <1>1, <3>1
    <3> QED BY <2>2, <3>1, <3>2, <3>3, <3>4
  <2>3. \A k \in 0..lt : k \in S /\ k < lt => k + 1 \in S
        BY <2>2
  <2> HIDE DEF S
  <2>4. \A k \in 0..lt : k \in S
        BY <1>1, <2>1, <2>3, UpTo
  <2>5. lt \in S
        BY <1>1, <2>4
  <2> QED BY <2>5 DEF S
<1> QED BY <1>2, <1>4, <1>6 DEF st

LEMMA PerformedOne ==
    ASSUME NEW db, NEW x PROVE Performed(db, <<x>>) = Executed(db, x)
<1>1. Len(<<x>>) = 1 /\ <<x>>[1] = x
      OBVIOUS
<1>2. PICK f : /\ f[0] = db /\ Performed(db, <<x>>) = f[Len(<<x>>)]
               /\ \A n \in 1..Len(<<x>>) : f[n] = Executed(f[n - 1], <<x>>[n])
      BY <1>1, PerformedFunction
<1>3. f[1] = Executed(f[1 - 1], <<x>>[1])
      BY <1>1, <1>2
<1> QED BY <1>1, <1>2, <1>3

-----------------------------------------------------------------------------
(* SchemaMigrations: the revisions                                           *)

Scripted(s) == Len(s) \in Nat /\ \A n \in 1..Len(s) : Legal(s[n])
Ordinary(s) == Scripted(s) /\ \A n \in 1..Len(s) : Plain(s[n])

IsList(s) == Len(s) \in Nat /\ s = [n \in 1..Len(s) |-> s[n]]

LEMMA ListFacts ==
    ASSUME NEW s, IsList(s), NEW t, IsList(t)
    PROVE  /\ IsList(s \o t)
           /\ Scripted(s) /\ Scripted(t) => Scripted(s \o t)
           /\ Ordinary(s) /\ Ordinary(t) => Ordinary(s \o t)
           /\ \A db : Performed(db, s \o t) = Performed(Performed(db, s), t)
<1> DEFINE X == {s[n] : n \in 1..Len(s)} \cup {t[n] : n \in 1..Len(t)}
<1>1. s \in Seq(X) /\ t \in Seq(X)
  <2>1. s \in [1..Len(s) -> X] /\ t \in [1..Len(t) -> X]
        BY DEF IsList
  <2> HIDE DEF X
  <2> QED BY <2>1, SeqDef DEF IsList
<1> HIDE DEF X
<1>2. /\ Len(s) \in Nat /\ Len(t) \in Nat /\ Len(s \o t) = Len(s) + Len(t)
      /\ \A n \in 1..(Len(s) + Len(t)) : (s \o t)[n] = IF n <= Len(s) THEN s[n] ELSE t[n - Len(s)]
      /\ s \o t \in Seq(X)
      BY <1>1, LenProperties, ConcatProperties
<1>3. IsList(s \o t)
      BY <1>2, LenProperties DEF IsList
<1>4. ASSUME NEW n \in 1..Len(s \o t)
      PROVE  \/ \E k \in 1..Len(s) : (s \o t)[n] = s[k]
             \/ \E k \in 1..Len(t) : (s \o t)[n] = t[k]
  <2>1. CASE n <= Len(s)
    <3>1. n \in 1..Len(s) /\ (s \o t)[n] = s[n]
          BY <1>2, <2>1
    <3> QED BY <3>1
  <2>2. CASE ~(n <= Len(s))
    <3>1. n - Len(s) \in 1..Len(t) /\ (s \o t)[n] = t[n - Len(s)]
          BY <1>2, <2>2
    <3> QED BY <3>1
  <2> QED BY <2>1, <2>2
<1>5. Scripted(s) /\ Scripted(t) => Scripted(s \o t)
  <2> SUFFICES ASSUME Scripted(s), Scripted(t) PROVE Scripted(s \o t)
      OBVIOUS
  <2>1. ASSUME NEW n \in 1..Len(s \o t) PROVE Legal((s \o t)[n])
        BY <1>4, <2>1, Zenon DEF Scripted
  <2> QED BY <1>2, <2>1 DEF Scripted
<1>6. Ordinary(s) /\ Ordinary(t) => Ordinary(s \o t)
  <2> SUFFICES ASSUME Ordinary(s), Ordinary(t) PROVE Ordinary(s \o t)
      OBVIOUS
  <2>1. ASSUME NEW n \in 1..Len(s \o t) PROVE Plain((s \o t)[n])
        BY <1>4, <2>1, Zenon DEF Ordinary
  <2> QED BY <1>5, <2>1 DEF Ordinary
<1>7. \A db : Performed(db, s \o t) = Performed(Performed(db, s), t)
      BY <1>1, PerformedConcat
<1> QED BY <1>3, <1>5, <1>6, <1>7

LEMMA ScriptsAreLists ==
    /\ IsList(UpDocuments) /\ IsList(UpChunks)
    /\ IsList(UpChatSessions) /\ IsList(UpRetrievalRuns) /\ IsList(UpProviderUsage)
    /\ IsList(UpUsers) /\ IsList(UpProposals)
    /\ IsList(UpQueueTables) /\ IsList(UpScheduleTable) /\ IsList(UpJobColumns)
    /\ IsList(UpBackfill) /\ IsList(UpJobChecks) /\ IsList(UpAttempts) /\ IsList(UpEvents)
    /\ IsList(UpRecover) /\ IsList(UpWorkers) /\ IsList(UpTrigger)
<1>1. /\ IsList(UpDocuments) /\ IsList(UpChunks)
      /\ IsList(UpChatSessions) /\ IsList(UpRetrievalRuns) /\ IsList(UpProviderUsage)
      BY DEF IsList, UpDocuments, UpChunks, UpChatSessions, UpRetrievalRuns, UpProviderUsage
<1>2. /\ IsList(UpUsers) /\ IsList(UpProposals)
      /\ IsList(UpQueueTables) /\ IsList(UpScheduleTable) /\ IsList(UpJobColumns)
      BY DEF IsList, UpUsers, UpProposals, UpQueueTables, UpScheduleTable, UpJobColumns
<1>3. /\ IsList(UpBackfill) /\ IsList(UpJobChecks) /\ IsList(UpAttempts) /\ IsList(UpEvents)
      /\ IsList(UpRecover) /\ IsList(UpWorkers) /\ IsList(UpTrigger)
      BY DEF IsList, UpBackfill, UpJobChecks, UpAttempts, UpEvents, UpRecover, UpWorkers, UpTrigger
<1> QED BY <1>1, <1>2, <1>3

LEMMA EarlyScripts ==
    /\ Ordinary(UpDocuments \o UpChunks) /\ Ordinary(UpQueue) /\ Ordinary(UpEmbeddingMetadata)
    /\ Ordinary(UpChatSessions \o UpRetrievalRuns \o UpProviderUsage) /\ Ordinary(UpGraph)
    /\ Ordinary(UpRetried) /\ Ordinary(UpSparseScore) /\ Ordinary(UpConnections)
    /\ Ordinary(UpSlotDefaults) /\ Ordinary(UpOverrides) /\ Ordinary(UpCatalog)
    /\ Ordinary(UpDefaultMode) /\ Ordinary(UpUsers \o UpProposals)
<1> USE DEF Ordinary, Scripted, Legal, Kinds, Plain, CreateTable, AddColumns, AddKey, Admit
<1>1. /\ Ordinary(UpDocuments) /\ Ordinary(UpChunks) /\ Ordinary(UpQueue)
      /\ Ordinary(UpEmbeddingMetadata)
      BY DEF UpDocuments, UpChunks, UpQueue, UpEmbeddingMetadata
<1>2. /\ Ordinary(UpChatSessions) /\ Ordinary(UpRetrievalRuns) /\ Ordinary(UpProviderUsage)
      /\ Ordinary(UpGraph)
      BY DEF UpChatSessions, UpRetrievalRuns, UpProviderUsage, UpGraph
<1>3. /\ Ordinary(UpRetried) /\ Ordinary(UpSparseScore) /\ Ordinary(UpConnections)
      /\ Ordinary(UpSlotDefaults) /\ Ordinary(UpOverrides) /\ Ordinary(UpCatalog)
      BY DEF UpRetried, UpSparseScore, UpConnections, UpSlotDefaults, UpOverrides, UpCatalog
<1>4. Ordinary(UpDefaultMode) /\ Ordinary(UpUsers) /\ Ordinary(UpProposals)
      BY DEF UpDefaultMode, UpUsers, UpProposals
<1> HIDE DEF Ordinary
<1>5. Ordinary(UpDocuments \o UpChunks)
      BY <1>1, ListFacts, ScriptsAreLists
<1>6. Ordinary(UpChatSessions \o UpRetrievalRuns) /\ IsList(UpChatSessions \o UpRetrievalRuns)
      BY <1>2, ListFacts, ScriptsAreLists
<1>7. Ordinary(UpChatSessions \o UpRetrievalRuns \o UpProviderUsage)
      BY <1>2, <1>6, ListFacts, ScriptsAreLists
<1>8. Ordinary(UpUsers \o UpProposals)
      BY <1>4, ListFacts, ScriptsAreLists
<1> QED BY <1>1, <1>2, <1>3, <1>4, <1>5, <1>7, <1>8

LEMMA LateScripts ==
    /\ Ordinary(UpSidebar) /\ Ordinary(UpLastProject) /\ Ordinary(UpRetrievalSettings)
    /\ Ordinary(UpSoftDelete) /\ Ordinary(UpMemory) /\ Ordinary(UpPassageNull)
    /\ Ordinary(UpCanceled) /\ Ordinary(UpAttachments) /\ Ordinary(UpVision)
    /\ Ordinary(UpWorkspaces) /\ Ordinary(UpTaskState) /\ Ordinary(UpHumanAuth)
<1> USE DEF Ordinary, Scripted, Legal, Kinds, Rewrites, Plain, CreateTable, AddColumns, AddKey,
            DropKey, Admit, Rewrite, RenameTables, RenameColumns, RenameKeys
<1>1. /\ Ordinary(UpSidebar) /\ Ordinary(UpLastProject) /\ Ordinary(UpRetrievalSettings)
      /\ Ordinary(UpSoftDelete)
      BY DEF UpSidebar, UpLastProject, UpRetrievalSettings, UpSoftDelete
<1>2. /\ Ordinary(UpMemory) /\ Ordinary(UpPassageNull) /\ Ordinary(UpCanceled)
      /\ Ordinary(UpAttachments) /\ Ordinary(UpVision)
      BY DEF UpMemory, UpPassageNull, UpCanceled, UpAttachments, UpVision
<1>3. Ordinary(UpWorkspaces)
      BY DEF UpWorkspaces
<1>4. Ordinary(UpTaskState) /\ Ordinary(UpHumanAuth)
      BY DEF UpTaskState, UpHumanAuth
<1> QED BY <1>1, <1>2, <1>3, <1>4

LEMMA DownScripts ==
    /\ Ordinary(DownDomain) /\ Ordinary(DownQueue) /\ Ordinary(DownEmbeddingMetadata)
    /\ Ordinary(DownChatAudit) /\ Ordinary(DownGraph) /\ Ordinary(DownRetried)
    /\ Ordinary(DownSparseScore) /\ Ordinary(DownConnections) /\ Ordinary(DownSlotDefaults)
    /\ Ordinary(DownOverrides) /\ Ordinary(DownCatalog) /\ Ordinary(DownDefaultMode)
    /\ Ordinary(DownAuth) /\ Ordinary(DownSidebar) /\ Ordinary(DownLastProject)
    /\ Ordinary(DownRetrievalSettings) /\ Ordinary(DownSoftDelete) /\ Ordinary(DownMemory)
    /\ Ordinary(DownPassageNull) /\ Ordinary(DownCanceled) /\ Ordinary(DownAttachments)
    /\ Ordinary(DownVision) /\ Ordinary(DownWorkspaces) /\ Ordinary(DownTaskState)
    /\ Ordinary(DownHumanAuth)
<1> USE DEF Ordinary, Scripted, Legal, Kinds, Rewrites, Plain, DropTable, DropColumns, AddKey,
            DropKey, Admit, Rewrite, RenameTables, RenameColumns, RenameKeys
<1>1. /\ Ordinary(DownDomain) /\ Ordinary(DownQueue) /\ Ordinary(DownEmbeddingMetadata)
      /\ Ordinary(DownChatAudit) /\ Ordinary(DownGraph) /\ Ordinary(DownRetried)
      BY DEF DownDomain, DownQueue, DownEmbeddingMetadata, DownChatAudit, DownGraph, DownRetried
<1>2. /\ Ordinary(DownSparseScore) /\ Ordinary(DownConnections) /\ Ordinary(DownSlotDefaults)
      /\ Ordinary(DownOverrides) /\ Ordinary(DownCatalog) /\ Ordinary(DownDefaultMode)
      BY DEF DownSparseScore, DownConnections, DownSlotDefaults, DownOverrides, DownCatalog,
             DownDefaultMode
<1>3. /\ Ordinary(DownAuth) /\ Ordinary(DownSidebar) /\ Ordinary(DownLastProject)
      /\ Ordinary(DownRetrievalSettings) /\ Ordinary(DownSoftDelete) /\ Ordinary(DownMemory)
      BY DEF DownAuth, DownSidebar, DownLastProject, DownRetrievalSettings, DownSoftDelete, DownMemory
<1>4. /\ Ordinary(DownPassageNull) /\ Ordinary(DownCanceled) /\ Ordinary(DownAttachments)
      /\ Ordinary(DownVision) /\ Ordinary(DownTaskState) /\ Ordinary(DownHumanAuth)
      BY DEF DownPassageNull, DownCanceled, DownAttachments, DownVision, DownTaskState, DownHumanAuth
<1>5. Ordinary(DownWorkspaces)
      BY DEF DownWorkspaces
<1> QED BY <1>1, <1>2, <1>3, <1>4, <1>5

\* Only one revision, either way, does anything to the jobs but to drop them.
LEMMA Revisions ==
    /\ Newest = 26 /\ PlatformAt = 25 /\ Len(Down) = 26
    /\ Up[25] = UpPlatform /\ Down[25] = DownPlatform
    /\ \A r \in 1..26 : r # 25 => Ordinary(Up[r]) /\ Ordinary(Down[r])
<1>1. Newest = 26 /\ PlatformAt = 25 /\ Len(Down) = 26
      BY DEF Newest, PlatformAt, Up, Down
<1>2. Up[25] = UpPlatform /\ Down[25] = DownPlatform
      BY DEF Up, Down
<1>3. \A r \in 1..13 : Ordinary(Up[r])
  <2>1. /\ Up[1] = UpDocuments \o UpChunks /\ Up[2] = UpQueue /\ Up[3] = UpEmbeddingMetadata
        /\ Up[4] = UpChatSessions \o UpRetrievalRuns \o UpProviderUsage /\ Up[5] = UpGraph
        /\ Up[6] = UpRetried /\ Up[7] = UpSparseScore /\ Up[8] = UpConnections
        /\ Up[9] = UpSlotDefaults /\ Up[10] = UpOverrides /\ Up[11] = UpCatalog
        /\ Up[12] = UpDefaultMode /\ Up[13] = UpUsers \o UpProposals
        BY DEF Up
  <2>2. Ordinary(Up[1]) /\ Ordinary(Up[4]) /\ Ordinary(Up[13])
        BY <2>1, EarlyScripts, Zenon
  <2>3. /\ Ordinary(Up[2]) /\ Ordinary(Up[3]) /\ Ordinary(Up[5]) /\ Ordinary(Up[6])
        /\ Ordinary(Up[7]) /\ Ordinary(Up[8]) /\ Ordinary(Up[9]) /\ Ordinary(Up[10])
        /\ Ordinary(Up[11]) /\ Ordinary(Up[12])
        BY <2>1, EarlyScripts, Zenon
  <2> QED BY <2>2, <2>3
<1>4. \A r \in 14..26 : r # 25 => Ordinary(Up[r])
  <2>1. /\ Up[14] = UpSidebar /\ Up[15] = UpLastProject /\ Up[16] = UpRetrievalSettings
        /\ Up[17] = UpSoftDelete /\ Up[18] = UpMemory /\ Up[19] = UpPassageNull
        /\ Up[20] = UpCanceled /\ Up[21] = UpAttachments /\ Up[22] = UpVision
        /\ Up[23] = UpWorkspaces /\ Up[24] = UpTaskState /\ Up[26] = UpHumanAuth
        BY DEF Up
  <2> QED BY <2>1, LateScripts
<1>5. \A r \in 1..26 : r # 25 => Ordinary(Down[r])
      BY DownScripts DEF Down
<1> QED BY <1>1, <1>2, <1>3, <1>4, <1>5

-----------------------------------------------------------------------------
(* SchemaMigrations: the jobs of the platform                                *)

\* What the platform asks of a job: the number of its next attempt is free.
AttemptsNumbered(jobs) ==
    \A j \in jobs : /\ \A n \in j.numbers : n <= j.count
                    /\ j.status = "running" => j.count \in j.numbers

\* Between the backfill and the recovery of the jobs that run.
AllBackfilled(jobs) ==
    \A j \in jobs : /\ j.numbers = {} /\ j.count = j.attempts
                    /\ j.limit = Least(Greatest(j.max - 1, 0), RetryCap)
                    /\ j.status # "blocked" => j.retries = Least(j.attempts, j.max)

Budgeted(jobs) ==
    \A j \in jobs : j.status = "queued" /\ j.attempts < j.max /\ j.max <= RetryCap + 1 =>
                        j.limit - j.retries + 1 = j.max - j.attempts

LEMMA BackfillFacts ==
    ASSUME NEW jobs \in SUBSET Job, NoNumbers(jobs) PROVE AllBackfilled({Backfilled(j) : j \in jobs})
<1> SUFFICES ASSUME NEW j \in jobs
             PROVE  /\ Backfilled(j).numbers = {} /\ Backfilled(j).count = Backfilled(j).attempts
                    /\ Backfilled(j).limit = Least(Greatest(Backfilled(j).max - 1, 0), RetryCap)
                    /\ Backfilled(j).status # "blocked" =>
                           Backfilled(j).retries = Least(Backfilled(j).attempts, Backfilled(j).max)
    BY DEF AllBackfilled
<1> QED BY DEF Backfilled, NoNumbers, Job

LEMMA RecoverFacts ==
    ASSUME NEW jobs \in SUBSET Job, AllBackfilled(jobs)
    PROVE  AttemptsNumbered({Recovered(j) : j \in jobs}) /\ Budgeted({Recovered(j) : j \in jobs})
<1>1. RetryCap \in Nat /\ LastTry \in Nat \ {0}
      BY MigrationsAssumption
<1>2. ASSUME NEW j \in jobs
      PROVE  /\ \A n \in Recovered(j).numbers : n <= Recovered(j).count
             /\ Recovered(j).status # "running"
  <2>1. j \in Job /\ j.numbers = {} /\ j.count \in 0..LastTry
        BY DEF AllBackfilled, Job
  <2>2. CASE j.status = "running"
    <3>1. /\ Recovered(j).numbers = {Greatest(j.count, 1)}
          /\ Recovered(j).count = Greatest(j.count, 1)
          /\ Recovered(j).status = IF j.attempts >= j.max THEN "dead_letter" ELSE "queued"
          BY <2>1, <2>2 DEF Recovered, Job
    <3>2. Greatest(j.count, 1) \in Int
          BY <1>1, <2>1 DEF Greatest
    <3> QED BY <3>1, <3>2
  <2>3. CASE j.status # "running"
        BY <2>1, <2>3 DEF Recovered
  <2> QED BY <2>2, <2>3
<1>3. ASSUME NEW j \in jobs, Recovered(j).status = "queued",
             Recovered(j).attempts < Recovered(j).max, Recovered(j).max <= RetryCap + 1
      PROVE  Recovered(j).limit - Recovered(j).retries + 1 = Recovered(j).max - Recovered(j).attempts
  <2>1. /\ j \in Job /\ j.attempts \in Nat /\ j.max \in Nat \ {0} /\ j.limit \in Int /\ j.retries \in Int
        BY <1>1 DEF Job, Greatest
  <2>2. /\ Recovered(j).attempts = j.attempts /\ Recovered(j).max = j.max
        /\ Recovered(j).limit = j.limit /\ Recovered(j).retries = j.retries
        BY <2>1 DEF Recovered, Job
  <2>3. j.status # "blocked"
        BY <1>3, <2>1 DEF Recovered, Job
  <2>4. j.retries = Least(j.attempts, j.max) /\ j.limit = Least(Greatest(j.max - 1, 0), RetryCap)
        BY <2>3 DEF AllBackfilled
  <2>5. j.retries = j.attempts /\ j.limit = j.max - 1
        BY <1>1, <1>3, <2>1, <2>2, <2>4 DEF Least, Greatest
  <2> QED BY <2>1, <2>2, <2>5
<1> QED BY <1>2, <1>3 DEF AttemptsNumbered, Budgeted

\* The job platform takes the jobs over.
LEMMA PlatformUp ==
    ASSUME NEW db, DatabaseInv(db), NoNumbers(db.rows.jobs)
    PROVE  /\ DatabaseInv(Performed(db, UpPlatform))
           /\ Performed(db, UpPlatform).sound => db.sound
           /\ AttemptsNumbered(Performed(db, UpPlatform).rows.jobs)
           /\ Budgeted(Performed(db, UpPlatform).rows.jobs)
<1> DEFINE before == UpQueueTables \o UpScheduleTable \o UpJobColumns
           p1 == Performed(db, before)
           p2 == Executed(p1, Rewrite("backfill"))
           p3 == Performed(p2, UpJobChecks)
           p4 == Performed(p3, UpAttempts)
           p5 == Performed(p4, UpEvents)
           p6 == Executed(p5, Rewrite("recover"))
           p7 == Performed(p6, UpWorkers)
           p8 == Performed(p7, UpTrigger)
<1>1. /\ Ordinary(UpQueueTables) /\ Ordinary(UpScheduleTable) /\ Ordinary(UpJobColumns)
      /\ Ordinary(UpJobChecks) /\ Ordinary(UpAttempts) /\ Ordinary(UpEvents)
      /\ Ordinary(UpWorkers) /\ Ordinary(UpTrigger)
      BY DEF Ordinary, Scripted, Legal, Kinds, Plain, CreateTable, AddColumns, AddKey, Admit,
             UpQueueTables, UpScheduleTable, UpJobColumns, UpJobChecks, UpAttempts, UpEvents,
             UpWorkers, UpTrigger
<1>2. IsList(UpQueueTables \o UpScheduleTable) /\ Ordinary(UpQueueTables \o UpScheduleTable)
      BY <1>1, ListFacts, ScriptsAreLists
<1>3. IsList(before) /\ Ordinary(before)
      BY <1>1, <1>2, ListFacts, ScriptsAreLists
<1>4. Performed(db, UpPlatform) = p8
  <2> DEFINE s2 == before \o UpBackfill
             s3 == s2 \o UpJobChecks
             s4 == s3 \o UpAttempts
             s5 == s4 \o UpEvents
             s6 == s5 \o UpRecover
             s7 == s6 \o UpWorkers
  <2>1. UpPlatform = s7 \o UpTrigger
        BY DEF UpPlatform
  <2> HIDE DEF before
  <2>2. IsList(s2) /\ Performed(db, s2) = Performed(Performed(db, before), UpBackfill)
        BY <1>3, ListFacts, ScriptsAreLists
  <2> HIDE DEF s2
  <2>3. IsList(s3) /\ Performed(db, s3) = Performed(Performed(db, s2), UpJobChecks)
        BY <2>2, ListFacts, ScriptsAreLists
  <2> HIDE DEF s3
  <2>4. IsList(s4) /\ Performed(db, s4) = Performed(Performed(db, s3), UpAttempts)
        BY <2>3, ListFacts, ScriptsAreLists
  <2> HIDE DEF s4
  <2>5. IsList(s5) /\ Performed(db, s5) = Performed(Performed(db, s4), UpEvents)
        BY <2>4, ListFacts, ScriptsAreLists
  <2> HIDE DEF s5
  <2>6. IsList(s6) /\ Performed(db, s6) = Performed(Performed(db, s5), UpRecover)
        BY <2>5, ListFacts, ScriptsAreLists
  <2> HIDE DEF s6
  <2>7. IsList(s7) /\ Performed(db, s7) = Performed(Performed(db, s6), UpWorkers)
        BY <2>6, ListFacts, ScriptsAreLists
  <2> HIDE DEF s7
  <2>8. Performed(db, UpPlatform) = Performed(Performed(db, s7), UpTrigger)
        BY <2>1, <2>7, ListFacts, ScriptsAreLists
  <2>9. \A d : /\ Performed(d, UpBackfill) = Executed(d, Rewrite("backfill"))
               /\ Performed(d, UpRecover) = Executed(d, Rewrite("recover"))
        BY PerformedOne DEF UpBackfill, UpRecover
  <2> QED BY <2>2, <2>3, <2>4, <2>5, <2>6, <2>7, <2>8, <2>9
<1>5. /\ Legal(Rewrite("backfill")) /\ Legal(Rewrite("recover"))
      /\ Rewrite("backfill").do = "rewrite" /\ Rewrite("backfill").how = "backfill"
      /\ Rewrite("recover").do = "rewrite" /\ Rewrite("recover").how = "recover"
      BY DEF Legal, Kinds, Rewrites, Rewrite
<1>6. ASSUME NEW d, DatabaseInv(d), NEW s, Ordinary(s)
      PROVE  /\ DatabaseInv(Performed(d, s)) /\ (Performed(d, s).sound => d.sound)
             /\ Performed(d, s).rows.jobs \subseteq d.rows.jobs
      BY <1>6, PerformedInv DEF Ordinary, Scripted
<1>7. ASSUME NEW d, DatabaseInv(d)
      PROVE  /\ DatabaseInv(Executed(d, Rewrite("backfill")))
             /\ Executed(d, Rewrite("backfill")).sound => d.sound
             /\ Executed(d, Rewrite("backfill")).rows.jobs = {Backfilled(j) : j \in d.rows.jobs}
             /\ DatabaseInv(Executed(d, Rewrite("recover")))
             /\ Executed(d, Rewrite("recover")).sound => d.sound
             /\ Executed(d, Rewrite("recover")).rows.jobs = {Recovered(j) : j \in d.rows.jobs}
  <2>1. /\ Executed(d, Rewrite("backfill")).rows = Rewritten(d.rows, "backfill")
        /\ Executed(d, Rewrite("recover")).rows = Rewritten(d.rows, "recover")
        BY <1>5, <1>7, ExecutedFacts
  <2>2. d.rows \in LegalRows
        BY <1>7 DEF DatabaseInv
  <2>3. /\ Rewritten(d.rows, "backfill").jobs = {Backfilled(j) : j \in d.rows.jobs}
        /\ Rewritten(d.rows, "recover").jobs = {Recovered(j) : j \in d.rows.jobs}
        BY <2>2, RewrittenFacts DEF Rewrites
  <2>4. /\ DatabaseInv(Executed(d, Rewrite("backfill")))
        /\ Executed(d, Rewrite("backfill")).sound => d.sound
        /\ DatabaseInv(Executed(d, Rewrite("recover")))
        /\ Executed(d, Rewrite("recover")).sound => d.sound
        BY <1>5, <1>7, StatementInv
  <2> QED BY <2>1, <2>3, <2>4
<1>8. \A d : DatabaseInv(d) => d.rows.jobs \in SUBSET Job
      BY DEF DatabaseInv, LegalRows
<1>9. /\ DatabaseInv(p1) /\ (p1.sound => db.sound) /\ NoNumbers(p1.rows.jobs)
      BY <1>3, <1>6 DEF NoNumbers
<1> HIDE DEF p1
<1>10. DatabaseInv(p2) /\ (p2.sound => p1.sound) /\ AllBackfilled(p2.rows.jobs)
       BY <1>7, <1>8, <1>9, BackfillFacts
<1> HIDE DEF p2
<1>11. DatabaseInv(p3) /\ (p3.sound => p2.sound) /\ AllBackfilled(p3.rows.jobs)
       BY <1>1, <1>6, <1>10 DEF AllBackfilled
<1> HIDE DEF p3
<1>12. DatabaseInv(p4) /\ (p4.sound => p3.sound) /\ AllBackfilled(p4.rows.jobs)
       BY <1>1, <1>6, <1>11 DEF AllBackfilled
<1> HIDE DEF p4
<1>13. DatabaseInv(p5) /\ (p5.sound => p4.sound) /\ AllBackfilled(p5.rows.jobs)
       BY <1>1, <1>6, <1>12 DEF AllBackfilled
<1> HIDE DEF p5
<1>14. DatabaseInv(p6) /\ (p6.sound => p5.sound) /\ AttemptsNumbered(p6.rows.jobs) /\ Budgeted(p6.rows.jobs)
  <2>1. /\ DatabaseInv(p6) /\ (p6.sound => p5.sound)
        /\ p6.rows.jobs = {Recovered(j) : j \in p5.rows.jobs}
        BY <1>7, <1>13
  <2>2. p5.rows.jobs \in SUBSET Job /\ AllBackfilled(p5.rows.jobs)
        BY <1>8, <1>13
  <2> HIDE DEF p6
  <2>3. /\ AttemptsNumbered({Recovered(j) : j \in p5.rows.jobs})
        /\ Budgeted({Recovered(j) : j \in p5.rows.jobs})
        BY <2>2, RecoverFacts
  <2> QED BY <2>1, <2>3, Zenon
<1> HIDE DEF p6
<1>15. DatabaseInv(p7) /\ (p7.sound => p6.sound) /\ AttemptsNumbered(p7.rows.jobs) /\ Budgeted(p7.rows.jobs)
       BY <1>1, <1>6, <1>14 DEF AttemptsNumbered, Budgeted
<1> HIDE DEF p7
<1>16. DatabaseInv(p8) /\ (p8.sound => p7.sound) /\ AttemptsNumbered(p8.rows.jobs) /\ Budgeted(p8.rows.jobs)
       BY <1>1, <1>6, <1>15 DEF AttemptsNumbered, Budgeted
<1> HIDE DEF p8
<1> QED BY <1>4, <1>9, <1>10, <1>11, <1>12, <1>13, <1>14, <1>15, <1>16

\* And back: no attempt is left.
LEMMA PlatformDown ==
    ASSUME NEW db, DatabaseInv(db)
    PROVE  /\ DatabaseInv(Performed(db, DownPlatform))
           /\ Performed(db, DownPlatform).sound => db.sound
           /\ NoNumbers(Performed(db, DownPlatform).rows.jobs)
<1>1. /\ Len(DownPlatform) = 18 /\ DownPlatform[8] = DropTable("job_attempts")
      /\ \A n \in 1..18 : Legal(DownPlatform[n]) /\ ~Recovers(DownPlatform[n])
      BY DEF DownPlatform, Legal, Kinds, Recovers, DropTable, DropColumns, DropKey, Admit
<1>2. /\ Len(DownPlatform) \in Nat
      /\ \A n \in 1..Len(DownPlatform) : Legal(DownPlatform[n]) /\ ~Recovers(DownPlatform[n])
      BY <1>1
<1>3. \E n \in 1..Len(DownPlatform) : Removes(DownPlatform[n])
      BY <1>1 DEF Removes, DropTable
<1>4. NoNumbers(Performed(db, DownPlatform).rows.jobs)
      BY <1>2, <1>3, PerformedForgets
<1> QED BY <1>2, <1>4, PerformedInv

-----------------------------------------------------------------------------
(* SchemaMigrations: the inductive invariant                                 *)

RevisionInv(r, db) ==
    /\ DatabaseInv(db)
    /\ r < PlatformAt => NoNumbers(db.rows.jobs)
    /\ r >= PlatformAt => AttemptsNumbered(db.rows.jobs)

MigrationsInv == revision \in 0..Newest /\ database.sound /\ RevisionInv(revision, database)

\* One revision up; the platform takes the jobs over within their budgets.
LEMMA RevisionUp ==
    ASSUME NEW r \in 1..26, NEW db, RevisionInv(r - 1, db), NEW taken \in BOOLEAN,
           taken /\ r > PlatformAt => Budgeted(db.rows.jobs)
    PROVE  /\ RevisionInv(r, Performed(db, Up[r]))
           /\ Performed(db, Up[r]).sound => db.sound
           /\ taken /\ r >= PlatformAt => Budgeted(Performed(db, Up[r]).rows.jobs)
<1>1. PlatformAt = 25
      BY Revisions
<1>2. CASE r = 25
  <2>1. DatabaseInv(db) /\ NoNumbers(db.rows.jobs) /\ Up[r] = UpPlatform
        BY <1>1, <1>2, Revisions DEF RevisionInv
  <2> QED BY <1>1, <1>2, <2>1, PlatformUp DEF RevisionInv
<1>3. CASE r # 25
  <2>1. Ordinary(Up[r]) /\ DatabaseInv(db)
        BY <1>3, Revisions DEF RevisionInv
  <2>2. /\ DatabaseInv(Performed(db, Up[r])) /\ (Performed(db, Up[r]).sound => db.sound)
        /\ Performed(db, Up[r]).rows.jobs \subseteq db.rows.jobs
        BY <2>1, PerformedInv DEF Ordinary, Scripted
  <2>3. /\ r < 25 => NoNumbers(db.rows.jobs)
        /\ r >= 25 => AttemptsNumbered(db.rows.jobs)
        /\ taken /\ r >= 25 => Budgeted(db.rows.jobs)
        BY <1>1, <1>3 DEF RevisionInv
  <2> QED BY <1>1, <2>2, <2>3 DEF RevisionInv, NoNumbers, AttemptsNumbered, Budgeted
<1> QED BY <1>2, <1>3

LEMMA RevisionDown ==
    ASSUME NEW r \in 1..26, NEW db, RevisionInv(r, db)
    PROVE  /\ RevisionInv(r - 1, Performed(db, Down[r]))
           /\ Performed(db, Down[r]).sound => db.sound
<1>1. PlatformAt = 25
      BY Revisions
<1>2. CASE r = 25
  <2>1. DatabaseInv(db) /\ Down[r] = DownPlatform
        BY <1>2, Revisions DEF RevisionInv
  <2> QED BY <1>1, <1>2, <2>1, PlatformDown DEF RevisionInv
<1>3. CASE r # 25
  <2>1. Ordinary(Down[r]) /\ DatabaseInv(db)
        BY <1>3, Revisions DEF RevisionInv
  <2>2. /\ DatabaseInv(Performed(db, Down[r])) /\ (Performed(db, Down[r]).sound => db.sound)
        /\ Performed(db, Down[r]).rows.jobs \subseteq db.rows.jobs
        BY <2>1, PerformedInv DEF Ordinary, Scripted
  <2>3. /\ r - 1 < 25 => NoNumbers(db.rows.jobs)
        /\ r - 1 >= 25 => AttemptsNumbered(db.rows.jobs)
        BY <1>1, <1>3 DEF RevisionInv
  <2> QED BY <1>1, <2>2, <2>3 DEF RevisionInv, NoNumbers, AttemptsNumbered
<1> QED BY <1>2, <1>3

LEMMA MigratedFunction ==
    \A db, s : Len(s) \in Nat =>
        \E f : /\ f[0] = db /\ Migrated(db, s) = f[Len(s)]
               /\ \A n \in 1..Len(s) : f[n] = Performed(f[n - 1], s[n])
<1> SUFFICES ASSUME NEW db, NEW s, Len(s) \in Nat
             PROVE  \E f : /\ f[0] = db /\ Migrated(db, s) = f[Len(s)]
                           /\ \A n \in 1..Len(s) : f[n] = Performed(f[n - 1], s[n])
    OBVIOUS
<1> DEFINE Step(f, m) == [n \in 0..m |-> IF n = 0 THEN db ELSE Performed(f[n - 1], s[n])]
           S == {m \in 0..Len(s) : \E f : f = Step(f, m)}
<1>1. 0 \in S
  <2> DEFINE f == [n \in 0..0 |-> db]
  <2>1. f = Step(f, 0)
        OBVIOUS
  <2>2. \E g : g = Step(g, 0)
        BY <2>1
  <2>3. 0 \in 0..Len(s)
        OBVIOUS
  <2> QED BY <2>2, <2>3
<1>2. ASSUME NEW k \in 0..Len(s), k \in S, k < Len(s) PROVE k + 1 \in S
  <2>1. PICK f : f = Step(f, k)
        BY <1>2
  <2> DEFINE g == [n \in 0..(k + 1) |-> IF n <= k THEN f[n] ELSE Performed(f[k], s[k + 1])]
  <2>2. g = Step(g, k + 1)
    <3>1. ASSUME NEW n \in 0..(k + 1)
          PROVE  g[n] = IF n = 0 THEN db ELSE Performed(g[n - 1], s[n])
      <4>1. CASE n <= k
            BY <2>1, <4>1
      <4>2. CASE n = k + 1
            BY <2>1, <4>2
      <4> QED BY <4>1, <4>2
    <3> QED BY <3>1
  <2>3. k + 1 \in 0..Len(s)
        BY <1>2
  <2> QED BY <2>2, <2>3
<1>3. Len(s) \in S
  <2>1. \A k \in 0..Len(s) : k \in S /\ k < Len(s) => k + 1 \in S
        BY <1>2
  <2> HIDE DEF S
  <2>2. \A k \in 0..Len(s) : k \in S
        BY <1>1, <2>1, UpTo
  <2> QED BY <2>2
<1>4. \E f : f = Step(f, Len(s))
      BY <1>3
<1> HIDE DEF S
<1> DEFINE after == CHOOSE f : f = Step(f, Len(s))
<1>5. after = Step(after, Len(s)) /\ Migrated(db, s) = after[Len(s)]
      BY <1>4, Zenon DEF Migrated
<1> HIDE DEF after
<1>6. after[0] = db /\ \A n \in 1..Len(s) : after[n] = Performed(after[n - 1], s[n])
      BY <1>5
<1> QED BY <1>5, <1>6

\* Any number of revisions up in one transaction.
LEMMA UpgradeFacts ==
    ASSUME NEW r \in 0..26, NEW target \in 0..26, r < target, NEW db, RevisionInv(r, db)
    PROVE  /\ RevisionInv(target, Migrated(db, SubSeq(Up, r + 1, target)))
           /\ r < PlatformAt /\ target >= PlatformAt =>
                  Budgeted(Migrated(db, SubSeq(Up, r + 1, target)).rows.jobs)
<1> DEFINE s == SubSeq(Up, r + 1, target)
           m == target - r
           taken == r < PlatformAt
<1>1. m \in Nat /\ Len(s) = m /\ \A n \in 1..m : s[n] = Up[r + n]
  <2>1. r + 1 \in Int /\ target \in Int /\ r + 1 <= target
        OBVIOUS
  <2> DEFINE X == {Up[n] : n \in r + 1..target}
  <2>2. \A n \in r + 1..target : Up[n] \in X
        OBVIOUS
  <2> HIDE DEF X
  <2>3. /\ Len(s) = IF r + 1 <= target THEN target - (r + 1) + 1 ELSE 0
        /\ \A i \in 1..target - (r + 1) + 1 : s[i] = Up[(r + 1) + i - 1]
        BY <2>1, <2>2, SubSeqProperties
  <2>4. /\ m \in Nat /\ target - (r + 1) + 1 = m
        /\ \A n \in 1..m : (r + 1) + n - 1 = r + n
        BY <2>1
  <2> HIDE DEF s, m
  <2> QED BY <2>1, <2>3, <2>4
<1> HIDE DEF s
<1>2. PICK f : /\ f[0] = db /\ Migrated(db, s) = f[m]
               /\ \A n \in 1..m : f[n] = Performed(f[n - 1], s[n])
  <2>1. Len(s) \in Nat
        BY <1>1
  <2>2. \E f : /\ f[0] = db /\ Migrated(db, s) = f[Len(s)]
               /\ \A n \in 1..Len(s) : f[n] = Performed(f[n - 1], s[n])
        BY <2>1, MigratedFunction, SMTT(30)
  <2> QED BY <1>1, <2>2
<1> DEFINE Good(k, d) == /\ RevisionInv(r + k, d)
                         /\ taken /\ r + k >= PlatformAt => Budgeted(d.rows.jobs)
           S == {k \in 0..m : Good(k, f[k])}
<1>3. PlatformAt = 25 /\ taken \in BOOLEAN
      BY Revisions
<1>4. 0 \in S
      BY <1>1, <1>2, <1>3
<1>5. ASSUME NEW k \in 0..m, k \in S, k < m PROVE k + 1 \in S
  <2>1. /\ k + 1 \in 1..m /\ k + 1 \in 0..m /\ (k + 1) - 1 = k
        /\ r + (k + 1) \in 1..26 /\ (r + (k + 1)) - 1 = r + k
        BY <1>1, <1>5
  <2>2. f[k + 1] = Performed(f[k], Up[r + (k + 1)])
        BY <1>1, <1>2, <2>1
  <2>3. RevisionInv(r + k, f[k]) /\ (taken /\ r + k >= PlatformAt => Budgeted(f[k].rows.jobs))
        BY <1>5
  <2>4. taken /\ r + (k + 1) > PlatformAt => Budgeted(f[k].rows.jobs)
        BY <1>3, <2>1, <2>3
  <2> HIDE DEF taken
  <2>5. Good(k + 1, Performed(f[k], Up[r + (k + 1)]))
        BY <1>3, <2>1, <2>3, <2>4, RevisionUp
  <2> HIDE DEF Good
  <2> QED BY <2>1, <2>2, <2>5
<1>6. \A k \in 0..m : k \in S /\ k < m => k + 1 \in S
      BY <1>5
<1>7. m \in S
  <2> HIDE DEF S
  <2>1. \A k \in 0..m : k \in S
        BY <1>1, <1>4, <1>6, UpTo
  <2> QED BY <1>1, <2>1
<1>8. Good(m, f[m]) /\ r + m = target
      BY <1>7
<1> QED BY <1>2, <1>8 DEF s

\* Any number of revisions down.
LEMMA DowngradeFacts ==
    ASSUME NEW r \in 0..26, NEW target \in 0..26, target < r, NEW db, RevisionInv(r, db)
    PROVE  RevisionInv(target, Migrated(db, [n \in 1..r - target |-> Down[r + 1 - n]]))
<1> DEFINE m == r - target
           s == [n \in 1..r - target |-> Down[r + 1 - n]]
<1>1. m \in Nat /\ Len(s) = m /\ \A n \in 1..m : s[n] = Down[r + 1 - n]
      OBVIOUS
<1> HIDE DEF s
<1>2. PICK f : /\ f[0] = db /\ Migrated(db, s) = f[m]
               /\ \A n \in 1..m : f[n] = Performed(f[n - 1], s[n])
  <2>1. Len(s) \in Nat
        BY <1>1
  <2>2. \E f : /\ f[0] = db /\ Migrated(db, s) = f[Len(s)]
               /\ \A n \in 1..Len(s) : f[n] = Performed(f[n - 1], s[n])
        BY <2>1, MigratedFunction, SMTT(30)
  <2> QED BY <1>1, <2>2
<1> DEFINE S == {k \in 0..m : RevisionInv(r - k, f[k])}
<1>3. 0 \in S
  <2>1. 0 \in 0..m /\ r - 0 = r
        OBVIOUS
  <2> QED BY <1>2, <2>1
<1>4. ASSUME NEW k \in 0..m, k \in S, k < m PROVE k + 1 \in S
  <2>1. /\ k + 1 \in 1..m /\ k + 1 \in 0..m /\ (k + 1) - 1 = k
        /\ r - k \in 1..26 /\ r + 1 - (k + 1) = r - k /\ r - (k + 1) = (r - k) - 1
    <3>1. k \in Nat /\ k < r - target /\ k + 1 \in 0..r - target
          BY <1>4
    <3>2. r - k \in 1..26 /\ r + 1 - (k + 1) = r - k /\ r - (k + 1) = (r - k) - 1
          BY <3>1
    <3> QED BY <3>1, <3>2
  <2>2. f[k + 1] = Performed(f[k], Down[r - k])
        BY <1>1, <1>2, <2>1
  <2>3. RevisionInv((r - k) - 1, Performed(f[k], Down[r - k]))
        BY <1>4, <2>1, RevisionDown
  <2> QED BY <2>1, <2>2, <2>3
<1>5. \A k \in 0..m : k \in S /\ k < m => k + 1 \in S
      BY <1>4
<1>6. m \in S
  <2> HIDE DEF S
  <2>1. \A k \in 0..m : k \in S
        BY <1>1, <1>3, <1>5, UpTo
  <2> QED BY <1>1, <2>1
<1>7. RevisionInv(target, f[m])
  <2>1. r - m = target
        OBVIOUS
  <2> QED BY <1>6, <2>1
<1> QED BY <1>2, <1>7 DEF s

LEMMA MigrationsInitInv == MigrationsInit => MigrationsInv
<1> SUFFICES ASSUME MigrationsInit PROVE MigrationsInv
    OBVIOUS
<1>1. revision = 0 /\ database = EmptyDatabase
      BY DEF MigrationsInit
<1>2. IsDatabase(EmptyDatabase) /\ EmptyDatabase.sound
      BY DEF IsDatabase, EmptyDatabase
<1>3. EmptyDatabase.rows \in LegalRows /\ EmptyDatabase.rows.jobs = {} /\ EmptyDatabase.keys = {}
      BY DEF EmptyDatabase, NoRows, LegalRows
<1>4. Newest = 26 /\ PlatformAt = 25
      BY Revisions
<1> QED BY <1>1, <1>2, <1>3, <1>4 DEF MigrationsInv, RevisionInv, DatabaseInv, NoNumbers

\* Rows that a program writes.
LEMMA WritesInv ==
    ASSUME MigrationsInv, NEW table, NEW rows \in LegalRows, Writes(table, rows),
           revision < PlatformAt => NoNumbers(rows.jobs),
           revision >= PlatformAt => AttemptsNumbered(rows.jobs)
    PROVE  MigrationsInv' /\ UNCHANGED revision
<1>1. database = [tables |-> database.tables, columns |-> database.columns,
                  keys |-> database.keys, admits |-> database.admits,
                  rows |-> database.rows, sound |-> database.sound]
      BY DEF MigrationsInv, RevisionInv, DatabaseInv, IsDatabase
<1>2. database' = [database EXCEPT !.rows = rows] /\ UNCHANGED revision
      BY DEF Writes
<1>3. database' = [tables |-> database.tables, columns |-> database.columns,
                   keys |-> database.keys, admits |-> database.admits,
                   rows |-> rows, sound |-> database.sound]
      BY <1>1, <1>2
<1>4. IsDatabase(database')
      BY <1>3 DEF IsDatabase
<1>5. \A k \in database.keys : IsKey(k) /\ k.table \in database.tables /\ k.to \in database.tables
      BY DEF MigrationsInv, RevisionInv, DatabaseInv
<1>6. DatabaseInv(database')
      BY <1>3, <1>4, <1>5 DEF DatabaseInv
<1>7. revision \in 0..Newest /\ database.sound
      BY DEF MigrationsInv
<1> QED BY <1>2, <1>3, <1>6, <1>7 DEF MigrationsInv, RevisionInv

LEMMA WrittenJobs ==
    ASSUME MigrationsInv, WriteLegacyJob \/ WritePlatformJob
    PROVE  MigrationsInv' /\ UNCHANGED revision
<1>1. RetryCap \in Nat /\ LastTry \in Nat \ {0}
      BY MigrationsAssumption
<1>2. NoRows \in LegalRows
      BY DEF NoRows, LegalRows
<1>3. \A j \in Job : /\ [NoRows EXCEPT !.jobs = {j}] \in LegalRows
                     /\ [NoRows EXCEPT !.jobs = {j}].jobs = {j}
      BY <1>2 DEF LegalRows
<1>4. revision \in Nat /\ PlatformAt = 25
  <2>1. Newest = 26 /\ PlatformAt = 25
        BY Revisions
  <2> QED BY <2>1 DEF MigrationsInv
<1>5. CASE WriteLegacyJob
  <2>1. PICK status \in LegacyStatuses, attempts \in 0..LastTry, max \in 1..LastTry + 1,
             priority \in {"ordinary", "extreme"} :
             Writes("jobs", [NoRows EXCEPT !.jobs = {LegacyJob(status, attempts, max, priority)}])
        BY <1>5 DEF WriteLegacyJob
  <2> DEFINE j == LegacyJob(status, attempts, max, priority)
  <2>2. j \in Job /\ j.numbers = {}
    <3>1. max \in 1..Greatest(LastTry, RetryCap) + 1
          BY <1>1 DEF Greatest
    <3>2. 0 \in 0..LastTry /\ 0 \in 0..RetryCap /\ status \in JobStatuses
          BY <1>1 DEF JobStatuses
    <3> QED BY <3>1, <3>2 DEF LegacyJob, Job
  <2>3. revision < PlatformAt
        BY <1>5 DEF WriteLegacyJob
  <2> HIDE DEF j
  <2>4. NoNumbers({j})
        BY <2>2 DEF NoNumbers
  <2> DEFINE rows == [NoRows EXCEPT !.jobs = {j}]
  <2>5. Writes("jobs", rows)
        BY <2>1 DEF j
  <2>6. rows \in LegalRows /\ NoNumbers(rows.jobs) /\ ~(revision >= PlatformAt)
        BY <1>3, <1>4, <2>2, <2>3, <2>4
  <2> HIDE DEF rows
  <2> QED BY <2>5, <2>6, WritesInv
<1>6. CASE WritePlatformJob
  <2>1. PICK status \in JobStatuses, count \in 0..LastTry, limit \in 0..RetryCap,
             scope \in {"workspace", "system"} :
             \E retries \in 0..Least(count, limit) :
                /\ status = "running" => count > 0
                /\ Writes("jobs", [NoRows EXCEPT !.jobs = {PlatformJob(status, count, retries, limit, scope)}])
        BY <1>6 DEF WritePlatformJob
  <2>2. PICK retries \in 0..Least(count, limit) :
                /\ status = "running" => count > 0
                /\ Writes("jobs", [NoRows EXCEPT !.jobs = {PlatformJob(status, count, retries, limit, scope)}])
        BY <2>1
  <2> DEFINE j == PlatformJob(status, count, retries, limit, scope)
  <2>3. j \in Job /\ j.numbers = 1..count /\ j.count = count /\ j.status = status
    <3>1. limit + 1 \in 1..Greatest(LastTry, RetryCap) + 1
          BY <1>1 DEF Greatest
    <3>2. retries \in 0..LastTry /\ 1..count \in SUBSET (1..LastTry)
          BY <1>1 DEF Least
    <3> QED BY <3>1, <3>2 DEF PlatformJob, Job
  <2>4. revision >= PlatformAt
        BY <1>6 DEF WritePlatformJob
  <2> HIDE DEF j
  <2>5. AttemptsNumbered({j})
        BY <1>1, <2>2, <2>3 DEF AttemptsNumbered
  <2> DEFINE rows == [NoRows EXCEPT !.jobs = {j}]
  <2>6. Writes("jobs", rows)
        BY <2>2 DEF j
  <2>7. rows \in LegalRows /\ AttemptsNumbered(rows.jobs) /\ ~(revision < PlatformAt)
        BY <1>3, <1>4, <2>3, <2>4, <2>5
  <2> HIDE DEF rows
  <2> QED BY <2>6, <2>7, WritesInv
<1> QED BY <1>5, <1>6

LEMMA WrittenOthers ==
    ASSUME MigrationsInv, WriteOther \/ WriteUsers
    PROVE  MigrationsInv' /\ UNCHANGED revision
<1>1. ASSUME NEW table, NEW rows \in LegalRows, rows.jobs = {}, Writes(table, rows)
      PROVE  MigrationsInv' /\ UNCHANGED revision
      BY <1>1, WritesInv DEF NoNumbers, AttemptsNumbered
<1>2. /\ \A e \in PlatformEvents : /\ [NoRows EXCEPT !.event = {e}] \in LegalRows
                                   /\ [NoRows EXCEPT !.event = {e}].jobs = {}
      /\ \A s \in {"running", "succeeded", "failed", "canceled"} :
             /\ [NoRows EXCEPT !.session = {s}] \in LegalRows
             /\ [NoRows EXCEPT !.session = {s}].jobs = {}
      /\ \A s \in Slots : /\ [NoRows EXCEPT !.slot = {s}] \in LegalRows
                          /\ [NoRows EXCEPT !.slot = {s}].jobs = {}
      /\ \A p \in {"chunk", "null"} : /\ [NoRows EXCEPT !.passage = {p}] \in LegalRows
                                      /\ [NoRows EXCEPT !.passage = {p}].jobs = {}
      BY DEF NoRows, LegalRows
<1>3. CASE WriteOther
      BY <1>1, <1>2, <1>3 DEF WriteOther
<1>4. CASE WriteUsers
  <2>1. PICK one \in Logins, other \in Logins :
             Writes("users", [NoRows EXCEPT !.login =
                                 IF revision = HumanAuthAt THEN {<<1, one>>} ELSE {<<1, one>>, <<2, other>>}])
        BY <1>4 DEF WriteUsers
  <2> DEFINE logins == IF revision = HumanAuthAt THEN {<<1, one>>} ELSE {<<1, one>>, <<2, other>>}
  <2>2. logins \in SUBSET ((1..2) \X Logins)
        OBVIOUS
  <2> HIDE DEF logins
  <2>3. [NoRows EXCEPT !.login = logins] \in LegalRows /\ [NoRows EXCEPT !.login = logins].jobs = {}
        BY <2>2 DEF NoRows, LegalRows
  <2>4. Writes("users", [NoRows EXCEPT !.login = logins])
        BY <2>1 DEF logins
  <2> QED BY <1>1, <2>3, <2>4
<1> QED BY <1>3, <1>4

\* What a command does, with the jobs it takes over to the platform.
LEMMA CommandsInv ==
    ASSUME MigrationsInv, NEW target,
           \/ target \in {revision + 1, Newest} \cap 1..Newest /\ UpgradeTo(target)
           \/ target \in {revision - 1, 0} \cap 0..Newest /\ DowngradeTo(target)
    PROVE  /\ MigrationsInv'
           /\ revision < PlatformAt /\ revision' >= PlatformAt => Budgeted(database'.rows.jobs)
<1>1. Newest = 26 /\ PlatformAt = 25
      BY Revisions
<1>2. revision \in 0..26 /\ target \in 0..26 /\ RevisionInv(revision, database)
      BY <1>1 DEF MigrationsInv
<1>3. CASE target \in {revision + 1, Newest} \cap 1..Newest /\ UpgradeTo(target)
  <2>1. /\ revision < target /\ database'.sound /\ revision' = target
        /\ database' = Migrated(database, SubSeq(Up, revision + 1, target))
        BY <1>2, <1>3 DEF UpgradeTo
  <2>2. /\ RevisionInv(target, database')
        /\ revision < PlatformAt /\ target >= PlatformAt => Budgeted(database'.rows.jobs)
        BY <1>2, <2>1, UpgradeFacts
  <2> QED BY <1>1, <1>2, <2>1, <2>2 DEF MigrationsInv
<1>4. CASE target \in {revision - 1, 0} \cap 0..Newest /\ DowngradeTo(target)
  <2>1. /\ target < revision /\ database'.sound /\ revision' = target
        /\ database' = Migrated(database, [n \in 1..revision - target |-> Down[revision + 1 - n]])
        BY <1>4 DEF DowngradeTo
  <2>2. RevisionInv(target, database')
        BY <1>2, <2>1, DowngradeFacts
  <2> QED BY <1>1, <1>2, <2>1, <2>2 DEF MigrationsInv
<1> QED BY <1>3, <1>4

LEMMA MigrationsStepInv ==
    ASSUME MigrationsInv, [MigrationsNext]_migrationVars
    PROVE  /\ MigrationsInv'
           /\ revision < PlatformAt /\ revision' >= PlatformAt => Budgeted(database'.rows.jobs)
<1>1. CASE UNCHANGED migrationVars
  <2>1. UNCHANGED <<revision, database>>
        BY <1>1 DEF migrationVars
  <2>2. MigrationsInv'
        BY <2>1 DEF MigrationsInv
  <2>3. revision \in Nat /\ PlatformAt = 25
    <3>1. Newest = 26 /\ PlatformAt = 25
          BY Revisions
    <3> QED BY <3>1 DEF MigrationsInv
  <2> QED BY <2>1, <2>2, <2>3
<1>2. CASE \/ \E target \in {revision + 1, Newest} \cap 1..Newest : UpgradeTo(target)
           \/ \E target \in {revision - 1, 0} \cap 0..Newest : DowngradeTo(target)
      BY <1>2, CommandsInv
<1>3. CASE WriteLegacyJob \/ WritePlatformJob \/ WriteOther \/ WriteUsers
  <2>1. MigrationsInv' /\ UNCHANGED revision
        BY <1>3, WrittenJobs, WrittenOthers
  <2>2. revision \in Nat /\ PlatformAt = 25
    <3>1. Newest = 26 /\ PlatformAt = 25
          BY Revisions
    <3> QED BY <3>1 DEF MigrationsInv
  <2> QED BY <2>1, <2>2
<1> QED BY <1>1, <1>2, <1>3 DEF MigrationsNext

LEMMA MigrationsTyped == MigrationsInv => MigrationsTypeOK
<1> SUFFICES ASSUME MigrationsInv PROVE MigrationsTypeOK
    OBVIOUS
<1>1. /\ revision \in 0..Newest /\ database.rows \in LegalRows
      /\ \A k \in database.keys : k.table \in database.tables /\ k.to \in database.tables
      BY DEF MigrationsInv, RevisionInv, DatabaseInv
<1>2. /\ database.rows.jobs \subseteq Job /\ database.rows.event \subseteq PlatformEvents
      /\ database.rows.slot \subseteq Slots /\ database.rows.login \subseteq (1..2) \X Logins
      BY <1>1 DEF LegalRows
<1> QED BY <1>1, <1>2 DEF MigrationsTypeOK

\* By whatever way up and down, and with whatever rows the programs of the
\* revisions in between have written, a row stays one that its table can hold,
\* and no key refers to a table that is gone.
THEOREM MigrationsTypeCorrect == MigrationsSpec => []MigrationsTypeOK
BY MigrationsTyped, MigrationsInitInv, MigrationsStepInv, PTL DEF MigrationsSpec

\* A job that the platform takes over, from whatever revision and in whatever
\* status, goes on where it was: the number of its next attempt is free, and it
\* has the attempts left that it had before.
THEOREM JobsGoOnAfterMigration == MigrationsSpec => []NextNumberIsFree /\ BudgetSurvives
<1>1. MigrationsInv => NextNumberIsFree
      BY DEF MigrationsInv, RevisionInv, NextNumberIsFree, AttemptsNumbered
<1>2. MigrationsInv /\ [MigrationsNext]_migrationVars =>
          [revision < PlatformAt /\ revision' >= PlatformAt =>
             \A j \in database'.rows.jobs :
                j.status = "queued" /\ j.attempts < j.max /\ j.max <= RetryCap + 1
                   => j.limit - j.retries + 1 = j.max - j.attempts]_migrationVars
      BY MigrationsStepInv DEF Budgeted
<1> QED BY <1>1, <1>2, MigrationsInitInv, MigrationsStepInv, PTL DEF MigrationsSpec, BudgetSurvives

-----------------------------------------------------------------------------
(* The ten parts together                                                    *)

ServicesInv ==
    /\ AccountsInv /\ SessionsInv /\ RequestsInv /\ ListingInv /\ TaskInv
    /\ TurnInv /\ RunInv /\ ReviewsInv /\ SettingsInv /\ MigrationsInv

\* Whichever part a behaviour is of, every part keeps its type: none of them needs
\* the others to stand still for it.
THEOREM ServicesTypeCorrect == ServicesSpec => []ServicesTypeOK
<1>1. ServicesInit => ServicesInv
  <2> SUFFICES ASSUME ServicesInit PROVE ServicesInv
      OBVIOUS
  <2>1. /\ AccountsInit /\ SessionsInit /\ RequestsInit /\ ListingInit /\ TaskInit
        /\ ChatTurnInit /\ RunInit /\ ReviewsInit /\ SettingsInit /\ MigrationsInit
        BY Zenon DEF ServicesInit
  <2>2. AccountsInv /\ SessionsInv /\ RequestsInv /\ ListingInv /\ TaskInv
        BY <2>1, AccountsInitInv, SessionsInitInv, RequestsInitInv, ListingInitInv, TaskInitInv
  <2>3. TurnInv /\ RunInv /\ ReviewsInv /\ SettingsInv /\ MigrationsInv
        BY <2>1, TurnInitInv, RunInitInv, ReviewsInitInv, SettingsInitially, MigrationsInitInv
  <2> QED BY <2>2, <2>3 DEF ServicesInv
<1>2. ServicesInv /\ [ServicesNext]_servicesVars => ServicesInv'
  <2> SUFFICES ASSUME ServicesInv, [ServicesNext]_servicesVars PROVE ServicesInv'
      OBVIOUS
  <2>1. /\ [AccountsNext]_accountsVars /\ [SessionsNext]_sessionVars
        /\ [RequestsNext]_requestVars /\ [ListingNext]_listingVars /\ [TaskNext]_taskVars
        BY Zenon DEF ServicesNext, Others, servicesVars
  <2>2. /\ [ChatTurnNext]_chatTurnVars /\ [RunNext]_runVars /\ [ReviewsNext]_reviewVars
        /\ [SettingsNext]_settingsVars /\ [MigrationsNext]_migrationVars
        BY Zenon DEF ServicesNext, Others, servicesVars
  <2>3. /\ AccountsInv /\ SessionsInv /\ RequestsInv /\ ListingInv /\ TaskInv
        /\ TurnInv /\ RunInv /\ ReviewsInv /\ SettingsInv /\ MigrationsInv
        BY DEF ServicesInv
  <2>4. AccountsInv' /\ SessionsInv' /\ RequestsInv' /\ ListingInv' /\ TaskInv'
        BY <2>1, <2>3, AccountsStepInv, SessionsStepInv, RequestsStepInv, ListingStepInv,
           TaskStepInv
  <2>5. TurnInv' /\ RunInv' /\ ReviewsInv' /\ SettingsInv' /\ MigrationsInv'
        BY <2>2, <2>3, TurnStepInv, RunStepInv, ReviewsStepInv, SettingsInductive,
           MigrationsStepInv
  <2> QED BY <2>4, <2>5 DEF ServicesInv
<1>3. ServicesInv => ServicesTypeOK
  <2> SUFFICES ASSUME ServicesInv PROVE ServicesTypeOK
      OBVIOUS
  <2>1. AccountsTypeOK /\ SessionsTypeOK /\ RequestsTypeOK /\ ListingTypeOK /\ TaskTypeOK
        BY DEF ServicesInv, AccountsInv, SessionsInv, RequestsInv, ListingInv, TaskInv
  <2>2. ChatTurnTypeOK /\ RunTypeOK /\ ReviewsTypeOK /\ SettingsTypeOK
        BY DEF ServicesInv, TurnInv, RunInv, ReviewsInv, SettingsInv
  <2>3. MigrationsTypeOK
        BY MigrationsTyped DEF ServicesInv
  <2> QED BY <2>1, <2>2, <2>3 DEF ServicesTypeOK
<1> QED BY <1>1, <1>2, <1>3, PTL DEF ServicesSpec

=============================================================================
