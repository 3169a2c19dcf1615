-------------------------- MODULE Processes_proofs --------------------------
(* Proofs about the processes beside the API: WorkerProcess, for any number   *)
(* of slots and batches, JobScheduler, for any schedules, replicas and        *)
(* expressions, CronOccurrences, for any zones, expressions and bounds, and   *)
(* then the three together.                                                   *)
EXTENDS MCProcesses, FiniteSetTheorems, WellFoundedInduction, TLAPS

-----------------------------------------------------------------------------
(* The inductive invariant of a worker process                               *)

RowBusy(row) ==
    row.phase \in {"claiming", "handling", "finalizing"} \/ row.thread # "none"

\* The database work of a slot is that of its phase, and a claim that stays open
\* when the slot is done was reported.
Whole(row) ==
    /\ row.io = "claim" <=> row.phase = "claiming"
    /\ row.io = "final" <=> row.phase = "finalizing"
    /\ row.open => row.phase \in {"handling", "finalizing", "done"}
    /\ row.open /\ row.phase = "done" => row.report \in {"fenced", "worker_error"}

\* A run holds a lease for as long as it is busy, only the runs of the last batch
\* go on, and only while the main loop waits for them; unless a batch was timed
\* out, each is whole.
RunInv(r) ==
    /\ run[r].lease <=> RowBusy(run[r])
    /\ run[r].phase \in {"none", "starting"} => run[r].thread = "none"
    /\ r[1] > batch => run[r].phase = "none"
    /\ r[1] # batch \/ main \notin {"batch", "marking", "draining"} =>
           run[r].phase \in {"none", "done"}
    /\ ~timedOut => Whole(run[r])

Held == {r \in Runs : run[r].lease}

LeasesCounted == free \in Nat /\ free + Cardinality(Held) = Concurrency

ProcessOK ==
    /\ main \in MainState
    /\ batch \in 0..MaxBatches
    /\ stop \in BOOLEAN /\ timedOut \in BOOLEAN /\ beating \in BOOLEAN
    /\ presence \in [exists : BOOLEAN, draining : BOOLEAN, shutdown : BOOLEAN]

WorkerInv ==
    /\ ProcessOK
    /\ run \in [Runs -> SlotRun]
    /\ \A r \in Runs : RunInv(r)
    /\ LeasesCounted

-----------------------------------------------------------------------------
(* Counting leases                                                           *)

LEMMA RunsFinite == IsFiniteSet(Runs) /\ Concurrency \in Nat
<1>1. IsFiniteSet(1..MaxBatches) /\ IsFiniteSet(Slots)
      BY MaxBatchesAssumption, SlotsAssumption, FS_Interval
<1> QED BY <1>1, FS_Product, FS_CardinalityType DEF Runs, Concurrency

LEMMA HeldFinite ==
    /\ IsFiniteSet(Held) /\ Cardinality(Held) \in Nat
    /\ IsFiniteSet(Held') /\ Cardinality(Held') \in Nat
<1>1. Held \in SUBSET Runs /\ Held' \in SUBSET Runs
      BY DEF Held
<1> QED BY <1>1, RunsFinite, FS_Subset, FS_CardinalityType

\* A replaced run, once its lease is given up if it is over.
Settled(row) == IF LeaseOver(row) THEN [row EXCEPT !.lease = FALSE] ELSE row

LEMMA SettledFacts ==
    ASSUME NEW row \in SlotRun
    PROVE  /\ Settled(row) \in SlotRun
           /\ Settled(row).phase = row.phase /\ Settled(row).thread = row.thread
           /\ Settled(row).io = row.io /\ Settled(row).open = row.open
           /\ Settled(row).report = row.report
           /\ Settled(row).lease = (row.lease /\ ~LeaseOver(row))
<1> DEFINE freed == [row EXCEPT !.lease = FALSE]
<1>1. /\ freed \in SlotRun /\ freed.phase = row.phase /\ freed.thread = row.thread
      /\ freed.io = row.io /\ freed.open = row.open /\ freed.report = row.report
      /\ freed.lease = FALSE /\ row.lease \in BOOLEAN
      BY DEF SlotRun
<1>2. Settled(row) = IF LeaseOver(row) THEN freed ELSE row
      BY DEF Settled
<1> HIDE DEF freed
<1> QED BY <1>1, <1>2

\* Whatever runs are replaced, what is given up goes back to the semaphore.
LEMMA UpdatedFacts ==
    ASSUME WorkerInv, NEW rows, DOMAIN rows \in SUBSET Runs, Updated(rows),
           \A r \in DOMAIN rows : rows[r] \in SlotRun /\ rows[r].lease = run[r].lease
    PROVE  /\ run' \in [Runs -> SlotRun]
           /\ \A r \in Runs : run'[r] = IF r \in DOMAIN rows THEN Settled(rows[r]) ELSE run[r]
           /\ LeasesCounted'
<1> DEFINE over == {r \in DOMAIN rows : LeaseOver(rows[r])}
<1>1. /\ run' = [r \in Runs |-> IF r \in over THEN [rows[r] EXCEPT !.lease = FALSE]
                              ELSE IF r \in DOMAIN rows THEN rows[r] ELSE run[r]]
      /\ free' = free + Cardinality(over)
      BY DEF Updated
<1>2. \A r \in Runs : run'[r] = IF r \in DOMAIN rows THEN Settled(rows[r]) ELSE run[r]
      BY <1>1 DEF Settled
<1>3. ASSUME NEW r \in Runs PROVE run'[r] \in SlotRun
      BY <1>2, SettledFacts DEF WorkerInv
<1>4. run' \in [Runs -> SlotRun]
      BY <1>1, <1>3
<1>5. over \in SUBSET Held
      BY DEF LeaseOver, Held
<1>6. ASSUME NEW r \in Runs PROVE run'[r].lease <=> run[r].lease /\ r \notin over
      BY <1>2, SettledFacts DEF WorkerInv, SlotRun
<1>7. Held' = Held \ over
      BY <1>6 DEF Held
<1>8. IsFiniteSet(over) /\ Cardinality(over) \in Nat
      BY <1>5, HeldFinite, FS_Subset, FS_CardinalityType
<1>9. Cardinality(Held') = Cardinality(Held) - Cardinality(over)
  <2> HIDE DEF over
  <2>1. Held \cap over = over
        BY <1>5
  <2>2. Cardinality(Held \ over) = Cardinality(Held) - Cardinality(Held \cap over)
        BY HeldFinite, FS_Difference
  <2> QED BY <1>7, <2>1, <2>2
<1>10. LeasesCounted'
  <2>1. free' \in Nat
        BY <1>1, <1>8 DEF WorkerInv, LeasesCounted
  <2>2. free' + Cardinality(Held') = Concurrency
        BY <1>1, <1>8, <1>9, HeldFinite DEF WorkerInv, LeasesCounted
  <2> QED BY <2>1, <2>2, RunsFinite DEF LeasesCounted, Concurrency
<1> QED BY <1>2, <1>4, <1>10

-----------------------------------------------------------------------------
(* The slots                                                                 *)

LEMMA RunFacts ==
    ASSUME WorkerInv, NEW r \in Runs
    PROVE  run[r] \in SlotRun /\ RunInv(r)
BY DEF WorkerInv

\* A slot goes on: the new row is busy under a lease, and it moved in a slot that
\* was neither over nor to come.
LEMMA SetInv ==
    ASSUME WorkerInv, NEW r \in Runs, NEW row \in SlotRun, Set(r, row), UNCHANGED rest,
           row.lease = run[r].lease,
           RowBusy(row) => row.lease,
           row.lease => RowBusy(row) \/ row.phase = "done",
           row.phase \in {"none", "starting"} => row.thread = "none",
           row.phase = run[r].phase \/ run[r].phase \notin {"none", "done"},
           ~timedOut => Whole(row)
    PROVE  WorkerInv'
<1> DEFINE rows == [x \in {r} |-> row]
<1>1. DOMAIN rows = {r} /\ rows[r] = row /\ Updated(rows)
      BY DEF Set
<1> HIDE DEF rows
<1>2. DOMAIN rows \in SUBSET Runs
      /\ \A x \in DOMAIN rows : rows[x] \in SlotRun /\ rows[x].lease = run[x].lease
      BY <1>1
<1>3. /\ run' \in [Runs -> SlotRun] /\ LeasesCounted'
      /\ \A x \in Runs : run'[x] = IF x \in DOMAIN rows THEN Settled(rows[x]) ELSE run[x]
      BY <1>1, <1>2, UpdatedFacts
<1>4. \A x \in Runs : run'[x] = IF x = r THEN Settled(row) ELSE run[x]
      BY <1>1, <1>3
<1>5. /\ UNCHANGED <<main, batch, stop, timedOut, presence, beating>> /\ ProcessOK'
      BY DEF rest, WorkerInv, ProcessOK
<1>6. ASSUME NEW x \in Runs PROVE RunInv(x)'
  <2>1. CASE x # r
        BY <1>4, <1>5, <2>1, RunFacts DEF RunInv, RowBusy, Whole
  <2>2. CASE x = r
    <3> DEFINE new == Settled(row)
    <3>1. /\ run'[x] = new /\ new.phase = row.phase /\ new.thread = row.thread
          /\ new.io = row.io /\ new.open = row.open /\ new.report = row.report
          /\ new.lease = (row.lease /\ ~LeaseOver(row))
          BY <1>4, <2>2, SettledFacts
    <3> HIDE DEF new
    <3>2. new.lease <=> RowBusy(new)
          BY <3>1 DEF LeaseOver, RowBusy
    <3>3. ~timedOut => Whole(new)
          BY <3>1 DEF Whole
    <3>4. /\ r[1] > batch => run[r].phase = "none"
          /\ r[1] # batch \/ main \notin {"batch", "marking", "draining"} =>
                 run[r].phase \in {"none", "done"}
          BY RunFacts DEF RunInv
    <3> QED BY <1>5, <2>2, <3>1, <3>2, <3>3, <3>4 DEF RunInv, RowBusy, Whole
  <2> QED BY <2>1, <2>2
<1> QED BY <1>3, <1>5, <1>6 DEF WorkerInv

LEMMA AcquireInv ==
    ASSUME WorkerInv, NEW r \in Runs, Acquire(r)
    PROVE  WorkerInv'
<1> DEFINE idle == Ended(run[r], "idle")
           taken == [run[r] EXCEPT !.phase = "claiming", !.io = "claim", !.lease = TRUE]
<1>1. /\ run[r] \in SlotRun /\ run[r].phase = "starting" /\ run[r].thread = "none"
      /\ run[r].lease = FALSE /\ (~timedOut => Whole(run[r]))
      /\ r[1] = batch /\ main \in {"batch", "marking", "draining"}
  <2>1. run[r] \in SlotRun /\ RunInv(r) /\ run[r].phase = "starting"
        BY RunFacts DEF Acquire
  <2>2. r[1] > batch \/ r[1] # batch => run[r].phase \in {"none", "done"}
        BY <2>1 DEF RunInv
  <2> QED BY <2>1, <2>2 DEF RunInv, RowBusy, SlotRun
<1>2. /\ UNCHANGED <<main, batch, stop, timedOut, presence, beating>> /\ ProcessOK'
      BY DEF Acquire, rest, WorkerInv, ProcessOK
<1>3. CASE free = 0
  <2>1. free' = free /\ run' = [run EXCEPT ![r] = idle]
        BY <1>3 DEF Acquire
  <2>2. /\ idle \in SlotRun /\ idle.phase = "done" /\ idle.thread = "none"
        /\ idle.lease = FALSE /\ idle.io = run[r].io /\ idle.open = run[r].open
        BY <1>1 DEF Ended, SlotRun
  <2> HIDE DEF idle
  <2>3. /\ run' \in [Runs -> SlotRun]
        /\ \A x \in Runs : run'[x] = IF x = r THEN idle ELSE run[x]
        BY <2>1, <2>2 DEF WorkerInv
  <2>4. Held' = Held
        BY <1>1, <2>2, <2>3 DEF Held
  <2>5. LeasesCounted'
        BY <2>1, <2>4 DEF WorkerInv, LeasesCounted, Concurrency
  <2>6. ASSUME NEW x \in Runs PROVE RunInv(x)'
    <3>1. CASE x # r
          BY <1>2, <2>3, <3>1, RunFacts DEF RunInv, RowBusy, Whole
    <3>2. CASE x = r
          BY <1>1, <1>2, <2>2, <2>3, <3>2, RunFacts DEF RunInv, RowBusy, Whole
    <3> QED BY <3>1, <3>2
  <2> QED BY <1>2, <2>3, <2>5, <2>6 DEF WorkerInv
<1>4. CASE free # 0
  <2>1. free' = free - 1 /\ run' = [run EXCEPT ![r] = taken]
        BY <1>4, <1>1 DEF Acquire, WorkerInv
  <2>2. /\ taken \in SlotRun /\ taken.phase = "claiming" /\ taken.thread = "none"
        /\ taken.lease = TRUE /\ taken.io = "claim" /\ taken.open = run[r].open
        BY <1>1 DEF SlotRun
  <2> HIDE DEF taken
  <2>3. /\ run' \in [Runs -> SlotRun]
        /\ \A x \in Runs : run'[x] = IF x = r THEN taken ELSE run[x]
        BY <2>1, <2>2 DEF WorkerInv
  <2>4. Held' = Held \cup {r} /\ r \notin Held
        BY <1>1, <2>2, <2>3 DEF Held
  <2>5. LeasesCounted'
    <3>1. Cardinality(Held') = Cardinality(Held) + 1
          BY <2>4, HeldFinite, FS_AddElement
    <3>2. free' \in Nat /\ free' + Cardinality(Held') = Concurrency
          BY <1>4, <2>1, <3>1, HeldFinite, RunsFinite DEF WorkerInv, LeasesCounted
    <3> QED BY <3>2 DEF LeasesCounted, Concurrency
  <2>6. ASSUME NEW x \in Runs PROVE RunInv(x)'
    <3>1. CASE x # r
          BY <1>2, <2>3, <3>1, RunFacts DEF RunInv, RowBusy, Whole
    <3>2. CASE x = r
      <4>1. ~timedOut => run[r].open = FALSE
            BY <1>1 DEF Whole, SlotRun
      <4> QED BY <1>1, <1>2, <2>2, <2>3, <3>2, <4>1, RunFacts DEF RunInv, RowBusy, Whole
    <3> QED BY <3>1, <3>2
  <2> QED BY <1>2, <2>3, <2>5, <2>6 DEF WorkerInv
<1> QED BY <1>3, <1>4

\* The fields of a row that a step of its slot makes of another.
LEMMA EndedFacts ==
    ASSUME NEW row \in SlotRun, NEW report \in {"idle", "worker_error", "fenced", "final"}
    PROVE  /\ Ended(row, report) \in SlotRun /\ Ended(row, report).phase = "done"
           /\ Ended(row, report).thread = row.thread /\ Ended(row, report).io = row.io
           /\ Ended(row, report).open = row.open /\ Ended(row, report).lease = row.lease
           /\ Ended(row, report).report = report
BY DEF Ended, SlotRun

LEMMA ClaimEndsInv ==
    ASSUME WorkerInv, NEW r \in Runs, ClaimEnds(r)
    PROVE  WorkerInv'
<1> DEFINE claim(open) == [run[r] EXCEPT !.io = "none", !.open = open]
           handling(thread) == [claim(TRUE) EXCEPT !.phase = "handling", !.thread = thread]
<1>1. /\ run[r] \in SlotRun /\ RunInv(r) /\ run[r].io = "claim" /\ UNCHANGED rest
      BY RunFacts DEF ClaimEnds
<1>2. ASSUME NEW open \in BOOLEAN
      PROVE  /\ claim(open) \in SlotRun /\ claim(open).phase = run[r].phase
             /\ claim(open).thread = run[r].thread /\ claim(open).io = "none"
             /\ claim(open).open = open /\ claim(open).lease = run[r].lease
      BY <1>1 DEF SlotRun
<1>3. ASSUME NEW thread \in {"none", "running"}
      PROVE  /\ handling(thread) \in SlotRun /\ handling(thread).phase = "handling"
             /\ handling(thread).thread = thread /\ handling(thread).io = "none"
             /\ handling(thread).open = TRUE /\ handling(thread).lease = run[r].lease
      BY <1>1 DEF SlotRun
<1> HIDE DEF claim, handling
<1>4. CASE run[r].phase = "claiming"
  <2>1. ASSUME NEW thread \in {"none", "running"}, Set(r, handling(thread))
        PROVE  WorkerInv'
    <3>1. run[r].lease = TRUE
          BY <1>1, <1>4 DEF RunInv, RowBusy, SlotRun
    <3> QED BY <1>1, <1>3, <1>4, <2>1, <3>1, SetInv DEF RowBusy, Whole
  <2>2. ASSUME NEW open \in BOOLEAN, NEW report \in {"idle", "worker_error"},
               report = "worker_error" \/ ~open, Set(r, Ended(claim(open), report))
        PROVE  WorkerInv'
    <3> DEFINE e == Ended(claim(open), report)
    <3>1. /\ e \in SlotRun /\ e.phase = "done" /\ e.thread = run[r].thread /\ e.io = "none"
          /\ e.open = open /\ e.lease = run[r].lease /\ e.report = report
          BY <1>2, EndedFacts
    <3>2. Set(r, e)
          BY <2>2
    <3> HIDE DEF e
    <3> QED BY <1>1, <1>4, <2>2, <3>1, <3>2, SetInv DEF RunInv, RowBusy, Whole
  <2>3. \/ \E thread \in {"none", "running"} : Set(r, handling(thread))
        \/ Set(r, Ended(claim(FALSE), "idle"))
        \/ \E open \in BOOLEAN : Set(r, Ended(claim(open), "worker_error"))
        BY <1>4 DEF ClaimEnds, claim, handling
  <2> QED BY <2>1, <2>2, <2>3
<1>5. CASE run[r].phase # "claiming"
  <2>1. PICK open \in BOOLEAN : Set(r, claim(open))
        BY <1>5 DEF ClaimEnds, claim
  <2>2. timedOut
        BY <1>1, <1>5 DEF RunInv, Whole, WorkerInv, ProcessOK
  <2> QED BY <1>1, <1>2, <2>1, <2>2, SetInv DEF RunInv, RowBusy
<1> QED BY <1>4, <1>5

LEMMA ThreadInv ==
    ASSUME WorkerInv, NEW r \in Runs, ThreadReturns(r) \/ ThreadDone(r)
    PROVE  WorkerInv'
<1> DEFINE to == IF run[r].thread = "running" THEN "returned" ELSE "none"
           row == [run[r] EXCEPT !.thread = to]
<1>1. /\ run[r] \in SlotRun /\ RunInv(r) /\ run[r].thread # "none" /\ UNCHANGED rest
      /\ Set(r, row)
      BY RunFacts DEF ThreadReturns, ThreadDone
<1>2. /\ row \in SlotRun /\ row.thread = to /\ row.phase = run[r].phase /\ row.io = run[r].io
      /\ row.open = run[r].open /\ row.lease = run[r].lease /\ row.report = run[r].report
      BY <1>1 DEF SlotRun
<1> HIDE DEF row
<1>3. row.lease = TRUE /\ run[r].phase \notin {"none", "starting"}
      BY <1>1, <1>2 DEF RunInv, RowBusy, SlotRun
<1>4. ~timedOut => Whole(row)
      BY <1>1, <1>2 DEF RunInv, Whole
<1>5. RowBusy(row) \/ row.phase = "done"
      BY <1>1, <1>2, <1>3 DEF RowBusy, SlotRun
<1> QED BY <1>1, <1>2, <1>3, <1>4, <1>5, SetInv

LEMMA HandlingInv ==
    ASSUME WorkerInv, NEW r \in Runs, FenceLost(r) \/ Abandon(r) \/ HandlerEnds(r)
    PROVE  WorkerInv'
<1> DEFINE lost == [run[r] EXCEPT !.fenced = TRUE]
           fenced == Ended(run[r], "fenced")
           final == [run[r] EXCEPT !.phase = "finalizing", !.io = "final"]
<1>1. /\ run[r] \in SlotRun /\ RunInv(r) /\ run[r].phase = "handling" /\ UNCHANGED rest
      /\ run[r].lease = TRUE
      BY RunFacts DEF FenceLost, Abandon, HandlerEnds, RunInv, RowBusy, SlotRun
<1>2. /\ lost \in SlotRun /\ lost.thread = run[r].thread /\ lost.phase = "handling"
      /\ lost.io = run[r].io /\ lost.open = run[r].open /\ lost.lease = run[r].lease
      BY <1>1 DEF SlotRun
<1>3. /\ final \in SlotRun /\ final.thread = run[r].thread /\ final.phase = "finalizing"
      /\ final.io = "final" /\ final.open = run[r].open /\ final.lease = run[r].lease
      BY <1>1 DEF SlotRun
<1>4. /\ fenced \in SlotRun /\ fenced.thread = run[r].thread /\ fenced.phase = "done"
      /\ fenced.io = run[r].io /\ fenced.lease = run[r].lease /\ fenced.report = "fenced"
      BY <1>1, EndedFacts
<1>5. Set(r, lost) \/ Set(r, fenced) \/ Set(r, final)
      BY DEF FenceLost, Abandon, HandlerEnds
<1> HIDE DEF lost, fenced, final
<1>6. CASE Set(r, lost)
      BY <1>1, <1>2, <1>6, SetInv DEF RunInv, RowBusy, Whole
<1>7. CASE Set(r, fenced)
      BY <1>1, <1>4, <1>7, SetInv DEF RunInv, RowBusy, Whole
<1>8. CASE Set(r, final)
      BY <1>1, <1>3, <1>8, SetInv DEF RunInv, RowBusy, Whole
<1> QED BY <1>5, <1>6, <1>7, <1>8

LEMMA FinalEndsInv ==
    ASSUME WorkerInv, NEW r \in Runs, FinalEnds(r)
    PROVE  WorkerInv'
<1> DEFINE wrote(open) == [run[r] EXCEPT !.io = "none", !.open = open]
<1>1. /\ run[r] \in SlotRun /\ RunInv(r) /\ run[r].io = "final" /\ UNCHANGED rest
      BY RunFacts DEF FinalEnds
<1>2. ASSUME NEW open \in BOOLEAN
      PROVE  /\ wrote(open) \in SlotRun /\ wrote(open).phase = run[r].phase
             /\ wrote(open).thread = run[r].thread /\ wrote(open).io = "none"
             /\ wrote(open).open = open /\ wrote(open).lease = run[r].lease
      BY <1>1 DEF SlotRun
<1> HIDE DEF wrote
<1>3. CASE run[r].phase = "finalizing"
  <2>1. ASSUME NEW open \in BOOLEAN, NEW report \in {"final", "worker_error"},
               report = "worker_error" \/ ~open, Set(r, Ended(wrote(open), report))
        PROVE  WorkerInv'
    <3> DEFINE e == Ended(wrote(open), report)
    <3>1. /\ e \in SlotRun /\ e.phase = "done" /\ e.thread = run[r].thread /\ e.io = "none"
          /\ e.open = open /\ e.lease = run[r].lease /\ e.report = report
          BY <1>2, EndedFacts
    <3>2. Set(r, e)
          BY <2>1
    <3> HIDE DEF e
    <3> QED BY <1>1, <1>3, <2>1, <3>1, <3>2, SetInv DEF RunInv, RowBusy, Whole
  <2>2. \/ Set(r, Ended(wrote(FALSE), "final"))
        \/ \E open \in BOOLEAN : Set(r, Ended(wrote(open), "worker_error"))
        BY <1>3 DEF FinalEnds, wrote
  <2> QED BY <2>1, <2>2
<1>4. CASE run[r].phase # "finalizing"
  <2>1. PICK open \in BOOLEAN : Set(r, wrote(open))
        BY <1>4 DEF FinalEnds, wrote
  <2>2. timedOut
        BY <1>1, <1>4 DEF RunInv, Whole, WorkerInv, ProcessOK
  <2> QED BY <1>1, <1>2, <2>1, <2>2, SetInv DEF RunInv, RowBusy
<1> QED BY <1>3, <1>4

-----------------------------------------------------------------------------
(* The main loop                                                             *)

Waits == {"batch", "marking", "draining"}

\* The main loop moves on, and leaves a batch only when its slots are done.
LEMMA LoopInv ==
    ASSUME WorkerInv, UNCHANGED slots, ProcessOK',
           main' \in Waits \/ \A r \in Runs : run[r].phase \in {"none", "done"}
    PROVE  WorkerInv'
<1>1. UNCHANGED <<batch, run, free, timedOut>>
      BY DEF slots
<1>2. LeasesCounted'
      BY <1>1 DEF WorkerInv, LeasesCounted, Held, Concurrency
<1>3. ASSUME NEW r \in Runs PROVE RunInv(r)'
      BY <1>1, RunFacts DEF RunInv, RowBusy, Whole, Waits
<1> QED BY <1>1, <1>2, <1>3 DEF WorkerInv

\* Outside a batch no slot goes on.
LEMMA QuietFacts ==
    ASSUME WorkerInv, main \notin Waits
    PROVE  \A r \in Runs : run[r].phase \in {"none", "done"}
BY RunFacts DEF RunInv, Waits

LEMMA MoveInv ==
    ASSUME WorkerInv, NEW from \in MainState, NEW to \in MainState,
           NEW row \in [exists : BOOLEAN, draining : BOOLEAN, shutdown : BOOLEAN],
           Move(from, to, row), from \notin Waits \/ to \in Waits
    PROVE  WorkerInv'
<1>1. main = from /\ main' = to /\ presence' \in {presence, row} /\ UNCHANGED <<slots, stop, beating>>
      BY DEF Move, BestEffort
<1>2. ProcessOK'
      BY <1>1 DEF WorkerInv, ProcessOK, slots
<1> QED BY <1>1, <1>2, QuietFacts, LoopInv

LEMMA PresenceFacts ==
    ASSUME WorkerInv
    PROVE  {presence, Registered, MarkedDraining, MarkedShutdown} \subseteq
               [exists : BOOLEAN, draining : BOOLEAN, shutdown : BOOLEAN]
BY DEF WorkerInv, ProcessOK, Registered, MarkedDraining, MarkedShutdown

\* A slot of the next batch, and what is left of one of the others.
LEMMA BatchFacts ==
    ASSUME NEW row \in SlotRun
    PROVE  /\ [NewRun EXCEPT !.phase = "starting"] \in SlotRun
           /\ [NewRun EXCEPT !.phase = "starting"].phase = "starting"
           /\ [NewRun EXCEPT !.phase = "starting"].thread = "none"
           /\ [NewRun EXCEPT !.phase = "starting"].io = "none"
           /\ [NewRun EXCEPT !.phase = "starting"].open = FALSE
           /\ [NewRun EXCEPT !.phase = "starting"].lease = FALSE
           /\ Leftover(row) \in SlotRun
           /\ Leftover(row).phase = row.phase /\ Leftover(row).thread = row.thread
           /\ Leftover(row).io = row.io /\ Leftover(row).open = FALSE
           /\ Leftover(row).lease = row.lease
BY DEF NewRun, Leftover, SlotRun

LEMMA StartBatchInv ==
    ASSUME WorkerInv, main \notin Waits, StartBatch
    PROVE  WorkerInv'
<1> DEFINE first == [NewRun EXCEPT !.phase = "starting"]
<1>1. /\ batch' = batch + 1 /\ batch \in Nat /\ batch' \in 0..MaxBatches /\ main' = "batch"
      /\ UNCHANGED <<free, stop, timedOut, presence, beating>>
      /\ run' = [r \in Runs |-> IF r[1] = batch + 1 THEN first ELSE Leftover(run[r])]
      BY MaxBatchesAssumption DEF StartBatch, WorkerInv, ProcessOK
<1>2. ProcessOK'
      BY <1>1 DEF WorkerInv, ProcessOK, MainState
<1>3. ASSUME NEW r \in Runs
      PROVE  /\ run'[r] = IF r[1] = batch + 1 THEN first ELSE Leftover(run[r])
             /\ run'[r] \in SlotRun /\ run'[r].lease = run[r].lease
             /\ r[1] \in Nat
  <2>1. r[1] \in Nat
        BY DEF Runs
  <2>2. r[1] = batch + 1 => run[r].lease = FALSE
        BY <1>1, <2>1, RunFacts DEF RunInv, RowBusy, SlotRun
  <2> HIDE DEF first
  <2>3. run'[r] = IF r[1] = batch + 1 THEN first ELSE Leftover(run[r])
        BY <1>1
  <2>4. /\ first \in SlotRun /\ first.lease = FALSE
        /\ Leftover(run[r]) \in SlotRun /\ Leftover(run[r]).lease = run[r].lease
        BY RunFacts, BatchFacts DEF first
  <2> QED BY <2>1, <2>2, <2>3, <2>4
<1>4. run' \in [Runs -> SlotRun] /\ Held' = Held
      BY <1>1, <1>3 DEF Held
<1>5. LeasesCounted'
      BY <1>1, <1>4 DEF WorkerInv, LeasesCounted, Concurrency
<1>6. ASSUME NEW r \in Runs PROVE RunInv(r)'
  <2>1. run[r] \in SlotRun /\ RunInv(r) /\ run[r].phase \in {"none", "done"}
        BY RunFacts, QuietFacts
  <2>2. CASE r[1] = batch + 1
    <3>1. /\ run'[r].phase = "starting" /\ run'[r].thread = "none" /\ run'[r].io = "none"
          /\ run'[r].open = FALSE /\ run'[r].lease = FALSE
          BY <1>3, <2>1, <2>2, BatchFacts
    <3> QED BY <1>1, <1>3, <2>2, <3>1 DEF RunInv, RowBusy, Whole
  <2>3. CASE r[1] # batch + 1
    <3>1. /\ run'[r].phase = run[r].phase /\ run'[r].thread = run[r].thread
          /\ run'[r].io = run[r].io /\ run'[r].open = FALSE /\ run'[r].lease = run[r].lease
      <4>1. run'[r] = Leftover(run[r])
            BY <1>3, <2>3, Zenon
      <4>2. /\ Leftover(run[r]).phase = run[r].phase /\ Leftover(run[r]).thread = run[r].thread
            /\ Leftover(run[r]).io = run[r].io /\ Leftover(run[r]).open = FALSE
            /\ Leftover(run[r]).lease = run[r].lease
            BY <2>1, BatchFacts, Zenon
      <4> QED BY <4>1, <4>2, Zenon
    <3>2. r[1] > batch' => r[1] > batch
          BY <1>1, <1>3
    <3> QED BY <1>1, <1>3, <2>1, <2>3, <3>1, <3>2 DEF RunInv, RowBusy, Whole
  <2> QED BY <2>2, <2>3
<1> QED BY <1>2, <1>4, <1>5, <1>6 DEF WorkerInv

LEMMA DrainTimesOutInv ==
    ASSUME WorkerInv, DrainTimesOut
    PROVE  WorkerInv'
<1> DEFINE left == {r \in Current : run[r].phase # "done"}
           cut(r) == [run[r] EXCEPT !.phase = "done", !.fenced = FALSE]
           rows == [r \in left |-> cut(r)]
<1>1. /\ main = "draining" /\ main' = "closing" /\ timedOut' = TRUE /\ Updated(rows)
      /\ UNCHANGED <<batch, stop, presence, beating>>
      BY DEF DrainTimesOut
<1>2. ASSUME NEW r \in Runs
      PROVE  /\ cut(r) \in SlotRun /\ cut(r).phase = "done" /\ cut(r).lease = run[r].lease
             /\ cut(r).thread = run[r].thread
      BY RunFacts DEF SlotRun
<1> HIDE DEF cut
<1>3. DOMAIN rows = left /\ left \in SUBSET Runs /\ \A r \in left : rows[r] = cut(r)
      BY DEF Current
<1> HIDE DEF rows
<1>4. \A r \in DOMAIN rows : rows[r] \in SlotRun /\ rows[r].lease = run[r].lease
      BY <1>2, <1>3
<1>5. /\ run' \in [Runs -> SlotRun] /\ LeasesCounted'
      /\ \A r \in Runs : run'[r] = IF r \in left THEN Settled(rows[r]) ELSE run[r]
  <2> HIDE DEF left
  <2> QED BY <1>1, <1>3, <1>4, UpdatedFacts
<1>6. ProcessOK'
      BY <1>1 DEF WorkerInv, ProcessOK, MainState
<1>7. ASSUME NEW r \in Runs PROVE RunInv(r)'
  <2>1. run[r] \in SlotRun /\ RunInv(r)
        BY RunFacts
  <2>2. CASE r \in left
    <3> DEFINE new == Settled(cut(r))
    <3>1. /\ run'[r] = new /\ new.phase = "done" /\ new.thread = run[r].thread
          /\ new.lease = (run[r].lease /\ ~LeaseOver(cut(r)))
          BY <1>2, <1>3, <1>5, <2>2, SettledFacts
    <3>2. r[1] = batch /\ r[1] \in Nat /\ batch \in Nat
          BY <2>2, MaxBatchesAssumption DEF Current, Runs, WorkerInv, ProcessOK
    <3> HIDE DEF new, left
    <3>3. new.lease <=> RowBusy(new)
          BY <1>2, <2>1, <3>1 DEF LeaseOver, RowBusy, RunInv, SlotRun
    <3> QED BY <1>1, <2>1, <3>1, <3>2, <3>3 DEF RunInv, RowBusy
  <2>3. CASE r \notin left
    <3>1. run'[r] = run[r] /\ (r[1] = batch => run[r].phase = "done")
          BY <1>5, <2>3 DEF Current
    <3> HIDE DEF left
    <3> QED BY <1>1, <2>1, <3>1 DEF RunInv, RowBusy
  <2> QED BY <2>2, <2>3
<1> QED BY <1>5, <1>6, <1>7 DEF WorkerInv

LEMMA MainStepInv ==
    ASSUME WorkerInv, MainStep
    PROVE  WorkerInv'
<1> USE DEF MainState, Waits
<1>1. CASE Register
      BY <1>1, MoveInv, PresenceFacts DEF Register
<1>2. CASE Poll
  <2>1. CASE Go("polling", "closing") \/ Go("polling", "reaping")
        BY <2>1, MoveInv, PresenceFacts DEF Go
  <2>2. CASE main = "polling" /\ StartBatch
        BY <2>2, StartBatchInv
  <2> QED BY <1>2, <2>1, <2>2 DEF Poll
<1>3. CASE Reaped
      BY <1>3, StartBatchInv DEF Reaped
<1>4. CASE BatchEnds
  <2>1. \A r \in Runs : run[r].phase \in {"none", "done"}
        BY <1>4, RunFacts DEF BatchEnds, BatchOver, Current, RunInv
  <2>2. ProcessOK' /\ UNCHANGED slots
        BY <1>4 DEF BatchEnds, WorkerInv, ProcessOK, slots
  <2> QED BY <2>1, <2>2, LoopInv
<1>5. CASE NoticeShutdown
      BY <1>5, MoveInv, PresenceFacts DEF NoticeShutdown, Go
<1>6. CASE MarkDraining
      BY <1>6, MoveInv, PresenceFacts DEF MarkDraining
<1>7. CASE DrainTimesOut
      BY <1>7, DrainTimesOutInv
<1>8. CASE AfterBatch
  <2>1. PICK to \in {"closing", "waiting", "polling"} : Move("heartbeat", to, Registered)
        BY <1>8 DEF AfterBatch
  <2> QED BY <2>1, MoveInv, PresenceFacts
<1>9. CASE Wake
      BY <1>9, MoveInv, PresenceFacts DEF Wake, Go
<1>10. CASE CloseDraining \/ CloseShutdown
      BY <1>10, MoveInv, PresenceFacts DEF CloseDraining, CloseShutdown
<1> QED BY <1>1, <1>2, <1>3, <1>4, <1>5, <1>6, <1>7, <1>8, <1>9, <1>10 DEF MainStep

\* A shutdown is requested, or the presence is written.
LEMMA BesideInv ==
    ASSUME WorkerInv, RequestShutdown \/ BeatStarts \/ BeatEnds \/ UNCHANGED workerVars
    PROVE  WorkerInv'
<1>1. UNCHANGED slots /\ main' = main /\ ProcessOK'
  <2>1. CASE RequestShutdown
        BY <2>1 DEF RequestShutdown, WorkerInv, ProcessOK, slots
  <2>2. CASE BeatStarts
        BY <2>2 DEF BeatStarts, WorkerInv, ProcessOK, slots
  <2>3. CASE BeatEnds
        BY <2>3, PresenceFacts DEF BeatEnds, BestEffort, WorkerInv, ProcessOK, slots
  <2>4. CASE UNCHANGED workerVars
        BY <2>4 DEF workerVars, WorkerInv, ProcessOK, slots
  <2> QED BY <2>1, <2>2, <2>3, <2>4
<1> QED BY <1>1, QuietFacts, LoopInv

-----------------------------------------------------------------------------
(* What holds of every behaviour                                             *)

LEMMA WorkerInitInv == WorkerInit => WorkerInv
<1> SUFFICES ASSUME WorkerInit PROVE WorkerInv
    OBVIOUS
<1>1. NewRun \in SlotRun /\ NewRun.phase = "none" /\ NewRun.thread = "none"
      /\ NewRun.io = "none" /\ NewRun.open = FALSE /\ NewRun.lease = FALSE
      BY DEF NewRun, SlotRun
<1>2. run \in [Runs -> SlotRun] /\ \A r \in Runs : RunInv(r)
      BY <1>1 DEF WorkerInit, RunInv, RowBusy, Whole
<1>3. ProcessOK
  <2>1. main \in MainState /\ batch \in 0..MaxBatches
        BY MaxBatchesAssumption DEF WorkerInit, MainState
  <2>2. stop \in BOOLEAN /\ timedOut \in BOOLEAN /\ beating \in BOOLEAN
        BY DEF WorkerInit
  <2>3. presence \in [exists : BOOLEAN, draining : BOOLEAN, shutdown : BOOLEAN]
        BY DEF WorkerInit
  <2> QED BY <2>1, <2>2, <2>3 DEF ProcessOK
<1>4. Held = {}
      BY <1>1 DEF WorkerInit, Held
<1>5. LeasesCounted
      BY <1>4, RunsFinite, FS_EmptySet DEF WorkerInit, LeasesCounted
<1> QED BY <1>2, <1>3, <1>5 DEF WorkerInv

LEMMA WorkerStepInv == WorkerInv /\ [WorkerNext]_workerVars => WorkerInv'
<1> SUFFICES ASSUME WorkerInv, [WorkerNext]_workerVars PROVE WorkerInv'
    OBVIOUS
<1>1. CASE MainStep
      BY <1>1, MainStepInv
<1>2. CASE RequestShutdown \/ BeatStarts \/ BeatEnds \/ UNCHANGED workerVars
      BY <1>2, BesideInv
<1>3. ASSUME NEW r \in Runs, SlotStep(r) PROVE WorkerInv'
      BY <1>3, AcquireInv, ClaimEndsInv, HandlingInv, FinalEndsInv DEF SlotStep
<1>4. ASSUME NEW r \in Runs, ThreadReturns(r) \/ ThreadDone(r) PROVE WorkerInv'
      BY <1>4, ThreadInv
<1> QED BY <1>1, <1>2, <1>3, <1>4 DEF WorkerNext

LEMMA WorkerInvTyped == WorkerInv => WorkerTypeOK
<1>1. ASSUME WorkerInv PROVE free \in 0..Concurrency
      BY <1>1, HeldFinite, RunsFinite DEF WorkerInv, LeasesCounted
<1> QED BY <1>1 DEF WorkerInv, ProcessOK, WorkerTypeOK

LEMMA WorkerInvHolds == WorkerSpec => []WorkerInv
BY WorkerInitInv, WorkerStepInv, PTL DEF WorkerSpec

\* The process, its slots and its presence row keep their types; in particular the
\* semaphore never goes below zero or above max_concurrency.
THEOREM WorkerTypeCorrect == WorkerSpec => []WorkerTypeOK
BY WorkerInvTyped, WorkerInvHolds, PTL

\* For any max_concurrency and however many batches: the semaphore counts exactly the
\* slots and handler threads that are at work, whichever of coroutine and thread ends
\* last and whether or not a drain was timed out.
THEOREM CapacityIsExact == WorkerSpec => []CapacityExact
<1>1. WorkerInv => CapacityExact
  <2>1. ASSUME WorkerInv PROVE {r \in Runs : Busy(r)} = Held
        BY <2>1 DEF WorkerInv, RunInv, RowBusy, Busy, Held
  <2> QED BY <2>1 DEF WorkerInv, LeasesCounted, CapacityExact
<1> QED BY <1>1, WorkerInvHolds, PTL

\* A batch that was not timed out leaves nothing half done behind: no transaction in
\* flight, and no claim open that was not reported.
THEOREM DrainsAreClean == WorkerSpec => []CleanDrain
<1>1. WorkerInv => CleanDrain
  <2> SUFFICES ASSUME WorkerInv, main \notin Waits, ~timedOut, NEW r \in Runs
               PROVE  /\ run[r].phase \in {"none", "done"}
                      /\ run[r].io = "none"
                      /\ run[r].open => run[r].report \in {"fenced", "worker_error"}
      BY DEF CleanDrain, Waits
  <2>1. run[r].phase \in {"none", "done"} /\ Whole(run[r]) /\ run[r] \in SlotRun
        BY QuietFacts, RunFacts DEF RunInv
  <2> QED BY <2>1 DEF Whole, SlotRun
<1> QED BY <1>1, WorkerInvHolds, PTL

-----------------------------------------------------------------------------
(* First and last occurrences                                                *)

LEMMA MinFacts ==
    ASSUME NEW set \in SUBSET Nat, set # {}
    PROVE  Min(set) \in set /\ \A o \in set : Min(set) <= o
<1>1. PICK x \in set : \A y \in set : ~(<<y, x>> \in OpToRel(<, Nat))
      BY NatLessThanWellFounded, WFMin
<1>2. \A y \in set : x <= y
  <2>1. ASSUME NEW y \in set, y < x PROVE <<y, x>> \in OpToRel(<, Nat)
    <3>1. <<y, x>> \in Nat \X Nat /\ <<y, x>>[1] < <<y, x>>[2]
          BY <2>1
    <3>2. OpToRel(<, Nat) = {ss \in Nat \X Nat : ss[1] < ss[2]}
          BY DEF OpToRel
    <3> QED BY <3>1, <3>2
  <2>2. \A y \in set : ~(y < x)
        BY <1>1, <2>1, Zenon
  <2>3. x \in Nat /\ \A y \in set : y \in Nat
        OBVIOUS
  <2> QED BY <2>2, <2>3
<1> QED BY <1>2 DEF Min

LEMMA MaxFacts ==
    ASSUME NEW t \in Nat, NEW set \in SUBSET (0..t), set # {}
    PROVE  Max(set) \in set /\ \A o \in set : o <= Max(set)
<1> DEFINE back == {t - o : o \in set}
<1>1. back \in SUBSET Nat /\ back # {}
  <2>1. ASSUME NEW o \in set PROVE t - o \in Nat
        OBVIOUS
  <2>2. PICK o \in set : TRUE
        OBVIOUS
  <2>3. t - o \in back
        OBVIOUS
  <2> QED BY <2>1, <2>3
<1>2. Min(back) \in back /\ \A b \in back : Min(back) <= b
      BY <1>1, MinFacts
<1>3. PICK x \in set : Min(back) = t - x
      BY <1>2
<1>4. \A y \in set : x >= y
  <2>1. ASSUME NEW y \in set PROVE x >= y
    <3>1. t - y \in back
          OBVIOUS
    <3>2. t - x <= t - y
          BY <1>2, <1>3, <3>1
    <3> QED BY <3>2
  <2> QED BY <2>1
<1>5. Max(set) \in set /\ \A y \in set : Max(set) >= y
      BY <1>4 DEF Max
<1> QED BY <1>5

\* An expression always has another occurrence, and the next one is the first.
LEMMA NextFacts ==
    ASSUME NEW cron \in Crons, NEW t \in Minutes
    PROVE  /\ NextOccurrence(cron, t) \in cron /\ NextOccurrence(cron, t) \in Nat
           /\ NextOccurrence(cron, t) > t
           /\ \A o \in cron : o > t => NextOccurrence(cron, t) <= o
<1> DEFINE later == {o \in cron : o > t}
<1>1. later \in SUBSET Nat /\ later # {}
      BY CronsAssumption, BoundsAssumption DEF Minutes
<1>2. Min(later) \in later /\ \A o \in later : Min(later) <= o
      BY <1>1, MinFacts
<1> QED BY <1>1, <1>2 DEF NextOccurrence

-----------------------------------------------------------------------------
(* The inductive invariant of the schedules                                  *)

\* What is known of one schedule: a cursor at an occurrence and never beyond one
\* that is still to come, behind it the last occurrence and every job, and all of
\* these in the past.
ScheduleInv(s) ==
    /\ sched[s].status = "absent" => sched[s].next = Never /\ sched[s].last = Never
    /\ sched[s].status # "absent" =>
           /\ sched[s].next \in sched[s].cron
           /\ \A o \in sched[s].cron : now < o => sched[s].next <= o
           /\ \A o \in Minutes : <<s, o>> \in jobs => o < sched[s].next
    /\ sched[s].last # Never =>
           /\ sched[s].last <= now
           /\ sched[s].status # "absent" => sched[s].last < sched[s].next
    /\ \A o \in Minutes : <<s, o>> \in jobs => o <= now

\* No tick has read a clock that is ahead.
ReadingsPast == \A r \in Replicas : reading[r] # Never => reading[r] <= now

SchedulerInv == TypeOK /\ ReadingsPast /\ \A s \in Schedules : ScheduleInv(s)

LEMMA RowFacts ==
    ASSUME SchedulerInv, NEW s \in Schedules
    PROVE  /\ sched[s] \in Row /\ ScheduleInv(s) /\ now \in Minutes /\ now \in Nat
           /\ sched[s].cron \in Crons /\ sched[s].cron \in SUBSET Nat
           /\ sched[s].policy \in Policies
           /\ sched[s].last \in Minutes \cup {Never} /\ Never \notin Minutes /\ Never \notin Nat
           /\ sched[s].status # "absent" => sched[s].next \in Nat
BY CronsAssumption, BoundsAssumption, NeverAssumption
   DEF SchedulerInv, TypeOK, Row, ScheduleInv, Minutes

-----------------------------------------------------------------------------
(* A tick of one schedule                                                    *)

\* The due occurrences of an active schedule start with its cursor, and what becomes
\* a job is some of them.
LEMMA DueFacts ==
    ASSUME SchedulerInv, NEW s \in Schedules, NEW t \in Minutes, Active(s, t)
    PROVE  /\ Due(sched[s], t) \in SUBSET (0..t) /\ sched[s].next \in Due(sched[s], t)
           /\ sched[s].next \in Nat /\ sched[s].status = "active"
           /\ \A o \in Due(sched[s], t) : sched[s].next <= o
           /\ Max(Due(sched[s], t)) \in Due(sched[s], t)
           /\ Selected(sched[s], t) \in SUBSET Due(sched[s], t)
<1> DEFINE row == sched[s]
           due == Due(row, t)
<1>1. /\ row.status = "active" /\ row.next <= t /\ row.next \in row.cron /\ row.next \in Nat
      /\ row.cron \in SUBSET Nat /\ t \in Nat /\ row.policy \in {"skip", "run_once", "catch_up"}
  <2>1. row.status = "active" /\ row.next <= t
        BY DEF Active
  <2>2. t \in Nat
        BY BoundsAssumption DEF Minutes
  <2>4. row.policy \in {"skip", "run_once", "catch_up"}
    <3>1. row.policy \in Policies
          BY RowFacts
    <3> QED BY <3>1, TickPoliciesAssumption
  <2>3. row.next \in row.cron /\ row.cron \in SUBSET Nat /\ row.next \in Nat
        BY <2>1, RowFacts DEF ScheduleInv
  <2> QED BY <2>1, <2>2, <2>3, <2>4
<1> HIDE DEF row
<1>2. due \in SUBSET (0..t) /\ row.next \in due /\ \A o \in due : row.next <= o
      BY <1>1 DEF Due
<1> HIDE DEF due
<1>3. Max(due) \in due
      BY <1>1, <1>2, MaxFacts
<1>4. Selected(row, t) \in SUBSET due
  <2>1. \A k : Oldest(due, k) \in SUBSET due
        BY DEF Oldest
  <2> QED BY <1>1, <1>2, <1>3, <2>1 DEF Selected, due
<1> QED BY <1>1, <1>2, <1>3, <1>4 DEF row, due

\* An occurrence whose minute it is becomes a job, unless the policy is to skip.
LEMMA OnTimeFacts ==
    ASSUME SchedulerInv, NEW s \in Schedules, NEW t \in Minutes, Active(s, t),
           sched[s].next = t, sched[s].policy # "skip"
    PROVE  t \in Selected(sched[s], t)
<1> DEFINE row == sched[s]
<1>1. Due(row, t) = {t}
      BY DueFacts
<1>2. row.policy \in {"run_once", "catch_up"}
      BY RowFacts, TickPoliciesAssumption
<1>3. Max({t}) = t
      BY DEF Max, Minutes
<1>4. t \in Oldest({t}, MaxCatchUp)
  <2>1. {p \in {t} : p < t} = {}
        BY DEF Minutes
  <2>2. Cardinality({p \in {t} : p < t}) < MaxCatchUp
        BY <2>1, FS_EmptySet, BoundsAssumption
  <2> QED BY <2>2 DEF Oldest
<1> HIDE DEF row
<1> QED BY <1>1, <1>2, <1>3, <1>4 DEF Selected, row

\* A row after a tick: a later cursor, which steps over nothing that is to come, and
\* a later last occurrence, which is behind it.
LEMMA AdvancedFacts ==
    ASSUME SchedulerInv, NEW s \in Schedules, NEW t \in Minutes, Active(s, t)
    PROVE  /\ Advanced(sched[s], t) \in Row
           /\ Advanced(sched[s], t).status = "active"
           /\ Advanced(sched[s], t).cron = sched[s].cron
           /\ Advanced(sched[s], t).next \in sched[s].cron /\ Advanced(sched[s], t).next \in Nat
           /\ Advanced(sched[s], t).next > t /\ Advanced(sched[s], t).next > sched[s].next
           /\ \A o \in sched[s].cron : o > t => Advanced(sched[s], t).next <= o
           /\ Advanced(sched[s], t).last \in Minutes /\ Advanced(sched[s], t).last <= t
           /\ Advanced(sched[s], t).last >= sched[s].next
<1> DEFINE row == sched[s]
           due == Due(row, t)
           next == NextOccurrence(row.cron, t)
           last == Max(due)
           new == [row EXCEPT !.next = next, !.last = last]
<1>1. /\ row \in Row /\ row.cron \in Crons /\ row.status = "active" /\ row.next <= t
      /\ row.next \in Nat /\ t \in Nat
      BY RowFacts, BoundsAssumption DEF Active, Minutes
<1>2. due # {} /\ last \in Minutes /\ last <= t /\ last >= row.next
  <2>1. last \in due /\ due \in SUBSET (0..t) /\ \A o \in due : row.next <= o
        BY DueFacts
  <2> HIDE DEF due, last
  <2> QED BY <2>1, BoundsAssumption DEF Minutes
<1>3. /\ next \in row.cron /\ next \in Nat /\ next > t
      /\ \A o \in row.cron : o > t => next <= o
      BY <1>1, NextFacts
<1> HIDE DEF next, last, due
<1>4. Advanced(row, t) = new
      BY <1>2 DEF Advanced, next, last, due
<1>5. next \in (UNION Crons) \cup {Never}
      BY <1>1, <1>3
<1>6. /\ new \in Row /\ new.status = row.status /\ new.cron = row.cron /\ new.next = next
      /\ new.last = last
      BY <1>1, <1>2, <1>5 DEF Row
<1> HIDE DEF new
<1>7. next > row.next
      BY <1>1, <1>3
<1> HIDE DEF row
<1> QED BY <1>1, <1>2, <1>3, <1>4, <1>6, <1>7 DEF row

-----------------------------------------------------------------------------
(* The steps                                                                 *)

LEMMA SchedulerInitInv == Init => SchedulerInv
<1> SUFFICES ASSUME Init PROVE SchedulerInv
    OBVIOUS
<1>1. sched \in [Schedules -> Row]
  <2>1. ASSUME NEW row \in [status : {"absent"}, cron : Crons, policy : Policies,
                            next : {Never}, last : {Never}]
        PROVE  row \in Row
    <3>1. /\ row.status = "absent" /\ row.cron \in Crons /\ row.policy \in Policies
          /\ row.next = Never /\ row.last = Never
          OBVIOUS
    <3>2. row = [status |-> row.status, cron |-> row.cron, policy |-> row.policy,
                 next |-> row.next, last |-> row.last]
          OBVIOUS
    <3> QED BY <3>1, <3>2 DEF Row
  <2> QED BY <2>1 DEF Init
<1>2. TypeOK
      BY <1>1, BoundsAssumption DEF Init, TypeOK, Minutes
<1>3. \A s \in Schedules : ScheduleInv(s)
      BY DEF Init, ScheduleInv
<1>4. ReadingsPast
      BY DEF Init, ReadingsPast
<1> QED BY <1>2, <1>3, <1>4 DEF SchedulerInv

LEMMA ClockTicksInv == SchedulerInv /\ ClockTicks => SchedulerInv'
<1> SUFFICES ASSUME SchedulerInv, ClockTicks PROVE SchedulerInv'
    OBVIOUS
<1>1. now' = now + 1 /\ now' \in Minutes /\ now \in Nat /\ UNCHANGED <<sched, jobs, reading, edits>>
      BY BoundsAssumption DEF ClockTicks, SchedulerInv, TypeOK, Minutes
<1>2. TypeOK'
      BY <1>1 DEF SchedulerInv, TypeOK
<1>3. ReadingsPast'
      BY <1>1, BoundsAssumption DEF SchedulerInv, TypeOK, ReadingsPast, Minutes
<1>4. ASSUME NEW s \in Schedules PROVE ScheduleInv(s)'
  <2>1. sched[s].last # Never => sched[s].last <= now + 1
        BY <1>1, RowFacts, BoundsAssumption DEF ScheduleInv, Minutes
  <2>2. \A o \in Minutes : <<s, o>> \in jobs => o <= now + 1
        BY <1>1, RowFacts, BoundsAssumption DEF ScheduleInv, Minutes
  <2>3. sched[s].status # "absent" =>
            \A o \in sched[s].cron : now + 1 < o => sched[s].next <= o
        BY <1>1, RowFacts DEF ScheduleInv
  <2> QED BY <1>1, <2>1, <2>2, <2>3, RowFacts DEF ScheduleInv
<1> QED BY <1>2, <1>3, <1>4 DEF SchedulerInv

\* The reading of one replica changes.
LEMMA ReadingInv ==
    ASSUME SchedulerInv, NEW r \in Replicas, NEW t \in {now, Never},
           reading' = [reading EXCEPT ![r] = t], UNCHANGED <<now, sched, jobs, edits>>
    PROVE  SchedulerInv'
<1>1. TypeOK' /\ \A q \in Replicas : reading'[q] = IF q = r THEN t ELSE reading[q]
      BY DEF SchedulerInv, TypeOK
<1>2. ReadingsPast'
      BY <1>1, RowFacts, BoundsAssumption DEF SchedulerInv, ReadingsPast, TypeOK, Minutes
<1>3. \A s \in Schedules : ScheduleInv(s)'
      BY DEF SchedulerInv, ScheduleInv
<1> QED BY <1>1, <1>2, <1>3 DEF SchedulerInv

LEMMA ReadingFacts ==
    ASSUME SchedulerInv, NEW r \in Replicas, reading[r] # Never
    PROVE  reading[r] \in Minutes /\ reading[r] \in Nat /\ reading[r] <= now /\ now \in Nat
BY BoundsAssumption DEF SchedulerInv, TypeOK, ReadingsPast, Minutes

LEMMA TickInv ==
    ASSUME SchedulerInv, NEW r \in Replicas, Tick(r)
    PROVE  SchedulerInv'
<1> DEFINE t == reading[r]
<1>1. /\ t \in Minutes /\ t \in Nat /\ t <= now /\ now \in Nat
      /\ reading' = [reading EXCEPT ![r] = Never] /\ UNCHANGED <<now, edits>>
      BY ReadingFacts DEF Tick
<1>2. PICK ticked \in Batch(t) :
          \/ UNCHANGED <<sched, jobs>>
          \/ /\ jobs' = jobs \cup UNION {{s} \X Selected(sched[s], t) : s \in ticked}
             /\ sched' = [s \in Schedules |->
                    IF s \in ticked THEN Advanced(sched[s], t) ELSE sched[s]]
      BY DEF Tick
<1>3. \A s \in ticked : s \in Schedules /\ Active(s, t)
      BY DEF Batch
<1>4. CASE UNCHANGED <<sched, jobs>>
      BY <1>1, <1>4, ReadingInv
<1>5. CASE /\ jobs' = jobs \cup UNION {{s} \X Selected(sched[s], t) : s \in ticked}
           /\ sched' = [s \in Schedules |->
                  IF s \in ticked THEN Advanced(sched[s], t) ELSE sched[s]]
  <2> HIDE DEF t
  <2>1. \A s \in Schedules : sched'[s] = IF s \in ticked THEN Advanced(sched[s], t) ELSE sched[s]
        BY <1>5
  <2>2. \A s, o : <<s, o>> \in jobs' <=>
                      <<s, o>> \in jobs \/ (s \in ticked /\ o \in Selected(sched[s], t))
        BY <1>5
  <2>3. ASSUME NEW s \in Schedules PROVE sched'[s] \in Row /\ ScheduleInv(s)'
    <3>1. CASE s \notin ticked
          BY <1>1, <2>1, <2>2, <3>1, RowFacts DEF ScheduleInv
    <3>2. CASE s \in ticked
      <4> DEFINE new == Advanced(sched[s], t)
      <4>1. /\ new \in Row /\ new.status = "active" /\ new.cron = sched[s].cron
            /\ new.next \in sched[s].cron /\ new.next \in Nat
            /\ new.next > t /\ new.next > sched[s].next
            /\ \A o \in sched[s].cron : o > t => new.next <= o
            /\ new.last \in Minutes /\ new.last <= t
            BY <1>1, <1>3, <3>2, AdvancedFacts
      <4> HIDE DEF new
      <4>2. sched'[s] = new
            BY <2>1, <3>2 DEF new
      <4>3. \A o \in sched[s].cron : now < o => new.next <= o
            BY <1>1, <4>1, RowFacts
      <4>4. ASSUME NEW o \in Minutes, <<s, o>> \in jobs' PROVE o < new.next /\ o <= now
        <5>1. o \in Nat /\ sched[s].next \in Nat /\ sched[s].status # "absent"
              BY <1>1, <1>3, <3>2, DueFacts, BoundsAssumption DEF Minutes
        <5>2. CASE <<s, o>> \in jobs
              BY <4>1, <5>1, <5>2, RowFacts DEF ScheduleInv
        <5>3. CASE o \in Selected(sched[s], t)
          <6>1. o <= t
                BY <1>1, <1>3, <3>2, <5>3, DueFacts
          <6> QED BY <1>1, <4>1, <5>1, <6>1
        <5> QED BY <2>2, <4>4, <5>2, <5>3
      <4>5. new.last <= now /\ new.last < new.next
            BY <1>1, <4>1, BoundsAssumption DEF Minutes
      <4> QED BY <1>1, <4>1, <4>2, <4>3, <4>4, <4>5 DEF ScheduleInv
    <3> QED BY <3>1, <3>2
  <2>4. sched' \in [Schedules -> Row]
        BY <1>5, <2>3
  <2>5. jobs' \in SUBSET (Schedules \X (Minutes \cup {Never}))
    <3>1. ASSUME NEW s \in ticked PROVE Selected(sched[s], t) \in SUBSET Minutes
      <4>1. Selected(sched[s], t) \in SUBSET (0..t)
            BY <1>1, <1>3, DueFacts
      <4> QED BY <1>1, <4>1, BoundsAssumption DEF Minutes
    <3>2. UNION {{s} \X Selected(sched[s], t) : s \in ticked}
              \in SUBSET (Schedules \X (Minutes \cup {Never}))
          BY <1>3, <3>1
    <3> QED BY <1>5, <3>2 DEF SchedulerInv, TypeOK
  <2>6. TypeOK' /\ \A q \in Replicas : reading'[q] = IF q = r THEN Never ELSE reading[q]
        BY <1>1, <2>4, <2>5 DEF SchedulerInv, TypeOK
  <2>7. ReadingsPast'
        BY <1>1, <2>6 DEF SchedulerInv, ReadingsPast
  <2> QED BY <2>3, <2>6, <2>7 DEF SchedulerInv
<1> QED BY <1>2, <1>4, <1>5

\* An operator changes one row, and adds at most a job that is no occurrence.
LEMMA OneRowInv ==
    ASSUME SchedulerInv, NEW s \in Schedules, NEW row \in Row,
           sched' = [sched EXCEPT ![s] = row], UNCHANGED <<now, reading>>,
           jobs' \in {jobs, jobs \cup {<<s, Never>>}}, edits' \in 0..MaxEdits,
           row.status # "absent", row.last = sched[s].last, row.next \in row.cron,
           \A o \in row.cron : now < o => row.next <= o,
           \A o \in Minutes : <<s, o>> \in jobs => o < row.next,
           row.last # Never => row.last < row.next
    PROVE  SchedulerInv'
<1>1. TypeOK' /\ \A u \in Schedules : sched'[u] = IF u = s THEN row ELSE sched[u]
      BY DEF SchedulerInv, TypeOK
<1>2. \A u \in Schedules, o \in Minutes : <<u, o>> \in jobs' => <<u, o>> \in jobs
      BY RowFacts
<1>3. ASSUME NEW u \in Schedules PROVE ScheduleInv(u)'
  <2>1. ScheduleInv(u)
        BY RowFacts
  <2>2. CASE u = s
        BY <1>1, <1>2, <2>1, <2>2 DEF ScheduleInv
  <2>3. CASE u # s
        BY <1>1, <1>2, <2>1, <2>3 DEF ScheduleInv
  <2> QED BY <2>2, <2>3
<1>4. ReadingsPast'
      BY DEF SchedulerInv, ReadingsPast
<1> QED BY <1>1, <1>3, <1>4 DEF SchedulerInv

\* A cursor that starts again from now has everything behind it.
LEMMA RestartFacts ==
    ASSUME SchedulerInv, NEW s \in Schedules, NEW cron \in Crons
    PROVE  /\ NextOccurrence(cron, now) \in cron
           /\ \A o \in cron : now < o => NextOccurrence(cron, now) <= o
           /\ \A o \in Minutes : <<s, o>> \in jobs => o < NextOccurrence(cron, now)
           /\ sched[s].last # Never => sched[s].last < NextOccurrence(cron, now)
<1> DEFINE next == NextOccurrence(cron, now)
<1>1. /\ next \in cron /\ next \in Nat /\ next > now /\ now \in Nat
      /\ \A o \in cron : o > now => next <= o
      BY RowFacts, NextFacts
<1> HIDE DEF next
<1>2. cron \in SUBSET Nat
      BY CronsAssumption
<1>3. \A o \in cron : now < o => next <= o
      BY <1>1, <1>2
<1>4. ScheduleInv(s) /\ sched[s].last \in Minutes \cup {Never}
      BY RowFacts
<1>5. \A o \in Minutes : <<s, o>> \in jobs => o < next
      BY <1>1, <1>4, BoundsAssumption DEF ScheduleInv, Minutes
<1>6. sched[s].last # Never => sched[s].last < next
      BY <1>1, <1>4, BoundsAssumption DEF ScheduleInv, Minutes
<1> QED BY <1>1, <1>3, <1>5, <1>6 DEF next

LEMMA CreateInv ==
    ASSUME SchedulerInv, NEW s \in Schedules, Create(s)
    PROVE  SchedulerInv'
<1> DEFINE next == NextOccurrence(sched[s].cron, now)
           row == [sched[s] EXCEPT !.status = "active", !.next = next]
<1>1. sched[s] \in Row /\ sched[s].cron \in Crons
      BY RowFacts
<1>2. next \in sched[s].cron /\ next \in (UNION Crons) \cup {Never}
      BY <1>1, RestartFacts
<1>3. sched' = [sched EXCEPT ![s] = row] /\ UNCHANGED <<now, jobs, reading, edits>>
      BY DEF Create, SchedulerInv, TypeOK
<1> HIDE DEF next
<1>4. /\ row \in Row /\ row.status = "active" /\ row.next = next /\ row.cron = sched[s].cron
      /\ row.last = sched[s].last
      BY <1>1, <1>2 DEF Row
<1> HIDE DEF row
<1>5. edits' \in 0..MaxEdits
      BY <1>3 DEF SchedulerInv, TypeOK
<1>6. /\ row.next \in row.cron
      /\ \A o \in row.cron : now < o => row.next <= o
      /\ \A o \in Minutes : <<s, o>> \in jobs => o < row.next
      /\ row.last # Never => row.last < row.next
      BY <1>1, <1>4, RestartFacts DEF next
<1> QED BY <1>3, <1>4, <1>5, <1>6, OneRowInv

\* An operator changes anything of a row but what the invariant is about.
LEMMA SameCursorInv ==
    ASSUME SchedulerInv, NEW s \in Schedules, Live(s), NEW row \in Row,
           sched' = [sched EXCEPT ![s] = row], UNCHANGED <<now, reading>>,
           jobs' \in {jobs, jobs \cup {<<s, Never>>}}, edits' \in 0..MaxEdits,
           row.status # "absent", row.last = sched[s].last,
           row.next = sched[s].next, row.cron = sched[s].cron
    PROVE  SchedulerInv'
<1>1. sched[s].status # "absent" /\ ScheduleInv(s)
      BY RowFacts DEF Live
<1> QED BY <1>1, OneRowInv DEF ScheduleInv

LEMMA OperateInv ==
    ASSUME SchedulerInv, NEW s \in Schedules, Operate(s)
    PROVE  SchedulerInv'
<1>1. sched[s] \in Row /\ sched \in [Schedules -> Row] /\ edits \in 0..MaxEdits
      BY RowFacts DEF SchedulerInv, TypeOK
<1>2. ASSUME NEW row, Act(s, row)
      PROVE  /\ sched' = [sched EXCEPT ![s] = row] /\ UNCHANGED <<now, reading>>
             /\ edits' \in 0..MaxEdits
      BY <1>1, <1>2, BoundsAssumption DEF Act
<1>3. ASSUME NEW status \in {"paused", "archived"}, Live(s),
             Act(s, [sched[s] EXCEPT !.status = status]), UNCHANGED jobs
      PROVE  SchedulerInv'
  <2> DEFINE row == [sched[s] EXCEPT !.status = status]
  <2>1. /\ row \in Row /\ row.status = status /\ row.next = sched[s].next
        /\ row.cron = sched[s].cron /\ row.last = sched[s].last
        BY <1>1 DEF Row
  <2>2. Act(s, row)
        BY <1>3
  <2> HIDE DEF row
  <2> QED BY <1>2, <1>3, <2>1, <2>2, SameCursorInv
<1>4. CASE Pause(s) \/ Archive(s)
      BY <1>3, <1>4 DEF Pause, Archive, Live
<1>5. CASE Resume(s)
  <2> DEFINE row == [sched[s] EXCEPT !.status = "active"]
  <2>1. /\ row \in Row /\ row.status = "active" /\ row.next = sched[s].next
        /\ row.cron = sched[s].cron /\ row.last = sched[s].last
        BY <1>1 DEF Row
  <2>2. sched' = [sched EXCEPT ![s] = row] /\ UNCHANGED <<now, jobs, reading, edits>> /\ Live(s)
        BY <1>1, <1>5 DEF Resume, Live
  <2> HIDE DEF row
  <2> QED BY <1>1, <2>1, <2>2, SameCursorInv
<1>6. CASE RunNow(s)
  <2>1. Act(s, sched[s]) /\ jobs' = jobs \cup {<<s, Never>>} /\ Live(s)
        BY <1>6 DEF RunNow
  <2> QED BY <1>1, <1>2, <2>1, SameCursorInv DEF Live
<1>7. CASE Update(s)
  <2>1. ASSUME NEW misfire \in Policies, Act(s, [sched[s] EXCEPT !.policy = misfire])
        PROVE  SchedulerInv'
    <3> DEFINE row == [sched[s] EXCEPT !.policy = misfire]
    <3>1. /\ row \in Row /\ row.status = sched[s].status /\ row.next = sched[s].next
          /\ row.cron = sched[s].cron /\ row.last = sched[s].last
          BY <1>1 DEF Row
    <3>2. Act(s, row) /\ UNCHANGED jobs /\ Live(s)
          BY <1>7, <2>1 DEF Update
    <3> HIDE DEF row
    <3> QED BY <1>2, <3>1, <3>2, SameCursorInv DEF Live
  <2>2. ASSUME NEW cron \in Crons,
               Act(s, [sched[s] EXCEPT !.cron = cron, !.next = NextOccurrence(cron, now)])
        PROVE  SchedulerInv'
    <3> DEFINE next == NextOccurrence(cron, now)
               row == [sched[s] EXCEPT !.cron = cron, !.next = next]
    <3>1. /\ next \in cron /\ next \in (UNION Crons) \cup {Never}
          /\ \A o \in cron : now < o => next <= o
          /\ \A o \in Minutes : <<s, o>> \in jobs => o < next
          /\ sched[s].last # Never => sched[s].last < next
          BY RestartFacts
    <3> HIDE DEF next
    <3>2. /\ row \in Row /\ row.status = sched[s].status /\ row.next = next
          /\ row.cron = cron /\ row.last = sched[s].last
          BY <1>1, <3>1 DEF Row
    <3>3. Act(s, row) /\ UNCHANGED jobs /\ Live(s)
          BY <1>7, <2>2 DEF Update, next
    <3> HIDE DEF row
    <3> QED BY <1>2, <3>1, <3>2, <3>3, OneRowInv DEF Live
  <2> QED BY <1>7, <2>1, <2>2 DEF Update
<1> QED BY <1>4, <1>5, <1>6, <1>7 DEF Operate

LEMMA SchedulerStepInv == SchedulerInv /\ [Next]_vars => SchedulerInv'
<1> SUFFICES ASSUME SchedulerInv, [Next]_vars PROVE SchedulerInv'
    OBVIOUS
<1>1. CASE UNCHANGED vars
      BY <1>1 DEF vars, SchedulerInv, TypeOK, ReadingsPast, ScheduleInv
<1>2. CASE ClockTicks
      BY <1>2, ClockTicksInv
<1>3. ASSUME NEW r \in Replicas, StartTick(r) \/ CrashTick(r) PROVE SchedulerInv'
      BY <1>3, ReadingInv DEF StartTick, CrashTick
<1>4. ASSUME NEW r \in Replicas, Tick(r) PROVE SchedulerInv'
      BY <1>4, TickInv
<1>5. ASSUME NEW s \in Schedules, Create(s) PROVE SchedulerInv'
      BY <1>5, CreateInv
<1>6. ASSUME NEW s \in Schedules, Operate(s) PROVE SchedulerInv'
      BY <1>6, OperateInv
<1> QED BY <1>1, <1>2, <1>3, <1>4, <1>5, <1>6 DEF Next

LEMMA SchedulerInvHolds == Spec => []SchedulerInv
BY SchedulerInitInv, SchedulerStepInv, PTL DEF Spec

-----------------------------------------------------------------------------
(* What holds of every behaviour                                             *)

\* Schedules, jobs and clocks keep their types, whatever operators and replicas do:
\* a cursor is an occurrence of an expression, or absent.
THEOREM SchedulerTypeCorrect == Spec => []TypeOK
<1>1. SchedulerInv => TypeOK
      BY DEF SchedulerInv
<1> QED BY <1>1, SchedulerInvHolds, PTL

\* For any expressions, policies and replicas, and however old the clock a tick read:
\* a cursor stands at an occurrence, after all that have a job and never beyond one
\* that is to come.
THEOREM CursorIsExact == Spec => []CursorExact
<1>1. SchedulerInv => CursorExact
      BY DEF SchedulerInv, ScheduleInv, CursorExact
<1> QED BY <1>1, SchedulerInvHolds, PTL

\* The unique index on the occurrences of a schedule never refuses a job: no tick is
\* rolled back because of it, and with the tick every other schedule of its batch.
NeverRefused ==
    \A r \in Replicas, s \in Schedules :
        reading[r] # Never /\ Active(s, reading[r]) => ~Refused(s, reading[r])

\* However many replicas tick with whatever clocks, none of them meets the job of
\* another: the cursor they read is behind no job.
THEOREM TicksNeverRefused == Spec => []NeverRefused
<1>1. SchedulerInv => NeverRefused
  <2> SUFFICES ASSUME SchedulerInv, NEW r \in Replicas, NEW s \in Schedules,
                      reading[r] # Never, Active(s, reading[r]),
                      NEW o \in Selected(sched[s], reading[r]), <<s, o>> \in jobs
               PROVE  FALSE
      BY DEF NeverRefused, Refused
  <2>1. reading[r] \in Minutes /\ reading[r] \in Nat
        BY ReadingFacts
  <2>2. o \in 0..reading[r] /\ sched[s].next <= o /\ sched[s].status = "active"
        /\ sched[s].next \in Nat
        BY <2>1, DueFacts
  <2>3. o \in Minutes
        BY <2>1, <2>2, BoundsAssumption DEF Minutes
  <2>4. o < sched[s].next
        BY <2>2, <2>3, RowFacts DEF ScheduleInv
  <2> QED BY <2>1, <2>2, <2>4
<1> QED BY <1>1, SchedulerInvHolds, PTL

\* What one step does to the last occurrence of a schedule, and to the occurrence
\* whose minute it is.
LastKept(s) ==
    sched[s].last # Never =>
        /\ sched'[s].last # Never
        /\ sched'[s].last >= sched[s].last
        /\ sched'[s].last < sched'[s].next

RunOnTime(s) ==
    sched[s].next = now /\ sched'[s].next # now /\ edits' = edits
        => sched[s].policy = "skip" \/ <<s, now>> \in jobs'

LEMMA TickTimely ==
    ASSUME SchedulerInv, NEW r \in Replicas, Tick(r), NEW s \in Schedules
    PROVE  \/ sched'[s] = sched[s]
           \/ LastKept(s) /\ RunOnTime(s)
<1> DEFINE t == reading[r]
<1>1. /\ t \in Minutes /\ t \in Nat /\ t <= now /\ now \in Nat
      BY ReadingFacts DEF Tick
<1>2. PICK ticked \in Batch(t) :
          \/ UNCHANGED <<sched, jobs>>
          \/ /\ jobs' = jobs \cup UNION {{u} \X Selected(sched[u], t) : u \in ticked}
             /\ sched' = [u \in Schedules |->
                    IF u \in ticked THEN Advanced(sched[u], t) ELSE sched[u]]
      BY DEF Tick
<1>3. ticked \in SUBSET Schedules /\ (s \in ticked => Active(s, t))
      BY DEF Batch
<1> HIDE DEF t
<1>4. CASE s \in ticked /\ ~UNCHANGED <<sched, jobs>>
  <2> DEFINE new == Advanced(sched[s], t)
  <2>1. sched'[s] = new /\ \A o \in Selected(sched[s], t) : <<s, o>> \in jobs'
        BY <1>2, <1>4
  <2>2. /\ new.next > t /\ new.next > sched[s].next /\ new.next \in Nat
        /\ new.last \in Minutes /\ new.last <= t /\ new.last >= sched[s].next
        BY <1>1, <1>3, <1>4, AdvancedFacts
  <2> HIDE DEF new
  <2>3. sched[s].status = "active" /\ sched[s].next \in Nat /\ sched[s].next <= t
        BY <1>1, <1>3, <1>4, DueFacts DEF Active
  <2>4. LastKept(s)
    <3>1. sched[s].last # Never => sched[s].last \in Nat /\ sched[s].last < sched[s].next
          BY <2>3, RowFacts, BoundsAssumption DEF ScheduleInv, Minutes
    <3>2. new.last \in Nat /\ new.last # Never
          BY <2>2, NeverAssumption, BoundsAssumption DEF Minutes
    <3> QED BY <1>1, <2>1, <2>2, <2>3, <3>1, <3>2 DEF LastKept
  <2>5. RunOnTime(s)
    <3>1. sched[s].next = now => now = t
          BY <1>1, <2>3
    <3>2. sched[s].next = now /\ sched[s].policy # "skip" => now \in Selected(sched[s], t)
          BY <1>1, <1>3, <1>4, <3>1, OnTimeFacts
    <3> QED BY <2>1, <3>2 DEF RunOnTime
  <2> QED BY <2>4, <2>5
<1> QED BY <1>2, <1>4

\* A row whose cursor and last occurrence stay, or that starts again from now.
LEMMA StepTimely ==
    ASSUME SchedulerInv, [Next]_vars, NEW s \in Schedules
    PROVE  LastKept(s) /\ RunOnTime(s)
<1>1. sched[s] \in Row /\ ScheduleInv(s) /\ sched \in [Schedules -> Row]
      /\ sched[s].last \in Minutes \cup {Never} /\ Never \notin Nat /\ now \in Nat
      BY RowFacts DEF SchedulerInv, TypeOK
<1>2. ASSUME sched'[s].next = sched[s].next, sched'[s].last = sched[s].last,
             sched[s].status # "absent"
      PROVE  LastKept(s) /\ RunOnTime(s)
      BY <1>1, <1>2, BoundsAssumption DEF LastKept, RunOnTime, ScheduleInv, Minutes
<1>3. ASSUME sched'[s].next = sched[s].next, sched'[s].last = sched[s].last,
             sched[s].status = "absent"
      PROVE  LastKept(s) /\ RunOnTime(s)
      BY <1>1, <1>3 DEF LastKept, RunOnTime, ScheduleInv
<1>4. ASSUME NEW r \in Replicas, Tick(r) PROVE LastKept(s) /\ RunOnTime(s)
      BY <1>2, <1>3, <1>4, TickTimely
<1>5. ASSUME NEW u \in Schedules, Create(u) PROVE LastKept(s) /\ RunOnTime(s)
  <2>1. CASE u # s
    <3>1. sched'[s] = sched[s]
          BY <1>1, <1>5, <2>1 DEF Create
    <3> QED BY <1>2, <1>3, <3>1
  <2>2. CASE u = s
    <3>1. sched'[s].last = sched[s].last /\ sched[s].status = "absent"
          BY <1>1, <1>5, <2>2 DEF Create, Row
    <3> QED BY <1>1, <3>1 DEF LastKept, RunOnTime, ScheduleInv
  <2> QED BY <2>1, <2>2
<1>6. ASSUME NEW u \in Schedules, Operate(u) PROVE LastKept(s) /\ RunOnTime(s)
  <2>1. \/ sched'[s].next = sched[s].next /\ sched'[s].last = sched[s].last
        \/ /\ edits' = edits + 1 /\ edits \in Nat /\ sched'[s].last = sched[s].last
           /\ \E cron \in Crons : sched'[s].next = NextOccurrence(cron, now)
    <3>1. edits \in Nat
          BY BoundsAssumption DEF SchedulerInv, TypeOK
    <3>2. CASE Pause(u) \/ Archive(u) \/ Resume(u) \/ RunNow(u)
          BY <1>1, <3>2 DEF Pause, Archive, Resume, RunNow, Act, Row
    <3>3. CASE Update(u)
      <4>1. CASE \E misfire \in Policies : Act(u, [sched[u] EXCEPT !.policy = misfire])
            BY <1>1, <4>1 DEF Act, Row
      <4>2. CASE \E cron \in Crons :
                     Act(u, [sched[u] EXCEPT !.cron = cron, !.next = NextOccurrence(cron, now)])
            BY <1>1, <3>1, <4>2 DEF Act, Row
      <4> QED BY <3>3, <4>1, <4>2 DEF Update
    <3> QED BY <1>6, <3>2, <3>3 DEF Operate
  <2>2. ASSUME edits' = edits + 1, edits \in Nat, sched'[s].last = sched[s].last,
               NEW cron \in Crons, sched'[s].next = NextOccurrence(cron, now)
        PROVE  LastKept(s) /\ RunOnTime(s)
    <3>1. RunOnTime(s)
          BY <2>2 DEF RunOnTime
    <3>2. LastKept(s)
          BY <1>1, <2>2, RestartFacts, BoundsAssumption DEF LastKept, Minutes
    <3> QED BY <3>1, <3>2
  <2> QED BY <1>2, <1>3, <2>1, <2>2
<1>7. CASE ClockTicks \/ (\E r \in Replicas : StartTick(r) \/ CrashTick(r)) \/ UNCHANGED vars
  <2>1. sched' = sched
        BY <1>7 DEF ClockTicks, StartTick, CrashTick, vars
  <2> QED BY <1>2, <1>3, <2>1
<1> QED BY <1>4, <1>5, <1>6, <1>7 DEF Next

\* No replica, however late, takes a schedule back; and an occurrence whose minute it
\* is when the cursor passes has its job, unless its policy is to skip.
THEOREM TicksAreTimely == Spec => TicksKeepTime
<1>1. SchedulerInv /\ [Next]_vars => [\A s \in Schedules : LastKept(s)]_vars
      BY StepTimely
<1>2. SchedulerInv /\ [Next]_vars => [\A s \in Schedules : RunOnTime(s)]_vars
      BY StepTimely
<1>3. Spec => LastAdvances
      BY <1>1, SchedulerInvHolds, PTL DEF Spec, LastAdvances, LastKept
<1>4. Spec => OnTimeRuns
      BY <1>2, SchedulerInvHolds, PTL DEF Spec, OnTimeRuns, RunOnTime
<1> QED BY <1>3, <1>4, PTL DEF TicksKeepTime

-----------------------------------------------------------------------------
(* CronOccurrences: least and greatest of what is bounded                    *)

LEMMA LeastOf ==
    ASSUME NEW S \in SUBSET Int, S # {}, NEW b \in Int, \A x \in S : b <= x
    PROVE  Least(S) \in S /\ \A y \in S : Least(S) <= y
<1> DEFINE T == {x - b : x \in S}
<1>1. T \in SUBSET Nat /\ T # {}
  <2>1. ASSUME NEW x \in S PROVE x - b \in Nat
        BY <2>1
  <2>2. T \in SUBSET Nat
        BY <2>1
  <2>3. PICK x \in S : TRUE
        OBVIOUS
  <2>4. x - b \in T
        BY <2>3
  <2> QED BY <2>2, <2>4
<1> HIDE DEF T
<1>2. PICK t \in T : \A y \in T : ~(<<y, t>> \in OpToRel(<, Nat))
      BY <1>1, NatLessThanWellFounded, WFMin
<1>3. ASSUME NEW y \in T, y < t PROVE FALSE
  <2>1. <<y, t>> \in Nat \X Nat /\ <<y, t>>[1] < <<y, t>>[2]
        BY <1>1, <1>3
  <2>2. OpToRel(<, Nat) = {ss \in Nat \X Nat : ss[1] < ss[2]}
        BY DEF OpToRel
  <2> QED BY <1>2, <2>1, <2>2
<1>4. PICK x \in S : t = x - b
      BY <1>2 DEF T
<1>5. ASSUME NEW y \in S PROVE x <= y
  <2>1. y - b \in T
        BY DEF T
  <2>2. ~(y - b < x - b)
        BY <1>3, <1>4, <2>1
  <2>3. x \in Int /\ y \in Int
        OBVIOUS
  <2> QED BY <2>2, <2>3
<1> QED BY <1>5 DEF Least

LEMMA GreatestOf ==
    ASSUME NEW S \in SUBSET Int, S # {}, NEW b \in Int, \A x \in S : x <= b
    PROVE  Greatest(S) \in S /\ \A y \in S : y <= Greatest(S)
<1> DEFINE T == {0 - x : x \in S}
<1>1. T \in SUBSET Int /\ T # {} /\ 0 - b \in Int /\ \A t \in T : 0 - b <= t
  <2>1. ASSUME NEW x \in S PROVE 0 - x \in Int /\ 0 - b <= 0 - x
        BY <2>1
  <2>2. T \in SUBSET Int /\ \A t \in T : 0 - b <= t
        BY <2>1
  <2>3. PICK x \in S : TRUE
        OBVIOUS
  <2>4. 0 - x \in T
        BY <2>3
  <2> QED BY <2>2, <2>4
<1> HIDE DEF T
<1>2. Least(T) \in T /\ \A y \in T : Least(T) <= y
      BY <1>1, LeastOf
<1>3. PICK x \in S : Least(T) = 0 - x
      BY <1>2 DEF T
<1>4. ASSUME NEW y \in S PROVE y <= x
  <2>1. 0 - y \in T
        BY DEF T
  <2>2. 0 - x <= 0 - y
        BY <1>2, <1>3, <2>1
  <2> QED BY <2>2
<1> QED BY <1>4 DEF Greatest

-----------------------------------------------------------------------------
(* CronOccurrences: local time                                               *)

CronFits == zone \in Zones /\ expression \in Expressions

LEMMA LocalFacts ==
    ASSUME CronFits
    PROVE  /\ zone.at \in Int /\ zone.shift \in Int /\ expression \in SUBSET Int
           /\ \A u \in Int : Local(u) \in Int
           /\ \A l \in Int : Resolve(l) \in SUBSET Int
           /\ \A l \in Int, u \in Int : (u \in Resolve(l)) = (Local(u) = l)
<1>1. zone.at \in Int /\ zone.shift \in Int /\ expression \in SUBSET Int
      BY CronAssumption DEF CronFits
<1>2. \A u \in Int : Local(u) \in Int
      BY <1>1 DEF Local
<1>3. \A l \in Int : Resolve(l) \in SUBSET Int
      BY <1>1 DEF Resolve
<1>4. \A l \in Int, u \in Int : (u \in Resolve(l)) = (Local(u) = l)
      BY <1>1 DEF Resolve, Local
<1> QED BY <1>1, <1>2, <1>3, <1>4

\* The clock goes back over some minutes, which are then repeated, or never back.
LEMMA RepeatFacts ==
    ASSUME CronFits, NEW u \in Int, NEW w \in Int, u < w
    PROVE  /\ zone.shift >= 0 => Local(u) < Local(w) /\ ~Repeated(u)
           /\ Local(w) < Local(u) => Repeated(u) /\ Repeated(w)
           /\ Local(w) = Local(u) => Repeated(u) /\ Repeated(w)
<1> DEFINE a == zone.at
           s == zone.shift
<1>1. a \in Int /\ s \in Int
      BY LocalFacts
<1>2. \A v \in Int : Local(v) = IF v < a THEN v ELSE v + s
      BY DEF Local
<1>3. \A v \in Int : Repeated(v) = \E x \in {v + s, v - s} : x # v /\ Local(x) = Local(v)
      BY DEF Repeated
<1> HIDE DEF a, s
<1>4. s >= 0 => Local(u) < Local(w)
      BY <1>1, <1>2
<1>5. ASSUME s >= 0 PROVE ~Repeated(u)
  <2>1. u + s \in Int /\ u - s \in Int
        BY <1>1
  <2>2. u + s # u => Local(u + s) # Local(u)
        BY <1>1, <1>2, <1>5, <2>1
  <2>3. u - s # u => Local(u - s) # Local(u)
        BY <1>1, <1>2, <1>5, <2>1
  <2> QED BY <1>3, <2>2, <2>3
<1>6. ASSUME Local(w) <= Local(u) PROVE Repeated(u) /\ Repeated(w)
  <2>1. u < a /\ a <= w /\ s < 0 /\ Local(u) = u /\ Local(w) = w + s /\ w + s <= u
        BY <1>1, <1>2, <1>6
  <2>2. u - s \in Int /\ u - s # u /\ Local(u - s) = u
        BY <1>1, <1>2, <2>1
  <2>3. w + s \in Int /\ w + s # w /\ Local(w + s) = w + s
        BY <1>1, <1>2, <2>1
  <2> QED BY <1>3, <2>1, <2>2, <2>3
<1>7. Local(u) \in Int /\ Local(w) \in Int
      BY LocalFacts
<1> QED BY <1>4, <1>5, <1>6, <1>7 DEF s

-----------------------------------------------------------------------------
(* CronOccurrences: the searches                                             *)

OccursWithin(after, through) == {u \in (after + 1)..through : Occurs(u)}

\* A search that does not fail has looked at some candidate last.
LEMMA SearchFacts ==
    ASSUME CronFits, NEW after \in Int, NEW through \in Int, NEW limit \in Nat \ {0},
           NoInstant \notin ScheduleOccurrences(after, through, limit)
    PROVE  \E last \in LoopEnds(after, through, limit) :
               /\ last \in Int
               /\ ScheduleOccurrences(after, through, limit) =
                      Smallest(ResultsAt(after, through, last), limit)
<1> DEFINE ends == LoopEnds(after, through, limit)
           last == Least(ends)
<1>1. /\ ends # {}
      /\ ScheduleOccurrences(after, through, limit) = Smallest(ResultsAt(after, through, last), limit)
      BY DEF ScheduleOccurrences, Failed
<1>2. ends \in SUBSET Int /\ Local(after) \in Int /\ \A l \in ends : Local(after) <= l
      BY LocalFacts DEF LoopEnds, Candidates
<1> HIDE DEF ends
<1>3. last \in ends
      BY <1>1, <1>2, LeastOf
<1> QED BY <1>1, <1>2, <1>3 DEF ends

\* What has been looked at are occurrences of the range, whatever was last.
LEMMA ResultsFacts ==
    ASSUME CronFits, NEW after \in Int, NEW through \in Int, NEW l \in Int
    PROVE  /\ ResultsAt(after, through, l) = {u \in OccursWithin(after, through) :
                                                 Local(after) <= Local(u) /\ Local(u) <= l}
           /\ IsFiniteSet(ResultsAt(after, through, l))
           /\ IsFiniteSet(OccursWithin(after, through))
<1>1. ResultsAt(after, through, l) = {u \in OccursWithin(after, through) :
                                         Local(after) <= Local(u) /\ Local(u) <= l}
      BY DEF ResultsAt, OccursWithin, Occurs
<1>2. IsFiniteSet((after + 1)..through)
      BY FS_Interval
<1>3. OccursWithin(after, through) \subseteq (after + 1)..through
      BY DEF OccursWithin
<1>4. ResultsAt(after, through, l) \subseteq OccursWithin(after, through)
      BY <1>1
<1> QED BY <1>1, <1>2, <1>3, <1>4, FS_Subset

LEMMA SearchSound ==
    ASSUME CronFits, NEW after \in Int, NEW through \in Int, NEW limit \in Nat \ {0},
           NoInstant \notin ScheduleOccurrences(after, through, limit)
    PROVE  ScheduleOccurrences(after, through, limit) \subseteq OccursWithin(after, through)
<1>1. PICK last \in Int : ScheduleOccurrences(after, through, limit) =
                              Smallest(ResultsAt(after, through, last), limit)
      BY SearchFacts
<1>2. Smallest(ResultsAt(after, through, last), limit) \subseteq ResultsAt(after, through, last)
      BY DEF Smallest
<1>3. ResultsAt(after, through, last) \subseteq OccursWithin(after, through)
      BY ResultsFacts
<1> QED BY <1>1, <1>2, <1>3

\* The next occurrence passes over minutes that are repeated, and no others.
LEMMA NextRunFacts ==
    ASSUME CronFits, NEW after \in Int, ~NextFails(after)
    PROVE  /\ NextInstant(after) \in OccursWithin(after, Far)
           /\ \A u \in (after + 1)..(NextInstant(after) - 1) : Occurs(u) => Repeated(u)
<1> DEFINE runs == NextRuns(after)
           w == NextInstant(after)
<1>1. Far \in Int /\ runs = ScheduleOccurrences(after, Far, 1) /\ runs # {}
      /\ NoInstant \notin runs
      BY CronAssumption DEF NextFails, NextRuns
<1>2. PICK last \in Int : runs = Smallest(ResultsAt(after, Far, last), 1)
      BY <1>1, SearchFacts
<1> DEFINE R == ResultsAt(after, Far, last)
<1>3. /\ R = {u \in OccursWithin(after, Far) : Local(after) <= Local(u) /\ Local(u) <= last}
      /\ IsFiniteSet(R) /\ R \in SUBSET Int
  <2>1. /\ R = {u \in OccursWithin(after, Far) : Local(after) <= Local(u) /\ Local(u) <= last}
        /\ IsFiniteSet(R)
        BY <1>1, ResultsFacts
  <2>2. OccursWithin(after, Far) \in SUBSET Int
        BY <1>1 DEF OccursWithin
  <2> QED BY <2>1, <2>2
<1>4. w \in runs
  <2>1. runs \in SUBSET Int /\ \A x \in runs : after <= x
        BY <1>2, <1>3 DEF Smallest, OccursWithin
  <2> QED BY <1>1, <2>1, LeastOf DEF NextInstant
<1>5. w \in R /\ Cardinality({v \in R : v < w}) < 1
      BY <1>2, <1>4 DEF Smallest
<1>6. \A v \in R : ~(v < w)
  <2>1. IsFiniteSet({v \in R : v < w})
        BY <1>3, FS_Subset
  <2>2. Cardinality({v \in R : v < w}) = 0
        BY <1>5, <2>1, FS_CardinalityType
  <2> QED BY <2>1, <2>2, FS_EmptySet
<1> HIDE DEF R, w
<1>7. w \in OccursWithin(after, Far) /\ Local(w) <= last /\ w \in Int /\ w <= Far
      BY <1>1, <1>3, <1>5 DEF OccursWithin
<1>8. ASSUME NEW u \in (after + 1)..(w - 1), Occurs(u) PROVE Repeated(u)
  <2>1. u \in Int /\ after < u /\ u < w /\ u \in OccursWithin(after, Far)
        BY <1>1, <1>7, <1>8 DEF OccursWithin
  <2>2. Local(u) \in Int /\ Local(after) \in Int /\ Local(w) \in Int
        BY <1>7, <2>1, LocalFacts
  <2>3. CASE Local(u) <= Local(after)
        BY <2>1, <2>2, <2>3, RepeatFacts
  <2>4. CASE Local(after) < Local(u) /\ Local(u) <= last
    <3>1. u \in R
          BY <1>3, <2>1, <2>2, <2>4
    <3> QED BY <1>6, <2>1, <3>1
  <2>5. CASE last < Local(u)
    <3>1. Local(w) < Local(u)
          BY <1>7, <2>2, <2>5
    <3> QED BY <1>7, <2>1, <3>1, RepeatFacts
  <2> QED BY <2>2, <2>3, <2>4, <2>5
<1> QED BY <1>7, <1>8 DEF w

\* Where no minute repeats, a search has the first occurrences of the range.
LEMMA SearchExact ==
    ASSUME CronFits, zone.shift >= 0,
           NEW after \in Int, NEW through \in Int, NEW limit \in Nat \ {0},
           NoInstant \notin ScheduleOccurrences(after, through, limit)
    PROVE  ScheduleOccurrences(after, through, limit) =
               Smallest(OccursWithin(after, through), limit)
<1> DEFINE P == OccursWithin(after, through)
<1>1. PICK last \in LoopEnds(after, through, limit) :
          /\ last \in Int
          /\ ScheduleOccurrences(after, through, limit) =
                 Smallest(ResultsAt(after, through, last), limit)
      BY SearchFacts
<1> DEFINE R == ResultsAt(after, through, last)
<1>2. /\ P \in SUBSET Int /\ \A u \in P : after < u /\ u <= through
      /\ IsFiniteSet(P) /\ IsFiniteSet(R)
      BY <1>1, ResultsFacts DEF OccursWithin
<1>3. /\ \A u \in Int : Local(u) \in Int
      /\ \A u \in Int, v \in Int : u < v => Local(u) < Local(v)
      BY LocalFacts, RepeatFacts
<1>4. R = {u \in P : Local(u) <= last}
  <2>1. R = {u \in P : Local(after) <= Local(u) /\ Local(u) <= last}
        BY <1>1, ResultsFacts
  <2>2. \A u \in P : Local(after) <= Local(u)
        BY <1>2, <1>3
  <2> QED BY <2>1, <2>2
<1> HIDE DEF P, R
<1>5. CASE Beyond(through, last)
  <2>1. Local(through) < last
    <3>1. CASE Resolve(last) # {} /\ Least(Resolve(last)) > through
      <4>1. Resolve(last) \in SUBSET {last, last - zone.shift} /\ Resolve(last) \in SUBSET Int
            /\ zone.shift \in Int
            BY <1>1, LocalFacts DEF Resolve
      <4>2. \A x \in Resolve(last) : last - zone.shift <= x
            BY <1>1, <4>1
      <4>3. Least(Resolve(last)) \in Resolve(last)
            BY <1>1, <3>1, <4>1, <4>2, LeastOf
      <4> DEFINE u == Least(Resolve(last))
      <4>4. u \in Resolve(last) /\ u \in Int /\ u > through
            BY <3>1, <4>1, <4>3
      <4> HIDE DEF u
      <4>5. Local(u) = last
            BY <1>1, <4>4, LocalFacts
      <4>6. Local(through) < Local(u)
            BY <1>3, <4>4
      <4> QED BY <4>5, <4>6
    <3>2. CASE last > Local(through) + Day
          BY <1>1, <1>3, <3>2, CronAssumption
    <3> QED BY <1>5, <3>1, <3>2 DEF Beyond
  <2>2. R = P
    <3>1. ASSUME NEW u \in P PROVE Local(u) <= last
      <4>1. u = through \/ Local(u) < Local(through)
            BY <1>2, <1>3
      <4> QED BY <1>1, <1>2, <1>3, <2>1, <4>1
    <3> QED BY <1>4, <3>1
  <2> QED BY <1>1, <2>2 DEF R, P
<1>6. CASE Cardinality(R) >= limit
  <2>1. ASSUME NEW u \in R PROVE {v \in R : v < u} = {v \in P : v < u}
    <3>1. ASSUME NEW v \in P, v < u PROVE v \in R
          BY <1>1, <1>2, <1>3, <1>4, <3>1
    <3> QED BY <1>4, <3>1
  <2>2. ASSUME NEW u \in P, u \notin R PROVE ~(Cardinality({v \in P : v < u}) < limit)
    <3>1. R \subseteq {v \in P : v < u}
      <4>1. ASSUME NEW v \in R PROVE v < u
        <5>1. Local(v) < Local(u) /\ v \in Int /\ u \in Int
              BY <1>1, <1>2, <1>3, <1>4, <2>2
        <5>2. ~(u < v) /\ u # v
              BY <1>3, <5>1
        <5> QED BY <5>1, <5>2
      <4> QED BY <1>4, <4>1
    <3>2. IsFiniteSet({v \in P : v < u})
          BY <1>2, FS_Subset
    <3>3. Cardinality(R) <= Cardinality({v \in P : v < u})
          BY <3>1, <3>2, FS_Subset
    <3>4. Cardinality(R) \in Nat /\ Cardinality({v \in P : v < u}) \in Nat
          BY <1>2, <3>2, FS_CardinalityType
    <3> QED BY <1>6, <3>3, <3>4
  <2>3. Smallest(R, limit) = Smallest(P, limit)
    <3>1. R \subseteq P
          BY <1>4
    <3>2. \A u \in R : Cardinality({v \in R : v < u}) = Cardinality({v \in P : v < u})
          BY <2>1
    <3> QED BY <2>2, <3>1, <3>2 DEF Smallest
  <2> QED BY <1>1, <2>3 DEF R, P
<1> QED BY <1>1, <1>5, <1>6 DEF LoopEnds, R

\* The search backwards has an occurrence of the range, and where no minute repeats
\* the last one.
LEMMA LatestFacts ==
    ASSUME CronFits, NEW after \in Int, NEW through \in Int,
           NoInstant \notin LatestOccurrence(after, through)
    PROVE  /\ LatestOccurrence(after, through) \subseteq OccursWithin(after, through)
           /\ zone.shift >= 0 /\ OccursWithin(after, through) # {} =>
                  LatestOccurrence(after, through) = {Greatest(OccursWithin(after, through))}
<1> DEFINE P == OccursWithin(after, through)
           ends == BackEnds(after, through)
           last == Greatest(ends)
           eligible == Between(Resolve(last), after, through)
<1>1. /\ ends # {}
      /\ LatestOccurrence(after, through) = IF eligible # {} THEN {Greatest(eligible)} ELSE {}
      BY DEF LatestOccurrence, Failed
<1>2. ends \in SUBSET Int /\ Local(through) \in Int /\ \A l \in ends : l <= Local(through)
      BY LocalFacts DEF BackEnds
<1> HIDE DEF ends
<1>3. last \in ends /\ last \in Int /\ \A l \in ends : l <= last
      BY <1>1, <1>2, GreatestOf
<1>4. last \in expression
      BY <1>3 DEF ends, BackEnds
<1> HIDE DEF last
<1>5. /\ eligible \in SUBSET Int /\ \A u \in eligible : u <= through
      /\ eligible \subseteq P
  <2>1. Resolve(last) \in SUBSET Int /\ \A u \in Int : u \in Resolve(last) => Local(u) = last
        BY <1>3, LocalFacts
  <2> QED BY <1>4, <2>1 DEF Between, OccursWithin, Occurs
<1>6. eligible # {} => Greatest(eligible) \in eligible
      BY <1>5, GreatestOf
<1>7. LatestOccurrence(after, through) \subseteq P
      BY <1>1, <1>5, <1>6
<1>8. ASSUME zone.shift >= 0, P # {} PROVE LatestOccurrence(after, through) = {Greatest(P)}
  <2> DEFINE p == Greatest(P)
  <2>1. P \in SUBSET Int /\ \A u \in P : after < u /\ u <= through /\ Local(u) \in expression
        BY DEF OccursWithin, Occurs
  <2>2. p \in P /\ \A u \in P : u <= p
        BY <1>8, <2>1, GreatestOf
  <2> HIDE DEF p
  <2>3. p \in Int /\ after < p /\ p <= through /\ Local(p) \in expression
        BY <2>1, <2>2
  <2>4. /\ \A u \in Int : Local(u) \in Int
        /\ \A u \in Int, v \in Int : u < v => Local(u) < Local(v)
        BY <1>8, LocalFacts, RepeatFacts
  <2>5. Local(p) \in ends
    <3>1. Local(p) <= Local(through)
          BY <2>3, <2>4
    <3>2. p \in Resolve(Local(p))
          BY <2>3, <2>4, LocalFacts
    <3> QED BY <2>3, <3>1, <3>2 DEF ends, BackEnds, Between
  <2>6. Local(p) <= last
        BY <1>3, <2>5
  <2>7. \A u \in Int : Local(u) = last => p <= u
        BY <1>3, <2>3, <2>4, <2>6
  <2>8. eligible # {}
    <3> SUFFICES ASSUME eligible = {} PROVE FALSE
        OBVIOUS
    <3>1. Resolve(last) # {} /\ Greatest(Resolve(last)) <= after
          BY <1>3 DEF ends, BackEnds
    <3>2. Resolve(last) \in SUBSET Int /\ zone.shift \in Int
          /\ Resolve(last) \subseteq {last, last - zone.shift}
          BY <1>3, LocalFacts DEF Resolve
    <3>3. \A x \in Resolve(last) : x <= last
          BY <1>3, <1>8, <3>2
    <3>4. Greatest(Resolve(last)) \in Resolve(last)
          BY <1>3, <3>1, <3>2, <3>3, GreatestOf
    <3>5. PICK q \in Int : q \in Resolve(last) /\ q <= after
          BY <3>1, <3>2, <3>4
    <3>6. Local(q) = last
          BY <1>3, <3>5, LocalFacts
    <3> QED BY <2>3, <2>7, <3>5, <3>6
  <2>9. PICK g \in eligible : LatestOccurrence(after, through) = {g}
        BY <1>1, <1>6, <2>8
  <2>10. g \in P /\ g \in Int /\ Local(g) = last
         BY <1>3, <1>5, LocalFacts DEF Between
  <2>11. g = p
         BY <2>2, <2>3, <2>7, <2>10
  <2> QED BY <2>9, <2>11 DEF p
<1> QED BY <1>7, <1>8

-----------------------------------------------------------------------------
(* CronOccurrences: the invariant                                            *)

\* What became jobs lies before the cursor, which is an occurrence.
CronInv == CronTypeOK /\ Occurs(nextRun) /\ created \subseteq 0..(nextRun - 1)

LEMMA CronInvInit == CronInit => CronInv
<1> SUFFICES ASSUME CronInit PROVE CronInv
    OBVIOUS
<1>1. CronFits /\ 0 \in Int /\ ~NextFails(0) /\ nextRun = NextInstant(0)
      BY DEF CronInit, CronFits
<1>2. nextRun \in OccursWithin(0, Far)
      BY <1>1, NextRunFacts
<1>3. LastMinute \in Nat /\ Far \in Nat
      BY CronAssumption
<1>4. nextRun \in 0..Far /\ Occurs(nextRun)
      BY <1>2, <1>3 DEF OccursWithin
<1> QED BY <1>3, <1>4 DEF CronInit, CronInv, CronTypeOK

\* What a tick chooses was due.
LEMMA ChosenFacts ==
    ASSUME CronInv, ~Fails
    PROVE  /\ Chosen \subseteq Pending
           /\ zone.shift >= 0 /\ RunIsDue => Chosen = Meant
<1> DEFINE P == OccursWithin(RangeStart, minute)
<1>1. /\ CronFits /\ minute \in Int /\ nextRun \in Int /\ RangeStart \in Int
      /\ policy \in {"run_once", "skip", "catch_up"} /\ CatchUpLimit \in Nat \ {0}
      BY CronAssumption DEF CronInv, CronTypeOK, CronFits, RangeStart
<1>2. P = Pending
      BY <1>1 DEF OccursWithin, Pending, RangeStart
<1>3. RunIsDue => Pending # {}
  <2>1. RunIsDue => nextRun \in Pending
        BY <1>1 DEF CronInv, Pending, RunIsDue
  <2> QED BY <2>1
<1>4. NoInstant \notin Latest /\ NoInstant \notin Chosen
      BY DEF Fails
<1>5. CASE policy = "run_once"
  <2>1. Chosen = Latest /\ Meant = {Greatest(Pending)}
        BY <1>5 DEF Chosen, Meant
  <2>2. NoInstant \notin LatestOccurrence(RangeStart, minute)
        BY <1>4 DEF Latest
  <2>3. /\ Latest \subseteq P
        /\ zone.shift >= 0 /\ P # {} => Latest = {Greatest(P)}
        BY <1>1, <2>2, LatestFacts DEF Latest
  <2> QED BY <1>2, <1>3, <2>1, <2>3
<1>6. CASE policy = "skip"
      BY <1>6 DEF Chosen, Meant
<1>7. CASE policy = "catch_up"
  <2>1. Chosen = ScheduleOccurrences(RangeStart, minute, CatchUpLimit)
        /\ Meant = Smallest(Pending, CatchUpLimit)
        BY <1>7 DEF Chosen, Meant
  <2>2. Chosen \subseteq P
        BY <1>1, <1>4, <2>1, SearchSound
  <2>3. zone.shift >= 0 => Chosen = Smallest(P, CatchUpLimit)
        BY <1>1, <1>4, <2>1, SearchExact
  <2> QED BY <1>2, <2>1, <2>2, <2>3
<1> QED BY <1>1, <1>5, <1>6, <1>7

\* Where a tick moves the cursor to.
LEMMA CursorFacts ==
    ASSUME CronInv, ~Fails
    PROVE  /\ NextInstant(minute) \in (minute + 1)..Far /\ Occurs(NextInstant(minute))
           /\ \A u \in (minute + 1)..(NextInstant(minute) - 1) : Occurs(u) => Repeated(u)
           /\ zone.shift >= 0 =>
                  NextInstant(minute) = Least({u \in (minute + 1)..Far : Occurs(u)})
<1> DEFINE w == NextInstant(minute)
           F == {u \in (minute + 1)..Far : Occurs(u)}
<1>1. CronFits /\ minute \in Int /\ Far \in Int /\ ~NextFails(minute)
      BY CronAssumption DEF CronInv, CronTypeOK, CronFits, Fails
<1>2. /\ w \in F
      /\ \A u \in (minute + 1)..(w - 1) : Occurs(u) => Repeated(u)
      BY <1>1, NextRunFacts DEF OccursWithin
<1> HIDE DEF w
<1>3. w \in (minute + 1)..Far /\ Occurs(w) /\ w \in Int
      BY <1>1, <1>2
<1>4. ASSUME zone.shift >= 0 PROVE w = Least(F)
  <2>1. ASSUME NEW u \in F PROVE w <= u
    <3>1. u \in Int /\ minute + 1 <= u /\ Occurs(u)
          BY <1>1
    <3>2. u + 1 \in Int /\ u < u + 1
          BY <3>1
    <3>3. ~Repeated(u)
          BY <1>1, <1>4, <3>1, <3>2, RepeatFacts
    <3>4. ~(u < w)
          BY <1>1, <1>2, <1>3, <3>1, <3>3
    <3> QED BY <1>3, <3>1, <3>4
  <2>2. F \in SUBSET Int /\ F # {} /\ \A u \in F : minute <= u
        BY <1>1, <1>2
  <2> HIDE DEF F
  <2>3. Least(F) \in F /\ \A u \in F : Least(F) <= u
        BY <1>1, <2>2, LeastOf
  <2>4. w <= Least(F) /\ Least(F) <= w /\ Least(F) \in Int
        BY <1>2, <2>1, <2>2, <2>3
  <2> QED BY <1>3, <2>4
<1> QED BY <1>2, <1>3, <1>4 DEF w

\* The properties of one step, without the box.
CronStep ==
    nextRun' # nextRun =>
        /\ Occurs(nextRun')
        /\ created' \ created = Chosen
        /\ Chosen \subseteq Pending
        /\ \A u \in (minute + 1)..(nextRun' - 1) : Occurs(u) => Repeated(u)
        /\ zone.shift >= 0 =>
               /\ created' \ created = Meant
               /\ nextRun' = Least({u \in (minute + 1)..Far : Occurs(u)})

LEMMA PastCursor ==
    ASSUME NEW u \in Int, NEW n \in Int, NEW m \in Int, NEW p \in Int,
           u <= n - 1, n <= m, m < p
    PROVE  u <= p - 1 /\ p - 1 \in Int
OBVIOUS

LEMMA CronTickStep ==
    ASSUME CronInv, CronTick PROVE CronInv' /\ CronStep
<1>1. /\ nextRun \in 0..Far /\ minute \in 0..LastMinute /\ created \subseteq 0..LastMinute
      /\ created \subseteq 0..(nextRun - 1)
      BY DEF CronInv, CronTypeOK
<1>2. LastMinute \in Nat /\ Far \in Nat
      BY CronAssumption
<1>3. /\ ~Fails /\ RunIsDue
      /\ created' = created \cup Chosen /\ nextRun' = NextInstant(minute)
      /\ UNCHANGED <<zone, expression, policy, minute>>
      BY DEF CronTick
<1>4. /\ Chosen \subseteq Pending
      /\ zone.shift >= 0 => Chosen = Meant
      BY <1>3, ChosenFacts
<1>5. /\ nextRun' \in (minute + 1)..Far /\ Occurs(nextRun')
      /\ \A u \in (minute + 1)..(nextRun' - 1) : Occurs(u) => Repeated(u)
      /\ zone.shift >= 0 => nextRun' = Least({u \in (minute + 1)..Far : Occurs(u)})
      BY <1>3, CursorFacts
<1>6. \A u \in Chosen : u \in Int /\ nextRun <= u /\ u <= minute
      BY <1>1, <1>4 DEF Pending
<1>7. created' \ created = Chosen
      BY <1>1, <1>3, <1>6
<1>8. CronInv'
  <2>1. nextRun' \in 0..Far /\ minute < nextRun'
        BY <1>1, <1>2, <1>5
  <2>2. \A u \in created' : u \in 0..LastMinute /\ u \in 0..(nextRun' - 1)
    <3>1. ASSUME NEW u \in created PROVE u \in 0..LastMinute /\ u \in 0..(nextRun' - 1)
      <4>1. nextRun <= minute
            BY <1>3 DEF RunIsDue
      <4>2. u \in 0..LastMinute /\ u \in 0..(nextRun - 1)
            BY <1>1, <3>1
      <4>3. nextRun \in Int /\ minute \in Int /\ nextRun' \in Int /\ minute < nextRun'
            BY <1>1, <1>2, <2>1
      <4>4. u \in Int /\ 0 <= u /\ u <= nextRun - 1
            BY <4>2, <4>3
      <4>5. u <= nextRun' - 1 /\ nextRun' - 1 \in Int
            BY <4>1, <4>3, <4>4, PastCursor
      <4>6. u \in 0..(nextRun' - 1)
            BY <4>4, <4>5
      <4> QED BY <4>2, <4>6
    <3>2. ASSUME NEW u \in Chosen PROVE u \in 0..LastMinute /\ u \in 0..(nextRun' - 1)
          BY <1>1, <1>2, <1>6, <2>1
    <3> QED BY <1>3, <3>1, <3>2
  <2>3. Occurs(nextRun)'
        BY <1>3, <1>5 DEF Occurs, Local
  <2> QED BY <1>3, <2>1, <2>2, <2>3 DEF CronInv, CronTypeOK
<1> QED BY <1>4, <1>5, <1>7, <1>8, <1>3 DEF CronStep

LEMMA CronInvStep == CronInv /\ [CronNext]_cronVars => CronInv' /\ CronStep
<1> SUFFICES ASSUME CronInv, [CronNext]_cronVars PROVE CronInv' /\ CronStep
    OBVIOUS
<1>1. CASE CronTick
      BY <1>1, CronTickStep
<1>2. CASE MinutePasses
  <2>1. minute' \in 0..LastMinute
        BY <1>2, CronAssumption DEF MinutePasses, CronInv, CronTypeOK
  <2> QED BY <1>2, <2>1 DEF MinutePasses, CronInv, CronTypeOK, Occurs, Local, CronStep
<1>3. CASE UNCHANGED cronVars
      BY <1>3 DEF cronVars, CronInv, CronTypeOK, Occurs, Local, CronStep
<1> QED BY <1>1, <1>2, <1>3 DEF CronNext

\* Every variable of a schedule has its type: what becomes a job is a minute of the
\* clock, never the exception of a search, and the cursor is an instant.
THEOREM CronTypeCorrect == CronSpec => []CronTypeOK
<1>1. CronInv /\ [CronNext]_cronVars => CronInv'
      BY CronInvStep
<1>2. CronInv => CronTypeOK
      BY DEF CronInv
<1> QED BY <1>1, <1>2, CronInvInit, PTL DEF CronSpec

\* Two of the three parts of OccurrencesKept, for every zone, expression, policy and
\* bound (TicksSucceed depends on the bounds): a tick of scheduler.py creates what the
\* misfire policy means where no minute of local time repeats, and elsewhere creates
\* only occurrences that were due, each once, and loses repeated minutes only.
THEOREM CronOccurrencesExact == CronSpec => ExactWithoutRepeats /\ OnlyRepeatsLost
<1> DEFINE Exact == nextRun' # nextRun /\ zone.shift >= 0 =>
                        /\ created' \ created = Meant
                        /\ nextRun' = Least({u \in (minute + 1)..Far : Occurs(u)})
           Lost == nextRun' # nextRun =>
                       /\ Occurs(nextRun')
                       /\ created' \ created = Chosen
                       /\ Chosen \subseteq Pending
                       /\ \A u \in (minute + 1)..(nextRun' - 1) : Occurs(u) => Repeated(u)
<1>1. CronInv /\ [CronNext]_cronVars => CronInv'
      BY CronInvStep
<1>2. CronInv /\ [CronNext]_cronVars => [Exact]_cronVars
      BY CronInvStep DEF CronStep
<1>3. CronInv /\ [CronNext]_cronVars => [Lost]_cronVars
      BY CronInvStep DEF CronStep
<1>4. CronSpec => ExactWithoutRepeats
      BY <1>1, <1>2, CronInvInit, PTL DEF CronSpec, ExactWithoutRepeats
<1>5. CronSpec => OnlyRepeatsLost
      BY <1>1, <1>3, CronInvInit, PTL DEF CronSpec, OnlyRepeatsLost
<1> QED BY <1>4, <1>5

-----------------------------------------------------------------------------
(* The three processes together                                              *)

ProcessesInv == WorkerInv /\ SchedulerInv /\ CronInv

\* Whichever part a behaviour is of, the worker, the schedules and the expansion keep
\* their types: none of them needs the others to stand still for it.
THEOREM ProcessesTypeCorrect == ProcessesSpec => []ProcessesTypeOK
<1>1. ProcessesInit => ProcessesInv
      BY WorkerInitInv, SchedulerInitInv, CronInvInit DEF ProcessesInit, ProcessesInv
<1>2. ProcessesInv /\ [ProcessesNext]_processesVars => ProcessesInv'
  <2> SUFFICES ASSUME ProcessesInv, [ProcessesNext]_processesVars PROVE ProcessesInv'
      OBVIOUS
  <2>1. [WorkerNext]_workerVars /\ [Next]_vars /\ [CronNext]_cronVars
        BY Zenon DEF ProcessesNext, Others, processesVars
  <2> QED BY <2>1, WorkerStepInv, SchedulerStepInv, CronInvStep DEF ProcessesInv
<1>3. ProcessesInv => ProcessesTypeOK
      BY WorkerInvTyped DEF ProcessesInv, ProcessesTypeOK, SchedulerInv, CronInv
<1> QED BY <1>1, <1>2, <1>3, PTL DEF ProcessesSpec

=============================================================================
