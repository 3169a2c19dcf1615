--------------------------- MODULE WorkerProcess ----------------------------
(* One worker process, at the granularity of its event loop: the main loop   *)
(* (reap, run one batch of slots, wait), the slots of a batch, the threads    *)
(* that claim, execute and finalize for them, the local capacity they share, *)
(* the presence row of the process, and its graceful shutdown.                *)
(*                                                                           *)
(* The rows of the jobs are the subject of JobPlatform; here a slot only     *)
(* knows whether it claimed something and whether it finalized it.            *)
EXTENDS Naturals, FiniteSets

CONSTANTS
    Slots,          \* the slots of a batch, max_concurrency of them
    MaxBatches      \* bound: batches started in one behaviour

ASSUME SlotsAssumption == IsFiniteSet(Slots) /\ Slots # {}
ASSUME MaxBatchesAssumption == MaxBatches \in Nat

VARIABLES
    main,       \* where run() is
    batch,      \* number of the last batch started
    run,        \* [Runs -> SlotRun]: every run_once of every batch
    free,       \* value of the capacity semaphore
    stop,       \* the _shutdown_requested event
    timedOut,   \* the drain timeout cancelled the last batch
    presence,   \* the row of the process in `job_workers`
    beating     \* a thread of the presence heartbeat is writing

workerVars == <<main, batch, run, free, stop, timedOut, presence, beating>>

Concurrency == Cardinality(Slots)

Runs == (1..MaxBatches) \X Slots

Current == {r \in Runs : r[1] = batch}

MainState == {"registering", "polling", "reaping", "batch", "marking",
              "draining", "heartbeat", "waiting", "closing", "leaving",
              "stopped"}

\* `io` is the database work a thread does for the slot and `open` a claim that
\* was not finalized.  `thread` is the detached thread of a sync handler:
\* "returned" is one that delivered its result and has yet to give up its lease.
\* `lease` is a held unit of capacity.  The report "idle" stands for
\* "local_capacity" as well, and "final" for every committed final write.
SlotRun == [phase : {"none", "starting", "claiming", "handling", "finalizing",
                     "done"},
            io : {"none", "claim", "final"},
            open : BOOLEAN,
            thread : {"none", "running", "returned"},
            fenced : BOOLEAN,
            lease : BOOLEAN,
            report : {"none", "idle", "worker_error", "fenced", "final"}]

WorkerTypeOK ==
    /\ main \in MainState
    /\ batch \in 0..MaxBatches
    /\ run \in [Runs -> SlotRun]
    /\ free \in 0..Concurrency
    /\ stop \in BOOLEAN /\ timedOut \in BOOLEAN /\ beating \in BOOLEAN
    /\ presence \in [exists : BOOLEAN, draining : BOOLEAN, shutdown : BOOLEAN]

NewRun == [phase |-> "none", io |-> "none", open |-> FALSE, thread |-> "none",
           fenced |-> FALSE, lease |-> FALSE, report |-> "none"]

WorkerInit ==
    /\ main = "registering"
    /\ batch = 0
    /\ run = [r \in Runs |-> NewRun]
    /\ free = Concurrency
    /\ stop = FALSE /\ timedOut = FALSE /\ beating = FALSE
    /\ presence = [exists |-> FALSE, draining |-> FALSE, shutdown |-> FALSE]

-----------------------------------------------------------------------------
(* The capacity lease of a slot                                              *)

\* A definition whose name ends in Fault is the definition after it with a
\* plausible bug.  No specification uses it: the properties must notice it.

\* The detached thread is forgotten.
LeaseOverFault(row) == row.lease /\ row.phase = "done"

\* _release_if_done: the coroutine is done, and the handler thread if it started.
LeaseOver(row) == row.lease /\ row.phase = "done" /\ row.thread = "none"

\* Runs in `rows` are replaced, and give up their leases where these are over.
Updated(rows) ==
    LET over == {r \in DOMAIN rows : LeaseOver(rows[r])} IN
    /\ run' = [r \in Runs |->
                 IF r \in over THEN [rows[r] EXCEPT !.lease = FALSE]
                 ELSE IF r \in DOMAIN rows THEN rows[r]
                 ELSE run[r]]
    /\ free' = free + Cardinality(over)

Set(r, row) == Updated([x \in {r} |-> row])

Ended(row, report) ==
    [row EXCEPT !.phase = "done", !.fenced = FALSE, !.report = report]

-----------------------------------------------------------------------------
(* A slot: _run_slot_once, run_once and _run_once_with_capacity              *)

rest == <<main, batch, stop, timedOut, presence, beating>>

\* No slot is refused.
AcquireFault(r) ==
    /\ run[r].phase = "starting"
    /\ free' = free - 1
    /\ run' = [run EXCEPT ![r].phase = "claiming", ![r].io = "claim",
                          ![r].lease = TRUE]
    /\ UNCHANGED rest

\* The slot takes a unit of capacity and sends a thread to claim.
Acquire(r) ==
    /\ run[r].phase = "starting"
    /\ IF free = 0
         THEN /\ run' = [run EXCEPT ![r] = Ended(@, "idle")]
              /\ UNCHANGED free
         ELSE /\ free' = free - 1
              /\ run' = [run EXCEPT ![r].phase = "claiming", ![r].io = "claim",
                                    ![r].lease = TRUE]
    /\ UNCHANGED rest

\* The claim transaction ends: with a job, with none, or with an error before
\* or after its commit.  A claimed job starts its handler: a coroutine, one whose
\* payload is invalid, or a sync one in a thread of its own.  A slot that was
\* cancelled meanwhile is not there to hear of it, but the claim stands.
ClaimEnds(r) ==
    LET claim(open) == [run[r] EXCEPT !.io = "none", !.open = open] IN
    /\ run[r].io = "claim"
    /\ IF run[r].phase = "claiming"
         THEN \/ \E thread \in {"none", "running"} :
                     Set(r, [claim(TRUE) EXCEPT !.phase = "handling",
                                                !.thread = thread])
              \/ Set(r, Ended(claim(FALSE), "idle"))
              \/ \E open \in BOOLEAN : Set(r, Ended(claim(open), "worker_error"))
         ELSE \E open \in BOOLEAN : Set(r, claim(open))
    /\ UNCHANGED rest

\* A sync handler returns or raises and delivers that to the event loop.
ThreadReturns(r) ==
    /\ run[r].thread = "running"
    /\ Set(r, [run[r] EXCEPT !.thread = "returned"])
    /\ UNCHANGED rest

\* mark_thread_done
ThreadDone(r) ==
    /\ run[r].thread = "returned"
    /\ Set(r, [run[r] EXCEPT !.thread = "none"])
    /\ UNCHANGED rest

\* The heartbeat of the attempt fails or finds the fence lost.
FenceLost(r) ==
    /\ run[r].phase = "handling"
    /\ ~run[r].fenced
    /\ Set(r, [run[r] EXCEPT !.fenced = TRUE])
    /\ UNCHANGED rest

\* The slot sees the lost fence while the handler is at work: it cancels the
\* coroutine, reports, and leaves a thread that cannot be killed behind.
Abandon(r) ==
    /\ run[r].phase = "handling"
    /\ run[r].fenced
    /\ Set(r, Ended(run[r], "fenced"))
    /\ UNCHANGED rest

\* The slot hears from the handler.  A result is not submitted without the
\* fence; an error is, whatever the heartbeat learned.
HandlerEnds(r) ==
    /\ run[r].phase = "handling"
    /\ run[r].thread # "running"
    /\ \/ run[r].fenced /\ Set(r, Ended(run[r], "fenced"))
       \/ Set(r, [run[r] EXCEPT !.phase = "finalizing", !.io = "final"])
    /\ UNCHANGED rest

\* The final transaction ends: it closed the claim or found it lost, or it
\* failed, before or after its commit.
FinalEnds(r) ==
    LET wrote(open) == [run[r] EXCEPT !.io = "none", !.open = open] IN
    /\ run[r].io = "final"
    /\ IF run[r].phase = "finalizing"
         THEN \/ Set(r, Ended(wrote(FALSE), "final"))
              \/ \E open \in BOOLEAN : Set(r, Ended(wrote(open), "worker_error"))
         ELSE \E open \in BOOLEAN : Set(r, wrote(open))
    /\ UNCHANGED rest

SlotStep(r) ==
    \/ Acquire(r) \/ ClaimEnds(r) \/ FenceLost(r) \/ Abandon(r)
    \/ HandlerEnds(r) \/ FinalEnds(r)

-----------------------------------------------------------------------------
(* Presence writes.  Each is tried three times and then given up.            *)

slots == <<batch, run, free, timedOut>>

\* _register_presence, which is _heartbeat_presence as well.
Registered == [exists |-> TRUE, draining |-> FALSE, shutdown |-> FALSE]

MarkedDraining == [presence EXCEPT !.draining = presence.exists]

MarkedShutdown == [presence EXCEPT !.shutdown = presence.exists]

BestEffort(row) == presence' \in {presence, row}

PresenceTaskAlive == main \notin {"registering", "closing", "leaving", "stopped"}

\* The heartbeat interval of the process has passed.
BeatStarts ==
    /\ PresenceTaskAlive
    /\ ~beating
    /\ beating' = TRUE
    /\ UNCHANGED <<main, slots, stop, presence>>

\* Its thread writes, even if the task that sent it was cancelled since.
BeatEnds ==
    /\ beating
    /\ beating' = FALSE
    /\ BestEffort(Registered)
    /\ UNCHANGED <<main, slots, stop>>

-----------------------------------------------------------------------------
(* The main loop: run                                                        *)

RequestShutdown ==
    /\ ~stop
    /\ stop' = TRUE
    /\ UNCHANGED <<main, slots, presence, beating>>

\* main moves with nothing but a presence write.
Move(from, to, row) ==
    /\ main = from
    /\ main' = to
    /\ BestEffort(row)
    /\ UNCHANGED <<slots, stop, beating>>

Go(from, to) == Move(from, to, presence)

Register == Move("registering", "polling", Registered)

\* What is left of a slot when its batch is over: perhaps a thread.
Leftover(row) == [row EXCEPT !.open = FALSE, !.report = "none"]

\* gather starts every slot of the next batch.
StartBatch ==
    /\ batch < MaxBatches
    /\ main' = "batch"
    /\ batch' = batch + 1
    /\ run' = [r \in Runs |-> IF r[1] = batch + 1
                              THEN [NewRun EXCEPT !.phase = "starting"]
                              ELSE Leftover(run[r])]
    /\ UNCHANGED <<free, stop, timedOut, presence, beating>>

\* The top of the loop: leave, reap if the interval has passed, or run a batch.
Poll ==
    \/ stop /\ Go("polling", "closing")
    \/ ~stop /\ batch < MaxBatches /\ Go("polling", "reaping")
    \/ ~stop /\ main = "polling" /\ StartBatch

\* The reaper returned or failed; the loop goes on with a batch.
Reaped == main = "reaping" /\ StartBatch

\* One slot that fails ends the batch.
BatchOverFault ==
    \/ \A r \in Current : run[r].phase = "done"
    \/ \E r \in Current : run[r].report = "worker_error"

\* gather returns once every slot has: _run_slot_once turns errors into reports.
BatchOver == \A r \in Current : run[r].phase = "done"

BatchEnds ==
    /\ main \in {"batch", "draining"}
    /\ BatchOver
    /\ main' = "heartbeat"
    /\ UNCHANGED <<slots, stop, presence, beating>>

\* Shutdown is seen before the end of the batch.
NoticeShutdown == stop /\ ~BatchOver /\ Go("batch", "marking")

MarkDraining == Move("marking", "draining", MarkedDraining)

\* Nothing bounds the drain.
DrainTimesOutFault == FALSE /\ UNCHANGED workerVars

\* The drain timeout cancels what is left of the batch.  Threads go on: a claim
\* or a final write in flight still commits, a handler still runs.
DrainTimesOut ==
    LET left == {r \in Current : run[r].phase # "done"} IN
    /\ main = "draining"
    /\ left # {}
    /\ main' = "closing"
    /\ timedOut' = TRUE
    /\ Updated([r \in left |-> [run[r] EXCEPT !.phase = "done", !.fenced = FALSE]])
    /\ UNCHANGED <<batch, stop, presence, beating>>

\* The heartbeat after a batch, and the decision what to do next.
AfterBatch ==
    \E to \in {"closing", "waiting", "polling"} :
        /\ Move("heartbeat", to, Registered)
        /\ to = "closing" <=> stop
        /\ to = "waiting" => \A r \in Current : run[r].report \in {"idle", "worker_error"}
        /\ to = "polling" => \E r \in Current : run[r].report \in {"fenced", "final"}

\* A notification, the poll interval or, without notifications, the shutdown.
Wake == Go("waiting", "polling")

CloseDraining == Move("closing", "leaving", MarkedDraining)

CloseShutdown == Move("leaving", "stopped", MarkedShutdown)

MainStep ==
    \/ Register \/ Poll \/ Reaped \/ BatchEnds \/ NoticeShutdown \/ MarkDraining
    \/ DrainTimesOut \/ AfterBatch \/ Wake \/ CloseDraining \/ CloseShutdown

WorkerNext ==
    \/ MainStep \/ RequestShutdown \/ BeatStarts \/ BeatEnds
    \/ \E r \in Runs : SlotStep(r) \/ ThreadReturns(r) \/ ThreadDone(r)

WorkerSpec == WorkerInit /\ [][WorkerNext]_workerVars

\* The event loop runs what is ready, database calls end and timeouts expire.
\* Nothing makes a sync handler return, and nobody has to ask for a shutdown.
Fairness ==
    /\ WF_workerVars(MainStep)
    /\ WF_workerVars(BeatEnds)
    /\ \A r \in Runs : WF_workerVars(Acquire(r) \/ ClaimEnds(r) \/ Abandon(r)
                                 \/ FinalEnds(r))
    /\ \A r \in Runs : WF_workerVars(ThreadDone(r))

WorkerFairSpec == WorkerSpec /\ Fairness

-----------------------------------------------------------------------------
(* Properties                                                                *)

\* What a slot occupies: its coroutine from the claim on, and its thread for as
\* long as that lives.
Busy(r) ==
    \/ run[r].phase \in {"claiming", "handling", "finalizing"}
    \/ run[r].thread # "none"

\* The semaphore counts exactly the slots that are busy, so that handlers left
\* behind by a lost fence still count against max_concurrency, and no unit of
\* capacity is lost or returned twice whichever of coroutine and thread is last.
CapacityExact ==
    free + Cardinality({r \in Runs : Busy(r)}) = Concurrency

\* A batch that was not timed out is over with nothing half done, before a
\* shutdown as before the next batch: every slot was heard of, no transaction is
\* in flight, and a claim is open only where a fence was lost or a transaction
\* failed.
CleanDrain ==
    main \in {"heartbeat", "waiting", "polling", "reaping", "closing", "leaving",
              "stopped"} /\ ~timedOut =>
        \A r \in Runs :
            /\ run[r].phase \in {"none", "done"}
            /\ run[r].io = "none"
            /\ run[r].open => run[r].report \in {"fenced", "worker_error"}

\* A requested shutdown ends, though handlers may never return.
ShutdownEnds == stop ~> main = "stopped"

Stage(row) ==
    IF row.shutdown THEN 2 ELSE IF row.draining THEN 1 ELSE 0

\* "presence progresses live -> draining -> shutdown": no write takes the row
\* of a process back to an earlier stage.
PresenceProgresses == [][Stage(presence') >= Stage(presence)]_workerVars

=============================================================================
