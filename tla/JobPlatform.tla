---------------------------- MODULE JobPlatform -----------------------------
(* The durable job platform: the rows of `jobs` and `job_attempts`, the      *)
(* worker slots that execute claims, the reaper, the clock and the operators *)
(* of the control plane.                                                     *)
(*                                                                           *)
(* One action is one database transaction (each locks the job row it writes, *)
(* or writes it conditionally), one step of the worker coroutine between two *)
(* awaits, a failure, or the passing of time.  Which due job a claim picks   *)
(* and the concurrency limits are the subject of ClaimAdmission; here a      *)
(* claim takes any due job.                                                  *)
EXTENDS Naturals, Sequences

CONSTANTS
    Jobs,           \* job ids
    Workers,        \* execution slots, over all worker processes
    Operators,      \* clients of the control plane
    NoJob,          \* the absent job reference
    MaxRetries,     \* max_retries of the handlers' retry policy
    MaxControls     \* bound: operator actions in one behaviour

ASSUME NoJobAssumption == NoJob \notin Jobs
ASSUME MaxRetriesAssumption == MaxRetries \in Nat
ASSUME MaxControlsAssumption == MaxControls \in Nat

VARIABLES
    job,        \* [Jobs -> JobRow]: the rows of `jobs`
    attempts,   \* [Jobs -> Seq(Attempt)]: the rows of `job_attempts` by number
    exec,       \* [Workers -> Execution]: local state of the worker slots
    seen,       \* [Operators -> Snapshot]: the job an operator last looked at
    controls,   \* operator actions taken so far
    granted     \* history: attempt_count at the last operator requeue

dbVars == <<job, attempts, granted>>
vars == <<job, attempts, exec, seen, controls, granted>>

-----------------------------------------------------------------------------
(* Types *)

Terminal == {"succeeded", "dead_letter", "cancelled"}

\* "absent" is a job id that has not been enqueued yet.
JobStatus == {"absent", "queued", "running", "blocked"} \cup Terminal

AttemptStatus == {"running", "succeeded", "retryable_failed", "blocked",
                  "dead_letter", "expired", "cancelled"}

\* What a handler raises, by the class the worker tells apart.
Failures == {"retryable", "blocked", "permanent", "cancelled"}

\* `due` is run_after <= now; `result` is the number of the attempt whose
\* result_json is stored; `finished` is finished_at IS NOT NULL.
JobRow == [status : JobStatus, due : BOOLEAN, current : Nat,
           retryCount : Nat, cancelRequested : BOOLEAN, finished : BOOLEAN,
           version : Nat, result : Nat]

\* `lapsed` is lease_expires_at <= now.
Attempt == [status : AttemptStatus, lapsed : BOOLEAN]

\* `fenced` is the lost_fence event of the execution.
Execution == [phase : {"idle", "executing", "finalizing"},
              job : Jobs \cup {NoJob}, attempt : Nat, fenced : BOOLEAN,
              outcome : {"none", "result"} \cup Failures]

Snapshot == [job : Jobs \cup {NoJob}, status : JobStatus, current : Nat,
             version : Nat]

\* Rows, attempts, slots and snapshots keep their types.
TypeOK ==
    /\ job \in [Jobs -> JobRow]
    /\ attempts \in [Jobs -> Seq(Attempt)]
    /\ exec \in [Workers -> Execution]
    /\ seen \in [Operators -> Snapshot]
    /\ controls \in Nat
    /\ granted \in [Jobs -> Nat]

-----------------------------------------------------------------------------
(* Initial state *)

NewRow == [status |-> "absent", due |-> FALSE, current |-> 0,
           retryCount |-> 0, cancelRequested |-> FALSE, finished |-> FALSE,
           version |-> 1, result |-> 0]

Idle == [phase |-> "idle", job |-> NoJob, attempt |-> 0, fenced |-> FALSE,
         outcome |-> "none"]

Blank == [job |-> NoJob, status |-> "absent", current |-> 0, version |-> 0]

Init ==
    /\ job = [j \in Jobs |-> NewRow]
    /\ attempts = [j \in Jobs |-> << >>]
    /\ exec = [w \in Workers |-> Idle]
    /\ seen = [o \in Operators |-> Blank]
    /\ controls = 0
    /\ granted = [j \in Jobs |-> 0]

-----------------------------------------------------------------------------
(* Helpers *)

\* A definition whose name ends in Fault is the definition after it with a
\* plausible bug.  No specification uses it: the properties must notice it.

\* The owner is not compared.
HoldsFault(j, a) == job[j].status = "running"

\* The fence of every heartbeat and final write: the job is running and its
\* current attempt is the one that writes.
Holds(j, a) == job[j].status = "running" /\ job[j].current = a

Write(j, row) == job' = [job EXCEPT ![j] = row]

\* The history of a job with the status, or the lease, of one attempt replaced.
WithStatus(history, a, status) == [history EXCEPT ![a].status = status]

\* The lease is extended whatever is asked.
WithLeaseFault(history, a, lapsed) == [history EXCEPT ![a].lapsed = FALSE]

WithLease(history, a, lapsed) == [history EXCEPT ![a].lapsed = lapsed]

\* The owner is kept.
ReleasedOwnerFault(row) == [row EXCEPT !.version = @ + 1]

\* The version is not bumped.
ReleasedVersionFault(row) == [row EXCEPT !.current = 0]

\* The row without its owner.
Released(row) == [row EXCEPT !.current = 0, !.version = @ + 1]

\* The job leaves the running state: _finish_attempt and the assignments its
\* callers make before it.  `row` is the job row with the caller's assignments.
FinishAttempt(j, a, row, attemptStatus) ==
    /\ Write(j, Released(row))
    /\ attempts' = [attempts EXCEPT ![j] = WithStatus(@, a, attemptStatus)]

Requeued(row) == [row EXCEPT !.status = "queued", !.due = FALSE,
                             !.finished = FALSE]

\* finished_at is not set.
DeadLetteredFault(row) == [row EXCEPT !.status = "dead_letter"]

DeadLettered(row) == [row EXCEPT !.status = "dead_letter", !.finished = TRUE]

\* One more failure charged to the automatic retry budget.
Charged(row) == [row EXCEPT !.retryCount = @ + 1]

\* One too many.
BudgetLeftFault(row) == row.retryCount <= MaxRetries + 1

BudgetLeft(row) == row.retryCount <= MaxRetries

-----------------------------------------------------------------------------
(* Enqueue, claim and heartbeat *)

Enqueue(j) ==
    /\ job[j].status = "absent"
    /\ \E due \in BOOLEAN :
           Write(j, [job[j] EXCEPT !.status = "queued", !.due = due])
    /\ UNCHANGED <<attempts, exec, seen, controls, granted>>

\* Numbers the attempts by the retries, which an operator may reset.
NextNumberFault(j) == job[j].retryCount + 1

\* The token of the next attempt of a job.
NextNumber(j) == Len(attempts[j]) + 1

\* claim_from_queue commits: a fresh attempt becomes the fencing token.
Claim(w, j) ==
    LET number == NextNumber(j) IN
    /\ exec[w].phase = "idle"
    /\ job[j].status = "queued"
    /\ job[j].due
    /\ attempts' = [attempts EXCEPT
           ![j] = Append(@, [status |-> "running", lapsed |-> FALSE])]
    /\ Write(j, [job[j] EXCEPT !.status = "running", !.current = number,
                               !.version = @ + 1])
    /\ exec' = [exec EXCEPT ![w] = [Idle EXCEPT !.phase = "executing",
                                                !.job = j,
                                                !.attempt = number]]
    /\ UNCHANGED <<seen, controls, granted>>

Renew(j, a) == attempts' = [attempts EXCEPT ![j] = WithLease(@, a, FALSE)]

\* The heartbeat task renews the lease, or learns that the fence is lost and
\* ends.  It runs beside the handler until the slot is done.
Heartbeat(w) ==
    LET j == exec[w].job  a == exec[w].attempt IN
    /\ exec[w].phase # "idle"
    /\ ~exec[w].fenced
    /\ IF Holds(j, a)
         THEN Renew(j, a) /\ UNCHANGED exec
         ELSE exec' = [exec EXCEPT ![w].fenced = TRUE] /\ UNCHANGED attempts
    /\ UNCHANGED <<job, seen, controls, granted>>

\* The heartbeat raises, before or after its commit took effect.
HeartbeatFails(w) ==
    LET j == exec[w].job  a == exec[w].attempt IN
    /\ exec[w].phase # "idle"
    /\ ~exec[w].fenced
    /\ exec' = [exec EXCEPT ![w].fenced = TRUE]
    /\ \/ UNCHANGED attempts
       \/ Holds(j, a) /\ Renew(j, a)
    /\ UNCHANGED <<job, seen, controls, granted>>

-----------------------------------------------------------------------------
(* The worker slot after its claim *)

Leave(w) == exec' = [exec EXCEPT ![w] = Idle]

FinalizeAs(w, outcome) ==
    exec' = [exec EXCEPT ![w].phase = "finalizing", ![w].outcome = outcome]

\* The slot notices the lost fence first and cancels the handler.
Abandon(w) ==
    /\ exec[w].phase = "executing"
    /\ exec[w].fenced
    /\ Leave(w)
    /\ UNCHANGED <<dbVars, seen, controls>>

\* The handler returns; a result is not submitted once the fence is known lost.
HandlerReturns(w) ==
    /\ exec[w].phase = "executing"
    /\ IF exec[w].fenced THEN Leave(w) ELSE FinalizeAs(w, "result")
    /\ UNCHANGED <<dbVars, seen, controls>>

\* The handler raises; a failure is submitted whatever the heartbeat learned.
HandlerRaises(w) ==
    /\ exec[w].phase = "executing"
    /\ \E failure \in Failures : FinalizeAs(w, failure)
    /\ UNCHANGED <<dbVars, seen, controls>>

Succeed(j, a) ==
    FinishAttempt(j, a, [job[j] EXCEPT !.status = "succeeded",
                                       !.finished = TRUE, !.result = a],
                  "succeeded")

\* _complete commits; a stale attempt changes nothing and reports "fenced".
Complete(w) ==
    LET j == exec[w].job  a == exec[w].attempt IN
    /\ exec[w].phase = "finalizing" /\ exec[w].outcome = "result"
    /\ IF Holds(j, a) THEN Succeed(j, a) ELSE UNCHANGED <<job, attempts>>
    /\ Leave(w)
    /\ UNCHANGED <<seen, controls, granted>>

\* _complete raises and the slot finalizes the error instead: the result is
\* invalid or too large, the transaction was rolled back, or its commit took
\* effect and only the acknowledgement was lost.
CompleteRaises(w) ==
    LET j == exec[w].job  a == exec[w].attempt IN
    /\ exec[w].phase = "finalizing" /\ exec[w].outcome = "result"
    /\ \/ Holds(j, a) /\ FinalizeAs(w, "permanent") /\ UNCHANGED <<job, attempts>>
       \/ FinalizeAs(w, "retryable") /\ UNCHANGED <<job, attempts>>
       \/ Holds(j, a) /\ FinalizeAs(w, "retryable") /\ Succeed(j, a)
    /\ UNCHANGED <<seen, controls, granted>>

RetryableFailure(j, a) ==
    LET row == Charged(job[j]) IN
    IF BudgetLeft(row)
      THEN FinishAttempt(j, a, Requeued(row), "retryable_failed")
      ELSE FinishAttempt(j, a, DeadLettered(row), "dead_letter")

Block(j, a) ==
    FinishAttempt(j, a, [job[j] EXCEPT !.status = "blocked",
                                       !.finished = FALSE], "blocked")

DeadLetter(j, a) == FinishAttempt(j, a, DeadLettered(job[j]), "dead_letter")

\* Nobody asks whether a cancellation was requested.
ConfirmCancelledFault(j, a) ==
    FinishAttempt(j, a, [job[j] EXCEPT !.status = "cancelled",
                                       !.finished = TRUE], "cancelled")

\* Refused, with the job left running, when nobody asked for a cancellation.
ConfirmCancelled(j, a) ==
    IF job[j].cancelRequested
      THEN FinishAttempt(j, a, [job[j] EXCEPT !.status = "cancelled",
                                              !.finished = TRUE], "cancelled")
      ELSE UNCHANGED <<job, attempts>>

ApplyFailure(j, a, failure) ==
    \/ failure = "retryable" /\ RetryableFailure(j, a)
    \/ failure = "blocked" /\ Block(j, a)
    \/ failure = "permanent" /\ DeadLetter(j, a)
    \/ failure = "cancelled" /\ ConfirmCancelled(j, a)

\* _finalize_error commits.
FinalizeError(w) ==
    LET j == exec[w].job  a == exec[w].attempt IN
    /\ exec[w].phase = "finalizing" /\ exec[w].outcome \in Failures
    /\ IF Holds(j, a)
         THEN ApplyFailure(j, a, exec[w].outcome)
         ELSE UNCHANGED <<job, attempts>>
    /\ Leave(w)
    /\ UNCHANGED <<seen, controls, granted>>

\* The slot ends without a final write: the process is killed, the drain
\* timeout cancels it, or the database refuses the transaction of
\* _finalize_error.  The job stays running until its lease lapses.
Crash(w) ==
    /\ exec[w].phase # "idle"
    /\ Leave(w)
    /\ UNCHANGED <<dbVars, seen, controls>>

-----------------------------------------------------------------------------
(* Time and the reaper *)

LeaseLapses(j) ==
    LET a == job[j].current IN
    /\ job[j].status = "running"
    /\ ~attempts[j][a].lapsed
    /\ attempts' = [attempts EXCEPT ![j] = WithLease(@, a, TRUE)]
    /\ UNCHANGED <<job, exec, seen, controls, granted>>

\* A job whose cancellation is pending is not scheduled again.
BecomesDueFault(j) ==
    /\ job[j].status = "queued" /\ ~job[j].cancelRequested
    /\ ~job[j].due
    /\ Write(j, [job[j] EXCEPT !.due = TRUE])
    /\ UNCHANGED <<attempts, exec, seen, controls, granted>>

BecomesDue(j) ==
    /\ job[j].status = "queued"
    /\ ~job[j].due
    /\ Write(j, [job[j] EXCEPT !.due = TRUE])
    /\ UNCHANGED <<attempts, exec, seen, controls, granted>>

\* One expired attempt of a reaper batch.  `known` tells whether the registry
\* of the process that reaps has the job's handler version.
Reap(j) ==
    LET a == job[j].current  row == Charged(job[j]) IN
    /\ job[j].status = "running"
    /\ attempts[j][a].status = "running"
    /\ attempts[j][a].lapsed
    /\ \E known \in BOOLEAN :
           FinishAttempt(j, a,
               IF ~BudgetLeft(row) THEN DeadLettered(row)
               ELSE IF known THEN Requeued(row)
               ELSE [row EXCEPT !.status = "blocked", !.finished = FALSE],
               "expired")
    /\ UNCHANGED <<exec, seen, controls, granted>>

-----------------------------------------------------------------------------
(* The control plane: an operator looks at a job and then acts on what it    *)
(* saw, naming the version of the snapshot.                                  *)

Look(o, j) ==
    /\ job[j].status # "absent"
    /\ controls < MaxControls
    /\ seen' = [seen EXCEPT ![o] =
           [job |-> j, status |-> job[j].status, current |-> job[j].current,
            version |-> job[j].version]]
    /\ UNCHANGED <<dbVars, exec, controls>>

\* The condition of _optimistic_update and the accounting of the bound.
Act(o, j) ==
    /\ seen[o].job = j
    /\ seen[o].version = job[j].version
    /\ controls < MaxControls
    /\ controls' = controls + 1
    /\ seen' = [seen EXCEPT ![o] = Blank]

Cancel(o, j) ==
    /\ Act(o, j)
    /\ \/ /\ job[j].status \in {"queued", "blocked"}
          /\ Write(j, [job[j] EXCEPT !.status = "cancelled", !.current = 0,
                                     !.cancelRequested = TRUE,
                                     !.finished = TRUE, !.version = @ + 1])
       \/ /\ job[j].status = "running"
          /\ Write(j, [job[j] EXCEPT !.cancelRequested = TRUE,
                                     !.version = @ + 1])
    /\ UNCHANGED <<attempts, exec, granted>>

\* _requeue_control
Requeue(o, j, retryCount) ==
    /\ Act(o, j)
    /\ Write(j, [job[j] EXCEPT !.status = "queued", !.due = TRUE,
                               !.current = 0, !.finished = FALSE,
                               !.cancelRequested = FALSE,
                               !.retryCount = retryCount,
                               !.version = @ + 1])
    /\ granted' = [granted EXCEPT ![j] = Len(attempts[j])]
    /\ UNCHANGED <<attempts, exec>>

\* Any finished job may be retried.
RetryFault(o, j) ==
    /\ job[j].status \in Terminal
    /\ \E retryCount \in {0, job[j].retryCount} : Requeue(o, j, retryCount)

Retry(o, j) ==
    /\ job[j].status = "dead_letter"
    /\ \E retryCount \in {0, job[j].retryCount} : Requeue(o, j, retryCount)

Unblock(o, j) ==
    /\ job[j].status = "blocked"
    /\ Requeue(o, j, job[j].retryCount)

-----------------------------------------------------------------------------
(* Specification *)

SlotStep(w) ==
    \/ \E j \in Jobs : Claim(w, j)
    \/ Heartbeat(w) \/ HeartbeatFails(w) \/ Abandon(w)
    \/ HandlerReturns(w) \/ HandlerRaises(w)
    \/ Complete(w) \/ CompleteRaises(w) \/ FinalizeError(w) \/ Crash(w)

ControlStep(o, j) ==
    Look(o, j) \/ Cancel(o, j) \/ Retry(o, j) \/ Unblock(o, j)

Next ==
    \/ \E j \in Jobs : Enqueue(j) \/ LeaseLapses(j) \/ BecomesDue(j) \/ Reap(j)
    \/ \E w \in Workers : SlotStep(w)
    \/ \E o \in Operators, j \in Jobs : ControlStep(o, j)

Spec == Init /\ [][Next]_vars

\* What the running system guarantees without its operators: time passes, a
\* worker with a free slot keeps polling and reaping, handlers end, and a slot
\* that is not killed takes its next step.
Fairness ==
    /\ \A j \in Jobs :
           /\ WF_vars(LeaseLapses(j))
           /\ WF_vars(BecomesDue(j))
           /\ WF_vars(Reap(j))
           /\ WF_vars(\E w \in Workers : Claim(w, j))
    /\ \A w \in Workers :
           /\ WF_vars(Abandon(w) \/ HandlerReturns(w) \/ HandlerRaises(w))
           /\ WF_vars(Complete(w) \/ CompleteRaises(w) \/ FinalizeError(w))

FairSpec == Spec /\ Fairness

-----------------------------------------------------------------------------
(* Properties *)

\* At most one attempt of a job is running: the newest one, exactly while the
\* job is running and names it; every other attempt is closed.  The reaper, the
\* finalizers and the controls each clear both sides of this pair of rows.
OneLiveAttempt ==
    \A j \in Jobs :
        /\ job[j].status = "running" <=> job[j].current # 0
        /\ job[j].current \in {0, Len(attempts[j])}
        /\ \A n \in 1..Len(attempts[j]) :
               attempts[j][n].status = "running" <=> n = job[j].current

\* Two slots never work under one fencing token, however long a stale slot
\* survives the loss of its lease, and no slot holds a token not yet issued.
TokensUnique ==
    \A w \in Workers :
        exec[w].phase # "idle" =>
            /\ exec[w].attempt \in 1..Len(attempts[exec[w].job])
            /\ \A v \in Workers \ {w} :
                   \/ exec[v].job # exec[w].job
                   \/ exec[v].attempt # exec[w].attempt

\* The stored result is that of the one attempt recorded as succeeded, and is
\* there exactly when the job is: a job is not finalized twice, by a slot whose
\* commit acknowledgement was lost or by a stale one.
ResultIsWinners ==
    \A j \in Jobs :
        /\ job[j].status = "succeeded" <=> job[j].result # 0
        /\ \A n \in 1..Len(attempts[j]) :
               attempts[j][n].status = "succeeded" <=> n = job[j].result

\* Closed attempts are history: no later finalization, heartbeat, reaping or
\* control rewrites the outcome an attempt ended with, or drops an attempt.
KeepsHistory ==
    \A j \in Jobs :
        /\ Len(attempts'[j]) >= Len(attempts[j])
        /\ \A n \in 1..Len(attempts[j]) :
               attempts[j][n].status # "running" =>
                   attempts'[j][n].status = attempts[j][n].status

\* No step rewrites the outcome of a closed attempt or drops an attempt.
AttemptHistory == [][KeepsHistory]_vars

\* Between two operator requeues a job is executed at most MaxRetries + 1
\* times, counting crashed executions; blocking does not buy extra ones.
RetryBudget ==
    \A j \in Jobs : Len(attempts[j]) - granted[j] <= MaxRetries + 1

\* A job ends cancelled only on a request that was made in its current life:
\* a handler that raises JobCancelled unasked does not cancel it, and a request
\* does not survive an operator's requeue.
CancelledOnRequest ==
    \A j \in Jobs :
        /\ job[j].status = "cancelled" => job[j].cancelRequested
        /\ job[j].cancelRequested /\ job[j].status = "queued" =>
               Len(attempts[j]) > granted[j]

\* If the version an operator saw is still the version of the row, then so are
\* the status and the owner: no transition forgets to bump the version, so an
\* operator never acts on a state it did not see.
SeenIsCurrent ==
    \A o \in Operators, j \in Jobs :
        seen[o].job = j /\ seen[o].version = job[j].version =>
            /\ seen[o].status = job[j].status
            /\ seen[o].current = job[j].current

\* finished_at is set exactly on terminal jobs: retention selects by it, so an
\* open job that kept it, or a terminal one that lost it, would be treated wrong.
FinishedIffTerminal ==
    \A j \in Jobs : job[j].finished <=> job[j].status \in Terminal

\* The platform keeps the promise of JobLifecycle.
Lifecycle == INSTANCE JobLifecycle WITH
    state <- [j \in Jobs |-> job[j].status],
    token <- [j \in Jobs |-> Len(attempts[j])],
    result <- [j \in Jobs |-> job[j].result]

\* Every step of the platform is a step of the lifecycle or changes nothing of it.
ImplementsLifecycle == Lifecycle!Spec

Orphaned(j) ==
    /\ job[j].status = "running"
    /\ \A w \in Workers : ~(exec[w].job = j /\ exec[w].attempt = job[j].current)

\* A job whose slot died, was fenced by mistake or gave up is recovered by lease
\* expiry and the reaper, exhausted retry budget included.
OrphansRecovered == \A j \in Jobs : Orphaned(j) ~> ~Orphaned(j)

\* Every enqueued job comes to rest whatever fails on the way: crashes consume
\* the retry budget, and a pending cancellation does not strand a requeued job.
Settles ==
    \A j \in Jobs :
        job[j].status = "queued" ~> job[j].status \in Terminal \cup {"blocked"}

-----------------------------------------------------------------------------
(* The inductive invariant behind the state properties above *)

\* A slot names a job exactly when it is not idle.
SlotsHoldJobs ==
    \A w \in Workers :
        /\ exec[w].phase # "idle" => exec[w].job \in Jobs
        /\ exec[w].phase = "idle" => exec[w].job = NoJob

\* Executions since the last operator requeue against the retries charged: a
\* queued job has budget left or was granted one more execution by hand.
Used(j) == Len(attempts[j]) - granted[j]

Budgeted ==
    \A j \in Jobs :
        /\ granted[j] <= Len(attempts[j])
        /\ Used(j) <= MaxRetries + 1
        /\ job[j].status = "absent" => Used(j) = 0
        /\ job[j].status = "queued" =>
               /\ Used(j) <= job[j].retryCount
               /\ job[j].retryCount <= MaxRetries \/ Used(j) = 0
        /\ job[j].status = "running" =>
               /\ Used(j) \in 1..(job[j].retryCount + 1)
               /\ job[j].retryCount <= MaxRetries \/ Used(j) = 1

\* Nobody cancels or looks at a job that was not enqueued, and no operator knows
\* a version the row has not reached.
SeenBounded ==
    /\ \A j \in Jobs : job[j].status = "absent" => ~job[j].cancelRequested
    /\ \A o \in Operators, j \in Jobs :
           seen[o].job = j => /\ job[j].status # "absent"
                              /\ seen[o].version <= job[j].version

\* Everything above at once, with what makes it hold step by step: row types,
\* slots that hold a job, and the accounting of the retry budget.
IndInv ==
    /\ TypeOK /\ OneLiveAttempt /\ SlotsHoldJobs /\ TokensUnique
    /\ ResultIsWinners /\ Budgeted /\ CancelledOnRequest /\ SeenBounded
    /\ SeenIsCurrent /\ FinishedIffTerminal

=============================================================================
