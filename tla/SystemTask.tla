----------------------------- MODULE SystemTask -----------------------------
(* The periodic task of a deployment without the job platform: replicas of   *)
(* the scheduler loop that lease one row of system_task_state.               *)
(*                                                                           *)
(* A tick is one transaction.  It reads the row (ensure), waits for its lock *)
(* (SELECT FOR UPDATE), decides, runs the handler and closes the run, and    *)
(* commits at the very end.  The row that was read first is the object all   *)
(* of this works on: the later SELECT returns it without refreshing it.      *)
EXTENDS Naturals

CONSTANTS
    Replicas,
    NoReplica,
    Interval,   \* interval_seconds
    MaxClock    \* bound: the last instant

ASSUME TaskAssumption == Interval \in Nat \ {0} /\ MaxClock \in Nat \ {0}

VARIABLES
    clock,
    task,       \* the committed row: TaskRow
    tick        \* [Replicas -> Tick]

taskVars == <<clock, task, tick>>

\* `succeeded` is last_succeeded_at, 0 for never; `lockedBy` holds while
\* locked_until is set.
TaskRow ==
    [succeeded : 0..MaxClock, lockedBy : Replicas \cup {NoReplica},
     lockedUntil : 0..(MaxClock + Interval), status : {"new", "running", "succeeded", "failed"}]

\* `now` is the instant of the tick, `row` the object of its session.
Tick ==
    [pc : {"idle", "waiting", "running"}, now : 0..MaxClock, force : BOOLEAN, row : TaskRow]

NewTask == [succeeded |-> 0, lockedBy |-> NoReplica, lockedUntil |-> 0, status |-> "new"]
NoTick == [pc |-> "idle", now |-> 0, force |-> FALSE, row |-> NewTask]

TaskTypeOK ==
    /\ clock \in 1..MaxClock
    /\ task \in TaskRow
    /\ tick \in [Replicas -> Tick]

TaskInit ==
    /\ clock = 1
    /\ task = NewTask
    /\ tick = [r \in Replicas |-> NoTick]

-----------------------------------------------------------------------------
\* A definition whose name ends in Fault is the definition after it with a
\* plausible bug.  No specification uses it: the properties must notice it.

\* The start of the last run counts, whatever became of it.
IsDueFault(row, now) == row.status = "new" \/ now >= row.succeeded

\* _is_due: by the last success alone.
IsDue(row, now) == row.succeeded = 0 \/ now - row.succeeded >= Interval

LeasedByOther(r, row, now) ==
    row.lockedBy \notin {r, NoReplica} /\ row.lockedUntil > now

TimePasses ==
    /\ clock < MaxClock
    /\ clock' = clock + 1
    /\ UNCHANGED <<task, tick>>

\* The loop sleeps, reads the clock and then the row.
StartTaskTick(r, f) ==
    /\ tick[r].pc = "idle"
    /\ tick' = [tick EXCEPT ![r] = [pc |-> "waiting", now |-> clock, force |-> f, row |-> task]]
    /\ UNCHANGED <<clock, task>>

\* try_lease, once no other transaction has the lock of the row.
TryLease(r) ==
    LET t == tick[r] IN
    /\ t.pc = "waiting"
    /\ \A other \in Replicas : tick[other].pc # "running"
    /\ tick' = [tick EXCEPT ![r] =
          IF LeasedByOther(r, t.row, t.now) \/ ~(t.force \/ IsDue(t.row, t.now)) THEN NoTick
          ELSE [t EXCEPT !.pc = "running",
                         !.row = [t.row EXCEPT !.lockedBy = r, !.status = "running",
                                               !.lockedUntil = t.now + Interval]]]
    /\ UNCHANGED <<clock, task>>

\* mark_succeeded or mark_failed and the commit.  Only what changed on the
\* object is written: a failure leaves last_succeeded_at as it is by now.
Close(r, s) ==
    LET row == tick[r].row IN
    /\ tick[r].pc = "running"
    /\ task' = [row EXCEPT !.status = s, !.lockedBy = NoReplica, !.lockedUntil = 0,
                           !.succeeded = IF s = "succeeded" THEN clock ELSE task.succeeded]
    /\ tick' = [tick EXCEPT ![r] = NoTick]
    /\ UNCHANGED clock

\* The process or its connection is lost: the lease is rolled back with the rest.
Lost(r) ==
    /\ tick[r].pc # "idle"
    /\ tick' = [tick EXCEPT ![r] = NoTick]
    /\ UNCHANGED <<clock, task>>

TaskNext ==
    \/ TimePasses
    \/ \E r \in Replicas :
          \/ \E f \in BOOLEAN : StartTaskTick(r, f)
          \/ TryLease(r) \/ Lost(r)
          \/ \E s \in {"succeeded", "failed"} : Close(r, s)

TaskSpec == TaskInit /\ [][TaskNext]_taskVars

-----------------------------------------------------------------------------
\* No crash and no failure leaves the lease behind: it is never seen by another
\* transaction, so a task is never kept from running by a replica that is gone.
LeaseNeverLeft == task.lockedBy = NoReplica

Succeeds(r) == tick[r].pc = "running" /\ tick'[r].pc = "idle" /\ task'.status = "succeeded"

\* Two successes of the periodic task are an interval apart, unless the second
\* was forced or its transaction had read the row before the first committed.
IntervalKept ==
    [][\A r \in Replicas :
          Succeeds(r) /\ task # task' /\ task.succeeded # 0 /\ clock - task.succeeded < Interval =>
              tick[r].force \/ tick[r].row.succeeded # task.succeeded]_taskVars

\* No replica that crashes keeps the task from running, and none runs it early.
TaskKeepsTime ==
    /\ []LeaseNeverLeft
    /\ IntervalKept

=============================================================================
