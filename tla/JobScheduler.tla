---------------------------- MODULE JobScheduler ----------------------------
(* Cron schedules and the replicas that turn their occurrences into jobs.    *)
(*                                                                           *)
(* Time is counted in minutes, the grain of cron; a cron expression is the   *)
(* set of its occurrences, which time zones and their changes only shift.    *)
(* A tick holds the rows it selected until it commits and skips those that   *)
(* another tick holds, so two ticks are as good as one after the other; what *)
(* matters is that the clock is read before the rows are locked.  The row    *)
(* version lets an operator's request succeed or be refused, as it does here.*)
EXTENDS Naturals, FiniteSets, FiniteSetsExt

CONSTANTS
    Schedules,
    Replicas,       \* scheduler processes
    Crons,          \* cron expressions: sets of occurrences
    Policies,       \* misfire policies in use
    MaxCatchUp,     \* max_catch_up
    BatchSize,      \* schedules of a tick
    Never,          \* the absent time
    MaxTime,        \* bound: the last minute
    MaxEdits        \* bound: updates, pauses and the like in one behaviour

Minutes == 0..MaxTime

ASSUME CronsAssumption ==
    \A cron \in Crons : cron \subseteq Nat /\ \E o \in cron : o > MaxTime
ASSUME TickPoliciesAssumption == Policies \subseteq {"skip", "run_once", "catch_up"}
ASSUME BoundsAssumption ==
    /\ MaxCatchUp \in Nat \ {0} /\ BatchSize \in Nat \ {0}
    /\ MaxTime \in Nat /\ MaxEdits \in Nat
ASSUME NeverAssumption == Never \notin Nat

VARIABLES
    now,        \* the clock
    sched,      \* [Schedules -> Row]: the rows of `job_schedules`
    jobs,       \* jobs enqueued: pairs of schedule_id and scheduled_for
    reading,    \* [Replicas -> time]: the clock as a tick in progress read it
    edits       \* operator actions taken so far

vars == <<now, sched, jobs, reading, edits>>

Row == [status : {"absent", "active", "paused", "archived"},
        cron : Crons, policy : Policies,
        next : (UNION Crons) \cup {Never}, last : Minutes \cup {Never}]

\* Rows of schedules, jobs and replicas keep their types.
TypeOK ==
    /\ now \in Minutes
    /\ sched \in [Schedules -> Row]
    /\ jobs \subseteq Schedules \X (Minutes \cup {Never})
    /\ reading \in [Replicas -> Minutes \cup {Never}]
    /\ edits \in 0..MaxEdits

Init ==
    /\ now = 0
    /\ sched \in [Schedules -> [status : {"absent"}, cron : Crons,
                                policy : Policies, next : {Never}, last : {Never}]]
    /\ jobs = {}
    /\ reading = [r \in Replicas |-> Never]
    /\ edits = 0

-----------------------------------------------------------------------------
(* Occurrences                                                               *)

\* A definition whose name ends in Fault is the definition after it with a
\* plausible bug.  No specification uses it: the properties must notice it.

\* The bound is inclusive.
NextOccurrenceFault(cron, t) == Min({o \in cron : o >= t})

NextOccurrence(cron, t) == Min({o \in cron : o > t})

Due(row, t) == {o \in row.cron : row.next <= o /\ o <= t}

Oldest(set, k) == {o \in set : Cardinality({p \in set : p < o}) < k}

\* The latest due occurrence is left for the next tick.
SelectedFault(row, t) ==
    IF row.policy = "catch_up" THEN Oldest(Due(row, t), MaxCatchUp - 1) ELSE {}

\* The occurrences that become jobs.  "skip" gives up those that are on time as
\* well as those that were missed.
Selected(row, t) ==
    LET due == Due(row, t) IN
    CASE due = {} -> {}
      [] row.policy = "skip" -> {}
      [] row.policy = "run_once" -> {Max(due)}
      [] row.policy = "catch_up" -> Oldest(due, MaxCatchUp)

Active(s, t) == sched[s].status = "active" /\ sched[s].next <= t

\* The cursor moves to the latest occurrence.
AdvancedFault(row, t) == [row EXCEPT !.next = Max(Due(row, t)), !.last = Max(Due(row, t))]

Advanced(row, t) ==
    [row EXCEPT !.next = NextOccurrence(row.cron, t),
                !.last = IF Due(row, t) = {} THEN @ ELSE Max(Due(row, t))]

-----------------------------------------------------------------------------
(* The scheduler                                                             *)

ClockTicks ==
    /\ now < MaxTime
    /\ now' = now + 1
    /\ UNCHANGED <<sched, jobs, reading, edits>>

StartTick(r) ==
    /\ reading[r] = Never
    /\ reading' = [reading EXCEPT ![r] = now]
    /\ UNCHANGED <<now, sched, jobs, edits>>

\* lock_due: the schedules longest due; the ones that tie may come in any order.
Batch(t) ==
    LET due == {s \in Schedules : Active(s, t)} IN
    {batch \in SUBSET due :
        /\ Cardinality(batch) = Min({BatchSize, Cardinality(due)})
        /\ \A s \in batch, u \in due \ batch : sched[s].next <= sched[u].next}

\* The unique index refuses a second job of an occurrence.
Refused(s, t) == \E o \in Selected(sched[s], t) : <<s, o>> \in jobs

\* One failure rolls the whole tick back.
Tick(r) ==
    LET t == reading[r] IN
    /\ t # Never
    /\ reading' = [reading EXCEPT ![r] = Never]
    /\ \E batch \in Batch(t) :
           IF \E s \in batch : Refused(s, t)
             THEN UNCHANGED <<sched, jobs>>
             ELSE /\ jobs' = jobs \cup
                         UNION {{s} \X Selected(sched[s], t) : s \in batch}
                  /\ sched' = [s \in Schedules |->
                         IF s \in batch THEN Advanced(sched[s], t) ELSE sched[s]]
    /\ UNCHANGED <<now, edits>>

\* The process ends, or the transaction fails: the handler or the queue of one
\* of the schedules may be gone.
CrashTick(r) ==
    /\ reading[r] # Never
    /\ reading' = [reading EXCEPT ![r] = Never]
    /\ UNCHANGED <<now, sched, jobs, edits>>

-----------------------------------------------------------------------------
(* The operators                                                             *)

Act(s, row) ==
    /\ edits < MaxEdits
    /\ edits' = edits + 1
    /\ sched' = [sched EXCEPT ![s] = row]
    /\ UNCHANGED <<now, reading>>

Create(s) ==
    /\ sched[s].status = "absent"
    /\ sched' = [sched EXCEPT ![s].status = "active",
                              ![s].next = NextOccurrence(sched[s].cron, now)]
    /\ UNCHANGED <<now, jobs, reading, edits>>

Live(s) == sched[s].status \in {"active", "paused"}

Pause(s) ==
    /\ sched[s].status = "active"
    /\ Act(s, [sched[s] EXCEPT !.status = "paused"])
    /\ UNCHANGED jobs

\* The cursor stays where it was: the misfire policy decides what to make up.
Resume(s) ==
    /\ sched[s].status = "paused"
    /\ sched' = [sched EXCEPT ![s].status = "active"]
    /\ UNCHANGED <<now, jobs, reading, edits>>

Archive(s) ==
    /\ Live(s)
    /\ Act(s, [sched[s] EXCEPT !.status = "archived"])
    /\ UNCHANGED jobs

\* An update that names a cron expression or a time zone, even the old one,
\* starts again from now; any other leaves the cursor alone.
Update(s) ==
    /\ Live(s)
    /\ \/ \E cron \in Crons :
              Act(s, [sched[s] EXCEPT !.cron = cron,
                                      !.next = NextOccurrence(cron, now)])
       \/ \E policy \in Policies : Act(s, [sched[s] EXCEPT !.policy = policy])
    /\ UNCHANGED jobs

\* An extra job that is no occurrence.
RunNow(s) ==
    /\ Live(s)
    /\ Act(s, sched[s])
    /\ jobs' = jobs \cup {<<s, Never>>}

Operate(s) == Pause(s) \/ Resume(s) \/ Archive(s) \/ Update(s) \/ RunNow(s)

Next ==
    \/ ClockTicks
    \/ \E r \in Replicas : StartTick(r) \/ Tick(r) \/ CrashTick(r)
    \/ \E s \in Schedules : Create(s) \/ Operate(s)

Spec == Init /\ [][Next]_vars

\* Some replica keeps ticking, whatever happens to the others and now and then
\* to itself.
FairTicks == \E r \in Replicas : WF_vars(StartTick(r)) /\ SF_vars(Tick(r))

FairSpec == Spec /\ FairTicks

-----------------------------------------------------------------------------
(* Properties                                                                *)

\* The cursor stands at an occurrence, after every occurrence that has a job and
\* never beyond one that is still to come: so no tick, however old the clock it
\* read, creates the job of an occurrence twice or steps over one.
CursorExact ==
    \A s \in Schedules : sched[s].status # "absent" =>
        /\ sched[s].next \in sched[s].cron
        /\ \A o \in sched[s].cron : now < o => sched[s].next <= o
        /\ \A o \in Minutes : <<s, o>> \in jobs => o < sched[s].next

\* last_scheduled_for is behind the cursor and only moves forward.
LastAdvances ==
    [][\A s \in Schedules : sched[s].last # Never =>
           /\ sched'[s].last # Never
           /\ sched'[s].last >= sched[s].last
           /\ sched'[s].last < sched'[s].next]_vars

\* An occurrence at which the cursor stands in its own minute has its job when the
\* cursor has passed: no off-by-one in the range of a tick, and no tick with an
\* older clock, costs the execution that is on time.  Only `skip` gives it up.
OnTimeRuns ==
    [][\A s \in Schedules :
           sched[s].next = now /\ sched'[s].next # now /\ edits' = edits
               => sched[s].policy = "skip" \/ <<s, now>> \in jobs']_vars

\* Ticks go forward, and run what is on time.
TicksKeepTime == LastAdvances /\ OnTimeRuns

\* A due schedule is always dealt with, by whichever replica.
DueIsHandled ==
    \A s \in Schedules : Active(s, now) ~> ~Active(s, now)

=============================================================================
