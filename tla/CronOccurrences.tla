-------------------------- MODULE CronOccurrences ---------------------------
(* The expansion of a cron expression in a time zone whose clock is put back *)
(* or forward, as one schedule lives through it.                             *)
(*                                                                           *)
(* An instant is a minute of UTC.  The expression is the set of the minutes   *)
(* of local time that it matches, and the search for occurrences goes through*)
(* these in local order, as croniter does, which knows no time zones.        *)
EXTENDS Integers, FiniteSets

CONSTANTS
    Zones,          \* [at, shift]: local time is UTC, and UTC + shift from `at` on
    Expressions,    \* cron expressions: sets of local minutes
    MisfirePolicies,\* misfire policies in use
    CatchUpLimit,   \* max_catch_up
    MaxSteps,       \* MAX_OCCURRENCES_PER_TICK, the bound of a search
    Day,            \* how far beyond the end a search looks past missing minutes
    NoInstant,      \* no instant
    LastMinute,     \* bound: the last minute of the clock
    Far             \* bound: the last minute any search may reach

ASSUME CronAssumption ==
    /\ \A z \in Zones : z.at \in Int /\ z.shift \in Int
    /\ \A e \in Expressions : e \subseteq Int
    /\ MisfirePolicies \subseteq {"run_once", "skip", "catch_up"}
    /\ CatchUpLimit \in Nat \ {0} /\ MaxSteps \in Nat \ {0} /\ Day \in Nat
    /\ LastMinute \in Nat /\ Far \in Nat /\ LastMinute < Far

VARIABLES zone, expression, policy,   \* the schedule
          minute, nextRun,            \* the clock and next_run_at
          created                     \* occurrences that became jobs

cronVars == <<zone, expression, policy, minute, nextRun, created>>

-----------------------------------------------------------------------------
(* Local time                                                                *)

Local(u) == IF u < zone.at THEN u ELSE u + zone.shift

\* _resolve_local_time: none for a minute left out, two for a repeated one.
Resolve(l) == {u \in {l, l - zone.shift} : Local(u) = l}

Least(S) == CHOOSE x \in S : \A y \in S : x <= y
Greatest(S) == CHOOSE x \in S : \A y \in S : y <= x

-----------------------------------------------------------------------------
(* The searches                                                              *)

\* A search that raised an exception.
Failed == {NoInstant}

Smallest(set, k) == {u \in set : Cardinality({v \in set : v < u}) < k}

Between(set, after, through) == {u \in set : after < u /\ u <= through}

\* The local minutes that schedule_occurrences goes through, in their order: those
\* after the minute of `after`, and that one when it is repeated within the range.
Candidates(after, through) ==
    {l \in expression : \/ l > Local(after)
                        \/ l = Local(after) /\ Between(Resolve(l), after, through) # {}}

\* The results when the candidates up to one have been looked at.
ResultsAt(after, through, l) ==
    {u \in (after + 1)..through :
        Local(u) \in expression /\ Local(after) <= Local(u) /\ Local(u) <= l}

\* A candidate behind the range.
Beyond(through, l) ==
    \/ Resolve(l) # {} /\ Least(Resolve(l)) > through
    \/ Resolve(l) = {} /\ l > Local(through) + Day

\* The candidates that the loop of schedule_occurrences may end at: it ends at the
\* first of them.
LoopEnds(after, through, limit) ==
    {l \in Candidates(after, through) :
        Cardinality(ResultsAt(after, through, l)) >= limit \/ Beyond(through, l)}

\* schedule_occurrences for after < through.
ScheduleOccurrences(after, through, limit) ==
    LET ends == LoopEnds(after, through, limit)
        last == Least(ends)
    IN IF \/ ends = {}
          \/ Cardinality({l \in Candidates(after, through) : l <= last}) > MaxSteps
       THEN Failed ELSE Smallest(ResultsAt(after, through, last), limit)

\* The same of latest_occurrence, which goes back from the minute of `through`.
BackEnds(after, through) ==
    {l \in expression : /\ l <= Local(through)
                        /\ \/ Between(Resolve(l), after, through) # {}
                           \/ Resolve(l) # {} /\ Greatest(Resolve(l)) <= after}

LatestOccurrence(after, through) ==
    LET ends == BackEnds(after, through)
        last == Greatest(ends)
        eligible == Between(Resolve(last), after, through)
    IN IF \/ ends = {}
          \/ Cardinality({l \in expression : last <= l /\ l <= Local(through)}) > MaxSteps
       THEN Failed
       ELSE IF eligible # {} THEN {Greatest(eligible)} ELSE {}

\* next_occurrence looks for one up to a horizon.
NextRuns(after) == ScheduleOccurrences(after, Far, 1)

NextFails(after) == NextRuns(after) = {} \/ NoInstant \in NextRuns(after)

\* A definition whose name ends in Fault is the definition after it with a
\* plausible bug.  No specification uses it: the properties must notice it.

\* The minute after is not looked at.
NextInstantFault(after) == Least(NextRuns(after + 1))

NextInstant(after) == Least(NextRuns(after))

-----------------------------------------------------------------------------
(* The schedule                                                              *)

CronTypeOK ==
    /\ zone \in Zones /\ expression \in Expressions /\ policy \in MisfirePolicies
    /\ minute \in 0..LastMinute
    /\ nextRun \in 0..Far
    /\ created \subseteq 0..LastMinute

CronInit ==
    /\ zone \in Zones /\ expression \in Expressions /\ policy \in MisfirePolicies
    /\ minute = 0
    /\ ~NextFails(0) /\ nextRun = NextInstant(0)
    /\ created = {}

\* A tick looks for what came after this, the cursor included.
RangeStart == nextRun - 1

Latest == LatestOccurrence(RangeStart, minute)

\* What becomes a job.
Chosen ==
    CASE policy = "run_once" -> Latest
      [] policy = "skip" -> {}
      [] policy = "catch_up" -> ScheduleOccurrences(RangeStart, minute, CatchUpLimit)

\* An exception in one of the three searches takes the whole tick with it.
Fails == NoInstant \in Latest \cup Chosen \/ NextFails(minute)

RunIsDue == nextRun <= minute

CronTick ==
    /\ RunIsDue
    /\ ~Fails
    /\ created' = created \cup Chosen
    /\ nextRun' = NextInstant(minute)
    /\ UNCHANGED <<zone, expression, policy, minute>>

MinutePasses ==
    /\ minute < LastMinute
    /\ minute' = minute + 1
    /\ UNCHANGED <<zone, expression, policy, nextRun, created>>

CronNext == CronTick \/ MinutePasses

CronSpec == CronInit /\ [][CronNext]_cronVars

-----------------------------------------------------------------------------
(* Properties                                                                *)

\* What the expression means: the instants whose local minute it matches.
Occurs(u) == Local(u) \in expression

Repeated(u) == \E v \in {u + zone.shift, u - zone.shift} : v # u /\ Local(v) = Local(u)

Pending == {u \in nextRun..minute : Occurs(u)}

\* The policies over what is due, as documented.
Meant ==
    CASE policy = "run_once" -> {Greatest(Pending)}
      [] policy = "skip" -> {}
      [] policy = "catch_up" -> Smallest(Pending, CatchUpLimit)

\* In a zone whose clock is never put back, over minutes left out as well, a tick
\* creates what its policy means and stops at the first occurrence to come.
ExactWithoutRepeats ==
    [][nextRun' # nextRun /\ zone.shift >= 0 =>
           /\ created' \ created = Meant
           /\ nextRun' = Least({u \in (minute + 1)..Far : Occurs(u)})]_cronVars

\* Where the clock is put back, what becomes a job is an occurrence that was due,
\* none becomes one twice, and the cursor passes over repeated minutes only.
OnlyRepeatsLost ==
    [][nextRun' # nextRun =>
           /\ Occurs(nextRun')
           /\ created' \ created = Chosen
           /\ Chosen \subseteq Pending
           /\ \A u \in (minute + 1)..(nextRun' - 1) : Occurs(u) => Repeated(u)]_cronVars

\* No change of the clock makes the search of a due schedule end in an exception,
\* which would end every later tick as well.
TicksSucceed == RunIsDue => ~Fails

\* Ticks over a change of the clock: exact where no minute repeats, no loss but of
\* repeated minutes, and no search that gives up.
OccurrencesKept ==
    /\ ExactWithoutRepeats
    /\ OnlyRepeatsLost
    /\ []TicksSucceed

\* "Repeated local times map to two distinct UTC instants and therefore produce
\* two occurrences": no tick moves the cursor past an occurrence to come.
RepeatedTwice ==
    [][\A u \in (minute + 1)..Far : Occurs(u) => nextRun' <= u]_cronVars

=============================================================================
