\* A worker of two slots and two batches, a shutdown at any moment: threads left
\* behind by the first batch take capacity from the second. Two schedules that
\* may both be due, a batch of one, two replicas, an operator at any moment.
\* Twelve minutes around a change of the clock in either direction, ticks at any
\* of them.
SPECIFICATION ProcessesSpec
CONSTANTS
    Slots = {e1, e2}
    MaxBatches = 2
    Schedules = {s1, s2}
    Replicas = {r1, r2}
    Crons <- SomeCrons
    Policies = {"skip", "run_once", "catch_up"}
    MaxCatchUp = 1
    BatchSize = 1
    Never = Never
    MaxTime = 2
    MaxEdits = 1
    Zones <- SomeZones
    Expressions <- SomeExpressions
    MisfirePolicies = {"skip", "run_once", "catch_up"}
    CatchUpLimit = 3
    MaxSteps = 6
    Day = 6
    NoInstant = NoInstant
    LastMinute = 12
    Far = 16
INVARIANTS
    ProcessesTypeOK
    CapacityExact
    CleanDrain
    CursorExact
PROPERTIES
    ShutdownEnds
    TicksKeepTime
    DueIsHandled
    OccurrencesKept
CHECK_DEADLOCK FALSE
