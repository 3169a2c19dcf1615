\* The clock is put back.
SPECIFICATION CronSpec
CONSTANTS
    Zones <- SomeZones
    Expressions <- SomeExpressions
    MisfirePolicies = {"skip", "run_once", "catch_up"}
    CatchUpLimit = 3
    MaxSteps = 6
    Day = 6
    NoInstant = NoInstant
    LastMinute = 12
    Far = 16
PROPERTY RepeatedTwice
CHECK_DEADLOCK FALSE
