\* The retry route requeues a job that was claimed since it was read.
CONSTANTS
    j1 = j1
    w1 = w1
    w2 = w2
    o1 = o1
    NoJob = NoJob
    Jobs = {j1}
    Workers = {w1, w2}
    Operators = {o1}
    MaxRetries = 0
    MaxControls = 2
SPECIFICATION CompatSpec
SYMMETRY Symmetry
CHECK_DEADLOCK FALSE
INVARIANTS
    OneRunningAttempt
