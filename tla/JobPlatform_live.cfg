\* Recovery and termination under the fairness of the running system.
CONSTANTS
    j1 = j1
    w1 = w1
    w2 = w2
    o1 = o1
    NoJob = NoJob
    Jobs = {j1}
    Workers = {w1, w2}
    Operators = {o1}
    MaxRetries = 1
    MaxControls = 1
SPECIFICATION FairSpec
CHECK_DEADLOCK FALSE
PROPERTIES
    OrphansRecovered
    Settles
