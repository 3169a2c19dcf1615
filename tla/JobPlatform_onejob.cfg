\* One job, two slots: a stale slot beside the current one, with retries,
\* reaping and an operator.
CONSTANTS
    j1 = j1
    w1 = w1
    w2 = w2
    o1 = o1
    NoJob = NoJob
    Jobs = {j1}
    Workers = {w1, w2}
    Operators = {o1}
    MaxRetries = 1
    MaxControls = 2
SPECIFICATION Spec
SYMMETRY Symmetry
CHECK_DEADLOCK FALSE
INVARIANTS
    IndInv
    OneLiveAttempt
    TokensUnique
    ResultIsWinners
    RetryBudget
    CancelledOnRequest
    SeenIsCurrent
PROPERTIES
    AttemptHistory
    ImplementsLifecycle
