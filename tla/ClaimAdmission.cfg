\* Four jobs of one handler over two queues and two keys, claimed by two slots,
\* every limit set; the payload of the last job is refused.
SPECIFICATION AdmissionFairSpec
CONSTANTS
    Jobs <- AcrossJobs
    Claimers = {c1, c2}
    Queues = {"q1", "q2"}
    Scopes = {"s1", "s2"}
    Handlers = {"h1"}
    Keys = {"k1", "k2"}
    NoKey = "none"
    QueueOf <- AcrossQueueOf
    ScopeOf <- AcrossScopeOf
    HandlerOf <- AcrossHandlerOf
    KeyOf <- AcrossKeyOf
    Before <- ByNumber
    Lower <- ByHash
    QueueLimit = 2
    ScopeLimit = 1
    HandlerLimit = 2
    KeyLimit = 1
    Window = 2
    Invalid = {4}
INVARIANTS
    AdmissionTypeOK
    ClaimsHold
PROPERTIES
    TransactionsEnd
CHECK_DEADLOCK FALSE
