\* One queue with room for one job: two jobs of a busy scope, one of each of two others.
SPECIFICATION AdmissionFairSpec
CONSTANTS
    Jobs <- OneJobs
    Claimers = {c1, c2}
    Queues = {"q1"}
    Scopes = {"s1", "s2", "s3"}
    Handlers = {"h1"}
    Keys = {}
    NoKey = "none"
    QueueOf <- OneQueueOf
    ScopeOf <- OneScopeOf
    HandlerOf <- OneHandlerOf
    KeyOf <- OneKeyOf
    Before <- ByNumber
    Lower <- ByHash
    QueueLimit = 1
    ScopeLimit = 0
    HandlerLimit = 0
    KeyLimit = 0
    Window = 2
    Invalid = {1}
PROPERTY ScopesServed
