\* Two users and one workspace; one account with two passwords; one key and two
\* jobs; five jobs in pages of two; two replicas of the task; two turns; one run of
\* the agent; one proposal and two requests; two administrators; one migration at
\* a time.
SPECIFICATION ServicesSpec
CONSTANTS
    Users = {a, b}
    Workspaces = {w}
    Clients = {c1, c2}
    WorkspaceRoles = {"admin", "viewer"}
    NoOne = NoOne
    People = {p1}
    Addresses = {i1, i2}
    Cookies = {k1, k2}
    LoginClients = {l1, l2}
    Nobody = Nobody
    MaxPair = 1
    MaxAddress = 1
    MaxSecrets = 1
    Keys = {k}
    Params = {1, 2}
    JobIds = {1, 2}
    Callers = {c1, c2}
    BatchSize = 1
    ListedIds = {1, 2, 3, 4, 5}
    Times = {1, 2}
    PageLimit = 2
    Replicas = {r1, r2}
    NoReplica = NoReplica
    Interval = 3
    MaxClock = 6
    Turns = {t1, t2}
    Processes = {x1, x2}
    NoTurn = NoTurn
    Evidence = {e}
    Texts = {x, y}
    MaxTools = 1
    MaxPieces = 2
    Proposals = {p}
    Reviews = {r1, r2}
    NoReview = NoReview
    LastMemory = 2
    MaxInjected = 1
    Admins = {a1, a2}
    Tenants = {w}
    LastConnection = 2
    LastChange = 3
    RetryCap = 1
    LastTry = 2
INVARIANTS
    ServicesTypeOK
    ListingComplete
    TurnsAreWhole
    
PROPERTIES
    AdministratorsKept
    CredentialsKept
    KeysHold
    
    
    ChoicesKept
    MigrationsAgree
CHECK_DEADLOCK FALSE
