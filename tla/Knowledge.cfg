\* Two texts of one document, two handlers and three attempts; six chunks of
\* three documents.
SPECIFICATION KnowledgeSpec
CONSTANTS
    Contents = {A, B}
    ExternalIds = {"n"}
    Handlers = {h1, h2}
    NoContent = NoContent
    MaxVersions = 2
    MaxAttempts = 3
    Chunks = {1, 2, 3, 4, 5, 6}
    ChunkTable <- MCChunkTable
    Limits = {0, 1, 3}
    MaxLimit = 3
    Operators = {o}
    Watermarks = {w, v}
    NoWatermark = NoWatermark
    LastChunk = 2
    GraphLimit = 1
    Runs = {r1, r2}
    Models = {m, n}
    Nothing = Nothing
    LastOrdinal = 3
    BatchSize = 2
    MaxRetries = 1
    LastStart = 3
    LastEdit = 1
    LineTypes <- MCLineTypes
    MaxLines = 4
    Configs <- MCConfigs
INVARIANTS
    KnowledgeTypeOK
    ContentArrives
    
    ChunksCover
PROPERTIES
    GraphIsWhole
    IndexIsWhole
SYMMETRY KnowledgeSymmetry
CHECK_DEADLOCK FALSE
