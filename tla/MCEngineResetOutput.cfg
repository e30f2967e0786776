SPECIFICATION EngineSpec
CONSTANTS
    Requests = {r1, r2}
    NumGpuBlocks = 4
    NoHash = NoHash
    Tokens <- MCTokens
    Prompts <- MCPrompts
    BlockSize = 2
    MaxModelLen = 5
    MaxLookahead = 0
    EnableCaching = TRUE
    UseEagle = FALSE
    SkipReading = {}
    SchedulingModes = {TRUE}
    MaxNumScheduledTokens = 3
    MaxNumRunningReqs = 2
    LongPrefillThreshold = 0
    ReserveFullIsl = FALSE
    MaxTokens = 3
    Eos = 9
    BatchQueueSize = 2
    NextToken <- MCNextToken
    Unknown = Unknown
    Garbage = 0
    MaxResets = 1
INVARIANTS
    OutputIsModelText
