SPECIFICATION EngineSpec
CONSTANTS
    Requests = {r1, r2, r3}
    NumGpuBlocks = 4
    NoHash = NoHash
    Tokens <- MCTokens
    Prompts <- MCPrompts
    BlockSize = 2
    MaxModelLen = 5
    MaxLookahead = 0
    EnableCaching = TRUE
    UseEagle = FALSE
    SkipReading = {}
    SchedulingModes = {TRUE}
    MaxNumScheduledTokens = 3
    MaxNumRunningReqs = 3
    LongPrefillThreshold = 2
    ReserveFullIsl = FALSE
    MaxTokens = 3
    Eos = 9
    BatchQueueSize = 2
    NextToken <- MCNextToken
    Unknown = Unknown
    Garbage = 0
    MaxResets = 0
INVARIANTS
    EngineTypeOK
    QueuesAgreeWithStatus
    ArrivalOrderIsKept
    ScheduleAssertionsHold
    PlaceholdersMatchInFlight
    OutputIsModelText
    CachedEntriesAreRight
    WorkerKnowsRequests
    WorkerForgetsFinished
    RowsAgreeWithStates
    DecodesComeFirst
    CachedChainsStayReachable
SYMMETRY MCSymmetry
