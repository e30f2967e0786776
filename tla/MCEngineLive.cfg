SPECIFICATION FairEngineSpec
CONSTANTS
    Requests = {r1, r2}
    NumGpuBlocks = 4
    NoHash = NoHash
    Tokens <- MCTokens
    Prompts <- MCPrompts
    BlockSize = 2
    MaxModelLen = 5
    MaxLookahead = 0
    EnableCaching = TRUE
    UseEagle = FALSE
    SkipReading = {r2}
    SchedulingModes = {TRUE, FALSE}
    MaxNumScheduledTokens = 3
    MaxNumRunningReqs = 2
    LongPrefillThreshold = 0
    ReserveFullIsl = TRUE
    MaxTokens = 4
    Eos = 9
    BatchQueueSize = 2
    NextToken <- MCNextToken
    Unknown = Unknown
    Garbage = 0
    MaxResets = 1
INVARIANTS
    ForcedResetSucceeds
    QueuesAgreeWithStatus
    WorkerKnowsRequests
    OutputSurvivesResets
PROPERTIES
    RefinesKVCacheManager
    EveryRequestFinishes
