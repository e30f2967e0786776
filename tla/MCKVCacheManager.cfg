SPECIFICATION Spec
CONSTANTS
    NumGpuBlocks = 4
    NoHash = NoHash
    Requests = {r1, r2}
    a = a
    b = b
    Tokens <- MCTokens
    Prompts <- MCPrompts
    BlockSize = 2
    MaxModelLen = 4
    MaxLookahead = 1
    EnableCaching = TRUE
    UseEagle = FALSE
    SkipReading = {}
INVARIANTS
    FreeQueueIsExact
    HashMapAgrees
    SharedBlocksAgree
    CachedBlocksAreFull
    OneWriterPerBlock
    AllocationNeverRaises
PROPERTY
    BlockTablesAppendOnly
