SPECIFICATION LayerSpec
CONSTANTS
    LayerCounts <- MCLayerCounts
    HeadSizes <- MCHeadSizes
    SlidingPatterns <- MCSlidingPatterns
    QuantConfigs <- AllQuantConfigs
INVARIANTS
    SlotsFit
    ImplMatchesCache
    SkippedLayersUncompressed
CHECK_DEADLOCK FALSE
