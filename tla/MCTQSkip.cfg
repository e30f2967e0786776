SPECIFICATION LayerSpec
CONSTANTS
    LayerCounts <- MCLayerCounts
    HeadSizes <- MCHeadSizes
    SlidingPatterns <- MCSlidingPatterns
    QuantConfigs <- AllQuantConfigs
INVARIANTS
    SkipPatternsAccepted
CHECK_DEADLOCK FALSE
