SPECIFICATION LayerSpec
CONSTANTS
    LayerCounts <- MCLayerCounts
    HeadSizes <- MCHeadSizes
    SlidingPatterns <- MCSlidingPatterns
    QuantConfigs <- AllQuantConfigs
INVARIANTS
    ForwardSucceeds
CHECK_DEADLOCK FALSE
