SPECIFICATION LayerSpec
CONSTANTS
    LayerCounts <- MCLayerCounts
    HeadSizes <- MCHeadSizes
    SlidingPatterns <- MCSlidingPatterns
    QuantConfigs = {"modelslim"}
INVARIANTS
    FourBitCentroids
CHECK_DEADLOCK FALSE
