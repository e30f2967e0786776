SPECIFICATION Spec
CONSTANTS
    Requests = {r1, r2}
    NumBlocks = 4
    BlockSize = 2
    HeadSize = 2
    Centroids <- MCCentroids
    Tokens <- MCTokens
    MaxSeqLen = 3
    MaxBatch = 2
INVARIANTS
    ReadsBackWhatWasStored
    ReadsBackNearestCentroid
SYMMETRY Symmetry
