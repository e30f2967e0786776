CONSTANTS
  world_size = 2
  output_rank = 0
  MaxCalls = 2
SPECIFICATION FairSpec
CHECK_DEADLOCK FALSE
INVARIANTS TypeOK RepliesMatchCalls FuturesSettleInOrder
PROPERTIES NoCallHangs FailureReachesEngine
