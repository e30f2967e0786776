CONSTANTS
  n_reader = 2
  Handles <- MCHandles
  TimedReaders = {2}
  MaxMessages = 3
SPECIFICATION FairSpec
CHECK_DEADLOCK FALSE
INVARIANTS NoReaderIsOverrun
PROPERTIES ImplementsBroadcast EveryMessageArrives ShutdownEndsReaders
