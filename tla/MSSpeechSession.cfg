SPECIFICATION FairSpec
CONSTANTS
  Chunks = {0, 1, 2}
  Buffers = {1, 3}
  MaxBytes = 5
INVARIANTS TypeOK CallbacksInsideCall StallIsRecorded DrainedCallsAreReleased
PROPERTIES PolledStreamEnds DrainedCallReturns
CHECK_DEADLOCK FALSE
