SPECIFICATION FairSpec
CONSTANTS
  Chunks = {0, 1, 2}
  Buffers = {1, 3}
  MaxBytes = 5
CHECK_DEADLOCK FALSE
PROPERTY TurnEndReleases
