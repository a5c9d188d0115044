SPECIFICATION FairSpec
CONSTANTS
  PutLengths = {0, 1, 2}
  GetLengths = {1, 2, 3}
  MaxBytes = 5
  MaxEntries = 3
CHECK_DEADLOCK FALSE
PROPERTY MarkEndWakes
