SPECIFICATION FairSpec
CONSTANTS
  PutLengths = {0, 1, 2}
  GetLengths = {1, 2, 3}
  MaxBytes = 5
  MaxEntries = 3
INVARIANTS TypeOK InOrder QueueHoldsTheRest FrontExists EndMeansDrained ShortOnlyAtEnd BlockedMeansShort
PROPERTIES EnoughDataReleases ImplementsStream
CHECK_DEADLOCK FALSE
