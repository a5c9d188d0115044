SPECIFICATION Spec
CONSTANTS
  Languages = {"en-US"}
  Chunks = {0, 1}
  Buffers = {2}
  MaxBytes = 1
  MaxMessages = 3
INVARIANTS TypeOK FinalsAreThePhrases InterimsAreOfOnePhrase LeaseCoversTurn UrlIsAsAsked
PROPERTY ImplementsCall
CHECK_DEADLOCK FALSE
