SPECIFICATION Spec
CONSTANTS
  Languages = {"en-US"}
  Chunks = {0, 1}
  Buffers = {2}
  MaxBytes = 1
  MaxMessages = 3
INVARIANT UtteranceEndIsReported
CHECK_DEADLOCK FALSE
