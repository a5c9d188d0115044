SPECIFICATION Spec
CONSTANTS
  c1 = c1
  c2 = c2
  u1 = u1
  u2 = u2
  Callers <- MCCallers
  Uris <- MCUris
  Sessions = {1, 2, 3}
  MaxRequests = 2
  ConnectionsMayClose = TRUE
  NoCaller = NoCaller
  NoUri = NoUri
SYMMETRY Symmetry
INVARIANT OfferedAreOpen
CHECK_DEADLOCK FALSE
