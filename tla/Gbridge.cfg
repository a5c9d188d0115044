SPECIFICATION FairServerSpec
CONSTANTS
  c1 = c1
  c2 = c2
  Callers <- MCCallers
  Uris = {u1}
  Sessions = {1, 2}
  MaxRequests = 2
  ConnectionsMayClose = TRUE
  NoCaller = NoCaller
  NoUri = NoUri
  Words <- MCWords
  Environments <- MCEnvironments
  Arguments <- MCArguments
  Unknown <- MCUnknown
  Attached <- MCAttached
  Letter <- MCLetter
  Rest <- MCRest
  Number <- MCNumber
  Empty = ""
  Garbage = Garbage
INVARIANTS ServerTypeOK OptionsAsWritten DocumentedLevelsApply
PROPERTIES   StopJoins
CHECK_DEADLOCK FALSE
