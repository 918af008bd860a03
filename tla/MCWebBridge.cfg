SPECIFICATION FairSpec
CONSTANTS
  a = a
  b = b
  Browsers = {a, b}
  Requests <- Asked
  Asks <- ByBrowser
  NoRequest = NoRequest
INVARIANTS
  ClientOutlivesHandlers
  EndsAreAccounted
PROPERTIES
  EverythingEnds
CHECK_DEADLOCK FALSE
