SPECIFICATION Spec
CONSTANTS
  a = a
  b = b
  Clients = {a, b}
  MaxCalls = 2
  Asked <- Requests
  Ends <- Contexts
  NoRequest = NoRequest
  NoCall = NoCall
  MaxActiveRPCs = 2
  Firmwares <- Kinds
  FactorySettings <- Settings
  AutosetFinds <- Autosets
  MaxFaults = 1
  MaxInt32 = 1000
INVARIANTS
  SlotsAccounted
PROPERTIES
  RefusalsTouchNothing
  ExcessIsExplained
  OkMeansApplied
CHECK_DEADLOCK FALSE
