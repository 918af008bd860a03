SPECIFICATION Spec
CONSTANTS
  A = A
  B = B
  Serials <- BothSerials
  Buses <- AllBuses
  Unreadable = Unreadable
  NoSerial = NoSerial
  Configured <- AnyOrA
  None = None
  Context = Context
  Claim = Claim
  MaxOpens = 3
INVARIANTS
  ResourcesAccounted
  TrustIsJustified
