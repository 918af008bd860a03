SPECIFICATION Spec
CONSTANTS
  Long = Long
  Short = Short
  F = F
  G = G
  Clients = {Long, Short}
  RequestsOf <- MCRequestsOf
  Functions = {F, G}
  Companions = {G}
  Values <- MCValues
  Ignorable = {"mode"}
  Fitting <- MCFitting
  MaxObservations = 4
  None = None
  Unavailable = Unavailable
  Malformed = Malformed
  Unknown = Unknown
PROPERTIES
  OutcomeIsReported
  SuccessIsTrue
  SettingsFit
  EveryOperationReturns
