SPECIFICATION FairSpec
CONSTANTS
  d1 = d1
  d2 = d2
  v1 = v1
  v2 = v2
  Daemons = {d1, d2}
  Devices = {v1, v2}
  Serial <- OneEach
  Nobody = Nobody
  MaxStarts = 3
  MaxForeign = 1
INVARIANTS
  Ownership
  CleanExitMeansReleased
PROPERTIES
  RefusalsAreExplained
  LiveSocketStays
  EveryDaemonEnds
CHECK_DEADLOCK FALSE
