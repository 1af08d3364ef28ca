CONSTANTS
  Id <- Ids
  MaxU64 = 1000
  MaxEpoch = 5
  LogCost <- Costs
  Generations = 2
  TrafficUnits = 100
  Policies <- AllPolicies
  Slices <- MCSlices
  Request = {1, 2}
  MaxCursor = 3
  Attempt = {t1, t2}
  Verdict = {"success", "cancelled"}
  Elapsed = {1, 2}
  Bounds <- MCBounds
  MaxCount = 3
  Windows <- MCWindows
  Weight <- MCWeights
  OutlierConfigs <- MCOutlierConfigs
  Workloads <- MCWorkloads
SPECIFICATION Spec
SYMMETRY Symmetry
INVARIANT TypeOK
INVARIANT PicksAreJustified
INVARIANT LoadIsRespected
INVARIANT CyclesAreExact
INVARIANT TablesAreCurrent
INVARIANT TrafficIsCovered
INVARIANT EachEventIsCountedOnce
INVARIANT SnapshotsAreIntervals
INVARIANT WindowIsExact
INVARIANT EjectionsAreCapped
PROPERTY OnlyChangedKeysMove
