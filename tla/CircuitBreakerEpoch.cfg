CONSTANTS
  Caller = {c1, c2, c3}
  FailureThreshold = 1
  SuccessThreshold = 2
  OpenFor = 1
  ProbeLimit = 1
  MaxTime = 3
SPECIFICATION Spec
SYMMETRY Symmetry
PROPERTY EpochIsolation
