CONSTANTS
  Caller = {c1, c2, c3}
  FailureThreshold = 2
  SuccessThreshold = 2
  OpenFor = 1
  ProbeLimit = 2
  MaxTime = 3
SPECIFICATION FairSpec
INVARIANT TypeOK
INVARIANT NoLeakedSlot
PROPERTY CooldownIsServed
PROPERTY SlotsAreFreed
