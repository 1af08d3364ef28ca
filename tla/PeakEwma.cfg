CONSTANTS
  Thread = {p1, p2, p3}
  Limit = 2
  DefaultRtt = 1
  MaxCost = 4
  Reported = {4}
  MaxTime = 2
  Decay <- Halved
SPECIFICATION Spec
SYMMETRY Symmetry
INVARIANT SlotsAreHeld
INVARIANT EstimateIsEarned
