CONSTANTS
  Thread = {p1, p2}
  Limit = 2
  DefaultRtt = 1
  MaxCost = 4
  Reported = {4}
  MaxTime = 3
  Decay <- Halved
SPECIFICATION Spec
SYMMETRY Symmetry
INVARIANT ScoreIsConservative
