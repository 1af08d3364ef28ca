CONSTANTS
  Stream = {s1}
  Waker = {w1, w2}
  NoWaker = NoWaker
  MaxRevision = 3
SPECIFICATION FairSpec
INVARIANT NoLostWakeup
PROPERTY ImplementsFeed
PROPERTY StreamsCatchUp
CHECK_DEADLOCK FALSE
