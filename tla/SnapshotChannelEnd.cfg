CONSTANTS
  Stream = {s1}
  Waker = {w1}
  NoWaker = NoWaker
  MaxRevision = 2
SPECIFICATION Spec
INVARIANT EndsAfterLatest
CHECK_DEADLOCK FALSE
