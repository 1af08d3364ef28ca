CONSTANTS
  Key = {a, b}
  Initial <- InitialMembers
  Flaky = {b}
  Request = {q1}
  Limit = 1
  MaxUpdatesPerPoll = 1
  MaxRevision = 4
SPECIFICATION FairSpec
INVARIANT TypeOK
INVARIANT PoolMirrors
INVARIANT ReservationsAreKept
INVARIANT LoadIsOutstanding
PROPERTY GenerationsAreRetained
PROPERTY DispatchesAreEligible
PROPERTY EventuallyTaken
