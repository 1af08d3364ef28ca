CONSTANTS
  Runner = {r1, r2}
  Untimed = {}
  Cancelling = {r2}
  HealthyThreshold = 2
  UnhealthyThreshold = 1
  Interval = 2
  Timeout = 1
  MaxCount = 2
  MaxGeneration = 1
  MaxTime = 4
SPECIFICATION FairSpec
INVARIANT TypeOK
INVARIANT OneReservation
INVARIANT StreakDecides
PROPERTY StaleProbesAreIgnored
PROPERTY CompletionsAreSpaced
PROPERTY HungProbesEnd
