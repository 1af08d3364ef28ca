CONSTANTS
  Id <- Ids
  MaxU64 = 10
  Slice <- TwoCandidates
SPECIFICATION Spec
INVARIANT TicketIsBounded
