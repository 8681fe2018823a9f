SPECIFICATION FairSpec
CONSTANTS
  Gated = {g1, g2}
  Attempts = 2
  Overlap = FALSE
  Desks = {v1}
  MaxPosts = 1
  Direct = TRUE
INVARIANTS
  DecidedAfterAsked
PROPERTIES
  RequestReturns
CHECK_DEADLOCK FALSE
