SPECIFICATION Spec
CONSTANTS
  NSteps = 3
  Parallel = {1, 2}
  Domains = {1, 2, 3}
  Domain <- OwnDomain
  Strategy <- SkipRollbackHalt
  RetryCount <- OneAttempt
  Runs = {r1, r2}
  OneAtATime = FALSE
  OutlivesTTL = TRUE
INVARIANTS
  BatchesInOrder
  CompletedMeansAll
CHECK_DEADLOCK FALSE
