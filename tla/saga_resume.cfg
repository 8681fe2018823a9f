SPECIFICATION FairSpec
CONSTANTS
  NSteps = 4
  Parallel = {2, 3}
  Domains = {1, 2, 3, 4}
  Domain <- OwnDomain
  Strategy <- SkipRollbackHalt
  RetryCount <- TwoAttempts
  Runs = {r1, r2}
  OneAtATime = TRUE
  OutlivesTTL = FALSE
INVARIANTS
  MarkedIsBacked
  OneBatchAtRisk
PROPERTIES
  RunEnds
  ImplementsWorkflow
CHECK_DEADLOCK FALSE
