SPECIFICATION PaymentFairSpec
CONSTANTS
  Payers = {p1, p2}
  PayerAttempts = 2
  Dispatches = 1
  PayersOverlap = TRUE
  Callbacks = 2
INVARIANTS
  ReportedAfterAsked
PROPERTIES
  StepEnds
CHECK_DEADLOCK FALSE
