SPECIFICATION Spec
CONSTANTS
  a = a
  b = b
  Masters = {m1, m2}
  Domains = {a, b}
  NoTask = NoTask
  MaxAstray = 1
  NoIntent = NoIntent
  Intents <- AllIntents
  Parallel = TRUE
  RetryCount = 2
  OneAtATime = TRUE
SYMMETRY Symmetric
INVARIANTS
  UpdateOverSilence
  AnsweredOffHold
  CompletedMeansServed
CHECK_DEADLOCK FALSE
