SPECIFICATION FairSpec
CONSTANTS
  Turns = {t1}
  Enders = {e1}
  Opening = start_session
  MaxDogs = 3
  FirstMessage = TRUE
  AdaptersWork = TRUE
INVARIANTS
  LostByOverlap
PROPERTIES
  InStepEndsTheCall
CHECK_DEADLOCK FALSE
