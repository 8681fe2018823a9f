SPECIFICATION FairSpec
CONSTANTS
  Items = {i1}
  Jobs = {j1}
  Workers = {w1, w2}
  Deleters = {d1, d2}
  MaxEdits = 2
INVARIANTS
  RowsAndObjectsAgree
  UnsettledIsWorkedOn
PROPERTIES
  EvaluationsGoForward
  JobsEnd
CHECK_DEADLOCK FALSE
