SPECIFICATION LinkFairSpec
CONSTANTS
  Calls = {c1}
  MaxFaults = 2
  MaxRequests = 1
INVARIANTS
  SettledIsUsable
  TransferCarriesCid
PROPERTIES
  LinkComesBack
CHECK_DEADLOCK FALSE
