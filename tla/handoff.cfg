SPECIFICATION Spec
CONSTANTS
  Calls = {c1}
  Desks = {d1, d2}
  Accepts = {a1, a2}
  MaxHandoffs = 2
SYMMETRY Symmetric
INVARIANTS
  UnclaimedIsOnOffer
  WaitingIsShown
CHECK_DEADLOCK FALSE
