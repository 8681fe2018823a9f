SPECIFICATION PageFairSpec
CONSTANTS
  Cids = {c1, c2}
  Statuses = {"offline", "available"}
  Fetches = {f1, f2}
  MaxActs = 3
  MaxDrops = 1
INVARIANTS
  RoomIsCall
  SwitchIsShown
  PageIsOfTheCall
PROPERTIES
  SupervisorCatchesUp
CHECK_DEADLOCK FALSE
