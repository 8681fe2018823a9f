SPECIFICATION Spec
CONSTANTS
  Handlers = {h1, h2}
  Items = {i1, i2}
  Users = {u1, u2}
  Parties = {u1, u2}
  Addresses = {a1, a2}
  Records = {i1, i2}
  Folders = {a1, a2}
  Rows = {i1, i2}
  Pages = {u1, u2}
  Members = {a1, a2}
  InUse <- TwoTabs
  MaxCalls = 6
  MaxClicks = 4
INVARIANTS
  ReferencedIsKept
  SecondCopyAgrees
  ResolvedIsOwn
  PartsFollow
  ChannelsAgree
  EditsSurvive
PROPERTIES
  OthersAreKept
SYMMETRY Symmetric
CHECK_DEADLOCK FALSE
