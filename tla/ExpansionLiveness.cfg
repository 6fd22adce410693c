SPECIFICATION FairAll
CONSTANTS
  p1 = p1  p2 = p2  u1 = u1  u2 = u2  u3 = u3  u4 = u4  x = x  y = y
  cta = cta  campaign = campaign  readback = readback
  Preview = {p1}
  Unit = {u1, u2}
  Pair = {x, y}
  Key = {cta, campaign, readback}
  Request = {r1}
  Worker = {w1, w2}
  None = None
  PreviewOf <- OwnerOf
  PairOf <- Target
  Eligible = {u1, u2}
  UnitRank <- Order
  Blueprint <- Keys
  KeyRank <- KeyOrder
  EndRank = 4
  ParentKey <- Parents
  RevisionOf <- FirstRevision
  Limit = 3
  MaxEdits = 0
  MaxYields = 2
  MaxFaults = 3
  Dramas = 1  Accounts = 1  Groups = 1  DraftPage = 1  Steps = 2
  LastRevision = 2  MaxTroubles = 1
PROPERTIES
  AcceptedIsExpanded
  DraftsSettle
CHECK_DEADLOCK FALSE
