SPECIFICATION AllSpec
CONSTANTS
  p1 = p1  p2 = p2  u1 = u1  u2 = u2  u3 = u3  u4 = u4  x = x  y = y
  cta = cta  campaign = campaign  readback = readback
  Preview = {p1, p2}
  Unit = {u1, u2, u3, u4}
  Pair = {x, y}
  Key = {cta, campaign, readback}
  Request = {r1, r2}
  Worker = {w1, w2}
  None = None
  PreviewOf <- OwnerOf
  PairOf <- Target
  Eligible = {u1, u3, u4}
  UnitRank <- Order
  Blueprint <- Keys
  KeyRank <- KeyOrder
  EndRank = 4
  ParentKey <- Parents
  RevisionOf <- FirstRevision
  Limit = 3
  MaxEdits = 1
  MaxYields = 1
  MaxFaults = 1
  Dramas = 2  Accounts = 2  Groups = 1  DraftPage = 1  Steps = 2
  LastRevision = 2  MaxTroubles = 1
SYMMETRY Symmetry
INVARIANTS
  EarliestIsIncluded
  NothingIsLeftOut
  NoEmptySubmission
  UnitsAreWhole
  DraftSafe
  ViewSafe
PROPERTIES
  ReadyIsFixed
CHECK_DEADLOCK FALSE
