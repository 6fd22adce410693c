SPECIFICATION AllSpec
CONSTANTS
  Components = {"outbox", "unit"}
  t1 = t1  t2 = t2
  e1 = e1  o1 = o1  o2 = o2
  Tenant = {t1, t2}
  Row = {e1, o1, o2}
  Flusher = {f1, f2}
  None = None
  Nobody = Nobody
  TenantOf <- Owner
  Expansion = {e1}
  Slots = 2
  RoundLimit = 2
  Before <- ById
  Watched = {t2}
  MaxRollbacks = 1
  MaxRepairs = 0
  Material = {m1}
  Group = {g1}
  Ad = {}
  Readback = {}
  Cta = cta
  Campaign = campaign
  ParentOf <- ChainParent
  GroupMaterial <- SharedMaterial
  Worker = {w1, w2}
  Limit = 2
  LateExpansion = FALSE
  Restores = FALSE
  MaxRetries = 1
  MaxCrashes = 1
INVARIANTS
  OutboxInv
  BoundedBypass
  DependenciesFirst
  NothingForgotten
  StatusIsCurrent
SYMMETRY Alikes
CHECK_DEADLOCK FALSE
