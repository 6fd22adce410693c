SPECIFICATION FairUnit
CONSTANTS
  Components = {"unit"}
  t1 = t1  t2 = t2
  e1 = e1  o1 = o1  o2 = o2
  Tenant = {t1, t2}
  Row = {e1, o1, o2}
  Flusher = {f1}
  None = None
  Nobody = Nobody
  TenantOf <- Owner
  Expansion = {e1}
  Slots = 2
  RoundLimit = 2
  Before <- ById
  Watched = {}
  MaxRollbacks = 0
  MaxRepairs = 0
  Material = {m1}
  Group = {g1}
  Ad = {}
  Readback = {}
  Cta = cta
  Campaign = campaign
  ParentOf <- ChainParent
  GroupMaterial <- SharedMaterial
  Worker = {w1}
  Limit = 4
  LateExpansion = TRUE
  Restores = FALSE
  MaxRetries = 0
  MaxCrashes = 0
PROPERTIES
  EveryStepIsTakenUp
CHECK_DEADLOCK FALSE
