SPECIFICATION FairOutbox
CONSTANTS
  Components = {"outbox"}
  t1 = t1  t2 = t2
  e1 = e1  o1 = o1  o2 = o2
  Tenant = {t1, t2}
  Row = {e1, o1, o2}
  Flusher = {f1}
  None = None
  Nobody = Nobody
  TenantOf <- Owner
  Expansion = {e1}
  Slots = 2
  RoundLimit = 2
  Before <- ById
  Watched = {}
  MaxRollbacks = 1
  MaxRepairs = 1
  Material = {m1}
  Group = {g1}
  Ad = {}
  Readback = {}
  Cta = cta
  Campaign = campaign
  ParentOf <- ChainParent
  GroupMaterial <- SharedMaterial
  Worker = {w1}
  Limit = 2
  LateExpansion = FALSE
  Restores = FALSE
  MaxRetries = 0
  MaxCrashes = 0
PROPERTIES
  EveryRowIsPublished
CHECK_DEADLOCK FALSE
