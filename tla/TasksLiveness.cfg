SPECIFICATION Spec
CONSTANTS
  None = None
  Components = {"session", "refresh", "share", "original", "recovery", "turn"}
  Task = {t1}
  MaxCrashes = 1
  r1 = r1  r2 = r2  x1 = x1
  App = {r1}  MaxAttempts = 2  MaxTroubles = 3
  Refresh = {r1}  Authorization = {x1}  MaxRevision = 1
  Op = {}  Source = {}  Dist = {}  MaxSurprises = 0
  Share = {r1, r2}  Batch = {r1}
  Permit = {r1}
  RecoveryRow = {x1}  LastStep = 3  PageSize = 2  MaxReopened = 1
  c1 = c1  c2 = c2  c3 = c3  c4 = c4  rate = rate  application = application  account = account
  Call = {}  RateSet = {rate}  FlightSet = {application, account}
  SetsOf <- CallSets  Capacity <- Limit  LeaseOf <- Leases  Window = 2  Margin = 1  MaxClock = 0
  Party = {r1, r2, x1}  Wait = 2  TurnTime = 1
  Object = {}  Alike = {}  RowsPerPage = 2  MaxChanges = 0
PROPERTIES
  SessionRenewed
  JobsSettle
CHECK_DEADLOCK FALSE
