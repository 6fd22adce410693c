SPECIFICATION SafetySpec
CONSTANTS
  None = None
  Components = {"session", "refresh", "distribution", "share", "original", "recovery", "admission", "turn", "scan"}
  Task = {t1, t2}
  MaxCrashes = 1
  r1 = r1  r2 = r2  x1 = x1
  App = {r1, r2}  MaxAttempts = 2  MaxTroubles = 4
  Refresh = {r1, r2}  Authorization = {x1}  MaxRevision = 1
  Op = {c1, x1}  Source = {x1}  Dist = {r1, r2}  MaxSurprises = 1
  Share = {r1, r2}  Batch = {x1}
  Permit = {r1, r2}
  RecoveryRow = {x1}  LastStep = 3  PageSize = 2  MaxReopened = 1
  c1 = c1  c2 = c2  c3 = c3  c4 = c4  rate = rate  application = application  account = account
  Call = {c1, c2, c3, c4}  RateSet = {rate}  FlightSet = {application, account}
  SetsOf <- CallSets  Capacity <- Limit  LeaseOf <- Leases  Window = 2  Margin = 1  MaxClock = 4
  Party = {r1, r2, x1}  Wait = 2  TurnTime = 1
  Object = {r1, r2, x1, c1, c2}  Alike = {r1, r2}  RowsPerPage = 2  MaxChanges = 2
SYMMETRY Alikes
INVARIANTS
  SessionSafe
  RefreshSafe
  DistributionSafe
  ShareBatchSafe
  OriginalSafe
  RecoverySafe
  AdmissionSafe
  FairSafe
  ScanSafe
PROPERTY
  AnswersFollowQuestions
CHECK_DEADLOCK FALSE
