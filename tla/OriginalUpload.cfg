SPECIFICATION OriginalSpec
CONSTANTS
  None = None
  Task = {t1}
  MaxCrashes = 1
  Permit = {p1}
PROPERTIES
  UploadIsLookedUp
CHECK_DEADLOCK FALSE
