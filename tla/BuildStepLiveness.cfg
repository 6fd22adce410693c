SPECIFICATION FairAll
CONSTANTS
  Components = {"step", "deliveries", "takeover"}
  Worker = {w1}
  Reader = {r1, r2}
  Body = {b1}
  None = None
  MaxProof = 2
  MaxRevision = 2
  MaxFaults = 1
  Task = {w1, w2}
  Line = {i1, i2}
  Episode = {e1}
  MaxCrashes = 1
  Staff = {w1}
PROPERTIES
  ArmedIsSettled
  UnknownIsConcluded
  LinkSettles
CHECK_DEADLOCK FALSE
