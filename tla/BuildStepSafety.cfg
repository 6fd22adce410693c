SPECIFICATION AllSpec
CONSTANTS
  Components = {"step", "links", "deliveries"}
  Worker = {w1, w2}
  Reader = {r1}
  Body = {b1, b2}
  None = None
  MaxProof = 4
  MaxRevision = 3
  MaxFaults = 2
  Task = {w1, w2}
  Line = {i1, i2}
  Episode = {e1, e2}
  MaxCrashes = 2
  Staff = {w1, w2}
SYMMETRY Symmetry
INVARIANTS
  IInv
  AtMostOneRequest
  FailedMeansUnsent
  SentBodyIsSaved
  WaitingBodyIsUsable
  ReceiptIsKept
  LinkSafe
PROPERTIES
  NoReplay
  ImplementsCreateOnce
CHECK_DEADLOCK FALSE
