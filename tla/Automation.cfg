SPECIFICATION Spec
CONSTANTS
  Job = {j1, j2}
  Intent = {i1}
  Parent = {p1, p2, p3, p4, p5}
  NoRow = NoRow
  NoParent = NoParent
  EventType = {"task.completed"}
  Cooldown = {1}
  Budget = {2}
  RunAt = {1}
  Expiry = {2}
  MaxBatch = 2
  AuditWaits = TRUE
  MayCrash = TRUE
  MayFail = TRUE
  MaxTime = 2
  MaxDelegated = 1
INVARIANTS TypeOK KeepsTerms
PROPERTY StopEndsClaims
CHECK_DEADLOCK FALSE
