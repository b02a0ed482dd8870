SPECIFICATION FairSpec
CONSTANTS
  Job = {j1, j2}
  Intent = {i1, i2}
  Parent = {p1, p2, p3, p4, p5}
  NoRow = NoRow
  NoParent = NoParent
  EventType = {"task.completed"}
  Cooldown = {1}
  Budget = {2}
  RunAt = {1}
  Expiry = {1}
  MaxBatch = 1
  AuditWaits = TRUE
  MayCrash = FALSE
  MayFail = FALSE
  MaxTime = 1
  MaxDelegated = 1
PROPERTY AutomationGoesOn
CHECK_DEADLOCK FALSE
