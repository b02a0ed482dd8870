SPECIFICATION FairSpec
CONSTANTS
  p1 = p1
  p2 = p2
  p3 = p3
  c1 = c1
  c2 = c2
  c3 = c3
  Parent = {p1, p2}
  Child = {c1, c2, c3}
  Plan <- MixedPlans
  Task = {t1, t2, t3}
  NoTask = NoTask
  NoChild = NoChild
  MaxConcurrency = 1
  MaxBatch = 1
  MayCrash = FALSE
  MayLose = FALSE
  MayFail = FALSE
PROPERTY PlansSettle
CHECK_DEADLOCK FALSE
