SPECIFICATION Spec
CONSTANTS
  p1 = p1
  p2 = p2
  p3 = p3
  c1 = c1
  c2 = c2
  c3 = c3
  Parent = {p1, p2, p3}
  Child = {p1, p2, p3}
  Plan <- SingleChildPlans
  Task = {t1, t2, t3}
  NoTask = NoTask
  NoChild = NoChild
  MaxConcurrency = 1
  MaxBatch = 2
  MayCrash = TRUE
  MayLose = FALSE
  MayFail = TRUE
INVARIANTS TypeOK WorkersAreTracked CompletionEvidenced OvershootBounded
PROPERTIES GraphIsFinal
SYMMETRY ParentSymmetry
CHECK_DEADLOCK FALSE
