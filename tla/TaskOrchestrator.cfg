SPECIFICATION Spec
CONSTANTS
  Task = {t1, t2}
  Writer = {hostWriter, w1}
  NoWriter = NoWriter
  NoLease = NoLease
  HostWriter = hostWriter
  AppendType = {"task.worker.event", "task.worker.input", "task.worker.turn.completed", "task.worker.turn.failed"}
  LeaseTtl = 2
  MaxTime = 3
  MaxWorkerEvents = 1
  MayCrash = TRUE
  LateSubmits = TRUE
INVARIANTS TypeOK StopCancelsAll OneExecutor TurnsFaithful
PROPERTIES UsesStore LifeSpec
CHECK_DEADLOCK FALSE
