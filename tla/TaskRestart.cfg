SPECIFICATION FairSpec
CONSTANTS
  Task = {t1}
  Writer = {hostWriter, w1}
  NoWriter = NoWriter
  NoLease = NoLease
  HostWriter = hostWriter
  AppendType = {"task.worker.event", "task.worker.input", "task.worker.turn.completed", "task.worker.turn.failed"}
  LeaseTtl = 2
  MaxTime = 2
  MaxWorkerEvents = 1
  MayCrash = TRUE
  LateSubmits = FALSE
PROPERTIES RestartResumesQueued
CHECK_DEADLOCK FALSE
