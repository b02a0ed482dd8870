SPECIFICATION FairSpec
CONSTANTS
  Task = {t1, t2}
  Writer = {hostWriter, w1}
  NoWriter = NoWriter
  NoLease = NoLease
  HostWriter = hostWriter
  AppendType = {"task.worker.event", "task.worker.input", "task.worker.turn.completed", "task.worker.turn.failed"}
  LeaseTtl = 3
  MaxTime = 2
  MaxWorkerEvents = 1
  MayCrash = FALSE
  LateSubmits = FALSE
INVARIANTS LiveTaskHasExecutor
PROPERTIES EveryTaskSettles ExecutorsEnd
CHECK_DEADLOCK FALSE
