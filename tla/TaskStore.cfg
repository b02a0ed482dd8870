SPECIFICATION MCSpec
CONSTANTS
  Task = {t1}
  Writer = {w1, w2}
  NoWriter = NoWriter
  AppendType = {"task.worker.event"}
  LeaseTtl = 1
  MaxTime = 2
  MaxVersion = 2
  MaxLog = 7
INVARIANTS StoreTypeOK OneActiveWriter NoStaleAppend OutboxFaithful
PROPERTIES TerminalIsFinal NoTakeover
CHECK_DEADLOCK FALSE
