----------------------------- MODULE MCTaskStore -----------------------------
(***************************************************************************)
(* TaskStore with its counters capped, for TLC.                            *)
(***************************************************************************)
EXTENDS TaskStore

CONSTANTS
  MaxTime,     \* bound: last tick of the clock
  MaxVersion,  \* bound: leases acquired per task
  MaxLog       \* bound: events per task

LogOpen(t) == Len(log[t]) < MaxLog

MCNext ==
  \/ now < MaxTime /\ Tick
  \/ \E t \in Task : CreateTask(t)
  \/ \E t \in Task, w \in Writer :
       task[t].version < MaxVersion /\ AcquireLease(t, w)
  \/ \E l \in issued : ReleaseLease(l)
  \/ \E l \in issued, to \in TaskState, type \in TransitionType \ {"task.started"} :
       LogOpen(l.task) /\ Transition(l, to, type)
  \/ \E l \in issued, type \in AppendType : LogOpen(l.task) /\ AppendEvent(l, type)

MCSpec == StoreInit /\ [][MCNext]_storeVars
=============================================================================
