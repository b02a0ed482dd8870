---------------------------- MODULE TaskLifecycle ----------------------------
(***************************************************************************)
(* What the task orchestrator promises to those who submit tasks (the      *)
(* assistant supervisor through OrchestratorWorkerDispatcher, the HTTP     *)
(* task routes, the QQ task control): a task goes through one life, only   *)
(* the executor the host holds in memory settles it, and an outcome once   *)
(* observed never changes.  TaskOrchestrator implements it.                *)
(***************************************************************************)
CONSTANT Task

VARIABLES
  up,     \* the host process exists
  phase,  \* what dispatcher.observe reports of each task
  owned   \* tasks in the orchestrator's #active map

lifeVars == <<up, phase, owned>>

Outcome == {"completed", "failed", "cancelled"}

LifeTypeOK ==
  /\ up \in BOOLEAN
  /\ phase \in [Task -> {"absent", "running"} \cup Outcome]
  /\ owned \subseteq Task

LifeInit == up = TRUE /\ phase = [t \in Task |-> "absent"] /\ owned = {}

Submit(t) ==
  /\ up /\ phase[t] = "absent"
  /\ phase' = [phase EXCEPT ![t] = "running"]
  /\ owned' = owned \cup {t}
  /\ UNCHANGED up

\* The run, or a cancel request while the run is in memory, decides the outcome.
Settle(t, o) ==
  /\ t \in owned /\ phase[t] = "running"
  /\ phase' = [phase EXCEPT ![t] = o]
  /\ UNCHANGED <<up, owned>>

\* The run leaves memory.  With its writer lease expired it may leave a task
\* behind that still reads as running: nobody settles that task any more.
Retire(t) ==
  /\ t \in owned /\ owned' = owned \ {t}
  /\ UNCHANGED <<up, phase>>

\* The process ends, stopped or killed, and with it every run.
HostDown == up /\ up' = FALSE /\ owned' = {} /\ UNCHANGED phase

\* A new process starts with an empty #active map.
HostUp == ~up /\ up' = TRUE /\ UNCHANGED <<phase, owned>>

LifeNext ==
  \/ \E t \in Task : Submit(t) \/ Retire(t)
  \/ \E t \in Task, o \in Outcome : Settle(t, o)
  \/ HostDown
  \/ HostUp

LifeSpec == LifeInit /\ [][LifeNext]_lifeVars
=============================================================================
