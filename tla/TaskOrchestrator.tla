-------------------------- MODULE TaskOrchestrator --------------------------
(***************************************************************************)
(* The host process's two executors over the task store:                   *)
(*   - runs, one per submitted task (task-orchestrator/src/orchestrator.ts *)
(*     with the runner of coding-task-runner.ts), and                      *)
(*   - worker turns, which continue a completed task's coding session      *)
(*     (apps/host/src/task-worker-session.ts),                             *)
(* together with cancellation, the graceful stop, process death at any     *)
(* transaction boundary and the restart, which begins with empty memory.   *)
(*                                                                         *)
(* JavaScript runs to completion: between two awaits nothing else of the   *)
(* process runs and no clock tick matters, but the process may die between *)
(* any two transactions.  So a synchronous stretch of several transactions *)
(* is several steps, and while one is under way (~Quiet) every other step  *)
(* but the death of the process waits.                                     *)
(***************************************************************************)
EXTENDS TaskStore, FiniteSets

CONSTANTS
  HostWriter,       \* writer id host-<taskId> of the runs
  NoLease,          \* an executor that holds no lease in memory
  MayCrash,         \* whether the process can be killed
  LateSubmits,      \* whether clients submit while a stopping host closes
  MaxTime,          \* bound: last tick of the clock
  MaxWorkerEvents   \* bound: runtime events of one run or turn

ASSUME OrchestratorAssumption ==
  /\ HostWriter \in Writer
  /\ NoLease \notin Lease
  /\ MayCrash \in BOOLEAN /\ LateSubmits \in BOOLEAN
  /\ MaxTime \in Nat /\ MaxWorkerEvents \in Nat
  /\ {"task.worker.event", "task.worker.input", "task.worker.turn.completed",
      "task.worker.turn.failed"} \subseteq AppendType

VARIABLES
  host,       \* the process: up, in the cancel loop of stop, closing, down
  run,        \* where #run of each task is; not "none" iff in #active
  aborted,    \* active.controller.signal.aborted
  lease,      \* active.lease
  turn,       \* where continue() is; not "none" iff in #activeChildren
  turnLease,  \* its lease
  toCancel,   \* tasks the loop of stop() has still to cancel
  atStop      \* history: tasks that were active when stop() began

memVars == <<host, run, aborted, lease, turn, turnLease, toCancel, atStop>>
vars == <<now, task, log, issued,
          host, run, aborted, lease, turn, turnLease, toCancel, atStop>>

RunPc == {"none", "creating", "starting", "executing", "verified", "releasing"}
TurnPc == {"none", "opening", "streaming", "releasing"}
TurnWriter == Writer \ {HostWriter}

\* No synchronous stretch is under way: the event loop is free.
Quiet ==
  /\ host \in {"up", "closing"}
  /\ \A t \in Task : run[t] \in {"none", "executing"} /\ turn[t] # "releasing"

Init ==
  /\ StoreInit
  /\ host = "up"
  /\ run = [t \in Task |-> "none"]
  /\ aborted = [t \in Task |-> FALSE]
  /\ lease = [t \in Task |-> NoLease]
  /\ turn = [t \in Task |-> "none"]
  /\ turnLease = [t \in Task |-> NoLease]
  /\ toCancel = {} /\ atStop = {}

SetRun(t, pc) ==
  /\ run' = [run EXCEPT ![t] = pc]
  /\ UNCHANGED <<host, aborted, lease, turn, turnLease, toCancel, atStop>>

\* Only the database survives the process.
ProcessEnds ==
  /\ host' = "down"
  /\ run' = [t \in Task |-> "none"]
  /\ aborted' = [t \in Task |-> FALSE]
  /\ lease' = [t \in Task |-> NoLease]
  /\ turn' = [t \in Task |-> "none"]
  /\ turnLease' = [t \in Task |-> NoLease]
  /\ toCancel' = {} /\ atStop' = {}
  /\ UNCHANGED storeVars

WorkerEvents(t, l) ==
  Cardinality({i \in 1..Len(log[t]) : /\ log[t][i].by = l.version
                                      /\ log[t][i].type = "task.worker.event"})

-----------------------------------------------------------------------------
(* Runs *)

\* submit: two transactions and the #active entry.  The HTTP server accepts
\* requests until server.close, so also after orchestrator.stop() has run.
Submit(t) ==
  /\ Quiet /\ (host = "up" \/ LateSubmits)
  /\ CreateTask(t)
  /\ SetRun(t, "creating")

AcquireRunLease(t) ==
  /\ run[t] = "creating"
  /\ AcquireLease(t, HostWriter)
  /\ run' = [run EXCEPT ![t] = "starting"]
  /\ lease' = [lease EXCEPT ![t] = NewLease(t, HostWriter)]
  /\ UNCHANGED <<host, aborted, turn, turnLease, toCancel, atStop>>

\* The four #progress calls before the runner is awaited.
Progress ==
  [s \in {"received", "planned", "queued", "preparing_workspace"} |->
     CASE s = "received" -> "planned"
       [] s = "planned" -> "queued"
       [] s = "queued" -> "preparing_workspace"
       [] OTHER -> "running"]

RunProgress(t) ==
  /\ run[t] = "starting"
  /\ Transition(lease[t], Progress[task[t].state], "task.progress")
  /\ SetRun(t, IF task'[t].state = "running" THEN "executing" ELSE "starting")

\* recordWorkerEvent, also of a run that is already aborted and unwinding.
RunWorkerEvent(t) ==
  /\ Quiet /\ run[t] = "executing"
  /\ WorkerEvents(t, lease[t]) < MaxWorkerEvents
  /\ AppendEvent(lease[t], "task.worker.event")
  /\ UNCHANGED memVars

\* The runner resolves with the report of a verified workspace.
RunReturns(t) ==
  /\ Quiet /\ run[t] = "executing" /\ ~aborted[t]
  /\ Transition(lease[t], "verifying", "task.progress")
  /\ SetRun(t, "verified")

RunComplete(t) ==
  /\ run[t] = "verified"
  /\ Transition(lease[t], "completed", "task.completed")
  /\ SetRun(t, "releasing")

\* Mutant: the failed run leaves without a transition.
RunFails_Silent(t) ==
  /\ Quiet /\ run[t] = "executing" /\ ~aborted[t]
  /\ SetRun(t, "releasing")
  /\ UNCHANGED storeVars

\* Mutant: the failure is written without a look at the lease.
RunFails_Unleased(t) ==
  /\ Quiet /\ run[t] = "executing" /\ ~aborted[t]
  /\ task' = [task EXCEPT ![t].state = "failed"]
  /\ InsertOutbox(t, "task.failed", "failed", lease[t].version)
  /\ UNCHANGED <<now, issued>>
  /\ SetRun(t, "releasing")

\* The runner rejects: runtime failure, failed verification, ...
RunFails(t) ==
  /\ Quiet /\ run[t] = "executing" /\ ~aborted[t]
  /\ Transition(lease[t], "failed", "task.failed")
  /\ SetRun(t, "releasing")

\* After a cancel, resolved or rejected, the run only leaves.
RunUnwinds(t) ==
  /\ Quiet /\ run[t] = "executing" /\ aborted[t]
  /\ SetRun(t, "releasing")
  /\ UNCHANGED storeVars

\* The lease expired under a long run: its next transition or worker event
\* throws, the catch block's own transition to failed throws as well, nobody
\* awaits #run, and an unhandled rejection ends a Node process.
RunRejects(t) ==
  /\ Quiet /\ run[t] = "executing" /\ ~aborted[t]
  /\ ~AssertLease(lease[t])
  /\ ProcessEnds

\* Mutant: the run of a cancelled task never leaves #active.
RunRelease_KeepsAborted(t) ==
  /\ run[t] = "releasing" /\ ~aborted[t]
  /\ \/ ReleaseLease(lease[t])
     \/ ~AssertLease(lease[t]) /\ UNCHANGED storeVars
  /\ run' = [run EXCEPT ![t] = "none"]
  /\ lease' = [lease EXCEPT ![t] = NoLease]
  /\ UNCHANGED <<host, aborted, turn, turnLease, toCancel, atStop>>

\* The finally block; a stale lease is swallowed.
RunRelease(t) ==
  /\ run[t] = "releasing"
  /\ \/ ReleaseLease(lease[t])
     \/ ~AssertLease(lease[t]) /\ UNCHANGED storeVars
  /\ run' = [run EXCEPT ![t] = "none"]
  /\ aborted' = [aborted EXCEPT ![t] = FALSE]
  /\ lease' = [lease EXCEPT ![t] = NoLease]
  /\ UNCHANGED <<host, turn, turnLease, toCancel, atStop>>

-----------------------------------------------------------------------------
(* Cancellation and stop *)

CancelThrows(t) == task[t].state \notin Terminal /\ ~AssertLease(lease[t])

\* Mutant: the cancel aborts the run and leaves the state to it.
CancelEffect_AbortOnly(t) ==
  /\ aborted' = [aborted EXCEPT ![t] = TRUE]
  /\ UNCHANGED storeVars

\* cancel(taskId) of an active task: the abort comes first, then the state;
\* the throw of a stale lease leaves the abort behind.
CancelEffect(t) ==
  /\ aborted' = [aborted EXCEPT ![t] = TRUE]
  /\ \/ /\ task[t].state \notin Terminal
        /\ Transition(lease[t], "cancelled", "task.progress")
     \/ /\ task[t].state \in Terminal \/ CancelThrows(t)
        /\ UNCHANGED storeVars

Cancel(t) ==
  /\ Quiet /\ run[t] = "executing"
  /\ CancelEffect(t)
  /\ UNCHANGED <<host, run, lease, turn, turnLease, toCancel, atStop>>

\* AgentMeHost.stop: a synchronous cancel loop over #active ...
Stop ==
  /\ Quiet /\ host = "up"
  /\ host' = "cancelling"
  /\ toCancel' = {t \in Task : run[t] # "none"}
  /\ atStop' = toCancel'
  /\ UNCHANGED <<storeVars, run, aborted, lease, turn, turnLease>>

\* Mutant: the loop of stop() swallows the throw of a stale lease.
StopCancel_Swallows(t) ==
  /\ host = "cancelling" /\ t \in toCancel
  /\ CancelEffect(t)
  /\ toCancel' = toCancel \ {t}
  /\ UNCHANGED <<host, run, lease, turn, turnLease, atStop>>

StopCancel(t) ==
  /\ host = "cancelling" /\ t \in toCancel
  /\ ~CancelThrows(t)
  /\ CancelEffect(t)
  /\ toCancel' = toCancel \ {t}
  /\ UNCHANGED <<host, run, lease, turn, turnLease, atStop>>

\* ... whose first throw rejects stop(), which main.ts does not handle ...
StopRejects(t) ==
  /\ host = "cancelling" /\ t \in toCancel
  /\ CancelThrows(t)
  /\ ProcessEnds

StopCancelled ==
  /\ host = "cancelling" /\ toCancel = {}
  /\ host' = "closing"
  /\ UNCHANGED <<storeVars, run, aborted, lease, turn, turnLease,
                 toCancel, atStop>>

\* ... and at last the databases close.  server.close waits for the open
\* requests, turns among them, and for no run.
StopDone ==
  /\ Quiet /\ host = "closing"
  /\ \A t \in Task : turn[t] = "none"
  /\ ProcessEnds

Crash == MayCrash /\ host # "down" /\ ProcessEnds

\* Mutant: a new process puts every running task back into #active.
Restart_Adopts ==
  /\ host = "down" /\ host' = "up"
  /\ run' = [t \in Task |-> IF task[t].state = "running" THEN "executing" ELSE "none"]
  /\ UNCHANGED <<storeVars, aborted, lease, turn, turnLease, toCancel, atStop>>

\* A new process recovers nothing.
Restart ==
  /\ host = "down" /\ host' = "up"
  /\ UNCHANGED <<storeVars, run, aborted, lease, turn, turnLease,
                 toCancel, atStop>>

-----------------------------------------------------------------------------
(* Worker turns *)

\* Mutant: the turn does not wait for the task to be completed.
TurnStart_Early(t, w) ==
  /\ Quiet /\ turn[t] = "none"
  /\ \E i \in 1..Len(log[t]) : log[t][i].type = "task.worker.event"
  /\ w \in TurnWriter /\ \A l \in issued : l.writer # w
  /\ AcquireLease(t, w)
  /\ turn' = [turn EXCEPT ![t] = "opening"]
  /\ turnLease' = [turnLease EXCEPT ![t] = NewLease(t, w)]
  /\ UNCHANGED <<host, run, aborted, lease, toCancel, atStop>>

\* Mutant: the turn keeps the row instead of the lease.
TurnStart_KeepsRow(t, w) ==
  /\ Quiet /\ turn[t] = "none"
  /\ task[t].state = "completed"
  /\ \E i \in 1..Len(log[t]) : log[t][i].type = "task.worker.event"
  /\ w \in TurnWriter /\ \A l \in issued : l.writer # w
  /\ AcquireLease(t, w)
  /\ turn' = [turn EXCEPT ![t] = "opening"]
  /\ turnLease' = [turnLease EXCEPT ![t] = task'[t]]
  /\ UNCHANGED <<host, run, aborted, lease, toCancel, atStop>>

\* canContinue: the child and so its task is completed, its runtime announced
\* itself in the log, and no turn of the child is active.  A throw of
\* acquireLease leaves nothing behind.  Every turn id is fresh.
TurnStart(t, w) ==
  /\ Quiet /\ turn[t] = "none"
  /\ task[t].state = "completed"
  /\ \E i \in 1..Len(log[t]) : log[t][i].type = "task.worker.event"
  /\ w \in TurnWriter /\ \A l \in issued : l.writer # w
  /\ AcquireLease(t, w)
  /\ turn' = [turn EXCEPT ![t] = "opening"]
  /\ turnLease' = [turnLease EXCEPT ![t] = NewLease(t, w)]
  /\ UNCHANGED <<host, run, aborted, lease, toCancel, atStop>>

SetTurn(t, pc) ==
  /\ turn' = [turn EXCEPT ![t] = pc]
  /\ UNCHANGED <<host, run, aborted, lease, turnLease, toCancel, atStop>>

\* After the awaited path checks.
TurnInput(t) ==
  /\ Quiet /\ turn[t] = "opening"
  /\ AppendEvent(turnLease[t], "task.worker.input")
  /\ SetTurn(t, "streaming")

\* An event of the resumed runtime, or a result of the verification.
TurnWorkerEvent(t) ==
  /\ Quiet /\ turn[t] = "streaming"
  /\ WorkerEvents(t, turnLease[t]) < MaxWorkerEvents
  /\ AppendEvent(turnLease[t], "task.worker.event")
  /\ UNCHANGED memVars

\* Mutant: a stream without any event passes for a completed turn.
TurnComplete_EmptyStream(t) ==
  /\ Quiet /\ turn[t] = "streaming"
  /\ AppendEvent(turnLease[t], "task.worker.turn.completed")
  /\ SetTurn(t, "releasing")

\* Mutant: the end event of a completed turn does not leave the stream, so a
\* failure to release it is reported as a failed turn.
TurnComplete_StaysOpen(t) ==
  /\ Quiet /\ turn[t] = "streaming"
  /\ WorkerEvents(t, turnLease[t]) > 0
  /\ AppendEvent(turnLease[t], "task.worker.turn.completed")
  /\ UNCHANGED memVars

\* The stream held run.completed and the verification has finished.
TurnComplete(t) ==
  /\ Quiet /\ turn[t] = "streaming"
  /\ WorkerEvents(t, turnLease[t]) > 0
  /\ AppendEvent(turnLease[t], "task.worker.turn.completed")
  /\ SetTurn(t, "releasing")

\* Failure or abort in any phase, a stale lease included: then the catch
\* block's append throws too and the turn ends without an end event.
TurnFails(t) ==
  /\ Quiet /\ turn[t] \in {"opening", "streaming"}
  /\ \/ AppendEvent(turnLease[t], "task.worker.turn.failed")
     \/ ~AssertLease(turnLease[t]) /\ UNCHANGED storeVars
  /\ SetTurn(t, "releasing")

\* Mutant: the ended turn stays in #activeChildren.
TurnRelease_StaysActive(t) ==
  /\ turn[t] = "releasing"
  /\ ReleaseLease(turnLease[t])
  /\ UNCHANGED memVars

TurnRelease(t) ==
  /\ turn[t] = "releasing"
  /\ \/ ReleaseLease(turnLease[t])
     \/ ~AssertLease(turnLease[t]) /\ UNCHANGED storeVars
  /\ turn' = [turn EXCEPT ![t] = "none"]
  /\ turnLease' = [turnLease EXCEPT ![t] = NoLease]
  /\ UNCHANGED <<host, run, aborted, lease, toCancel, atStop>>

ClockTick ==
  /\ Quiet \/ host = "down"
  /\ now < MaxTime
  /\ Tick
  /\ UNCHANGED memVars

-----------------------------------------------------------------------------
RunStep(t) ==
  \/ Submit(t) \/ AcquireRunLease(t) \/ RunProgress(t) \/ RunWorkerEvent(t)
  \/ RunReturns(t) \/ RunComplete(t) \/ RunFails(t) \/ RunUnwinds(t)
  \/ RunRejects(t) \/ RunRelease(t)

TurnStep(t) ==
  \/ \E w \in Writer : TurnStart(t, w)
  \/ TurnInput(t) \/ TurnWorkerEvent(t) \/ TurnComplete(t) \/ TurnFails(t)
  \/ TurnRelease(t)

HostStep ==
  \/ \E t \in Task : Cancel(t) \/ StopCancel(t) \/ StopRejects(t)
  \/ Stop \/ StopCancelled \/ StopDone \/ Crash \/ Restart \/ ClockTick

Next ==
  \/ \E t \in Task : RunStep(t)
  \/ \E t \in Task : TurnStep(t)
  \/ HostStep

Spec == Init /\ [][Next]_vars

\* The event loop finishes what it runs; an aborted runtime's process tree is
\* killed, so its run unwinds; and the coding runtime itself ends one way or
\* the other (no code enforces the last: the CLIs have no time limit).
RuntimeEnds(t) == RunReturns(t) \/ RunFails(t) \/ RunRejects(t)

Fairness ==
  \A t \in Task :
    /\ WF_vars(AcquireRunLease(t)) /\ WF_vars(RunProgress(t))
    /\ WF_vars(RunComplete(t)) /\ WF_vars(RunRelease(t))
    /\ WF_vars(TurnRelease(t))
    /\ WF_vars(RunUnwinds(t))
    /\ WF_vars(RuntimeEnds(t))
    /\ WF_vars(TurnComplete(t) \/ TurnFails(t))
    /\ WF_vars(StopCancel(t)) /\ WF_vars(StopCancelled)

FairSpec == Spec /\ Fairness /\ WF_vars(Restart)

-----------------------------------------------------------------------------
\* Every variable has its type.
TypeOK ==
  /\ StoreTypeOK
  /\ host \in {"up", "cancelling", "closing", "down"}
  /\ run \in [Task -> RunPc]
  /\ aborted \in [Task -> BOOLEAN]
  /\ lease \in [Task -> Lease \cup {NoLease}]
  /\ turn \in [Task -> TurnPc]
  /\ turnLease \in [Task -> Lease \cup {NoLease}]
  /\ toCancel \subseteq Task /\ atStop \subseteq Task

\* "Coding workers never share an active writer lease": the run of a task and a
\* turn of its child never execute at the same time, nor do they hold the task's
\* lease together, although the turn's guard never looks at #active.
OneExecutor ==
  \A t \in Task :
    /\ run[t] = "none" \/ turn[t] = "none"
    /\ run[t] = "executing" /\ ~aborted[t] /\ lease[t].expires > now =>
         AssertLease(lease[t])

TurnEnd == {"task.worker.turn.completed", "task.worker.turn.failed"}

\* The conversation of a turn in the outbox is well formed for every order of
\* failures, expiries and process deaths: nothing follows the end event under
\* the same lease, the message comes first, and there is one of each at most.
TurnTranscript ==
  \A t \in Task : \A i, j \in 1..Len(log[t]) :
    i < j /\ log[t][i].by = log[t][j].by =>
      log[t][i].type \notin TurnEnd /\ log[t][j].type # "task.worker.input"

\* No turn claims completion without the message it answers and the runtime
\* events that show the work.
TurnCompletionEvidenced ==
  \A t \in Task : \A j \in 1..Len(log[t]) :
    log[t][j].type = "task.worker.turn.completed" =>
      \A type \in {"task.worker.input", "task.worker.event"} :
        \E i \in 1..(j - 1) : /\ log[t][i].type = type
                              /\ log[t][i].by = log[t][j].by

\* What the outbox tells of the turns of a task is a conversation of question,
\* work and at most one end each.
TurnsFaithful == TurnTranscript /\ TurnCompletionEvidenced

\* stop() cancels all or fails: once it goes on to close the host, every task
\* that was active when it began is terminal.
StopCancelsAll ==
  host = "closing" => \A t \in atStop : task[t].state \in Terminal

\* No task is left behind, by a run that ends or by a graceful stop: one that is
\* not terminal has its executor in memory.  This takes leases that outlast the
\* runs, a process that is not killed and no submission to a stopping host.
LiveTaskHasExecutor ==
  \A t \in Task : task[t].state \notin Terminal \cup {Absent} => run[t] # "none"

\* The orchestrator and the worker turns change the store by its operations only.
\* (Checked as a refinement: every step is a step of TaskStore.)
UsesStore == StoreSpec

\* What dispatcher.observe makes of a stored state.
Observation(s) ==
  CASE s = Absent -> "absent"
    [] s = "completed" -> "completed"
    [] s = "cancelled" -> "cancelled"
    [] s \in {"failed", "rejected", "timed_out"} -> "failed"
    [] OTHER -> "running"

ActiveTasks == {t \in Task : run[t] # "none"}

Life == INSTANCE TaskLifecycle WITH
  up <- host # "down",
  phase <- [t \in Task |-> Observation(task[t].state)],
  owned <- ActiveTasks

\* What observers are promised: the orchestrator implements TaskLifecycle, so that
\* only an executor in memory settles a task and an outcome never changes.
LifeSpec == Life!LifeSpec

\* A cancelled run leaves memory and frees its worktree and lease.
CancelledRunEnds == \A t \in Task : aborted[t] ~> run[t] = "none"

\* When no lease expires and no process is killed, every submitted task reaches a
\* terminal state, whatever cancels and stops come in between.
EveryTaskSettles ==
  \A t \in Task : task[t].state = "received" ~> task[t].state \in Terminal

\* A turn ends and lets the next one of its child begin.
TurnsEnd == \A t \in Task : turn[t] # "none" ~> turn[t] = "none"

\* What works on a task leaves memory: a cancelled run and every turn.
ExecutorsEnd == CancelledRunEnds /\ TurnsEnd

\* tasks/todo.md:700 "Cancellation targets a child or parent and visibly reaches
\* a terminal outcome."
CancelReachesTerminal == \A t \in Task : aborted[t] ~> task[t].state \in Terminal

\* SPEC-agentme-mvp.md:213 "A restart resumes queued tasks".
RestartResumesQueued ==
  \A t \in Task : host = "up" /\ task[t].state = "queued" /\ run[t] = "none" ~>
                    task[t].state # "queued"
=============================================================================
