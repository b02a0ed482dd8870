------------------------ MODULE TaskOrchestratorProofs ------------------------
(***************************************************************************)
(* TaskOrchestrator uses the store by its operations only, so what is      *)
(* proved of TaskStore holds of the running host; and a run and a turn of  *)
(* one task exclude each other.  For every set of tasks, lease time and    *)
(* bound, with and without crashes.                                        *)
(***************************************************************************)
EXTENDS TaskOrchestrator, TaskStoreProofs, FiniteSetTheorems

(***************************************************************************)
(* The inductive invariant ties the memory of the process to the row: up   *)
(* to its release a run holds the lease the row names, since only a turn   *)
(* could take it over and a turn begins on a completed task, which a run   *)
(* leaves at once.                                                         *)
(***************************************************************************)
MemTypeOK ==
  /\ host \in {"up", "cancelling", "closing", "down"}
  /\ run \in [Task -> RunPc]
  /\ aborted \in [Task -> BOOLEAN]
  /\ lease \in [Task -> Lease \cup {NoLease}]
  /\ turn \in [Task -> TurnPc]
  /\ turnLease \in [Task -> Lease \cup {NoLease}]
  /\ toCancel \subseteq Task /\ atStop \subseteq Task

RowIsLeased(t) ==
  /\ task[t].writer = lease[t].writer
  /\ task[t].version = lease[t].version
  /\ task[t].expires = lease[t].expires

RunInv(t) ==
  /\ run[t] \notin {"none", "creating"} => lease[t] \in issued /\ lease[t].task = t
  /\ run[t] \in {"starting", "executing", "verified"} => RowIsLeased(t)
  /\ run[t] = "creating" => task[t].state = "received"
  /\ run[t] = "starting" =>
       task[t].state \in {"received", "planned", "queued", "preparing_workspace"}
  /\ run[t] = "executing" => task[t].state \in {"running", "cancelled"}
  /\ run[t] = "verified" => task[t].state = "verifying"

TurnInv(t) ==
  turn[t] # "none" => /\ turnLease[t] \in issued /\ turnLease[t].task = t
                      /\ task[t].state = "completed"
                      /\ run[t] = "none"

StopInv ==
  /\ toCancel # {} => host = "cancelling"
  /\ host = "cancelling" =>
       \A t \in Task : run[t] \in {"none", "executing"} /\ turn[t] # "releasing"
  /\ \A t \in toCancel : run[t] = "executing"
  /\ host \in {"cancelling", "closing"} =>
       \A t \in atStop : t \in toCancel \/ task[t].state \in Terminal

ExecInv == MemTypeOK /\ (\A t \in Task : RunInv(t) /\ TurnInv(t)) /\ StopInv
IInv == StoreInv /\ ExecInv

-----------------------------------------------------------------------------
(* What the store's operations do to the row of one task *)

OtherRowsKept(t) == \A u \in Task \ {t} : task'[u] = task[u]

\* createTask brings a row into being.
LEMMA CreateEffect ==
  ASSUME StoreInv, NEW t \in Task, CreateTask(t)
  PROVE  /\ StoreNext
         /\ issued' = issued /\ OtherRowsKept(t)
         /\ task[t].state = Absent /\ task'[t].state = "received"
<1>1. task \in [Task -> Row]
  BY DEF StoreInv, StoreTypeOK
<1> QED
  BY <1>1 DEF CreateTask, StoreNext, OtherRowsKept, Row

\* acquireLease gives the row the new lease.
LEMMA AcquireEffect ==
  ASSUME StoreInv, NEW t \in Task, NEW w \in Writer, AcquireLease(t, w)
  PROVE  /\ StoreNext
         /\ issued \subseteq issued' /\ OtherRowsKept(t)
         /\ NewLease(t, w) \in issued' /\ NewLease(t, w) \in Lease
         /\ NewLease(t, w).task = t
         /\ task'[t].state = task[t].state
         /\ task'[t].writer = NewLease(t, w).writer
         /\ task'[t].version = NewLease(t, w).version
         /\ task'[t].expires = NewLease(t, w).expires
<1>1. task \in [Task -> Row] /\ now \in Nat
  BY DEF StoreInv, StoreTypeOK
<1>2. NewLease(t, w).writer = w /\ NewLease(t, w).task = t
  BY DEF NewLease
<1>3. NewLease(t, w) \in Lease
  BY <1>1, StoreAssumption DEF NewLease, Lease, Row
<1> QED
  BY <1>1, <1>2, <1>3 DEF AcquireLease, StoreNext, OtherRowsKept, Row

\* releaseLease leaves the state and every other row.
LEMMA ReleaseEffect ==
  ASSUME StoreInv, NEW t \in Task, NEW l \in issued, l.task = t, ReleaseLease(l)
  PROVE  /\ StoreNext
         /\ issued' = issued /\ OtherRowsKept(t)
         /\ task'[t].state = task[t].state
<1>1. task \in [Task -> Row]
  BY DEF StoreInv, StoreTypeOK
<1> QED
  BY <1>1 DEF ReleaseLease, StoreNext, OtherRowsKept, Row

\* transition changes the state along the table and keeps the lease.
LEMMA TransitionEffect ==
  ASSUME StoreInv, NEW t \in Task, NEW l \in issued, l.task = t,
         NEW to, NEW type \in TransitionType \ {"task.started"}, Transition(l, to, type)
  PROVE  /\ StoreNext
         /\ issued' = issued /\ OtherRowsKept(t)
         /\ task'[t].state = to /\ CanTransition(task[t].state, to)
         /\ task'[t].writer = task[t].writer
         /\ task'[t].version = task[t].version
         /\ task'[t].expires = task[t].expires
<1>1. task \in [Task -> Row]
  BY DEF StoreInv, StoreTypeOK
<1>2. CanTransition(task[t].state, to)
  BY DEF Transition
<1>3. to \in TaskState
  BY <1>2 DEF CanTransition, transitions, TaskState
<1>4. StoreNext
  BY <1>3 DEF StoreNext
<1>5. task' = [task EXCEPT ![t].state = to] /\ issued' = issued
  BY DEF Transition
<1>6. /\ task'[t].state = to
      /\ task'[t].writer = task[t].writer
      /\ task'[t].version = task[t].version
      /\ task'[t].expires = task[t].expires
  BY <1>1, <1>5 DEF Row
<1> QED
  BY <1>1, <1>2, <1>4, <1>5, <1>6 DEF OtherRowsKept

\* appendEvent changes no row.
LEMMA AppendEffect ==
  ASSUME NEW l \in issued, NEW type \in AppendType, AppendEvent(l, type)
  PROVE  StoreNext /\ task' = task /\ issued' = issued
BY DEF AppendEvent, StoreNext

-----------------------------------------------------------------------------
(* Steps of one task *)

SameAt(u) ==
  /\ task'[u] = task[u] /\ run'[u] = run[u] /\ lease'[u] = lease[u]
  /\ turn'[u] = turn[u] /\ turnLease'[u] = turnLease[u]

\* Tasks that a step does not touch keep their part of the invariant.
LEMMA Untouched ==
  ASSUME NEW u \in Task, RunInv(u), TurnInv(u), SameAt(u), issued \subseteq issued'
  PROVE  RunInv(u)' /\ TurnInv(u)'
BY DEF RunInv, TurnInv, RowIsLeased, SameAt

\* A step that is not one of the cancel loop keeps what stop() has achieved,
\* because terminal states are final.
LEMMA StopInvKept ==
  ASSUME StoreInv, MemTypeOK, StopInv, [StoreNext]_storeVars,
         host # "cancelling", UNCHANGED <<host, toCancel, atStop>>
  PROVE  StopInv'
<1>1. ASSUME NEW t \in Task, task[t].state \in Terminal
      PROVE  task'[t].state \in Terminal
  BY <1>1, TerminalStep DEF storeVars
<1>2. toCancel = {} /\ atStop \subseteq Task
  BY DEF StopInv, MemTypeOK
<1> QED
  BY <1>1, <1>2 DEF StopInv

\* A step of one task preserves the invariant if it does so at that task.
LEMMA OneTaskStep ==
  ASSUME IInv, NEW t \in Task, [StoreNext]_storeVars,
         issued \subseteq issued', \A u \in Task \ {t} : SameAt(u),
         MemTypeOK', RunInv(t)', TurnInv(t)',
         host # "cancelling", UNCHANGED <<host, toCancel, atStop>>
  PROVE  ExecInv'
<1>1. StoreInv /\ MemTypeOK /\ StopInv /\ \A u \in Task : RunInv(u) /\ TurnInv(u)
  BY DEF IInv, ExecInv
<1>2. StopInv'
  BY <1>1, StopInvKept
<1>3. ASSUME NEW u \in Task PROVE RunInv(u)' /\ TurnInv(u)'
  <2>1. CASE u = t
    BY <2>1
  <2>2. CASE u # t
    BY <1>1, <2>2, Untouched
  <2> QED
    BY <2>1, <2>2
<1> QED
  BY <1>2, <1>3 DEF ExecInv

Parts(t) ==
  /\ StoreInv /\ MemTypeOK /\ StopInv /\ RunInv(t) /\ TurnInv(t)
  /\ task \in [Task -> Row]

\* The invariant at one task.
LEMMA GetParts == ASSUME IInv, NEW t \in Task PROVE Parts(t)
BY DEF IInv, ExecInv, Parts, StoreInv, StoreTypeOK

\* The death of the process at any point.
LEMMA ProcessEndsInv ==
  ASSUME IInv, ProcessEnds
  PROVE  [StoreNext]_storeVars /\ ExecInv'
<1>1. UNCHANGED storeVars
  BY DEF ProcessEnds
<1>2. MemTypeOK'
  BY DEF ProcessEnds, MemTypeOK, RunPc, TurnPc
<1>3. ASSUME NEW t \in Task PROVE run'[t] = "none" /\ turn'[t] = "none"
  BY DEF ProcessEnds
<1>4. \A t \in Task : RunInv(t)' /\ TurnInv(t)'
  BY <1>3 DEF RunInv, TurnInv
<1>5. StopInv'
  BY DEF ProcessEnds, StopInv
<1> QED
  BY <1>1, <1>2, <1>4, <1>5 DEF ExecInv

-----------------------------------------------------------------------------
(* Runs *)

\* A step of a run that sets only the place of the run in memory.
LEMMA SetRunInv ==
  ASSUME IInv, NEW t \in Task, NEW pc \in RunPc, SetRun(t, pc),
         [StoreNext]_storeVars, issued' = issued, OtherRowsKept(t),
         host # "cancelling", RunInv(t)', TurnInv(t)'
  PROVE  ExecInv'
<1>1. MemTypeOK /\ run \in [Task -> RunPc]
  BY DEF IInv, ExecInv, MemTypeOK
<1>2. /\ run' = [run EXCEPT ![t] = pc]
      /\ UNCHANGED <<host, aborted, lease, turn, turnLease, toCancel, atStop>>
  BY DEF SetRun
<1>3. MemTypeOK'
  BY <1>1, <1>2 DEF MemTypeOK
<1>4. \A u \in Task \ {t} : SameAt(u)
  BY <1>1, <1>2 DEF SameAt, OtherRowsKept
<1> QED
  BY <1>2, <1>3, <1>4, OneTaskStep

\* submit begins with a row that did not exist, hence without a turn.
LEMMA SubmitInv ==
  ASSUME IInv, NEW t \in Task, Submit(t)
  PROVE  StoreNext /\ ExecInv'
<1>1. Parts(t)
  BY GetParts
<1>2. /\ StoreNext /\ issued' = issued /\ OtherRowsKept(t)
      /\ task[t].state = Absent /\ task'[t].state = "received"
  BY <1>1, CreateEffect DEF Parts, Submit
<1>3. SetRun(t, "creating") /\ host # "cancelling" /\ "creating" \in RunPc
  BY DEF Submit, Quiet, RunPc
<1>4. run'[t] = "creating" /\ turn'[t] = turn[t]
  BY <1>1, <1>3 DEF SetRun, Parts, MemTypeOK
<1>5. turn[t] = "none"
  BY <1>1, <1>2 DEF Parts, TurnInv, Absent
<1>6. RunInv(t)' /\ TurnInv(t)'
  BY <1>2, <1>4, <1>5 DEF RunInv, TurnInv
<1> QED
  BY <1>2, <1>3, <1>6, SetRunInv

\* The lease a run acquires is the one the row names.
LEMMA AcquireRunLeaseInv ==
  ASSUME IInv, NEW t \in Task, AcquireRunLease(t)
  PROVE  StoreNext /\ ExecInv'
<1>1. Parts(t)
  BY GetParts
<1>2. HostWriter \in Writer
  BY OrchestratorAssumption
<1>3. /\ StoreNext
      /\ issued \subseteq issued' /\ OtherRowsKept(t)
      /\ NewLease(t, HostWriter) \in issued' /\ NewLease(t, HostWriter) \in Lease
      /\ NewLease(t, HostWriter).task = t
      /\ task'[t].state = task[t].state
      /\ task'[t].writer = NewLease(t, HostWriter).writer
      /\ task'[t].version = NewLease(t, HostWriter).version
      /\ task'[t].expires = NewLease(t, HostWriter).expires
  BY <1>1, <1>2, AcquireEffect DEF Parts, AcquireRunLease
<1>4. /\ run[t] = "creating"
      /\ run' = [run EXCEPT ![t] = "starting"]
      /\ lease' = [lease EXCEPT ![t] = NewLease(t, HostWriter)]
      /\ UNCHANGED <<host, aborted, turn, turnLease, toCancel, atStop>>
  BY DEF AcquireRunLease
<1>5. MemTypeOK' /\ \A u \in Task \ {t} : SameAt(u)
  BY <1>1, <1>3, <1>4 DEF Parts, MemTypeOK, SameAt, OtherRowsKept, RunPc
<1>6. run'[t] = "starting" /\ lease'[t] = NewLease(t, HostWriter) /\ turn'[t] = "none"
  BY <1>1, <1>4 DEF Parts, MemTypeOK, TurnInv
<1>7. RunInv(t)' /\ TurnInv(t)'
  BY <1>1, <1>3, <1>4, <1>6 DEF Parts, RunInv, TurnInv, RowIsLeased
<1>8. host # "cancelling"
  BY <1>1, <1>4 DEF Parts, StopInv
<1> QED
  BY <1>3, <1>4, <1>5, <1>7, <1>8, OneTaskStep

\* What a transition by the lease of a run that holds the row leaves.
LEMMA RunTransition ==
  ASSUME IInv, NEW t \in Task, run[t] \in {"starting", "executing", "verified"},
         NEW to, NEW type \in TransitionType \ {"task.started"},
         Transition(lease[t], to, type), UNCHANGED lease
  PROVE  /\ StoreNext /\ issued' = issued /\ OtherRowsKept(t)
         /\ task'[t].state = to /\ CanTransition(task[t].state, to)
         /\ lease'[t] \in issued' /\ lease'[t].task = t
         /\ RowIsLeased(t)'
         /\ turn[t] = "none"
<1>1. Parts(t)
  BY GetParts
<1>2. lease[t] \in issued /\ lease[t].task = t /\ RowIsLeased(t) /\ turn[t] = "none"
  BY <1>1 DEF Parts, RunInv, TurnInv
<1>3. /\ StoreNext /\ issued' = issued /\ OtherRowsKept(t)
      /\ task'[t].state = to /\ CanTransition(task[t].state, to)
      /\ task'[t].writer = task[t].writer
      /\ task'[t].version = task[t].version
      /\ task'[t].expires = task[t].expires
  BY <1>1, <1>2, TransitionEffect DEF Parts
<1> QED
  BY <1>2, <1>3 DEF RowIsLeased

\* A #progress call of the prefix takes the task one state further.
LEMMA RunProgressInv ==
  ASSUME IInv, NEW t \in Task, RunProgress(t)
  PROVE  StoreNext /\ ExecInv'
<1> DEFINE to == Progress[task[t].state]
<1> DEFINE pc == IF task'[t].state = "running" THEN "executing" ELSE "starting"
<1>1. Parts(t)
  BY GetParts
<1>2. run[t] = "starting" /\ Transition(lease[t], to, "task.progress") /\ SetRun(t, pc)
  BY DEF RunProgress
<1>3. "task.progress" \in TransitionType \ {"task.started"} /\ UNCHANGED lease
  BY <1>2 DEF TransitionType, SetRun
<1> HIDE DEF to
<1>4. /\ StoreNext /\ issued' = issued /\ OtherRowsKept(t)
      /\ task'[t].state = to /\ CanTransition(task[t].state, to)
      /\ lease'[t] \in issued' /\ lease'[t].task = t
      /\ RowIsLeased(t)'
      /\ turn[t] = "none"
  BY <1>2, <1>3, RunTransition
<1>5. to \in {"planned", "queued", "preparing_workspace", "running"}
  BY <1>1, <1>2 DEF to, Progress, Parts, RunInv
<1>6. pc \in RunPc /\ host # "cancelling" /\ run'[t] = pc /\ turn'[t] = turn[t]
  BY <1>1, <1>2 DEF RunPc, Parts, StopInv, SetRun, MemTypeOK
<1>7. RunInv(t)' /\ TurnInv(t)'
  BY <1>4, <1>5, <1>6 DEF RunInv, TurnInv
<1> HIDE DEF pc
<1> QED
  BY <1>2, <1>4, <1>6, <1>7, SetRunInv

\* A step that changes nothing the invariant reads but the outbox.
LEMMA OutboxOnlyInv ==
  ASSUME IInv, UNCHANGED <<task, issued, memVars>>, [StoreNext]_storeVars
  PROVE  ExecInv'
<1>1. ASSUME NEW t \in Task PROVE RunInv(t)' /\ TurnInv(t)'
  <2>1. RunInv(t) /\ TurnInv(t)
    BY DEF IInv, ExecInv
  <2> QED
    BY <2>1, Untouched DEF SameAt, memVars
<1>2. MemTypeOK'
  BY DEF IInv, ExecInv, MemTypeOK, memVars
<1>3. StopInv'
  BY DEF IInv, ExecInv, StopInv, memVars
<1> QED
  BY <1>1, <1>2, <1>3 DEF ExecInv

\* A runtime event of a run.
LEMMA RunWorkerEventInv ==
  ASSUME IInv, NEW t \in Task, RunWorkerEvent(t)
  PROVE  StoreNext /\ ExecInv'
<1>1. RunInv(t)
  BY DEF IInv, ExecInv
<1>2. lease[t] \in issued
  BY <1>1 DEF RunInv, RunWorkerEvent
<1>3. "task.worker.event" \in AppendType
  BY OrchestratorAssumption
<1>4. StoreNext /\ task' = task /\ issued' = issued
  BY <1>2, <1>3, AppendEffect DEF RunWorkerEvent
<1>5. UNCHANGED <<task, issued, memVars>>
  BY <1>4 DEF RunWorkerEvent
<1> QED
  BY <1>4, <1>5, OutboxOnlyInv

\* The transition after which a run executes no more.
LEMMA RunEndsInv ==
  ASSUME IInv, NEW t \in Task, run[t] \in {"executing", "verified"},
         NEW to, NEW type \in TransitionType \ {"task.started"},
         Transition(lease[t], to, type),
         NEW pc \in {"verified", "releasing"}, SetRun(t, pc),
         pc = "verified" => to = "verifying",
         host # "cancelling"
  PROVE  StoreNext /\ ExecInv'
<1>1. Parts(t)
  BY GetParts
<1>2. UNCHANGED lease
  BY DEF SetRun
<1>3. /\ StoreNext /\ issued' = issued /\ OtherRowsKept(t)
      /\ task'[t].state = to /\ CanTransition(task[t].state, to)
      /\ lease'[t] \in issued' /\ lease'[t].task = t
      /\ RowIsLeased(t)'
      /\ turn[t] = "none"
  BY <1>2, RunTransition
<1>4. pc \in RunPc /\ run'[t] = pc /\ turn'[t] = turn[t]
  BY <1>1 DEF RunPc, Parts, SetRun, MemTypeOK
<1>5. RunInv(t)' /\ TurnInv(t)'
  BY <1>3, <1>4 DEF RunInv, TurnInv
<1> QED
  BY <1>3, <1>4, <1>5, SetRunInv

\* The runner has returned a report.
LEMMA RunReturnsInv ==
  ASSUME IInv, NEW t \in Task, RunReturns(t)
  PROVE  StoreNext /\ ExecInv'
<1>1. "task.progress" \in TransitionType \ {"task.started"} /\ host # "cancelling"
  BY DEF TransitionType, RunReturns, Quiet
<1> QED
  BY <1>1, RunEndsInv DEF RunReturns

\* The report is committed and the task completed.
LEMMA RunCompleteInv ==
  ASSUME IInv, NEW t \in Task, RunComplete(t)
  PROVE  StoreNext /\ ExecInv'
<1>1. "task.completed" \in TransitionType \ {"task.started"}
  BY DEF TransitionType
<1>2. host # "cancelling"
  BY DEF IInv, ExecInv, StopInv, RunComplete
<1> QED
  BY <1>1, <1>2, RunEndsInv DEF RunComplete

\* The runner has rejected and the task failed.
LEMMA RunFailsInv ==
  ASSUME IInv, NEW t \in Task, RunFails(t)
  PROVE  StoreNext /\ ExecInv'
<1>1. "task.failed" \in TransitionType \ {"task.started"} /\ host # "cancelling"
  BY DEF TransitionType, RunFails, Quiet
<1> QED
  BY <1>1, RunEndsInv DEF RunFails

\* A cancelled run leaves without another word to the store.
LEMMA RunUnwindsInv ==
  ASSUME IInv, NEW t \in Task, RunUnwinds(t)
  PROVE  UNCHANGED storeVars /\ ExecInv'
<1>1. Parts(t)
  BY GetParts
<1>2. /\ run[t] = "executing" /\ SetRun(t, "releasing") /\ UNCHANGED storeVars
      /\ host # "cancelling" /\ "releasing" \in RunPc
  BY DEF RunUnwinds, Quiet, RunPc
<1>3. issued' = issued /\ task' = task /\ OtherRowsKept(t)
  BY <1>2 DEF storeVars, OtherRowsKept
<1>4. run'[t] = "releasing" /\ UNCHANGED <<lease, turn, turnLease>>
  BY <1>1, <1>2 DEF SetRun, Parts, MemTypeOK
<1>5. RunInv(t)' /\ TurnInv(t)'
  BY <1>1, <1>2, <1>3, <1>4 DEF Parts, RunInv, TurnInv
<1> QED
  BY <1>2, <1>3, <1>5, SetRunInv

\* The finally block: the entry leaves memory, the lease the row if it can.
LEMMA RunReleaseInv ==
  ASSUME IInv, NEW t \in Task, RunRelease(t)
  PROVE  [StoreNext]_storeVars /\ ExecInv'
<1>1. Parts(t)
  BY GetParts
<1>2. run[t] = "releasing"
  BY DEF RunRelease
<1>3. lease[t] \in issued /\ lease[t].task = t /\ turn[t] = "none"
  BY <1>1, <1>2 DEF Parts, RunInv, TurnInv
<1>4. [StoreNext]_storeVars /\ issued' = issued /\ OtherRowsKept(t)
  <2>1. CASE ReleaseLease(lease[t])
    BY <1>1, <1>3, <2>1, ReleaseEffect DEF Parts
  <2>2. CASE UNCHANGED storeVars
    BY <2>2 DEF storeVars, OtherRowsKept
  <2> QED
    BY <2>1, <2>2 DEF RunRelease
<1>5. /\ run' = [run EXCEPT ![t] = "none"]
      /\ aborted' = [aborted EXCEPT ![t] = FALSE]
      /\ lease' = [lease EXCEPT ![t] = NoLease]
      /\ UNCHANGED <<host, turn, turnLease, toCancel, atStop>>
  BY DEF RunRelease
<1>6. MemTypeOK' /\ \A u \in Task \ {t} : SameAt(u)
  BY <1>1, <1>4, <1>5 DEF Parts, MemTypeOK, SameAt, OtherRowsKept, RunPc
<1>7. run'[t] = "none" /\ turn'[t] = "none"
  BY <1>1, <1>3, <1>5 DEF Parts, MemTypeOK
<1>8. RunInv(t)' /\ TurnInv(t)'
  BY <1>7 DEF RunInv, TurnInv
<1>9. host # "cancelling"
  BY <1>1, <1>2 DEF Parts, StopInv
<1> QED
  BY <1>4, <1>5, <1>6, <1>8, <1>9, OneTaskStep

\* Every step of a run is one of the store or none, and preserves the invariant.
LEMMA RunStepInv ==
  ASSUME IInv, NEW t \in Task, RunStep(t)
  PROVE  [StoreNext]_storeVars /\ ExecInv'
<1>1. CASE RunRejects(t)
  BY <1>1, ProcessEndsInv DEF RunRejects
<1> QED
  BY <1>1, SubmitInv, AcquireRunLeaseInv, RunProgressInv, RunWorkerEventInv, RunReturnsInv,
     RunCompleteInv, RunFailsInv, RunUnwindsInv, RunReleaseInv DEF RunStep

-----------------------------------------------------------------------------
(* Cancellation and stop *)

\* A cancel of a running task: the abort, and the transition unless the task is
\* terminal or the lease stale.
LEMMA CancelEffectInv ==
  ASSUME IInv, NEW t \in Task, run[t] = "executing", CancelEffect(t),
         UNCHANGED <<host, run, lease, turn, turnLease, atStop>>
  PROVE  /\ [StoreNext]_storeVars
         /\ MemTypeOK /\ aborted' \in [Task -> BOOLEAN]
         /\ \A u \in Task : RunInv(u)' /\ TurnInv(u)'
         /\ task[t].state \in Terminal \/ task'[t].state \in Terminal \/ CancelThrows(t)
<1>1. Parts(t)
  BY GetParts
<1>2. MemTypeOK /\ aborted' \in [Task -> BOOLEAN]
  BY <1>1 DEF Parts, MemTypeOK, CancelEffect
<1>3. CASE task[t].state \notin Terminal
           /\ Transition(lease[t], "cancelled", "task.progress")
  <2>1. "task.progress" \in TransitionType \ {"task.started"}
    BY DEF TransitionType
  <2>2. /\ StoreNext /\ issued' = issued /\ OtherRowsKept(t)
        /\ task'[t].state = "cancelled" /\ CanTransition(task[t].state, "cancelled")
        /\ lease'[t] \in issued' /\ lease'[t].task = t
        /\ RowIsLeased(t)'
        /\ turn[t] = "none"
    BY <1>3, <2>1, RunTransition
  <2>3. RunInv(t)' /\ TurnInv(t)'
    BY <2>2 DEF RunInv, TurnInv
  <2>4. ASSUME NEW u \in Task, u # t PROVE RunInv(u)' /\ TurnInv(u)'
    <3>1. SameAt(u)
      BY <2>2, <2>4 DEF SameAt, OtherRowsKept
    <3> QED
      BY <2>2, <3>1, Untouched DEF IInv, ExecInv
  <2> QED
    BY <1>2, <2>2, <2>3, <2>4 DEF Terminal
<1>4. CASE (task[t].state \in Terminal \/ CancelThrows(t)) /\ UNCHANGED storeVars
  <2>1. ASSUME NEW u \in Task PROVE RunInv(u)' /\ TurnInv(u)'
    <3>1. SameAt(u) /\ issued' = issued
      BY <1>4 DEF SameAt, storeVars
    <3> QED
      BY <3>1, Untouched DEF IInv, ExecInv
  <2> QED
    BY <1>2, <1>4, <2>1
<1> QED
  BY <1>3, <1>4 DEF CancelEffect

\* cancel of one task.
LEMMA CancelInv ==
  ASSUME IInv, NEW t \in Task, Cancel(t)
  PROVE  [StoreNext]_storeVars /\ ExecInv'
<1>1. /\ run[t] = "executing" /\ CancelEffect(t) /\ host # "cancelling"
      /\ UNCHANGED <<host, run, lease, turn, turnLease, toCancel, atStop>>
  BY DEF Cancel, Quiet
<1>2. /\ [StoreNext]_storeVars
      /\ MemTypeOK /\ aborted' \in [Task -> BOOLEAN]
      /\ \A u \in Task : RunInv(u)' /\ TurnInv(u)'
  BY <1>1, CancelEffectInv
<1>3. MemTypeOK'
  BY <1>1, <1>2 DEF MemTypeOK
<1>4. StopInv'
  BY <1>1, <1>2, StopInvKept DEF IInv, ExecInv
<1> QED
  BY <1>2, <1>3, <1>4 DEF ExecInv

\* One turn of the loop of stop(): what it takes off the list is terminal.
LEMMA StopCancelInv ==
  ASSUME IInv, NEW t \in Task, StopCancel(t)
  PROVE  [StoreNext]_storeVars /\ ExecInv'
<1>1. Parts(t) /\ StoreInv /\ StopInv
  BY GetParts DEF Parts
<1>2. /\ host = "cancelling" /\ t \in toCancel /\ ~CancelThrows(t)
      /\ CancelEffect(t) /\ toCancel' = toCancel \ {t}
      /\ UNCHANGED <<host, run, lease, turn, turnLease, atStop>>
  BY DEF StopCancel
<1>3. run[t] = "executing"
  BY <1>1, <1>2 DEF StopInv
<1>4. /\ [StoreNext]_storeVars
      /\ MemTypeOK /\ aborted' \in [Task -> BOOLEAN]
      /\ \A u \in Task : RunInv(u)' /\ TurnInv(u)'
      /\ task[t].state \in Terminal \/ task'[t].state \in Terminal
  BY <1>2, <1>3, CancelEffectInv
<1>5. MemTypeOK'
  BY <1>2, <1>4 DEF MemTypeOK
<1>6. ASSUME NEW u \in Task, task[u].state \in Terminal
      PROVE  task'[u].state \in Terminal
  BY <1>1, <1>4, <1>6, TerminalStep DEF storeVars
<1>7. StopInv'
  BY <1>1, <1>2, <1>4, <1>6 DEF StopInv, MemTypeOK
<1> QED
  BY <1>4, <1>5, <1>7 DEF ExecInv

\* Steps of the process that leave the store and all tasks alone.
LEMMA HostOnlyInv ==
  ASSUME IInv, UNCHANGED <<storeVars, run, aborted, lease, turn, turnLease>>,
         host' \in {"up", "cancelling", "closing", "down"},
         toCancel' \subseteq Task, atStop' \subseteq Task, StopInv'
  PROVE  UNCHANGED storeVars /\ ExecInv'
<1>1. ASSUME NEW t \in Task PROVE RunInv(t)' /\ TurnInv(t)'
  <2>1. RunInv(t) /\ TurnInv(t) /\ SameAt(t) /\ issued' = issued
    BY DEF IInv, ExecInv, SameAt, storeVars
  <2> QED
    BY <2>1, Untouched
<1>2. MemTypeOK'
  BY DEF IInv, ExecInv, MemTypeOK
<1> QED
  BY <1>1, <1>2 DEF ExecInv

\* stop() begins and ends, the process starts again.
LEMMA StopAndRestartInv ==
  ASSUME IInv, Stop \/ StopCancelled \/ Restart
  PROVE  UNCHANGED storeVars /\ ExecInv'
<1>1. MemTypeOK /\ StopInv /\ UNCHANGED storeVars
  BY DEF IInv, ExecInv, Stop, StopCancelled, Restart
<1>2. CASE Stop
  <2>1. /\ Quiet /\ host' = "cancelling" /\ atStop' = toCancel'
        /\ toCancel' = {t \in Task : run[t] # "none"}
        /\ UNCHANGED <<run, aborted, lease, turn, turnLease>>
    BY <1>2 DEF Stop
  <2>2. StopInv' /\ toCancel' \subseteq Task /\ atStop' \subseteq Task
    BY <2>1 DEF StopInv, Quiet
  <2> QED
    BY <1>1, <2>1, <2>2, HostOnlyInv
<1>3. CASE StopCancelled
  <2>1. /\ host = "cancelling" /\ toCancel = {} /\ host' = "closing"
        /\ UNCHANGED <<task, run, aborted, lease, turn, turnLease, toCancel, atStop>>
    BY <1>3 DEF StopCancelled, storeVars
  <2>2. StopInv' /\ toCancel' \subseteq Task /\ atStop' \subseteq Task
    BY <1>1, <2>1 DEF StopInv, MemTypeOK
  <2> QED
    BY <1>1, <2>1, <2>2, HostOnlyInv
<1>4. CASE Restart
  <2>1. /\ host = "down" /\ host' = "up"
        /\ UNCHANGED <<run, aborted, lease, turn, turnLease, toCancel, atStop>>
    BY <1>4 DEF Restart
  <2>2. StopInv' /\ toCancel' \subseteq Task /\ atStop' \subseteq Task
    BY <1>1, <2>1 DEF StopInv, MemTypeOK
  <2> QED
    BY <1>1, <2>1, <2>2, HostOnlyInv
<1> QED
  BY <1>2, <1>3, <1>4

\* Every step of the process preserves the invariant.
LEMMA HostStepInv ==
  ASSUME IInv, HostStep
  PROVE  [StoreNext]_storeVars /\ ExecInv'
<1>1. CASE ClockTick
  <2>1. Tick /\ UNCHANGED memVars
    BY <1>1 DEF ClockTick
  <2>2. StoreNext /\ UNCHANGED <<task, issued>>
    BY <2>1 DEF StoreNext, Tick
  <2> QED
    BY <2>1, <2>2, OutboxOnlyInv
<1>2. CASE \E t \in Task : StopRejects(t)
  BY <1>2, ProcessEndsInv DEF StopRejects
<1>3. CASE StopDone \/ Crash
  BY <1>3, ProcessEndsInv DEF StopDone, Crash
<1> QED
  BY <1>1, <1>2, <1>3, CancelInv, StopCancelInv, StopAndRestartInv DEF HostStep

-----------------------------------------------------------------------------
(* Worker turns *)

\* A step of a turn that sets only the place of the turn in memory.
LEMMA SetTurnInv ==
  ASSUME IInv, NEW t \in Task, turn[t] # "none", NEW pc \in TurnPc,
         SetTurn(t, pc), host # "cancelling",
         [StoreNext]_storeVars, issued' = issued, task' = task
  PROVE  ExecInv'
<1>1. Parts(t)
  BY GetParts
<1>2. /\ turn' = [turn EXCEPT ![t] = pc]
      /\ UNCHANGED <<host, run, aborted, lease, turnLease, toCancel, atStop>>
  BY DEF SetTurn
<1>3. MemTypeOK' /\ \A u \in Task \ {t} : SameAt(u)
  BY <1>1, <1>2 DEF Parts, MemTypeOK, SameAt
<1>4. RunInv(t)' /\ TurnInv(t)'
  BY <1>1, <1>2 DEF Parts, RunInv, TurnInv, RowIsLeased
<1> QED
  BY <1>2, <1>3, <1>4, OneTaskStep

\* A turn begins on a completed task, whose run has left memory.
LEMMA TurnStartInv ==
  ASSUME IInv, NEW t \in Task, NEW w \in Writer, TurnStart(t, w)
  PROVE  StoreNext /\ ExecInv'
<1>1. Parts(t)
  BY GetParts
<1>2. /\ StoreNext
      /\ issued \subseteq issued' /\ OtherRowsKept(t)
      /\ NewLease(t, w) \in issued' /\ NewLease(t, w) \in Lease
      /\ NewLease(t, w).task = t
      /\ task'[t].state = task[t].state
  BY <1>1, AcquireEffect DEF Parts, TurnStart
<1>3. /\ Quiet /\ task[t].state = "completed"
      /\ turn' = [turn EXCEPT ![t] = "opening"]
      /\ turnLease' = [turnLease EXCEPT ![t] = NewLease(t, w)]
      /\ UNCHANGED <<host, run, aborted, lease, toCancel, atStop>>
  BY DEF TurnStart
<1>4. run[t] = "none" /\ host # "cancelling"
  BY <1>1, <1>3 DEF Quiet, Parts, RunInv
<1>5. MemTypeOK' /\ \A u \in Task \ {t} : SameAt(u)
  BY <1>1, <1>2, <1>3 DEF Parts, MemTypeOK, SameAt, OtherRowsKept, TurnPc
<1>6. turnLease'[t] = NewLease(t, w) /\ run'[t] = "none"
  BY <1>1, <1>3, <1>4 DEF Parts, MemTypeOK
<1>7. RunInv(t)' /\ TurnInv(t)'
  BY <1>2, <1>3, <1>6 DEF RunInv, TurnInv
<1> QED
  BY <1>2, <1>3, <1>4, <1>5, <1>7, OneTaskStep

\* The steps of a turn that append: message, runtime event, end event.
LEMMA TurnAppendInv ==
  ASSUME IInv, NEW t \in Task,
         TurnInput(t) \/ TurnWorkerEvent(t) \/ TurnComplete(t) \/ TurnFails(t)
  PROVE  [StoreNext]_storeVars /\ ExecInv'
<1>1. turn[t] # "none" /\ host # "cancelling"
  BY DEF TurnInput, TurnWorkerEvent, TurnComplete, TurnFails, Quiet
<1>2. turnLease[t] \in issued
  BY <1>1 DEF IInv, ExecInv, TurnInv
<1>3. {"task.worker.event", "task.worker.input", "task.worker.turn.completed",
       "task.worker.turn.failed"} \subseteq AppendType
  BY OrchestratorAssumption
<1>4. [StoreNext]_storeVars /\ task' = task /\ issued' = issued
  <2>1. CASE \E type \in AppendType : AppendEvent(turnLease[t], type)
    BY <1>2, <2>1, AppendEffect
  <2>2. CASE UNCHANGED storeVars
    BY <2>2 DEF storeVars
  <2> QED
    BY <1>3, <2>1, <2>2 DEF TurnInput, TurnWorkerEvent, TurnComplete, TurnFails
<1>5. CASE TurnWorkerEvent(t)
  BY <1>4, <1>5, OutboxOnlyInv DEF TurnWorkerEvent
<1>6. CASE TurnInput(t) \/ TurnComplete(t) \/ TurnFails(t)
  <2>1. PICK pc \in TurnPc : SetTurn(t, pc)
    BY <1>6 DEF TurnInput, TurnComplete, TurnFails, TurnPc
  <2> QED
    BY <1>1, <1>4, <2>1, SetTurnInv
<1> QED
  BY <1>4, <1>5, <1>6

\* A turn leaves memory and gives its lease back if it still can.
LEMMA TurnReleaseInv ==
  ASSUME IInv, NEW t \in Task, TurnRelease(t)
  PROVE  [StoreNext]_storeVars /\ ExecInv'
<1>1. Parts(t)
  BY GetParts
<1>2. turn[t] = "releasing"
  BY DEF TurnRelease
<1>3. turnLease[t] \in issued /\ turnLease[t].task = t /\ run[t] = "none"
  BY <1>1, <1>2 DEF Parts, TurnInv
<1>4. [StoreNext]_storeVars /\ issued' = issued /\ OtherRowsKept(t)
  <2>1. CASE ReleaseLease(turnLease[t])
    BY <1>1, <1>3, <2>1, ReleaseEffect DEF Parts
  <2>2. CASE UNCHANGED storeVars
    BY <2>2 DEF storeVars, OtherRowsKept
  <2> QED
    BY <2>1, <2>2 DEF TurnRelease
<1>5. /\ turn' = [turn EXCEPT ![t] = "none"]
      /\ turnLease' = [turnLease EXCEPT ![t] = NoLease]
      /\ UNCHANGED <<host, run, aborted, lease, toCancel, atStop>>
  BY DEF TurnRelease
<1>6. MemTypeOK' /\ \A u \in Task \ {t} : SameAt(u)
  BY <1>1, <1>4, <1>5 DEF Parts, MemTypeOK, SameAt, OtherRowsKept, TurnPc
<1>7. run'[t] = "none" /\ turn'[t] = "none"
  BY <1>1, <1>3, <1>5 DEF Parts, MemTypeOK
<1>8. RunInv(t)' /\ TurnInv(t)'
  BY <1>7 DEF RunInv, TurnInv
<1>9. host # "cancelling"
  BY <1>1, <1>2 DEF Parts, StopInv
<1> QED
  BY <1>4, <1>5, <1>6, <1>8, <1>9, OneTaskStep

\* Every step of a turn preserves the invariant.
LEMMA TurnStepInv ==
  ASSUME IInv, NEW t \in Task, TurnStep(t)
  PROVE  [StoreNext]_storeVars /\ ExecInv'
BY TurnStartInv, TurnAppendInv, TurnReleaseInv DEF TurnStep

-----------------------------------------------------------------------------
(* The theorems *)

\* Every step of the host is a step of the store or leaves it alone, and
\* preserves the invariant.
LEMMA NextInv ==
  ASSUME IInv, [Next]_vars
  PROVE  [StoreNext]_storeVars /\ IInv'
<1>1. [StoreNext]_storeVars /\ ExecInv'
  <2>1. CASE Next
    BY <2>1, RunStepInv, TurnStepInv, HostStepInv DEF Next
  <2>2. CASE UNCHANGED vars
    <3>1. UNCHANGED storeVars /\ UNCHANGED <<task, issued, memVars>>
      BY <2>2 DEF vars, storeVars, memVars
    <3> QED
      BY <3>1, OutboxOnlyInv
  <2> QED
    BY <2>1, <2>2
<1>2. StoreInv'
  BY <1>1, NextStoreInv DEF IInv
<1> QED
  BY <1>1, <1>2 DEF IInv

\* The host starts with empty memory.
LEMMA InitInv == Init => IInv
<1> SUFFICES ASSUME Init PROVE IInv
  OBVIOUS
<1>1. StoreInv
  BY InitStoreInv DEF Init
<1>2. MemTypeOK
  BY DEF Init, MemTypeOK, RunPc, TurnPc
<1>3. \A t \in Task : run[t] = "none" /\ turn[t] = "none"
  BY DEF Init
<1>4. \A t \in Task : RunInv(t) /\ TurnInv(t)
  BY <1>3 DEF RunInv, TurnInv
<1>5. StopInv
  BY DEF Init, StopInv
<1> QED
  BY <1>1, <1>2, <1>4, <1>5 DEF IInv, ExecInv

\* The inductive invariant holds throughout.
THEOREM OrchestratorInvariant == Spec => []IInv
BY InitInv, NextInv, PTL DEF Spec

\* Type correctness of store and process memory.
THEOREM OrchestratorTypeCorrect == Spec => []TypeOK
<1>1. IInv => TypeOK
  BY DEF IInv, ExecInv, MemTypeOK, StoreInv, TypeOK
<1> QED
  BY <1>1, OrchestratorInvariant, PTL

\* The host implements the store: whatever its executors, cancels, stops and
\* crashes do to the database is a sequence of store operations by leases the
\* store has handed out.
THEOREM OrchestratorUsesStore == Spec => UsesStore
<1>1. Init => StoreInit
  BY DEF Init
<1> QED
  BY <1>1, InitInv, NextInv, PTL DEF Spec, UsesStore, StoreSpec

\* The run of a task and a turn of its child never execute together, and the row
\* names the lease of an executing run until that lease expires.
THEOREM OrchestratorOneExecutor == Spec => []OneExecutor
<1>1. ASSUME IInv PROVE OneExecutor
  <2> SUFFICES ASSUME NEW t \in Task
               PROVE  /\ run[t] = "none" \/ turn[t] = "none"
                      /\ run[t] = "executing" /\ ~aborted[t] /\ lease[t].expires > now =>
                           AssertLease(lease[t])
    BY DEF OneExecutor
  <2>1. RunInv(t) /\ TurnInv(t)
    BY <1>1 DEF IInv, ExecInv
  <2> QED
    BY <2>1 DEF RunInv, TurnInv, RowIsLeased, AssertLease, Absent
<1> QED
  BY <1>1, OrchestratorInvariant, PTL

\* Once stop() has gone through its loop every task it found active is terminal.
THEOREM OrchestratorStopCancelsAll == Spec => []StopCancelsAll
<1>1. IInv => StopCancelsAll
  BY DEF IInv, ExecInv, StopInv, StopCancelsAll
<1> QED
  BY <1>1, OrchestratorInvariant, PTL

\* What the store promises, the running host keeps.
THEOREM OrchestratorKeepsStorePromises ==
  Spec => /\ [](OneActiveWriter /\ NoStaleAppend)
          /\ []OutboxFaithful
          /\ TerminalIsFinal
          /\ NoTakeover
BY OrchestratorUsesStore, StoreOneActiveWriter, StoreNoStaleAppend, StoreOutboxFaithful,
   StoreTerminalIsFinal, StoreNoTakeover, PTL DEF UsesStore

-----------------------------------------------------------------------------
(* The orchestrator implements TaskLifecycle *)

\* A step that leaves what is observed, and who is in memory, is a stutter.
LEMMA LifeStutter ==
  ASSUME \A t \in Task : Observation(task'[t].state) = Observation(task[t].state),
         \A t \in Task : (run'[t] = "none") <=> (run[t] = "none"),
         (host' = "down") <=> (host = "down")
  PROVE  UNCHANGED Life!lifeVars
BY DEF Life!lifeVars, ActiveTasks

\* A step that takes an active, running task to an outcome settles it.
LEMMA LifeSettle ==
  ASSUME NEW t \in Task, run[t] # "none", NEW o \in {"completed", "failed", "cancelled"},
         Observation(task[t].state) = "running", task'[t].state = o,
         OtherRowsKept(t),
         \A u \in Task : (run'[u] = "none") <=> (run[u] = "none"),
         (host' = "down") <=> (host = "down")
  PROVE  Life!LifeNext
<1>1. Observation(task'[t].state) = o
  BY DEF Observation, Absent
<1>2. Life!Settle(t, o)
  BY <1>1 DEF Life!Settle, ActiveTasks, OtherRowsKept
<1> QED
  BY <1>2 DEF Life!LifeNext, Life!Outcome

\* The death of a living process.
LEMMA LifeDown ==
  ASSUME host # "down", ProcessEnds
  PROVE  Life!LifeNext
<1>1. /\ host' = "down" /\ task' = task
      /\ \A t \in Task : run'[t] = "none"
  BY DEF ProcessEnds, storeVars
<1>2. Life!HostDown
  BY <1>1 DEF Life!HostDown, ActiveTasks
<1> QED
  BY <1>2 DEF Life!LifeNext

\* A step of one task that is not observed.
LEMMA LifeTaskStutter ==
  ASSUME NEW t \in Task, OtherRowsKept(t),
         Observation(task'[t].state) = Observation(task[t].state),
         \A u \in Task : (run'[u] = "none") <=> (run[u] = "none"),
         (host' = "down") <=> (host = "down")
  PROVE  UNCHANGED Life!lifeVars
<1>1. \A u \in Task : Observation(task'[u].state) = Observation(task[u].state)
  BY DEF OtherRowsKept
<1> QED
  BY <1>1, LifeStutter

\* submit puts a task into memory: the Submit of the abstract module.
LEMMA LifeSubmit ==
  ASSUME IInv, NEW t \in Task, Submit(t)
  PROVE  Life!LifeNext
<1>1. Parts(t)
  BY GetParts
<1>2. /\ OtherRowsKept(t)
      /\ task[t].state = Absent /\ task'[t].state = "received"
  BY <1>1, CreateEffect DEF Parts, Submit
<1>3. run' = [run EXCEPT ![t] = "creating"] /\ host' = host /\ host # "down"
  BY DEF Submit, SetRun, Quiet
<1>4. ActiveTasks' = ActiveTasks \cup {t}
  BY <1>1, <1>3 DEF ActiveTasks, Parts, MemTypeOK
<1>5. Observation(task[t].state) = "absent" /\ Observation(task'[t].state) = "running"
  BY <1>2 DEF Observation, Absent
<1>6. Life!Submit(t)
  BY <1>2, <1>3, <1>4, <1>5 DEF Life!Submit, OtherRowsKept
<1> QED
  BY <1>6 DEF Life!LifeNext

\* The end of #run takes the task out of memory: the Retire of the abstract module.
LEMMA LifeRelease ==
  ASSUME IInv, NEW t \in Task, RunRelease(t)
  PROVE  Life!LifeNext
<1>1. Parts(t)
  BY GetParts
<1>2. run[t] = "releasing" /\ run' = [run EXCEPT ![t] = "none"] /\ host' = host
  BY DEF RunRelease
<1>3. lease[t] \in issued /\ lease[t].task = t
  BY <1>1, <1>2 DEF Parts, RunInv
<1>4. OtherRowsKept(t) /\ task'[t].state = task[t].state
  <2>1. CASE ReleaseLease(lease[t])
    BY <1>1, <1>3, <2>1, ReleaseEffect DEF Parts
  <2>2. CASE UNCHANGED storeVars
    BY <2>2 DEF storeVars, OtherRowsKept
  <2> QED
    BY <2>1, <2>2 DEF RunRelease
<1>5. \A u \in Task : Observation(task'[u].state) = Observation(task[u].state)
  BY <1>4 DEF OtherRowsKept
<1>6. t \in ActiveTasks /\ ActiveTasks' = ActiveTasks \ {t}
  BY <1>1, <1>2 DEF ActiveTasks, Parts, MemTypeOK
<1>7. Life!Retire(t)
  BY <1>2, <1>5, <1>6 DEF Life!Retire
<1> QED
  BY <1>7 DEF Life!LifeNext

\* A transition of a run in memory is not observed or settles the task.
LEMMA LifeTransition ==
  ASSUME IInv, NEW t \in Task, run[t] \in {"starting", "executing", "verified"},
         NEW to, NEW type \in TransitionType \ {"task.started"},
         Transition(lease[t], to, type), UNCHANGED <<lease, host>>,
         to \in {"planned", "queued", "preparing_workspace", "running", "verifying",
                 "completed", "failed", "cancelled"},
         \A u \in Task : (run'[u] = "none") <=> (run[u] = "none")
  PROVE  [Life!LifeNext]_(Life!lifeVars)
<1>1. Parts(t)
  BY GetParts
<1>2. /\ OtherRowsKept(t) /\ task'[t].state = to
      /\ CanTransition(task[t].state, to)
  BY RunTransition
<1>3. task[t].state \in {"received", "planned", "queued", "preparing_workspace",
                         "running", "verifying"}
  BY <1>1, <1>2 DEF Parts, RunInv, CanTransition, transitions
<1>4. Observation(task[t].state) = "running"
  BY <1>3 DEF Observation, Absent
<1>5. CASE to \in {"completed", "failed", "cancelled"}
  BY <1>2, <1>4, <1>5, LifeSettle
<1>6. CASE to \in {"planned", "queued", "preparing_workspace", "running", "verifying"}
  <2>1. Observation(task'[t].state) = "running"
    BY <1>2, <1>6 DEF Observation, Absent
  <2> QED
    BY <1>2, <1>4, <2>1, LifeTaskStutter
<1> QED
  BY <1>5, <1>6

\* Every step of a run is a step of the lifecycle or a stutter.
LEMMA LifeRunStep ==
  ASSUME IInv, NEW t \in Task, RunStep(t)
  PROVE  [Life!LifeNext]_(Life!lifeVars)
<1>1. Parts(t)
  BY GetParts
<1>2. "task.progress" \in TransitionType \ {"task.started"}
      /\ "task.completed" \in TransitionType \ {"task.started"}
      /\ "task.failed" \in TransitionType \ {"task.started"}
  BY DEF TransitionType
<1>3. ASSUME NEW pc \in RunPc \ {"none"}, SetRun(t, pc), run[t] # "none"
      PROVE  /\ \A u \in Task : (run'[u] = "none") <=> (run[u] = "none")
             /\ UNCHANGED <<lease, host>>
  BY <1>1, <1>3 DEF SetRun, Parts, MemTypeOK
<1>4. CASE AcquireRunLease(t)
  <2>1. OtherRowsKept(t) /\ task'[t].state = task[t].state
    BY <1>1, <1>4, OrchestratorAssumption, AcquireEffect DEF AcquireRunLease, Parts
  <2>2. run[t] = "creating" /\ run' = [run EXCEPT ![t] = "starting"] /\ host' = host
    BY <1>4 DEF AcquireRunLease
  <2>3. \A u \in Task : (run'[u] = "none") <=> (run[u] = "none")
    BY <1>1, <2>2 DEF Parts, MemTypeOK
  <2> QED
    BY <2>1, <2>2, <2>3, LifeTaskStutter
<1>5. CASE RunProgress(t)
  <2> DEFINE to == Progress[task[t].state]
  <2> DEFINE pc == IF task'[t].state = "running" THEN "executing" ELSE "starting"
  <2>1. run[t] = "starting" /\ Transition(lease[t], to, "task.progress") /\ SetRun(t, pc)
    BY <1>5 DEF RunProgress
  <2>2. to \in {"planned", "queued", "preparing_workspace", "running"}
    BY <1>1, <2>1 DEF Progress, Parts, RunInv
  <2>3. pc \in RunPc \ {"none"}
    BY DEF RunPc
  <2> HIDE DEF to, pc
  <2> QED
    BY <1>2, <1>3, <2>1, <2>2, <2>3, LifeTransition
<1>6. CASE RunReturns(t)
  <2>1. run[t] = "executing" /\ Transition(lease[t], "verifying", "task.progress")
        /\ SetRun(t, "verified") /\ "verified" \in RunPc \ {"none"}
    BY <1>6 DEF RunReturns, RunPc
  <2> QED
    BY <1>2, <1>3, <2>1, LifeTransition
<1>7. CASE RunComplete(t)
  <2>1. run[t] = "verified" /\ Transition(lease[t], "completed", "task.completed")
        /\ SetRun(t, "releasing") /\ "releasing" \in RunPc \ {"none"}
    BY <1>7 DEF RunComplete, RunPc
  <2> QED
    BY <1>2, <1>3, <2>1, LifeTransition
<1>8. CASE RunFails(t)
  <2>1. run[t] = "executing" /\ Transition(lease[t], "failed", "task.failed")
        /\ SetRun(t, "releasing") /\ "releasing" \in RunPc \ {"none"}
    BY <1>8 DEF RunFails, RunPc
  <2> QED
    BY <1>2, <1>3, <2>1, LifeTransition
<1>9. CASE RunWorkerEvent(t) \/ RunUnwinds(t)
  <2>1. task' = task
    BY <1>9 DEF RunWorkerEvent, AppendEvent, RunUnwinds, storeVars
  <2>2. /\ \A u \in Task : (run'[u] = "none") <=> (run[u] = "none")
        /\ host' = host
    <3>1. CASE RunWorkerEvent(t)
      BY <3>1 DEF RunWorkerEvent, memVars
    <3>2. CASE RunUnwinds(t)
      BY <1>3, <3>2 DEF RunUnwinds, RunPc
    <3> QED
      BY <1>9, <3>1, <3>2
  <2> QED
    BY <2>1, <2>2, LifeStutter
<1>10. CASE RunRejects(t)
  BY <1>10, LifeDown DEF RunRejects, Quiet
<1> QED
  BY <1>4, <1>5, <1>6, <1>7, <1>8, <1>9, <1>10, LifeSubmit, LifeRelease DEF RunStep

\* No step of a turn is observed.
LEMMA LifeTurnStep ==
  ASSUME IInv, NEW t \in Task, TurnStep(t)
  PROVE  UNCHANGED Life!lifeVars
<1>1. Parts(t)
  BY GetParts
<1>2. OtherRowsKept(t) /\ task'[t].state = task[t].state
  <2>1. CASE \E w \in Writer : TurnStart(t, w)
    BY <1>1, <2>1, AcquireEffect DEF TurnStart, Parts
  <2>2. CASE TurnInput(t) \/ TurnWorkerEvent(t) \/ TurnComplete(t) \/ TurnFails(t)
    BY <2>2 DEF TurnInput, TurnWorkerEvent, TurnComplete, TurnFails, AppendEvent,
                storeVars, OtherRowsKept
  <2>3. CASE TurnRelease(t)
    <3>1. turnLease[t] \in issued /\ turnLease[t].task = t
      BY <1>1, <2>3 DEF TurnRelease, Parts, TurnInv
    <3>2. CASE ReleaseLease(turnLease[t])
      BY <1>1, <3>1, <3>2, ReleaseEffect DEF Parts
    <3>3. CASE UNCHANGED storeVars
      BY <3>3 DEF storeVars, OtherRowsKept
    <3> QED
      BY <2>3, <3>2, <3>3 DEF TurnRelease
  <2> QED
    BY <2>1, <2>2, <2>3 DEF TurnStep
<1>3. run' = run /\ host' = host
  BY DEF TurnStep, TurnStart, TurnInput, TurnWorkerEvent, TurnComplete, TurnFails,
         TurnRelease, SetTurn, memVars
<1> QED
  BY <1>2, <1>3, LifeTaskStutter

\* Cancels settle, the end of the process and its restart are seen as such.
LEMMA LifeHostStep ==
  ASSUME IInv, HostStep
  PROVE  [Life!LifeNext]_(Life!lifeVars)
<1>1. CASE \E t \in Task : Cancel(t) \/ StopCancel(t)
  <2>1. PICK t \in Task : Cancel(t) \/ StopCancel(t)
    BY <1>1
  <2>2. Parts(t)
    BY GetParts
  <2>3. /\ run[t] = "executing" /\ CancelEffect(t) /\ UNCHANGED <<run, lease, host>>
    BY <2>1, <2>2 DEF Cancel, StopCancel, Parts, StopInv
  <2>4. "task.progress" \in TransitionType \ {"task.started"}
    BY DEF TransitionType
  <2>5. CASE Transition(lease[t], "cancelled", "task.progress")
    BY <2>3, <2>4, <2>5, LifeTransition
  <2>6. CASE UNCHANGED storeVars
    BY <2>3, <2>6, LifeStutter DEF storeVars
  <2> QED
    BY <2>3, <2>5, <2>6 DEF CancelEffect
<1>2. CASE (\E t \in Task : StopRejects(t)) \/ StopDone \/ Crash
  BY <1>2, LifeDown DEF StopRejects, StopDone, Crash
<1>3. CASE Restart
  <2>1. Life!HostUp
    BY <1>3 DEF Restart, storeVars, Life!HostUp, ActiveTasks
  <2> QED
    BY <2>1 DEF Life!LifeNext
<1>4. CASE Stop \/ StopCancelled \/ ClockTick
  <2>1. /\ task' = task /\ run' = run
        /\ (host' = "down") <=> (host = "down")
    BY <1>4 DEF Stop, StopCancelled, ClockTick, Tick, Quiet, storeVars, memVars
  <2> QED
    BY <2>1, LifeStutter
<1> QED
  BY <1>1, <1>2, <1>3, <1>4 DEF HostStep

\* The orchestrator keeps the promise of TaskLifecycle to its clients.
THEOREM OrchestratorImplementsLifecycle == Spec => LifeSpec
<1>1. Init => Life!LifeInit
  <2> SUFFICES ASSUME Init PROVE Life!LifeInit
    OBVIOUS
  <2>1. \A t \in Task : task[t].state = Absent
    BY DEF Init, StoreInit
  <2>2. \A t \in Task : Observation(task[t].state) = "absent"
    BY <2>1 DEF Observation, Absent
  <2>3. host # "down" /\ ActiveTasks = {}
    BY DEF Init, ActiveTasks
  <2> QED
    BY <2>2, <2>3 DEF Life!LifeInit
<1>2. IInv /\ [Next]_vars => [Life!LifeNext]_(Life!lifeVars)
  <2> SUFFICES ASSUME IInv, [Next]_vars PROVE [Life!LifeNext]_(Life!lifeVars)
    OBVIOUS
  <2>1. CASE Next
    BY <2>1, LifeRunStep, LifeTurnStep, LifeHostStep DEF Next
  <2>2. CASE UNCHANGED vars
    BY <2>2, LifeStutter DEF vars
  <2> QED
    BY <2>1, <2>2
<1> QED
  BY <1>1, <1>2, OrchestratorInvariant, PTL DEF Spec, LifeSpec, Life!LifeSpec

-----------------------------------------------------------------------------
(* No task is left behind by a host that is not killed *)

\* Every lease outlasts the run that was given it.
LeasesOutlast == now <= MaxTime /\ \A l \in issued : l.expires > MaxTime

\* A run leaves memory, and stop() the host, only once the task is terminal: what is in
\* memory while the host stops was there when the loop of stop() began.
LiveAt(t) ==
  /\ run[t] = "releasing" \/ aborted[t] => task[t].state \in Terminal
  /\ host \in {"cancelling", "closing"} /\ run[t] # "none" => t \in atStop
  /\ task[t].state \notin Terminal \cup {Absent} => run[t] # "none"

LiveInv == LeasesOutlast /\ \A t \in Task : LiveAt(t)

\* The setting: no process is killed, no task submitted to a closing host, and the clock
\* stops before the first lease expires.
Graceful == ~MayCrash /\ ~LateSubmits /\ MaxTime < LeaseTtl

\* The lease of a run is accepted up to its last transition.
LEMMA LeaseHeld ==
  ASSUME IInv, LeasesOutlast, NEW t \in Task,
         run[t] \in {"starting", "executing", "verified"}
  PROVE  AssertLease(lease[t])
<1>1. Parts(t) /\ LeaseBehindRow /\ issued \subseteq Lease /\ now \in Nat
  BY GetParts DEF Parts, StoreInv, StoreTypeOK
<1>2. lease[t] \in issued /\ lease[t].task = t /\ RowIsLeased(t)
  BY <1>1 DEF Parts, RunInv
<1>3. task[t].state # Absent
  BY <1>1, <1>2 DEF LeaseBehindRow
<1>4. lease[t].expires \in Nat /\ lease[t].expires > MaxTime /\ now <= MaxTime /\ MaxTime \in Nat
  BY <1>1, <1>2, OrchestratorAssumption DEF LeasesOutlast, Lease
<1>5. QED
  BY <1>1, <1>2, <1>3, <1>4 DEF AssertLease, RowIsLeased

\* Leases are handed out for longer than the clock goes.
LEMMA OutlastKept ==
  ASSUME IInv, LeasesOutlast, Graceful, [Next]_vars
  PROVE  LeasesOutlast'
<1>1. now \in Nat /\ LeaseTtl \in Nat /\ MaxTime \in Nat
  BY StoreAssumption, OrchestratorAssumption DEF IInv, StoreInv, StoreTypeOK
<1>2. ASSUME NEW t \in Task, NEW w, AcquireLease(t, w) PROVE LeasesOutlast'
  <2>1. now' = now /\ issued' = issued \cup {NewLease(t, w)}
    BY <1>2 DEF AcquireLease
  <2>2. NewLease(t, w).expires > MaxTime
    BY <1>1 DEF NewLease, Graceful
  <2> QED
    BY <2>1, <2>2 DEF LeasesOutlast
<1>3. CASE ClockTick
  BY <1>1, <1>3 DEF ClockTick, Tick, LeasesOutlast
<1>4. CASE UNCHANGED <<now, issued>>
  BY <1>4 DEF LeasesOutlast
<1>5. ASSUME NEW t \in Task, RunStep(t) \/ TurnStep(t)
      PROVE  \/ UNCHANGED <<now, issued>>
             \/ \E w : AcquireLease(t, w)
  BY <1>5 DEF RunStep, TurnStep, Submit, CreateTask, AcquireRunLease, RunProgress, RunWorkerEvent,
     RunReturns, RunComplete, RunFails, RunUnwinds, RunRejects, RunRelease, TurnStart, TurnInput,
     TurnWorkerEvent, TurnComplete, TurnFails, TurnRelease, Transition, AppendEvent, ReleaseLease,
     ProcessEnds, storeVars
<1>6. CASE HostStep /\ ~ClockTick
  BY <1>4, <1>6 DEF HostStep, Cancel, CancelEffect, Stop, StopCancel, StopRejects, StopCancelled,
     StopDone, Crash, Restart, ProcessEnds, Transition, storeVars
<1>7. CASE UNCHANGED vars
  BY <1>4, <1>7 DEF vars
<1>8. QED
  BY <1>2, <1>3, <1>4, <1>5, <1>6, <1>7 DEF Next

\* What a step leaves of a task's row and run.
LEMMA LiveStays ==
  ASSUME NEW u \in Task, LiveAt(u), task'[u].state = task[u].state,
         run'[u] = run[u], aborted'[u] = aborted[u], UNCHANGED <<host, atStop>>
  PROVE  LiveAt(u)'
BY DEF LiveAt

\* A run that goes on, or leaves once the task is terminal.
LEMMA LiveRunMoves ==
  ASSUME IInv, LiveInv, NEW t \in Task, NEW pc \in RunPc \ {"none"}, SetRun(t, pc),
         OtherRowsKept(t), run[t] # "none" \/ host = "up",
         aborted[t] \/ pc = "releasing" => task'[t].state \in Terminal
  PROVE  \A u \in Task : LiveAt(u)'
<1>1. /\ run' = [run EXCEPT ![t] = pc] /\ UNCHANGED <<host, aborted, atStop>>
      /\ run \in [Task -> RunPc] /\ LiveAt(t)
  BY DEF SetRun, IInv, ExecInv, MemTypeOK, LiveInv
<1>2. ASSUME NEW u \in Task \ {t} PROVE LiveAt(u)'
  BY <1>1, LiveStays DEF OtherRowsKept, LiveInv
<1>3. LiveAt(t)'
  BY <1>1 DEF LiveAt
<1>4. QED
  BY <1>2, <1>3

\* A transition of a run: a task that is already terminal makes none.
LEMMA LiveTransition ==
  ASSUME IInv, LiveInv, NEW t \in Task, run[t] \in {"starting", "executing", "verified"},
         NEW to, NEW type \in TransitionType \ {"task.started"}, Transition(lease[t], to, type),
         NEW pc \in RunPc \ {"none"}, SetRun(t, pc),
         pc = "releasing" => to \in Terminal
  PROVE  \A u \in Task : LiveAt(u)'
<1>1. UNCHANGED lease
  BY DEF SetRun
<1>2. OtherRowsKept(t) /\ task'[t].state = to /\ CanTransition(task[t].state, to)
  BY <1>1, RunTransition
<1>3. ~aborted[t]
  BY <1>2, TransitionLeavesTerminal DEF LiveInv, LiveAt
<1>4. QED
  BY <1>2, <1>3, LiveRunMoves

\* The steps of runs.
LEMMA LiveRunStep ==
  ASSUME IInv, LiveInv, Graceful, NEW t \in Task, RunStep(t)
  PROVE  \A u \in Task : LiveAt(u)'
<1>1. Parts(t) /\ LiveAt(t) /\ LeasesOutlast
  BY GetParts DEF LiveInv
<1>2. /\ "task.progress" \in TransitionType \ {"task.started"}
      /\ "task.completed" \in TransitionType \ {"task.started"}
      /\ "task.failed" \in TransitionType \ {"task.started"}
      /\ {"creating", "starting", "executing", "verified", "releasing"} \subseteq RunPc \ {"none"}
      /\ {"completed", "failed"} \subseteq Terminal
  BY DEF TransitionType, RunPc, Terminal
<1>3. CASE Submit(t)
  <2>1. OtherRowsKept(t) /\ task[t].state = Absent
    BY <1>1, <1>3, CreateEffect DEF Parts, Submit
  <2>2. ~aborted[t]
    BY <1>1, <2>1 DEF LiveAt, Terminal, Absent
  <2>3. host = "up" /\ SetRun(t, "creating")
    BY <1>3 DEF Submit, Graceful
  <2> QED
    BY <1>2, <2>1, <2>2, <2>3, LiveRunMoves
<1>4. CASE AcquireRunLease(t)
  <2>1. OtherRowsKept(t) /\ task'[t].state = task[t].state
    BY <1>1, <1>4, OrchestratorAssumption, AcquireEffect DEF Parts, AcquireRunLease
  <2>2. /\ run[t] = "creating" /\ run' = [run EXCEPT ![t] = "starting"]
        /\ UNCHANGED <<host, aborted, atStop>>
    BY <1>4 DEF AcquireRunLease
  <2>3. ASSUME NEW u \in Task \ {t} PROVE LiveAt(u)'
    BY <1>1, <2>1, <2>2, LiveStays DEF OtherRowsKept, LiveInv, Parts, MemTypeOK
  <2>4. LiveAt(t)'
    BY <1>1, <2>1, <2>2 DEF LiveAt, Parts, MemTypeOK
  <2> QED
    BY <2>3, <2>4
<1>5. CASE RunProgress(t)
  <2> DEFINE to == Progress[task[t].state]
  <2> DEFINE pc == IF task'[t].state = "running" THEN "executing" ELSE "starting"
  <2>1. run[t] = "starting" /\ Transition(lease[t], to, "task.progress") /\ SetRun(t, pc)
    BY <1>5 DEF RunProgress
  <2>2. pc \in RunPc \ {"none"} /\ pc # "releasing"
    BY <1>2
  <2> HIDE DEF to, pc
  <2> QED
    BY <1>2, <2>1, <2>2, LiveTransition
<1>6. CASE RunWorkerEvent(t)
  BY <1>6, LiveStays DEF RunWorkerEvent, AppendEvent, memVars, LiveInv
<1>7. CASE RunReturns(t)
  <2>1. /\ run[t] = "executing" /\ Transition(lease[t], "verifying", "task.progress")
        /\ SetRun(t, "verified")
    BY <1>7 DEF RunReturns
  <2> QED
    BY <1>2, <2>1, LiveTransition
<1>8. CASE RunComplete(t)
  <2>1. /\ run[t] = "verified" /\ Transition(lease[t], "completed", "task.completed")
        /\ SetRun(t, "releasing")
    BY <1>8 DEF RunComplete
  <2> QED
    BY <1>2, <2>1, LiveTransition
<1>9. CASE RunFails(t)
  <2>1. /\ run[t] = "executing" /\ Transition(lease[t], "failed", "task.failed")
        /\ SetRun(t, "releasing")
    BY <1>9 DEF RunFails
  <2> QED
    BY <1>2, <2>1, LiveTransition
<1>10. CASE RunUnwinds(t)
  <2>1. run[t] = "executing" /\ aborted[t] /\ SetRun(t, "releasing") /\ task' = task
    BY <1>10 DEF RunUnwinds, storeVars
  <2>2. task'[t].state \in Terminal /\ OtherRowsKept(t)
    BY <1>1, <2>1 DEF LiveAt, OtherRowsKept
  <2> QED
    BY <1>2, <2>1, <2>2, LiveRunMoves
<1>11. CASE RunRejects(t)
  BY <1>1, <1>11, LeaseHeld DEF RunRejects
<1>12. CASE RunRelease(t)
  <2>1. OtherRowsKept(t) /\ task'[t].state = task[t].state
    <3>1. lease[t] \in issued /\ lease[t].task = t
      BY <1>1, <1>12 DEF RunRelease, Parts, RunInv
    <3>2. CASE ReleaseLease(lease[t])
      BY <1>1, <3>1, <3>2, ReleaseEffect DEF Parts
    <3>3. CASE UNCHANGED storeVars
      BY <3>3 DEF storeVars, OtherRowsKept
    <3> QED
      BY <1>12, <3>2, <3>3 DEF RunRelease
  <2>2. /\ run[t] = "releasing" /\ run' = [run EXCEPT ![t] = "none"]
        /\ aborted' = [aborted EXCEPT ![t] = FALSE] /\ UNCHANGED <<host, atStop>>
    BY <1>12 DEF RunRelease
  <2>3. ASSUME NEW u \in Task \ {t} PROVE LiveAt(u)'
    BY <1>1, <2>1, <2>2, LiveStays DEF OtherRowsKept, LiveInv, Parts, MemTypeOK
  <2>4. LiveAt(t)'
    BY <1>1, <2>1, <2>2 DEF LiveAt, Parts, MemTypeOK
  <2> QED
    BY <2>3, <2>4
<1>13. QED
  BY <1>3, <1>4, <1>5, <1>6, <1>7, <1>8, <1>9, <1>10, <1>11, <1>12 DEF RunStep

\* The steps of turns, which look at completed tasks only.
LEMMA LiveTurnStep ==
  ASSUME IInv, LiveInv, NEW t \in Task, TurnStep(t)
  PROVE  \A u \in Task : LiveAt(u)'
<1>1. Parts(t)
  BY GetParts
<1>2. OtherRowsKept(t) /\ task'[t].state = task[t].state
  <2>1. CASE \E w \in Writer : TurnStart(t, w)
    BY <1>1, <2>1, AcquireEffect DEF TurnStart, Parts
  <2>2. CASE TurnInput(t) \/ TurnWorkerEvent(t) \/ TurnComplete(t) \/ TurnFails(t)
    BY <2>2 DEF TurnInput, TurnWorkerEvent, TurnComplete, TurnFails, AppendEvent,
                storeVars, OtherRowsKept
  <2>3. CASE TurnRelease(t)
    <3>1. turnLease[t] \in issued /\ turnLease[t].task = t
      BY <1>1, <2>3 DEF TurnRelease, Parts, TurnInv
    <3>2. CASE ReleaseLease(turnLease[t])
      BY <1>1, <3>1, <3>2, ReleaseEffect DEF Parts
    <3>3. CASE UNCHANGED storeVars
      BY <3>3 DEF storeVars, OtherRowsKept
    <3> QED
      BY <2>3, <3>2, <3>3 DEF TurnRelease
  <2> QED
    BY <2>1, <2>2, <2>3 DEF TurnStep
<1>3. UNCHANGED <<host, run, aborted, atStop>>
  BY DEF TurnStep, TurnStart, TurnInput, TurnWorkerEvent, TurnComplete, TurnFails,
         TurnRelease, SetTurn, memVars
<1>4. QED
  BY <1>2, <1>3, LiveStays DEF OtherRowsKept, LiveInv

\* A cancel finds the lease accepted, so that it leaves the task terminal.
LEMMA LiveCancel ==
  ASSUME IInv, LiveInv, NEW t \in Task, run[t] = "executing", CancelEffect(t),
         UNCHANGED <<host, run, lease, turn, turnLease, atStop>>
  PROVE  \A u \in Task : LiveAt(u)'
<1>1. Parts(t) /\ AssertLease(lease[t]) /\ LiveAt(t)
  BY GetParts, LeaseHeld DEF LiveInv
<1>2. aborted' = [aborted EXCEPT ![t] = TRUE]
  BY DEF CancelEffect
<1>3. OtherRowsKept(t) /\ task'[t].state \in Terminal
  <2>1. CASE Transition(lease[t], "cancelled", "task.progress")
    <3>1. "task.progress" \in TransitionType \ {"task.started"}
      BY DEF TransitionType
    <3>2. OtherRowsKept(t) /\ task'[t].state = "cancelled"
      BY <2>1, <3>1, RunTransition
    <3> QED
      BY <3>2 DEF Terminal
  <2>2. CASE (task[t].state \in Terminal \/ CancelThrows(t)) /\ UNCHANGED storeVars
    BY <1>1, <2>2 DEF CancelThrows, storeVars, OtherRowsKept
  <2> QED
    BY <2>1, <2>2 DEF CancelEffect
<1>4. ASSUME NEW u \in Task \ {t} PROVE LiveAt(u)'
  BY <1>1, <1>2, <1>3, LiveStays DEF OtherRowsKept, LiveInv, Parts, MemTypeOK
<1>5. LiveAt(t)'
  BY <1>1, <1>3 DEF LiveAt
<1>6. QED
  BY <1>4, <1>5

\* The steps of the process: when it ends, all tasks that it knew are terminal.
LEMMA LiveHostStep ==
  ASSUME IInv, LiveInv, Graceful, HostStep
  PROVE  \A u \in Task : LiveAt(u)'
<1>1. MemTypeOK /\ StopInv /\ LeasesOutlast
  BY DEF IInv, ExecInv, LiveInv
<1>2. ASSUME NEW t \in Task, Cancel(t) \/ StopCancel(t) PROVE \A u \in Task : LiveAt(u)'
  <2>1. /\ run[t] = "executing" /\ CancelEffect(t)
        /\ UNCHANGED <<host, run, lease, turn, turnLease, atStop>>
    BY <1>1, <1>2 DEF Cancel, StopCancel, StopInv
  <2> QED
    BY <2>1, LiveCancel
<1>3. ASSUME NEW t \in Task, StopRejects(t) PROVE FALSE
  <2>1. run[t] = "executing" /\ CancelThrows(t)
    BY <1>1, <1>3 DEF StopRejects, StopInv
  <2> QED
    BY <1>1, <2>1, LeaseHeld DEF CancelThrows
<1>4. CASE Stop
  <2>1. /\ Quiet /\ atStop' = {t \in Task : run[t] # "none"}
        /\ UNCHANGED <<task, run, aborted>>
    BY <1>4 DEF Stop, storeVars
  <2> QED
    BY <2>1 DEF LiveInv, LiveAt
<1>5. CASE StopCancelled
  BY <1>5 DEF StopCancelled, storeVars, LiveInv, LiveAt
<1>6. CASE StopDone
  <2>1. host = "closing" /\ ProcessEnds
    BY <1>6 DEF StopDone
  <2>2. ASSUME NEW t \in Task PROVE task[t].state \in Terminal \cup {Absent}
    <3>1. CASE run[t] = "none"
      BY <3>1 DEF LiveInv, LiveAt
    <3>2. CASE run[t] # "none"
      BY <1>1, <2>1, <3>2 DEF LiveInv, LiveAt, StopInv
    <3> QED
      BY <3>1, <3>2
  <2>3. /\ host' = "down" /\ task' = task
        /\ \A t \in Task : run'[t] = "none" /\ ~aborted'[t]
    BY <2>1 DEF ProcessEnds, storeVars
  <2> QED
    BY <2>2, <2>3 DEF LiveAt
<1>7. CASE Restart
  BY <1>7 DEF Restart, storeVars, LiveInv, LiveAt
<1>8. CASE ClockTick
  BY <1>8, LiveStays DEF ClockTick, Tick, memVars, LiveInv
<1>9. QED
  BY <1>2, <1>3, <1>4, <1>5, <1>6, <1>7, <1>8 DEF HostStep, Crash, Graceful

\* When the host is not killed, takes no tasks while it closes and its runs end before their
\* leases do, a task that is not terminal has its executor in memory: neither a run that
\* ends, fails or is cancelled nor the stop of the host leaves it behind
\* (orchestrator.ts:84, 181, 195).
THEOREM OrchestratorLeavesNoTask ==
  ASSUME Graceful PROVE Spec => []LiveTaskHasExecutor
<1>1. Init => LiveInv
  <2> SUFFICES ASSUME Init PROVE LiveInv
    OBVIOUS
  <2>1. LeasesOutlast
    BY OrchestratorAssumption DEF Init, StoreInit, LeasesOutlast
  <2>2. \A t \in Task : task[t].state = Absent /\ run[t] = "none" /\ ~aborted[t]
    BY DEF Init, StoreInit
  <2> QED
    BY <2>1, <2>2 DEF LiveInv, LiveAt
<1>2. IInv /\ LiveInv /\ [Next]_vars => LiveInv'
  <2> SUFFICES ASSUME IInv, LiveInv, [Next]_vars PROVE LiveInv'
    OBVIOUS
  <2>1. LeasesOutlast'
    BY OutlastKept DEF LiveInv
  <2>2. CASE UNCHANGED vars
    BY <2>1, <2>2 DEF vars, LiveInv, LiveAt
  <2>3. CASE Next
    BY <2>1, <2>3, LiveRunStep, LiveTurnStep, LiveHostStep DEF Next, LiveInv
  <2> QED
    BY <2>2, <2>3
<1>3. LiveInv => LiveTaskHasExecutor
  BY DEF LiveInv, LiveAt, LiveTaskHasExecutor
<1> QED
  BY <1>1, <1>2, <1>3, OrchestratorInvariant, PTL DEF Spec

-----------------------------------------------------------------------------
(* The conversation of a turn *)

By(t, i, by) == i \in 1..Len(log[t]) /\ log[t][i].by = by
Said(t, type, by) == \E i : By(t, i, by) /\ log[t][i].type = type
NotEnded(t, by) == \A i : By(t, i, by) => log[t][i].type \notin TurnEnd

\* The two parts of TurnsFaithful at one task.
TranscriptAt(t) ==
  \A i, j \in 1..Len(log[t]) :
    i < j /\ log[t][i].by = log[t][j].by =>
      log[t][i].type \notin TurnEnd /\ log[t][j].type # "task.worker.input"

EvidencedAt(t) ==
  \A j \in 1..Len(log[t]) :
    log[t][j].type = "task.worker.turn.completed" =>
      \A type \in {"task.worker.input", "task.worker.event"} :
        \E i \in 1..(j - 1) : log[t][i].type = type /\ log[t][i].by = log[t][j].by

\* What was written so far by the lease of the executor in memory.
WrittenAt(t) ==
  /\ run[t] \notin {"none", "creating"} => NotEnded(t, lease[t].version)
  /\ turn[t] = "opening" => \A i : ~By(t, i, turnLease[t].version)
  /\ turn[t] = "streaming" => /\ NotEnded(t, turnLease[t].version)
                              /\ Said(t, "task.worker.input", turnLease[t].version)

FaithfulAt(t) == TranscriptAt(t) /\ EvidencedAt(t) /\ WrittenAt(t)

\* Steps that leave the outbox of a task and the places of its executors.
LEMMA FaithfulStays ==
  ASSUME NEW u \in Task, FaithfulAt(u), log'[u] = log[u],
         run'[u] = run[u], lease'[u] = lease[u], turn'[u] = turn[u], turnLease'[u] = turnLease[u]
  PROVE  FaithfulAt(u)'
BY DEF FaithfulAt, TranscriptAt, EvidencedAt, WrittenAt, NotEnded, Said, By

\* Steps that leave the outbox of a task while its executor leaves, or its end of a turn.
LEMMA FaithfulLeaves ==
  ASSUME NEW u \in Task, FaithfulAt(u), log'[u] = log[u],
         \/ run'[u] = "none"
         \/ run[u] \notin {"none", "creating"} /\ lease'[u] = lease[u],
         turn'[u] \in {"none", "releasing"}
  PROVE  FaithfulAt(u)'
BY DEF FaithfulAt, TranscriptAt, EvidencedAt, WrittenAt, NotEnded, Said, By

\* An event more in the outbox of a task.
LEMMA FaithfulInsert ==
  ASSUME StoreInv, NEW t \in Task, TranscriptAt(t), EvidencedAt(t),
         NEW type \in TransitionType \cup AppendType, NEW to \in TaskState \cup {None},
         NEW by \in Nat, InsertOutbox(t, type, to, by),
         NotEnded(t, by),
         type = "task.worker.input" => \A i : ~By(t, i, by),
         type = "task.worker.turn.completed" =>
           Said(t, "task.worker.input", by) /\ Said(t, "task.worker.event", by)
  PROVE  /\ TranscriptAt(t)' /\ EvidencedAt(t)'
         /\ type \notin TurnEnd => NotEnded(t, by)'
         /\ Said(t, type, by)'
         /\ \A b, ty : Said(t, ty, b) => Said(t, ty, b)'
         /\ \A u \in Task \ {t} : log'[u] = log[u]
<1> DEFINE m == Len(log[t])
<1>1. log \in [Task -> Seq(Event)]
  BY DEF StoreInv, StoreTypeOK
<1>2. /\ m \in Nat /\ Len(log'[t]) = m + 1
      /\ log'[t][m + 1].type = type /\ log'[t][m + 1].by = by
      /\ \A i \in 1..m : log'[t][i] = log[t][i]
      /\ \A u \in Task \ {t} : log'[u] = log[u]
  BY <1>1, InsertOutboxEffect
<1> HIDE DEF m
<1>3. /\ 1..Len(log'[t]) = (1..m) \cup {m + 1} /\ m + 1 \notin 1..m
      /\ \A i \in 1..m : i < m + 1 /\ i \in Nat /\ 1..(i - 1) \subseteq 1..m
      /\ 1..(m + 1 - 1) = 1..m
  BY <1>2
<1>4. TranscriptAt(t)'
  <2> SUFFICES ASSUME NEW i \in 1..Len(log'[t]), NEW j \in 1..Len(log'[t]),
                      i < j, log'[t][i].by = log'[t][j].by
               PROVE  log'[t][i].type \notin TurnEnd /\ log'[t][j].type # "task.worker.input"
    BY DEF TranscriptAt
  <2>1. i \in 1..m
    BY <1>2, <1>3
  <2>2. CASE j \in 1..m
    BY <1>2, <2>1, <2>2 DEF TranscriptAt, m
  <2>3. CASE j = m + 1
    <3>1. By(t, i, by)
      BY <1>2, <2>1, <2>3 DEF By, m
    <3> QED
      BY <1>2, <2>1, <2>3, <3>1 DEF NotEnded
  <2> QED
    BY <1>3, <2>2, <2>3
<1>5. EvidencedAt(t)'
  <2> SUFFICES ASSUME NEW j \in 1..Len(log'[t]), log'[t][j].type = "task.worker.turn.completed",
                      NEW ty \in {"task.worker.input", "task.worker.event"}
               PROVE  \E i \in 1..(j - 1) : log'[t][i].type = ty /\ log'[t][i].by = log'[t][j].by
    BY DEF EvidencedAt
  <2>1. CASE j \in 1..m
    <3>1. PICK i \in 1..(j - 1) : log[t][i].type = ty /\ log[t][i].by = log[t][j].by
      BY <1>2, <2>1 DEF EvidencedAt, m
    <3>2. i \in 1..m
      BY <1>3, <2>1
    <3> QED
      BY <1>2, <2>1, <3>1, <3>2
  <2>2. CASE j = m + 1
    <3>1. Said(t, ty, by)
      BY <1>2, <2>2
    <3>2. PICK i \in 1..m : log[t][i].by = by /\ log[t][i].type = ty
      BY <3>1 DEF Said, By, m
    <3>3. i \in 1..(j - 1)
      BY <1>3, <2>2
    <3> QED
      BY <1>2, <2>2, <3>2, <3>3
  <2> QED
    BY <1>3, <2>1, <2>2
<1>6. type \notin TurnEnd => NotEnded(t, by)'
  BY <1>2, <1>3 DEF NotEnded, By, m
<1>7. Said(t, type, by)'
  BY <1>2, <1>3 DEF Said, By
<1>8. ASSUME NEW b, NEW ty, Said(t, ty, b) PROVE Said(t, ty, b)'
  BY <1>2, <1>3, <1>8 DEF Said, By, m
<1>9. QED
  BY <1>2, <1>4, <1>5, <1>6, <1>7, <1>8

\* What a run writes is no part of a conversation.
LEMMA FaithfulRunWrites ==
  ASSUME IInv, \A u \in Task : FaithfulAt(u), NEW t \in Task,
         run[t] \in {"starting", "executing", "verified"},
         NEW type \in TransitionType \cup {"task.worker.event"}, NEW to \in TaskState \cup {None},
         InsertOutbox(t, type, to, lease[t].version),
         UNCHANGED <<lease, turn, turnLease>>, \A u \in Task \ {t} : run'[u] = run[u]
  PROVE  \A u \in Task : FaithfulAt(u)'
<1>1. /\ Parts(t) /\ FaithfulAt(t) /\ lease[t] \in issued /\ turn[t] = "none"
      /\ issued \subseteq Lease
  BY GetParts DEF Parts, RunInv, TurnInv, StoreInv, StoreTypeOK
<1>2. lease[t].version \in Nat
  BY <1>1 DEF Lease
<1>3. type \in TransitionType \cup AppendType /\ type \notin TurnEnd /\ type # "task.worker.input"
  BY OrchestratorAssumption DEF TransitionType, TurnEnd
<1>4. type # "task.worker.turn.completed"
  BY <1>3 DEF TurnEnd
<1>5. NotEnded(t, lease[t].version)
  BY <1>1 DEF FaithfulAt, WrittenAt
<1>6. PICK by \in Nat : by = lease[t].version
  BY <1>2
<1>7. /\ TranscriptAt(t)' /\ EvidencedAt(t)' /\ NotEnded(t, by)'
      /\ \A u \in Task \ {t} : log'[u] = log[u]
  BY <1>1, <1>3, <1>4, <1>5, <1>6, FaithfulInsert DEF Parts, FaithfulAt
<1>8. FaithfulAt(t)'
  <2>1. turn'[t] = "none" /\ lease'[t].version = by
    BY <1>1, <1>6
  <2> QED
    BY <1>7, <2>1 DEF FaithfulAt, WrittenAt, NotEnded, By
<1>9. QED
  BY <1>7, <1>8, FaithfulStays

\* A lease that is new is newer than all that was written.
LEMMA FreshLease ==
  ASSUME StoreInv, NEW t \in Task, NEW w
  PROVE  \A i : ~By(t, i, NewLease(t, w).version)
<1>1. /\ task[t].version \in Nat /\ NewLease(t, w).version = task[t].version + 1
      /\ log \in [Task -> Seq(Event)]
  BY DEF StoreInv, StoreTypeOK, Row, NewLease
<1>2. \A i \in 1..Len(log[t]) : log[t][i] \in Event /\ log[t][i].by <= task[t].version
  BY <1>1 DEF StoreInv, EventBehindRow
<1>3. \A i \in 1..Len(log[t]) : log[t][i].by \in Nat
  BY <1>2 DEF Event
<1>4. QED
  BY <1>1, <1>2, <1>3 DEF By

\* Memory that dies takes no conversation with it.
LEMMA FaithfulEnds ==
  ASSUME \A u \in Task : FaithfulAt(u), ProcessEnds
  PROVE  \A u \in Task : FaithfulAt(u)'
<1>1. log' = log /\ \A u \in Task : run'[u] = "none" /\ turn'[u] = "none"
  BY DEF ProcessEnds, storeVars
<1>2. QED
  BY <1>1, FaithfulLeaves

\* Without an event the conversation is what it was.
LEMMA TranscriptsStay ==
  ASSUME NEW t, TranscriptAt(t), EvidencedAt(t), log' = log
  PROVE  TranscriptAt(t)' /\ EvidencedAt(t)'
BY DEF TranscriptAt, EvidencedAt

\* The table of transitions leads to states only.
LEMMA TransitionsInside == \A s \in TaskState : transitions[s] \subseteq TaskState
BY DEF transitions, TaskState

\* Every step of a run keeps the conversations.
LEMMA FaithfulRunStep ==
  ASSUME IInv, \A u \in Task : FaithfulAt(u), NEW t \in Task, RunStep(t)
  PROVE  \A u \in Task : FaithfulAt(u)'
<1>1. Parts(t) /\ FaithfulAt(t) /\ run \in [Task -> RunPc] /\ lease \in [Task -> Lease \cup {NoLease}]
  BY GetParts DEF Parts, MemTypeOK
<1>2. \A u \in Task \ {t} : UNCHANGED <<run[u], lease[u], turn[u], turnLease[u]>> \/ RunRejects(t)
  BY <1>1 DEF RunStep, Submit, AcquireRunLease, RunProgress, RunWorkerEvent, RunReturns, RunComplete,
     RunFails, RunUnwinds, RunRelease, SetRun, memVars
<1>3. CASE Submit(t)
  <2>1. /\ InsertOutbox(t, "task.started", "received", 0) /\ task[t].state = Absent
        /\ run' = [run EXCEPT ![t] = "creating"] /\ UNCHANGED <<lease, turn, turnLease>>
    BY <1>3 DEF Submit, CreateTask, SetRun
  <2>2. turn[t] = "none" /\ log[t] = <<>>
    BY <1>1, <2>1 DEF Parts, TurnInv, StoreInv, AbsentIsUnleased, Absent
  <2>3. \A i : ~By(t, i, 0)
    <3>1. Len(<<>>) = 0 /\ 1..0 = {}
      OBVIOUS
    <3> QED
      BY <2>2, <3>1 DEF By
  <2>4. /\ "task.started" \in TransitionType \cup AppendType /\ "received" \in TaskState \cup {None}
        /\ 0 \in Nat
    BY DEF TransitionType, TaskState
  <2>5. /\ TranscriptAt(t)' /\ EvidencedAt(t)' /\ \A u \in Task \ {t} : log'[u] = log[u]
    BY <1>1, <2>1, <2>3, <2>4, FaithfulInsert DEF Parts, FaithfulAt, NotEnded
  <2>6. FaithfulAt(t)'
    <3>1. run'[t] = "creating" /\ turn'[t] = "none"
      BY <1>1, <2>1, <2>2
    <3> QED
      BY <2>5, <3>1 DEF FaithfulAt, WrittenAt
  <2>7. \A u \in Task \ {t} : run'[u] = run[u]
    BY <1>1, <2>1
  <2> QED
    BY <2>1, <2>5, <2>6, <2>7, FaithfulStays
<1>4. CASE AcquireRunLease(t)
  <2>1. /\ log' = log /\ lease' = [lease EXCEPT ![t] = NewLease(t, HostWriter)]
        /\ run[t] = "creating" /\ run' = [run EXCEPT ![t] = "starting"]
        /\ UNCHANGED <<turn, turnLease>>
    BY <1>4 DEF AcquireRunLease, AcquireLease
  <2>2. turn[t] = "none" /\ lease'[t] = NewLease(t, HostWriter)
    BY <1>1, <2>1 DEF Parts, TurnInv
  <2>3. NotEnded(t, lease'[t].version)
    BY <1>1, <2>2, FreshLease DEF Parts, NotEnded
  <2>4. NotEnded(t, lease[t].version)'
    BY <2>1, <2>3 DEF NotEnded, By
  <2>5. TranscriptAt(t)' /\ EvidencedAt(t)'
    BY <1>1, <2>1, TranscriptsStay DEF FaithfulAt
  <2>6. FaithfulAt(t)'
    BY <2>1, <2>2, <2>4, <2>5 DEF FaithfulAt, WrittenAt
  <2>7. \A u \in Task \ {t} : run'[u] = run[u] /\ lease'[u] = lease[u]
    BY <1>1, <2>1
  <2> QED
    BY <2>1, <2>6, <2>7, FaithfulStays
<1>5. ASSUME NEW to \in TaskState \cup {None}, NEW type \in TransitionType \ {"task.started"},
             NEW pc, run[t] \in {"starting", "executing", "verified"},
             Transition(lease[t], to, type), SetRun(t, pc)
      PROVE  \A u \in Task : FaithfulAt(u)'
  <2>1. lease[t].task = t
    BY <1>1, <1>5 DEF Parts, RunInv
  <2>2. /\ InsertOutbox(t, type, to, lease[t].version)
        /\ run' = [run EXCEPT ![t] = pc] /\ UNCHANGED <<lease, turn, turnLease>>
    BY <1>5, <2>1 DEF Transition, SetRun
  <2>3. \A u \in Task \ {t} : run'[u] = run[u]
    BY <1>1, <2>2
  <2> QED
    BY <1>5, <2>2, <2>3, FaithfulRunWrites
<1>6. CASE RunProgress(t) \/ RunReturns(t) \/ RunComplete(t) \/ RunFails(t)
  <2>1. \A to, type : Transition(lease[t], to, type) => to \in TaskState
    BY TransitionsInside DEF Transition, CanTransition
  <2>2. {"task.progress", "task.completed", "task.failed"} \subseteq
          TransitionType \ {"task.started"}
    BY DEF TransitionType
  <2>3. CASE RunProgress(t)
    <3> DEFINE to == Progress[task[t].state]
               pc == IF task'[t].state = "running" THEN "executing" ELSE "starting"
    <3>1. run[t] = "starting" /\ Transition(lease[t], to, "task.progress") /\ SetRun(t, pc)
      BY <2>3, Zenon DEF RunProgress
    <3> HIDE DEF to, pc
    <3> QED
      BY <1>5, <2>1, <2>2, <3>1
  <2>4. CASE RunReturns(t)
    BY <1>5, <2>1, <2>2, <2>4 DEF RunReturns
  <2>5. CASE RunComplete(t)
    BY <1>5, <2>1, <2>2, <2>5 DEF RunComplete
  <2>6. CASE RunFails(t)
    BY <1>5, <2>1, <2>2, <2>6 DEF RunFails
  <2> QED
    BY <1>6, <2>3, <2>4, <2>5, <2>6
<1>7. CASE RunWorkerEvent(t)
  <2>1. run[t] = "executing" /\ AppendEvent(lease[t], "task.worker.event") /\ UNCHANGED memVars
    BY <1>7 DEF RunWorkerEvent
  <2>2. lease[t].task = t
    BY <1>1, <2>1 DEF Parts, RunInv
  <2>3. InsertOutbox(t, "task.worker.event", None, lease[t].version)
    BY <2>1, <2>2 DEF AppendEvent
  <2> QED
    BY <2>1, <2>3, FaithfulRunWrites DEF memVars
<1>8. CASE RunUnwinds(t)
  <2>1. /\ log' = log /\ run[t] = "executing" /\ run' = [run EXCEPT ![t] = "releasing"]
        /\ UNCHANGED <<lease, turn, turnLease>>
    BY <1>8 DEF RunUnwinds, SetRun, storeVars
  <2>2. turn[t] = "none"
    BY <1>1, <2>1 DEF Parts, TurnInv
  <2>3. FaithfulAt(t)'
    BY <1>1, <2>1, <2>2, FaithfulLeaves
  <2>4. \A u \in Task \ {t} : run'[u] = run[u]
    BY <1>1, <2>1
  <2> QED
    BY <2>1, <2>3, <2>4, FaithfulStays
<1>9. CASE RunRelease(t)
  <2>1. /\ log' = log /\ run[t] = "releasing" /\ run' = [run EXCEPT ![t] = "none"]
        /\ lease' = [lease EXCEPT ![t] = NoLease] /\ UNCHANGED <<turn, turnLease>>
    BY <1>9 DEF RunRelease, ReleaseLease, storeVars
  <2>2. run'[t] = "none" /\ turn'[t] = "none"
    BY <1>1, <2>1 DEF Parts, TurnInv
  <2>3. FaithfulAt(t)'
    BY <1>1, <2>1, <2>2, FaithfulLeaves
  <2>4. \A u \in Task \ {t} : run'[u] = run[u] /\ lease'[u] = lease[u]
    BY <1>1, <2>1
  <2> QED
    BY <2>1, <2>3, <2>4, FaithfulStays
<1>10. CASE RunRejects(t)
  BY <1>10, FaithfulEnds DEF RunRejects
<1>11. QED
  BY <1>3, <1>4, <1>6, <1>7, <1>8, <1>9, <1>10 DEF RunStep

\* Every step of a turn keeps the conversations: the message comes first, the end last.
LEMMA FaithfulTurnStep ==
  ASSUME IInv, \A u \in Task : FaithfulAt(u), NEW t \in Task, TurnStep(t)
  PROVE  \A u \in Task : FaithfulAt(u)'
<1>1. /\ Parts(t) /\ FaithfulAt(t) /\ turn \in [Task -> TurnPc]
      /\ turnLease \in [Task -> Lease \cup {NoLease}] /\ issued \subseteq Lease
  BY GetParts DEF Parts, MemTypeOK, StoreInv, StoreTypeOK
<1>2. ASSUME NEW w, TurnStart(t, w) PROVE \A u \in Task : FaithfulAt(u)'
  <2>1. /\ log' = log /\ turnLease' = [turnLease EXCEPT ![t] = NewLease(t, w)]
        /\ turn' = [turn EXCEPT ![t] = "opening"] /\ UNCHANGED <<run, lease>>
        /\ Quiet /\ task[t].state = "completed"
    BY <1>2 DEF TurnStart, AcquireLease
  <2>2. run[t] = "none"
    BY <1>1, <2>1 DEF Parts, RunInv, Quiet
  <2>3. \A i : ~By(t, i, NewLease(t, w).version)
    BY <1>1, FreshLease DEF Parts
  <2>4. TranscriptAt(t)' /\ EvidencedAt(t)'
    BY <1>1, <2>1, TranscriptsStay DEF FaithfulAt
  <2>5. /\ turn'[t] = "opening" /\ turnLease'[t] = NewLease(t, w) /\ run'[t] = "none"
        /\ \A u \in Task \ {t} : turn'[u] = turn[u] /\ turnLease'[u] = turnLease[u]
    BY <1>1, <2>1, <2>2
  <2>6. \A i : ~By(t, i, turnLease[t].version)'
    BY <2>1, <2>3, <2>5 DEF By
  <2>7. FaithfulAt(t)'
    BY <2>4, <2>5, <2>6 DEF FaithfulAt, WrittenAt
  <2> QED
    BY <2>1, <2>5, <2>7, FaithfulStays
<1>3. ASSUME NEW type \in AppendType, turn[t] \in {"opening", "streaming"},
             AppendEvent(turnLease[t], type),
             NEW pc \in {"streaming", "releasing"}, turn' = [turn EXCEPT ![t] = pc],
             UNCHANGED <<run, lease, turnLease>>,
             type = "task.worker.input" => turn[t] = "opening",
             type = "task.worker.turn.completed" =>
               turn[t] = "streaming" /\ Said(t, "task.worker.event", turnLease[t].version),
             pc = "streaming" => /\ type \notin TurnEnd
                                 /\ type = "task.worker.input" \/ turn[t] = "streaming"
      PROVE  \A u \in Task : FaithfulAt(u)'
  <2>1. /\ turnLease[t] \in issued /\ turnLease[t].task = t /\ run[t] = "none"
        /\ InsertOutbox(t, type, None, turnLease[t].version)
    BY <1>1, <1>3 DEF Parts, TurnInv, AppendEvent
  <2>2. PICK by \in Nat : by = turnLease[t].version
    BY <1>1, <2>1 DEF Lease
  <2>3. /\ NotEnded(t, by)
        /\ turn[t] = "opening" => \A i : ~By(t, i, by)
        /\ turn[t] = "streaming" => Said(t, "task.worker.input", by)
    BY <1>1, <1>3, <2>2 DEF FaithfulAt, WrittenAt, NotEnded
  <2>4. /\ type \in TransitionType \cup AppendType
        /\ None \in TaskState \cup {None}
        /\ type = "task.worker.input" => \A i : ~By(t, i, by)
        /\ type = "task.worker.turn.completed" =>
             Said(t, "task.worker.input", by) /\ Said(t, "task.worker.event", by)
    BY <1>3, <2>2, <2>3
  <2>5. /\ TranscriptAt(t)' /\ EvidencedAt(t)' /\ (type \notin TurnEnd => NotEnded(t, by)')
        /\ Said(t, type, by)' /\ \A b, ty : Said(t, ty, b) => Said(t, ty, b)'
        /\ \A u \in Task \ {t} : log'[u] = log[u]
    BY <1>1, <2>1, <2>2, <2>3, <2>4, FaithfulInsert DEF Parts, FaithfulAt
  <2>6. FaithfulAt(t)'
    <3>1. turn'[t] = pc /\ run'[t] = "none" /\ turnLease'[t].version = by
      BY <1>1, <1>3, <2>1, <2>2
    <3>2. pc = "streaming" => NotEnded(t, by)' /\ Said(t, "task.worker.input", by)'
      BY <1>3, <2>3, <2>5
    <3> QED
      BY <2>5, <3>1, <3>2 DEF FaithfulAt, WrittenAt, NotEnded, Said, By
  <2>7. \A u \in Task \ {t} : turn'[u] = turn[u]
    BY <1>1, <1>3
  <2> QED
    BY <1>3, <2>5, <2>6, <2>7, FaithfulStays
<1>4. {"task.worker.event", "task.worker.input", "task.worker.turn.completed",
       "task.worker.turn.failed"} \subseteq AppendType
  BY OrchestratorAssumption
<1>5. CASE TurnInput(t)
  <2>1. /\ turn[t] = "opening" /\ AppendEvent(turnLease[t], "task.worker.input")
        /\ turn' = [turn EXCEPT ![t] = "streaming"] /\ UNCHANGED <<run, lease, turnLease>>
    BY <1>5 DEF TurnInput, SetTurn
  <2> QED
    BY <1>3, <1>4, <2>1 DEF TurnEnd
<1>6. CASE TurnWorkerEvent(t)
  <2>1. /\ turn[t] = "streaming" /\ AppendEvent(turnLease[t], "task.worker.event")
        /\ UNCHANGED <<run, lease, turn, turnLease>>
    BY <1>6 DEF TurnWorkerEvent, memVars
  <2>2. turn' = [turn EXCEPT ![t] = "streaming"]
    BY <1>1, <2>1
  <2> QED
    BY <1>3, <1>4, <2>1, <2>2 DEF TurnEnd
<1>7. CASE TurnComplete(t)
  <2>1. /\ turn[t] = "streaming" /\ AppendEvent(turnLease[t], "task.worker.turn.completed")
        /\ turn' = [turn EXCEPT ![t] = "releasing"] /\ UNCHANGED <<run, lease, turnLease>>
        /\ WorkerEvents(t, turnLease[t]) > 0
    BY <1>7 DEF TurnComplete, SetTurn
  <2>2. Said(t, "task.worker.event", turnLease[t].version)
    <3> DEFINE said == {i \in 1..Len(log[t]) : /\ log[t][i].by = turnLease[t].version
                                               /\ log[t][i].type = "task.worker.event"}
    <3>1. said # {}
      <4>1. Cardinality(said) > 0
        BY <2>1 DEF WorkerEvents
      <4>2. Cardinality({}) = 0
        BY FS_EmptySet
      <4> HIDE DEF said
      <4> QED
        BY <4>1, <4>2
    <3> QED
      BY <3>1 DEF Said, By
  <2> QED
    BY <1>3, <1>4, <2>1, <2>2
<1>8. CASE TurnFails(t)
  <2>1. /\ turn[t] \in {"opening", "streaming"}
        /\ turn' = [turn EXCEPT ![t] = "releasing"] /\ UNCHANGED <<run, lease, turnLease>>
    BY <1>8 DEF TurnFails, SetTurn
  <2>2. CASE AppendEvent(turnLease[t], "task.worker.turn.failed")
    BY <1>3, <1>4, <2>1, <2>2
  <2>3. CASE log' = log
    <3>1. run[t] = "none"
      BY <1>1, <2>1 DEF Parts, TurnInv
    <3>2. FaithfulAt(t)'
      BY <1>1, <2>1, <2>3, <3>1, FaithfulLeaves
    <3>3. \A u \in Task \ {t} : turn'[u] = turn[u]
      BY <1>1, <2>1
    <3> QED
      BY <2>1, <2>3, <3>2, <3>3, FaithfulStays
  <2> QED
    BY <1>8, <2>2, <2>3 DEF TurnFails, storeVars
<1>9. CASE TurnRelease(t)
  <2>1. /\ log' = log /\ turn[t] = "releasing" /\ turn' = [turn EXCEPT ![t] = "none"]
        /\ turnLease' = [turnLease EXCEPT ![t] = NoLease] /\ UNCHANGED <<run, lease>>
    BY <1>9 DEF TurnRelease, ReleaseLease, storeVars
  <2>2. run[t] = "none"
    BY <1>1, <2>1 DEF Parts, TurnInv
  <2>3. FaithfulAt(t)'
    BY <1>1, <2>1, <2>2, FaithfulLeaves
  <2>4. \A u \in Task \ {t} : turn'[u] = turn[u] /\ turnLease'[u] = turnLease[u]
    BY <1>1, <2>1
  <2> QED
    BY <2>1, <2>3, <2>4, FaithfulStays
<1>10. QED
  BY <1>2, <1>5, <1>6, <1>7, <1>8, <1>9 DEF TurnStep

\* Every step of the process keeps the conversations.
LEMMA FaithfulHostStep ==
  ASSUME IInv, \A u \in Task : FaithfulAt(u), HostStep
  PROVE  \A u \in Task : FaithfulAt(u)'
<1>1. ASSUME NEW t \in Task, Cancel(t) \/ StopCancel(t) PROVE \A u \in Task : FaithfulAt(u)'
  <2>1. Parts(t)
    BY GetParts
  <2>2. run[t] = "executing" /\ CancelEffect(t) /\ UNCHANGED <<run, lease, turn, turnLease>>
    BY <1>1, <2>1 DEF Cancel, StopCancel, Parts, StopInv
  <2>3. CASE Transition(lease[t], "cancelled", "task.progress")
    <3>1. lease[t].task = t
      BY <2>1, <2>2 DEF Parts, RunInv
    <3>2. InsertOutbox(t, "task.progress", "cancelled", lease[t].version)
      BY <2>3, <3>1 DEF Transition
    <3>3. "task.progress" \in TransitionType /\ "cancelled" \in TaskState
      BY DEF TransitionType, TaskState
    <3> QED
      BY <2>2, <3>2, <3>3, FaithfulRunWrites
  <2>4. CASE UNCHANGED storeVars
    BY <2>2, <2>4, FaithfulStays DEF storeVars
  <2> QED
    BY <2>2, <2>3, <2>4 DEF CancelEffect
<1>2. CASE (\E t \in Task : StopRejects(t)) \/ StopDone \/ Crash
  BY <1>2, FaithfulEnds DEF StopRejects, StopDone, Crash
<1>3. CASE Stop \/ StopCancelled \/ Restart \/ ClockTick
  <2>1. UNCHANGED <<log, run, lease, turn, turnLease>>
    BY <1>3 DEF Stop, StopCancelled, Restart, ClockTick, Tick, storeVars, memVars
  <2> QED
    BY <2>1, FaithfulStays
<1>4. QED
  BY <1>1, <1>2, <1>3 DEF HostStep

\* What the outbox tells of a turn is a question, work and one end at most, whatever fails,
\* expires or dies in between; a completion follows its question and the events that show
\* the work (task-worker-session.ts:256, 272).  For any number of turns and events.
THEOREM OrchestratorTurnsFaithful == Spec => []TurnsFaithful
<1>1. Init => \A u \in Task : FaithfulAt(u)
  <2> SUFFICES ASSUME Init, NEW u \in Task PROVE FaithfulAt(u)
    OBVIOUS
  <2>1. log[u] = <<>> /\ run[u] = "none" /\ turn[u] = "none"
    BY DEF Init, StoreInit
  <2>2. Len(<<>>) = 0 /\ 1..0 = {}
    OBVIOUS
  <2> QED
    BY <2>1, <2>2 DEF FaithfulAt, TranscriptAt, EvidencedAt, WrittenAt
<1>2. IInv /\ (\A u \in Task : FaithfulAt(u)) /\ [Next]_vars => (\A u \in Task : FaithfulAt(u))'
  <2> SUFFICES ASSUME IInv, \A u \in Task : FaithfulAt(u), [Next]_vars
               PROVE  \A u \in Task : FaithfulAt(u)'
    OBVIOUS
  <2>1. CASE UNCHANGED vars
    BY <2>1, FaithfulStays DEF vars
  <2>2. CASE Next
    BY <2>2, FaithfulRunStep, FaithfulTurnStep, FaithfulHostStep DEF Next
  <2> QED
    BY <2>1, <2>2
<1>3. (\A u \in Task : FaithfulAt(u)) => TurnsFaithful
  BY DEF FaithfulAt, TranscriptAt, EvidencedAt, TurnsFaithful, TurnTranscript, TurnCompletionEvidenced
<1> QED
  BY <1>1, <1>2, <1>3, OrchestratorInvariant, PTL DEF Spec
=============================================================================
