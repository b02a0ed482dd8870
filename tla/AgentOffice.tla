----------------------------- MODULE AgentOffice -----------------------------
(***************************************************************************)
(* The office (packages/agent-office/src/office.ts): tasks of the owner to *)
(* named agents, kept in one file that is replaced as a whole, and run by  *)
(* a model call each.  The host drains the queue every second and after    *)
(* every request (apps/host/src/server.ts, office-api.ts).                 *)
(*                                                                         *)
(* A drain is one synchronous stretch: it starts the calls, which the      *)
(* event loop answers later.  Memory takes over what the file holds only   *)
(* after the file was replaced, so the two never differ; a request whose   *)
(* save fails changes nothing, and a run whose save fails rejects with     *)
(* nobody to catch it, which ends the process after the stretch.           *)
(***************************************************************************)
EXTENDS Integers, FiniteSets, SequencesExt

CONSTANTS
  Task,            \* ids
  Agent,
  MaxActive,       \* 2 in the code
  MaxTasks,        \* 500 in the code
  OfficeMayFail,   \* whether a save can fail (disk full, 24 MB reached)
  OfficeMayCrash,  \* whether the process can be killed
  MaxRetries       \* bound: retries

ASSUME OfficeAssumption ==
  /\ MaxActive \in Nat \ {0} /\ MaxTasks \in Nat /\ MaxRetries \in Nat
  /\ {OfficeMayFail, OfficeMayCrash} \subseteq BOOLEAN

VARIABLES
  officeProcess,  \* the process: up, stopping, dying, down
  officeTask,     \* the tasks of the snapshot
  order,          \* its order, oldest first
  active,         \* #active: no entry, a call, a call that was aborted
  officeTodo,     \* tasks the drain under way has still to look at
  calls,          \* history: model calls for each task since its owner last queued it
  retries         \* counted for the bound

officeVars == <<officeProcess, officeTask, order, active, officeTodo, calls, retries>>

\* blocked, a failure for want of a model, is modelled as failed.
State == {"queued", "running", "completed", "failed", "cancelled", "interrupted"}
Row == [agent : Agent, mode : {"assist", "todo"}, state : State, due : BOOLEAN]
NoOfficeTask == [agent |-> "none", mode |-> "none", state |-> "absent", due |-> FALSE]
Deleted == [NoOfficeTask EXCEPT !.state = "deleted"]

InOffice == {t \in Task : officeTask[t] \notin {NoOfficeTask, Deleted}}
Active == {t \in Task : active[t] # "none"}

\* No stretch is under way, nor is an aborted call still to unwind.
OfficeQuiet == officeTodo = {} /\ officeProcess # "dying" /\ \A t \in Task : active[t] # "aborted"
OfficeRequest == OfficeQuiet /\ officeProcess \in {"up", "stopping"}

OfficeInit ==
  /\ officeProcess = "up" /\ order = <<>> /\ officeTodo = {}
  /\ officeTask = [t \in Task |-> NoOfficeTask]
  /\ active = [t \in Task |-> "none"]
  /\ calls = [t \in Task |-> 0] /\ retries = 0

-----------------------------------------------------------------------------
(* The drain and the start of a run *)

\* Mutant of the next operator: the comparison with the clock is turned round.
MayStart_Before(rows, t) ==
  /\ rows[t].state = "queued" /\ rows[t].mode = "assist" /\ ~rows[t].due
  /\ \A u \in Task : rows[u].agent = rows[t].agent => rows[u].state # "running"

\* The guards of run that look at the tasks.
MayStart(rows, t) ==
  /\ rows[t].state = "queued" /\ rows[t].mode = "assist" /\ rows[t].due
  /\ \A u \in Task : rows[u].agent = rows[t].agent => rows[u].state # "running"

\* The tasks a drain considers.  Those that may not start when it begins may not
\* later in it, so that they are left out.
OfficeSnapshot(rows, ids) == {t \in ToSet(ids) : MayStart(rows, t)}

\* Mutant: the drain goes through the list as it is kept, the newest first.
NextTask_Newest ==
  order[CHOOSE i \in DOMAIN order : /\ order[i] \in officeTodo
                                    /\ \A j \in DOMAIN order : order[j] \in officeTodo => j <= i]

\* The oldest of them; the list does not change under a drain.
NextTask ==
  order[CHOOSE i \in DOMAIN order : /\ order[i] \in officeTodo
                                    /\ \A j \in DOMAIN order : order[j] \in officeTodo => i <= j]

\* The timer.  A drain of an office that is stopped or full returns at once.
Timer ==
  /\ OfficeQuiet /\ officeProcess = "up" /\ Cardinality(Active) < MaxActive
  /\ officeTodo' = OfficeSnapshot(officeTask, order) /\ officeTodo' # {}
  /\ UNCHANGED <<officeProcess, officeTask, order, active, calls, retries>>

\* Mutant of the next operator: whether the agent is busy is not looked at.
Runnable_AnyAgent(t) ==
  active[t] = "none" /\ officeTask[t].state = "queued" /\ officeTask[t].due

\* The guards of run.
Runnable(t) == active[t] = "none" /\ MayStart(officeTask, t)

\* The loop of drain returns.
OfficeDrainEnds ==
  /\ officeTodo # {} /\ Cardinality(Active) >= MaxActive
  /\ officeTodo' = {}
  /\ UNCHANGED <<officeProcess, officeTask, order, active, calls, retries>>

DrainNext ==
  /\ officeTodo # {} /\ Cardinality(Active) < MaxActive
  /\ officeTodo' = officeTodo \ {NextTask}

Skip ==
  /\ DrainNext /\ ~Runnable(NextTask)
  /\ UNCHANGED <<officeProcess, officeTask, order, active, calls, retries>>

\* The entry in #active, the save, the call (main.ts always gives a model).
StartRun ==
  LET t == NextTask IN
  /\ DrainNext /\ Runnable(t)
  /\ active' = [active EXCEPT ![t] = "calling"]
  /\ officeTask' = [officeTask EXCEPT ![t].state = "running"]
  /\ calls' = [calls EXCEPT ![t] = @ + 1]
  /\ UNCHANGED <<officeProcess, order, retries>>

\* The save fails: the run rejects, and the drain goes on to the next task.
StartFails ==
  LET t == NextTask IN
  /\ OfficeMayFail /\ DrainNext /\ Runnable(t)
  /\ active' = [active EXCEPT ![t] = "calling"]
  /\ officeProcess' = "dying"
  /\ UNCHANGED <<officeTask, order, calls, retries>>

-----------------------------------------------------------------------------
(* The end of a run *)

\* The answer, an answer that is no text, an error of the provider, the timeout
\* of two minutes: the outcome is saved and the entry deleted.
RunEnds(t, outcome) ==
  /\ OfficeQuiet /\ officeProcess = "up" /\ active[t] = "calling"
  /\ officeTask' = [officeTask EXCEPT ![t].state = outcome]
  /\ active' = [active EXCEPT ![t] = "none"]
  /\ UNCHANGED <<officeProcess, order, officeTodo, calls, retries>>

\* The save of the failure fails, after that of an answer or at once.
RunEndsUnsaved(t) ==
  /\ OfficeMayFail /\ OfficeQuiet /\ officeProcess = "up" /\ active[t] = "calling"
  /\ active' = [active EXCEPT ![t] = "none"]
  /\ officeProcess' = "dying"
  /\ UNCHANGED <<officeTask, order, officeTodo, calls, retries>>

\* An aborted run finds its task no longer running and leaves its state alone.
Unwind(t) ==
  /\ officeTodo = {} /\ active[t] = "aborted"
  /\ active' = [active EXCEPT ![t] = "none"]
  /\ UNCHANGED <<officeProcess, officeTask, order, officeTodo, calls, retries>>

-----------------------------------------------------------------------------
(* Requests: those that are saved end in a drain *)

Drained ==
  officeTodo' = IF officeProcess = "stopping" \/ Cardinality(Active') = MaxActive
            THEN {} ELSE OfficeSnapshot(officeTask', order')

\* create makes a task of a fresh id; nothing reads when a todo is due.
Create(agent, mode, due) ==
  /\ mode = "todo" => due
  /\ OfficeRequest /\ Len(order) < MaxTasks /\ \E t \in Task : officeTask[t] = NoOfficeTask
  /\ LET t == CHOOSE u \in Task : officeTask[u] = NoOfficeTask IN
     /\ officeTask' = [officeTask EXCEPT ![t] =
          [agent |-> agent, mode |-> mode, state |-> "queued", due |-> due]]
     /\ order' = Append(order, t)
  /\ UNCHANGED <<officeProcess, active, calls, retries>>
  /\ Drained

\* handoff creates one from a task that is completed.
Handoff(source, agent) ==
  /\ officeTask[source].state = "completed"
  /\ Create(agent, "assist", TRUE)

Complete(t) ==
  /\ OfficeRequest /\ officeTask[t].mode = "todo" /\ officeTask[t].state = "queued"
  /\ officeTask' = [officeTask EXCEPT ![t].state = "completed"]
  /\ UNCHANGED <<officeProcess, order, active, calls, retries>>
  /\ Drained

\* Mutant of the next operator: the call is not aborted.
Cancel_CallGoesOn(t) ==
  /\ OfficeRequest /\ officeTask[t].state \in {"queued", "running"}
  /\ officeTask' = [officeTask EXCEPT ![t].state = "cancelled"]
  /\ UNCHANGED <<officeProcess, order, active, calls, retries>>
  /\ Drained

\* The state is saved, then the call aborted.
Cancel(t) ==
  /\ OfficeRequest /\ officeTask[t].state \in {"queued", "running"}
  /\ officeTask' = [officeTask EXCEPT ![t].state = "cancelled"]
  /\ active' = [active EXCEPT ![t] = IF @ = "calling" THEN "aborted" ELSE @]
  /\ UNCHANGED <<officeProcess, order, calls, retries>>
  /\ Drained

Retry(t) ==
  /\ OfficeRequest /\ officeTask[t].state \in {"failed", "interrupted", "cancelled"}
  /\ retries < MaxRetries /\ retries' = retries + 1
  /\ officeTask' = [officeTask EXCEPT ![t].state = "queued"]
  /\ calls' = [calls EXCEPT ![t] = 0]
  /\ UNCHANGED <<officeProcess, order, active>>
  /\ Drained

\* Mutant of the next operator: the list keeps the id.
Delete_RowOnly(t) ==
  /\ OfficeRequest /\ t \in InOffice /\ officeTask[t].state # "running"
  /\ officeTask' = [officeTask EXCEPT ![t] = Deleted]
  /\ UNCHANGED <<officeProcess, order, active, officeTodo, calls, retries>>

\* delete does not drain.
Delete(t) ==
  /\ OfficeRequest /\ t \in InOffice /\ officeTask[t].state # "running"
  /\ officeTask' = [officeTask EXCEPT ![t] = Deleted]
  /\ order' = RemoveAt(order, CHOOSE i \in DOMAIN order : order[i] = t)
  /\ UNCHANGED <<officeProcess, active, officeTodo, calls, retries>>

\* scheduledAt is reached.
BecomesDue(t) ==
  /\ OfficeQuiet /\ t \in InOffice /\ ~officeTask[t].due
  /\ officeTask' = [officeTask EXCEPT ![t].due = TRUE]
  /\ UNCHANGED <<officeProcess, order, active, officeTodo, calls, retries>>

-----------------------------------------------------------------------------
(* The process *)

Interrupted(rows, ids) == [t \in Task |->
  IF t \in ids THEN [rows[t] EXCEPT !.state = "interrupted"] ELSE rows[t]]

\* Every active task is saved as interrupted and its call aborted.
Shutdown ==
  /\ OfficeQuiet /\ officeProcess = "up" /\ officeProcess' = "stopping"
  /\ officeTask' = Interrupted(officeTask, Active)
  /\ active' = [t \in Task |-> IF t \in Active THEN "aborted" ELSE "none"]
  /\ UNCHANGED <<order, officeTodo, calls, retries>>

OfficeEnds ==
  /\ officeProcess' = "down" /\ officeTodo' = {}
  /\ active' = [t \in Task |-> "none"]
  /\ UNCHANGED <<order, calls, retries>>

\* A save of shutdown fails after some: stop rejects, which nobody handles.
ShutdownFails ==
  /\ OfficeMayFail /\ OfficeQuiet /\ officeProcess = "up"
  /\ \E saved \in SUBSET Active :
       saved # Active /\ officeTask' = Interrupted(officeTask, saved)
  /\ OfficeEnds

OfficeStopDone == OfficeQuiet /\ officeProcess = "stopping" /\ OfficeEnds /\ UNCHANGED officeTask
Die == officeProcess = "dying" /\ officeTodo = {} /\ OfficeEnds /\ UNCHANGED officeTask
OfficeCrash == OfficeMayCrash /\ officeProcess # "down" /\ OfficeEnds /\ UNCHANGED officeTask

\* Mutant of the next operator: work that was under way is taken up again.
OfficeRestart_Resumes ==
  /\ officeProcess = "down" /\ officeProcess' = "up"
  /\ officeTask' = [t \in Task |-> IF officeTask[t].state = "running"
                               THEN [officeTask[t] EXCEPT !.state = "queued"] ELSE officeTask[t]]
  /\ UNCHANGED <<order, active, officeTodo, calls, retries>>

\* The constructor: what the file has as running is interrupted.
OfficeRestart ==
  /\ officeProcess = "down" /\ officeProcess' = "up"
  /\ officeTask' = Interrupted(officeTask, {t \in Task : officeTask[t].state = "running"})
  /\ UNCHANGED <<order, active, officeTodo, calls, retries>>

Outcome == {"completed", "failed"}

Drain == OfficeDrainEnds \/ Skip \/ StartRun \/ StartFails

OfficeNext ==
  \/ Timer \/ Drain
  \/ \E t \in Task, outcome \in Outcome : RunEnds(t, outcome)
  \/ \E t \in Task : RunEndsUnsaved(t) \/ Unwind(t)
  \/ \E agent \in Agent, mode \in {"assist", "todo"}, due \in BOOLEAN :
       Create(agent, mode, due)
  \/ \E source \in Task, agent \in Agent : Handoff(source, agent)
  \/ \E t \in Task : \/ Complete(t) \/ Cancel(t) \/ Retry(t) \/ Delete(t)
                     \/ BecomesDue(t)
  \/ Shutdown \/ ShutdownFails \/ OfficeStopDone \/ Die \/ OfficeCrash \/ OfficeRestart

OfficeSpec == OfficeInit /\ [][OfficeNext]_officeVars

-----------------------------------------------------------------------------
(* Properties *)

\* Rows, list and #active have their types; the list has each task of the office
\* once and keeps to its limit.
OfficeTypeOK ==
  /\ officeProcess \in {"up", "stopping", "dying", "down"}
  /\ officeTask \in [Task -> Row \cup {NoOfficeTask, Deleted}]
  /\ active \in [Task -> {"none", "calling", "aborted"}]
  /\ officeTodo \subseteq ToSet(order) /\ retries \in 0..MaxRetries
  /\ IsInjective(order) /\ ToSet(order) = InOffice /\ Len(order) <= MaxTasks

\* While the process lives, a task is shown as running if and only if a call is
\* being made for it: none is stuck where the owner can neither retry nor delete
\* it, and no call goes on for a task the owner was told is over.  Once the office
\* is shut down there is none of either, whatever requests are still served.
RunningIsCalled ==
  /\ officeProcess \in {"up", "stopping"} =>
       \A t \in Task : officeTask[t].state = "running" <=> active[t] = "calling"
  /\ officeProcess = "stopping" => \A t \in Task : active[t] # "calling"

\* At most MaxActive calls at a time, and one of each agent, although a cancelled
\* call holds its entry but no longer its agent while the drain starts another.
CallsAreBounded == officeProcess \in {"up", "stopping"} =>
  /\ Cardinality(Active) <= MaxActive
  /\ \A t, u \in Task : active[t] = "calling" /\ active[u] = "calling"
                        /\ officeTask[t].agent = officeTask[u].agent => t = u

\* The model is called once for each time the owner queued a task: never again by
\* itself after a crash, a stop, a failed save or an answer that was lost.
CalledWhenAsked == \A t \in Task : calls[t] <= 1

\* Of the due tasks of one agent the oldest is run first.
OldestFirst ==
  [][officeProcess = "up" => \A i, j \in DOMAIN order :
       LET t == order[i] u == order[j] IN
       /\ i < j /\ officeTask[t].agent = officeTask[u].agent
       /\ Runnable(t)
       => ~(active[u] = "none" /\ active'[u] = "calling")]_officeVars

\* A due task is run in the end, or its owner takes it back, while the process is
\* not ended again and again: no agent and no slot is lost for ever.
QueuedTaskRuns ==
  (<>[](officeProcess = "up")) =>
    \A t \in Task : (officeTask[t].state = "queued" /\ officeTask[t].mode = "assist" /\ officeTask[t].due)
                      ~> officeTask[t].state # "queued"
=============================================================================
