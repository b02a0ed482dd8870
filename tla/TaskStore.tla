------------------------------ MODULE TaskStore ------------------------------
(***************************************************************************)
(* The durable task store (packages/task-orchestrator/src/task-store.ts    *)
(* and state-machine.ts): one row per task with its state and its writer   *)
(* lease, and an outbox of events.  Every operation is one BEGIN IMMEDIATE *)
(* transaction, hence one atomic action, also against other processes that *)
(* open the same database.  An operation that throws changes nothing and   *)
(* is a disabled action here; callers that react to the throw do so in     *)
(* their own modules.                                                      *)
(*                                                                         *)
(* The clients are arbitrary: any lease ever handed out may be presented   *)
(* again at any later time, by an executor that no longer owns the task.   *)
(***************************************************************************)
EXTENDS Naturals, Sequences

CONSTANTS
  Task,        \* task ids
  Writer,      \* writer ids a lease can name
  NoWriter,    \* the NULL of column lease_writer_id
  AppendType,  \* event types appendEvent writes (those of its callers)
  LeaseTtl     \* ttlMs of acquireLease, in ticks of the clock

\* The events creation and transitions write.
TransitionType == {"task.started", "task.progress", "task.completed",
                   "task.failed"}

ASSUME StoreAssumption ==
  /\ NoWriter \notin Writer
  /\ AppendType \cap TransitionType = {}
  /\ LeaseTtl \in Nat \ {0}

VARIABLES
  now,     \* wall clock, Date.now()
  task,    \* table tasks
  log,     \* table task_outbox, per task in the order of the row ids
  issued   \* history: every lease acquireLease has returned

storeVars == <<now, task, log, issued>>

-----------------------------------------------------------------------------
Absent == "absent"   \* no row yet

TaskState ==
  {"received", "clarifying", "planned", "queued", "preparing_workspace",
   "running", "verifying", "awaiting_approval",
   "completed", "rejected", "cancelled", "failed", "timed_out"}

Terminal == {"completed", "rejected", "cancelled", "failed", "timed_out"}

transitions ==
  [s \in TaskState |->
     CASE s = "received" -> {"clarifying", "planned", "rejected", "cancelled"}
       [] s = "clarifying" -> {"planned", "rejected", "cancelled"}
       [] s = "planned" -> {"queued", "cancelled"}
       [] s = "queued" -> {"preparing_workspace", "cancelled"}
       [] s = "preparing_workspace" -> {"running", "cancelled", "failed"}
       [] s = "running" -> {"verifying", "awaiting_approval", "cancelled",
                            "failed", "timed_out"}
       [] s = "verifying" -> {"awaiting_approval", "completed", "failed",
                              "timed_out"}
       [] s = "awaiting_approval" -> {"running", "completed", "rejected",
                                      "cancelled", "failed"}
       [] OTHER -> {}]

\* Mutant: the table of transitions is not consulted.
CanTransition_AnyState(from, to) == from # to /\ to \in TaskState

CanTransition(from, to) == from \in TaskState /\ to \in transitions[from]

\* `to' is the state the event announces, None for an event that announces
\* none; `by' (history) is the version of the lease the writer presented.
None == "none"
Event == [type : TransitionType \cup AppendType,
          to   : TaskState \cup {None},
          by   : Nat]

Lease == [task : Task, writer : Writer, version : Nat, expires : Nat]

\* expires = 0 is the NULL of column lease_expires_at.
Row == [state   : TaskState \cup {Absent},
        writer  : Writer \cup {NoWriter},
        version : Nat,
        expires : Nat]

-----------------------------------------------------------------------------
\* Mutant: the version of the presented lease is not compared.
AssertLease_AnyVersion(l) ==
  /\ task[l.task].state # Absent
  /\ task[l.task].writer = l.writer
  /\ task[l.task].expires > now

\* #assertLease: the presented lease is the one in the row and has not expired.
AssertLease(l) ==
  /\ task[l.task].state # Absent
  /\ task[l.task].writer = l.writer
  /\ task[l.task].version = l.version
  /\ task[l.task].expires > now

\* Mutant: any event type goes with any transition.
AssertTransitionEvent_Any(to, type) == TRUE

\* #assertTransitionEvent: the final report and the failure have event types
\* of their own, which no other transition may use.
AssertTransitionEvent(to, type) ==
  /\ (to = "completed") <=> (type = "task.completed")
  /\ (to = "failed") <=> (type = "task.failed")

\* #insertOutbox
InsertOutbox(t, type, to, by) ==
  log' = [log EXCEPT ![t] = Append(@, [type |-> type, to |-> to, by |-> by])]

StoreInit ==
  /\ now = 0
  /\ task = [t \in Task |-> [state |-> Absent, writer |-> NoWriter,
                             version |-> 0, expires |-> 0]]
  /\ log = [t \in Task |-> <<>>]
  /\ issued = {}

CreateTask(t) ==
  /\ task[t].state = Absent
  /\ task' = [task EXCEPT ![t].state = "received"]
  /\ InsertOutbox(t, "task.started", "received", 0)
  /\ UNCHANGED <<now, issued>>

\* Mutant: a live lease of another writer does not refuse a new one.
HeldByOther_Never(t, w) == FALSE

\* Whether another writer's unexpired lease makes acquireLease throw.
HeldByOther(t, w) ==
  task[t].writer \notin {NoWriter, w} /\ task[t].expires > now

\* Mutant: a new lease keeps the version of the one before it.
NewLease_SameVersion(t, w) == [task |-> t, writer |-> w, version |-> task[t].version,
                               expires |-> now + LeaseTtl]

NewLease(t, w) == [task |-> t, writer |-> w, version |-> task[t].version + 1,
                   expires |-> now + LeaseTtl]

AcquireLease(t, w) ==
  /\ task[t].state # Absent
  /\ ~HeldByOther(t, w)
  /\ task' = [task EXCEPT ![t].writer = w,
                          ![t].version = NewLease(t, w).version,
                          ![t].expires = NewLease(t, w).expires]
  /\ issued' = issued \cup {NewLease(t, w)}
  /\ UNCHANGED <<now, log>>

\* Mutant: the release also sets the version to NULL.
ReleaseLease_NullVersion(l) ==
  /\ AssertLease(l)
  /\ task' = [task EXCEPT ![l.task] = [@ EXCEPT !.writer = NoWriter, !.expires = 0,
                                               !.version = NoWriter]]
  /\ UNCHANGED <<now, log, issued>>

\* The version survives a release: the next lease is newer than any before it.
ReleaseLease(l) ==
  /\ AssertLease(l)
  /\ task' = [task EXCEPT ![l.task].writer = NoWriter, ![l.task].expires = 0]
  /\ UNCHANGED <<now, log, issued>>

\* Mutant: a refused transition still writes its event.
Transition_EventOnly(l, to, type) ==
  /\ AssertLease(l)
  /\ AssertTransitionEvent(to, type)
  /\ task' = [task EXCEPT ![l.task].state =
                 IF CanTransition(@, to) THEN to ELSE @]
  /\ InsertOutbox(l.task, type, to, l.version)
  /\ UNCHANGED <<now, issued>>

Transition(l, to, type) ==
  /\ AssertLease(l)
  /\ CanTransition(task[l.task].state, to)
  /\ AssertTransitionEvent(to, type)
  /\ task' = [task EXCEPT ![l.task].state = to]
  /\ InsertOutbox(l.task, type, to, l.version)
  /\ UNCHANGED <<now, issued>>

AppendEvent(l, type) ==
  /\ AssertLease(l)
  /\ InsertOutbox(l.task, type, None, l.version)
  /\ UNCHANGED <<now, task, issued>>

Tick == now' = now + 1 /\ UNCHANGED <<task, log, issued>>

StoreNext ==
  \/ Tick
  \/ \E t \in Task : CreateTask(t)
  \/ \E t \in Task, w \in Writer : AcquireLease(t, w)
  \/ \E l \in issued : ReleaseLease(l)
  \/ \E l \in issued, to \in TaskState, 
       type \in TransitionType \ {"task.started"} :
       Transition(l, to, type)
  \/ \E l \in issued, type \in AppendType : AppendEvent(l, type)

StoreSpec == StoreInit /\ [][StoreNext]_storeVars

-----------------------------------------------------------------------------
\* Every variable has its type, and only existing tasks have leases or events.
StoreTypeOK ==
  /\ now \in Nat
  /\ task \in [Task -> Row]
  /\ log \in [Task -> Seq(Event)]
  /\ issued \subseteq Lease

\* "A task has one active writer lease": of all the leases ever handed out for
\* a task, renewed, expired or released ones included, at most one is accepted
\* by #assertLease at any time.
OneActiveWriter ==
  \A l1, l2 \in issued :
    l1.task = l2.task /\ AssertLease(l1) /\ AssertLease(l2) => l1 = l2

\* "Stale executors cannot append results": in the outbox of a task the events
\* of an older lease never come after those of a newer one, whatever the order
\* in which executors retry.
NoStaleAppend ==
  \A t \in Task : \A i, j \in 1..Len(log[t]) :
    i <= j => log[t][i].by <= log[t][j].by

\* The row and the outbox never diverge: the state of a task is the one its
\* latest state-announcing event announces, so a client that replays the
\* outbox (task event stream, remote delivery) ends in the stored state.
OutboxMatchesState ==
  \A t \in Task : task[t].state # Absent =>
    \E i \in 1..Len(log[t]) :
      /\ log[t][i].to = task[t].state
      /\ \A j \in (i + 1)..Len(log[t]) : log[t][j].to = None

\* The final report and the failure are announced by their own event type:
\* what dispatcher.observe reads (findLast of task.completed) exists exactly
\* when the task is completed.
ReportIffCompleted ==
  \A t \in Task :
    /\ (task[t].state = "completed") <=>
         (\E i \in 1..Len(log[t]) : log[t][i].type = "task.completed")
    /\ (task[t].state = "failed") <=>
         (\E i \in 1..Len(log[t]) : log[t][i].type = "task.failed")

\* Row and outbox never diverge on the state of a task or on its outcome.
OutboxFaithful == OutboxMatchesState /\ ReportIffCompleted

\* A terminal state is final, whichever executor holds which lease.
TerminalIsFinal ==
  [][\A t \in Task : task[t].state \in Terminal =>
                       task'[t].state = task[t].state]_storeVars

\* A live lease is never taken over: while it has not expired, only its own
\* writer can end it (by releasing it or acquiring a new one).
NoTakeover ==
  [][\A t \in Task :
       task[t].expires > now /\ task'[t].version # task[t].version =>
         task'[t].writer = task[t].writer \/ task[t].writer = NoWriter]_storeVars
=============================================================================
