--------------------------- MODULE TaskStoreProofs ---------------------------
(***************************************************************************)
(* Proofs about TaskStore for every set of tasks and writers, every lease  *)
(* time and an unbounded clock, version counter and outbox.                *)
(***************************************************************************)
EXTENDS TaskStore, TLAPS

(***************************************************************************)
(* The inductive invariant.  The accepted lease is the one whose version   *)
(* the row holds, so what is needed is that versions identify leases, that *)
(* none is ahead of its row, and that no event is ahead of its task's row. *)
(***************************************************************************)
LeaseBehindRow ==
  \A l \in issued : /\ task[l.task].state # Absent
                    /\ l.version <= task[l.task].version

VersionIdentifiesLease ==
  \A l1, l2 \in issued :
    l1.task = l2.task /\ l1.version = l2.version => l1 = l2

EventBehindRow ==
  \A t \in Task : \A i \in 1..Len(log[t]) : log[t][i].by <= task[t].version

AbsentIsUnleased ==
  \A t \in Task : task[t].state = Absent => log[t] = <<>>

StoreInv ==
  /\ StoreTypeOK
  /\ LeaseBehindRow
  /\ VersionIdentifiesLease
  /\ EventBehindRow
  /\ AbsentIsUnleased
  /\ NoStaleAppend
  /\ OutboxMatchesState
  /\ ReportIffCompleted

-----------------------------------------------------------------------------
\* What #insertOutbox does: one event more at the end of one task's outbox.
LEMMA InsertOutboxEffect ==
  ASSUME log \in [Task -> Seq(Event)], NEW t \in Task,
         NEW type \in TransitionType \cup AppendType,
         NEW to \in TaskState \cup {None}, NEW by \in Nat,
         InsertOutbox(t, type, to, by)
  PROVE  /\ log' \in [Task -> Seq(Event)]
         /\ Len(log[t]) \in Nat
         /\ Len(log'[t]) = Len(log[t]) + 1
         /\ log'[t][Len(log[t]) + 1].type = type
         /\ log'[t][Len(log[t]) + 1].to = to
         /\ log'[t][Len(log[t]) + 1].by = by
         /\ \A i \in 1..Len(log[t]) : log'[t][i] = log[t][i]
         /\ \A u \in Task \ {t} : log'[u] = log[u]
<1> DEFINE e == [type |-> type, to |-> to, by |-> by]
<1>1. e \in Event
  BY DEF Event
<1>2. log' = [log EXCEPT ![t] = Append(@, e)]
  BY DEF InsertOutbox
<1>3. log[t] \in Seq(Event) /\ Append(log[t], e) \in Seq(Event)
  BY <1>1
<1>4. log'[t] = Append(log[t], e)
  BY <1>2
<1>5. Len(log[t]) \in Nat /\ Len(log'[t]) = Len(log[t]) + 1
  BY <1>3, <1>4
<1>6. log'[t][Len(log[t]) + 1] = e
  BY <1>3, <1>4
<1>7. \A i \in 1..Len(log[t]) : log'[t][i] = log[t][i]
  BY <1>3, <1>4
<1>8. log' \in [Task -> Seq(Event)] /\ \A u \in Task \ {t} : log'[u] = log[u]
  BY <1>2, <1>3
<1>9. e.type = type /\ e.to = to /\ e.by = by
  OBVIOUS
<1> HIDE DEF e
<1> QED
  BY <1>5, <1>6, <1>7, <1>8, <1>9

\* An event by a lease at least as new as every earlier writer of the task, and
\* no newer than the row, keeps the outbox ordered.
LEMMA InsertKeepsOrder ==
  ASSUME log \in [Task -> Seq(Event)], EventBehindRow, NoStaleAppend,
         NEW t \in Task,
         NEW type \in TransitionType \cup AppendType,
         NEW to \in TaskState \cup {None}, NEW by \in Nat,
         InsertOutbox(t, type, to, by),
         \A i \in 1..Len(log[t]) : log[t][i].by <= by,
         by <= task[t].version,
         \A u \in Task : task'[u].version = task[u].version
  PROVE  EventBehindRow' /\ NoStaleAppend'
<1>1. /\ log' \in [Task -> Seq(Event)]
      /\ Len(log[t]) \in Nat
      /\ Len(log'[t]) = Len(log[t]) + 1
      /\ log'[t][Len(log[t]) + 1].type = type
      /\ log'[t][Len(log[t]) + 1].to = to
      /\ log'[t][Len(log[t]) + 1].by = by
      /\ \A i \in 1..Len(log[t]) : log'[t][i] = log[t][i]
      /\ \A u \in Task \ {t} : log'[u] = log[u]
  BY InsertOutboxEffect
<1>2. Len(log[t]) \in Nat
  OBVIOUS
<1>3. ASSUME NEW i \in 1..Len(log'[t])
      PROVE  log'[t][i].by <= by
  <2>1. CASE i \in 1..Len(log[t])
    BY <1>1, <2>1
  <2>2. CASE i = Len(log[t]) + 1
    BY <1>1, <2>2
  <2> QED
    BY <1>1, <1>2, <2>1, <2>2
<1>4. EventBehindRow'
  <2> SUFFICES ASSUME NEW u \in Task, NEW i \in 1..Len(log'[u])
               PROVE  log'[u][i].by <= task'[u].version
    BY DEF EventBehindRow
  <2>1. CASE u = t
    <3>1. CASE i \in 1..Len(log[t])
      BY <1>1, <2>1, <3>1 DEF EventBehindRow
    <3>2. CASE i = Len(log[t]) + 1
      BY <1>1, <2>1, <3>2
    <3> QED
      BY <1>1, <1>2, <2>1, <3>1, <3>2
  <2>2. CASE u # t
    BY <1>1, <2>2 DEF EventBehindRow
  <2> QED
    BY <2>1, <2>2
<1>5. NoStaleAppend'
  <2> SUFFICES ASSUME NEW u \in Task, NEW i \in 1..Len(log'[u]),
                      NEW j \in 1..Len(log'[u]), i <= j
               PROVE  log'[u][i].by <= log'[u][j].by
    BY DEF NoStaleAppend
  <2>1. CASE u # t
    BY <1>1, <2>1 DEF NoStaleAppend
  <2>2. CASE u = t /\ j = Len(log[t]) + 1
    BY <1>1, <1>3, <2>2
  <2>3. CASE u = t /\ j \in 1..Len(log[t])
    <3>1. i \in 1..Len(log[t])
      BY <1>2, <2>3
    <3> QED
      BY <1>1, <2>3, <3>1 DEF NoStaleAppend
  <2> QED
    BY <1>1, <1>2, <2>1, <2>2, <2>3
<1> QED
  BY <1>4, <1>5

\* An event that announces the state the row moves to, or none when the row
\* stays, keeps row and outbox in step.
LEMMA InsertKeepsState ==
  ASSUME log \in [Task -> Seq(Event)], OutboxMatchesState,
         NEW t \in Task,
         NEW type \in TransitionType \cup AppendType,
         NEW to \in TaskState \cup {None}, NEW by \in Nat,
         InsertOutbox(t, type, to, by),
         \/ task'[t].state = to
         \/ /\ to = None /\ task'[t].state = task[t].state
            /\ task[t].state # Absent,
         \A u \in Task \ {t} : task'[u].state = task[u].state
  PROVE  OutboxMatchesState'
<1>1. /\ log' \in [Task -> Seq(Event)]
      /\ Len(log[t]) \in Nat
      /\ Len(log'[t]) = Len(log[t]) + 1
      /\ log'[t][Len(log[t]) + 1].type = type
      /\ log'[t][Len(log[t]) + 1].to = to
      /\ log'[t][Len(log[t]) + 1].by = by
      /\ \A i \in 1..Len(log[t]) : log'[t][i] = log[t][i]
      /\ \A u \in Task \ {t} : log'[u] = log[u]
  BY InsertOutboxEffect
<1>2. Len(log[t]) \in Nat
  OBVIOUS
<1> SUFFICES ASSUME NEW u \in Task, task'[u].state # Absent
             PROVE  \E i \in 1..Len(log'[u]) :
                      /\ log'[u][i].to = task'[u].state
                      /\ \A j \in (i + 1)..Len(log'[u]) : log'[u][j].to = None
  BY DEF OutboxMatchesState
<1>3. CASE u # t
  <2>1. log'[u] = log[u] /\ task'[u].state = task[u].state
    BY <1>1, <1>3
  <2> QED
    BY <2>1 DEF OutboxMatchesState
<1>4. CASE u = t /\ task'[t].state = to
  <2>1. Len(log[t]) + 1 \in 1..Len(log'[u])
    BY <1>1, <1>2, <1>4
  <2>2. (Len(log[t]) + 1 + 1)..Len(log'[u]) = {}
    BY <1>1, <1>2, <1>4
  <2> QED
    BY <1>1, <1>4, <2>1, <2>2
<1>5. CASE u = t /\ to = None /\ task'[t].state = task[t].state /\ task[t].state # Absent
  <2>1. PICK i \in 1..Len(log[t]) :
               /\ log[t][i].to = task[t].state
               /\ \A j \in (i + 1)..Len(log[t]) : log[t][j].to = None
    BY <1>5 DEF OutboxMatchesState
  <2>2. i \in 1..Len(log'[u]) /\ log'[u][i].to = task'[u].state
    <3>1. i \in 1..Len(log'[u])
      BY <1>1, <1>2, <1>5
    <3>2. log'[t][i] = log[t][i]
      BY <1>1
    <3> QED
      BY <1>5, <2>1, <3>1, <3>2
  <2>3. ASSUME NEW j \in (i + 1)..Len(log'[u])
        PROVE  log'[u][j].to = None
    <3>1. CASE j = Len(log[t]) + 1
      BY <1>1, <1>5, <3>1
    <3>2. CASE j \in (i + 1)..Len(log[t])
      <4>1. j \in 1..Len(log[t])
        BY <1>2, <3>2
      <4> QED
        BY <1>1, <1>5, <2>1, <3>2, <4>1
    <3> QED
      BY <1>1, <1>2, <1>5, <3>1, <3>2
  <2> QED
    BY <2>2, <2>3
<1> QED
  BY <1>3, <1>4, <1>5

\* An event of one of the two outcome types, exactly when the row moves to that
\* outcome, keeps outcomes reported.
LEMMA InsertKeepsReport ==
  ASSUME log \in [Task -> Seq(Event)], ReportIffCompleted,
         NEW t \in Task,
         NEW type \in TransitionType \cup AppendType,
         NEW to \in TaskState \cup {None}, NEW by \in Nat,
         InsertOutbox(t, type, to, by),
         task'[t].state = "completed" <=>
           (type = "task.completed" \/ task[t].state = "completed"),
         task'[t].state = "failed" <=>
           (type = "task.failed" \/ task[t].state = "failed"),
         \A u \in Task \ {t} : task'[u].state = task[u].state
  PROVE  ReportIffCompleted'
<1>1. /\ Len(log'[t]) = Len(log[t]) + 1
      /\ log'[t][Len(log[t]) + 1].type = type
      /\ \A i \in 1..Len(log[t]) : log'[t][i] = log[t][i]
      /\ \A u \in Task \ {t} : log'[u] = log[u]
  BY InsertOutboxEffect
<1>2. Len(log[t]) \in Nat
  OBVIOUS
<1>3. ASSUME NEW ty
      PROVE  (\E i \in 1..Len(log'[t]) : log'[t][i].type = ty) <=>
             (type = ty \/ \E i \in 1..Len(log[t]) : log[t][i].type = ty)
  <2>1. 1..Len(log'[t]) = 1..Len(log[t]) \cup {Len(log[t]) + 1}
    BY <1>1, <1>2
  <2> QED
    BY <1>1, <2>1
<1> SUFFICES ASSUME NEW u \in Task
             PROVE  /\ task'[u].state = "completed" <=>
                         \E i \in 1..Len(log'[u]) : log'[u][i].type = "task.completed"
                    /\ task'[u].state = "failed" <=>
                         \E i \in 1..Len(log'[u]) : log'[u][i].type = "task.failed"
  BY DEF ReportIffCompleted
<1>4. CASE u # t
  <2>1. log'[u] = log[u] /\ task'[u].state = task[u].state
    BY <1>1, <1>4
  <2> QED
    BY <2>1 DEF ReportIffCompleted
<1>5. CASE u = t
  <2>1. /\ task[t].state = "completed" <=>
             \E i \in 1..Len(log[t]) : log[t][i].type = "task.completed"
        /\ task[t].state = "failed" <=>
             \E i \in 1..Len(log[t]) : log[t][i].type = "task.failed"
    BY DEF ReportIffCompleted
  <2> QED
    BY <1>3, <1>5, <2>1
<1> QED
  BY <1>4, <1>5

\* The empty database satisfies the invariant.
LEMMA InitStoreInv == StoreInit => StoreInv
<1> SUFFICES ASSUME StoreInit PROVE StoreInv
  OBVIOUS
<1>1. StoreTypeOK
  BY StoreAssumption DEF StoreInit, StoreTypeOK, Row
<1>2. \A t \in Task : log[t] = <<>> /\ task[t].state = Absent
  BY DEF StoreInit
<1>3. ASSUME NEW t \in Task PROVE 1..Len(log[t]) = {}
  <2>1. Len(log[t]) = 0
    BY <1>2
  <2> QED
    BY <2>1
<1>4. ReportIffCompleted
  BY <1>2, <1>3 DEF ReportIffCompleted, Absent
<1> QED
  BY <1>1, <1>2, <1>3, <1>4 DEF StoreInit, StoreInv, LeaseBehindRow, VersionIdentifiesLease,
     EventBehindRow, AbsentIsUnleased, NoStaleAppend, OutboxMatchesState

\* createTask: the first row and event of a task.
LEMMA CreateTaskInv ==
  ASSUME StoreInv, NEW t \in Task, CreateTask(t)
  PROVE  StoreInv'
<1>1. /\ StoreTypeOK /\ LeaseBehindRow /\ VersionIdentifiesLease
      /\ EventBehindRow /\ AbsentIsUnleased /\ NoStaleAppend
      /\ OutboxMatchesState /\ ReportIffCompleted
  BY DEF StoreInv
<1>2. /\ log \in [Task -> Seq(Event)] /\ task \in [Task -> Row]
      /\ log[t] = <<>> /\ task[t].version \in Nat
  BY <1>1 DEF StoreTypeOK, AbsentIsUnleased, CreateTask, Row
<1>3. /\ InsertOutbox(t, "task.started", "received", 0)
      /\ "task.started" \in TransitionType \cup AppendType
      /\ "received" \in TaskState \cup {None} /\ 0 \in Nat
  BY DEF CreateTask, TransitionType, TaskState
<1>4. log' \in [Task -> Seq(Event)] /\ \A u \in Task \ {t} : log'[u] = log[u]
  BY <1>2, <1>3, InsertOutboxEffect
<1>5. /\ task' \in [Task -> Row]
      /\ task[t].state = Absent /\ task'[t].state = "received"
      /\ \A u \in Task \ {t} : task'[u] = task[u]
      /\ \A u \in Task : task'[u].version = task[u].version
      /\ \A u \in Task \ {t} : task'[u].state = task[u].state
  BY <1>2 DEF CreateTask, Row, TaskState
<1>6. issued' = issued /\ now' = now
  BY DEF CreateTask
<1>7. StoreTypeOK'
  BY <1>1, <1>4, <1>5, <1>6 DEF StoreTypeOK
<1>8. LeaseBehindRow' /\ VersionIdentifiesLease'
  BY <1>1, <1>5, <1>6 DEF LeaseBehindRow, VersionIdentifiesLease, StoreTypeOK, Lease, Absent
<1>9. AbsentIsUnleased'
  BY <1>1, <1>4, <1>5 DEF AbsentIsUnleased, Absent
<1>10. \A i \in 1..Len(log[t]) : log[t][i].by <= 0
  <2>1. Len(log[t]) = 0
    BY <1>2
  <2> QED
    BY <2>1
<1>11. EventBehindRow' /\ NoStaleAppend'
  <2>1. 0 <= task[t].version
    BY <1>2
  <2> QED
    BY <1>1, <1>2, <1>3, <1>5, <1>10, <2>1, InsertKeepsOrder
<1>12. OutboxMatchesState'
  BY <1>1, <1>2, <1>3, <1>5, InsertKeepsState
<1>13. ReportIffCompleted'
  BY <1>1, <1>2, <1>3, <1>5, InsertKeepsReport DEF Absent
<1> QED
  BY <1>7, <1>8, <1>9, <1>11, <1>12, <1>13 DEF StoreInv

\* A step that touches only clock and leases leaves all that is said of the outbox.
LEMMA LeaseStepKeepsLogs ==
  ASSUME StoreInv, log' = log, now' \in Nat,
         task' \in [Task -> Row], issued' \subseteq Lease,
         \A t \in Task : /\ task'[t].state = task[t].state
                         /\ task'[t].version >= task[t].version,
         LeaseBehindRow', VersionIdentifiesLease'
  PROVE  StoreInv'
<1>1. /\ StoreTypeOK /\ EventBehindRow /\ AbsentIsUnleased
      /\ NoStaleAppend /\ OutboxMatchesState /\ ReportIffCompleted
  BY DEF StoreInv
<1>2. StoreTypeOK'
  BY <1>1 DEF StoreTypeOK
<1>3. EventBehindRow'
  <2> SUFFICES ASSUME NEW t \in Task, NEW i \in 1..Len(log[t])
               PROVE  log[t][i].by <= task'[t].version
    BY DEF EventBehindRow
  <2>1. log[t][i] \in Event
    BY <1>1 DEF StoreTypeOK
  <2>2. log[t][i].by \in Nat /\ task[t].version \in Nat /\ task'[t].version \in Nat
    BY <1>1, <2>1 DEF StoreTypeOK, Row, Event
  <2>3. log[t][i].by <= task[t].version
    BY <1>1 DEF EventBehindRow
  <2> QED
    BY <2>2, <2>3
<1>4. AbsentIsUnleased' /\ NoStaleAppend' /\ OutboxMatchesState' /\ ReportIffCompleted'
  BY <1>1 DEF AbsentIsUnleased, NoStaleAppend, OutboxMatchesState, ReportIffCompleted
<1> QED
  BY <1>2, <1>3, <1>4 DEF StoreInv

\* acquireLease: the new lease is newer than every earlier one of its task.
LEMMA AcquireLeaseInv ==
  ASSUME StoreInv, NEW t \in Task, NEW w \in Writer, AcquireLease(t, w)
  PROVE  StoreInv'
<1>1. StoreTypeOK /\ LeaseBehindRow /\ VersionIdentifiesLease
  BY DEF StoreInv
<1>2. task \in [Task -> Row] /\ now \in Nat /\ issued \subseteq Lease
  BY <1>1 DEF StoreTypeOK
<1> DEFINE l == NewLease(t, w)
<1>3. l \in Lease /\ l.task = t /\ l.version = task[t].version + 1
  BY <1>2, StoreAssumption DEF NewLease, Lease, Row
<1>4. /\ task' \in [Task -> Row]
      /\ \A u \in Task : task'[u].state = task[u].state
      /\ \A u \in Task \ {t} : task'[u].version = task[u].version
      /\ task'[t].version = task[t].version + 1
  BY <1>2, StoreAssumption DEF AcquireLease, NewLease, Row
<1>5. /\ issued' = issued \cup {l} /\ now' = now /\ log' = log
      /\ task[t].state # Absent
  BY DEF AcquireLease
<1> HIDE DEF l
<1>6. ASSUME NEW k \in issued
      PROVE  /\ k \in Lease /\ k.version <= task[k.task].version
             /\ task[k.task].state # Absent
  BY <1>1, <1>2, <1>6 DEF LeaseBehindRow
<1>7. \A u \in Task : task[u].version \in Nat
  BY <1>2 DEF Row
<1>8. LeaseBehindRow'
  BY <1>3, <1>4, <1>5, <1>6, <1>7 DEF LeaseBehindRow, Lease
<1>9. VersionIdentifiesLease'
  BY <1>1, <1>3, <1>5, <1>6, <1>7 DEF VersionIdentifiesLease, Lease
<1>10. \A u \in Task : task'[u].version >= task[u].version
  BY <1>4, <1>7
<1> QED
  BY <1>2, <1>3, <1>4, <1>5, <1>8, <1>9, <1>10, LeaseStepKeepsLogs

\* releaseLease: the version stays, so that no old lease comes back to life.
LEMMA ReleaseLeaseInv ==
  ASSUME StoreInv, NEW l \in issued, ReleaseLease(l)
  PROVE  StoreInv'
<1>1. /\ StoreTypeOK /\ LeaseBehindRow /\ VersionIdentifiesLease
  BY DEF StoreInv
<1>2. /\ task \in [Task -> Row] /\ now \in Nat /\ issued \subseteq Lease
      /\ l.task \in Task
  BY <1>1 DEF StoreTypeOK, Lease
<1>3. /\ task' \in [Task -> Row] /\ issued' = issued /\ log' = log /\ now' = now
      /\ \A u \in Task : /\ task'[u].state = task[u].state
                          /\ task'[u].version = task[u].version
                          /\ task'[u].version >= task[u].version
  BY <1>2 DEF ReleaseLease, Row
<1>4. LeaseBehindRow' /\ VersionIdentifiesLease'
  BY <1>1, <1>2, <1>3 DEF LeaseBehindRow, VersionIdentifiesLease, Lease
<1> QED
  BY <1>2, <1>3, <1>4, LeaseStepKeepsLogs

\* The clock, of which the invariant says nothing.
LEMMA TickInv == ASSUME StoreInv, Tick PROVE StoreInv'
<1>1. StoreTypeOK /\ LeaseBehindRow /\ VersionIdentifiesLease
  BY DEF StoreInv
<1>2. now' \in Nat /\ task' = task /\ log' = log /\ issued' = issued
  BY <1>1 DEF Tick, StoreTypeOK
<1> QED
  BY <1>1, <1>2, LeaseStepKeepsLogs
     DEF StoreTypeOK, Row, LeaseBehindRow, VersionIdentifiesLease

\* The table of state-machine.ts: terminal states have no successor.
LEMMA TransitionLeavesTerminal ==
  ASSUME NEW from, NEW to, CanTransition(from, to)
  PROVE  from \notin Terminal
BY DEF CanTransition, transitions, TaskState, Terminal

\* An accepted lease is as new as its row, hence as every event of the outbox.
LEMMA AcceptedLeaseIsNewest ==
  ASSUME StoreInv, NEW l \in issued, AssertLease(l)
  PROVE  /\ l.task \in Task /\ l.version \in Nat
         /\ task[l.task].state \in TaskState
         /\ l.version <= task[l.task].version
         /\ \A i \in 1..Len(log[l.task]) : log[l.task][i].by <= l.version
<1>1. StoreTypeOK /\ EventBehindRow
  BY DEF StoreInv
<1>2. l.task \in Task /\ l.version \in Nat
  BY <1>1 DEF StoreTypeOK, Lease
<1>3. l.version = task[l.task].version /\ task[l.task].state # Absent
  BY DEF AssertLease
<1>4. task[l.task].state \in TaskState
  BY <1>1, <1>2, <1>3 DEF StoreTypeOK, Row
<1> QED
  BY <1>1, <1>2, <1>3, <1>4 DEF EventBehindRow

\* transition: row and event change together, under an accepted lease.
LEMMA TransitionInv ==
  ASSUME StoreInv, NEW l \in issued, NEW to \in TaskState,
         NEW type \in TransitionType, Transition(l, to, type)
  PROVE  StoreInv'
<1> DEFINE t == l.task
<1>1. /\ StoreTypeOK /\ LeaseBehindRow /\ VersionIdentifiesLease
      /\ EventBehindRow /\ AbsentIsUnleased /\ NoStaleAppend
      /\ OutboxMatchesState /\ ReportIffCompleted
  BY DEF StoreInv
<1>2. /\ t \in Task /\ l.version \in Nat
      /\ task[t].state \in TaskState
      /\ l.version <= task[t].version
      /\ \A i \in 1..Len(log[t]) : log[t][i].by <= l.version
  BY AcceptedLeaseIsNewest DEF Transition
<1>3. log \in [Task -> Seq(Event)] /\ task \in [Task -> Row]
  BY <1>1 DEF StoreTypeOK
<1>4. /\ InsertOutbox(t, type, to, l.version)
      /\ task' = [task EXCEPT ![t].state = to]
      /\ CanTransition(task[t].state, to) /\ AssertTransitionEvent(to, type)
      /\ issued' = issued /\ now' = now
  BY DEF Transition
<1> HIDE DEF t
<1>5. type \in TransitionType \cup AppendType /\ to \in TaskState \cup {None}
  OBVIOUS
<1>6. log' \in [Task -> Seq(Event)] /\ \A u \in Task \ {t} : log'[u] = log[u]
  BY <1>2, <1>3, <1>4, <1>5, InsertOutboxEffect
<1>7. /\ task' \in [Task -> Row] /\ task'[t].state = to
      /\ \A u \in Task : task'[u].version = task[u].version
      /\ \A u \in Task \ {t} : task'[u].state = task[u].state
  BY <1>2, <1>3, <1>4 DEF Row
<1>8. StoreTypeOK'
  BY <1>1, <1>4, <1>6, <1>7 DEF StoreTypeOK
<1>9. to # Absent
  BY DEF TaskState, Absent
<1>10. LeaseBehindRow' /\ VersionIdentifiesLease'
  BY <1>1, <1>2, <1>4, <1>7, <1>9 DEF LeaseBehindRow, VersionIdentifiesLease, StoreTypeOK, Lease
<1>11. AbsentIsUnleased'
  BY <1>1, <1>6, <1>7, <1>9 DEF AbsentIsUnleased
<1>12. EventBehindRow' /\ NoStaleAppend'
  BY <1>1, <1>2, <1>3, <1>4, <1>5, <1>7, InsertKeepsOrder
<1>13. OutboxMatchesState'
  BY <1>1, <1>2, <1>3, <1>4, <1>5, <1>7, InsertKeepsState
<1>14. task[t].state \notin {"completed", "failed"}
  BY <1>4, TransitionLeavesTerminal DEF Terminal
<1>15. ReportIffCompleted'
  <2>1. /\ task'[t].state = "completed" <=>
             (type = "task.completed" \/ task[t].state = "completed")
        /\ task'[t].state = "failed" <=>
             (type = "task.failed" \/ task[t].state = "failed")
    BY <1>4, <1>7, <1>14 DEF AssertTransitionEvent
  <2> QED
    BY <1>1, <1>2, <1>3, <1>4, <1>5, <1>7, <2>1, InsertKeepsReport
<1> QED
  BY <1>8, <1>10, <1>11, <1>12, <1>13, <1>15 DEF StoreInv

\* appendEvent: an event that announces no state, under an accepted lease.
LEMMA AppendEventInv ==
  ASSUME StoreInv, NEW l \in issued, NEW type \in AppendType,
         AppendEvent(l, type)
  PROVE  StoreInv'
<1> DEFINE t == l.task
<1>1. /\ StoreTypeOK /\ LeaseBehindRow /\ VersionIdentifiesLease
      /\ EventBehindRow /\ AbsentIsUnleased /\ NoStaleAppend
      /\ OutboxMatchesState /\ ReportIffCompleted
  BY DEF StoreInv
<1>2. /\ t \in Task /\ l.version \in Nat
      /\ task[t].state \in TaskState
      /\ l.version <= task[t].version
      /\ \A i \in 1..Len(log[t]) : log[t][i].by <= l.version
  BY AcceptedLeaseIsNewest DEF AppendEvent
<1>3. log \in [Task -> Seq(Event)]
  BY <1>1 DEF StoreTypeOK
<1>4. /\ InsertOutbox(t, type, None, l.version)
      /\ task' = task /\ issued' = issued /\ now' = now
  BY DEF AppendEvent
<1> HIDE DEF t
<1>5. type \in TransitionType \cup AppendType /\ None \in TaskState \cup {None}
  OBVIOUS
<1>6. log' \in [Task -> Seq(Event)] /\ \A u \in Task \ {t} : log'[u] = log[u]
  BY <1>2, <1>3, <1>4, <1>5, InsertOutboxEffect
<1>7. StoreTypeOK' /\ LeaseBehindRow' /\ VersionIdentifiesLease'
  BY <1>1, <1>4, <1>6 DEF StoreTypeOK, LeaseBehindRow, VersionIdentifiesLease
<1>8. task[t].state # Absent
  BY <1>2 DEF TaskState, Absent
<1>9. AbsentIsUnleased'
  BY <1>1, <1>4, <1>6, <1>8 DEF AbsentIsUnleased
<1>10. EventBehindRow' /\ NoStaleAppend'
  BY <1>1, <1>2, <1>3, <1>4, <1>5, InsertKeepsOrder
<1>11. OutboxMatchesState'
  BY <1>1, <1>2, <1>3, <1>4, <1>5, <1>8, InsertKeepsState
<1>12. type # "task.completed" /\ type # "task.failed"
  BY StoreAssumption DEF TransitionType
<1>13. ReportIffCompleted'
  BY <1>1, <1>2, <1>3, <1>4, <1>5, <1>12, InsertKeepsReport
<1> QED
  BY <1>7, <1>9, <1>10, <1>11, <1>13 DEF StoreInv

\* Every step of the store, with a lease however old, preserves the invariant.
LEMMA NextStoreInv == StoreInv /\ [StoreNext]_storeVars => StoreInv'
<1> SUFFICES ASSUME StoreInv, [StoreNext]_storeVars PROVE StoreInv'
  OBVIOUS
<1>1. CASE Tick
  BY <1>1, TickInv
<1>2. ASSUME NEW t \in Task, CreateTask(t) PROVE StoreInv'
  BY <1>2, CreateTaskInv
<1>3. ASSUME NEW t \in Task, NEW w \in Writer, AcquireLease(t, w) PROVE StoreInv'
  BY <1>3, AcquireLeaseInv
<1>4. ASSUME NEW l \in issued, ReleaseLease(l) PROVE StoreInv'
  BY <1>4, ReleaseLeaseInv
<1>5. ASSUME NEW l \in issued, NEW to \in TaskState,
             NEW type \in TransitionType \ {"task.started"}, Transition(l, to, type)
      PROVE  StoreInv'
  BY <1>5, TransitionInv
<1>6. ASSUME NEW l \in issued, NEW type \in AppendType, AppendEvent(l, type)
      PROVE  StoreInv'
  BY <1>6, AppendEventInv
<1>7. CASE UNCHANGED storeVars
  BY <1>7 DEF storeVars, StoreInv, StoreTypeOK, LeaseBehindRow,
     VersionIdentifiesLease, EventBehindRow, AbsentIsUnleased, NoStaleAppend,
     OutboxMatchesState, ReportIffCompleted
<1> QED
  BY <1>1, <1>2, <1>3, <1>4, <1>5, <1>6, <1>7 DEF StoreNext

\* The inductive invariant holds throughout.
THEOREM StoreInvariant == StoreSpec => []StoreInv
<1>1. StoreInit => StoreInv
  BY InitStoreInv
<1>2. StoreInv /\ [StoreNext]_storeVars => StoreInv'
  BY NextStoreInv
<1> QED
  BY <1>1, <1>2, PTL DEF StoreSpec

\* Type correctness of the task store.
THEOREM StoreTypeCorrect == StoreSpec => []StoreTypeOK
<1>1. StoreInv => StoreTypeOK
  BY DEF StoreInv
<1> QED
  BY <1>1, StoreInvariant, PTL

\* "A task has one active writer lease", for any number of executors that keep
\* and retry any leases they ever had.
THEOREM StoreOneActiveWriter == StoreSpec => []OneActiveWriter
<1>1. StoreInv => OneActiveWriter
  BY DEF StoreInv, VersionIdentifiesLease, OneActiveWriter, AssertLease
<1> QED
  BY <1>1, StoreInvariant, PTL

\* "Stale executors cannot append results."
THEOREM StoreNoStaleAppend == StoreSpec => []NoStaleAppend
<1>1. StoreInv => NoStaleAppend
  BY DEF StoreInv
<1> QED
  BY <1>1, StoreInvariant, PTL

\* Row and outbox agree on the state and on the outcome of every task.
THEOREM StoreOutboxFaithful == StoreSpec => []OutboxFaithful
<1>1. StoreInv => OutboxFaithful
  BY DEF StoreInv, OutboxFaithful
<1> QED
  BY <1>1, StoreInvariant, PTL

\* A step from a terminal state leaves it, whichever lease it presents.
LEMMA TerminalStep ==
  StoreInv /\ [StoreNext]_storeVars =>
    [\A t \in Task : task[t].state \in Terminal =>
                       task'[t].state = task[t].state]_storeVars
<1> SUFFICES ASSUME StoreInv, StoreNext, NEW t \in Task, task[t].state \in Terminal
             PROVE  task'[t].state = task[t].state
  OBVIOUS
<1>1. task \in [Task -> Row] /\ issued \subseteq Lease
  BY DEF StoreInv, StoreTypeOK
<1>2. CASE Tick
  BY <1>2 DEF Tick
<1>3. ASSUME NEW u \in Task, CreateTask(u) PROVE task'[t].state = task[t].state
  BY <1>1, <1>3 DEF CreateTask, Terminal, Absent
<1>4. ASSUME NEW u \in Task, NEW w \in Writer, AcquireLease(u, w)
      PROVE  task'[t].state = task[t].state
  BY <1>1, <1>4 DEF AcquireLease, Row
<1>5. ASSUME NEW l \in issued, ReleaseLease(l) PROVE task'[t].state = task[t].state
  BY <1>1, <1>5 DEF ReleaseLease, Row
<1>6. ASSUME NEW l \in issued, NEW to \in TaskState, NEW type, Transition(l, to, type)
      PROVE  task'[t].state = task[t].state
  <2>1. task[l.task].state \notin Terminal
    BY <1>6, TransitionLeavesTerminal DEF Transition
  <2> QED
    BY <1>1, <1>6, <2>1 DEF Transition, Lease
<1>7. ASSUME NEW l \in issued, NEW type, AppendEvent(l, type)
      PROVE  task'[t].state = task[t].state
  BY <1>7 DEF AppendEvent
<1> QED
  BY <1>2, <1>3, <1>4, <1>5, <1>6, <1>7 DEF StoreNext

\* A terminal state is final.
THEOREM StoreTerminalIsFinal == StoreSpec => TerminalIsFinal
BY StoreInvariant, TerminalStep, PTL DEF StoreSpec, TerminalIsFinal

\* A step that changes the version of a row under a live lease is its writer's.
LEMMA TakeoverStep ==
  StoreInv /\ [StoreNext]_storeVars =>
    [\A t \in Task :
       task[t].expires > now /\ task'[t].version # task[t].version =>
         task'[t].writer = task[t].writer \/ task[t].writer = NoWriter]_storeVars
<1> SUFFICES ASSUME StoreInv, StoreNext, NEW t \in Task, task[t].expires > now,
                    task'[t].version # task[t].version
             PROVE  task'[t].writer = task[t].writer \/ task[t].writer = NoWriter
  OBVIOUS
<1>1. task \in [Task -> Row] /\ issued \subseteq Lease
  BY DEF StoreInv, StoreTypeOK
<1>2. CASE Tick
  BY <1>2 DEF Tick
<1>3. ASSUME NEW u \in Task, CreateTask(u) PROVE FALSE
  BY <1>1, <1>3 DEF CreateTask, Row
<1>4. ASSUME NEW u \in Task, NEW w \in Writer, AcquireLease(u, w)
      PROVE  task'[t].writer = task[t].writer \/ task[t].writer = NoWriter
  BY <1>1, <1>4 DEF AcquireLease, HeldByOther, Row
<1>5. ASSUME NEW l \in issued, ReleaseLease(l) PROVE FALSE
  BY <1>1, <1>5 DEF ReleaseLease, Row
<1>6. ASSUME NEW l \in issued, NEW to \in TaskState, NEW type, Transition(l, to, type)
      PROVE  FALSE
  BY <1>1, <1>6 DEF Transition, Row
<1>7. ASSUME NEW l \in issued, NEW type, AppendEvent(l, type) PROVE FALSE
  BY <1>7 DEF AppendEvent
<1> QED
  BY <1>2, <1>3, <1>4, <1>5, <1>6, <1>7 DEF StoreNext

\* A live lease is never taken over.
THEOREM StoreNoTakeover == StoreSpec => NoTakeover
BY StoreInvariant, TakeoverStep, PTL DEF StoreSpec, NoTakeover
=============================================================================
