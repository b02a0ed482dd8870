-------------------------- MODULE ComponentsProofs --------------------------
(***************************************************************************)
(* What the components of MCComponents promise, for any number of agents,  *)
(* tasks, slots, launches and requests: first of each component alone, by  *)
(* an invariant of its own, then of the sum of them.                       *)
(***************************************************************************)
EXTENDS MCComponents, HostSettingsProofs, ExtensionProofs, DesktopProofs,
        TLAPS, FiniteSetTheorems, SequenceTheorems, WellFoundedInduction

-----------------------------------------------------------------------------
(* Numbers and sequences *)

\* A list of different elements, with one more at its end.
LEMMA ListAppends ==
  ASSUME NEW S, NEW s \in Seq(S), IsInjective(s), NEW e \in S, e \notin ToSet(s)
  PROVE  /\ Append(s, e) \in Seq(S) /\ IsInjective(Append(s, e))
         /\ ToSet(Append(s, e)) = ToSet(s) \cup {e} /\ Len(Append(s, e)) = Len(s) + 1
<1> DEFINE r == Append(s, e)
<1>1. /\ r \in Seq(S) /\ Len(r) = Len(s) + 1 /\ DOMAIN r = 1..(Len(s) + 1)
      /\ DOMAIN s = 1..Len(s) /\ Len(s) \in Nat
      /\ \A i \in 1..Len(s) : r[i] = s[i]
      /\ r[Len(s) + 1] = e
  OBVIOUS
<1> HIDE DEF r
<1>2. \A i \in DOMAIN r : i \in DOMAIN s \/ i = Len(s) + 1
  BY <1>1
<1>3. ToSet(r) = ToSet(s) \cup {e}
  BY <1>1, <1>2 DEF ToSet
<1>4. IsInjective(r)
  BY <1>1, <1>2 DEF ToSet, IsInjective
<1>5. QED
  BY <1>1, <1>3, <1>4 DEF r

\* A list of different elements without the one at i.
LEMMA ListRemoves ==
  ASSUME NEW S, NEW s \in Seq(S), IsInjective(s), NEW i \in DOMAIN s
  PROVE  /\ RemoveAt(s, i) \in Seq(S) /\ IsInjective(RemoveAt(s, i))
         /\ ToSet(RemoveAt(s, i)) = ToSet(s) \ {s[i]} /\ Len(RemoveAt(s, i)) = Len(s) - 1
<1> DEFINE r == RemoveAt(s, i)
<1>1. Len(s) \in Nat /\ DOMAIN s = 1..Len(s) /\ i \in 1..Len(s)
  OBVIOUS
<1>2. /\ r \in Seq(S) /\ Len(r) = Len(s) - 1 /\ DOMAIN r = 1..(Len(s) - 1)
      /\ \A j \in 1..(Len(s) - 1) : r[j] = IF j < i THEN s[j] ELSE s[j + 1]
  BY ListWithout
<1> HIDE DEF r
<1>3. \A j \in DOMAIN r : /\ j < i => j \in DOMAIN s /\ j # i
                          /\ ~(j < i) => j + 1 \in DOMAIN s /\ j + 1 # i
  BY <1>1, <1>2
<1>4. ToSet(r) = ToSet(s) \ {s[i]}
  <2>1. ASSUME NEW j \in DOMAIN r PROVE r[j] \in ToSet(s) \ {s[i]}
    BY <1>1, <1>2, <1>3 DEF ToSet, IsInjective
  <2>2. ASSUME NEW k \in DOMAIN s, k # i PROVE s[k] \in ToSet(r)
    <3>1. CASE k < i
      <4>1. k \in DOMAIN r /\ r[k] = s[k] BY <1>1, <1>2, <3>1
      <4> QED BY <4>1 DEF ToSet
    <3>2. CASE k > i
      <4>1. k - 1 \in DOMAIN r /\ r[k - 1] = s[k] BY <1>1, <1>2, <3>2
      <4> QED BY <4>1 DEF ToSet
    <3> QED BY <1>1, <2>2, <3>1, <3>2
  <2> QED BY <2>1, <2>2 DEF ToSet
<1>5. IsInjective(r)
  <2> SUFFICES ASSUME NEW j \in DOMAIN r, NEW k \in DOMAIN r, r[j] = r[k] PROVE j = k
    BY DEF IsInjective
  <2> DEFINE old(n) == IF n < i THEN n ELSE n + 1
  <2>1. /\ old(j) \in DOMAIN s /\ r[j] = s[old(j)]
        /\ old(k) \in DOMAIN s /\ r[k] = s[old(k)]
    BY <1>1, <1>2, <1>3
  <2>2. old(j) = old(k)
    BY <2>1 DEF IsInjective
  <2> QED BY <1>1, <1>2, <2>2
<1>6. QED
  BY <1>2, <1>4, <1>5 DEF r

-----------------------------------------------------------------------------
(* The office *)

\* The drain under way has still to look at every task that could start now.
TodoIsComplete ==
  /\ officeTodo # {} => \A t \in Task : Runnable(t) => t \in officeTodo
  /\ officeProcess \in {"stopping", "down"} => officeTodo = {}

\* What is queued has not been called since, and what never was in the office not at all.
CallsOK ==
  /\ calls \in [Task -> Nat]
  /\ \A t \in Task : /\ calls[t] <= 1
                     /\ officeTask[t].state \in {"queued", "absent"} => calls[t] = 0

OfficeInv ==
  /\ OfficeTypeOK /\ order \in Seq(Task) /\ IsFiniteSet(Active)
  /\ RunningIsCalled /\ CallsAreBounded /\ CallsOK /\ TodoIsComplete
  /\ officeProcess = "down" => Active = {}

\* A row of the office is a task, any other is absent or deleted.
LEMMA RowStates ==
  ASSUME OfficeTypeOK, NEW t \in Task
  PROVE  /\ t \in InOffice => officeTask[t] \in Row /\ officeTask[t].state \in State
         /\ t \notin InOffice => officeTask[t].state \in {"absent", "deleted"}
         /\ officeTask[t].state \in State => t \in InOffice
<1>1. officeTask[t] \in Row \cup {NoOfficeTask, Deleted}
  BY DEF OfficeTypeOK
<1>2. NoOfficeTask.state = "absent" /\ Deleted.state = "deleted"
  BY DEF NoOfficeTask, Deleted
<1>3. \A r \in Row : r.state \in State
  BY DEF Row
<1>4. "absent" \notin State /\ "deleted" \notin State
  BY DEF State
<1>5. QED
  BY <1>1, <1>2, <1>3, <1>4 DEF InOffice

\* The state of a task of the office changes and nothing else of the rows.
LEMMA StateChanges ==
  ASSUME OfficeTypeOK, NEW t \in InOffice, NEW st \in State,
         officeTask' = [officeTask EXCEPT ![t].state = st]
  PROVE  /\ officeTask' \in [Task -> Row \cup {NoOfficeTask, Deleted}]
         /\ officeTask'[t].state = st /\ officeTask'[t].agent = officeTask[t].agent
         /\ officeTask'[t].mode = officeTask[t].mode /\ officeTask'[t].due = officeTask[t].due
         /\ \A u \in Task \ {t} : officeTask'[u] = officeTask[u]
         /\ InOffice' = InOffice
<1> DEFINE new == [agent |-> officeTask[t].agent, mode |-> officeTask[t].mode, state |-> st,
                   due |-> officeTask[t].due]
<1>1. t \in Task /\ officeTask \in [Task -> Row \cup {NoOfficeTask, Deleted}]
  BY DEF OfficeTypeOK, InOffice
<1>2. officeTask[t] \in Row
  BY <1>1, RowStates
<1>3. /\ officeTask[t].agent \in Agent /\ officeTask[t].mode \in {"assist", "todo"}
      /\ officeTask[t].due \in BOOLEAN
  BY <1>2 DEF Row
<1>4. officeTask'[t] = new
  BY <1>1, <1>2, ZenonT(30) DEF Row
<1>5. new \in Row /\ new.state = st /\ new.agent = officeTask[t].agent
      /\ new.mode = officeTask[t].mode /\ new.due = officeTask[t].due
  BY <1>3 DEF Row
<1>6. new \notin {NoOfficeTask, Deleted}
  <2>1. NoOfficeTask.state = "absent" /\ Deleted.state = "deleted"
    BY DEF NoOfficeTask, Deleted
  <2>2. "absent" \notin State /\ "deleted" \notin State
    BY DEF State
  <2> HIDE DEF new
  <2> QED BY <1>5, <2>1, <2>2
<1> HIDE DEF new
<1>7. /\ officeTask' \in [Task -> Row \cup {NoOfficeTask, Deleted}]
      /\ \A u \in Task \ {t} : officeTask'[u] = officeTask[u]
  <2>1. officeTask' = [officeTask EXCEPT ![t] = new]
    BY <1>1, <1>4
  <2> QED BY <1>1, <1>5, <2>1
<1>8. InOffice' = InOffice
  BY <1>1, <1>4, <1>6, <1>7 DEF InOffice
<1>9. QED
  BY <1>4, <1>5, <1>7, <1>8

\* The drain after a request sees what may start; without one nothing is looked at.
LEMMA TodoAfter ==
  ASSUME officeTask' \in [Task -> Row \cup {NoOfficeTask, Deleted}], ToSet(order') = InOffice',
         Drained \/ officeTodo' = {}, officeProcess' = officeProcess, officeProcess \in {"up", "stopping"}
  PROVE  TodoIsComplete' /\ officeTodo' \subseteq ToSet(order')
<1>1. CASE officeTodo' = {}
  BY <1>1 DEF TodoIsComplete
<1>2. CASE Drained /\ officeTodo' # {}
  <2>1. officeProcess = "up" /\ officeTodo' = {t \in ToSet(order') : MayStart(officeTask', t)}
    BY <1>2 DEF Drained, OfficeSnapshot
  <2>2. ASSUME NEW t \in Task, MayStart(officeTask', t) PROVE t \in InOffice'
    <3>1. officeTask'[t].state = "queued"
      BY <2>2 DEF MayStart
    <3>2. NoOfficeTask.state # "queued" /\ Deleted.state # "queued"
      BY DEF NoOfficeTask, Deleted
    <3> QED BY <3>1, <3>2 DEF InOffice
  <2> QED BY <2>1, <2>2 DEF TodoIsComplete, Runnable
<1>3. QED
  BY <1>1, <1>2

\* The list holds every task of the office once.
ListOK == /\ order \in Seq(Task) /\ IsInjective(order) /\ ToSet(order) = InOffice
          /\ Len(order) <= MaxTasks

\* What a request has to keep for the invariant to be kept.
LEMMA RequestKeeps ==
  ASSUME OfficeInv, OfficeRequest, officeProcess' = officeProcess,
         officeTask' \in [Task -> Row \cup {NoOfficeTask, Deleted}], ListOK',
         active' \in [Task -> {"none", "calling", "aborted"}], Active' = Active,
         \A t \in Task : officeTask'[t].state = "running" <=> active'[t] = "calling",
         \A t \in Task : active'[t] = "calling" =>
                           active[t] = "calling" /\ officeTask'[t].agent = officeTask[t].agent,
         CallsOK', retries' \in 0..MaxRetries, Drained \/ officeTodo' = {}
  PROVE  OfficeInv'
<1>1. officeProcess \in {"up", "stopping"} /\ OfficeInv
  BY DEF OfficeRequest
<1>2. TodoIsComplete' /\ officeTodo' \subseteq ToSet(order')
  BY <1>1, TodoAfter DEF ListOK
<1>3. OfficeTypeOK' /\ order' \in Seq(Task)
  BY <1>1, <1>2 DEF OfficeTypeOK, ListOK
<1>4. RunningIsCalled'
  BY <1>1 DEF OfficeInv, RunningIsCalled
<1>5. IsFiniteSet(Active)' /\ CallsAreBounded'
  BY <1>1 DEF OfficeInv, CallsAreBounded
<1>6. QED
  BY <1>1, <1>2, <1>3, <1>4, <1>5 DEF OfficeInv

\* The state of the process and of its calls between two stretches.
LEMMA AtRest ==
  ASSUME OfficeInv, OfficeRequest, NEW t \in Task
  PROVE  /\ OfficeTypeOK /\ ListOK /\ CallsOK
         /\ officeTask[t].state = "running" <=> active[t] = "calling"
         /\ active[t] = "none" \/ active[t] = "calling"
BY DEF OfficeInv, OfficeRequest, OfficeQuiet, OfficeTypeOK, ListOK, RunningIsCalled

\* The state of one task changes between two that are not running.
LEMMA StateRequestKeeps ==
  ASSUME OfficeInv, OfficeRequest, NEW t \in InOffice, NEW st \in State \ {"running"},
         officeTask[t].state # "running", officeTask' = [officeTask EXCEPT ![t].state = st],
         UNCHANGED <<officeProcess, order, active>>, CallsOK', retries' \in 0..MaxRetries, Drained
  PROVE  OfficeInv'
<1>1. /\ t \in Task /\ OfficeTypeOK /\ ListOK
      /\ \A u \in Task : officeTask[u].state = "running" <=> active[u] = "calling"
      /\ active \in [Task -> {"none", "calling", "aborted"}]
  BY AtRest DEF InOffice, OfficeInv, OfficeTypeOK
<1>2. /\ officeTask' \in [Task -> Row \cup {NoOfficeTask, Deleted}]
      /\ officeTask'[t].state = st /\ officeTask'[t].agent = officeTask[t].agent
      /\ \A u \in Task \ {t} : officeTask'[u] = officeTask[u]
      /\ InOffice' = InOffice
  BY <1>1, StateChanges
<1>3. ListOK' /\ Active' = Active
  BY <1>1, <1>2 DEF ListOK, Active
<1>4. /\ \A u \in Task : officeTask'[u].state = "running" <=> active'[u] = "calling"
      /\ \A u \in Task : active'[u] = "calling" =>
                           active[u] = "calling" /\ officeTask'[u].agent = officeTask[u].agent
  BY <1>1, <1>2
<1>5. QED
  BY <1>1, <1>2, <1>3, <1>4, RequestKeeps

\* complete and retry.
LEMMA CompleteRetryKeep ==
  ASSUME OfficeInv, NEW t \in Task, Complete(t) \/ Retry(t)
  PROVE  OfficeInv'
<1>1. /\ OfficeRequest /\ UNCHANGED <<officeProcess, order, active>> /\ Drained
      /\ officeTask[t].state \in State \ {"running"}
      /\ OfficeTypeOK /\ CallsOK /\ retries \in 0..MaxRetries
  BY DEF Complete, Retry, State, OfficeInv, OfficeTypeOK
<1>2. t \in InOffice
  BY <1>1, RowStates
<1>3. CASE Complete(t)
  <2>1. officeTask' = [officeTask EXCEPT ![t].state = "completed"] /\ UNCHANGED <<calls, retries>>
    BY <1>3 DEF Complete
  <2>2. /\ officeTask'[t].state = "completed" /\ \A u \in Task \ {t} : officeTask'[u] = officeTask[u]
        /\ "completed" \in State \ {"running"}
    BY <1>1, <1>2, <2>1, StateChanges DEF State
  <2>3. CallsOK'
    BY <1>1, <2>1, <2>2 DEF CallsOK
  <2> QED
    BY <1>1, <1>2, <2>1, <2>2, <2>3, StateRequestKeeps
<1>4. CASE Retry(t)
  <2>1. /\ officeTask' = [officeTask EXCEPT ![t].state = "queued"]
        /\ calls' = [calls EXCEPT ![t] = 0] /\ retries < MaxRetries /\ retries' = retries + 1
    BY <1>4 DEF Retry
  <2>2. /\ officeTask'[t].state = "queued" /\ \A u \in Task \ {t} : officeTask'[u] = officeTask[u]
        /\ "queued" \in State \ {"running"}
    BY <1>1, <1>2, <2>1, StateChanges DEF State
  <2>3. CallsOK'
    BY <1>1, <2>1, <2>2 DEF CallsOK
  <2>4. retries' \in 0..MaxRetries
    BY <1>1, <2>1, OfficeAssumption
  <2> QED
    BY <1>1, <1>2, <2>1, <2>2, <2>3, <2>4, StateRequestKeeps
<1>5. QED
  BY <1>3, <1>4

\* cancel: the call of a running task is aborted, and keeps its entry.
LEMMA CancelKeeps ==
  ASSUME OfficeInv, NEW t \in Task, Cancel(t)
  PROVE  OfficeInv'
<1>1. /\ OfficeRequest /\ UNCHANGED <<officeProcess, order, calls, retries>> /\ Drained
      /\ officeTask[t].state \in State /\ "cancelled" \in State
      /\ officeTask' = [officeTask EXCEPT ![t].state = "cancelled"]
      /\ active' = [active EXCEPT ![t] = IF active[t] = "calling" THEN "aborted" ELSE active[t]]
  BY DEF Cancel, State
<1>2. /\ OfficeTypeOK /\ ListOK /\ CallsOK /\ retries \in 0..MaxRetries
      /\ \A u \in Task : officeTask[u].state = "running" <=> active[u] = "calling"
      /\ active \in [Task -> {"none", "calling", "aborted"}]
  BY <1>1, AtRest DEF OfficeInv, OfficeTypeOK
<1>3. t \in InOffice
  BY <1>1, <1>2, RowStates
<1>4. /\ officeTask' \in [Task -> Row \cup {NoOfficeTask, Deleted}]
      /\ officeTask'[t].state = "cancelled" /\ \A u \in Task \ {t} : officeTask'[u] = officeTask[u]
      /\ InOffice' = InOffice
  BY <1>1, <1>2, <1>3, StateChanges
<1>5. ListOK' /\ CallsOK'
  BY <1>1, <1>2, <1>4 DEF ListOK, CallsOK
<1>6. /\ active' \in [Task -> {"none", "calling", "aborted"}] /\ active'[t] # "calling"
      /\ \A u \in Task \ {t} : active'[u] = active[u]
      /\ active'[t] = "none" <=> active[t] = "none"
  BY <1>1, <1>2
<1>7. Active' = Active
  BY <1>6 DEF Active
<1>8. /\ \A u \in Task : officeTask'[u].state = "running" <=> active'[u] = "calling"
      /\ \A u \in Task : active'[u] = "calling" =>
                           active[u] = "calling" /\ officeTask'[u].agent = officeTask[u].agent
  BY <1>2, <1>4, <1>6
<1>9. QED
  BY <1>1, <1>2, <1>4, <1>5, <1>6, <1>7, <1>8, RequestKeeps

\* create, and handoff, which creates too: a fresh id has no call and had none.
LEMMA CreateKeeps ==
  ASSUME OfficeInv, NEW agent \in Agent, NEW mode \in {"assist", "todo"}, NEW due \in BOOLEAN,
         Create(agent, mode, due)
  PROVE  OfficeInv'
<1> DEFINE t == CHOOSE u \in Task : officeTask[u] = NoOfficeTask
           new == [agent |-> agent, mode |-> mode, state |-> "queued", due |-> due]
<1>1. /\ OfficeRequest /\ UNCHANGED <<officeProcess, active, calls, retries>> /\ Drained
      /\ Len(order) < MaxTasks /\ t \in Task /\ officeTask[t] = NoOfficeTask
      /\ officeTask' = [officeTask EXCEPT ![t] = new] /\ order' = Append(order, t)
  BY DEF Create
<1> HIDE DEF t
<1>2. /\ OfficeTypeOK /\ ListOK /\ CallsOK /\ retries \in 0..MaxRetries
      /\ \A u \in Task : officeTask[u].state = "running" <=> active[u] = "calling"
      /\ active \in [Task -> {"none", "calling", "aborted"}]
      /\ officeTask \in [Task -> Row \cup {NoOfficeTask, Deleted}]
  BY <1>1, AtRest DEF OfficeInv, OfficeTypeOK
<1>3. new \in Row /\ new.state = "queued" /\ new \notin {NoOfficeTask, Deleted}
  BY DEF Row, State, NoOfficeTask, Deleted
<1> HIDE DEF new
<1>4. /\ officeTask' \in [Task -> Row \cup {NoOfficeTask, Deleted}]
      /\ officeTask'[t] = new /\ \A u \in Task \ {t} : officeTask'[u] = officeTask[u]
  BY <1>1, <1>2, <1>3
<1>5. t \notin InOffice /\ InOffice' = InOffice \cup {t}
  BY <1>1, <1>3, <1>4 DEF InOffice
<1>6. ListOK'
  <2>1. order \in Seq(Task) /\ IsInjective(order) /\ t \notin ToSet(order) /\ Len(order) \in Nat
    BY <1>2, <1>5 DEF ListOK
  <2>2. /\ order' \in Seq(Task) /\ IsInjective(order')
        /\ ToSet(order') = ToSet(order) \cup {t} /\ Len(order') = Len(order) + 1
    BY <1>1, <2>1, ListAppends
  <2>3. Len(order) + 1 <= MaxTasks
    BY <1>1, <2>1, OfficeAssumption
  <2>4. ToSet(order)' = ToSet(order') /\ IsInjective(order)' = IsInjective(order')
    BY DEF ToSet, IsInjective
  <2> QED
    BY <1>2, <1>5, <2>2, <2>3, <2>4 DEF ListOK
<1>7. officeTask[t].state = "absent" /\ active[t] # "calling"
  BY <1>1, <1>2 DEF NoOfficeTask
<1>8. CallsOK' /\ Active' = Active
  BY <1>1, <1>2, <1>3, <1>4, <1>7 DEF CallsOK, Active
<1>9. /\ \A u \in Task : officeTask'[u].state = "running" <=> active'[u] = "calling"
      /\ \A u \in Task : active'[u] = "calling" =>
                           active[u] = "calling" /\ officeTask'[u].agent = officeTask[u].agent
  BY <1>1, <1>2, <1>3, <1>4, <1>7
<1>10. QED
  BY <1>1, <1>2, <1>4, <1>6, <1>8, <1>9, RequestKeeps

\* delete takes row and id, of a task that no call is made for.
LEMMA DeleteKeeps ==
  ASSUME OfficeInv, NEW t \in Task, Delete(t)
  PROVE  OfficeInv'
<1> DEFINE at == CHOOSE i \in DOMAIN order : order[i] = t
<1>1. /\ OfficeRequest /\ t \in InOffice /\ officeTask[t].state # "running"
      /\ officeTask' = [officeTask EXCEPT ![t] = Deleted] /\ order' = RemoveAt(order, at)
      /\ UNCHANGED <<officeProcess, active, officeTodo, calls, retries>> /\ officeTodo = {}
  BY DEF Delete, OfficeRequest, OfficeQuiet
<1>2. /\ OfficeTypeOK /\ ListOK /\ CallsOK /\ retries \in 0..MaxRetries
      /\ \A u \in Task : officeTask[u].state = "running" <=> active[u] = "calling"
      /\ active \in [Task -> {"none", "calling", "aborted"}]
      /\ officeTask \in [Task -> Row \cup {NoOfficeTask, Deleted}]
  BY <1>1, AtRest DEF OfficeInv, OfficeTypeOK
<1>3. /\ officeTask' \in [Task -> Row \cup {NoOfficeTask, Deleted}]
      /\ officeTask'[t] = Deleted /\ \A u \in Task \ {t} : officeTask'[u] = officeTask[u]
      /\ Deleted.state = "deleted"
  BY <1>1, <1>2 DEF Deleted
<1>4. InOffice' = InOffice \ {t}
  BY <1>3 DEF InOffice
<1>5. ListOK'
  <2>1. order \in Seq(Task) /\ IsInjective(order) /\ t \in ToSet(order) /\ Len(order) \in Nat
    BY <1>1, <1>2 DEF ListOK
  <2>2. at \in DOMAIN order /\ order[at] = t
    BY <2>1 DEF ToSet
  <2> HIDE DEF at
  <2>3. /\ order' \in Seq(Task) /\ IsInjective(order')
        /\ ToSet(order') = ToSet(order) \ {t} /\ Len(order') = Len(order) - 1
    BY <1>1, <2>1, <2>2, ListRemoves
  <2>4. ToSet(order)' = ToSet(order') /\ IsInjective(order)' = IsInjective(order')
    BY DEF ToSet, IsInjective
  <2>5. Len(order) <= MaxTasks => Len(order) - 1 <= MaxTasks
    BY <2>1, OfficeAssumption
  <2> QED
    BY <1>2, <1>4, <2>3, <2>4, <2>5 DEF ListOK
<1>6. CallsOK' /\ Active' = Active
  BY <1>1, <1>2, <1>3 DEF CallsOK, Active
<1>7. /\ \A u \in Task : officeTask'[u].state = "running" <=> active'[u] = "calling"
      /\ \A u \in Task : active'[u] = "calling" =>
                           active[u] = "calling" /\ officeTask'[u].agent = officeTask[u].agent
  BY <1>1, <1>2, <1>3
<1>8. QED
  BY <1>1, <1>2, <1>3, <1>5, <1>6, <1>7, RequestKeeps

\* A task becomes due.
LEMMA BecomesDueKeeps ==
  ASSUME OfficeInv, NEW t \in Task, BecomesDue(t)
  PROVE  OfficeInv'
<1> DEFINE new == [agent |-> officeTask[t].agent, mode |-> officeTask[t].mode,
                   state |-> officeTask[t].state, due |-> TRUE]
<1>1. /\ t \in InOffice /\ officeTask' = [officeTask EXCEPT ![t].due = TRUE]
      /\ UNCHANGED <<officeProcess, order, active, officeTodo, calls, retries>> /\ officeTodo = {}
      /\ OfficeInv /\ OfficeTypeOK /\ officeTask \in [Task -> Row \cup {NoOfficeTask, Deleted}]
  BY DEF BecomesDue, OfficeQuiet, OfficeInv, OfficeTypeOK
<1>2. officeTask[t] \in Row /\ officeTask[t].state \in State
  BY <1>1, RowStates
<1>3. officeTask'[t] = new
  BY <1>1, <1>2, ZenonT(30) DEF Row
<1>4. /\ new \in Row /\ new.state = officeTask[t].state /\ new.agent = officeTask[t].agent
      /\ new.state \in State
  BY <1>2 DEF Row
<1> HIDE DEF new
<1>5. new \notin {NoOfficeTask, Deleted}
  <2>1. NoOfficeTask.state = "absent" /\ Deleted.state = "deleted"
    BY DEF NoOfficeTask, Deleted
  <2>2. "absent" \notin State /\ "deleted" \notin State
    BY DEF State
  <2> QED BY <1>4, <2>1, <2>2
<1>6. /\ officeTask' \in [Task -> Row \cup {NoOfficeTask, Deleted}]
      /\ \A u \in Task \ {t} : officeTask'[u] = officeTask[u]
  <2>1. officeTask' = [officeTask EXCEPT ![t] = new]
    BY <1>1, <1>3
  <2> QED BY <1>1, <1>4, <2>1
<1>7. InOffice' = InOffice
  BY <1>1, <1>3, <1>5, <1>6 DEF InOffice
<1>8. \A u \in Task : /\ officeTask'[u].state = officeTask[u].state
                      /\ officeTask'[u].agent = officeTask[u].agent
  BY <1>3, <1>4, <1>6
<1>9. OfficeTypeOK' /\ IsFiniteSet(Active)' /\ (officeProcess = "down" => Active = {})'
  <2>1. ToSet(order)' = ToSet(order) /\ IsInjective(order)' = IsInjective(order) /\ Active' = Active
    BY <1>1 DEF ToSet, IsInjective, Active
  <2> QED BY <1>1, <1>6, <1>7, <2>1 DEF OfficeInv, OfficeTypeOK
<1>10. RunningIsCalled' /\ CallsAreBounded'
  <2>1. Active' = Active
    BY <1>1 DEF Active
  <2> QED BY <1>1, <1>8, <2>1 DEF OfficeInv, RunningIsCalled, CallsAreBounded
<1>11. CallsOK' /\ TodoIsComplete'
  BY <1>1, <1>8 DEF OfficeInv, CallsOK, TodoIsComplete
<1>12. QED
  BY <1>1, <1>9, <1>10, <1>11 DEF OfficeInv

\* What a drain comes to next is the oldest of what it has still to look at.
LEMMA NextIsOldest ==
  ASSUME order \in Seq(Task), officeTodo \subseteq ToSet(order), officeTodo # {}
  PROVE  \E i \in DOMAIN order : /\ order[i] = NextTask /\ NextTask \in officeTodo
                                 /\ \A j \in DOMAIN order : order[j] \in officeTodo => i <= j
<1> DEFINE S == {i \in DOMAIN order : order[i] \in officeTodo}
<1>1. S \in SUBSET Nat /\ S # {}
  BY DEF ToSet
<1>2. \E i \in S : \A j \in S : i <= j
  <2> HIDE DEF S
  <2> QED BY <1>1, LeastOf
<1>3. \E i \in DOMAIN order : /\ order[i] \in officeTodo
                              /\ \A j \in DOMAIN order : order[j] \in officeTodo => i <= j
  BY <1>2
<1> DEFINE at == CHOOSE i \in DOMAIN order :
                   /\ order[i] \in officeTodo
                   /\ \A j \in DOMAIN order : order[j] \in officeTodo => i <= j
<1>4. /\ at \in DOMAIN order /\ order[at] \in officeTodo
      /\ \A j \in DOMAIN order : order[j] \in officeTodo => at <= j
  BY <1>3, Zenon
<1>5. NextTask = order[at]
  BY Zenon DEF NextTask
<1> HIDE DEF at
<1>6. QED
  BY <1>4, <1>5

\* The timer starts a drain with all that may start.
LEMMA TimerKeeps ==
  ASSUME OfficeInv, Timer
  PROVE  OfficeInv'
<1>1. /\ officeProcess = "up" /\ officeTodo' = {t \in ToSet(order) : MayStart(officeTask, t)}
      /\ UNCHANGED <<officeProcess, officeTask, order, active, calls, retries>>
      /\ OfficeTypeOK /\ OfficeInv
  BY DEF Timer, OfficeSnapshot, OfficeInv
<1>2. \A t \in Task : Runnable(t) => t \in ToSet(order)
  <2> SUFFICES ASSUME NEW t \in Task, Runnable(t) PROVE t \in InOffice
    BY <1>1 DEF OfficeTypeOK
  <2>1. officeTask[t].state = "queued" /\ "queued" \in State
    BY DEF Runnable, MayStart, State
  <2> QED BY <1>1, <2>1, RowStates
<1>3. TodoIsComplete'
  BY <1>1, <1>2 DEF TodoIsComplete, Runnable, MayStart
<1>4. ToSet(order)' = ToSet(order) /\ IsInjective(order)' = IsInjective(order) /\ Active' = Active
      /\ InOffice' = InOffice
  BY <1>1 DEF ToSet, IsInjective, Active, InOffice
<1>5. OfficeTypeOK'
  BY <1>1, <1>4 DEF OfficeTypeOK
<1>6. RunningIsCalled' /\ CallsAreBounded' /\ CallsOK'
  BY <1>1, <1>4 DEF OfficeInv, RunningIsCalled, CallsAreBounded, CallsOK
<1>7. QED
  BY <1>1, <1>3, <1>4, <1>5, <1>6 DEF OfficeInv

\* The loop returns, or passes a task that may not start.
LEMMA PassesKeep ==
  ASSUME OfficeInv, OfficeDrainEnds \/ Skip
  PROVE  OfficeInv'
<1>1. /\ UNCHANGED <<officeProcess, officeTask, order, active, calls, retries>>
      /\ officeTodo # {} /\ OfficeTypeOK /\ OfficeInv
      /\ officeTodo' = {} \/ (officeTodo' = officeTodo \ {NextTask} /\ ~Runnable(NextTask))
  BY DEF OfficeDrainEnds, Skip, DrainNext, OfficeInv
<1>2. ToSet(order)' = ToSet(order) /\ IsInjective(order)' = IsInjective(order) /\ Active' = Active
      /\ InOffice' = InOffice /\ \A t \in Task : Runnable(t)' = Runnable(t)
  BY <1>1 DEF ToSet, IsInjective, Active, InOffice, Runnable, MayStart
<1>3. TodoIsComplete'
  BY <1>1, <1>2 DEF OfficeInv, TodoIsComplete
<1>4. OfficeTypeOK'
  BY <1>1, <1>2 DEF OfficeTypeOK
<1>5. RunningIsCalled' /\ CallsAreBounded' /\ CallsOK'
  BY <1>1, <1>2 DEF OfficeInv, RunningIsCalled, CallsAreBounded, CallsOK
<1>6. QED
  BY <1>1, <1>2, <1>3, <1>4, <1>5 DEF OfficeInv

\* What is known when the drain starts a task.
LEMMA AtStart ==
  ASSUME OfficeInv, DrainNext, Runnable(NextTask)
  PROVE  /\ NextTask \in InOffice /\ NextTask \in Task /\ NextTask \in officeTodo
         /\ active[NextTask] = "none" /\ officeTask[NextTask].state = "queued"
         /\ officeProcess \in {"up", "dying"} /\ Cardinality(Active) < MaxActive
         /\ \A u \in Task : officeTask[u].agent = officeTask[NextTask].agent =>
                              officeTask[u].state # "running"
<1>1. OfficeTypeOK /\ order \in Seq(Task) /\ officeTodo # {} /\ officeTodo \subseteq ToSet(order)
      /\ officeProcess \in {"up", "dying"} /\ Cardinality(Active) < MaxActive
  BY DEF OfficeInv, OfficeTypeOK, DrainNext, TodoIsComplete
<1>2. NextTask \in officeTodo
  BY <1>1, NextIsOldest
<1>3. NextTask \in InOffice
  BY <1>1, <1>2 DEF OfficeTypeOK
<1>4. QED
  BY <1>1, <1>2, <1>3 DEF InOffice, Runnable, MayStart

\* The entry of a started run is one more.
LEMMA OneMoreActive ==
  ASSUME IsFiniteSet(Active), active \in [Task -> {"none", "calling", "aborted"}],
         NEW t \in Task, active[t] = "none", active' = [active EXCEPT ![t] = "calling"]
  PROVE  /\ Active' = Active \cup {t} /\ IsFiniteSet(Active')
         /\ Cardinality(Active) \in Nat /\ Cardinality(Active') = Cardinality(Active) + 1
         /\ active' \in [Task -> {"none", "calling", "aborted"}]
<1>1. /\ active' \in [Task -> {"none", "calling", "aborted"}] /\ active'[t] = "calling"
      /\ \A u \in Task \ {t} : active'[u] = active[u]
  OBVIOUS
<1>2. Active' = Active \cup {t} /\ t \notin Active
  BY <1>1 DEF Active
<1>3. QED
  BY <1>1, <1>2, FS_AddElement, FS_CardinalityType

\* The run starts: its agent had none, and there was room.
LEMMA StartKeeps ==
  ASSUME OfficeInv, StartRun
  PROVE  OfficeInv'
<1> DEFINE t == NextTask
<1>1. /\ DrainNext /\ Runnable(t) /\ active' = [active EXCEPT ![t] = "calling"]
      /\ officeTask' = [officeTask EXCEPT ![t].state = "running"]
      /\ calls' = [calls EXCEPT ![t] = calls[t] + 1]
      /\ UNCHANGED <<officeProcess, order, retries>> /\ officeTodo' = officeTodo \ {t}
  BY DEF StartRun, DrainNext
<1>2. /\ t \in InOffice /\ t \in Task /\ active[t] = "none" /\ officeTask[t].state = "queued"
      /\ officeProcess \in {"up", "dying"} /\ Cardinality(Active) < MaxActive /\ officeTodo # {}
      /\ \A u \in Task : officeTask[u].agent = officeTask[t].agent => officeTask[u].state # "running"
  BY <1>1, AtStart DEF DrainNext
<1> HIDE DEF t
<1>3. /\ OfficeTypeOK /\ order \in Seq(Task) /\ IsFiniteSet(Active) /\ CallsOK /\ TodoIsComplete
      /\ RunningIsCalled /\ CallsAreBounded
      /\ active \in [Task -> {"none", "calling", "aborted"}]
  BY DEF OfficeInv, OfficeTypeOK
<1>4. /\ officeTask' \in [Task -> Row \cup {NoOfficeTask, Deleted}]
      /\ officeTask'[t].state = "running" /\ officeTask'[t].agent = officeTask[t].agent
      /\ \A u \in Task \ {t} : officeTask'[u] = officeTask[u]
      /\ InOffice' = InOffice
  <2>1. "running" \in State
    BY DEF State
  <2> QED BY <1>1, <1>2, <1>3, <2>1, StateChanges
<1>5. /\ active' \in [Task -> {"none", "calling", "aborted"}] /\ active'[t] = "calling"
      /\ \A u \in Task \ {t} : active'[u] = active[u]
      /\ IsFiniteSet(Active') /\ Cardinality(Active') <= MaxActive
  <2>1. /\ IsFiniteSet(Active') /\ active' \in [Task -> {"none", "calling", "aborted"}]
        /\ Cardinality(Active) \in Nat /\ Cardinality(Active') = Cardinality(Active) + 1
    BY <1>1, <1>2, <1>3, OneMoreActive
  <2>2. Cardinality(Active') <= MaxActive
    BY <1>2, <2>1, OfficeAssumption
  <2>3. active'[t] = "calling" /\ \A u \in Task \ {t} : active'[u] = active[u]
    BY <1>1, <1>2, <1>3
  <2> QED BY <2>1, <2>2, <2>3
<1>6. OfficeTypeOK'
  <2>1. ToSet(order)' = ToSet(order) /\ IsInjective(order)' = IsInjective(order)
    BY <1>1 DEF ToSet, IsInjective
  <2> QED BY <1>1, <1>3, <1>4, <1>5, <2>1 DEF OfficeTypeOK
<1>7. RunningIsCalled'
  BY <1>1, <1>2, <1>3, <1>4, <1>5 DEF RunningIsCalled
<1>8. CallsAreBounded'
  <2> SUFFICES ASSUME officeProcess = "up", NEW u \in Task, NEW v \in Task,
                      active'[u] = "calling", active'[v] = "calling",
                      officeTask'[u].agent = officeTask'[v].agent
               PROVE  u = v
    BY <1>1, <1>2, <1>5 DEF CallsAreBounded
  <2>1. ASSUME NEW w \in Task, w # t, active'[w] = "calling", officeTask'[w].agent = officeTask'[t].agent
        PROVE  FALSE
    BY <1>2, <1>3, <1>4, <1>5, <2>1 DEF RunningIsCalled
  <2>2. u = t \/ v = t => u = v
    BY <2>1
  <2>3. u # t /\ v # t => u = v
    BY <1>3, <1>4, <1>5 DEF CallsAreBounded
  <2> QED BY <2>2, <2>3
<1>9. CallsOK'
  <2>1. calls \in [Task -> Nat] /\ calls[t] = 0
    BY <1>2, <1>3 DEF CallsOK
  <2>2. calls' \in [Task -> Nat] /\ calls'[t] = 1 /\ \A u \in Task \ {t} : calls'[u] = calls[u]
    BY <1>1, <1>2, <2>1
  <2> QED BY <1>3, <1>4, <2>2 DEF CallsOK
<1>10. TodoIsComplete'
  <2>1. ASSUME NEW u \in Task, Runnable(u)' PROVE u # t /\ Runnable(u)
    BY <1>2, <1>4, <1>5, <2>1 DEF Runnable, MayStart
  <2> QED BY <1>1, <1>2, <1>3, <2>1 DEF TodoIsComplete
<1>11. QED
  BY <1>1, <1>2, <1>3, <1>5, <1>6, <1>7, <1>8, <1>9, <1>10 DEF OfficeInv

\* The save of the start fails: the entry stays and the process will end.
LEMMA StartFailsKeeps ==
  ASSUME OfficeInv, StartFails
  PROVE  OfficeInv'
<1> DEFINE t == NextTask
<1>1. /\ DrainNext /\ Runnable(t) /\ active' = [active EXCEPT ![t] = "calling"]
      /\ officeProcess' = "dying" /\ officeTodo' = officeTodo \ {t}
      /\ UNCHANGED <<officeTask, order, calls, retries>>
  BY DEF StartFails, DrainNext
<1>2. t \in Task /\ active[t] = "none" /\ officeTodo # {}
  BY <1>1, AtStart DEF DrainNext
<1> HIDE DEF t
<1>3. /\ OfficeTypeOK /\ order \in Seq(Task) /\ IsFiniteSet(Active) /\ CallsOK /\ TodoIsComplete
      /\ active \in [Task -> {"none", "calling", "aborted"}]
  BY DEF OfficeInv, OfficeTypeOK
<1>4. /\ active' \in [Task -> {"none", "calling", "aborted"}] /\ active'[t] = "calling"
      /\ \A u \in Task \ {t} : active'[u] = active[u] /\ IsFiniteSet(Active')
  BY <1>1, <1>2, <1>3, OneMoreActive
<1>5. OfficeTypeOK' /\ IsFiniteSet(Active')
  <2>1. ToSet(order)' = ToSet(order) /\ IsInjective(order)' = IsInjective(order) /\ InOffice' = InOffice
    BY <1>1 DEF ToSet, IsInjective, InOffice
  <2>2. IsFiniteSet(Active')
    BY <1>1, <1>2, <1>3, OneMoreActive
  <2> QED BY <1>1, <1>3, <1>4, <2>1, <2>2 DEF OfficeTypeOK
<1>6. RunningIsCalled' /\ CallsAreBounded' /\ CallsOK'
  BY <1>1, <1>3 DEF RunningIsCalled, CallsAreBounded, CallsOK
<1>7. TodoIsComplete'
  <2>1. ASSUME NEW u \in Task, Runnable(u)' PROVE u # t /\ Runnable(u)
    BY <1>1, <1>2, <1>4, <2>1 DEF Runnable, MayStart
  <2> QED BY <1>1, <1>2, <1>3, <2>1 DEF TodoIsComplete
<1>8. QED
  BY <1>1, <1>3, <1>5, <1>6, <1>7 DEF OfficeInv

\* An entry is deleted: its call is over, however it ended.
LEMMA OneLessActive ==
  ASSUME IsFiniteSet(Active), active \in [Task -> {"none", "calling", "aborted"}],
         NEW t \in Task, active' = [active EXCEPT ![t] = "none"]
  PROVE  /\ active' \in [Task -> {"none", "calling", "aborted"}] /\ active'[t] = "none"
         /\ \A u \in Task \ {t} : active'[u] = active[u]
         /\ IsFiniteSet(Active') /\ Active' \subseteq Active
         /\ \A n \in Int : Cardinality(Active) <= n => Cardinality(Active') <= n
<1>1. /\ active' \in [Task -> {"none", "calling", "aborted"}] /\ active'[t] = "none"
      /\ \A u \in Task \ {t} : active'[u] = active[u]
  OBVIOUS
<1>2. Active' \subseteq Active
  BY <1>1 DEF Active
<1>3. IsFiniteSet(Active') /\ Cardinality(Active') <= Cardinality(Active)
  BY <1>2, FS_Subset
<1>4. Cardinality(Active') \in Nat /\ Cardinality(Active) \in Nat
  BY <1>3, FS_CardinalityType
<1>5. QED
  BY <1>1, <1>2, <1>3, <1>4

\* A call is answered, or fails, and its outcome is saved.
LEMMA RunEndsKeeps ==
  ASSUME OfficeInv, NEW t \in Task, NEW outcome \in Outcome, RunEnds(t, outcome)
  PROVE  OfficeInv'
<1>1. /\ officeProcess = "up" /\ active[t] = "calling" /\ officeTodo = {}
      /\ officeTask' = [officeTask EXCEPT ![t].state = outcome]
      /\ active' = [active EXCEPT ![t] = "none"]
      /\ UNCHANGED <<officeProcess, order, officeTodo, calls, retries>>
      /\ outcome \in State /\ outcome \notin {"running", "queued", "absent"}
  BY DEF RunEnds, OfficeQuiet, Outcome, State
<1>2. /\ OfficeTypeOK /\ order \in Seq(Task) /\ IsFiniteSet(Active) /\ CallsOK
      /\ RunningIsCalled /\ CallsAreBounded
      /\ active \in [Task -> {"none", "calling", "aborted"}]
  BY DEF OfficeInv, OfficeTypeOK
<1>3. t \in InOffice
  <2>1. officeTask[t].state = "running" /\ "running" \in State
    BY <1>1, <1>2 DEF RunningIsCalled, State
  <2> QED BY <1>2, <2>1, RowStates
<1>4. /\ officeTask' \in [Task -> Row \cup {NoOfficeTask, Deleted}]
      /\ officeTask'[t].state = outcome /\ officeTask'[t].agent = officeTask[t].agent
      /\ \A u \in Task \ {t} : officeTask'[u] = officeTask[u]
      /\ InOffice' = InOffice
  BY <1>1, <1>2, <1>3, StateChanges
<1>5. /\ active' \in [Task -> {"none", "calling", "aborted"}] /\ active'[t] = "none"
      /\ \A u \in Task \ {t} : active'[u] = active[u]
      /\ IsFiniteSet(Active')
      /\ \A n \in Int : Cardinality(Active) <= n => Cardinality(Active') <= n
  BY <1>1, <1>2, OneLessActive
<1>6. OfficeTypeOK'
  <2>1. ToSet(order)' = ToSet(order) /\ IsInjective(order)' = IsInjective(order)
    BY <1>1 DEF ToSet, IsInjective
  <2> QED BY <1>1, <1>2, <1>4, <1>5, <2>1 DEF OfficeTypeOK
<1>7. RunningIsCalled'
  BY <1>1, <1>2, <1>4, <1>5 DEF RunningIsCalled
<1>8. CallsAreBounded'
  <2>1. Cardinality(Active) <= MaxActive /\ MaxActive \in Int
    BY <1>1, <1>2, OfficeAssumption DEF CallsAreBounded
  <2>2. Cardinality(Active') <= MaxActive
    BY <1>5, <2>1
  <2>3. \A u \in Task : active'[u] = "calling" =>
          active[u] = "calling" /\ officeTask'[u].agent = officeTask[u].agent
    BY <1>4, <1>5
  <2> QED BY <1>1, <1>2, <2>2, <2>3 DEF CallsAreBounded
<1>9. CallsOK' /\ TodoIsComplete'
  BY <1>1, <1>2, <1>4 DEF CallsOK, TodoIsComplete
<1>10. QED
  BY <1>1, <1>2, <1>5, <1>6, <1>7, <1>8, <1>9 DEF OfficeInv

\* The end of a run is not saved, which ends the process.
LEMMA RunEndsUnsavedKeeps ==
  ASSUME OfficeInv, NEW t \in Task, RunEndsUnsaved(t)
  PROVE  OfficeInv'
<1>1. /\ officeProcess' = "dying" /\ officeTodo = {}
      /\ active' = [active EXCEPT ![t] = "none"]
      /\ UNCHANGED <<officeTask, order, officeTodo, calls, retries>>
  BY DEF RunEndsUnsaved, OfficeQuiet
<1>2. /\ OfficeTypeOK /\ order \in Seq(Task) /\ IsFiniteSet(Active) /\ CallsOK
      /\ active \in [Task -> {"none", "calling", "aborted"}]
  BY DEF OfficeInv, OfficeTypeOK
<1>3. active' \in [Task -> {"none", "calling", "aborted"}] /\ IsFiniteSet(Active')
  BY <1>1, <1>2, OneLessActive
<1>4. OfficeTypeOK'
  <2>1. ToSet(order)' = ToSet(order) /\ IsInjective(order)' = IsInjective(order) /\ InOffice' = InOffice
    BY <1>1 DEF ToSet, IsInjective, InOffice
  <2> QED BY <1>1, <1>2, <1>3, <2>1 DEF OfficeTypeOK
<1>5. RunningIsCalled' /\ CallsAreBounded' /\ CallsOK' /\ TodoIsComplete'
  BY <1>1, <1>2 DEF RunningIsCalled, CallsAreBounded, CallsOK, TodoIsComplete
<1>6. QED
  BY <1>1, <1>2, <1>3, <1>4, <1>5 DEF OfficeInv

\* An aborted call has ended: its task is left as it is.
LEMMA UnwindKeeps ==
  ASSUME OfficeInv, NEW t \in Task, Unwind(t)
  PROVE  OfficeInv'
<1>1. /\ active[t] = "aborted" /\ officeTodo = {} /\ active' = [active EXCEPT ![t] = "none"]
      /\ UNCHANGED <<officeProcess, officeTask, order, officeTodo, calls, retries>>
  BY DEF Unwind
<1>2. /\ OfficeTypeOK /\ order \in Seq(Task) /\ IsFiniteSet(Active) /\ CallsOK
      /\ RunningIsCalled /\ CallsAreBounded
      /\ officeProcess = "down" => Active = {}
      /\ active \in [Task -> {"none", "calling", "aborted"}]
  BY DEF OfficeInv, OfficeTypeOK
<1>3. /\ active' \in [Task -> {"none", "calling", "aborted"}] /\ active'[t] = "none"
      /\ \A u \in Task \ {t} : active'[u] = active[u]
      /\ IsFiniteSet(Active') /\ Active' \subseteq Active
      /\ \A n \in Int : Cardinality(Active) <= n => Cardinality(Active') <= n
  BY <1>1, <1>2, OneLessActive
<1>4. OfficeTypeOK'
  <2>1. ToSet(order)' = ToSet(order) /\ IsInjective(order)' = IsInjective(order) /\ InOffice' = InOffice
    BY <1>1 DEF ToSet, IsInjective, InOffice
  <2> QED BY <1>1, <1>2, <1>3, <2>1 DEF OfficeTypeOK
<1>5. \A u \in Task : active'[u] = "calling" <=> active[u] = "calling"
  BY <1>1, <1>3
<1>6. RunningIsCalled' /\ CallsOK' /\ TodoIsComplete'
  BY <1>1, <1>2, <1>5 DEF RunningIsCalled, CallsOK, TodoIsComplete
<1>7. CallsAreBounded'
  <2>1. officeProcess \in {"up", "stopping"} => Cardinality(Active) <= MaxActive /\ MaxActive \in Int
    BY <1>2, OfficeAssumption DEF CallsAreBounded
  <2>2. officeProcess \in {"up", "stopping"} => Cardinality(Active') <= MaxActive
    BY <1>3, <2>1
  <2> QED BY <1>1, <1>2, <1>5, <2>2 DEF CallsAreBounded
<1>8. QED
  BY <1>1, <1>2, <1>3, <1>4, <1>6, <1>7 DEF OfficeInv

\* Some rows become interrupted, all of them of the office.
LEMMA InterruptedRows ==
  ASSUME OfficeTypeOK, NEW ids \in SUBSET InOffice, officeTask' = Interrupted(officeTask, ids)
  PROVE  /\ officeTask' \in [Task -> Row \cup {NoOfficeTask, Deleted}] /\ InOffice' = InOffice
         /\ \A t \in ids : officeTask'[t].state = "interrupted"
         /\ \A t \in Task \ ids : officeTask'[t] = officeTask[t]
<1>1. officeTask \in [Task -> Row \cup {NoOfficeTask, Deleted}] /\ InOffice \subseteq Task
  BY DEF OfficeTypeOK, InOffice
<1>2. ASSUME NEW t \in ids
      PROVE  /\ officeTask'[t] \in Row /\ officeTask'[t].state = "interrupted"
             /\ officeTask'[t] \notin {NoOfficeTask, Deleted}
  <2> DEFINE new == [agent |-> officeTask[t].agent, mode |-> officeTask[t].mode,
                     state |-> "interrupted", due |-> officeTask[t].due]
  <2>1. officeTask[t] \in Row /\ t \in Task
    BY <1>1, RowStates
  <2>2. officeTask'[t] = [officeTask[t] EXCEPT !.state = "interrupted"]
    BY <1>1, <2>1 DEF Interrupted
  <2>3. officeTask'[t] = new
    BY <2>1, <2>2, ZenonT(30) DEF Row
  <2>4. new \in Row /\ new.state = "interrupted"
    BY <2>1 DEF Row, State
  <2> HIDE DEF new
  <2>5. NoOfficeTask.state = "absent" /\ Deleted.state = "deleted"
    BY DEF NoOfficeTask, Deleted
  <2> QED BY <2>3, <2>4, <2>5
<1>3. ASSUME NEW t \in Task \ ids PROVE officeTask'[t] = officeTask[t]
  BY <1>3 DEF Interrupted
<1>4. DOMAIN officeTask' = Task /\ officeTask' = [t \in Task |-> officeTask'[t]]
  BY DEF Interrupted
<1>5. officeTask' \in [Task -> Row \cup {NoOfficeTask, Deleted}]
  <2>1. \A t \in Task : officeTask'[t] \in Row \cup {NoOfficeTask, Deleted}
    BY <1>1, <1>2, <1>3
  <2> QED BY <1>4, <2>1
<1>6. InOffice' = InOffice
  BY <1>1, <1>2, <1>3 DEF InOffice
<1>7. QED
  BY <1>2, <1>3, <1>5, <1>6

\* Whatever is called or was aborted is still in the office: what the invariant
\* has to say for the rows of shutdown to be rows of tasks.
LEMMA RowsOfActive ==
  ASSUME OfficeInv, officeProcess = "up", \A t \in Task : active[t] # "aborted"
  PROVE  Active \subseteq InOffice
<1>1. OfficeTypeOK /\ RunningIsCalled /\ active \in [Task -> {"none", "calling", "aborted"}]
  BY DEF OfficeInv, OfficeTypeOK
<1> SUFFICES ASSUME NEW t \in Task, active[t] # "none" PROVE t \in InOffice
  BY DEF Active
<1>2. officeTask[t].state = "running" /\ "running" \in State
  BY <1>1 DEF RunningIsCalled, State
<1>3. QED
  BY <1>1, <1>2, RowStates

\* What is needed when every entry is gone or aborted and some rows were interrupted.
LEMMA StopsKeep ==
  ASSUME OfficeInv, NEW ids \in SUBSET InOffice, officeTask' = Interrupted(officeTask, ids),
         UNCHANGED <<order, calls, retries>>, officeTodo' = {},
         officeProcess' \in {"up", "stopping", "dying", "down"},
         active' \in [Task -> {"none", "aborted"}], Active' \subseteq Active,
         officeProcess' = "down" => Active' = {},
         officeProcess' \in {"up", "stopping"} =>
           /\ Cardinality(Active) <= MaxActive
           /\ \A t \in Task : officeTask[t].state = "running" => t \in ids
  PROVE  OfficeInv'
<1>1. /\ OfficeTypeOK /\ order \in Seq(Task) /\ IsFiniteSet(Active) /\ CallsOK
  BY DEF OfficeInv
<1>2. /\ officeTask' \in [Task -> Row \cup {NoOfficeTask, Deleted}] /\ InOffice' = InOffice
      /\ \A t \in ids : officeTask'[t].state = "interrupted"
      /\ \A t \in Task \ ids : officeTask'[t] = officeTask[t]
  BY <1>1, InterruptedRows
<1>3. OfficeTypeOK'
  <2>1. ToSet(order)' = ToSet(order) /\ IsInjective(order)' = IsInjective(order)
    BY DEF ToSet, IsInjective
  <2> QED BY <1>1, <1>2, <2>1 DEF OfficeTypeOK
<1>4. IsFiniteSet(Active)' /\ Cardinality(Active') <= Cardinality(Active)
      /\ Cardinality(Active') \in Nat /\ Cardinality(Active) \in Nat
  <2>1. IsFiniteSet(Active') /\ Cardinality(Active') <= Cardinality(Active)
    BY <1>1, FS_Subset
  <2> QED BY <1>1, <2>1, FS_CardinalityType
<1>5. RunningIsCalled'
  BY <1>2 DEF RunningIsCalled
<1>6. CallsAreBounded'
  <2>1. officeProcess' \in {"up", "stopping"} => Cardinality(Active') <= MaxActive
    BY <1>4, OfficeAssumption
  <2>2. \A t \in Task : active'[t] # "calling"
    OBVIOUS
  <2> QED BY <2>1, <2>2 DEF CallsAreBounded
<1>7. CallsOK' /\ TodoIsComplete'
  BY <1>1, <1>2 DEF CallsOK, TodoIsComplete
<1>8. QED
  BY <1>1, <1>3, <1>4, <1>5, <1>6, <1>7 DEF OfficeInv

\* shutdown.
LEMMA ShutdownKeeps ==
  ASSUME OfficeInv, Shutdown
  PROVE  OfficeInv'
<1>1. /\ officeProcess = "up" /\ officeProcess' = "stopping" /\ officeTodo' = {}
      /\ \A t \in Task : active[t] # "aborted"
      /\ officeTask' = Interrupted(officeTask, Active)
      /\ active' = [t \in Task |-> IF t \in Active THEN "aborted" ELSE "none"]
      /\ UNCHANGED <<order, calls, retries>>
  BY DEF Shutdown, OfficeQuiet
<1>2. Active \subseteq InOffice
  BY <1>1, RowsOfActive
<1>3. active' \in [Task -> {"none", "aborted"}] /\ Active' \subseteq Active
  BY <1>1 DEF Active
<1>4. Cardinality(Active) <= MaxActive /\ \A t \in Task : officeTask[t].state = "running" => t \in Active
  BY <1>1 DEF OfficeInv, RunningIsCalled, CallsAreBounded, Active
<1>5. QED
  BY <1>1, <1>2, <1>3, <1>4, StopsKeep

\* The process ends, of itself or not, with some tasks saved as interrupted or none.
LEMMA EndsKeep ==
  ASSUME OfficeInv, ShutdownFails \/ OfficeStopDone \/ Die \/ OfficeCrash
  PROVE  OfficeInv'
<1>1. OfficeEnds /\ OfficeTypeOK
  BY DEF ShutdownFails, OfficeStopDone, Die, OfficeCrash, OfficeInv
<1>2. /\ officeProcess' = "down" /\ officeTodo' = {} /\ UNCHANGED <<order, calls, retries>>
      /\ active' \in [Task -> {"none", "aborted"}] /\ Active' = {}
  BY <1>1 DEF OfficeEnds, Active
<1>3. \E ids \in SUBSET InOffice : officeTask' = Interrupted(officeTask, ids)
  <2>1. CASE ShutdownFails
    <3>1. officeProcess = "up" /\ \A t \in Task : active[t] # "aborted"
      BY <2>1 DEF ShutdownFails, OfficeQuiet
    <3>2. PICK saved \in SUBSET Active : officeTask' = Interrupted(officeTask, saved)
      BY <2>1 DEF ShutdownFails
    <3> QED BY <3>1, <3>2, RowsOfActive
  <2>2. CASE officeTask' = officeTask
    <3>1. officeTask' = Interrupted(officeTask, {})
      BY <1>1, <2>2 DEF Interrupted, OfficeTypeOK
    <3> QED BY <3>1
  <2> QED BY <2>1, <2>2 DEF OfficeStopDone, Die, OfficeCrash
<1>4. QED
  BY <1>2, <1>3, StopsKeep

\* The next process finds no task running.
LEMMA OfficeRestartKeeps ==
  ASSUME OfficeInv, OfficeRestart
  PROVE  OfficeInv'
<1> DEFINE ids == {t \in Task : officeTask[t].state = "running"}
<1>1. /\ officeProcess = "down" /\ officeProcess' = "up" /\ officeTask' = Interrupted(officeTask, ids)
      /\ UNCHANGED <<order, active, officeTodo, calls, retries>>
  BY DEF OfficeRestart
<1>2. OfficeTypeOK /\ Active = {} /\ officeTodo = {} /\ active \in [Task -> {"none", "calling", "aborted"}]
  BY <1>1 DEF OfficeInv, OfficeTypeOK, TodoIsComplete
<1>3. ids \subseteq InOffice
  <2>1. "running" \in State
    BY DEF State
  <2> QED BY <1>2, <2>1, RowStates
<1>4. active' \in [Task -> {"none", "aborted"}] /\ Active' = {}
  BY <1>1, <1>2 DEF Active
<1>5. Cardinality(Active) <= MaxActive
  BY <1>2, FS_EmptySet, OfficeAssumption
<1> HIDE DEF ids
<1>6. \A t \in Task : officeTask[t].state = "running" => t \in ids
  BY DEF ids
<1>7. QED
  BY <1>1, <1>2, <1>3, <1>4, <1>5, <1>6, StopsKeep

\* The office begins with nothing.
LEMMA OfficeBegins ==
  ASSUME OfficeInit
  PROVE  OfficeInv
<1>1. /\ officeProcess = "up" /\ order = <<>> /\ officeTodo = {}
      /\ officeTask = [t \in Task |-> NoOfficeTask] /\ active = [t \in Task |-> "none"]
      /\ calls = [t \in Task |-> 0] /\ retries = 0
  BY DEF OfficeInit
<1>2. Active = {} /\ InOffice = {} /\ IsFiniteSet(Active) /\ Cardinality(Active) = 0
  BY <1>1, FS_EmptySet DEF Active, InOffice
<1>3. order \in Seq(Task) /\ ToSet(order) = {} /\ IsInjective(order) /\ Len(order) = 0
  BY <1>1 DEF ToSet, IsInjective
<1>4. OfficeTypeOK
  BY <1>1, <1>2, <1>3, OfficeAssumption DEF OfficeTypeOK
<1>5. NoOfficeTask.state = "absent"
  BY DEF NoOfficeTask
<1>6. RunningIsCalled /\ CallsAreBounded
  BY <1>1, <1>2, <1>5, OfficeAssumption DEF RunningIsCalled, CallsAreBounded
<1>7. CallsOK /\ TodoIsComplete
  BY <1>1 DEF CallsOK, TodoIsComplete
<1>8. QED
  BY <1>1, <1>2, <1>3, <1>4, <1>6, <1>7 DEF OfficeInv

\* Every step of the office keeps its invariant.
LEMMA OfficeStep ==
  ASSUME OfficeInv, [OfficeNext]_officeVars
  PROVE  OfficeInv'
<1>1. CASE Timer
  BY <1>1, TimerKeeps
<1>2. CASE Drain
  BY <1>2, PassesKeep, StartKeeps, StartFailsKeeps DEF Drain
<1>3. CASE \E t \in Task, outcome \in Outcome : RunEnds(t, outcome)
  BY <1>3, RunEndsKeeps
<1>4. CASE \E t \in Task : RunEndsUnsaved(t) \/ Unwind(t)
  BY <1>4, RunEndsUnsavedKeeps, UnwindKeeps
<1>5. CASE \E agent \in Agent, mode \in {"assist", "todo"}, due \in BOOLEAN : Create(agent, mode, due)
  BY <1>5, CreateKeeps
<1>6. CASE \E source \in Task, agent \in Agent : Handoff(source, agent)
  BY <1>6, CreateKeeps DEF Handoff
<1>7. CASE \E t \in Task : \/ Complete(t) \/ Cancel(t) \/ Retry(t) \/ Delete(t)
                           \/ BecomesDue(t)
  BY <1>7, CompleteRetryKeep, CancelKeeps, DeleteKeeps, BecomesDueKeeps
<1>8. CASE Shutdown \/ ShutdownFails \/ OfficeStopDone \/ Die \/ OfficeCrash \/ OfficeRestart
  BY <1>8, ShutdownKeeps, EndsKeep, OfficeRestartKeeps
<1>9. CASE UNCHANGED officeVars
  <2>1. UNCHANGED <<officeProcess, officeTask, order, active, officeTodo, calls, retries>>
    BY <1>9 DEF officeVars
  <2>2. /\ ToSet(order)' = ToSet(order) /\ IsInjective(order)' = IsInjective(order)
        /\ Active' = Active /\ InOffice' = InOffice /\ \A t \in Task : Runnable(t)' = Runnable(t)
    BY <2>1 DEF ToSet, IsInjective, Active, InOffice, Runnable, MayStart
  <2>3. OfficeTypeOK'
    BY <2>1, <2>2 DEF OfficeInv, OfficeTypeOK
  <2>4. RunningIsCalled' /\ CallsAreBounded' /\ CallsOK' /\ TodoIsComplete'
    BY <2>1, <2>2 DEF OfficeInv, RunningIsCalled, CallsAreBounded, CallsOK, TodoIsComplete
  <2> QED BY <2>1, <2>2, <2>3, <2>4 DEF OfficeInv
<1>10. QED
  BY <1>1, <1>2, <1>3, <1>4, <1>5, <1>6, <1>7, <1>8, <1>9 DEF OfficeNext

-----------------------------------------------------------------------------
(* The owner's memories *)

\* One element before three.
LEMMA FourInARow ==
  ASSUME NEW a, NEW b, NEW c, NEW d
  PROVE  <<a>> \o <<b, c, d>> = <<a, b, c, d>>
<1> DEFINE S == {a, b, c, d}
           one == <<a>>
           three == <<b, c, d>>
           four == <<a, b, c, d>>
<1>1. one \in Seq(S) /\ Len(one) = 1 /\ one[1] = a
  OBVIOUS
<1>2. three \in Seq(S) /\ Len(three) = 3 /\ three[1] = b /\ three[2] = c /\ three[3] = d
  OBVIOUS
<1>3. four \in Seq(S) /\ Len(four) = 4 /\ four[1] = a /\ four[2] = b /\ four[3] = c /\ four[4] = d
  OBVIOUS
<1> HIDE DEF S, one, three, four
<1>4. one \o three \in Seq(S) /\ Len(one \o three) = 4
      /\ \A i \in 1..4 : (one \o three)[i] = IF i <= 1 THEN one[i] ELSE three[i - 1]
  <2>1. one \o three \in Seq(S) /\ Len(one \o three) = Len(one) + Len(three)
        /\ \A i \in 1..(Len(one) + Len(three)) :
             (one \o three)[i] = IF i <= Len(one) THEN one[i] ELSE three[i - Len(one)]
    BY <1>1, <1>2, ConcatProperties
  <2> QED BY <1>1, <1>2, <2>1
<1>5. \A i \in 1..4 : (one \o three)[i] = four[i]
  <2> SUFFICES ASSUME NEW i \in 1..4 PROVE (one \o three)[i] = four[i]
    OBVIOUS
  <2>1. i = 1 \/ i = 2 \/ i = 3 \/ i = 4
    OBVIOUS
  <2> QED BY <1>1, <1>2, <1>3, <1>4, <2>1
<1>6. one \o three = four
  BY <1>3, <1>4, <1>5, SeqEqual
<1> QED BY <1>6 DEF one, three, four

\* What Head and Tail make of the lists of writes.
LEMMA ShortLists ==
  ASSUME NEW a, NEW b, NEW c, NEW d
  PROVE  /\ Head(<<d>>) = d /\ Tail(<<d>>) = <<>>
         /\ Head(<<c, d>>) = c /\ Tail(<<c, d>>) = <<d>>
         /\ Head(<<b, c, d>>) = b /\ Tail(<<b, c, d>>) = <<c, d>>
         /\ Head(<<a, b, c, d>>) = a /\ Tail(<<a, b, c, d>>) = <<b, c, d>>
         /\ <<>> \notin {<<d>>, <<c, d>>, <<b, c, d>>, <<a, b, c, d>>}
         /\ <<b, c, d>> \notin {<<d>>, <<c, d>>, <<a, b, c, d>>}
<1>1. /\ Head(<<d>>) = d /\ Tail(<<d>>) = <<>>
  OBVIOUS
<1>2. Head(<<c, d>>) = c /\ Tail(<<c, d>>) = <<d>>
  OBVIOUS
<1>3. Head(<<b, c, d>>) = b /\ Tail(<<b, c, d>>) = <<c, d>>
  OBVIOUS
<1>5. Head(<<a, b, c, d>>) = a /\ Tail(<<a, b, c, d>>) = <<b, c, d>>
  OBVIOUS
<1>6. <<>> \notin {<<d>>, <<c, d>>, <<b, c, d>>, <<a, b, c, d>>}
  OBVIOUS
<1>7. <<b, c, d>> \notin {<<d>>, <<c, d>>, <<a, b, c, d>>}
  <2>1. /\ Len(<<b, c, d>>) = 3 /\ Len(<<d>>) = 1 /\ Len(<<c, d>>) = 2
        /\ Len(<<a, b, c, d>>) = 4
    OBVIOUS
  <2> QED BY <2>1
<1>8. QED
  BY <1>1, <1>2, <1>3, <1>5, <1>6, <1>7

\* The memories outside S and those cut short are in the index as they are in their files.
Agree(S) == \A u \in AnyId \ (cut \cup S) : memFile[u] = memIndex[u]

\* An experience that is removed is noted as forgotten.
Forgets(id) == id \in Supervised => id \in forgotten

\* What is left of the call that has the memory in hand, and what it has written.
InHand(id) ==
  \/ \E text \in Text : /\ id \in Supervised => id \in completed
                        /\ effects = Put(id, text)
  \/ \E text \in Text : /\ effects = <<Write("row", id, NoText), Write("row", id, text)>>
                        /\ memFile[id] = text
  \/ \E text \in Text : /\ effects = <<Write("row", id, text)>>
                        /\ memFile[id] = text
  \/ Forgets(id) /\ effects = Removal(id)
  \/ Forgets(id) /\ effects = <<Write("row", id, NoText)>> /\ memFile[id] = NoText
  \/ /\ id \in Supervised \ completed
     /\ effects = <<[write |-> "parent", id |-> id]>> \o Put(id, Experience)

MemTypes ==
  /\ memFile \in [AnyId -> Text \cup {NoText}] /\ memIndex \in [AnyId -> Text \cup {NoText}]
  /\ completed \subseteq Supervised /\ cut \subseteq AnyId /\ forgotten \subseteq Supervised

\* A task that is not completed has no experience, one that is completed has it, or will
\* with the next write, unless it was cut short or forgotten.
Experiences ==
  /\ \A p \in Supervised \ completed : memFile[p] = NoText
  /\ \A p \in completed : Exists(p) \/ p \in cut \cup forgotten \/ effects = Put(p, Experience)

MemInv ==
  /\ MemTypes /\ Experiences
  /\ \/ effects = <<>> /\ Agree({})
     \/ \E id \in AnyId : InHand(id) /\ Agree({id})

\* No text of a memory stands for none.
LEMMA TextIsSome == NoText \notin Text /\ Experience \in Text
BY MemoryIds DEF Text, NoText, Experience

\* The next write of a call in hand, what is left after it, and that the call is not over.
LEMMA NextWrite ==
  ASSUME NEW id \in AnyId, InHand(id)
  PROVE  /\ effects # <<>> /\ Head(effects).id = id
         /\ \/ \E text \in Text : /\ Head(effects) = Write("file", id, text)
                                  /\ id \in Supervised => id \in completed
                                  /\ Tail(effects) = <<Write("row", id, NoText), Write("row", id, text)>>
            \/ \E text \in Text : /\ Head(effects) = Write("row", id, NoText)
                                  /\ Tail(effects) = <<Write("row", id, text)>>
                                  /\ memFile[id] = text
            \/ \E text \in Text : /\ Head(effects) = Write("row", id, text)
                                  /\ Tail(effects) = <<>> /\ memFile[id] = text
            \/ /\ Forgets(id) /\ Head(effects) = Write("file", id, NoText)
               /\ Tail(effects) = <<Write("row", id, NoText)>>
            \/ /\ Forgets(id) /\ Head(effects) = Write("row", id, NoText)
               /\ Tail(effects) = <<>> /\ memFile[id] = NoText
            \/ /\ id \in Supervised \ completed /\ Head(effects) = [write |-> "parent", id |-> id]
               /\ Tail(effects) = Put(id, Experience)
<1>1. \A where, text : Write(where, id, text).id = id
  BY DEF Write
<1>2. CASE \E text \in Text : /\ id \in Supervised => id \in completed
                              /\ effects = Put(id, text)
  <2>1. PICK text \in Text : effects = Put(id, text)
    BY <1>2
  <2> DEFINE b == Write("file", id, text)
             c == Write("row", id, NoText)
             d == Write("row", id, text)
  <2>2. effects = <<b, c, d>>
    BY <2>1 DEF Put
  <2> HIDE DEF b, c, d
  <2>3. Head(<<b, c, d>>) = b /\ Tail(<<b, c, d>>) = <<c, d>> /\ <<>> # <<b, c, d>>
    BY ShortLists
  <2> QED BY <1>1, <1>2, <2>2, <2>3 DEF b, c, d
<1>3. CASE \E text \in Text : /\ effects = <<Write("row", id, NoText), Write("row", id, text)>>
                              /\ memFile[id] = text
  <2>1. PICK text \in Text : effects = <<Write("row", id, NoText), Write("row", id, text)>> /\ memFile[id] = text
    BY <1>3
  <2> DEFINE c == Write("row", id, NoText)
             d == Write("row", id, text)
  <2>2. effects = <<c, d>>
    BY <2>1
  <2> HIDE DEF c, d
  <2>3. Head(<<c, d>>) = c /\ Tail(<<c, d>>) = <<d>> /\ <<>> # <<c, d>>
    BY ShortLists
  <2> QED BY <1>1, <2>1, <2>2, <2>3 DEF c, d
<1>4. CASE \E text \in Text : effects = <<Write("row", id, text)>> /\ memFile[id] = text
  <2>1. PICK text \in Text : effects = <<Write("row", id, text)>> /\ memFile[id] = text
    BY <1>4
  <2> DEFINE d == Write("row", id, text)
  <2> HIDE DEF d
  <2>2. Head(<<d>>) = d /\ Tail(<<d>>) = <<>> /\ <<>> # <<d>>
    BY ShortLists
  <2> QED BY <1>1, <2>1, <2>2 DEF d
<1>5. CASE Forgets(id) /\ effects = Removal(id)
  <2> DEFINE c == Write("file", id, NoText)
             d == Write("row", id, NoText)
  <2>1. effects = <<c, d>>
    BY <1>5 DEF Removal
  <2> HIDE DEF c, d
  <2>2. Head(<<c, d>>) = c /\ Tail(<<c, d>>) = <<d>> /\ <<>> # <<c, d>>
    BY ShortLists
  <2> QED BY <1>1, <1>5, <2>1, <2>2 DEF c, d
<1>6. CASE Forgets(id) /\ effects = <<Write("row", id, NoText)>> /\ memFile[id] = NoText
  <2> DEFINE d == Write("row", id, NoText)
  <2> HIDE DEF d
  <2>1. Head(<<d>>) = d /\ Tail(<<d>>) = <<>> /\ <<>> # <<d>>
    BY ShortLists
  <2> QED BY <1>1, <1>6, <2>1 DEF d
<1>7. CASE /\ id \in Supervised \ completed
           /\ effects = <<[write |-> "parent", id |-> id]>> \o Put(id, Experience)
  <2> DEFINE a == [write |-> "parent", id |-> id]
             b == Write("file", id, Experience)
             c == Write("row", id, NoText)
             d == Write("row", id, Experience)
  <2>1. effects = <<a>> \o <<b, c, d>> /\ a.id = id
    BY <1>7 DEF Put
  <2> HIDE DEF a, b, c, d
  <2>2. <<a>> \o <<b, c, d>> = <<a, b, c, d>>
    BY FourInARow
  <2>3. Head(<<a, b, c, d>>) = a /\ Tail(<<a, b, c, d>>) = <<b, c, d>> /\ <<>> # <<a, b, c, d>>
    OBVIOUS
  <2> QED BY <1>7, <2>1, <2>2, <2>3 DEF a, b, c, d, Put
<1>8. QED
  BY <1>2, <1>3, <1>4, <1>5, <1>6, <1>7 DEF InHand

\* A request or a completion puts its writes in hand.
LEMMA CallKeeps ==
  ASSUME MemInv, MemoryRoute \/ \E p \in Supervised : CompleteParent(p)
  PROVE  MemInv'
<1>1. MemTypes /\ Experiences
  BY DEF MemInv
<1>2. /\ effects = <<>> /\ Agree({})
      /\ UNCHANGED <<memFile, memIndex, completed, cut>>
  <2>1. effects = <<>> /\ UNCHANGED <<memFile, memIndex, completed, cut>>
    BY DEF MemoryRoute, CreateMemory, UpdateMemory, ForgetMemory, CompleteParent, MemCall
  <2>2. ASSUME NEW id \in AnyId, InHand(id) PROVE effects # <<>>
    BY <2>2, NextWrite
  <2> QED BY <2>1, <2>2 DEF MemInv
<1>3. ASSUME NEW id \in AnyId, NEW text \in Text, effects' = Put(id, text),
             id \in Supervised => id \in completed, \A p \in completed : p \in forgotten => p \in forgotten',
             forgotten' \subseteq Supervised
      PROVE  MemInv'
  <2>1. InHand(id)' /\ Agree({id})'
    BY <1>2, <1>3 DEF InHand, Agree
  <2>2. MemTypes' /\ Experiences'
    <3>1. \A p \in Supervised : effects # Put(p, Experience)
      BY <1>2, ShortLists DEF Put
    <3> QED BY <1>1, <1>2, <1>3, <3>1 DEF MemTypes, Experiences, Exists
  <2> QED BY <2>1, <2>2 DEF MemInv
<1>4. CASE MemoryRoute
  <2>1. CASE \E id \in MemoryId, text \in MemoryContent : CreateMemory(id, text)
    <3>1. PICK id \in MemoryId, text \in MemoryContent : CreateMemory(id, text)
      BY <2>1
    <3>2. effects' = Put(id, text) /\ forgotten' = forgotten
      BY <3>1 DEF CreateMemory, MemCall
    <3>3. id \in AnyId /\ id \notin Supervised /\ text \in Text
      BY MemoryIds DEF AnyId, Text
    <3> QED BY <1>1, <1>3, <3>2, <3>3 DEF MemTypes
  <2>2. CASE \E id \in AnyId, text \in MemoryContent : UpdateMemory(id, text)
    <3>1. PICK id \in AnyId, text \in MemoryContent : UpdateMemory(id, text)
      BY <2>2
    <3>2. effects' = Put(id, text) /\ forgotten' = forgotten /\ memFile[id] # NoText
      BY <3>1 DEF UpdateMemory, MemCall, Exists
    <3>3. text \in Text /\ (id \in Supervised => id \in completed)
      BY <1>1, <3>2 DEF Text, Experiences
    <3> QED BY <1>1, <1>3, <3>2, <3>3 DEF MemTypes
  <2>3. CASE \E id \in AnyId : ForgetMemory(id)
    <3>1. PICK id \in AnyId : ForgetMemory(id)
      BY <2>3
    <3>2. effects' = Removal(id) /\ forgotten' = forgotten \cup ({id} \cap Supervised)
      BY <3>1 DEF ForgetMemory, MemCall
    <3>3. InHand(id)' /\ Agree({id})'
      BY <1>2, <3>2 DEF InHand, Agree, Forgets
    <3>4. \A p \in Supervised : effects # Put(p, Experience)
      BY <1>2, ShortLists DEF Put
    <3>5. MemTypes' /\ Experiences'
      BY <1>1, <1>2, <3>2, <3>4 DEF MemTypes, Experiences, Exists
    <3> QED BY <3>3, <3>5 DEF MemInv
  <2> QED BY <1>4, <2>1, <2>2, <2>3 DEF MemoryRoute, CreateBody, UpdateBody
<1>5. CASE \E p \in Supervised : CompleteParent(p)
  <2>1. PICK p \in Supervised : CompleteParent(p)
    BY <1>5
  <2>2. /\ p \notin completed /\ ~Exists(p) /\ forgotten' = forgotten
        /\ effects' = <<[write |-> "parent", id |-> p]>> \o Put(p, Experience)
    BY <1>1, <2>1 DEF CompleteParent, ExperienceId, MemCall, Experiences, Exists
  <2>3. p \in AnyId /\ InHand(p)' /\ Agree({p})'
    BY <1>2, <2>2 DEF InHand, Agree, AnyId
  <2>4. \A q \in Supervised : effects # Put(q, Experience)
    BY <1>2, ShortLists DEF Put
  <2>5. MemTypes' /\ Experiences'
    BY <1>1, <1>2, <2>2, <2>4 DEF MemTypes, Experiences, Exists
  <2> QED BY <2>3, <2>5 DEF MemInv
<1>6. QED
  BY <1>4, <1>5

\* The writes of an experience are those of the memory in hand.
LEMMA PutInHand ==
  ASSUME NEW id \in AnyId, InHand(id), NEW p \in Supervised, effects = Put(p, Experience)
  PROVE  p = id
<1> DEFINE b == Write("file", p, Experience)
           c == Write("row", p, NoText)
           d == Write("row", p, Experience)
<1>1. Head(<<b, c, d>>) = b
  OBVIOUS
<1>2. Head(effects).id = p
  BY <1>1 DEF Put, Write
<1>3. QED
  BY <1>2, NextWrite

\* The call writes: what is left is in hand, or the memory agrees again.
LEMMA WriteKeeps ==
  ASSUME MemInv, WriteNext
  PROVE  MemInv'
<1> DEFINE e == Head(effects)
<1>1. /\ effects # <<>> /\ effects' = Tail(effects) /\ forgotten' = forgotten
      /\ memFile' = IF e.write = "file" THEN [memFile EXCEPT ![e.id] = e.text] ELSE memFile
      /\ memIndex' = IF e.write = "row" THEN [memIndex EXCEPT ![e.id] = e.text] ELSE memIndex
      /\ completed' = IF e.write = "parent" THEN completed \cup {e.id} ELSE completed
      /\ cut' = IF Tail(effects) = <<>> THEN cut \ {e.id} ELSE cut
  BY DEF WriteNext
<1>2. MemTypes /\ Experiences
  BY DEF MemInv
<1>3. PICK id \in AnyId : InHand(id) /\ Agree({id})
  BY <1>1 DEF MemInv
<1>4. \A where, text : /\ Write(where, id, text).write = where /\ Write(where, id, text).id = id
                      /\ Write(where, id, text).text = text
  BY DEF Write
<1>5. \A c, d : <<d>> # <<>> /\ <<c, d>> # <<>> /\ \A b : <<b, c, d>> # <<>>
  OBVIOUS
<1>6. \A p \in completed : Exists(p) \/ p \in cut \cup forgotten \/ p = id
  BY <1>2, <1>3, PutInHand DEF Experiences, MemTypes
<1>7. \A p \in completed : Exists(p) \/ p \in forgotten \/ p = id \/ p \in cut
  BY <1>6
<1> HIDE DEF e
<1>8. ASSUME NEW text \in Text, e = Write("file", id, text), id \in Supervised => id \in completed,
             Tail(effects) = <<Write("row", id, NoText), Write("row", id, text)>>
      PROVE  MemInv'
  <2>1. /\ memFile' = [memFile EXCEPT ![id] = text] /\ UNCHANGED <<memIndex, completed, cut, forgotten>>
        /\ effects' = <<Write("row", id, NoText), Write("row", id, text)>>
    <3>1. e.write = "file" /\ e.id = id /\ e.text = text
      BY <1>4, <1>8
    <3>2. Tail(effects) # <<>>
      BY <1>5, <1>8
    <3> QED BY <1>1, <1>8, <3>1, <3>2
  <2>2. memFile'[id] = text /\ \A u \in AnyId \ {id} : memFile'[u] = memFile[u]
    BY <1>2, <2>1 DEF MemTypes
  <2>3. InHand(id)' /\ Agree({id})'
    BY <1>3, <2>1, <2>2 DEF InHand, Agree
  <2>4. MemTypes'
    BY <1>2, <2>1 DEF MemTypes
  <2>5. Experiences'
    BY <1>2, <1>7, <1>8, <2>1, <2>2, TextIsSome DEF Experiences, Exists, MemTypes, AnyId
  <2> QED BY <2>3, <2>4, <2>5 DEF MemInv
<1>9. ASSUME NEW text \in Text, e = Write("row", id, NoText), Tail(effects) = <<Write("row", id, text)>>,
             memFile[id] = text
      PROVE  MemInv'
  <2>1. /\ memIndex' = [memIndex EXCEPT ![id] = NoText] /\ UNCHANGED <<memFile, completed, cut, forgotten>>
        /\ effects' = <<Write("row", id, text)>>
    <3>1. e.write = "row" /\ e.id = id /\ e.text = NoText
      BY <1>4, <1>9
    <3>2. Tail(effects) # <<>>
      BY <1>5, <1>9
    <3> QED BY <1>1, <1>9, <3>1, <3>2
  <2>2. \A u \in AnyId \ {id} : memIndex'[u] = memIndex[u]
    BY <1>2, <2>1 DEF MemTypes
  <2>3. InHand(id)' /\ Agree({id})'
    BY <1>3, <1>9, <2>1, <2>2 DEF InHand, Agree
  <2>4. MemTypes'
    BY <1>2, <2>1 DEF MemTypes
  <2>5. Experiences'
    BY <1>2, <1>7, <1>9, <2>1, TextIsSome DEF Experiences, Exists
  <2> QED BY <2>3, <2>4, <2>5 DEF MemInv
<1>10. ASSUME NEW text \in Text \cup {NoText}, e = Write("row", id, text), Tail(effects) = <<>>,
              memFile[id] = text, text # NoText \/ Forgets(id)
       PROVE  MemInv'
  <2>1. /\ memIndex' = [memIndex EXCEPT ![id] = text] /\ UNCHANGED <<memFile, completed, forgotten>>
        /\ effects' = <<>> /\ cut' = cut \ {id}
    <3>1. e.write = "row" /\ e.id = id /\ e.text = text
      BY <1>4, <1>10
    <3>2. Tail(effects) = <<>>
      BY <1>5, <1>10
    <3> QED BY <1>1, <1>10, <3>1, <3>2
  <2>2. memIndex'[id] = memFile'[id] /\ \A u \in AnyId \ {id} : memIndex'[u] = memIndex[u]
    BY <1>2, <1>10, <2>1 DEF MemTypes
  <2>3. Agree({})'
    BY <1>3, <2>1, <2>2 DEF Agree
  <2>4. MemTypes'
    BY <1>2, <2>1 DEF MemTypes
  <2>5. Experiences'
    BY <1>2, <1>7, <1>10, <2>1 DEF Experiences, Exists, Forgets, MemTypes
  <2> QED BY <2>1, <2>3, <2>4, <2>5 DEF MemInv
<1>11. ASSUME Forgets(id), e = Write("file", id, NoText), Tail(effects) = <<Write("row", id, NoText)>>
       PROVE  MemInv'
  <2>1. /\ memFile' = [memFile EXCEPT ![id] = NoText] /\ UNCHANGED <<memIndex, completed, cut, forgotten>>
        /\ effects' = <<Write("row", id, NoText)>>
    <3>1. e.write = "file" /\ e.id = id /\ e.text = NoText
      BY <1>4, <1>11
    <3>2. Tail(effects) # <<>>
      BY <1>5, <1>11
    <3> QED BY <1>1, <1>11, <3>1, <3>2
  <2>2. memFile'[id] = NoText /\ \A u \in AnyId \ {id} : memFile'[u] = memFile[u]
    BY <1>2, <2>1 DEF MemTypes
  <2>3. InHand(id)' /\ Agree({id})'
    BY <1>3, <1>11, <2>1, <2>2 DEF InHand, Agree, Forgets
  <2>4. MemTypes'
    BY <1>2, <2>1 DEF MemTypes
  <2>5. Experiences'
    BY <1>2, <1>7, <1>11, <2>1, <2>2 DEF Experiences, Exists, Forgets, MemTypes, AnyId
  <2> QED BY <2>3, <2>4, <2>5 DEF MemInv
<1>12. ASSUME id \in Supervised \ completed, e = [write |-> "parent", id |-> id],
              Tail(effects) = Put(id, Experience)
       PROVE  MemInv'
  <2>1. e.write = "parent" /\ e.id = id /\ <<>> # Put(id, Experience)
    BY <1>5, <1>12 DEF Put
  <2>2. /\ completed' = completed \cup {id} /\ UNCHANGED <<memFile, memIndex, cut, forgotten>>
        /\ effects' = Put(id, Experience)
    BY <1>1, <1>12, <2>1
  <2>3. InHand(id)' /\ Agree({id})'
    BY <1>3, <2>2, TextIsSome DEF InHand, Agree
  <2>4. MemTypes'
    BY <1>2, <1>12, <2>2 DEF MemTypes
  <2>5. Experiences'
    BY <1>2, <1>7, <2>2 DEF Experiences, Exists
  <2> QED BY <2>3, <2>4, <2>5 DEF MemInv
<1>13. QED
  <2>1. CASE \E text \in Text : /\ e = Write("file", id, text)
                                /\ id \in Supervised => id \in completed
                                /\ Tail(effects) = <<Write("row", id, NoText), Write("row", id, text)>>
    BY <1>8, <2>1
  <2>2. CASE \E text \in Text : /\ e = Write("row", id, NoText)
                                /\ Tail(effects) = <<Write("row", id, text)>>
                                /\ memFile[id] = text
    BY <1>9, <2>2
  <2>3. CASE \E text \in Text : e = Write("row", id, text) /\ Tail(effects) = <<>> /\ memFile[id] = text
    BY <1>10, <2>3, TextIsSome
  <2>4. CASE /\ Forgets(id) /\ e = Write("file", id, NoText)
             /\ Tail(effects) = <<Write("row", id, NoText)>>
    BY <1>11, <2>4
  <2>5. CASE /\ Forgets(id) /\ e = Write("row", id, NoText)
             /\ Tail(effects) = <<>> /\ memFile[id] = NoText
    BY <1>10, <2>5
  <2>6. CASE /\ id \in Supervised \ completed /\ e = [write |-> "parent", id |-> id]
             /\ Tail(effects) = Put(id, Experience)
    BY <1>12, <2>6
  <2>7. QED
    BY <1>3, <2>1, <2>2, <2>3, <2>4, <2>5, <2>6, NextWrite DEF e

\* A call is cut short: the memory in hand is marked.
LEMMA CutKeeps ==
  ASSUME MemInv, CutShort
  PROVE  MemInv'
<1>1. /\ effects # <<>> /\ effects' = <<>> /\ cut' = cut \cup {w.id : w \in ToSet(effects)}
      /\ UNCHANGED <<memFile, memIndex, completed, forgotten>>
      /\ MemTypes /\ Experiences
  BY DEF CutShort, MemInv
<1>2. PICK id \in AnyId : InHand(id) /\ Agree({id})
  BY <1>1 DEF MemInv
<1>3. cut' = cut \cup {id}
  BY <1>1, <1>2 DEF InHand, ToSet, Put, Removal, Write
<1>4. Agree({})'
  BY <1>1, <1>2, <1>3 DEF Agree
<1>5. \A p \in completed : Exists(p) \/ p \in cut' \cup forgotten
  BY <1>1, <1>2, <1>3, PutInHand DEF Experiences, MemTypes
<1>6. MemTypes' /\ Experiences'
  BY <1>1, <1>3, <1>5 DEF MemTypes, Experiences, Exists
<1>7. QED
  BY <1>1, <1>4, <1>6 DEF MemInv

\* Every step of the memories keeps their invariant.
LEMMA MemStep ==
  ASSUME MemInv, [MemNext]_memVars
  PROVE  MemInv'
<1>1. CASE MemNext
  BY <1>1, CallKeeps, WriteKeeps, CutKeeps DEF MemNext
<1>2. CASE UNCHANGED memVars
  BY <1>2 DEF memVars, MemInv, MemTypes, Experiences, Exists, Agree, InHand, Forgets
<1>3. QED
  BY <1>1, <1>2

\* Nothing is remembered at first.
LEMMA MemBegins ==
  ASSUME MemInit
  PROVE  MemInv
<1>1. /\ memFile = [id \in AnyId |-> NoText] /\ memIndex = [id \in AnyId |-> NoText]
      /\ effects = <<>> /\ completed = {} /\ cut = {} /\ forgotten = {}
  BY DEF MemInit
<1>2. MemTypes /\ Agree({})
  BY <1>1 DEF MemTypes, Agree
<1>3. Experiences
  BY <1>1 DEF Experiences, AnyId
<1>4. QED
  BY <1>1, <1>2, <1>3 DEF MemInv

\* Between calls the index agrees with the files, a search is refused only because of a memory that
\* cannot be parsed, and experiences are recorded.
LEMMA MemoriesAgree ==
  ASSUME MemInv
  PROVE  SearchAgrees /\ ExperienceRecorded
<1> DEFINE says(text) == {id \in AnyId \ cut : memFile[id] = text}
<1> SUFFICES ASSUME effects = <<>>
             PROVE  /\ \A text \in Text : IF Search(text).answered
                                         THEN Search(text).ids \ cut = says(text)
                                         ELSE \E id \in says(text) \cup cut : Exists(id) /\ ~Parses(id)
                    /\ \A id \in AnyId \ cut : Exists(id) \/ memIndex[id] = NoText
                    /\ \A p \in completed : Exists(p) \/ p \in cut \cup forgotten
  BY DEF SearchAgrees, ExperienceRecorded
<1>1. MemTypes /\ Experiences /\ Agree({})
  BY NextWrite DEF MemInv
<1>2. \A id \in AnyId \ cut : memFile[id] = memIndex[id]
  BY <1>1 DEF Agree
<1>3. ASSUME NEW p \in Supervised PROVE effects # Put(p, Experience)
  BY ShortLists DEF Put
<1>4. ASSUME NEW text \in Text
      PROVE  IF Search(text).answered THEN Search(text).ids \ cut = says(text)
             ELSE \E id \in says(text) \cup cut : Exists(id) /\ ~Parses(id)
  <2>1. Found(text) \ cut = says(text)
    BY <1>2, TextIsSome DEF Found, Exists
  <2>2. CASE \A id \in Found(text) : Parses(id)
    BY <2>1, <2>2 DEF Search
  <2>3. CASE \E id \in Found(text) : ~Parses(id)
    <3>1. PICK id \in Found(text) : ~Parses(id)
      BY <2>3
    <3>2. Exists(id) /\ id \in says(text) \cup cut
      BY <2>1, <3>1 DEF Found
    <3>3. Search(text).answered = FALSE
      BY <2>3 DEF Search
    <3> QED BY <3>1, <3>2, <3>3
  <2> QED BY <2>2, <2>3
<1>5. \A id \in AnyId \ cut : Exists(id) \/ memIndex[id] = NoText
  BY <1>2 DEF Exists
<1>6. \A p \in completed : Exists(p) \/ p \in cut \cup forgotten
  BY <1>1, <1>3 DEF Experiences, MemTypes
<1>7. QED
  BY <1>4, <1>5, <1>6

\* The calls in hand are lists of writes.
LEMMA WritesTyped ==
  ASSUME MemInv
  PROVE  MemTypeOK
<1>1. MemTypes
  BY DEF MemInv
<1>2. effects \in Seq(Effect) /\ Len(effects) <= 4
  <2>1. CASE effects = <<>>
    <3>1. <<>> \in Seq(Effect) /\ Len(<<>>) = 0
      OBVIOUS
    <3> QED BY <2>1, <3>1
  <2>2. ASSUME NEW id \in AnyId, InHand(id) PROVE effects \in Seq(Effect) /\ Len(effects) <= 4
    <3>1. ASSUME NEW where \in {"file", "row"}, NEW text \in Text \cup {NoText}
          PROVE  Write(where, id, text) \in Effect
      BY DEF Write, Effect
    <3>2. id \in Supervised => [write |-> "parent", id |-> id] \in Effect
      BY DEF Effect
    <3> HIDE DEF Effect
    <3>3. ASSUME NEW a \in Effect, NEW b \in Effect, NEW c \in Effect, NEW d \in Effect
          PROVE  /\ <<d>> \in Seq(Effect) /\ Len(<<d>>) = 1
                 /\ <<c, d>> \in Seq(Effect) /\ Len(<<c, d>>) = 2
                 /\ <<b, c, d>> \in Seq(Effect) /\ Len(<<b, c, d>>) = 3
                 /\ <<a, b, c, d>> \in Seq(Effect) /\ Len(<<a, b, c, d>>) = 4
      OBVIOUS
    <3>4. ASSUME NEW text \in Text, effects = Put(id, text) PROVE effects \in Seq(Effect) /\ Len(effects) <= 4
      BY <3>1, <3>3, <3>4 DEF Put
    <3>5. ASSUME NEW text \in Text, effects = <<Write("row", id, NoText), Write("row", id, text)>>
          PROVE  effects \in Seq(Effect) /\ Len(effects) <= 4
      BY <3>1, <3>3, <3>5
    <3>6. ASSUME NEW text \in Text \cup {NoText}, effects = <<Write("row", id, text)>>
          PROVE  effects \in Seq(Effect) /\ Len(effects) <= 4
      BY <3>1, <3>3, <3>6
    <3>7. ASSUME effects = Removal(id) PROVE effects \in Seq(Effect) /\ Len(effects) <= 4
      BY <3>1, <3>3, <3>7 DEF Removal
    <3>8. ASSUME id \in Supervised, effects = <<[write |-> "parent", id |-> id]>> \o Put(id, Experience)
          PROVE  effects \in Seq(Effect) /\ Len(effects) <= 4
      BY <3>1, <3>2, <3>3, <3>8, FourInARow, TextIsSome DEF Put
    <3> QED BY <2>2, <3>4, <3>5, <3>6, <3>7, <3>8 DEF InHand
  <2> QED BY <2>1, <2>2 DEF MemInv
<1>3. QED
  BY <1>1, <1>2 DEF MemTypeOK, MemTypes

-----------------------------------------------------------------------------
(* The owner's dashboard *)

DashFileType == {f \in [key: 0..MaxKeys, entries: Entries] : Cardinality(DOMAIN f.entries) <= MaxEntries}
DashRequestType ==
  [kind: {"none", "list", "create", "update", "delete", "deleteAll"},
   at: {"idle", "read", "decrypt", "key", "replace", "stat", "remove", "forget", "audit"},
   id: 0..MaxEntryIds, value: EntryValue \cup {"none"}, file: DashFileType, key: 0..MaxKeys]

\* What a request is about, and that there is room for what it saves.
RequestOK(r) ==
  /\ r.at \in {"read", "decrypt", "key", "replace"} =>
       /\ r.kind \in {"list", "create", "update", "delete"} /\ r.id \in EntryId
       /\ r.kind \in {"create", "update"} => r.value \in EntryValue
  /\ r.at \in {"key", "replace"} =>
       /\ r.kind # "list"
       /\ r.kind = "create" => Cardinality(DOMAIN r.file.entries) < MaxEntries
       /\ r.kind = "update" => r.id \in DOMAIN r.file.entries
  /\ r.at \in {"stat", "remove", "forget"} => r.kind = "deleteAll"

DashTypes ==
  /\ dashFile \in DashFileType /\ keysMade \in 0..MaxKeys /\ dashKey \in 0..keysMade
  /\ idsMade \in 0..MaxEntryIds
  /\ dashRequest \in [DashClient -> DashRequestType]
  /\ \A c \in DashClient : RequestOK(dashRequest[c])
  /\ entriesKept \in Entries /\ overlapped \in BOOLEAN

\* A request that changes the file has read what it says and saves with the key that is stored.
Fits(r, file, key) ==
  /\ r.at # "forget" => r.file = file
  /\ r.at = "replace" => r.key = key
  /\ r.at = "forget" => file = NoDashFile

\* While no two requests that change the file overlap, the one under way fits, and the file
\* is what the saves made of it.
OneChanges ==
  /\ \A c, d \in DashClient : Changing(dashRequest[c]) /\ Changing(dashRequest[d]) => c = d
  /\ \A c \in DashClient : Changing(dashRequest[c]) => Fits(dashRequest[c], dashFile, dashKey)
  /\ dashFile.entries = entriesKept
  /\ dashFile # NoDashFile => dashKey = dashFile.key

DashInv == DashTypes /\ (~overlapped => OneChanges)

\* No request and no file are values of their types.
LEMMA NothingTyped ==
  /\ NoDashFile \in DashFileType /\ NoDashFile.entries = NoEntries /\ NoEntries \in Entries
  /\ NoRequest \in DashRequestType /\ NoRequest.at = "idle" /\ RequestOK(NoRequest)
  /\ ~Changing(NoRequest)
<1>1. NoEntries \in Entries /\ DOMAIN NoEntries = {}
  <2>1. <<>> \in [{} -> EntryValue] /\ DOMAIN <<>> = {}
    OBVIOUS
  <2> QED BY <2>1 DEF NoEntries, Entries
<1>2. NoDashFile \in DashFileType /\ NoDashFile.entries = NoEntries
  <2>1. Cardinality(DOMAIN NoEntries) = 0
    BY <1>1, FS_EmptySet
  <2> QED BY <1>1, <2>1, DashAssumption DEF NoDashFile, DashFileType
<1>3. NoRequest \in DashRequestType /\ NoRequest.at = "idle"
  BY <1>2, DashAssumption DEF NoRequest, DashRequestType
<1>4. RequestOK(NoRequest) /\ ~Changing(NoRequest)
  BY <1>3 DEF RequestOK, Changing
<1>5. QED
  BY <1>1, <1>2, <1>3, <1>4

\* The ids of entries, and what they say.
LEMMA EntriesAre ==
  ASSUME NEW entries \in Entries
  PROVE  /\ DOMAIN entries \in SUBSET EntryId /\ IsFiniteSet(DOMAIN entries)
         /\ \A id \in DOMAIN entries : entries[id] \in EntryValue
<1>1. PICK fs \in {[ids -> EntryValue] : ids \in SUBSET EntryId} : entries \in fs
  BY Zenon DEF Entries
<1>2. PICK ids \in SUBSET EntryId : fs = [ids -> EntryValue]
  BY <1>1, Zenon
<1>3. entries \in [ids -> EntryValue] /\ DOMAIN entries = ids
  BY <1>1, <1>2
<1>4. IsFiniteSet(DOMAIN entries)
  <2>1. IsFiniteSet(EntryId)
    BY FS_Interval, DashAssumption DEF EntryId
  <2> QED BY <1>3, <2>1, FS_Subset, Zenon
<1>5. QED
  BY <1>3, <1>4

\* Whether requests overlap is looked at after every step.
Looked == overlapped' = (overlapped \/ \E c, d \in DashClient :
            c # d /\ Changing(dashRequest'[c]) /\ Changing(dashRequest'[d]))

\* What one step of a request has to keep: it leaves file and key alone, or no other
\* request is changing them.
LEMMA DashMoves ==
  ASSUME DashInv, Looked, NEW c \in DashClient, NEW new \in DashRequestType, RequestOK(new),
         dashRequest' = [dashRequest EXCEPT ![c] = new],
         dashFile' \in DashFileType, keysMade' \in 0..MaxKeys, dashKey' \in 0..keysMade',
         idsMade' \in 0..MaxEntryIds, entriesKept' \in Entries,
         OneChanges => (Changing(new) => Fits(new, dashFile', dashKey')),
         OneChanges => \/ UNCHANGED <<dashFile, dashKey, entriesKept>>
                       \/ /\ Changing(new) \/ Changing(dashRequest[c])
                          /\ dashFile'.entries = entriesKept'
                          /\ dashFile' # NoDashFile => dashKey' = dashFile'.key
  PROVE  DashInv'
<1>1. DashTypes /\ dashRequest \in [DashClient -> DashRequestType]
  BY DEF DashInv, DashTypes
<1>2. /\ dashRequest' \in [DashClient -> DashRequestType] /\ dashRequest'[c] = new
      /\ \A d \in DashClient \ {c} : dashRequest'[d] = dashRequest[d]
  BY <1>1
<1>3. overlapped' \in BOOLEAN
  BY DEF Looked
<1>4. DashTypes'
  <2>1. \A d \in DashClient : RequestOK(dashRequest'[d])
    BY <1>1, <1>2 DEF DashTypes
  <2> QED BY <1>2, <1>3, <2>1 DEF DashTypes
<1>5. ASSUME ~overlapped' PROVE OneChanges'
  <2>1. OneChanges
    BY <1>5 DEF Looked, DashInv
  <2>2. \A d, e \in DashClient : Changing(dashRequest'[d]) /\ Changing(dashRequest'[e]) => d = e
    BY <1>5 DEF Looked
  <2>3. ASSUME NEW d \in DashClient, Changing(dashRequest'[d]) PROVE Fits(dashRequest'[d], dashFile', dashKey')
    <3>1. CASE d = c
      BY <1>2, <2>1, <2>3, <3>1
    <3>2. CASE d # c
      <4>1. Changing(dashRequest[d]) /\ ~Changing(new)
        BY <1>2, <2>2, <2>3, <3>2
      <4>2. ~Changing(dashRequest[c]) /\ Fits(dashRequest[d], dashFile, dashKey)
        BY <2>1, <3>2, <4>1 DEF OneChanges
      <4> QED BY <1>2, <2>1, <3>2, <4>1, <4>2
    <3> QED BY <3>1, <3>2
  <2>4. dashFile'.entries = entriesKept' /\ (dashFile' # NoDashFile => dashKey' = dashFile'.key)
    BY <2>1 DEF OneChanges
  <2> QED BY <2>2, <2>3, <2>4 DEF OneChanges
<1>6. QED
  BY <1>4, <1>5 DEF DashInv

\* A request ends, begins, or goes on to an await of which nothing is demanded.
LEMMA DashGoes ==
  ASSUME DashInv, Looked, NEW c \in DashClient, NEW new \in DashRequestType, RequestOK(new), ~Changing(new),
         dashRequest' = [dashRequest EXCEPT ![c] = new],
         UNCHANGED <<dashFile, dashKey, idsMade, keysMade, entriesKept>>
  PROVE  DashInv'
<1>1. DashTypes
  BY DEF DashInv
<1>2. /\ dashFile' \in DashFileType /\ keysMade' \in 0..MaxKeys /\ dashKey' \in 0..keysMade'
      /\ idsMade' \in 0..MaxEntryIds /\ entriesKept' \in Entries
  BY <1>1 DEF DashTypes
<1>3. QED
  BY <1>2, DashMoves

\* A request comes.
LEMMA RequestBegins ==
  ASSUME DashInv, Looked, NEW c \in DashClient, NEW input \in DashboardInput, DashRequest(c, input)
  PROVE  DashInv'
<1> DEFINE at == IF input[1] = "deleteAll" THEN "stat" ELSE "read"
           new == [NoRequest EXCEPT !.kind = input[1], !.id = input[2], !.value = input[3], !.at = at]
           clear == [kind |-> input[1], at |-> at, id |-> input[2], value |-> input[3],
                     file |-> NoDashFile, key |-> 0]
<1>1. /\ input[1] \in {"list", "create", "update", "delete", "deleteAll"} /\ input[2] \in EntryId
      /\ input[3] \in EntryValue \cup {"none"}
      /\ input[1] \in {"create", "update"} => input[3] \in EntryValue
  BY DEF DashboardInput
<1>2. /\ dashRequest' = [dashRequest EXCEPT ![c] = new]
      /\ UNCHANGED <<dashFile, dashKey, idsMade, keysMade, entriesKept>>
  BY DEF DashRequest, Goes
<1>3. new = clear
  <2> HIDE DEF at
  <2>1. ASSUME NEW x, x = new PROVE x = clear
    BY <2>1, ZenonT(30) DEF NoRequest
  <2> QED BY <2>1
<1>4. clear \in DashRequestType /\ RequestOK(clear) /\ ~Changing(clear)
  <2>1. input[2] \in 0..MaxEntryIds
    BY <1>1, DashAssumption DEF EntryId
  <2>2. at \in {"stat", "read"} /\ (at = "stat" <=> input[1] = "deleteAll")
    OBVIOUS
  <2> HIDE DEF at
  <2>3. clear \in DashRequestType
    BY <1>1, <2>1, <2>2, NothingTyped, DashAssumption DEF DashRequestType
  <2>4. RequestOK(clear) /\ ~Changing(clear)
    BY <1>1, <2>2 DEF RequestOK, Changing
  <2> QED BY <2>3, <2>4
<1> HIDE DEF new, clear
<1>5. QED
  BY <1>2, <1>3, <1>4, DashGoes

\* A request ends, or is lost with the others.
LEMMA RequestsEnd ==
  ASSUME DashInv, Looked,
         (\E c \in DashClient : DashboardFails(c) \/ AuditDashboard(c)) \/ DashCrash
  PROVE  DashInv'
<1>1. CASE \E c \in DashClient : DashboardFails(c) \/ AuditDashboard(c)
  BY <1>1, NothingTyped, DashGoes DEF DashboardFails, AuditDashboard, RequestEnds, Goes
<1>2. CASE DashCrash
  <2>1. /\ dashRequest' = [c \in DashClient |-> NoRequest]
        /\ UNCHANGED <<dashFile, dashKey, idsMade, keysMade, entriesKept>> /\ DashTypes
    BY <1>2 DEF DashCrash, DashInv
  <2>2. DashTypes'
    BY <2>1, NothingTyped DEF DashTypes, Looked
  <2>3. ~overlapped' => OneChanges'
    BY <2>1, NothingTyped DEF OneChanges, Looked, DashInv
  <2> QED BY <2>2, <2>3 DEF DashInv
<1>3. QED
  BY <1>1, <1>2

\* The document was loaded: the request ends, or its save comes next.
LEMMA LoadedKeeps ==
  ASSUME DashInv, Looked, NEW c \in DashClient, NEW file \in DashFileType, dashRequest[c].at \in {"read", "decrypt"},
         Loaded(c, file), UNCHANGED <<dashFile, dashKey, keysMade, entriesKept>>,
         OneChanges => (dashRequest[c].kind # "list" => file = dashFile)
  PROVE  DashInv'
<1> DEFINE x == dashRequest[c]
           r == [x EXCEPT !.file = file]
           fresh == r.kind = "create" /\ ~Full(file.entries) /\ idsMade < MaxEntryIds
           id == IF fresh THEN idsMade + 1 ELSE r.id
           new == [r EXCEPT !.at = "key", !.id = IF fresh THEN idsMade + 1 ELSE @]
           clear == [kind |-> x.kind, at |-> "key", id |-> id, value |-> x.value, file |-> file, key |-> x.key]
<1>1. DashTypes /\ x \in DashRequestType /\ RequestOK(x)
  BY DEF DashInv, DashTypes
<1>2. r = [kind |-> x.kind, at |-> x.at, id |-> x.id, value |-> x.value, file |-> file, key |-> x.key]
  <2> HIDE DEF x
  <2>1. ASSUME NEW y, y = [x EXCEPT !.file = file]
        PROVE  y = [kind |-> x.kind, at |-> x.at, id |-> x.id, value |-> x.value, file |-> file, key |-> x.key]
    BY <1>1, <2>1, ZenonT(30) DEF DashRequestType
  <2> QED BY <2>1
<1>3. r \in DashRequestType
  BY <1>1, <1>2 DEF DashRequestType
<1>4. CASE fresh \/ (r.kind \in {"update", "delete"} /\ r.id \in DOMAIN file.entries)
  <2>1. dashRequest' = [dashRequest EXCEPT ![c] = new] /\ idsMade' = IF fresh THEN idsMade + 1 ELSE idsMade
    BY <1>4 DEF Loaded, Goes
  <2>2. new = clear
    <3> HIDE DEF r, x, fresh
    <3>1. new = [r EXCEPT !.at = "key", !.id = id]
      OBVIOUS
    <3> HIDE DEF new, id
    <3>2. new = [kind |-> r.kind, at |-> "key", id |-> id, value |-> r.value, file |-> r.file, key |-> r.key]
      BY <1>3, <3>1, ZenonT(30) DEF DashRequestType
    <3> QED BY <1>2, <3>2
  <2>3. idsMade \in 0..MaxEntryIds /\ idsMade' \in 0..MaxEntryIds /\ (fresh => id \in EntryId)
    <3>1. idsMade \in 0..MaxEntryIds
      BY <1>1 DEF DashTypes
    <3>2. fresh => idsMade < MaxEntryIds
      OBVIOUS
    <3> HIDE DEF fresh
    <3> QED BY <2>1, <3>1, <3>2, DashAssumption DEF EntryId
  <2>4. /\ x.kind \in {"create", "update", "delete"} /\ (x.kind = "create" <=> fresh)
        /\ x.kind # "create" => x.id \in DOMAIN file.entries
        /\ x.id \in EntryId /\ (x.kind \in {"create", "update"} => x.value \in EntryValue)
    BY <1>1, <1>2, <1>4 DEF RequestOK
  <2>5. fresh => Cardinality(DOMAIN file.entries) < MaxEntries
    <3>2. IsFiniteSet(DOMAIN file.entries)
      <4>1. file.entries \in Entries
        BY DEF DashFileType
      <4> QED BY <4>1, EntriesAre
    <3>3. Cardinality(DOMAIN file.entries) \in Nat
      BY <3>2, FS_CardinalityType
    <3>4. fresh => ~(Cardinality(DOMAIN file.entries) >= MaxEntries)
      BY DEF Full
    <3> HIDE DEF fresh
    <3> QED BY <3>3, <3>4, DashAssumption
  <2> HIDE DEF new
  <2>6. clear \in DashRequestType /\ clear.at = "key" /\ clear.kind = x.kind /\ clear.file = file /\ RequestOK(clear)
    <3>1. id \in EntryId /\ id \in 0..MaxEntryIds
      <4>1. x.id \in EntryId /\ r.id = x.id
        BY <1>2, <2>4
      <4>2. id \in EntryId
        BY <2>3, <4>1
      <4> QED BY <4>2, DashAssumption DEF EntryId
    <3>2. x.kind = "update" => id \in DOMAIN file.entries
      BY <1>2, <2>4
    <3>3. x.kind = "create" => Cardinality(DOMAIN file.entries) < MaxEntries
      BY <2>4, <2>5
    <3> HIDE DEF id, fresh, r
    <3>4. clear \in DashRequestType
      BY <1>1, <3>1 DEF DashRequestType
    <3>5. RequestOK(clear)
      BY <2>4, <3>1, <3>2, <3>3 DEF RequestOK
    <3> QED BY <3>4, <3>5
  <2>7. OneChanges => (Changing(clear) => Fits(clear, dashFile', dashKey'))
    BY <2>4, <2>6 DEF Fits
  <2>8. /\ dashFile' \in DashFileType /\ keysMade' \in 0..MaxKeys /\ dashKey' \in 0..keysMade'
        /\ entriesKept' \in Entries
    BY <1>1 DEF DashTypes
  <2> HIDE DEF clear, id, fresh, r, x
  <2> QED BY <2>1, <2>2, <2>3, <2>6, <2>7, <2>8, DashMoves
<1>5. CASE ~(fresh \/ (r.kind \in {"update", "delete"} /\ r.id \in DOMAIN file.entries))
  <2>1. dashRequest' = [dashRequest EXCEPT ![c] = NoRequest] /\ UNCHANGED idsMade
    BY <1>5 DEF Loaded, Goes, RequestEnds
  <2> QED BY <2>1, NothingTyped, DashGoes
<1>6. QED
  BY <1>4, <1>5

\* The file is read and decrypted.
LEMMA LoadKeeps ==
  ASSUME DashInv, Looked, NEW c \in DashClient, ReadDashboard(c) \/ Decrypt(c)
  PROVE  DashInv'
<1> DEFINE x == dashRequest[c]
<1>1. DashTypes /\ x \in DashRequestType /\ RequestOK(x) /\ dashFile \in DashFileType
  BY DEF DashInv, DashTypes
<1>2. UNCHANGED <<dashFile, dashKey, keysMade, entriesKept>>
  BY DEF ReadDashboard, Decrypt
<1>3. CASE ReadDashboard(c)
  <2>1. CASE dashFile = NoDashFile
    <3>1. Loaded(c, NoDashFile) /\ x.at = "read"
      BY <1>3, <2>1 DEF ReadDashboard, DashAt
    <3> QED BY <1>2, <2>1, <3>1, NothingTyped, LoadedKeeps
  <2>2. CASE dashFile # NoDashFile
    <3> DEFINE new == [x EXCEPT !.at = "decrypt", !.file = dashFile]
               clear == [kind |-> x.kind, at |-> "decrypt", id |-> x.id, value |-> x.value, file |-> dashFile, key |-> x.key]
    <3>1. dashRequest' = [dashRequest EXCEPT ![c] = new] /\ UNCHANGED idsMade /\ x.at = "read"
      BY <1>3, <2>2 DEF ReadDashboard, DashAt, Goes
    <3>2. new = clear
      <4> HIDE DEF x
      <4>1. ASSUME NEW y, y = new PROVE y = clear
        BY <1>1, <4>1, ZenonT(30) DEF DashRequestType
      <4> QED BY <4>1
    <3>3. clear \in DashRequestType /\ RequestOK(clear)
      <4>1. clear \in DashRequestType
        BY <1>1 DEF DashRequestType
      <4>2. RequestOK(clear)
        BY <1>1, <3>1 DEF RequestOK
      <4> QED BY <4>1, <4>2
    <3>4. Fits(clear, dashFile', dashKey')
      BY <1>2 DEF Fits
    <3>5. /\ dashFile' \in DashFileType /\ keysMade' \in 0..MaxKeys /\ dashKey' \in 0..keysMade'
          /\ entriesKept' \in Entries /\ idsMade' \in 0..MaxEntryIds
      BY <1>1, <1>2, <3>1 DEF DashTypes
    <3> HIDE DEF new, clear, x
    <3> QED BY <1>2, <3>1, <3>2, <3>3, <3>4, <3>5, DashMoves
  <2> QED BY <2>1, <2>2
<1>4. CASE Decrypt(c)
  <2>1. x.at = "decrypt"
    BY <1>4 DEF Decrypt, DashAt
  <2>2. CASE dashKey = x.file.key
    <3>1. Loaded(c, x.file) /\ x.file \in DashFileType
      BY <1>1, <1>4, <2>2 DEF Decrypt, DashRequestType
    <3>2. OneChanges => (x.kind # "list" => x.file = dashFile)
      BY <2>1 DEF OneChanges, Changing, Fits
    <3> QED BY <1>2, <2>1, <3>1, <3>2, LoadedKeeps
  <2>3. CASE dashKey # x.file.key
    <3>1. dashRequest' = [dashRequest EXCEPT ![c] = NoRequest] /\ UNCHANGED idsMade
      BY <1>4, <2>3 DEF Decrypt, Goes, RequestEnds
    <3> QED BY <1>2, <3>1, NothingTyped, DashGoes
  <2> QED BY <2>2, <2>3
<1>5. QED
  BY <1>3, <1>4

\* What a save makes of the entries.
LEMMA EntryApplies ==
  ASSUME NEW r \in DashRequestType, RequestOK(r), r.at = "replace", NEW entries \in Entries
  PROVE  /\ ApplyEntry(r, entries) \in Entries
         /\ entries = r.file.entries => Cardinality(DOMAIN ApplyEntry(r, entries)) <= MaxEntries
<1>1. /\ DOMAIN entries \in SUBSET EntryId /\ \A id \in DOMAIN entries : entries[id] \in EntryValue
      /\ r.kind \in {"create", "update", "delete"} /\ r.id \in EntryId
      /\ r.kind # "delete" => r.value \in EntryValue
  BY EntriesAre DEF RequestOK
<1>2. IsFiniteSet(DOMAIN entries)
  BY EntriesAre
<1>3. CASE r.kind = "delete"
  <2> DEFINE ids == DOMAIN entries \ {r.id}
  <2>1. ApplyEntry(r, entries) = [id \in ids |-> entries[id]]
    BY <1>3 DEF ApplyEntry, Restrict
  <2>2. [id \in ids |-> entries[id]] \in [ids -> EntryValue] /\ ids \in SUBSET EntryId
    BY <1>1
  <2>3. DOMAIN [id \in ids |-> entries[id]] = ids
    OBVIOUS
  <2>4. Cardinality(ids) <= Cardinality(DOMAIN entries)
    <3>1. ids \subseteq DOMAIN entries
      OBVIOUS
    <3> HIDE DEF ids
    <3> QED BY <1>2, <3>1, FS_Subset, Zenon
  <2>5. Cardinality(ids) \in Nat /\ Cardinality(DOMAIN entries) \in Nat
    <3>1. IsFiniteSet(ids)
      BY <1>2, FS_Subset
    <3> QED BY <1>2, <3>1, FS_CardinalityType
  <2>6. entries = r.file.entries => Cardinality(DOMAIN entries) <= MaxEntries
    BY DEF DashRequestType, DashFileType
  <2>7. ApplyEntry(r, entries) \in Entries
    <3> HIDE DEF ids
    <3> QED BY <2>1, <2>2 DEF Entries
  <2> HIDE DEF ids
  <2>8. entries = r.file.entries => Cardinality(ids) <= MaxEntries
    BY <2>4, <2>5, <2>6, DashAssumption
  <2> QED BY <2>1, <2>3, <2>7, <2>8
<1>4. CASE r.kind # "delete"
  <2> DEFINE ids == DOMAIN entries \cup {r.id}
             f == [id \in ids |-> IF id = r.id THEN r.value ELSE entries[id]]
  <2>1. ApplyEntry(r, entries) = f
    BY <1>4 DEF ApplyEntry
  <2>2. f \in [ids -> EntryValue] /\ ids \in SUBSET EntryId
    BY <1>1, <1>4
  <2>3. DOMAIN f = ids
    OBVIOUS
  <2>4. ApplyEntry(r, entries) \in Entries
    <3> HIDE DEF f, ids
    <3> QED BY <2>1, <2>2 DEF Entries
  <2>5. ASSUME entries = r.file.entries PROVE Cardinality(ids) <= MaxEntries
    <3>1. Cardinality(DOMAIN entries) \in Nat
      BY <1>2, FS_CardinalityType
    <3>2. CASE r.kind = "create"
      <4>1. Cardinality(DOMAIN entries) < MaxEntries
        BY <2>5, <3>2 DEF RequestOK
      <4>2. Cardinality(ids) = IF r.id \in DOMAIN entries THEN Cardinality(DOMAIN entries)
                                                        ELSE Cardinality(DOMAIN entries) + 1
        BY <1>2, FS_AddElement
      <4> HIDE DEF ids
      <4> QED BY <3>1, <4>1, <4>2, DashAssumption
    <3>3. CASE r.kind = "update"
      <4>1. r.id \in DOMAIN entries
        BY <2>5, <3>3 DEF RequestOK
      <4>2. ids = DOMAIN entries
        BY <4>1
      <4> QED BY <2>5, <4>2 DEF DashRequestType, DashFileType
    <3> QED BY <1>1, <1>4, <3>2, <3>3
  <2> HIDE DEF f, ids
  <2> QED BY <2>1, <2>3, <2>4, <2>5
<1>5. QED
  BY <1>3, <1>4

\* The key comes, and the file is replaced.
LEMMA SaveKeeps ==
  ASSUME DashInv, Looked, NEW c \in DashClient, SaveKey(c) \/ ReplaceFile(c)
  PROVE  DashInv'
<1> DEFINE x == dashRequest[c]
<1>1. DashTypes /\ x \in DashRequestType /\ RequestOK(x) /\ dashFile \in DashFileType
  BY DEF DashInv, DashTypes
<1>2. CASE SaveKey(c)
  <2> DEFINE new == [x EXCEPT !.at = "replace", !.key = dashKey']
             clear == [kind |-> x.kind, at |-> "replace", id |-> x.id, value |-> x.value, file |-> x.file, key |-> dashKey']
  <2>1. /\ x.at = "key" /\ dashRequest' = [dashRequest EXCEPT ![c] = new]
        /\ UNCHANGED <<dashFile, idsMade, entriesKept>>
        /\ IF x.file # NoDashFile THEN UNCHANGED <<keysMade, dashKey>>
           ELSE keysMade < MaxKeys /\ keysMade' = keysMade + 1 /\ dashKey' = keysMade + 1
    BY <1>2 DEF SaveKey, DashAt, Goes
  <2>2. keysMade' \in 0..MaxKeys /\ dashKey' \in 0..keysMade' /\ dashKey' \in 0..MaxKeys
    <3>1. keysMade \in 0..MaxKeys /\ dashKey \in 0..keysMade
      BY <1>1 DEF DashTypes
    <3>2. \/ UNCHANGED <<keysMade, dashKey>>
          \/ keysMade < MaxKeys /\ keysMade' = keysMade + 1 /\ dashKey' = keysMade + 1
      BY <2>1
    <3> QED BY <3>1, <3>2, DashAssumption
  <2>3. new = clear
    <3> HIDE DEF x
    <3>1. ASSUME NEW y, y = new PROVE y = clear
      BY <1>1, <3>1, ZenonT(30) DEF DashRequestType
    <3> QED BY <3>1
  <2>4. clear \in DashRequestType /\ RequestOK(clear)
    <3>1. clear \in DashRequestType
      BY <1>1, <2>2 DEF DashRequestType
    <3>2. RequestOK(clear)
      BY <1>1, <2>1 DEF RequestOK
    <3> QED BY <3>1, <3>2
  <2>5. ASSUME OneChanges
        PROVE  /\ Fits(clear, dashFile', dashKey') /\ Changing(clear) /\ dashFile'.entries = entriesKept'
               /\ dashFile' # NoDashFile => dashKey' = dashFile'.key
    <3>1. Changing(x) /\ x.kind # "list"
      BY <1>1, <2>1 DEF RequestOK, Changing
    <3>2. x.file = dashFile
      BY <2>1, <2>5, <3>1 DEF OneChanges, Fits
    <3>3. Fits(clear, dashFile', dashKey') /\ Changing(clear)
      BY <2>1, <3>1, <3>2 DEF Fits, Changing
    <3>4. dashFile'.entries = entriesKept' /\ (dashFile' # NoDashFile => dashKey' = dashFile'.key)
      BY <2>1, <2>5, <3>2 DEF OneChanges
    <3> QED BY <3>3, <3>4
  <2>6. dashFile' \in DashFileType /\ entriesKept' \in Entries /\ idsMade' \in 0..MaxEntryIds
    BY <1>1, <2>1 DEF DashTypes
  <2> HIDE DEF new, clear, x
  <2> QED BY <2>1, <2>2, <2>3, <2>4, <2>5, <2>6, DashMoves
<1>3. CASE ReplaceFile(c)
  <2> DEFINE new == [x EXCEPT !.at = "audit"]
             clear == [kind |-> x.kind, at |-> "audit", id |-> x.id, value |-> x.value, file |-> x.file, key |-> x.key]
  <2>1. /\ x.at = "replace" /\ dashRequest' = [dashRequest EXCEPT ![c] = new]
        /\ dashFile' = [key |-> x.key, entries |-> ApplyEntry(x, x.file.entries)]
        /\ entriesKept' = ApplyEntry(x, entriesKept) /\ UNCHANGED <<dashKey, idsMade, keysMade>>
    BY <1>3 DEF ReplaceFile, DashAt, Goes
  <2>2. new = clear
    <3> HIDE DEF x
    <3>1. ASSUME NEW y, y = new PROVE y = clear
      BY <1>1, <3>1, ZenonT(30) DEF DashRequestType
    <3> QED BY <3>1
  <2>3. clear \in DashRequestType /\ RequestOK(clear) /\ ~Changing(clear)
    <3>1. clear \in DashRequestType
      BY <1>1 DEF DashRequestType
    <3>2. RequestOK(clear) /\ ~Changing(clear)
      BY DEF RequestOK, Changing
    <3> QED BY <3>1, <3>2
  <2>4. dashFile' \in DashFileType /\ entriesKept' \in Entries
    <3>1. x.file.entries \in Entries /\ x.key \in 0..MaxKeys /\ entriesKept \in Entries
      BY <1>1 DEF DashTypes, DashRequestType, DashFileType
    <3>2. /\ ApplyEntry(x, x.file.entries) \in Entries
          /\ Cardinality(DOMAIN ApplyEntry(x, x.file.entries)) <= MaxEntries
          /\ ApplyEntry(x, entriesKept) \in Entries
      BY <1>1, <2>1, <3>1, EntryApplies
    <3> HIDE DEF x
    <3> QED BY <2>1, <3>1, <3>2 DEF DashFileType
  <2>5. ASSUME OneChanges
        PROVE  /\ Changing(x) /\ dashFile'.entries = entriesKept'
               /\ dashFile' # NoDashFile => dashKey' = dashFile'.key
    <3>1. Changing(x)
      BY <1>1, <2>1 DEF RequestOK, Changing
    <3>2. x.file = dashFile /\ x.key = dashKey
      BY <2>1, <2>5, <3>1 DEF OneChanges, Fits
    <3>3. x.file.entries = entriesKept
      BY <2>5, <3>2 DEF OneChanges
    <3> HIDE DEF x
    <3> QED BY <2>1, <3>1, <3>2, <3>3
  <2>6. /\ keysMade' \in 0..MaxKeys /\ dashKey' \in 0..keysMade' /\ idsMade' \in 0..MaxEntryIds
    BY <1>1, <2>1 DEF DashTypes
  <2>7. OneChanges => (Changing(clear) => Fits(clear, dashFile', dashKey'))
    BY <2>3
  <2> HIDE DEF new, clear, x
  <2>8. OneChanges => /\ Changing(clear) \/ Changing(dashRequest[c])
                      /\ dashFile'.entries = entriesKept'
                      /\ dashFile' # NoDashFile => dashKey' = dashFile'.key
    BY <2>5 DEF x
  <2> QED BY <2>1, <2>2, <2>3, <2>4, <2>6, <2>7, <2>8, DashMoves
<1>4. QED
  BY <1>2, <1>3

\* The whole document is deleted.
LEMMA DeleteAllKeeps ==
  ASSUME DashInv, Looked, NEW c \in DashClient, DeleteAll(c), UNCHANGED <<idsMade, keysMade>>
  PROVE  DashInv'
<1> DEFINE x == dashRequest[c]
<1>1. DashTypes /\ x \in DashRequestType /\ RequestOK(x) /\ dashFile \in DashFileType
  BY DEF DashInv, DashTypes
<1>2. ASSUME NEW at \in {"remove", "forget"}, x.kind = "deleteAll",
             dashRequest' = [dashRequest EXCEPT ![c] = [x EXCEPT !.at = at]], UNCHANGED dashKey,
             \/ at = "remove" /\ UNCHANGED <<dashFile, entriesKept>>
             \/ at = "forget" /\ dashFile' = NoDashFile /\ entriesKept' = NoEntries
      PROVE  DashInv'
  <2> DEFINE new == [x EXCEPT !.at = at]
             clear == [kind |-> x.kind, at |-> at, id |-> x.id, value |-> x.value, file |-> x.file, key |-> x.key]
  <2>1. new = clear
    <3> HIDE DEF x
    <3>1. ASSUME NEW y, y = new PROVE y = clear
      BY <1>1, <3>1, ZenonT(30) DEF DashRequestType
    <3> QED BY <3>1
  <2>2. clear \in DashRequestType /\ RequestOK(clear) /\ (Changing(clear) <=> at = "forget")
    <3>1. clear \in DashRequestType
      BY <1>1 DEF DashRequestType
    <3>2. RequestOK(clear) /\ (Changing(clear) <=> at = "forget")
      BY <1>2 DEF RequestOK, Changing
    <3> QED BY <3>1, <3>2
  <2>3. dashFile' \in DashFileType /\ entriesKept' \in Entries
    BY <1>1, <1>2, NothingTyped DEF DashTypes
  <2>4. /\ keysMade' \in 0..MaxKeys /\ dashKey' \in 0..keysMade' /\ idsMade' \in 0..MaxEntryIds
    BY <1>1, <1>2 DEF DashTypes
  <2>5. Changing(clear) => Fits(clear, dashFile', dashKey')
    BY <1>2, <2>2 DEF Fits
  <2>6. \/ UNCHANGED <<dashFile, dashKey, entriesKept>>
        \/ /\ Changing(clear) \/ Changing(dashRequest[c])
           /\ dashFile'.entries = entriesKept'
           /\ dashFile' # NoDashFile => dashKey' = dashFile'.key
    BY <1>2, <2>2, NothingTyped
  <2>7. dashRequest' = [dashRequest EXCEPT ![c] = clear]
    BY <1>2, <2>1
  <2> HIDE DEF new, clear, x
  <2> QED BY <2>2, <2>3, <2>4, <2>5, <2>6, <2>7, DashMoves
<1>3. CASE x.at = "stat"
  <2>1. UNCHANGED <<dashFile, dashKey, entriesKept>> /\ x.kind = "deleteAll"
    BY <1>1, <1>3 DEF DeleteAll, DashAt, RequestOK
  <2>2. CASE dashFile = NoDashFile
    <3>1. dashRequest' = [dashRequest EXCEPT ![c] = NoRequest]
      BY <1>3, <2>2 DEF DeleteAll, DashAt, RequestEnds, Goes
    <3> QED BY <2>1, <3>1, NothingTyped, DashGoes
  <2>3. CASE dashFile # NoDashFile
    <3>1. dashRequest' = [dashRequest EXCEPT ![c] = [x EXCEPT !.at = "remove"]]
      BY <1>3, <2>3 DEF DeleteAll, DashAt, Goes
    <3> QED BY <1>2, <2>1, <3>1
  <2> QED BY <2>2, <2>3
<1>4. CASE x.at = "remove"
  <2>1. /\ x.kind = "deleteAll" /\ dashRequest' = [dashRequest EXCEPT ![c] = [x EXCEPT !.at = "forget"]]
        /\ dashFile' = NoDashFile /\ entriesKept' = NoEntries /\ UNCHANGED dashKey
    BY <1>1, <1>4 DEF DeleteAll, DashAt, Goes, RequestOK
  <2> QED BY <1>2, <2>1
<1>5. CASE x.at = "forget"
  <2>1. /\ x.kind = "deleteAll" /\ dashRequest' = [dashRequest EXCEPT ![c] = NoRequest]
        /\ dashKey' = 0 /\ UNCHANGED <<dashFile, entriesKept>>
    BY <1>1, <1>5 DEF DeleteAll, DashAt, RequestEnds, Goes, RequestOK
  <2>2. /\ keysMade' \in 0..MaxKeys /\ dashKey' \in 0..keysMade' /\ idsMade' \in 0..MaxEntryIds
        /\ dashFile' \in DashFileType /\ entriesKept' \in Entries
    BY <1>1, <2>1 DEF DashTypes
  <2>3. Changing(x)
    BY <1>5, <2>1 DEF Changing
  <2>4. OneChanges => dashFile = NoDashFile /\ dashFile'.entries = entriesKept'
    BY <1>5, <2>1, <2>3 DEF OneChanges, Fits
  <2> QED BY <2>1, <2>2, <2>3, <2>4, NothingTyped, DashMoves
<1>6. QED
  BY <1>3, <1>4, <1>5 DEF DeleteAll, DashAt

\* Every step of the dashboard.
LEMMA DashStepKeeps ==
  ASSUME DashInv, [DashNext]_dashVars
  PROVE  DashInv'
<1>1. CASE DashNext
  <2>1. Looked
    BY <1>1 DEF DashNext, Looked
  <2>2. ASSUME NEW c \in DashClient, DashStep(c) PROVE DashInv'
    <3>1. CASE \E input \in DashboardInput : DashRequest(c, input)
      BY <2>1, <3>1, RequestBegins
    <3>2. CASE ReadDashboard(c) \/ Decrypt(c)
      BY <2>1, <3>2, LoadKeeps
    <3>3. CASE SaveKey(c) \/ ReplaceFile(c)
      BY <2>1, <3>3, SaveKeeps
    <3>4. CASE DeleteAll(c) /\ UNCHANGED <<idsMade, keysMade>>
      BY <2>1, <3>4, DeleteAllKeeps
    <3>5. CASE DashboardFails(c) \/ AuditDashboard(c)
      BY <2>1, <3>5, RequestsEnd
    <3> QED BY <2>2, <3>1, <3>2, <3>3, <3>4, <3>5 DEF DashStep
  <2>3. CASE DashCrash
    BY <2>1, <2>3, RequestsEnd
  <2> QED BY <1>1, <2>2, <2>3 DEF DashNext
<1>2. CASE UNCHANGED dashVars
  <2>1. /\ UNCHANGED <<dashFile, dashKey, dashRequest>>
        /\ UNCHANGED <<idsMade, keysMade, entriesKept, overlapped>>
    BY <1>2 DEF dashVars
  <2>2. DashTypes'
    BY <2>1 DEF DashInv, DashTypes
  <2>3. OneChanges => OneChanges'
    BY <2>1 DEF OneChanges
  <2> QED BY <2>1, <2>2, <2>3 DEF DashInv
<1>3. QED
  BY <1>1, <1>2

\* The dashboard begins without file and key.
LEMMA DashBegins == DashInit => DashInv
<1> SUFFICES ASSUME DashInit PROVE DashInv
  OBVIOUS
<1>1. /\ dashFile = NoDashFile /\ dashKey = 0 /\ idsMade = 0 /\ keysMade = 0
      /\ entriesKept = NoEntries /\ overlapped = FALSE
      /\ dashRequest = [c \in DashClient |-> NoRequest]
  BY DEF DashInit
<1>2. 0 \in 0..MaxKeys /\ 0 \in 0..MaxEntryIds /\ 0 \in 0..0
  BY DashAssumption
<1>3. DashTypes
  BY <1>1, <1>2, NothingTyped DEF DashTypes
<1>4. OneChanges
  BY <1>1, NothingTyped DEF OneChanges
<1>5. QED
  BY <1>3, <1>4 DEF DashInv

\* The invariant says what the file and its key are, and every variable has its type.
LEMMA DashSays == DashInv => RecordsKept /\ DashTypeOK
<1> SUFFICES ASSUME DashInv PROVE RecordsKept /\ DashTypeOK
  OBVIOUS
<1>1. DashTypes
  BY DEF DashInv
<1>2. RecordsKept
  BY DEF RecordsKept, DashInv, OneChanges
<1>3. /\ dashFile \in [key: 0..MaxKeys, entries: Entries]
      /\ Cardinality(DOMAIN dashFile.entries) <= MaxEntries
  BY <1>1 DEF DashTypes, DashFileType
<1>4. \A c \in DashClient :
        /\ dashRequest[c].kind \in {"none", "list", "create", "update", "delete", "deleteAll"}
        /\ dashRequest[c].at \in {"idle", "read", "decrypt", "key", "replace", "stat", "remove", "forget", "audit"}
  BY <1>1 DEF DashTypes, DashRequestType
<1>5. QED
  BY <1>1, <1>2, <1>3, <1>4 DEF DashTypeOK, DashTypes

-----------------------------------------------------------------------------
(* The owner's conversations *)

TalkStage == {"idle", "transcribe", "fallback", "dashboard", "desktop", "status", "model", "speak", "speak again", "stream"}
TalkType == [at: TalkStage, topic: Topic \cup {"none"}, session: 0..MaxSessions, question: 0..MaxAsked,
             route: VoiceRoute \cup {"none"}, sent: SUBSET (1..MaxAsked), aborted: BOOLEAN, connected: BOOLEAN]
SessionType == [state: {"unused", "live", "deleted"}, rows: Seq(Message)]

ConvTypes ==
  /\ session \in [SessionId -> SessionType] /\ expired \subseteq SessionId
  /\ talk \in [ConvClient -> TalkType] /\ asked \in 0..MaxAsked

\* Sessions are made one after the other; those that are not there have no messages.
SessionsOK ==
  /\ \E k \in 0..MaxSessions : \A s \in SessionId : session[s].state # "unused" <=> s <= k
  /\ \A s \in SessionId : session[s].state # "live" => session[s].rows = <<>>
  /\ \A s \in expired : session[s].state # "unused"

\* The messages of a session in their order, with a question that has no answer yet.
Follows(rows) ==
  \A i \in DOMAIN rows : rows[i].role = "assistant" =>
    /\ \E j \in 1..(i - 1) : rows[j] = [role |-> "user", question |-> rows[i].question]
    /\ \A j \in DOMAIN rows : rows[j] = rows[i] => j = i
Unanswered(rows, q) ==
  /\ \E j \in DOMAIN rows : rows[j] = [role |-> "user", question |-> q]
  /\ \A j \in DOMAIN rows : rows[j] # [role |-> "assistant", question |-> q]
RowsOK == \A s \in SessionId : LET rows == session[s].rows IN
  Follows(rows) /\ \A i \in DOMAIN rows : rows[i].question <= asked

\* A handler between its question and the answer: the question is its own, and unanswered in
\* its session as long as that is there.
Answers(t) == t.at \in {"dashboard", "desktop", "status", "model"}
HandlerOK(t, sessions, n) ==
  Answers(t) =>
    /\ t.session \in SessionId /\ t.question \in 1..n /\ sessions[t.session].state # "unused"
    /\ sessions[t.session].state = "live" => Unanswered(sessions[t.session].rows, t.question)
    /\ t.at = "model" => t.question \in t.sent
HandlersOK ==
  /\ \A c \in ConvClient : HandlerOK(talk[c], session, asked)
  /\ \A c, d \in ConvClient :
       Answers(talk[c]) /\ Answers(talk[d]) /\ talk[c].question = talk[d].question => c = d

ConvInv == ConvTypes /\ SessionsOK /\ RowsOK /\ HandlersOK

\* A message is appended: the question's own, or its answer.
WithQuestion(rows, q) == Append(rows, [role |-> "user", question |-> q])
WithAnswer(rows, q) == Append(rows, [role |-> "assistant", question |-> q])
RowsGoOn(rows, new, q) ==
  /\ new \in Seq(Message) /\ Follows(new)
  /\ \A n \in Nat : n >= q /\ (\A i \in DOMAIN rows : rows[i].question <= n) => \A i \in DOMAIN new : new[i].question <= n

\* The answer comes after its question, and is the only one.
LEMMA AnswerFollows ==
  ASSUME NEW rows \in Seq(Message), NEW q \in 1..MaxAsked, Follows(rows), Unanswered(rows, q)
  PROVE  RowsGoOn(rows, WithAnswer(rows, q), q) /\ \A p : p # q /\ Unanswered(rows, p) => Unanswered(WithAnswer(rows, q), p)
<1> DEFINE new == WithAnswer(rows, q)
<1>0. new = Append(rows, [role |-> "assistant", question |-> q])
  BY DEF WithAnswer
<1> HIDE DEF new
<1> DEFINE m == [role |-> "assistant", question |-> q]
<1>1. m \in Message /\ m.role = "assistant" /\ m.question = q
  BY DEF Message
<1> HIDE DEF m
<1>2. /\ new \in Seq(Message) /\ Len(rows) \in Nat /\ DOMAIN rows = 1..Len(rows)
      /\ DOMAIN new = 1..(Len(rows) + 1) /\ new[Len(rows) + 1] = m
      /\ \A i \in 1..Len(rows) : new[i] = rows[i]
  BY <1>0, <1>1 DEF m
<1>3. \A i \in DOMAIN rows : rows[i] # m
  BY DEF Unanswered, m
<1>4. Follows(new)
  <2> SUFFICES ASSUME NEW i \in DOMAIN new, new[i].role = "assistant"
               PROVE  /\ \E j \in 1..(i - 1) : new[j] = [role |-> "user", question |-> new[i].question]
                      /\ \A j \in DOMAIN new : new[j] = new[i] => j = i
    BY DEF Follows
  <2>1. CASE i = Len(rows) + 1
    <3>1. PICK j \in DOMAIN rows : rows[j] = [role |-> "user", question |-> q]
      BY DEF Unanswered
    <3>2. j \in 1..(i - 1) /\ new[j] = [role |-> "user", question |-> new[i].question]
      BY <1>1, <1>2, <2>1, <3>1
    <3>3. ASSUME NEW k \in DOMAIN new, new[k] = new[i], k # i PROVE FALSE
      BY <1>2, <1>3, <2>1, <3>3
    <3> QED BY <3>2, <3>3
  <2>2. CASE i \in 1..Len(rows)
    <3>1. /\ \E j \in 1..(i - 1) : rows[j] = [role |-> "user", question |-> rows[i].question]
          /\ \A j \in DOMAIN rows : rows[j] = rows[i] => j = i
      BY <1>2, <2>2 DEF Follows
    <3>2. PICK j \in 1..(i - 1) : rows[j] = [role |-> "user", question |-> rows[i].question]
      BY <3>1
    <3>3. j \in 1..Len(rows) /\ new[j] = rows[j] /\ new[i] = rows[i]
      BY <1>2, <2>2
    <3>4. ASSUME NEW k \in DOMAIN new, new[k] = new[i], k # i PROVE FALSE
      <4>1. CASE k = Len(rows) + 1
        BY <1>2, <1>3, <2>2, <3>3, <3>4, <4>1
      <4>2. CASE k \in 1..Len(rows)
        BY <1>2, <3>1, <3>3, <3>4, <4>2
      <4> QED BY <1>2, <4>1, <4>2
    <3> QED BY <3>2, <3>3, <3>4
  <2> QED BY <1>2, <2>1, <2>2
<1>5. ASSUME NEW p, p # q, Unanswered(rows, p) PROVE Unanswered(new, p)
  <2>1. PICK j \in DOMAIN rows : rows[j] = [role |-> "user", question |-> p]
    BY <1>5 DEF Unanswered
  <2>2. j \in DOMAIN new /\ new[j] = [role |-> "user", question |-> p]
    BY <1>2, <2>1
  <2>3. ASSUME NEW k \in DOMAIN new, new[k] = [role |-> "assistant", question |-> p] PROVE FALSE
    <3>1. CASE k = Len(rows) + 1
      BY <1>1, <1>2, <1>5, <2>3, <3>1
    <3>2. CASE k \in 1..Len(rows)
      BY <1>2, <1>5, <2>3, <3>2 DEF Unanswered
    <3> QED BY <1>2, <3>1, <3>2
  <2> QED BY <2>2, <2>3 DEF Unanswered
<1>6. ASSUME NEW n \in Nat, n >= q, \A i \in DOMAIN rows : rows[i].question <= n, NEW i \in DOMAIN new
      PROVE  new[i].question <= n
  <2>1. CASE i = Len(rows) + 1
    BY <1>1, <1>2, <1>6, <2>1
  <2>2. CASE i \in 1..Len(rows)
    BY <1>2, <1>6, <2>2
  <2> QED BY <1>2, <2>1, <2>2
<1>7. QED
  BY <1>2, <1>4, <1>5, <1>6 DEF RowsGoOn, new

\* A question that was never asked has no answer.
LEMMA QuestionOpens ==
  ASSUME NEW rows \in Seq(Message), NEW q \in 1..MaxAsked, Follows(rows),
         \A i \in DOMAIN rows : rows[i].question # q
  PROVE  /\ RowsGoOn(rows, WithQuestion(rows, q), q) /\ Unanswered(WithQuestion(rows, q), q)
         /\ \A p : Unanswered(rows, p) => Unanswered(WithQuestion(rows, q), p)
<1> DEFINE new == WithQuestion(rows, q)
<1>0. new = Append(rows, [role |-> "user", question |-> q])
  BY DEF WithQuestion
<1> HIDE DEF new
<1> DEFINE m == [role |-> "user", question |-> q]
<1>1. m \in Message /\ m.role = "user" /\ m.question = q
  BY DEF Message
<1> HIDE DEF m
<1>2. /\ new \in Seq(Message) /\ Len(rows) \in Nat /\ DOMAIN rows = 1..Len(rows)
      /\ DOMAIN new = 1..(Len(rows) + 1) /\ new[Len(rows) + 1] = m
      /\ \A i \in 1..Len(rows) : new[i] = rows[i]
  BY <1>0, <1>1 DEF m
<1>3. Follows(new)
  <2> SUFFICES ASSUME NEW i \in DOMAIN new, new[i].role = "assistant"
               PROVE  /\ \E j \in 1..(i - 1) : new[j] = [role |-> "user", question |-> new[i].question]
                      /\ \A j \in DOMAIN new : new[j] = new[i] => j = i
    BY DEF Follows
  <2>1. i \in 1..Len(rows)
    BY <1>1, <1>2
  <2>2. /\ \E j \in 1..(i - 1) : rows[j] = [role |-> "user", question |-> rows[i].question]
        /\ \A j \in DOMAIN rows : rows[j] = rows[i] => j = i
    BY <1>2, <2>1 DEF Follows
  <2>3. PICK j \in 1..(i - 1) : rows[j] = [role |-> "user", question |-> rows[i].question]
    BY <2>2
  <2>4. j \in 1..Len(rows) /\ new[j] = rows[j] /\ new[i] = rows[i]
    BY <1>2, <2>1
  <2>5. ASSUME NEW k \in DOMAIN new, new[k] = new[i], k # i PROVE FALSE
    <3>1. CASE k = Len(rows) + 1
      BY <1>1, <1>2, <2>5, <3>1
    <3>2. CASE k \in 1..Len(rows)
      BY <1>2, <2>2, <2>4, <2>5, <3>2
    <3> QED BY <1>2, <3>1, <3>2
  <2> QED BY <2>3, <2>4, <2>5
<1>4. ASSUME NEW p, Unanswered(rows, p) PROVE Unanswered(new, p)
  <2>1. PICK j \in DOMAIN rows : rows[j] = [role |-> "user", question |-> p]
    BY <1>4 DEF Unanswered
  <2>2. j \in DOMAIN new /\ new[j] = [role |-> "user", question |-> p]
    BY <1>2, <2>1
  <2>3. ASSUME NEW k \in DOMAIN new, new[k] = [role |-> "assistant", question |-> p] PROVE FALSE
    <3>1. CASE k = Len(rows) + 1
      BY <1>1, <1>2, <2>3, <3>1
    <3>2. CASE k \in 1..Len(rows)
      BY <1>2, <1>4, <2>3, <3>2 DEF Unanswered
    <3> QED BY <1>2, <3>1, <3>2
  <2> QED BY <2>2, <2>3 DEF Unanswered
<1>5. Unanswered(new, q)
  <2>1. Len(rows) + 1 \in DOMAIN new /\ new[Len(rows) + 1] = [role |-> "user", question |-> q]
    BY <1>2 DEF m
  <2>2. ASSUME NEW k \in DOMAIN new, new[k] = [role |-> "assistant", question |-> q] PROVE FALSE
    <3>1. CASE k = Len(rows) + 1
      BY <1>1, <1>2, <2>2, <3>1
    <3>2. CASE k \in 1..Len(rows)
      BY <1>2, <2>2, <3>2
    <3> QED BY <1>2, <3>1, <3>2
  <2> QED BY <2>1, <2>2 DEF Unanswered
<1>6. ASSUME NEW n \in Nat, n >= q, \A i \in DOMAIN rows : rows[i].question <= n, NEW i \in DOMAIN new
      PROVE  new[i].question <= n
  <2>1. CASE i = Len(rows) + 1
    BY <1>1, <1>2, <1>6, <2>1
  <2>2. CASE i \in 1..Len(rows)
    BY <1>2, <1>6, <2>2
  <2> QED BY <1>2, <2>1, <2>2
<1>7. QED
  BY <1>2, <1>3, <1>4, <1>5, <1>6 DEF RowsGoOn, new

\* Sessions made one after the other: the next is the first that is unused.
LEMMA NextSession ==
  ASSUME ConvTypes, SessionsOK
  PROVE  LET n == Cardinality({x \in SessionId : session[x].state # "unused"}) IN
         /\ n \in 0..MaxSessions /\ \A s \in SessionId : session[s].state # "unused" <=> s <= n
<1>1. PICK k \in 0..MaxSessions : \A s \in SessionId : session[s].state # "unused" <=> s <= k
  BY DEF SessionsOK
<1>2. {x \in SessionId : session[x].state # "unused"} = 1..k
  <2>1. \A x : x \in SessionId /\ x <= k <=> x \in 1..k
    BY ConvAssumption DEF SessionId
  <2> QED BY <1>1, <2>1
<1>3. Cardinality(1..k) = k
  <2>1. Cardinality(1..k) = IF 1 > k THEN 0 ELSE k - 1 + 1
    BY FS_Interval
  <2> QED BY <2>1, ConvAssumption
<1>4. QED
  BY <1>1, <1>2, <1>3

\* What a deleted conversation is must not change.
DeletedStay == \A s \in SessionId : session[s].state = "deleted" => session'[s] = session[s]

\* One handler goes on, and its messages with it.
LEMMA HandlerGoesOn ==
  ASSUME ConvInv, NEW c \in ConvClient, NEW new \in TalkType, talk' = [talk EXCEPT ![c] = new],
         session' \in [SessionId -> SessionType], expired' \subseteq SessionId, asked' \in 0..MaxAsked,
         SessionsOK', RowsOK', HandlerOK(new, session', asked'),
         \A d \in ConvClient \ {c} : HandlerOK(talk[d], session', asked'),
         Answers(new) => \A d \in ConvClient \ {c} : Answers(talk[d]) => talk[d].question # new.question
  PROVE  ConvInv'
<1>1. talk \in [ConvClient -> TalkType] /\ HandlersOK
  BY DEF ConvInv, ConvTypes
<1>2. talk' \in [ConvClient -> TalkType] /\ talk'[c] = new /\ \A d \in ConvClient \ {c} : talk'[d] = talk[d]
  BY <1>1
<1>3. ConvTypes'
  BY <1>2 DEF ConvTypes
<1>4. \A d \in ConvClient : HandlerOK(talk'[d], session', asked')
  BY <1>2
<1>5. ASSUME NEW d \in ConvClient, NEW e \in ConvClient, Answers(talk'[d]), Answers(talk'[e]),
             talk'[d].question = talk'[e].question, d # e
      PROVE  FALSE
  <2>1. CASE d = c
    BY <1>2, <1>5, <2>1
  <2>2. CASE e = c
    BY <1>2, <1>5, <2>2
  <2>3. CASE d # c /\ e # c
    BY <1>1, <1>2, <1>5, <2>3 DEF HandlersOK
  <2> QED BY <2>1, <2>2, <2>3
<1>6. HandlersOK'
  BY <1>4, <1>5 DEF HandlersOK
<1>7. QED
  BY <1>3, <1>6 DEF ConvInv

\* A handler goes to an await without a message, answers nothing any more, or ends.
LEMMA TalkGoes ==
  ASSUME ConvInv, NEW c \in ConvClient, NEW new \in TalkType, talk' = [talk EXCEPT ![c] = new],
         UNCHANGED <<session, expired, asked>>, HandlerOK(new, session, asked),
         Answers(new) => Answers(talk[c]) /\ new.question = talk[c].question
  PROVE  ConvInv' /\ DeletedStay
<1>1. ConvTypes /\ SessionsOK /\ RowsOK /\ HandlersOK
  BY DEF ConvInv
<1>2. session' \in [SessionId -> SessionType] /\ expired' \subseteq SessionId /\ asked' \in 0..MaxAsked
  BY <1>1 DEF ConvTypes
<1>3. SessionsOK' /\ RowsOK'
  BY <1>1 DEF SessionsOK, RowsOK
<1>4. /\ HandlerOK(new, session', asked') /\ \A d \in ConvClient \ {c} : HandlerOK(talk[d], session', asked')
      /\ Answers(new) => \A d \in ConvClient \ {c} : Answers(talk[d]) => talk[d].question # new.question
  BY <1>1 DEF HandlersOK
<1>5. ConvInv'
  BY <1>2, <1>3, <1>4, HandlerGoesOn
<1>6. QED
  BY <1>5 DEF DeletedStay

\* The handler that is silent.
LEMMA SilentTyped == Silent \in TalkType /\ ~Answers(Silent) /\ \A n : HandlerOK(Silent, session, n)
BY ConvAssumption DEF Silent, TalkType, TalkStage, Answers, HandlerOK

LEMMA ReplyKeeps ==
  ASSUME ConvInv, NEW c \in ConvClient, Reply(c), UNCHANGED <<session, expired, asked>>
  PROVE  ConvInv' /\ DeletedStay
BY SilentTyped, TalkGoes DEF Reply, Say

\* A handler's record, field by field.
LEMMA TalkFields ==
  ASSUME NEW x \in TalkType
  PROVE  /\ x.at \in TalkStage /\ x.topic \in Topic \cup {"none"} /\ x.session \in 0..MaxSessions
         /\ x.question \in 0..MaxAsked /\ x.route \in VoiceRoute \cup {"none"} /\ x.sent \in SUBSET (1..MaxAsked)
         /\ x.aborted \in BOOLEAN /\ x.connected \in BOOLEAN
BY DEF TalkType

LEMMA TalkMade ==
  ASSUME NEW at \in TalkStage, NEW topic \in Topic \cup {"none"}, NEW s \in 0..MaxSessions, NEW q \in 0..MaxAsked,
         NEW route \in VoiceRoute \cup {"none"}, NEW sent \in SUBSET (1..MaxAsked),
         NEW aborted \in BOOLEAN, NEW connected \in BOOLEAN,
         NEW x, x = [at |-> at, topic |-> topic, session |-> s, question |-> q, route |-> route, sent |-> sent,
                     aborted |-> aborted, connected |-> connected]
  PROVE  /\ x \in TalkType /\ x.at = at /\ x.session = s /\ x.question = q /\ x.sent = sent
         /\ (at \notin {"dashboard", "desktop", "status", "model"} =>
               ~Answers(x) /\ \A sessions, n : HandlerOK(x, sessions, n))
BY DEF TalkType, Answers, HandlerOK

LEMMA NothingIsTyped ==
  /\ TalkStage = {"idle", "transcribe", "fallback", "dashboard", "desktop", "status", "model", "speak",
                  "speak again", "stream"}
  /\ \A topic \in Topic : topic \in Topic \cup {"none"}
  /\ "none" \in Topic \cup {"none"} /\ {} \in SUBSET (1..MaxAsked)
  /\ 0 \in 0..MaxSessions /\ 0 \in 0..MaxAsked
BY ConvAssumption DEF TalkStage

\* What the handler awaits once it has answered.
LEMMA AnsweredIs ==
  ASSUME ConvInv, NEW c \in ConvClient, NEW size, Answered(c, size)
  PROVE  \E new \in TalkType : talk' = [talk EXCEPT ![c] = new] /\ ~Answers(new)
<1>1. talk[c] \in TalkType
  BY DEF ConvInv, ConvTypes
<1> DEFINE x == talk[c]
           new == [x EXCEPT !.at = "speak", !.topic = "none", !.session = 0, !.question = 0, !.sent = {}]
           clear == [at |-> "speak", topic |-> "none", session |-> 0, question |-> 0, route |-> x.route,
                     sent |-> {}, aborted |-> x.aborted, connected |-> x.connected]
<1>2. new = clear
  <2> HIDE DEF x
  <2>1. ASSUME NEW q, q = new PROVE q = clear
    BY <1>1, <2>1, ZenonT(60) DEF TalkType, x
  <2> QED BY <2>1
<1> HIDE DEF new
<1>3. clear \in TalkType /\ ~Answers(clear)
  <2>1. x.route \in VoiceRoute \cup {"none"} /\ x.aborted \in BOOLEAN /\ x.connected \in BOOLEAN
    BY <1>1, TalkFields
  <2> HIDE DEF x
  <2>2. "speak" \in TalkStage /\ "none" \in Topic \cup {"none"} /\ {} \in SUBSET (1..MaxAsked)
    BY NothingIsTyped
  <2>3. 0 \in 0..MaxSessions /\ 0 \in 0..MaxAsked
    BY NothingIsTyped
  <2>4. "speak" \notin {"dashboard", "desktop", "status", "model"}
    OBVIOUS
  <2> QED BY <2>1, <2>2, <2>3, <2>4, TalkMade
<1> HIDE DEF clear
<1>4. CASE talk' = [talk EXCEPT ![c] = new]
  BY <1>2, <1>3, <1>4
<1>5. CASE talk' = [talk EXCEPT ![c] = Silent]
  BY <1>5, SilentTyped
<1>6. QED
  BY <1>4, <1>5 DEF Answered, Say, Reply, new

\* A session is written: it is there and so are its messages, and no other changes.
LEMMA SessionWritten ==
  ASSUME ConvInv, NEW s \in SessionId, NEW rows \in Seq(Message),
         session' = [session EXCEPT ![s] = [state |-> "live", rows |-> rows]], expired' = expired \ {s},
         asked' \in 0..MaxAsked, asked' >= asked, session[s].state # "deleted",
         session[s].state = "unused" => \A x \in SessionId : session[x].state # "unused" <=> x < s,
         Follows(rows), \A i \in DOMAIN rows : rows[i].question <= asked'
  PROVE  /\ session' \in [SessionId -> SessionType] /\ expired' \subseteq SessionId
         /\ SessionsOK' /\ RowsOK' /\ DeletedStay
         /\ session'[s].state = "live" /\ session'[s].rows = rows
         /\ \A x \in SessionId \ {s} : session'[x] = session[x]
<1>1. session \in [SessionId -> SessionType] /\ expired \subseteq SessionId /\ SessionsOK /\ RowsOK /\ asked \in 0..MaxAsked
  BY DEF ConvInv, ConvTypes
<1> DEFINE new == [state |-> "live", rows |-> rows]
<1>2. new \in SessionType /\ new.state = "live" /\ new.rows = rows
  BY DEF SessionType
<1> HIDE DEF new
<1>3. session' = [session EXCEPT ![s] = new]
  BY DEF new
<1>4. /\ session' \in [SessionId -> SessionType] /\ session'[s] = new
      /\ \A x \in SessionId \ {s} : session'[x] = session[x]
  BY <1>1, <1>2, <1>3
<1>5. expired' \subseteq SessionId
  BY <1>1
<1>6. \E k \in 0..MaxSessions : \A x \in SessionId : session'[x].state # "unused" <=> x <= k
  <2>1. CASE session[s].state = "unused"
    <3>1. \A x \in SessionId : session[x].state # "unused" <=> x < s
      BY <2>1
    <3>2. s \in 0..MaxSessions
      BY ConvAssumption DEF SessionId
    <3>3. ASSUME NEW x \in SessionId PROVE session'[x].state # "unused" <=> x <= s
      <4>1. CASE x = s
        BY <1>2, <1>4, <4>1 DEF SessionId
      <4>2. CASE x # s
        BY <1>4, <3>1, <4>2 DEF SessionId
      <4> QED BY <4>1, <4>2
    <3> QED BY <3>2, <3>3
  <2>2. CASE session[s].state # "unused"
    <3>1. PICK k \in 0..MaxSessions : \A x \in SessionId : session[x].state # "unused" <=> x <= k
      BY <1>1 DEF SessionsOK
    <3>2. ASSUME NEW x \in SessionId PROVE session'[x].state # "unused" <=> x <= k
      <4>1. CASE x = s
        BY <1>2, <1>4, <2>2, <3>1, <4>1
      <4>2. CASE x # s
        BY <1>4, <3>1, <4>2
      <4> QED BY <4>1, <4>2
    <3> QED BY <3>2
  <2> QED BY <2>1, <2>2
<1>7. \A x \in SessionId : session'[x].state # "live" => session'[x].rows = <<>>
  BY <1>1, <1>2, <1>4 DEF SessionsOK
<1>8. \A x \in expired' : session'[x].state # "unused"
  BY <1>1, <1>4 DEF SessionsOK
<1>9. SessionsOK'
  BY <1>6, <1>7, <1>8 DEF SessionsOK
<1>10. ASSUME NEW x \in SessionId
       PROVE  Follows(session'[x].rows) /\ \A i \in DOMAIN session'[x].rows : session'[x].rows[i].question <= asked'
  <2>1. CASE x = s
    BY <1>2, <1>4, <2>1
  <2>2. CASE x # s
    <3>1. Follows(session[x].rows) /\ \A i \in DOMAIN session[x].rows : session[x].rows[i].question <= asked
      BY <1>1 DEF RowsOK
    <3>2. session[x].rows \in Seq(Message)
      BY <1>1 DEF SessionType
    <3>3. ASSUME NEW i \in DOMAIN session[x].rows PROVE session[x].rows[i].question <= asked'
      <4>1. session[x].rows[i] \in Message
        BY <3>2, ElementOfSeq
      <4>2. session[x].rows[i].question \in 1..MaxAsked
        BY <4>1 DEF Message
      <4> QED BY <1>1, <3>1, <4>2, ConvAssumption
    <3> QED BY <1>4, <2>2, <3>1, <3>3
  <2> QED BY <2>1, <2>2
<1>11. RowsOK'
  BY <1>10 DEF RowsOK
<1>12. DeletedStay
  BY <1>4 DEF DeletedStay
<1>13. QED
  BY <1>2, <1>4, <1>5, <1>9, <1>11, <1>12

\* The answer to its own question, which has none, in a session that is there.
LEMMA AppendAnswerKeeps ==
  ASSUME ConvInv, NEW c \in ConvClient, NEW size, Answers(talk[c]), AppendAnswer(c, size), UNCHANGED asked
  PROVE  ConvInv' /\ DeletedStay
<1> DEFINE s == talk[c].session
           q == talk[c].question
           old == session[s].rows
           rows == WithAnswer(old, q)
<1>1. ConvTypes /\ RowsOK /\ HandlersOK
  BY DEF ConvInv
<1>2. HandlerOK(talk[c], session, asked)
  BY <1>1 DEF HandlersOK
<1>3. s \in SessionId /\ q \in 1..asked
  BY <1>2 DEF HandlerOK
<1>4. asked \in 0..MaxAsked /\ q \in 1..MaxAsked /\ q <= asked
  BY <1>1, <1>3, ConvAssumption DEF ConvTypes
<1>5. session[s].rows \in Seq(Message)
  BY <1>1, <1>3 DEF ConvTypes, SessionType
<1>6. CASE ~CanAppend(s, size)
  <2>1. Reply(c) /\ UNCHANGED <<session, expired>>
    BY <1>6 DEF AppendAnswer
  <2> QED BY <2>1, ReplyKeeps
<1>7. CASE CanAppend(s, size)
  <2>1. session[s].state = "live"
    BY <1>7 DEF CanAppend, Live
  <2>2. Follows(session[s].rows) /\ \A i \in DOMAIN session[s].rows : session[s].rows[i].question <= asked
    BY <1>1, <1>3 DEF RowsOK
  <2>3. Unanswered(session[s].rows, q)
    BY <1>2, <2>1 DEF HandlerOK
  <2>4. /\ session' = [session EXCEPT ![s] = [state |-> "live", rows |-> rows]] /\ expired' = expired \ {s}
        /\ Answered(c, size)
    BY <1>3, <1>7 DEF AppendAnswer, WithAnswer
  <2>5. PICK new \in TalkType : talk' = [talk EXCEPT ![c] = new] /\ ~Answers(new)
    BY <2>4, AnsweredIs
  <2>13. /\ old \in Seq(Message) /\ Follows(old) /\ Unanswered(old, q)
         /\ \A i \in DOMAIN old : old[i].question <= asked
    BY <1>5, <2>2, <2>3
  <2> HIDE DEF s, q, old, rows
  <2>6. RowsGoOn(old, rows, q) /\ \A p : p # q /\ Unanswered(old, p) => Unanswered(rows, p)
    BY <1>4, <2>13, AnswerFollows DEF rows
  <2>7. \A i \in DOMAIN rows : rows[i].question <= asked
    BY <1>4, <2>6, <2>13 DEF RowsGoOn
  <2>8. asked' \in 0..MaxAsked /\ asked' >= asked /\ \A i \in DOMAIN rows : rows[i].question <= asked'
    BY <1>4, <2>7
  <2>9. /\ session' \in [SessionId -> SessionType] /\ expired' \subseteq SessionId
        /\ SessionsOK' /\ RowsOK' /\ DeletedStay /\ session'[s].state = "live" /\ session'[s].rows = rows
        /\ \A x \in SessionId \ {s} : session'[x] = session[x]
    BY <1>3, <2>1, <2>4, <2>6, <2>8, SessionWritten DEF RowsGoOn
  <2>10. ASSUME NEW d \in ConvClient \ {c} PROVE HandlerOK(talk[d], session', asked')
    <3>1. CASE Answers(talk[d]) /\ talk[d].session = s
      <4>1. HandlerOK(talk[d], session, asked) /\ talk[d].question # q
        BY <1>1, <3>1 DEF HandlersOK, q
      <4>2. Unanswered(session[s].rows, talk[d].question)
        BY <2>1, <3>1, <4>1 DEF HandlerOK
      <4>3. Unanswered(rows, talk[d].question)
        BY <2>6, <4>1, <4>2 DEF old
      <4> QED BY <2>9, <3>1, <4>1, <4>3 DEF HandlerOK
    <3>2. CASE Answers(talk[d]) /\ talk[d].session # s
      <4>1. HandlerOK(talk[d], session, asked)
        BY <1>1 DEF HandlersOK
      <4>2. talk[d].session \in SessionId \ {s}
        BY <3>2, <4>1 DEF HandlerOK
      <4> QED BY <2>9, <4>1, <4>2 DEF HandlerOK
    <3>3. CASE ~Answers(talk[d])
      BY <3>3 DEF HandlerOK
    <3> QED BY <3>1, <3>2, <3>3
  <2>11. HandlerOK(new, session', asked')
    BY <2>5 DEF HandlerOK
  <2> QED BY <2>5, <2>8, <2>9, <2>10, <2>11, HandlerGoesOn
<1>8. QED
  BY <1>6, <1>7

\* What the handler awaits when its question is appended.
AskedTalk(x, s, q, topic) ==
  [x EXCEPT !.session = s, !.question = q, !.topic = topic, !.at = IF topic = "dashboard" THEN "dashboard" ELSE "desktop"]

LEMMA AskedIs ==
  ASSUME NEW x \in TalkType, NEW s \in SessionId, NEW q \in 1..MaxAsked, NEW topic \in Topic, NEW new,
         new = AskedTalk(x, s, q, topic)
  PROVE  new \in TalkType /\ new.session = s /\ new.question = q /\ new.at # "model"
<1> DEFINE at == IF topic = "dashboard" THEN "dashboard" ELSE "desktop"
           y == [at |-> at, topic |-> topic, session |-> s, question |-> q, route |-> x.route, sent |-> x.sent,
                 aborted |-> x.aborted, connected |-> x.connected]
<1>1. at \in TalkStage /\ at # "model"
  BY DEF TalkStage
<1> HIDE DEF at
<1>2. new = y
  BY ZenonT(60) DEF TalkType, AskedTalk, at
<1>3. x.route \in VoiceRoute \cup {"none"} /\ x.sent \in SUBSET (1..MaxAsked) /\ x.aborted \in BOOLEAN /\ x.connected \in BOOLEAN
  BY TalkFields
<1>4. s \in 0..MaxSessions
  BY ConvAssumption DEF SessionId
<1>5. q \in 0..MaxAsked /\ topic \in Topic \cup {"none"}
  BY ConvAssumption
<1>6. y \in TalkType /\ y.at = at /\ y.session = s /\ y.question = q
  BY <1>1, <1>3, <1>4, <1>5, TalkMade
<1>7. QED
  BY <1>1, <1>2, <1>6

\* The question: a session that is there is named, or one is made.
LEMMA AppendQuestionKeeps ==
  ASSUME ConvInv, NEW c \in ConvClient, NEW named \in 0..MaxSessions, NEW topic \in Topic,
         AppendQuestion(c, talk[c], named, topic)
  PROVE  ConvInv' /\ DeletedStay
<1> DEFINE next == Cardinality({x \in SessionId : session[x].state # "unused"}) + 1
           s == IF named = 0 THEN next ELSE named
           q == asked + 1
           old == session[s].rows
           rows == WithQuestion(old, q)
           new == AskedTalk(talk[c], s, q, topic)
<1>1. ConvTypes /\ SessionsOK /\ RowsOK /\ HandlersOK
  BY DEF ConvInv
<1>2. /\ asked \in 0..MaxAsked /\ talk[c] \in TalkType /\ session \in [SessionId -> SessionType]
      /\ expired \subseteq SessionId
  BY <1>1 DEF ConvTypes
<1>3. next \in Nat /\ \A x \in SessionId : session[x].state # "unused" <=> x < next
  <2> DEFINE n == Cardinality({x \in SessionId : session[x].state # "unused"})
  <2>1. n \in 0..MaxSessions /\ \A x \in SessionId : session[x].state # "unused" <=> x <= n
    BY <1>1, NextSession
  <2>2. next = n + 1
    OBVIOUS
  <2> HIDE DEF n, next
  <2> QED BY <2>1, <2>2, ConvAssumption DEF SessionId
<1> HIDE DEF next
<1>4. CASE s = named /\ ~Live(s)
  <2>1. Reply(c) /\ UNCHANGED <<session, expired, asked>>
    BY <1>4 DEF AppendQuestion, next
  <2> QED BY <2>1, ReplyKeeps
<1>5. CASE ~(s = named /\ ~Live(s))
  <2>1. /\ s \in SessionId /\ asked < MaxAsked /\ asked' = q
        /\ session' = [session EXCEPT ![s] = [state |-> "live", rows |-> rows]] /\ expired' = expired \ {s}
        /\ talk' = [talk EXCEPT ![c] = new]
    BY <1>5 DEF AppendQuestion, Say, WithQuestion, AskedTalk, next
  <2>2. q \in 1..MaxAsked /\ q \in 0..MaxAsked /\ q >= asked /\ q > asked
    BY <1>2, <2>1, ConvAssumption
  <2>3. /\ session[s].state # "deleted"
        /\ session[s].state = "unused" => \A x \in SessionId : session[x].state # "unused" <=> x < s
    <3>1. CASE Live(s)
      BY <3>1 DEF Live
    <3>2. CASE ~Live(s)
      <4>1. s = next
        BY <1>5, <3>2
      <4>2. ~(s < next)
        BY <1>3, <4>1
      <4>3. session[s].state = "unused"
        BY <1>3, <2>1, <4>2
      <4> QED BY <1>3, <4>1, <4>3
    <3> QED BY <3>1, <3>2
  <2>4. new \in TalkType /\ new.session = s /\ new.question = q /\ new.at # "model"
    BY <1>2, <2>1, <2>2, AskedIs
  <2>5. old \in Seq(Message) /\ Follows(old) /\ \A i \in DOMAIN old : old[i].question <= asked
    BY <1>1, <1>2, <2>1 DEF RowsOK, SessionType
  <2>6. \A i \in DOMAIN old : old[i].question # q
    <3>1. ASSUME NEW i \in DOMAIN old, old[i].question = q PROVE FALSE
      <4>1. old[i].question <= asked
        BY <2>5
      <4> HIDE DEF old, q
      <4> QED BY <1>2, <2>2, <3>1, <4>1
    <3> QED BY <3>1
  <2> HIDE DEF s, q, old, new
  <2>7. RowsGoOn(old, rows, q) /\ Unanswered(rows, q) /\ \A p : Unanswered(old, p) => Unanswered(rows, p)
    BY <2>2, <2>5, <2>6, QuestionOpens
  <2> HIDE DEF rows
  <2>8. \A i \in DOMAIN old : old[i].question <= q
    <3>1. ASSUME NEW i \in DOMAIN old PROVE old[i].question <= q
      <4>1. old[i] \in Message
        BY <2>5, ElementOfSeq
      <4>2. old[i].question \in 1..MaxAsked
        BY <4>1 DEF Message
      <4> QED BY <1>2, <2>2, <2>5, <4>2, ConvAssumption
    <3> QED BY <3>1
  <2>9. rows \in Seq(Message) /\ Follows(rows) /\ \A i \in DOMAIN rows : rows[i].question <= q
    BY <2>2, <2>7, <2>8 DEF RowsGoOn
  <2>10. asked' \in 0..MaxAsked /\ asked' >= asked /\ \A i \in DOMAIN rows : rows[i].question <= asked'
    BY <2>1, <2>2, <2>9
  <2>11. /\ session' \in [SessionId -> SessionType] /\ expired' \subseteq SessionId
         /\ SessionsOK' /\ RowsOK' /\ DeletedStay /\ session'[s].state = "live" /\ session'[s].rows = rows
         /\ \A x \in SessionId \ {s} : session'[x] = session[x]
    BY <2>1, <2>3, <2>9, <2>10, SessionWritten
  <2>12. ASSUME NEW d \in ConvClient \ {c}, Answers(talk[d]) PROVE HandlerOK(talk[d], session', asked') /\ talk[d].question # q
    <3>1. HandlerOK(talk[d], session, asked)
      BY <1>1 DEF HandlersOK
    <3>2. /\ talk[d].session \in SessionId /\ talk[d].question \in 1..asked /\ session[talk[d].session].state # "unused"
          /\ talk[d].at = "model" => talk[d].question \in talk[d].sent
      BY <2>12, <3>1 DEF HandlerOK
    <3>3. talk[d].question \in 1..asked' /\ talk[d].question # q
      BY <1>2, <2>1, <2>2, <3>2, ConvAssumption
    <3>4. CASE talk[d].session = s
      <4>1. session[s].state = "live"
        BY <1>2, <2>1, <2>3, <3>2, <3>4 DEF SessionType
      <4>2. Unanswered(old, talk[d].question)
        BY <2>12, <3>1, <3>4, <4>1 DEF HandlerOK, old
      <4>3. Unanswered(rows, talk[d].question)
        BY <2>7, <4>2
      <4> QED BY <2>11, <3>2, <3>3, <3>4, <4>3 DEF HandlerOK
    <3>5. CASE talk[d].session # s
      <4>1. session'[talk[d].session] = session[talk[d].session]
        BY <2>11, <3>2, <3>5
      <4> QED BY <2>12, <3>1, <3>2, <3>3, <4>1 DEF HandlerOK
    <3> QED BY <3>3, <3>4, <3>5
  <2>13. HandlerOK(new, session', asked')
    <3>1. new.session \in SessionId /\ new.question \in 1..asked'
      BY <2>1, <2>2, <2>4
    <3> QED BY <2>4, <2>7, <2>11, <3>1 DEF HandlerOK
  <2>14. ASSUME NEW d \in ConvClient \ {c} PROVE HandlerOK(talk[d], session', asked')
    BY <2>12 DEF HandlerOK
  <2> QED BY <2>1, <2>4, <2>10, <2>11, <2>12, <2>13, <2>14, HandlerGoesOn
<1>6. QED
  BY <1>4, <1>5

\* The other ways a handler's record changes.
SpeechTalk(x, route, s) == [x EXCEPT !.at = "transcribe", !.route = route, !.session = s]
ReadTalk(x, at, sent) == [x EXCEPT !.at = at, !.sent = sent]
GoneTalk(x, aborted) == [x EXCEPT !.connected = FALSE, !.aborted = aborted]

LEMMA SpeechIs ==
  ASSUME NEW x \in TalkType, NEW route \in VoiceRoute, NEW s \in 0..MaxSessions, NEW new, new = SpeechTalk(x, route, s)
  PROVE  new \in TalkType /\ ~Answers(new)
<1> DEFINE y == [at |-> "transcribe", topic |-> x.topic, session |-> s, question |-> x.question, route |-> route,
                 sent |-> x.sent, aborted |-> x.aborted, connected |-> x.connected]
<1>1. new = y
  BY ZenonT(60) DEF TalkType, SpeechTalk
<1>2. /\ x.topic \in Topic \cup {"none"} /\ x.question \in 0..MaxAsked /\ x.sent \in SUBSET (1..MaxAsked)
      /\ x.aborted \in BOOLEAN /\ x.connected \in BOOLEAN
  BY TalkFields
<1>3. "transcribe" \in TalkStage /\ "transcribe" \notin {"dashboard", "desktop", "status", "model"}
  BY DEF TalkStage
<1>4. route \in VoiceRoute \cup {"none"}
  OBVIOUS
<1>5. QED
  BY <1>1, <1>2, <1>3, <1>4, TalkMade

LEMMA ReadIs ==
  ASSUME NEW x \in TalkType, NEW at \in TalkStage, NEW sent \in SUBSET (1..MaxAsked), NEW new, new = ReadTalk(x, at, sent)
  PROVE  new \in TalkType /\ new.at = at /\ new.session = x.session /\ new.question = x.question /\ new.sent = sent
<1> DEFINE y == [at |-> at, topic |-> x.topic, session |-> x.session, question |-> x.question, route |-> x.route,
                 sent |-> sent, aborted |-> x.aborted, connected |-> x.connected]
<1>1. new = y
  BY ZenonT(60) DEF TalkType, ReadTalk
<1>2. /\ x.topic \in Topic \cup {"none"} /\ x.question \in 0..MaxAsked /\ x.session \in 0..MaxSessions
      /\ x.route \in VoiceRoute \cup {"none"} /\ x.aborted \in BOOLEAN /\ x.connected \in BOOLEAN
  BY TalkFields
<1>3. y \in TalkType
  BY ONLY <1>2, at \in TalkStage, sent \in SUBSET (1..MaxAsked) DEF TalkType
<1>4. y.at = at /\ y.session = x.session /\ y.question = x.question /\ y.sent = sent
  OBVIOUS
<1>5. QED
  BY <1>1, <1>3, <1>4

LEMMA GoneIs ==
  ASSUME NEW x \in TalkType, NEW aborted \in BOOLEAN, NEW new, new = GoneTalk(x, aborted)
  PROVE  new \in TalkType /\ new.at = x.at /\ new.session = x.session /\ new.question = x.question /\ new.sent = x.sent
<1> DEFINE y == [at |-> x.at, topic |-> x.topic, session |-> x.session, question |-> x.question, route |-> x.route,
                 sent |-> x.sent, aborted |-> aborted, connected |-> FALSE]
<1>1. new = y
  BY ZenonT(60) DEF TalkType, GoneTalk
<1>2. /\ x.at \in TalkStage /\ x.topic \in Topic \cup {"none"} /\ x.question \in 0..MaxAsked /\ x.session \in 0..MaxSessions
      /\ x.route \in VoiceRoute \cup {"none"} /\ x.sent \in SUBSET (1..MaxAsked)
  BY TalkFields
<1>3. y \in TalkType
  BY ONLY <1>2, aborted \in BOOLEAN DEF TalkType
<1>4. y.at = x.at /\ y.session = x.session /\ y.question = x.question /\ y.sent = x.sent
  OBVIOUS
<1>5. QED
  BY <1>1, <1>3, <1>4

LEMMA AbortedIs ==
  ASSUME NEW x \in TalkType, NEW new, new = [x EXCEPT !.aborted = TRUE]
  PROVE  new \in TalkType /\ new.at = x.at /\ new.session = x.session /\ new.question = x.question /\ new.sent = x.sent
BY DEF TalkType

\* A provider of the voice, where nothing is answered.
LEMMA StageIs ==
  ASSUME NEW x \in TalkType, NEW at \in {"fallback", "speak again"}, NEW new, new = [x EXCEPT !.at = at]
  PROVE  new \in TalkType /\ ~Answers(new)
BY DEF TalkType, TalkStage, Answers

LEMMA OpenedIs ==
  /\ [Silent EXCEPT !.connected = TRUE] \in TalkType /\ ~Answers([Silent EXCEPT !.connected = TRUE])
  /\ [Silent EXCEPT !.at = "stream", !.connected = TRUE] \in TalkType
  /\ ~Answers([Silent EXCEPT !.at = "stream", !.connected = TRUE])
BY NothingIsTyped DEF Silent, TalkType, Answers

\* A handler that answers nothing.
LEMMA TalkIdles ==
  ASSUME ConvInv, NEW c \in ConvClient, NEW new \in TalkType, talk' = [talk EXCEPT ![c] = new], ~Answers(new),
         UNCHANGED <<session, expired, asked>>
  PROVE  ConvInv' /\ DeletedStay
<1>1. HandlerOK(new, session, asked)
  BY DEF HandlerOK
<1>2. QED
  BY <1>1, TalkGoes

\* The voice's provider fails.
LEMMA VoiceFailsKeeps ==
  ASSUME ConvInv, NEW c \in ConvClient, NEW first, NEW second \in {"fallback", "speak again"}, VoiceFails(c, first, second)
  PROVE  ConvInv' /\ DeletedStay
<1>1. UNCHANGED <<session, expired, asked>> /\ talk[c] \in TalkType
  BY DEF VoiceFails, ConvInv, ConvTypes
<1>2. CASE TalkAt(c, first) /\ talk[c].route = "auto" /\ ~talk[c].aborted
  <2> DEFINE new == [talk[c] EXCEPT !.at = second]
  <2>1. talk' = [talk EXCEPT ![c] = new]
    BY <1>2 DEF VoiceFails, Say
  <2>2. new \in TalkType /\ ~Answers(new)
    BY <1>1, StageIs
  <2> HIDE DEF new
  <2> QED BY <1>1, <2>1, <2>2, TalkIdles
<1>3. CASE ~(TalkAt(c, first) /\ talk[c].route = "auto" /\ ~talk[c].aborted)
  <2>1. Reply(c)
    BY <1>3 DEF VoiceFails
  <2> QED BY <1>1, <2>1, ReplyKeeps
<1>4. QED
  BY <1>2, <1>3

\* The messages the model is asked with hold the question that has no answer.
LEMMA QuestionIsSent ==
  ASSUME NEW rows \in Seq(Message)
  PROVE  Questions(rows) \in SUBSET (1..MaxAsked) /\ \A q : Unanswered(rows, q) => q \in Questions(rows)
<1>1. ASSUME NEW i \in DOMAIN rows PROVE rows[i].question \in 1..MaxAsked
  <2>1. rows[i] \in Message
    BY ElementOfSeq
  <2> QED BY <2>1 DEF Message
<1>2. Questions(rows) \in SUBSET (1..MaxAsked)
  BY <1>1 DEF Questions
<1>3. ASSUME NEW q, Unanswered(rows, q) PROVE q \in Questions(rows)
  <2>1. PICK j \in DOMAIN rows : rows[j] = [role |-> "user", question |-> q]
    BY <1>3 DEF Unanswered
  <2>2. rows[j].role = "user" /\ rows[j].question = q
    BY <2>1
  <2> QED BY <2>2 DEF Questions
<1>4. QED
  BY <1>2, <1>3

\* The dashboard has not answered: the desktop, or the messages are read for the model, or a plan is made.
LEMMA DesktopKeeps ==
  ASSUME ConvInv, NEW c \in ConvClient, DesktopAnswers(c)
  PROVE  ConvInv' /\ DeletedStay
<1> DEFINE s == talk[c].session
           topic == talk[c].topic
<1>1. Answers(talk[c]) /\ UNCHANGED asked
  BY DEF DesktopAnswers, TalkAt, Answers
<1>2. CASE AppendAnswer(c, "speakable")
  BY <1>1, <1>2, AppendAnswerKeeps
<1>3. CASE Reply(c) /\ UNCHANGED <<session, expired>>
  BY <1>1, <1>3, ReplyKeeps
<1>4. CASE Answered(c, "speakable") /\ UNCHANGED <<session, expired>>
  <2>1. PICK new \in TalkType : talk' = [talk EXCEPT ![c] = new] /\ ~Answers(new)
    BY <1>4, AnsweredIs
  <2> QED BY <1>1, <1>4, <2>1, TalkIdles
<1>5. CASE /\ Live(s) /\ UNCHANGED <<session, expired>>
           /\ talk' = [talk EXCEPT ![c] = ReadTalk(talk[c], IF topic = "talk" THEN "model" ELSE "status",
                                                   Questions(session[s].rows))]
  <2> DEFINE at == IF topic = "talk" THEN "model" ELSE "status"
             sent == Questions(session[s].rows)
             new == ReadTalk(talk[c], at, sent)
  <2>1. session[s].rows \in Seq(Message) /\ talk[c] \in TalkType /\ HandlerOK(talk[c], session, asked)
    BY <1>5 DEF Live, ConvInv, ConvTypes, SessionType, HandlersOK
  <2>2. sent \in SUBSET (1..MaxAsked) /\ \A q : Unanswered(session[s].rows, q) => q \in sent
    BY <2>1, QuestionIsSent
  <2>3. Unanswered(session[s].rows, talk[c].question)
    BY <1>1, <1>5, <2>1 DEF Live, HandlerOK
  <2>4. at \in TalkStage
    BY DEF TalkStage
  <2> HIDE DEF at, sent
  <2>5. new \in TalkType /\ new.session = s /\ new.question = talk[c].question /\ new.sent = sent
    BY <2>1, <2>2, <2>4, ReadIs
  <2>6. talk' = [talk EXCEPT ![c] = new]
    BY <1>5 DEF at, sent
  <2> HIDE DEF new
  <2>7. HandlerOK(new, session, asked)
    BY <1>1, <2>1, <2>2, <2>3, <2>5 DEF HandlerOK
  <2> QED BY <1>1, <1>5, <2>5, <2>6, <2>7, TalkGoes
<1>6. QED
  BY <1>2, <1>3, <1>4, <1>5 DEF DesktopAnswers, Say, ReadTalk

\* The connection goes, and the request is aborted or does not hear of it.
LEMMA DisconnectKeeps ==
  ASSUME ConvInv, NEW c \in ConvClient, Disconnect(c)
  PROVE  ConvInv' /\ DeletedStay
<1>1. UNCHANGED <<session, expired, asked>> /\ talk[c] \in TalkType /\ HandlerOK(talk[c], session, asked)
  BY DEF Disconnect, ConvInv, ConvTypes, HandlersOK
<1>2. CASE TalkAt(c, "stream")
  <2>1. Reply(c)
    BY <1>2 DEF Disconnect
  <2> QED BY <1>1, <2>1, ReplyKeeps
<1>3. CASE ~TalkAt(c, "stream")
  <2>1. PICK heard \in BOOLEAN :
          talk' = [talk EXCEPT ![c] = GoneTalk(talk[c], talk[c].aborted \/ heard \/ talk[c].route # "none")]
    BY <1>3 DEF Disconnect, Say, GoneTalk
  <2> DEFINE aborted == talk[c].aborted \/ heard \/ talk[c].route # "none"
             new == GoneTalk(talk[c], aborted)
  <2>2. aborted \in BOOLEAN
    OBVIOUS
  <2> HIDE DEF aborted
  <2>3. new \in TalkType /\ new.at = talk[c].at /\ new.session = talk[c].session /\ new.question = talk[c].question
        /\ new.sent = talk[c].sent
    BY <1>1, <2>2, GoneIs
  <2>4. talk' = [talk EXCEPT ![c] = new]
    BY <2>1 DEF aborted
  <2> HIDE DEF new
  <2>5. HandlerOK(new, session, asked) /\ (Answers(new) => Answers(talk[c]) /\ new.question = talk[c].question)
    BY <1>1, <2>3 DEF HandlerOK, Answers
  <2> QED BY <1>1, <2>3, <2>4, <2>5, TalkGoes
<1>4. QED
  BY <1>2, <1>3

\* A session is deleted, or the next process purges what has expired.
LEMMA SessionsLeave ==
  ASSUME ConvInv, NEW gone \in SUBSET SessionId, \A s \in gone : session[s].state # "unused",
         session' = [s \in SessionId |-> IF s \in gone THEN MissingSession("deleted") ELSE session[s]],
         UNCHANGED asked, expired' \subseteq expired
  PROVE  /\ session' \in [SessionId -> SessionType] /\ expired' \subseteq SessionId /\ SessionsOK' /\ RowsOK' /\ DeletedStay
         /\ \A c \in ConvClient : HandlerOK(talk[c], session', asked')
<1>1. /\ session \in [SessionId -> SessionType] /\ expired \subseteq SessionId /\ SessionsOK /\ RowsOK /\ HandlersOK
      /\ asked \in 0..MaxAsked
  BY DEF ConvInv, ConvTypes
<1> DEFINE none == MissingSession("deleted")
<1>2. none \in SessionType /\ none.state = "deleted" /\ none.rows = <<>>
  BY DEF SessionType, MissingSession
<1>3. Follows(<<>>)
  BY DEF Follows
<1> HIDE DEF none
<1>4. session' \in [SessionId -> SessionType] /\ \A s \in SessionId : session'[s] = IF s \in gone THEN none ELSE session[s]
  BY <1>1, <1>2 DEF none
<1>5. SessionsOK'
  <2>1. PICK k \in 0..MaxSessions : \A s \in SessionId : session[s].state # "unused" <=> s <= k
    BY <1>1 DEF SessionsOK
  <2>2. \A s \in SessionId : session'[s].state # "unused" <=> s <= k
    BY <1>2, <1>4, <2>1
  <2>3. \A s \in SessionId : session'[s].state # "live" => session'[s].rows = <<>>
    BY <1>1, <1>2, <1>4 DEF SessionsOK
  <2>4. \A s \in expired' : session'[s].state # "unused"
    BY <1>1, <1>2, <1>4 DEF SessionsOK
  <2> QED BY <2>2, <2>3, <2>4 DEF SessionsOK
<1>6. RowsOK'
  BY <1>1, <1>2, <1>3, <1>4 DEF RowsOK
<1>7. DeletedStay
  <2>1. ASSUME NEW s \in SessionId, session[s].state = "deleted" PROVE session'[s] = session[s]
    <3>1. session[s].rows = <<>> /\ session[s] \in SessionType
      BY <1>1, <2>1 DEF SessionsOK
    <3>2. session[s] = none
      BY <2>1, <3>1 DEF none, MissingSession, SessionType
    <3> QED BY <1>4, <3>2
  <2> QED BY <2>1 DEF DeletedStay
<1>8. ASSUME NEW c \in ConvClient, Answers(talk[c]) PROVE HandlerOK(talk[c], session', asked')
  <2>1. /\ talk[c].session \in SessionId /\ talk[c].question \in 1..asked /\ session[talk[c].session].state # "unused"
        /\ session[talk[c].session].state = "live" => Unanswered(session[talk[c].session].rows, talk[c].question)
        /\ talk[c].at = "model" => talk[c].question \in talk[c].sent
    BY <1>1, <1>8 DEF HandlersOK, HandlerOK
  <2>2. /\ session'[talk[c].session].state # "unused"
        /\ session'[talk[c].session].state = "live" => session'[talk[c].session] = session[talk[c].session]
    BY <1>2, <1>4, <2>1
  <2> QED BY <2>1, <2>2 DEF HandlerOK
<1>9. QED
  BY <1>1, <1>4, <1>5, <1>6, <1>7, <1>8 DEF HandlerOK

LEMMA SessionDeleteKeeps ==
  ASSUME ConvInv, NEW s \in SessionId, DeleteSession(s)
  PROVE  ConvInv' /\ DeletedStay
<1>1. session[s].state = "live" /\ UNCHANGED <<expired, talk, asked>> /\ session \in [SessionId -> SessionType]
  BY DEF DeleteSession, Live, ConvInv, ConvTypes
<1>2. session' = [x \in SessionId |-> IF x \in {s} THEN MissingSession("deleted") ELSE session[x]]
  BY <1>1 DEF DeleteSession
<1>3. /\ session' \in [SessionId -> SessionType] /\ expired' \subseteq SessionId /\ SessionsOK' /\ RowsOK' /\ DeletedStay
      /\ \A c \in ConvClient : HandlerOK(talk[c], session', asked')
  <2>1. {s} \in SUBSET SessionId /\ \A x \in {s} : session[x].state # "unused"
    BY <1>1
  <2> QED BY <1>1, <1>2, <2>1, SessionsLeave
<1>4. ConvTypes' /\ HandlersOK'
  BY <1>1, <1>3 DEF ConvInv, ConvTypes, HandlersOK
<1>5. QED
  BY <1>3, <1>4 DEF ConvInv

LEMMA RestartKeeps ==
  ASSUME ConvInv, RestartHost
  PROVE  ConvInv' /\ DeletedStay
<1>1. /\ expired \subseteq SessionId /\ \A s \in expired : session[s].state # "unused"
      /\ asked \in 0..MaxAsked
  BY DEF ConvInv, ConvTypes, SessionsOK
<1>2. /\ session' = [s \in SessionId |-> IF s \in expired THEN MissingSession("deleted") ELSE session[s]]
      /\ UNCHANGED asked /\ expired' = {} /\ talk' = [c \in ConvClient |-> Silent]
  BY DEF RestartHost
<1>3. /\ session' \in [SessionId -> SessionType] /\ expired' \subseteq SessionId /\ SessionsOK' /\ RowsOK' /\ DeletedStay
  <2>1. expired' \subseteq expired /\ expired \in SUBSET SessionId
    BY <1>1, <1>2
  <2> QED BY <1>1, <1>2, <2>1, SessionsLeave
<1>4. ConvTypes'
  BY <1>1, <1>2, <1>3, SilentTyped DEF ConvTypes
<1>5. HandlersOK'
  BY <1>2, SilentTyped DEF HandlersOK, HandlerOK
<1>6. QED
  BY <1>3, <1>4, <1>5 DEF ConvInv

LEMMA StopKeeps ==
  ASSUME ConvInv, StopHost
  PROVE  ConvInv' /\ DeletedStay
<1>1. ConvTypes /\ SessionsOK /\ RowsOK /\ HandlersOK /\ UNCHANGED <<session, expired, asked>>
  BY DEF ConvInv, StopHost
<1>2. talk' = [c \in ConvClient |-> IF TalkAt(c, "idle") \/ TalkAt(c, "stream") THEN talk[c]
                                    ELSE [talk[c] EXCEPT !.aborted = TRUE]]
  BY DEF StopHost
<1>3. ASSUME NEW c \in ConvClient
      PROVE  /\ talk'[c] \in TalkType /\ talk'[c].at = talk[c].at /\ talk'[c].session = talk[c].session
             /\ talk'[c].question = talk[c].question /\ talk'[c].sent = talk[c].sent
  <2>1. talk[c] \in TalkType /\ (talk'[c] = talk[c] \/ talk'[c] = [talk[c] EXCEPT !.aborted = TRUE])
    BY <1>1, <1>2 DEF ConvTypes
  <2>2. CASE talk'[c] = talk[c]
    BY <2>1, <2>2
  <2>3. CASE talk'[c] = [talk[c] EXCEPT !.aborted = TRUE]
    BY <2>1, <2>3, AbortedIs
  <2> QED BY <2>1, <2>2, <2>3
<1>4. talk' \in [ConvClient -> TalkType]
  BY <1>2, <1>3
<1>5. ConvTypes' /\ SessionsOK' /\ RowsOK' /\ DeletedStay
  BY <1>1, <1>4 DEF ConvTypes, SessionsOK, RowsOK, DeletedStay
<1>6. HandlersOK'
  <2>1. ASSUME NEW c \in ConvClient PROVE HandlerOK(talk'[c], session', asked')
    <3>1. HandlerOK(talk[c], session, asked)
      BY <1>1 DEF HandlersOK
    <3> QED BY <1>1, <1>3, <3>1 DEF HandlerOK, Answers
  <2>2. ASSUME NEW c \in ConvClient, NEW d \in ConvClient, Answers(talk'[c]), Answers(talk'[d]),
               talk'[c].question = talk'[d].question
        PROVE  c = d
    BY <1>1, <1>3, <2>2 DEF HandlersOK, Answers
  <2> QED BY <2>1, <2>2 DEF HandlersOK
<1>7. QED
  BY <1>5, <1>6 DEF ConvInv

\* The conversations keep their invariant, and what was deleted stays so.
LEMMA ConvStep ==
  ASSUME ConvInv, [ConvNext]_convVars
  PROVE  ConvInv' /\ DeletedStay
<1>1. ASSUME NEW c \in ConvClient, Handler(c) PROVE ConvInv' /\ DeletedStay
  <2>1. CASE TranscriptionFails(c)
    BY <2>1, VoiceFailsKeeps DEF TranscriptionFails
  <2>2. CASE SpeechFails(c)
    BY <2>2, VoiceFailsKeeps DEF SpeechFails
  <2>3. CASE Heard(c)
    <3>1. PICK topic \in Topic : AppendQuestion(c, talk[c], talk[c].session, topic)
      BY <2>3 DEF Heard
    <3>2. talk[c].session \in 0..MaxSessions
      BY TalkFields DEF ConvInv, ConvTypes
    <3> QED BY <3>1, <3>2, AppendQuestionKeeps
  <2>4. CASE HeardStop(c) \/ Spoken(c) \/ ModelFails(c)
    BY <2>4, ReplyKeeps DEF HeardStop, Spoken, ModelFails
  <2>5. CASE DashboardAnswers(c)
    <3>1. Answers(talk[c]) /\ UNCHANGED asked /\ (AppendAnswer(c, "speakable") \/ (Reply(c) /\ UNCHANGED <<session, expired>>))
      BY <2>5 DEF DashboardAnswers, TalkAt, Answers
    <3>2. CASE AppendAnswer(c, "speakable")
      BY <3>1, <3>2, AppendAnswerKeeps
    <3>3. CASE Reply(c) /\ UNCHANGED <<session, expired>>
      BY <3>1, <3>3, ReplyKeeps
    <3> QED BY <3>1, <3>2, <3>3
  <2>6. CASE DesktopAnswers(c)
    BY <2>6, DesktopKeeps
  <2>7. CASE StatusAnswers(c)
    <3>1. Answers(talk[c]) /\ UNCHANGED asked /\ (AppendAnswer(c, "speakable") \/ (Reply(c) /\ UNCHANGED <<session, expired>>))
      BY <2>7 DEF StatusAnswers, TalkAt, Answers
    <3>2. CASE AppendAnswer(c, "speakable")
      BY <3>1, <3>2, AppendAnswerKeeps
    <3>3. CASE Reply(c) /\ UNCHANGED <<session, expired>>
      BY <3>1, <3>3, ReplyKeeps
    <3> QED BY <3>1, <3>2, <3>3
  <2>8. CASE ModelAnswers(c)
    <3>1. Answers(talk[c]) /\ UNCHANGED asked
      BY <2>8 DEF ModelAnswers, TalkAt, Answers
    <3>2. PICK size \in Size : AppendAnswer(c, size)
      BY <2>8 DEF ModelAnswers
    <3> QED BY <3>1, <3>2, AppendAnswerKeeps
  <2>9. CASE FlushStream(c)
    <3>1. UNCHANGED <<session, expired, asked>> /\ (Reply(c) \/ UNCHANGED talk)
      BY <2>9 DEF FlushStream
    <3>2. CASE Reply(c)
      BY <3>1, <3>2, ReplyKeeps
    <3>3. CASE UNCHANGED talk
      BY <3>1, <3>3 DEF ConvInv, ConvTypes, SessionsOK, RowsOK, HandlersOK, DeletedStay
    <3> QED BY <3>1, <3>2, <3>3
  <2> QED BY <1>1, <2>1, <2>2, <2>3, <2>4, <2>5, <2>6, <2>7, <2>8, <2>9 DEF Handler
<1>2. ASSUME NEW c \in ConvClient, Connect(c) \/ OpenStream(c) PROVE ConvInv' /\ DeletedStay
  <2>1. UNCHANGED <<session, expired, asked>>
    BY <1>2 DEF Connect, OpenStream
  <2>2. PICK new \in TalkType : talk' = [talk EXCEPT ![c] = new] /\ ~Answers(new)
    BY <1>2, OpenedIs DEF Connect, OpenStream, Say
  <2> QED BY <2>1, <2>2, TalkIdles
<1>3. ASSUME NEW c \in ConvClient, ClientSends(c) PROVE ConvInv' /\ DeletedStay
  <2>1. PICK s \in 0..MaxSessions : (\E topic \in Topic : SendText(c, s, topic)) \/ \E route \in VoiceRoute : SendSpeech(c, route, s)
    BY <1>3, RoutesBound DEF ClientSends
  <2>2. CASE \E topic \in Topic : SendText(c, s, topic)
    BY <2>2, AppendQuestionKeeps DEF SendText
  <2>3. ASSUME NEW route \in VoiceRoute, SendSpeech(c, route, s) PROVE ConvInv' /\ DeletedStay
    <3> DEFINE new == SpeechTalk(talk[c], route, s)
    <3>1. talk' = [talk EXCEPT ![c] = new] /\ UNCHANGED <<session, expired, asked>>
      BY <2>3 DEF SendSpeech, Say, SpeechTalk
    <3>2. talk[c] \in TalkType
      BY DEF ConvInv, ConvTypes
    <3>3. new \in TalkType /\ ~Answers(new)
      BY <3>2, SpeechIs
    <3> HIDE DEF new
    <3> QED BY <3>1, <3>3, TalkIdles
  <2> QED BY <2>1, <2>2, <2>3
<1>4. ASSUME NEW s \in SessionId, Expires(s) PROVE ConvInv' /\ DeletedStay
  <2>1. UNCHANGED <<session, talk, asked>> /\ expired' = expired \cup {s} /\ session[s].state = "live"
    BY <1>4 DEF Expires, Live
  <2>2. ConvTypes /\ SessionsOK /\ RowsOK /\ HandlersOK
    BY DEF ConvInv
  <2>3. SessionsOK'
    BY <2>1, <2>2 DEF SessionsOK
  <2> QED BY <2>1, <2>2, <2>3 DEF ConvInv, ConvTypes, RowsOK, HandlersOK, DeletedStay
<1>5. CASE UNCHANGED <<session, expired, talk, asked>>
  BY <1>5 DEF ConvInv, ConvTypes, SessionsOK, RowsOK, HandlersOK, DeletedStay
<1>6. CASE ChildEnds \/ StoresClose \/ UNCHANGED convVars
  <2>1. UNCHANGED <<session, expired, talk, asked>>
    BY <1>6 DEF ChildEnds, StoresClose, convVars
  <2> QED BY <1>5, <2>1
<1>7. QED
  BY <1>1, <1>2, <1>3, <1>4, <1>6, DisconnectKeeps, SessionDeleteKeeps, StopKeeps, RestartKeeps DEF ConvNext

LEMMA ConvBegins ==
  ASSUME ConvInit
  PROVE  ConvInv
<1>1. /\ session = [s \in SessionId |-> MissingSession("unused")] /\ expired = {} /\ talk = [c \in ConvClient |-> Silent]
      /\ asked = 0
  BY DEF ConvInit
<1>2. MissingSession("unused") \in SessionType /\ Follows(<<>>) /\ DOMAIN <<>> = {}
  BY DEF MissingSession, SessionType, Follows
<1>3. ConvTypes /\ HandlersOK
  BY <1>1, <1>2, SilentTyped, NothingIsTyped DEF ConvTypes, HandlersOK
<1>4. SessionsOK
  <2>1. 0 \in 0..MaxSessions /\ \A s \in SessionId : session[s].state # "unused" <=> s <= 0
    BY <1>1, ConvAssumption DEF SessionId, MissingSession
  <2> QED BY <1>1, <2>1 DEF SessionsOK, MissingSession
<1>5. RowsOK
  BY <1>1, <1>2 DEF RowsOK, MissingSession
<1>6. QED
  BY <1>3, <1>4, <1>5 DEF ConvInv

LEMMA ConversationIsKept ==
  ASSUME ConvInv
  PROVE  AnswersFollowQuestions /\ ModelSeesQuestion
BY DEF ConvInv, RowsOK, Follows, HandlersOK, HandlerOK, Answers, TalkAt, AnswersFollowQuestions, ModelSeesQuestion

\* The host and the children of the owner's plans.
WorkInv == /\ convHost \in {"up", "stopping", "closed"}
           /\ convWork \in [queued: Nat, running: Nat] /\ convWork.queued + convWork.running <= MaxPlanned

LEMMA PumpKeeps ==
  ASSUME NEW w \in [queued: Nat, running: Nat]
  PROVE  Pump(w) \in [queued: Nat, running: Nat] /\ Pump(w).queued + Pump(w).running = w.queued + w.running
<1>1. CASE w.queued > 0 /\ w.running < 2
  <2>1. w.queued - 1 \in Nat /\ w.running + 1 \in Nat /\ (w.queued - 1) + (w.running + 1) = w.queued + w.running
    BY <1>1
  <2> QED BY <1>1, <2>1 DEF Pump
<1>2. CASE ~(w.queued > 0 /\ w.running < 2)
  BY <1>2 DEF Pump
<1>3. QED
  BY <1>1, <1>2

LEMMA WorkBegins ==
  ASSUME ConvInit
  PROVE  WorkInv
BY ConvAssumption DEF ConvInit, WorkInv

LEMMA WorkIsBounded ==
  ASSUME WorkInv
  PROVE  convWork \in [queued: 0..MaxPlanned, running: 0..MaxPlanned]
<1>1. convWork.queued \in 0..MaxPlanned /\ convWork.running \in 0..MaxPlanned
  BY ConvAssumption DEF WorkInv
<1>2. QED
  BY <1>1 DEF WorkInv

LEMMA WorkStep ==
  ASSUME WorkInv, [ConvNext]_convVars
  PROVE  WorkInv'
<1>1. CASE UNCHANGED <<convHost, convWork>>
  BY <1>1 DEF WorkInv
<1>2. ASSUME NEW c \in ConvClient, DesktopAnswers(c)
      PROVE  WorkInv'
  <2>1. CASE convWork' = convWork
    BY <1>1, <1>2, <2>1 DEF DesktopAnswers
  <2>2. CASE convWork' # convWork
    <3> DEFINE w == [convWork EXCEPT !.queued = @ + 1]
    <3>1. convWork' = Pump(w) /\ convWork.queued + convWork.running < MaxPlanned /\ convHost' = convHost
      BY <1>2, <2>2 DEF DesktopAnswers
    <3>2. w \in [queued: Nat, running: Nat] /\ w.queued = convWork.queued + 1 /\ w.running = convWork.running
      BY DEF WorkInv
    <3> HIDE DEF w
    <3>3. convWork' \in [queued: Nat, running: Nat] /\ convWork'.queued + convWork'.running = w.queued + w.running
      BY <3>1, <3>2, PumpKeeps
    <3>4. w.queued + w.running <= MaxPlanned
      BY <3>1, <3>2, ConvAssumption DEF WorkInv
    <3> QED BY <3>1, <3>3, <3>4 DEF WorkInv
  <2> QED BY <2>1, <2>2
<1>3. ASSUME NEW c \in ConvClient, FlushStream(c)
      PROVE  WorkInv'
  BY <1>3, PumpKeeps DEF FlushStream, WorkInv
<1>4. CASE ChildEnds
  <2>1. convWork.running > 0 /\ convWork' = [convWork EXCEPT !.running = @ - 1] /\ convHost' = convHost
    BY <1>4 DEF ChildEnds
  <2>2. convWork.running - 1 \in Nat
    BY <2>1 DEF WorkInv
  <2> QED BY <2>1, <2>2, ConvAssumption DEF WorkInv
<1>5. CASE StopHost
  <2>1. convWork' = [convWork EXCEPT !.running = 0] /\ convHost' = "stopping"
    BY <1>5 DEF StopHost
  <2> QED BY <2>1, ConvAssumption DEF WorkInv
<1>6. CASE StoresClose \/ RestartHost
  BY <1>6, ConvAssumption DEF StoresClose, RestartHost, WorkInv
<1>7. ASSUME NEW c \in ConvClient, Handler(c)
      PROVE  WorkInv'
  BY <1>1, <1>2, <1>3, <1>7 DEF Handler, TranscriptionFails, SpeechFails, VoiceFails, Heard, HeardStop, Spoken,
     DashboardAnswers, StatusAnswers, ModelAnswers, ModelFails
<1>8. ASSUME NEW c \in ConvClient, Connect(c) \/ ClientSends(c) \/ OpenStream(c) \/ Disconnect(c)
      PROVE  WorkInv'
  BY <1>1, <1>8 DEF Connect, ClientSends, SendText, SendSpeech, OpenStream, Disconnect
<1>9. ASSUME NEW s \in SessionId, DeleteSession(s) \/ Expires(s)
      PROVE  WorkInv'
  BY <1>1, <1>9 DEF DeleteSession, Expires
<1>10. QED
  BY <1>1, <1>4, <1>5, <1>6, <1>7, <1>8, <1>9 DEF ConvNext, convVars

-----------------------------------------------------------------------------
(* The parts as components of the sum *)

\* A step of the sum is one of a part or leaves the part alone.
LEMMA StepOfPart ==
  ASSUME [ComponentsNext]_componentsVars
  PROVE  /\ [OfficeNext]_officeVars /\ [DashNext]_dashVars /\ [MemNext]_memVars /\ [ShellNext]_shellVars
         /\ [RuntimeNext]_runtimeVars /\ [ConvNext]_convVars /\ [SettingsNext]_settingsVars /\ [QQNext]_qqVars
         /\ [SkillNext]_skillVars /\ [RegistryNext]_registryVars /\ [VoiceNext]_voiceVars
         /\ [DeskOfficeNext]_deskOfficeVars /\ [WorkbenchNext]_workbenchVars /\ [RailNext]_railVars
         /\ [PanelNext]_panelVars /\ part' = part
<1>1. CASE UNCHANGED componentsVars
  BY <1>1 DEF componentsVars
<1>2. CASE ComponentsNext
  <2>1. /\ Others /\ (part = "office" => OfficeNext) /\ (part = "dashboard" => DashNext)
        /\ (part = "memory" => MemNext) /\ (part = "shell" => ShellNext)
        /\ (part = "runtime" => RuntimeNext) /\ (part = "conversation" => ConvNext)
        /\ (part = "settings" => SettingsNext) /\ (part = "qq" => QQNext)
        /\ (part = "skill" => SkillNext) /\ (part = "registry" => RegistryNext)
        /\ (part = "voice" => VoiceNext) /\ (part = "desktop office" => DeskOfficeNext)
        /\ (part = "workbench" => WorkbenchNext) /\ (part = "rail" => RailNext) /\ (part = "panels" => PanelNext)
    BY <1>2 DEF ComponentsNext
  <2> QED BY <2>1 DEF Others
<1>3. QED
  BY <1>1, <1>2

\* The office of the sum keeps the invariant.
LEMMA OfficeAlways == ComponentsSpec => []OfficeInv
<1>1. ComponentsInit => OfficeInv
  BY OfficeBegins DEF ComponentsInit
<1>2. OfficeInv /\ [ComponentsNext]_componentsVars => OfficeInv'
  BY StepOfPart, OfficeStep
<1>3. QED
  BY <1>1, <1>2, PTL DEF ComponentsSpec

\* Dashboard, memories and shell keep their invariants.
LEMMA RecordsAlways == ComponentsSpec => []DashInv /\ []MemInv /\ []ShellInv
<1>1. ComponentsInit => DashInv /\ MemInv /\ ShellInv
  BY DashBegins, MemBegins, ShellBegins DEF ComponentsInit
<1>2. DashInv /\ [ComponentsNext]_componentsVars => DashInv'
  BY StepOfPart, DashStepKeeps
<1>3. MemInv /\ [ComponentsNext]_componentsVars => MemInv'
  BY StepOfPart, MemStep
<1>4. ShellInv /\ [ComponentsNext]_componentsVars => ShellInv'
  BY StepOfPart, ShellStep
<1>5. QED
  BY <1>1, <1>2, <1>3, <1>4, PTL DEF ComponentsSpec

\* So do the runs of the coding backends and the conversations.
LEMMA WorkAlways == ComponentsSpec => []RuntimeInv /\ []PipeInv /\ []ConvInv /\ []WorkInv
<1>1. ComponentsInit => RuntimeInv /\ PipeInv /\ ConvInv /\ WorkInv
  BY RuntimeBegins, PipeBegins, ConvBegins, WorkBegins DEF ComponentsInit
<1>2. RuntimeInv /\ [ComponentsNext]_componentsVars => RuntimeInv'
  BY StepOfPart, RuntimeStep
<1>3. RuntimeInv /\ PipeInv /\ [ComponentsNext]_componentsVars => PipeInv'
  BY StepOfPart, PipeStep DEF RuntimeInv, RuntimeTypes
<1>4. ConvInv /\ [ComponentsNext]_componentsVars => ConvInv'
  BY StepOfPart, ConvStep
<1>5. WorkInv /\ [ComponentsNext]_componentsVars => WorkInv'
  BY StepOfPart, WorkStep
<1>6. QED
  BY <1>1, <1>2, <1>3, <1>4, <1>5, PTL DEF ComponentsSpec

\* So do the managers, the channel, the skill and the registry of plugins.
LEMMA HostAlways == ComponentsSpec => []SettingsInv /\ [](QQInv /\ RepliesOK) /\ []SkillInv /\ []RegistryInv
<1>1. ComponentsInit => SettingsInv /\ QQInv /\ RepliesOK /\ SkillInv /\ RegistryInv
  BY SettingsBegins, QQBegins, RepliesBegin, SkillBegins, RegistryBegins DEF ComponentsInit
<1>2. SettingsInv /\ [ComponentsNext]_componentsVars => SettingsInv'
  BY StepOfPart, SettingsStep
<1>3. QQInv /\ RepliesOK /\ [ComponentsNext]_componentsVars => QQInv' /\ RepliesOK'
  BY StepOfPart, QQStep, RepliesKeep
<1>4. SkillInv /\ [ComponentsNext]_componentsVars => SkillInv'
  BY StepOfPart, SkillStep
<1>5. RegistryInv /\ [ComponentsNext]_componentsVars => RegistryInv'
  BY StepOfPart, RegistryStep
<1>6. QED
  BY <1>1, <1>2, <1>3, <1>4, <1>5, PTL DEF ComponentsSpec

\* And the pages of the desktop.
LEMMA PagesAlways == ComponentsSpec => []VoiceInv /\ []DeskOfficeInv /\ []WorkbenchInv /\ []RailInv /\ []PanelInv
<1>1. ComponentsInit => VoiceInv /\ DeskOfficeInv /\ WorkbenchInv /\ RailInv /\ PanelInv
  BY VoiceBegins, DeskOfficeBegins, WorkbenchBegins, RailBegins, PanelBegins DEF ComponentsInit
<1>2. VoiceInv /\ [ComponentsNext]_componentsVars => VoiceInv'
  BY StepOfPart, VoiceStep
<1>3. DeskOfficeInv /\ [ComponentsNext]_componentsVars => DeskOfficeInv'
  BY StepOfPart, DeskOfficeStep
<1>4. WorkbenchInv /\ [ComponentsNext]_componentsVars => WorkbenchInv'
  BY StepOfPart, WorkbenchStep
<1>5. RailInv /\ [ComponentsNext]_componentsVars => RailInv'
  BY StepOfPart, RailStep
<1>6. PanelInv /\ [ComponentsNext]_componentsVars => PanelInv'
  BY StepOfPart, PanelStep
<1>7. QED
  BY <1>1, <1>2, <1>3, <1>4, <1>5, <1>6, PTL DEF ComponentsSpec

\* While the office runs it shows a run exactly while the model is called for it,
\* makes at most MaxActive calls at a time and one of each agent, and calls once for
\* each time the owner queued a task: for any number of agents, tasks and slots,
\* whatever is cancelled, stopped, lost or not saved (office.ts drain, run, cancel).
THEOREM CallsFollowOwner == ComponentsSpec => []OfficeCallsAgree
<1>1. OfficeInv => OfficeCallsAgree
  <2> SUFFICES ASSUME OfficeInv PROVE RunningIsCalled /\ CallsAreBounded /\ CalledWhenAsked
    BY DEF OfficeCallsAgree
  <2> QED BY DEF OfficeInv, CallsOK, CalledWhenAsked
<1>2. QED
  BY <1>1, OfficeAlways, PTL

\* Of the due tasks of one agent the oldest is run first, whatever was created,
\* cancelled or retried between two drains (office.ts drain).
THEOREM AgentsServeInOrder == ComponentsSpec => OldestFirst
<1> DEFINE Served == officeProcess = "up" => \A i, j \in DOMAIN order :
       LET t == order[i] u == order[j] IN
       /\ i < j /\ officeTask[t].agent = officeTask[u].agent
       /\ Runnable(t)
       => ~(active[u] = "none" /\ active'[u] = "calling")
<1>1. OfficeInv /\ [ComponentsNext]_componentsVars => [Served]_officeVars
  <2> SUFFICES ASSUME OfficeInv, OfficeNext, officeProcess = "up",
                      NEW i \in DOMAIN order, NEW j \in DOMAIN order, i < j,
                      officeTask[order[i]].agent = officeTask[order[j]].agent,
                      Runnable(order[i]), active[order[j]] = "none", active'[order[j]] = "calling"
               PROVE  FALSE
    BY StepOfPart
  <2>1. /\ order \in Seq(Task) /\ officeTodo \subseteq ToSet(order) /\ IsInjective(order)
        /\ active \in [Task -> {"none", "calling", "aborted"}]
        /\ DOMAIN order \subseteq Int
    BY DEF OfficeInv, OfficeTypeOK
  <2>2. order[i] \in Task /\ order[j] \in Task
    BY <2>1
  <2>3. CASE StartRun \/ StartFails
    <3>1. /\ officeTodo # {} /\ active' = [active EXCEPT ![NextTask] = "calling"]
      BY <2>3 DEF StartRun, StartFails, DrainNext
    <3>2. order[j] = NextTask
      BY <2>1, <2>2, <3>1
    <3>3. PICK k \in DOMAIN order : /\ order[k] = NextTask
                                    /\ \A l \in DOMAIN order : order[l] \in officeTodo => k <= l
      BY <2>1, <3>1, NextIsOldest
    <3>4. k = j
      BY <2>1, <3>2, <3>3 DEF IsInjective
    <3>5. order[i] \in officeTodo
      BY <2>2, <3>1 DEF OfficeInv, TodoIsComplete
    <3>6. j <= i
      BY <3>3, <3>4, <3>5
    <3> QED BY <2>1, <3>6
  <2>4. CASE ~(StartRun \/ StartFails)
    <3>1. \A u \in Task : active'[u] = "calling" => active[u] = "calling"
      BY <2>1, <2>4 DEF OfficeNext, Timer, Drain, OfficeDrainEnds, Skip, RunEnds, RunEndsUnsaved,
         Unwind, Create, Handoff, Complete, Cancel, Retry, Delete, BecomesDue, Shutdown,
         ShutdownFails, OfficeStopDone, Die, OfficeCrash, OfficeEnds, OfficeRestart
    <3> QED BY <2>2, <3>1
  <2> QED BY <2>3, <2>4
<1>2. QED
  BY <1>1, OfficeAlways, PTL DEF ComponentsSpec, OldestFirst

\* The owner's records are what his saves made them: the dashboard's file can be read
\* with the key of the store and holds what was saved as long as no two requests that
\* change it overlap, and what a search of the memories finds is what the file says,
\* but for writes a crash cut short - for any number of requests, entries and memories
\* (personal-dashboard-store.ts, memory-store.ts).
THEOREM RecordsAgree == ComponentsSpec => []OwnersRecordsAgree
<1>1. DashInv /\ MemInv => OwnersRecordsAgree
  BY DashSays, MemoriesAgree DEF OwnersRecordsAgree
<1>2. QED
  BY <1>1, RecordsAlways, PTL

\* A desktop leaves a host behind only where it was killed or failed in its setup: however
\* often it is started and whichever of its threads quit it at once, a quit one has stopped
\* its host (lib.rs stop_host).
THEOREM QuitLeavesNoHost == ComponentsSpec => []QuitStopsHost
<1>1. ShellInv => QuitStopsHost
  BY DEF ShellInv
<1>2. QED
  BY <1>1, RecordsAlways, PTL

\* Dashboard, memories and shell keep their types, the dashboard at most MaxEntries
\* entries however many requests make one at a time.
THEOREM RecordsTyped == ComponentsSpec => [](DashTypeOK /\ MemTypeOK /\ ShellTypeOK)
<1>1. DashInv /\ MemInv /\ ShellInv => DashTypeOK /\ MemTypeOK /\ ShellTypeOK
  BY DashSays, WritesTyped DEF ShellInv
<1>2. QED
  BY <1>1, RecordsAlways, PTL

\* A run of a coding backend that is over has left no process at work but the one of a
\* Codex turn that did not complete (or of a host that was killed), and what it reports as
\* changed is what differs from the start of the run, for any number of turns, lines of
\* output and files; a desktop that is quit leaves no host (runtime-codex, -claude, -pi; lib.rs).
THEOREM NothingLeftAtWork == ComponentsSpec => []NothingIsLeft
<1>1. RuntimeInv /\ ShellInv => NothingIsLeft
  BY DEF RuntimeInv, ShellInv, NothingIsLeft
<1>2. QED
  BY <1>1, RecordsAlways, WorkAlways, PTL

\* A turn completes only after its CLI reported completion, and says that its verification passed just when every command
\* had passed and no abort had come; the task's run completes no other way, a later turn with what was found, in
\* whichever order abort, terminal event, exit and commands come (coding-task-runner.ts, task-worker-session.ts).
THEOREM TurnsSayWhatWasVerified == ComponentsSpec => CompletesAsVerified
<1>1. RuntimeInv /\ [ComponentsNext]_componentsVars =>
        [turn.state # "completed" /\ turn'.state = "completed" =>
           /\ turn.completed
           /\ turn'.verification = "passed" <=> turn.verified = MaxCommands /\ ~run.aborted
           /\ turn.number = 1 => turn'.verification = "passed"]_runtimeVars
  BY StepOfPart, TurnCompletesAsVerified
<1>2. QED
  BY <1>1, WorkAlways, PTL DEF ComponentsSpec, CompletesAsVerified

\* Every answer follows its own question in the same session and is its only one, and the
\* model was given the question it answers: for any number of connections that share
\* sessions, whatever is deleted, aborted or purged under them (server.ts, session-store.ts).
THEOREM AnswersHaveQuestions == ComponentsSpec => []ConversationHolds
<1>1. ConvInv => ConversationHolds
  BY ConversationIsKept DEF ConversationHolds
<1>2. QED
  BY <1>1, WorkAlways, PTL

\* A session that was deleted or purged stays so: the answers under way do not bring it
\* back (session-store.ts appendAssistantMessage).
THEOREM DeletedSessionsStay == ComponentsSpec => DeletedStaysDeleted
<1>1. ConvInv /\ [ComponentsNext]_componentsVars =>
        [\A s \in SessionId : session[s].state = "deleted" => session'[s] = session[s]]_convVars
  BY StepOfPart, ConvStep DEF DeletedStay
<1>2. QED
  BY <1>1, WorkAlways, PTL DEF ComponentsSpec, DeletedStaysDeleted

\* One channel at a time and for the owner in the settings, one task for a message however
\* often it comes, results in the order of their commits: for any number of users, channels,
\* messages and results, whatever fails, closes or restarts (tencent-channel-manager.ts,
\* plugins/channel-tencent).
THEOREM ChannelIsFaithful == ComponentsSpec => []ChannelKeepsFaith
<1>1. QQInv => ChannelKeepsFaith
  BY ChannelPromises DEF ChannelKeepsFaith
<1>2. QED
  BY <1>1, HostAlways, PTL

\* What the owner edited, deleted or took from somebody stays so, and a turn he aborted is not said to have passed,
\* whatever was under way when he did (workshop.ts, session-store.ts, task-worker-session.ts, plugins/channel-tencent
\* runtime.ts).
THEOREM OwnerHasTheLastWord == ComponentsSpec => OwnersWordStands
<1>1. ComponentsSpec => ChannelKeepsPromise
  <2>1. ComponentsInit => Promise!PromiseInit
    BY PromiseBegins DEF ComponentsInit
  <2>2. QQInv /\ RepliesOK /\ [ComponentsNext]_componentsVars => [Promise!PromiseNext]_(Promise!promiseVars)
    BY StepOfPart, PromiseStep
  <2> QED BY <2>1, <2>2, HostAlways, PTL DEF ComponentsSpec, ChannelKeepsPromise, Promise!PromiseSpec
<1>2. ComponentsSpec => EditsAreKept
  <2>1. SkillInv /\ [ComponentsNext]_componentsVars => [skillFile = Edited => skillFile' = Edited]_skillVars
    BY StepOfPart, EditStays
  <2> QED BY <2>1, HostAlways, PTL DEF ComponentsSpec, EditsAreKept
<1>3. QED
  BY <1>1, <1>2, TurnsSayWhatWasVerified, DeletedSessionsStay DEF OwnersWordStands

\* Whatever the desktop's pages await, what comes back is shown and played where it belongs: for any number of recordings,
\* assistants, workers, reloads and clicks (app.ts, office.ts, automation-panel.ts, skill-workshop-panel.ts, memory-render.ts).
THEOREM PagesShowWhatIs == ComponentsSpec => []DesktopShowsWhatIs
<1>1. VoiceInv /\ DeskOfficeInv /\ WorkbenchInv /\ RailInv /\ PanelInv => DesktopShowsWhatIs
  BY VoicePromises, DeskOfficePromises, PanelPromises DEF WorkbenchInv, RailInv, DesktopShowsWhatIs
<1>2. QED
  BY <1>1, PagesAlways, PTL

\* Every variable of every component has its type, for every value of the constants.
THEOREM PartsTyped == ComponentsSpec => []ComponentsTypeOK
<1>1. OfficeInv /\ SettingsInv /\ QQInv /\ SkillInv /\ RegistryInv =>
        OfficeTypeOK /\ SettingsTypeOK /\ QQTypeOK /\ SkillTypeOK /\ RegistryTypeOK
  BY DEF OfficeInv, SettingsInv, QQInv, SkillInv, RegistryInv
<1>2. DashInv /\ MemInv /\ ShellInv => DashTypeOK /\ MemTypeOK /\ ShellTypeOK
  BY DashSays, WritesTyped DEF ShellInv
<1>3. RuntimeInv /\ PipeInv => RuntimeTypeOK
  BY DEF RuntimeInv, RuntimeTypes, RunType, WorkerType, TurnType, PipeInv, RuntimeTypeOK
<1>4. ConvInv /\ WorkInv => ConvTypeOK
  BY WorkIsBounded DEF ConvInv, ConvTypes, TalkType, TalkStage, SessionType, WorkInv, ConvTypeOK
<1>5. VoiceInv /\ DeskOfficeInv /\ WorkbenchInv /\ RailInv /\ PanelInv =>
        VoiceTypeOK /\ DeskOfficeTypeOK /\ WorkbenchTypeOK /\ RailTypeOK /\ PanelTypeOK
  BY VoicePromises, DeskOfficePromises, PanelPromises DEF WorkbenchInv, RailInv
<1>6. OfficeInv /\ SettingsInv /\ QQInv /\ SkillInv /\ RegistryInv /\ DashInv /\ MemInv /\ ShellInv /\ RuntimeInv /\ PipeInv
        /\ ConvInv /\ WorkInv /\ VoiceInv /\ DeskOfficeInv /\ WorkbenchInv /\ RailInv /\ PanelInv => ComponentsTypeOK
  BY <1>1, <1>2, <1>3, <1>4, <1>5 DEF ComponentsTypeOK
<1>7. QED
  BY <1>6, OfficeAlways, HostAlways, RecordsAlways, WorkAlways, PagesAlways, PTL

=============================================================================
