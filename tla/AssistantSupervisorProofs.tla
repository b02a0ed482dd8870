---------------------- MODULE AssistantSupervisorProofs ----------------------
(***************************************************************************)
(* What the supervisor of AssistantSupervisor guarantees for every set of  *)
(* parents, children and tasks, every plan and every limit: the types, the *)
(* tracking of live workers, the evidence of completion, the finality of   *)
(* the graph and the bound on how far concurrent refreshes overshoot.      *)
(*                                                                         *)
(* The chains of one request interleave at their awaits, so what a chain   *)
(* remembers (the children left to visit, the answer it was given, the     *)
(* task it submitted) must still be true of the graph when it goes on.     *)
(* SupInv says which parts of it are, at each point of a chain.            *)
(***************************************************************************)
EXTENDS AssistantSupervisor, TLAPS, FiniteSetTheorems, WellFoundedInduction

\* What the tables say of each other and of the workers' outcomes.
RowsOK ==
  /\ \A p \in Parent : parent[p] = "absent" =>
       \A c \in ChildrenOf(p) : child[c] = "absent"
  /\ \A c \in Child : child[c] \in {"absent", "pending"} => worker[c] = NoTask
  /\ \A c \in Child : child[c] \notin {"absent", "pending"} =>
       worker[c] \in Task /\ asked[worker[c]] = c /\ phase[worker[c]] # "absent"
  /\ \A c \in Child : child[c] = "completed" => phase[worker[c]] = "completed"
  /\ \A p \in Parent : parent[p] = "completed" =>
       \A c \in ChildrenOf(p) : child[c] = "completed"

\* The children a chain has still to visit are its parent's, in the state the
\* loop selected them by, and what it remembers of the worker in hand holds.
ChainOK(p) ==
  /\ chain[p].todo \subseteq ChildrenOf(p)
  /\ chain[p].at \in {"observing", "observed", "cancelling"} =>
       \A c \in chain[p].todo : child[c] = "dispatched"
  /\ chain[p].at \in {"observed", "cancelling", "pumping", "dispatching"} =>
       chain[p].todo # {}
  /\ chain[p].at = "observed" =>
       /\ chain[p].seen # "none"
       /\ chain[p].seen \in Outcome => phase[worker[NextChild(p)]] = chain[p].seen
  /\ chain[p].at = "cancelling" =>
       \A c \in chain[p].todo : worker[c] \notin owned \/ phase[worker[c]] # "running"
  /\ chain[p].at \in {"pumping", "dispatching"} =>
       /\ chain[p].available \in 1..MaxConcurrency
       /\ \A c \in chain[p].todo : child[c] = "pending"
  /\ chain[p].at = "dispatching" =>
       /\ chain[p].handle \in Task
       /\ asked[chain[p].handle] = NextChild(p)
       /\ phase[chain[p].handle] # "absent"

ChainsOK == \A p \in Parent : ChainOK(p)

\* A process that is gone runs nothing, and holds nothing in memory.
HostOK ==
  /\ \A t \in Task : phase[t] = "absent" => t \notin owned
  /\ ~up => owned = {} /\ InFlight = {}

SupInv ==
  TypeOK /\ RowsOK /\ ChainsOK /\ HostOK /\ NoOrphanWorker /\ IsFiniteSet(Active)

-----------------------------------------------------------------------------
(* The slots that the chains of one request have counted and not used *)

Reserve(p) ==
  IF chain[p].at \in {"pumping", "dispatching"} THEN chain[p].available ELSE 0

Reserved == {s \in Parent \X (1..MaxConcurrency) : s[2] <= Reserve(s[1])}

\* A request refreshes at most MaxBatch parents, and what it dispatched and may
\* still dispatch is at most what each of its chains could have counted.
SlotsOK ==
  /\ IsFiniteSet(InFlight)
  /\ Cardinality(InFlight) <= MaxBatch
  /\ Cardinality(Active) + Cardinality(Reserved) <= MaxConcurrency * MaxBatch

-----------------------------------------------------------------------------
(* Operators *)

\* A non-empty set of numbers has a least one: the intervals 1..i, i in the set,
\* are finite sets, and inclusion of finite sets is well-founded.
LEMMA LeastOf ==
  ASSUME NEW S \in SUBSET Nat, S # {}
  PROVE  \E i \in S : \A j \in S : i <= j
<1> DEFINE T == {1..i : i \in S}
<1>1. T \subseteq FiniteSubsetsOf(Nat) /\ T # {}
  <2>1. ASSUME NEW i \in S PROVE 1..i \in FiniteSubsetsOf(Nat)
    <3>1. IsFiniteSet(1..i) BY FS_Interval
    <3>2. 1..i \in SUBSET Nat OBVIOUS
    <3> QED BY <3>1, <3>2 DEF FiniteSubsetsOf
  <2> QED BY <2>1
<1>2. PICK m \in T : \A l \in T : <<l, m>> \notin StrictSubsetOrdering(Nat)
  <2> HIDE DEF T
  <2> QED BY <1>1, WFMin, FS_StrictSubsetOrderingWellFounded
<1>3. PICK i \in S : m = 1..i
  BY <1>2
<1>4. ASSUME NEW j \in S, j < i PROVE FALSE
  <2>1. 1..j \subseteq 1..i /\ i \in 1..i /\ i \notin 1..j
    BY <1>4
  <2>2. <<1..j, 1..i>> \in StrictSubsetOrdering(Nat)
    BY <2>1 DEF StrictSubsetOrdering
  <2> QED BY <1>2, <1>3, <2>2
<1>5. QED
  BY <1>4

\* A child is in one plan, and plans hold children.
LEMMA OneParent ==
  ASSUME NEW p \in Parent
  PROVE  /\ ChildrenOf(p) \subseteq Child
         /\ \A q \in Parent, c \in ChildrenOf(p) : c \in ChildrenOf(q) => p = q
<1>1. Plan[p] \in Seq(Child)
  BY SupervisorAssumption
<1>2. ChildrenOf(p) \subseteq Child
  BY <1>1 DEF ChildrenOf
<1>3. ASSUME NEW q \in Parent, NEW c \in ChildrenOf(p), c \in ChildrenOf(q)
      PROVE  p = q
  <2>1. PICK i \in 1..Len(Plan[p]) : c = Plan[p][i]
    BY Zenon DEF ChildrenOf
  <2>2. PICK j \in 1..Len(Plan[q]) : c = Plan[q][j]
    BY <1>3, Zenon DEF ChildrenOf
  <2>3. Plan[p][i] = Plan[q][j] => p = q
    BY SupervisorAssumption
  <2>4. QED BY <2>1, <2>2, <2>3
<1>4. QED
  BY <1>2, <1>3

\* The loops over children get, of what is left, a child that is left.
LEMMA FirstOfIsLeft ==
  ASSUME NEW p \in Parent, NEW S, S \subseteq ChildrenOf(p), S # {}
  PROVE  FirstOf(p, S) \in S
<1> DEFINE left == {i \in 1..Len(Plan[p]) : Plan[p][i] \in S}
           least == CHOOSE i \in left : \A j \in left : i <= j
<1>1. Plan[p] \in Seq(Child) /\ Len(Plan[p]) \in Nat
  BY SupervisorAssumption
<1>2. left # {} /\ left \in SUBSET Nat
  BY <1>1 DEF ChildrenOf
<1>3. \E i \in left : \A j \in left : i <= j
  <2> HIDE DEF left
  <2> QED BY <1>2, LeastOf
<1>4. least \in left
  <2> HIDE DEF left
  <2> QED BY <1>3
<1>5. Plan[p][least] \in S
  BY <1>4
<1>6. QED
  BY <1>5 DEF FirstOf

-----------------------------------------------------------------------------
(* One lemma per action: it keeps SupInv *)

\* The chain of p comes to r, the other chains stay where they are.
Goes(p, r) ==
  /\ chain' \in [Parent -> ChainState]
  /\ chain'[p] = r
  /\ \A q \in Parent \ {p} : chain'[q] = chain[q]

\* An update of one chain by a chain of the right type.
LEMMA GoesTo ==
  ASSUME TypeOK, NEW p \in Parent, NEW r \in ChainState,
         chain' = [chain EXCEPT ![p] = r]
  PROVE  Goes(p, r)
BY DEF Goes, TypeOK

\* The chain's own facts, at hand for the lemmas below: what its loop has left
\* are children of its parent, and the next of them is one of those.
LEMMA InHand ==
  ASSUME SupInv, NEW p \in Parent, chain[p].todo # {}
  PROVE  /\ NextChild(p) \in chain[p].todo
         /\ NextChild(p) \in ChildrenOf(p)
         /\ NextChild(p) \in Child
BY FirstOfIsLeft, OneParent DEF SupInv, ChainsOK, ChainOK, NextChild

\* A plan is created between requests: its children were absent until then, and
\* no chain remembers anything of them.
LEMMA CreatePlanKeeps ==
  ASSUME SupInv, NEW p \in Parent, CreatePlan(p)
  PROVE  SupInv'
<1> DEFINE r == [at |-> "counting", purpose |-> "plan", todo |-> chain[p].todo,
                 seen |-> chain[p].seen, available |-> chain[p].available,
                 handle |-> chain[p].handle]
<1>1. /\ up /\ InFlight = {} /\ parent[p] = "absent"
      /\ parent' = [parent EXCEPT ![p] = "active"]
      /\ child' = [c \in Child |-> IF c \in ChildrenOf(p) THEN "pending" ELSE child[c]]
      /\ UNCHANGED <<up, phase, owned, worker, asked>>
  BY DEF CreatePlan, lifeVars
<1>2. TypeOK /\ chain \in [Parent -> ChainState]
  BY DEF SupInv, TypeOK
<1>3. chain' = [chain EXCEPT ![p].at = "counting", ![p].purpose = "plan"]
  BY DEF CreatePlan
<1>4. r \in ChainState
  BY <1>2 DEF ChainState, Running, Waiting
<1>5. Goes(p, r)
  <2>1. chain'[p] = r
    BY <1>2, <1>3 DEF ChainState
  <2>2. chain' = [chain EXCEPT ![p] = chain'[p]]
    BY <1>2, <1>3
  <2> HIDE DEF r
  <2> QED BY <1>2, <1>4, <2>1, <2>2, GoesTo
<1> HIDE DEF r
<1>11. TypeOK'
  BY <1>1, <1>2, <1>5 DEF Goes, TypeOK, LifeTypeOK, ChildState, ChildTerminal
<1>12. RowsOK'
  BY <1>1, <1>2, OneParent DEF RowsOK, TypeOK, SupInv
<1>13. ChainsOK'
  <2> SUFFICES ASSUME NEW q \in Parent PROVE ChainOK(q)'
    BY DEF ChainsOK
  <2>1. chain[q].at = "idle" /\ ChainOK(q)
    BY <1>1 DEF InFlight, ChainsOK, SupInv
  <2> QED BY <1>1, <1>5, <2>1 DEF ChainOK, Goes, r, NextChild
<1>14. HostOK'
  BY <1>1 DEF HostOK, SupInv
<1>15. NoOrphanWorker'
  BY <1>1, <1>2 DEF NoOrphanWorker, RowsOK, TypeOK, InFlight, SupInv
<1>16. IsFiniteSet(Active')
  <2>1. Active' \in SUBSET Active
    BY <1>1, <1>2 DEF Active, TypeOK
  <2> QED BY <2>1, FS_Subset DEF SupInv
<1>17. QED
  BY <1>11, <1>12, <1>13, <1>14, <1>15, <1>16 DEF SupInv

\* A refresh takes its snapshot: the dispatched children, all of its parent.
LEMMA StartRefreshKeeps ==
  ASSUME SupInv, NEW p \in Parent, StartRefresh(p)
  PROVE  SupInv'
<1> DEFINE r == [at |-> "observing", purpose |-> chain[p].purpose,
                 todo |-> ChildrenIn(p, "dispatched"), seen |-> chain[p].seen,
                 available |-> chain[p].available, handle |-> chain[p].handle]
<1>1. /\ Turn(p) /\ chain[p].at = "starting"
      /\ UNCHANGED <<up, phase, owned, parent, child, worker, asked>>
  BY DEF StartRefresh, lifeVars, graph
<1>2. TypeOK /\ chain \in [Parent -> ChainState]
  BY DEF SupInv, TypeOK
<1>3. chain' = [chain EXCEPT ![p].at = "observing", ![p].todo = ChildrenIn(p, "dispatched")]
  BY DEF StartRefresh
<1>4. r \in ChainState
  BY <1>2, OneParent DEF ChainState, Running, Waiting, ChildrenIn
<1>5. Goes(p, r)
  <2>1. chain'[p] = r
    BY <1>2, <1>3 DEF ChainState
  <2>2. chain' = [chain EXCEPT ![p] = chain'[p]]
    BY <1>2, <1>3
  <2> HIDE DEF r
  <2> QED BY <1>2, <1>4, <2>1, <2>2, GoesTo
<1> HIDE DEF r
<1>11. TypeOK'
  BY <1>1, <1>2, <1>5 DEF Goes, TypeOK, LifeTypeOK
<1>12. RowsOK'
  BY <1>1 DEF RowsOK, SupInv
<1>13. ChainsOK'
  <2> SUFFICES ASSUME NEW q \in Parent PROVE ChainOK(q)'
    BY DEF ChainsOK
  <2>1. ChainOK(q) /\ ChainOK(p)
    BY DEF ChainsOK, SupInv
  <2>2. CASE q # p
    BY <1>1, <1>5, <2>1, <2>2 DEF ChainOK, Goes, NextChild
  <2>3. CASE q = p
    BY <1>1, <1>5, <2>1, <2>3 DEF ChainOK, Goes, r, ChildrenIn
  <2> QED BY <2>2, <2>3
<1>14. HostOK'
  BY <1>1, <1>5 DEF HostOK, SupInv, InFlight, Goes, Turn
<1>15. NoOrphanWorker'
  BY <1>1, <1>5 DEF NoOrphanWorker, Goes, SupInv, r
<1>16. IsFiniteSet(Active')
  BY <1>1 DEF Active, SupInv
<1>17. QED
  BY <1>11, <1>12, <1>13, <1>14, <1>15, <1>16 DEF SupInv

\* The answer the dispatcher gives is what the worker has come to.
LEMMA ObserveKeeps ==
  ASSUME SupInv, NEW p \in Parent, Observe(p)
  PROVE  SupInv'
<1> DEFINE r == [at |-> "observed", purpose |-> chain[p].purpose,
                 todo |-> chain[p].todo, seen |-> phase[worker[NextChild(p)]],
                 available |-> chain[p].available, handle |-> chain[p].handle]
<1>1. /\ Turn(p) /\ chain[p].at = "observing" /\ chain[p].todo # {}
      /\ UNCHANGED <<up, phase, owned, parent, child, worker, asked>>
  BY DEF Observe, lifeVars, graph
<1>2. TypeOK /\ chain \in [Parent -> ChainState]
  BY DEF SupInv, TypeOK
<1>6. phase[worker[NextChild(p)]] \in {"running"} \cup Outcome
  BY <1>1, <1>2, InHand DEF SupInv, ChainsOK, ChainOK, RowsOK, TypeOK, LifeTypeOK
<1>3. chain' = [chain EXCEPT ![p].at = "observed", ![p].seen = phase[worker[NextChild(p)]]]
  BY DEF Observe
<1>4. r \in ChainState
  BY <1>2, <1>6 DEF ChainState, Running, Waiting
<1>5. Goes(p, r)
  <2>1. chain'[p] = r
    BY <1>2, <1>3 DEF ChainState
  <2>2. chain' = [chain EXCEPT ![p] = chain'[p]]
    BY <1>2, <1>3
  <2> HIDE DEF r
  <2> QED BY <1>2, <1>4, <2>1, <2>2, GoesTo
<1> HIDE DEF r
<1>11. TypeOK'
  BY <1>1, <1>2, <1>5 DEF Goes, TypeOK, LifeTypeOK
<1>12. RowsOK'
  BY <1>1 DEF RowsOK, SupInv
<1>13. ChainsOK'
  <2> SUFFICES ASSUME NEW q \in Parent PROVE ChainOK(q)'
    BY DEF ChainsOK
  <2>1. ChainOK(q) /\ ChainOK(p)
    BY DEF ChainsOK, SupInv
  <2>2. CASE q # p
    BY <1>1, <1>5, <2>1, <2>2 DEF ChainOK, Goes, NextChild
  <2>3. CASE q = p
    BY <1>1, <1>5, <1>6, <2>1, <2>3 DEF ChainOK, Goes, r, NextChild, Outcome
  <2> QED BY <2>2, <2>3
<1>14. HostOK'
  BY <1>1, <1>5 DEF HostOK, SupInv, InFlight, Goes, Turn
<1>15. NoOrphanWorker'
  BY <1>1, <1>5 DEF NoOrphanWorker, Goes, SupInv, r
<1>16. IsFiniteSet(Active')
  BY <1>1 DEF Active, SupInv
<1>17. QED
  BY <1>11, <1>12, <1>13, <1>14, <1>15, <1>16 DEF SupInv

\* The pump counts the free slots and takes the pending children of its parent.
LEMMA CountSlotsKeeps ==
  ASSUME SupInv, NEW p \in Parent, CountSlots(p)
  PROVE  SupInv'
<1> DEFINE free == MaxConcurrency - CountActiveChildren(p)
           todo == IF free > 0 THEN ChildrenIn(p, "pending") ELSE {}
           point == IF todo # {} THEN "pumping" ELSE "finishing"
           slots == IF todo # {} THEN free ELSE 0
           r == [at |-> point, purpose |-> chain[p].purpose,
                 todo |-> todo, seen |-> chain[p].seen,
                 available |-> slots, handle |-> chain[p].handle]
<1>1. /\ Turn(p) /\ chain[p].at \in {"counting", "observing"}
      /\ UNCHANGED <<up, phase, owned, parent, child, worker, asked>>
  BY DEF CountSlots, lifeVars, graph
<1>2. TypeOK /\ chain \in [Parent -> ChainState]
  BY DEF SupInv, TypeOK
<1>3. chain' = [chain EXCEPT ![p].at = point, ![p].available = slots, ![p].todo = todo]
  BY DEF CountSlots
<1>6. /\ slots \in 0..MaxConcurrency
      /\ point = "pumping" => todo # {} /\ slots \in 1..MaxConcurrency
  <2>1. CountActiveChildren(p) \in Nat
    BY FS_CardinalityType DEF CountActiveChildren, Active, SupInv
  <2>2. MaxConcurrency \in Nat
    BY SupervisorAssumption
  <2>3. free > 0 => free \in 1..MaxConcurrency
    BY <2>1, <2>2
  <2> QED BY <2>2, <2>3
<1>7. /\ point \in {"pumping", "finishing"} /\ point \in Running \cup Waiting
      /\ todo \subseteq ChildrenOf(p) /\ todo \subseteq Child
      /\ \A c \in todo : child[c] = "pending"
  BY OneParent DEF ChildrenIn, Running, Waiting
<1> HIDE DEF todo, point, slots
<1>4. r \in ChainState
  BY <1>2, <1>6, <1>7 DEF ChainState
<1>5. Goes(p, r)
  <2>1. chain'[p] = r
    BY <1>2, <1>3 DEF ChainState
  <2>2. chain' = [chain EXCEPT ![p] = chain'[p]]
    BY <1>2, <1>3
  <2> HIDE DEF r
  <2> QED BY <1>2, <1>4, <2>1, <2>2, GoesTo
<1> HIDE DEF r
<1>11. TypeOK'
  BY <1>1, <1>2, <1>5 DEF Goes, TypeOK, LifeTypeOK
<1>12. RowsOK'
  BY <1>1 DEF RowsOK, SupInv
<1>13. ChainsOK'
  <2> SUFFICES ASSUME NEW q \in Parent PROVE ChainOK(q)'
    BY DEF ChainsOK
  <2>1. ChainOK(q) /\ ChainOK(p)
    BY DEF ChainsOK, SupInv
  <2>2. CASE q # p
    BY <1>1, <1>5, <2>1, <2>2 DEF ChainOK, Goes, NextChild
  <2>3. CASE q = p
    BY <1>1, <1>5, <1>6, <1>7, <2>1, <2>3 DEF ChainOK, Goes, r
  <2> QED BY <2>2, <2>3
<1>14. HostOK'
  BY <1>1, <1>5 DEF HostOK, SupInv, InFlight, Goes, Turn
<1>15. NoOrphanWorker'
  BY <1>1, <1>5 DEF NoOrphanWorker, Goes, SupInv
<1>16. IsFiniteSet(Active')
  BY <1>1 DEF Active, SupInv
<1>17. QED
  BY <1>11, <1>12, <1>13, <1>14, <1>15, <1>16 DEF SupInv

\* A child marked terminal with its worker's own outcome, or with a worker that
\* does not run: the tables still agree and no live worker loses its child.
LEMMA Marked ==
  ASSUME SupInv, NEW c \in Child, NEW s \in Outcome, MarkTerminal(c, s),
         UNCHANGED <<lifeVars, asked>>,
         s = "completed" => phase[worker[c]] = "completed",
         worker[c] \notin owned \/ phase[worker[c]] # "running"
  PROVE  /\ child[c] = "dispatched" /\ child' = [child EXCEPT ![c] = s]
         /\ UNCHANGED <<up, phase, owned, parent, worker, asked>>
         /\ child' \in [Child -> ChildState]
         /\ RowsOK'
         /\ IsFiniteSet(Active')
         /\ \A t \in owned, d \in Child :
              phase[t] = "running" /\ child[d] = "dispatched" /\ worker[d] = t
                => child'[d] = "dispatched"
<1>1. /\ child[c] = "dispatched" /\ child' = [child EXCEPT ![c] = s]
      /\ UNCHANGED <<up, phase, owned, parent, worker, asked>>
  BY DEF MarkTerminal, lifeVars
<1>2. child \in [Child -> ChildState] /\ child' \in [Child -> ChildState]
  BY <1>1 DEF SupInv, TypeOK, ChildState, ChildTerminal, Outcome
<1>3. RowsOK'
  BY <1>1, <1>2, OneParent DEF RowsOK, SupInv, TypeOK, Outcome
<1>4. IsFiniteSet(Active')
  <2>1. Active' \in SUBSET Active
    BY <1>1, <1>2 DEF Active, Outcome
  <2> QED BY <2>1, FS_Subset DEF SupInv
<1>5. ASSUME NEW t \in owned, NEW d \in Child,
             phase[t] = "running", child[d] = "dispatched", worker[d] = t
      PROVE  child'[d] = "dispatched"
  BY <1>1, <1>2, <1>5
<1>6. QED
  BY <1>1, <1>2, <1>3, <1>4, <1>5

\* The cancelled child is marked: its worker no longer runs.
LEMMA CancelMarkedKeeps ==
  ASSUME SupInv, NEW p \in Parent, CancelMarked(p)
  PROVE  SupInv'
<1> DEFINE r == [at |-> "counting", purpose |-> chain[p].purpose,
                 todo |-> {}, seen |-> chain[p].seen,
                 available |-> chain[p].available, handle |-> chain[p].handle]
<1>1. /\ Turn(p) /\ chain[p].at = "cancelling"
      /\ MarkTerminal(NextChild(p), "cancelled")
      /\ UNCHANGED <<lifeVars, asked>>
  BY DEF CancelMarked
<1>2. TypeOK /\ chain \in [Parent -> ChainState]
  BY DEF SupInv, TypeOK
<1>3. chain' = [chain EXCEPT ![p].at = "counting", ![p].todo = {}]
  BY DEF CancelMarked
<1>6. /\ NextChild(p) \in Child /\ NextChild(p) \in ChildrenOf(p)
      /\ NextChild(p) \in chain[p].todo
  BY <1>1, InHand DEF SupInv, ChainsOK, ChainOK
<1>7. /\ child' = [child EXCEPT ![NextChild(p)] = "cancelled"]
      /\ UNCHANGED <<up, phase, owned, parent, worker, asked>>
      /\ child' \in [Child -> ChildState] /\ RowsOK' /\ IsFiniteSet(Active')
      /\ \A t \in owned, d \in Child :
           phase[t] = "running" /\ child[d] = "dispatched" /\ worker[d] = t
             => child'[d] = "dispatched"
  <2>1. \/ worker[NextChild(p)] \notin owned
        \/ phase[worker[NextChild(p)]] # "running"
    BY <1>1, <1>6 DEF SupInv, ChainsOK, ChainOK
  <2> QED BY <1>1, <1>6, <2>1, Marked DEF Outcome
<1>4. r \in ChainState
  BY <1>2 DEF ChainState, Running, Waiting
<1>5. Goes(p, r)
  <2>1. chain'[p] = r
    BY <1>2, <1>3 DEF ChainState
  <2>2. chain' = [chain EXCEPT ![p] = chain'[p]]
    BY <1>2, <1>3
  <2> HIDE DEF r
  <2> QED BY <1>2, <1>4, <2>1, <2>2, GoesTo
<1> HIDE DEF r
<1>11. TypeOK'
  BY <1>2, <1>5, <1>7 DEF Goes, TypeOK, LifeTypeOK
<1>12. RowsOK'
  BY <1>7
<1>13. ChainsOK'
  <2> SUFFICES ASSUME NEW q \in Parent PROVE ChainOK(q)'
    BY DEF ChainsOK
  <2>1. ChainOK(q) /\ ChainOK(p)
    BY DEF ChainsOK, SupInv
  <2>2. CASE q # p
    <3>1. \A d \in ChildrenOf(q) : child'[d] = child[d]
      BY <1>2, <1>6, <1>7, <2>2, OneParent DEF TypeOK
    <3> QED BY <1>5, <1>7, <2>1, <2>2, <3>1 DEF ChainOK, Goes, NextChild
  <2>3. CASE q = p
    BY <1>5, <2>3 DEF ChainOK, Goes, r
  <2> QED BY <2>2, <2>3
<1>14. HostOK'
  BY <1>1, <1>5, <1>7 DEF HostOK, SupInv, InFlight, Goes, Turn
<1>15. NoOrphanWorker'
  BY <1>1, <1>5, <1>7 DEF NoOrphanWorker, Goes, SupInv, r
<1>16. IsFiniteSet(Active')
  BY <1>7
<1>17. QED
  BY <1>11, <1>12, <1>13, <1>14, <1>15, <1>16 DEF SupInv

\* The answer is applied: a running worker leaves the child as it is, an outcome
\* is written, and it is the worker's outcome still.
LEMMA ObservedKeeps ==
  ASSUME SupInv, NEW p \in Parent, Observed(p)
  PROVE  SupInv'
<1> DEFINE c == NextChild(p)
           left == chain[p].todo \ {c}
           r == [at |-> "observing", purpose |-> chain[p].purpose,
                 todo |-> left, seen |-> "none",
                 available |-> chain[p].available, handle |-> chain[p].handle]
<1>1. /\ Turn(p) /\ chain[p].at = "observed"
      /\ \/ chain[p].seen = "running" /\ UNCHANGED graph
         \/ chain[p].seen # "running" /\ MarkTerminal(c, chain[p].seen)
      /\ UNCHANGED <<lifeVars, asked>>
  BY DEF Observed
<1>2. TypeOK /\ chain \in [Parent -> ChainState]
  BY DEF SupInv, TypeOK
<1>3. chain' = [chain EXCEPT ![p].at = "observing", ![p].todo = left,
                             ![p].seen = "none"]
  BY DEF Observed
<1>4. r \in ChainState
  BY <1>2 DEF ChainState, Running, Waiting
<1>5. Goes(p, r)
  <2> HIDE DEF left
  <2>1. chain'[p] = r
    BY <1>2, <1>3 DEF ChainState
  <2>2. chain' = [chain EXCEPT ![p] = chain'[p]]
    BY <1>2, <1>3
  <2> HIDE DEF r
  <2> QED BY <1>2, <1>4, <2>1, <2>2, GoesTo
<1> HIDE DEF r
<1>6. c \in Child /\ c \in ChildrenOf(p) /\ c \in chain[p].todo
  BY <1>1, InHand DEF SupInv, ChainsOK, ChainOK
<1>7. /\ \A d \in Child \ {c} : child'[d] = child[d]
      /\ UNCHANGED <<up, phase, owned, parent, worker, asked>>
      /\ child' \in [Child -> ChildState] /\ RowsOK' /\ IsFiniteSet(Active')
      /\ \A t \in owned, d \in Child :
           phase[t] = "running" /\ child[d] = "dispatched" /\ worker[d] = t
             => child'[d] = "dispatched"
  <2>1. CASE chain[p].seen = "running" /\ UNCHANGED graph
    BY <1>1, <1>2, <2>1 DEF lifeVars, graph, SupInv, TypeOK, RowsOK, Active
  <2>2. CASE chain[p].seen # "running" /\ MarkTerminal(c, chain[p].seen)
    <3> HIDE DEF c
    <3>1. chain[p].seen \in Outcome
      BY <1>1, <1>2, <2>2 DEF ChainState, SupInv, ChainsOK, ChainOK
    <3>2. phase[worker[c]] = chain[p].seen
      BY <1>1, <3>1 DEF SupInv, ChainsOK, ChainOK, c
    <3>3. \A d \in Child \ {c} : child'[d] = child[d]
      BY <1>2, <2>2 DEF MarkTerminal, TypeOK
    <3> QED BY <1>1, <1>6, <2>2, <3>1, <3>2, <3>3, Marked
  <2> QED BY <1>1, <2>1, <2>2
<1>11. TypeOK'
  BY <1>2, <1>5, <1>7 DEF Goes, TypeOK, LifeTypeOK
<1>12. RowsOK'
  BY <1>7
<1>13. ChainsOK'
  <2> SUFFICES ASSUME NEW q \in Parent PROVE ChainOK(q)'
    BY DEF ChainsOK
  <2>1. ChainOK(q) /\ ChainOK(p)
    BY DEF ChainsOK, SupInv
  <2>2. CASE q # p
    <3>1. \A d \in ChildrenOf(q) : child'[d] = child[d]
      BY <1>6, <1>7, <2>2, OneParent
    <3> QED BY <1>5, <1>7, <2>1, <2>2, <3>1 DEF ChainOK, Goes, NextChild
  <2>3. CASE q = p
    <3>1. \A d \in ChildrenOf(p) \ {c} : child'[d] = child[d]
      BY <1>7, OneParent
    <3> QED BY <1>1, <1>5, <2>1, <2>3, <3>1 DEF ChainOK, Goes, r
  <2> QED BY <2>2, <2>3
<1>14. HostOK'
  BY <1>1, <1>5, <1>7 DEF HostOK, SupInv, InFlight, Goes, Turn
<1>15. NoOrphanWorker'
  BY <1>1, <1>5, <1>7 DEF NoOrphanWorker, Goes, SupInv, r
<1>16. IsFiniteSet(Active')
  BY <1>7
<1>17. QED
  BY <1>11, <1>12, <1>13, <1>14, <1>15, <1>16 DEF SupInv

\* A fresh task is submitted for the next pending child: no worker and no other
\* chain has it, and until it is recorded the chain answers for it.
LEMMA DispatchKeeps ==
  ASSUME SupInv, NEW p \in Parent, Dispatch(p)
  PROVE  SupInv'
<1> DEFINE t == CHOOSE t \in Task : phase[t] = "absent"
           r == [at |-> "dispatching", purpose |-> chain[p].purpose,
                 todo |-> chain[p].todo, seen |-> chain[p].seen,
                 available |-> chain[p].available, handle |-> t]
<1>1. /\ Turn(p) /\ chain[p].at = "pumping" /\ Submit(t)
      /\ asked' = [asked EXCEPT ![t] = NextChild(p)]
      /\ UNCHANGED <<parent, child, worker>>
  BY DEF Dispatch, graph
<1>2. TypeOK /\ chain \in [Parent -> ChainState]
  BY DEF SupInv, TypeOK
<1>3. chain' = [chain EXCEPT ![p].at = "dispatching", ![p].handle = t]
  BY DEF Dispatch
<1>4. t \in Task /\ phase[t] = "absent"
  BY DEF Dispatch
<1> HIDE DEF t
<1>5. Goes(p, r)
  <2>1. chain'[p] = r
    BY <1>2, <1>3 DEF ChainState
  <2>2. chain' = [chain EXCEPT ![p] = chain'[p]]
    BY <1>2, <1>3
  <2>3. r \in ChainState
    BY <1>2, <1>4 DEF ChainState, Running, Waiting
  <2> HIDE DEF r
  <2> QED BY <1>2, <2>1, <2>2, <2>3, GoesTo
<1> HIDE DEF r
<1>6. NextChild(p) \in Child
  BY <1>1, InHand DEF SupInv, ChainsOK, ChainOK
<1>7. /\ up' = up /\ owned' = owned \cup {t} /\ t \notin owned
      /\ phase' = [phase EXCEPT ![t] = "running"]
  BY <1>1, <1>4 DEF Submit, HostOK, SupInv
<1>8. \A u \in Task \ {t} : phase'[u] = phase[u] /\ asked'[u] = asked[u]
  BY <1>1, <1>2, <1>7 DEF TypeOK, LifeTypeOK
<1>9. phase'[t] = "running" /\ asked'[t] = NextChild(p)
  BY <1>1, <1>2, <1>4, <1>7 DEF TypeOK, LifeTypeOK
<1>10. \A c \in Child : child[c] \notin {"absent", "pending"} =>
         worker[c] \in Task \ {t}
  BY <1>4 DEF SupInv, RowsOK
<1>11. TypeOK'
  BY <1>1, <1>2, <1>4, <1>5, <1>6, <1>7 DEF Goes, TypeOK, LifeTypeOK
<1>12. RowsOK'
  BY <1>1, <1>8, <1>10, OneParent DEF RowsOK, SupInv
<1>13. ChainsOK'
  <2> SUFFICES ASSUME NEW q \in Parent PROVE ChainOK(q)'
    BY DEF ChainsOK
  <2>1. ChainOK(q) /\ ChainOK(p) /\ chain[q].todo \subseteq Child
    BY OneParent DEF ChainsOK, ChainOK, SupInv
  <2>2. CASE q # p
    <3>1. chain'[q] = chain[q] /\ NextChild(q)' = NextChild(q)
      BY <1>5, <2>2 DEF Goes, NextChild
    <3>2. chain[q].at = "observed" => worker[NextChild(q)] \in Task \ {t}
      BY <1>10, <2>1, InHand DEF ChainOK
    <3>3. chain[q].at = "cancelling" =>
            \A c \in chain[q].todo : worker[c] \in Task \ {t}
      BY <1>10, <2>1 DEF ChainOK
    <3>4. chain[q].at = "dispatching" => chain[q].handle \in Task \ {t}
      BY <1>4, <2>1 DEF ChainOK
    <3> QED
      BY <1>1, <1>7, <1>8, <2>1, <3>1, <3>2, <3>3, <3>4 DEF ChainOK
  <2>3. CASE q = p
    BY <1>1, <1>4, <1>5, <1>9, <2>1, <2>3 DEF ChainOK, Goes, r, NextChild
  <2> QED BY <2>2, <2>3
<1>14. HostOK'
  BY <1>1, <1>5, <1>7, <1>8, <1>9 DEF HostOK, SupInv, Goes, Turn
<1>15. NoOrphanWorker'
  <2>1. chain'[p].at = "dispatching" /\ chain'[p].handle = t
    BY <1>5 DEF Goes, r
  <2>2. ASSUME NEW u \in owned, phase'[u] = "running", u # t
        PROVE  \/ \E c \in Child : child[c] = "dispatched" /\ worker[c] = u
               \/ \E q \in Parent \ {p} : chain[q].at = "dispatching" /\ chain[q].handle = u
    BY <1>1, <1>2, <1>8, <2>2 DEF NoOrphanWorker, SupInv, TypeOK, LifeTypeOK
  <2> QED BY <1>1, <1>5, <1>7, <2>1, <2>2 DEF NoOrphanWorker, Goes
<1>16. IsFiniteSet(Active')
  BY <1>1 DEF Active, SupInv
<1>17. QED
  BY <1>11, <1>12, <1>13, <1>14, <1>15, <1>16 DEF SupInv

\* The task is recorded as the worker of its child, which was pending and so had
\* none; from here on the graph answers for it.
LEMMA MarkDispatchedKeeps ==
  ASSUME SupInv, NEW p \in Parent, MarkDispatched(p)
  PROVE  SupInv'
<1> DEFINE c == NextChild(p)
           t == chain[p].handle
           left == chain[p].todo \ {c}
           point == IF chain[p].available > 1 /\ left # {}
                      THEN "pumping" ELSE "finishing"
           r == [at |-> point, purpose |-> chain[p].purpose, todo |-> left,
                 seen |-> chain[p].seen, available |-> chain[p].available - 1,
                 handle |-> NoTask]
<1>1. /\ Turn(p) /\ chain[p].at = "dispatching" /\ child[c] = "pending"
      /\ child' = [child EXCEPT ![c] = "dispatched"]
      /\ worker' = [worker EXCEPT ![c] = t]
      /\ UNCHANGED <<up, phase, owned, parent, asked>>
  BY DEF MarkDispatched, lifeVars
<1>2. TypeOK /\ chain \in [Parent -> ChainState]
  BY DEF SupInv, TypeOK
<1>3. chain' = [chain EXCEPT ![p].at = point, ![p].todo = left,
                             ![p].available = @ - 1, ![p].handle = NoTask]
  BY DEF MarkDispatched
<1>4. /\ chain[p].available \in 1..MaxConcurrency /\ MaxConcurrency \in Nat
      /\ t \in Task /\ asked[t] = c /\ phase[t] # "absent"
      /\ \A d \in chain[p].todo : child[d] = "pending"
  BY <1>1, SupervisorAssumption DEF SupInv, ChainsOK, ChainOK
<1>5. /\ c \in Child /\ c \in ChildrenOf(p) /\ left \subseteq ChildrenOf(p)
      /\ left \subseteq Child
  BY <1>1, InHand, OneParent DEF SupInv, ChainsOK, ChainOK
<1>6. /\ point \in Running \cup Waiting /\ point \in {"pumping", "finishing"}
      /\ point = "pumping" => chain[p].available - 1 \in 1..MaxConcurrency /\ left # {}
  BY <1>4 DEF Running, Waiting
<1>7. \A d \in left : d # c /\ child[d] = "pending"
  BY <1>4
<1> HIDE DEF point, left
<1>8. Goes(p, r)
  <2>1. chain'[p] = r
    BY <1>2, <1>3 DEF ChainState
  <2>2. chain' = [chain EXCEPT ![p] = chain'[p]]
    BY <1>2, <1>3
  <2>3. r \in ChainState
    BY <1>2, <1>4, <1>5, <1>6 DEF ChainState
  <2> HIDE DEF r
  <2> QED BY <1>2, <2>1, <2>2, <2>3, GoesTo
<1> HIDE DEF r
<1>9. /\ child'[c] = "dispatched" /\ worker'[c] = t
      /\ \A d \in Child \ {c} : child'[d] = child[d] /\ worker'[d] = worker[d]
  BY <1>1, <1>2, <1>5 DEF TypeOK
<1> HIDE DEF c, t
<1>11. TypeOK'
  BY <1>1, <1>2, <1>4, <1>5, <1>8 DEF Goes, TypeOK, LifeTypeOK, ChildState
<1>12. RowsOK'
  BY <1>1, <1>4, <1>5, <1>9, OneParent DEF RowsOK, SupInv
<1>13. ChainsOK'
  <2> SUFFICES ASSUME NEW q \in Parent PROVE ChainOK(q)'
    BY DEF ChainsOK
  <2>1. ChainOK(q) /\ chain[q].todo \subseteq Child
    BY OneParent DEF ChainsOK, ChainOK, SupInv
  <2>2. CASE q # p
    <3>1. chain'[q] = chain[q] /\ NextChild(q)' = NextChild(q)
      BY <1>8, <2>2 DEF Goes, NextChild
    <3>2. c \notin chain[q].todo
      BY <1>5, <2>1, <2>2, OneParent DEF ChainOK
    <3>3. chain[q].at = "observed" => NextChild(q) \in chain[q].todo
      BY <2>1, InHand DEF ChainOK
    <3>4. \A d \in chain[q].todo : child'[d] = child[d] /\ worker'[d] = worker[d]
      BY <1>9, <2>1, <3>2
    <3> QED BY <1>1, <2>1, <3>1, <3>3, <3>4 DEF ChainOK
  <2>3. CASE q = p
    BY <1>5, <1>6, <1>7, <1>8, <1>9, <2>3 DEF ChainOK, Goes, r
  <2> QED BY <2>2, <2>3
<1>14. HostOK'
  BY <1>1, <1>8 DEF HostOK, SupInv, Turn
<1>15. NoOrphanWorker'
  <2> SUFFICES ASSUME NEW u \in owned, phase[u] = "running"
               PROVE  \/ \E d \in Child : child'[d] = "dispatched" /\ worker'[d] = u
                      \/ \E q \in Parent : chain'[q].at = "dispatching" /\ chain'[q].handle = u
    BY <1>1 DEF NoOrphanWorker
  <2>1. CASE \E d \in Child : child[d] = "dispatched" /\ worker[d] = u
    BY <1>1, <1>9, <2>1 DEF c
  <2>2. CASE \E q \in Parent : chain[q].at = "dispatching" /\ chain[q].handle = u
    <3>1. PICK q \in Parent : chain[q].at = "dispatching" /\ chain[q].handle = u
      BY <2>2
    <3>2. CASE q = p
      BY <1>5, <1>9, <3>1, <3>2 DEF t
    <3>3. CASE q # p
      BY <1>8, <3>1, <3>3 DEF Goes
    <3> QED BY <3>2, <3>3
  <2> QED BY <2>1, <2>2 DEF NoOrphanWorker, SupInv
<1>16. IsFiniteSet(Active')
  <2>1. Active' = Active \cup {c}
    BY <1>2, <1>5, <1>9 DEF Active
  <2> QED BY <2>1, FS_AddElement DEF SupInv
<1>17. QED
  BY <1>11, <1>12, <1>13, <1>14, <1>15, <1>16 DEF SupInv

\* A worker settled by its run or by a cancel: an outcome is written over
\* "running" only, so no evidence and no answer in hand is lost.
LEMMA Settled ==
  ASSUME SupInv, NEW t \in Task, NEW o \in Outcome, Settle(t, o),
         UNCHANGED <<graph, asked>>
  PROVE  /\ UNCHANGED <<up, owned, parent, child, worker, asked>>
         /\ phase' \in [Task -> {"absent", "running"} \cup Outcome]
         /\ phase[t] = "running" /\ phase' = [phase EXCEPT ![t] = o]
         /\ RowsOK'
         /\ \A q \in Parent : chain'[q] = chain[q] => ChainOK(q)'
         /\ \A u \in Task : /\ phase'[u] = "absent" => phase[u] = "absent"
                            /\ phase'[u] = "running" => phase[u] = "running"
         /\ IsFiniteSet(Active')
<1>1. /\ UNCHANGED <<up, owned, parent, child, worker, asked>>
      /\ phase[t] = "running" /\ phase' = [phase EXCEPT ![t] = o]
  BY DEF Settle, graph
<1>2. /\ phase \in [Task -> {"absent", "running"} \cup Outcome]
      /\ phase' \in [Task -> {"absent", "running"} \cup Outcome]
  BY <1>1 DEF SupInv, TypeOK, LifeTypeOK
<1>3. \A u \in Task : /\ phase'[u] = "absent" => phase[u] = "absent"
                      /\ phase'[u] = "running" => phase[u] = "running"
                      /\ phase[u] # "running" => phase'[u] = phase[u]
  BY <1>1, <1>2 DEF Outcome
<1>4. RowsOK'
  BY <1>1, <1>2, <1>3 DEF RowsOK, SupInv
<1>5. ASSUME NEW q \in Parent, chain'[q] = chain[q] PROVE ChainOK(q)'
  <2>1. ChainOK(q) /\ chain[q].todo \subseteq Child
    BY OneParent DEF ChainsOK, ChainOK, SupInv
  <2>2. NextChild(q)' = NextChild(q)
    BY <1>5 DEF NextChild
  <2>3. chain[q].at = "observed" => worker[NextChild(q)] \in Task
    BY <2>1, InHand DEF ChainOK, RowsOK, SupInv
  <2>4. chain[q].at = "cancelling" => \A c \in chain[q].todo : worker[c] \in Task
    BY <2>1 DEF ChainOK, RowsOK, SupInv
  <2> QED
    BY <1>1, <1>3, <1>5, <2>1, <2>2, <2>3, <2>4 DEF ChainOK, Outcome
<1>6. IsFiniteSet(Active')
  BY <1>1 DEF Active, SupInv
<1>7. QED
  BY <1>1, <1>2, <1>3, <1>4, <1>5, <1>6

\* The catch block: the task is cancelled, or no longer runs, before the chain
\* forgets it, so the pending child it was for has no live worker.
LEMMA MarkFailsKeeps ==
  ASSUME SupInv, NEW p \in Parent, MarkFails(p)
  PROVE  SupInv'
<1>1. /\ Turn(p) /\ chain[p].at = "dispatching"
      /\ \/ Settle(chain[p].handle, "cancelled")
         \/ /\ chain[p].handle \notin owned \/ phase[chain[p].handle] # "running"
            /\ UNCHANGED lifeVars
      /\ chain' = [chain EXCEPT ![p] = Idle]
      /\ UNCHANGED <<graph, asked>>
  BY DEF MarkFails
<1>2. TypeOK /\ chain \in [Parent -> ChainState] /\ chain[p].handle \in Task
  BY <1>1 DEF SupInv, TypeOK, ChainsOK, ChainOK
<1>3. Idle \in ChainState
  BY SupervisorAssumption DEF Idle, ChainState, Waiting
<1>4. Goes(p, Idle)
  BY <1>1, <1>2, <1>3, GoesTo
<1>5. /\ UNCHANGED <<up, owned, parent, child, worker, asked>>
      /\ phase' \in [Task -> {"absent", "running"} \cup Outcome]
      /\ RowsOK' /\ IsFiniteSet(Active')
      /\ \A q \in Parent : chain'[q] = chain[q] => ChainOK(q)'
      /\ \A u \in Task : /\ phase'[u] = "absent" => phase[u] = "absent"
                         /\ phase'[u] = "running" => phase[u] = "running"
      /\ chain[p].handle \notin owned \/ phase'[chain[p].handle] # "running"
  <2>1. CASE Settle(chain[p].handle, "cancelled")
    <3>1. phase'[chain[p].handle] = "cancelled"
      BY <1>2, <2>1 DEF Settle, TypeOK, LifeTypeOK
    <3> QED BY <1>1, <1>2, <2>1, <3>1, Settled DEF Outcome
  <2>2. CASE /\ chain[p].handle \notin owned \/ phase[chain[p].handle] # "running"
             /\ UNCHANGED lifeVars
    <3>1. UNCHANGED <<up, phase, owned, parent, child, worker, asked>>
      BY <1>1, <2>2 DEF lifeVars, graph
    <3>2. RowsOK' /\ IsFiniteSet(Active')
      BY <3>1 DEF SupInv, RowsOK, Active
    <3>3. \A q \in Parent : chain'[q] = chain[q] => ChainOK(q)'
      BY <3>1 DEF SupInv, ChainsOK, ChainOK, NextChild
    <3> QED BY <1>2, <2>2, <3>1, <3>2, <3>3 DEF TypeOK, LifeTypeOK
  <2> QED BY <1>1, <2>1, <2>2
<1>11. TypeOK'
  BY <1>2, <1>4, <1>5 DEF Goes, TypeOK, LifeTypeOK
<1>12. RowsOK' /\ IsFiniteSet(Active')
  BY <1>5
<1>13. ChainsOK'
  BY <1>4, <1>5 DEF ChainsOK, ChainOK, Goes, Idle
<1>14. HostOK'
  BY <1>1, <1>5 DEF HostOK, SupInv, Turn
<1>15. NoOrphanWorker'
  <2>1. ASSUME NEW u \in owned, phase[u] = "running", u # chain[p].handle
        PROVE  \/ \E c \in Child : child[c] = "dispatched" /\ worker[c] = u
               \/ \E q \in Parent \ {p} : chain[q].at = "dispatching" /\ chain[q].handle = u
    BY <2>1 DEF NoOrphanWorker, SupInv
  <2> QED
    BY <1>2, <1>4, <1>5, <2>1 DEF NoOrphanWorker, Goes, TypeOK, LifeTypeOK
<1>16. QED
  BY <1>11, <1>12, <1>13, <1>14, <1>15 DEF SupInv

\* The end of a chain: a parent is completed only over completed children.
LEMMA FinishKeeps ==
  ASSUME SupInv, NEW p \in Parent, Finish(p)
  PROVE  SupInv'
<1>1. /\ Turn(p) /\ chain[p].at = "finishing"
      /\ parent' = [parent EXCEPT ![p] =
           IF /\ chain[p].purpose = "refresh"
              /\ \A c \in ChildrenOf(p) : child[c] = "completed"
             THEN "completed" ELSE @]
      /\ chain' = [chain EXCEPT ![p] = Idle]
      /\ UNCHANGED <<up, phase, owned, child, worker, asked>>
  BY DEF Finish, lifeVars
<1>2. TypeOK /\ chain \in [Parent -> ChainState]
  BY DEF SupInv, TypeOK
<1>3. Idle \in ChainState
  BY SupervisorAssumption DEF Idle, ChainState, Waiting
<1>4. Goes(p, Idle)
  BY <1>1, <1>2, <1>3, GoesTo
<1>5. /\ parent' \in [Parent -> {"absent", "active", "completed"}]
      /\ \A q \in Parent :
           /\ parent'[q] = "absent" => parent[q] = "absent"
           /\ parent'[q] = "completed" =>
                \/ parent[q] = "completed"
                \/ \A c \in ChildrenOf(q) : child[c] = "completed"
  BY <1>1, <1>2 DEF TypeOK
<1>11. TypeOK'
  BY <1>1, <1>2, <1>4, <1>5 DEF Goes, TypeOK, LifeTypeOK
<1>12. RowsOK' /\ IsFiniteSet(Active')
  BY <1>1, <1>5 DEF RowsOK, SupInv, Active
<1>13. ChainsOK'
  BY <1>1, <1>4 DEF SupInv, ChainsOK, ChainOK, Goes, Idle, NextChild
<1>14. HostOK'
  BY <1>1 DEF HostOK, SupInv, Turn
<1>15. NoOrphanWorker'
  BY <1>1, <1>4 DEF NoOrphanWorker, Goes, SupInv
<1>16. QED
  BY <1>11, <1>12, <1>13, <1>14, <1>15 DEF SupInv

\* A request to cancel a child begins: its worker is settled, or the orchestrator
\* no longer holds it, before the graph is told.
LEMMA CancelChildKeeps ==
  ASSUME SupInv, NEW p \in Parent, NEW c \in Child, CancelChild(p, c)
  PROVE  SupInv'
<1> DEFINE r == [at |-> "cancelling", purpose |-> "cancel", todo |-> {c},
                 seen |-> chain[p].seen, available |-> chain[p].available,
                 handle |-> chain[p].handle]
<1>1. /\ up /\ InFlight = {} /\ c \in ChildrenOf(p) /\ child[c] = "dispatched"
      /\ \/ Settle(worker[c], "cancelled")
         \/ /\ worker[c] \notin owned \/ phase[worker[c]] # "running"
            /\ UNCHANGED lifeVars
      /\ UNCHANGED <<graph, asked>>
  BY DEF CancelChild
<1>2. /\ TypeOK /\ chain \in [Parent -> ChainState] /\ worker[c] \in Task
      /\ \A q \in Parent : chain[q].at = "idle" /\ ChainOK(q)
  BY <1>1 DEF SupInv, TypeOK, RowsOK, InFlight, ChainsOK
<1>3. chain' = [chain EXCEPT ![p].at = "cancelling", ![p].purpose = "cancel",
                             ![p].todo = {c}]
  BY DEF CancelChild
<1>4. Goes(p, r)
  <2>1. chain'[p] = r
    BY <1>2, <1>3 DEF ChainState
  <2>2. chain' = [chain EXCEPT ![p] = chain'[p]]
    BY <1>2, <1>3
  <2>3. r \in ChainState
    BY <1>2 DEF ChainState, Waiting
  <2> HIDE DEF r
  <2> QED BY <1>2, <2>1, <2>2, <2>3, GoesTo
<1> HIDE DEF r
<1>5. /\ UNCHANGED <<up, owned, parent, child, worker, asked>>
      /\ phase' \in [Task -> {"absent", "running"} \cup Outcome]
      /\ RowsOK' /\ IsFiniteSet(Active')
      /\ \A q \in Parent : chain'[q] = chain[q] => ChainOK(q)'
      /\ \A u \in Task : /\ phase'[u] = "absent" => phase[u] = "absent"
                         /\ phase'[u] = "running" => phase[u] = "running"
      /\ worker[c] \notin owned \/ phase'[worker[c]] # "running"
  <2>1. CASE Settle(worker[c], "cancelled")
    <3>1. phase'[worker[c]] = "cancelled"
      BY <1>2, <2>1 DEF Settle, TypeOK, LifeTypeOK
    <3> QED BY <1>1, <1>2, <2>1, <3>1, Settled DEF Outcome
  <2>2. CASE /\ worker[c] \notin owned \/ phase[worker[c]] # "running"
             /\ UNCHANGED lifeVars
    <3>1. UNCHANGED <<up, phase, owned, parent, child, worker, asked>>
      BY <1>1, <2>2 DEF lifeVars, graph
    <3>2. RowsOK' /\ IsFiniteSet(Active')
      BY <3>1 DEF SupInv, RowsOK, Active
    <3>3. \A q \in Parent : chain'[q] = chain[q] => ChainOK(q)'
      BY <3>1 DEF SupInv, ChainsOK, ChainOK, NextChild
    <3> QED BY <1>2, <2>2, <3>1, <3>2, <3>3 DEF TypeOK, LifeTypeOK
  <2> QED BY <1>1, <2>1, <2>2
<1>11. TypeOK'
  BY <1>2, <1>4, <1>5 DEF Goes, TypeOK, LifeTypeOK
<1>12. RowsOK' /\ IsFiniteSet(Active')
  BY <1>5
<1>13. ChainsOK'
  <2>1. ChainOK(p)'
    BY <1>1, <1>4, <1>5 DEF ChainOK, Goes, r
  <2> QED BY <1>4, <1>5, <2>1 DEF ChainsOK, Goes
<1>14. HostOK'
  BY <1>1, <1>5 DEF HostOK, SupInv
<1>15. NoOrphanWorker'
  BY <1>2, <1>5 DEF NoOrphanWorker, SupInv, TypeOK, LifeTypeOK
<1>16. QED
  BY <1>11, <1>12, <1>13, <1>14, <1>15 DEF SupInv

\* A request starts the chains of its page; no other was in flight.
LEMMA RefreshKeeps ==
  ASSUME SupInv, NEW batch \in SUBSET Parent, Refresh(batch)
  PROVE  SupInv'
<1> DEFINE r == [Idle EXCEPT !.at = "starting", !.purpose = "refresh"]
<1>1. /\ up /\ InFlight = {}
      /\ chain' = [p \in Parent |-> IF p \in batch THEN r ELSE chain[p]]
      /\ UNCHANGED <<up, phase, owned, parent, child, worker, asked>>
  BY DEF Refresh, lifeVars, graph
<1>2. TypeOK /\ chain \in [Parent -> ChainState]
  BY DEF SupInv, TypeOK
<1>3. Idle \in ChainState /\ Idle.todo = {}
  BY SupervisorAssumption DEF Idle, ChainState, Waiting
<1>4. r \in ChainState /\ r.at = "starting" /\ r.todo = {}
  BY <1>3 DEF ChainState, Waiting
<1> HIDE DEF r
<1>5. /\ chain' \in [Parent -> ChainState]
      /\ \A p \in Parent : chain'[p] = r \/ chain'[p] = chain[p]
  BY <1>1, <1>2, <1>4
<1>6. UNCHANGED <<phase, owned, child, worker, asked>>
  BY <1>1
<1>11. TypeOK'
  BY <1>1, <1>2, <1>5 DEF TypeOK, LifeTypeOK
<1>12. RowsOK' /\ IsFiniteSet(Active')
  BY <1>1 DEF RowsOK, SupInv, Active
<1>13. ChainsOK'
  <2> SUFFICES ASSUME NEW q \in Parent PROVE ChainOK(q)'
    BY DEF ChainsOK
  <2>1. chain'[q] = r => ChainOK(q)'
    BY <1>4 DEF ChainOK
  <2>2. chain'[q] = chain[q] => ChainOK(q)'
    BY <1>6 DEF SupInv, ChainsOK, ChainOK, NextChild
  <2> QED BY <1>5, <2>1, <2>2
<1>14. HostOK'
  BY <1>1 DEF HostOK, SupInv
<1>15. NoOrphanWorker'
  BY <1>1 DEF NoOrphanWorker, InFlight, SupInv
<1>16. QED
  BY <1>11, <1>12, <1>13, <1>14, <1>15 DEF SupInv

\* A worker settles while the chains wait.
LEMMA WorkerSettlesKeeps ==
  ASSUME SupInv, NEW t \in Task, WorkerSettles(t)
  PROVE  SupInv'
<1>1. PICK o \in Outcome : Settle(t, o) /\ UNCHANGED <<graph, chain, asked>>
  BY DEF WorkerSettles
<1>2. /\ UNCHANGED <<up, owned, parent, child, worker, asked, chain>>
      /\ phase' \in [Task -> {"absent", "running"} \cup Outcome]
      /\ RowsOK' /\ IsFiniteSet(Active')
      /\ \A q \in Parent : chain'[q] = chain[q] => ChainOK(q)'
      /\ \A u \in Task : /\ phase'[u] = "absent" => phase[u] = "absent"
                         /\ phase'[u] = "running" => phase[u] = "running"
  BY <1>1, Settled
<1>3. TypeOK'
  BY <1>2 DEF SupInv, TypeOK, LifeTypeOK
<1>4. ChainsOK' /\ HostOK'
  BY <1>2 DEF ChainsOK, HostOK, SupInv, InFlight
<1>5. NoOrphanWorker'
  BY <1>2 DEF NoOrphanWorker, SupInv, TypeOK, LifeTypeOK
<1>6. QED
  BY <1>2, <1>3, <1>4, <1>5 DEF SupInv

\* A run leaves the memory of the process, or the process ends, or a new one
\* starts: what was in hand is forgotten, the tables are as they were.
LEMMA HostKeeps ==
  ASSUME SupInv, (\E t \in Task : WorkerRetires(t)) \/ ProcessEnds \/ Restart
  PROVE  SupInv'
<1>1. UNCHANGED <<phase, parent, child, worker, asked>> /\ owned' \subseteq owned
  BY DEF WorkerRetires, Retire, ProcessEnds, HostDown, Restart, HostUp, graph,
         SupInv, TypeOK, LifeTypeOK
<1>2. \/ UNCHANGED <<up, chain>>
      \/ ~up /\ up' = TRUE /\ UNCHANGED <<chain, owned>>
      \/ chain' = [p \in Parent |-> Idle] /\ up' = FALSE /\ owned' = {}
  BY DEF WorkerRetires, Retire, ProcessEnds, HostDown, Restart, HostUp
<1>3. Idle \in ChainState
  BY SupervisorAssumption DEF Idle, ChainState, Waiting
<1>4. TypeOK'
  BY <1>1, <1>2, <1>3 DEF SupInv, TypeOK, LifeTypeOK
<1>5. RowsOK' /\ IsFiniteSet(Active')
  BY <1>1 DEF RowsOK, SupInv, Active
<1>6. ChainsOK'
  <2> SUFFICES ASSUME NEW q \in Parent PROVE ChainOK(q)'
    BY DEF ChainsOK
  <2>1. chain'[q] = Idle => ChainOK(q)'
    BY DEF ChainOK, Idle
  <2>2. chain'[q] = chain[q] => ChainOK(q)'
    BY <1>1 DEF SupInv, ChainsOK, ChainOK, NextChild
  <2> QED BY <1>2, <2>1, <2>2
<1>7. HostOK'
  BY <1>1, <1>2 DEF HostOK, SupInv, InFlight, Idle
<1>8. NoOrphanWorker'
  BY <1>1, <1>2 DEF NoOrphanWorker, SupInv
<1>9. QED
  BY <1>4, <1>5, <1>6, <1>7, <1>8 DEF SupInv

-----------------------------------------------------------------------------
(* The theorems *)

\* SupInv holds initially and every step keeps it.
LEMMA SupervisorInvariant == Spec => []SupInv
<1>1. Init => SupInv
  <2> SUFFICES ASSUME Init PROVE SupInv
    OBVIOUS
  <2>1. Idle \in ChainState
    BY SupervisorAssumption DEF Idle, ChainState, Waiting
  <2>2. TypeOK
    BY <2>1 DEF Init, LifeInit, TypeOK, LifeTypeOK, ChildState
  <2>3. RowsOK /\ HostOK /\ NoOrphanWorker
    BY OneParent DEF Init, LifeInit, RowsOK, HostOK, NoOrphanWorker
  <2>4. ChainsOK
    BY DEF Init, ChainsOK, ChainOK, Idle
  <2>5. IsFiniteSet(Active)
    BY FS_EmptySet DEF Init, Active
  <2> QED BY <2>2, <2>3, <2>4, <2>5 DEF SupInv
<1>2. SupInv /\ [Next]_vars => SupInv'
  <2> SUFFICES ASSUME SupInv, [Next]_vars PROVE SupInv'
    OBVIOUS
  <2>1. ASSUME NEW p \in Parent, CreatePlan(p) PROVE SupInv'
    BY <2>1, CreatePlanKeeps
  <2>2. ASSUME NEW p \in Parent, ChainStep(p) PROVE SupInv'
    BY <2>2, CancelMarkedKeeps, StartRefreshKeeps, ObserveKeeps, ObservedKeeps,
       CountSlotsKeeps, DispatchKeeps, MarkDispatchedKeeps, FinishKeeps
       DEF ChainStep
  <2>3. ASSUME NEW p \in Parent, MarkFails(p) PROVE SupInv'
    BY <2>3, MarkFailsKeeps
  <2>4. ASSUME NEW p \in Parent, NEW c \in Child, CancelChild(p, c) PROVE SupInv'
    BY <2>4, CancelChildKeeps
  <2>5. ASSUME NEW batch \in SUBSET Parent, Refresh(batch) PROVE SupInv'
    BY <2>5, RefreshKeeps
  <2>6. ASSUME NEW t \in Task, WorkerSettles(t) PROVE SupInv'
    BY <2>6, WorkerSettlesKeeps
  <2>7. CASE (\E t \in Task : WorkerRetires(t)) \/ ProcessEnds \/ Restart
    BY <2>7, HostKeeps
  <2>8. CASE UNCHANGED vars
    BY <2>8 DEF vars, SupInv, TypeOK, LifeTypeOK, RowsOK, ChainsOK, ChainOK, HostOK,
       InFlight, NextChild, NoOrphanWorker, Active
  <2>9. QED
    BY <2>1, <2>2, <2>3, <2>4, <2>5, <2>6, <2>7, <2>8 DEF Next
<1>3. QED
  BY <1>1, <1>2, PTL DEF Spec

\* Every variable has its type (supervisor.ts and supervisor-graph-store.ts).
THEOREM SupervisorTypes == Spec => []TypeOK
<1>1. SupInv => TypeOK
  BY DEF SupInv
<1>2. QED
  BY <1>1, SupervisorInvariant, PTL

\* tasks/todo.md:674: no child has two live workers, and every live worker is the
\* worker of a dispatched child or in the hands of the chain about to record it,
\* wherever the process died and whatever write failed.
THEOREM WorkersTracked == Spec => []WorkersAreTracked
<1>1. ASSUME SupInv PROVE WorkersAreTracked
  <2>1. NoOrphanWorker
    BY <1>1 DEF SupInv
  <2>2. ASSUME NEW t1 \in owned, NEW t2 \in owned, phase[t1] = "running",
               phase[t2] = "running", asked[t1] = asked[t2]
        PROVE  t1 = t2
    <3>1. ASSUME NEW t \in owned, phase[t] = "running"
          PROVE  \/ \E c \in Child : /\ child[c] = "dispatched" /\ worker[c] = t
                                     /\ asked[t] = c
                 \/ \E p \in Parent : /\ chain[p].handle = t
                                      /\ asked[t] \in ChildrenOf(p)
                                      /\ asked[t] \in Child
                                      /\ child[asked[t]] = "pending"
      <4>1. CASE \E c \in Child : child[c] = "dispatched" /\ worker[c] = t
        BY <1>1, <4>1 DEF SupInv, RowsOK
      <4>2. CASE \E p \in Parent : chain[p].at = "dispatching" /\ chain[p].handle = t
        <5>1. PICK p \in Parent : chain[p].at = "dispatching" /\ chain[p].handle = t
          BY <4>2
        <5>2. ChainOK(p) /\ asked[t] = NextChild(p)
          BY <1>1, <5>1 DEF SupInv, ChainsOK, ChainOK
        <5>3. /\ NextChild(p) \in chain[p].todo /\ NextChild(p) \in ChildrenOf(p)
              /\ NextChild(p) \in Child
          BY <1>1, <5>1, <5>2, InHand DEF ChainOK
        <5> QED BY <5>1, <5>2, <5>3 DEF ChainOK
      <4> QED BY <2>1, <3>1, <4>1, <4>2 DEF NoOrphanWorker
    <3>2. \/ \E c \in Child : child[c] = "dispatched" /\ worker[c] = t1 /\ asked[t1] = c
          \/ \E p \in Parent : /\ chain[p].handle = t1 /\ asked[t1] \in ChildrenOf(p)
                               /\ asked[t1] \in Child /\ child[asked[t1]] = "pending"
      BY <2>2, <3>1
    <3>3. \/ \E c \in Child : child[c] = "dispatched" /\ worker[c] = t2 /\ asked[t2] = c
          \/ \E p \in Parent : /\ chain[p].handle = t2 /\ asked[t2] \in ChildrenOf(p)
                               /\ asked[t2] \in Child /\ child[asked[t2]] = "pending"
      BY <2>2, <3>1
    <3> QED BY <2>2, <3>2, <3>3, OneParent
  <2> QED BY <2>1, <2>2 DEF WorkersAreTracked, OneLiveWorker
<1>2. QED
  BY <1>1, SupervisorInvariant, PTL

\* A completed child has a worker that completed, submitted for that child; a
\* completed parent has only completed children.
THEOREM CompletionHasEvidence == Spec => []CompletionEvidenced
<1>1. SupInv => CompletionEvidenced
  BY DEF SupInv, RowsOK, CompletionEvidenced
<1>2. QED
  BY <1>1, SupervisorInvariant, PTL

\* What the owner saw of a child or parent never changes, and a child that got a
\* worker keeps it: over pending children only, and a pending child has none.
THEOREM OutcomesAreFinal == Spec => GraphIsFinal
<1> DEFINE Final ==
      /\ \A c \in Child : /\ child[c] \in ChildTerminal => child'[c] = child[c]
                          /\ worker[c] # NoTask => worker'[c] = worker[c]
      /\ \A p \in Parent : parent[p] = "completed" => parent'[p] = "completed"
<1>1. ASSUME SupInv, [Next]_vars PROVE Final
  <2> SUFFICES ASSUME Next PROVE Final
    BY <1>1 DEF vars
  <2>1. TypeOK /\ RowsOK
    BY <1>1 DEF SupInv
  <2>2. CASE UNCHANGED graph
    BY <2>2 DEF graph
  <2>3. ASSUME NEW p \in Parent, CreatePlan(p) PROVE Final
    <3>1. \A c \in ChildrenOf(p) : child[c] = "absent"
      BY <2>1, <2>3 DEF CreatePlan, RowsOK
    <3> QED BY <2>1, <2>3, <3>1 DEF CreatePlan, TypeOK, ChildTerminal
  <2>4. ASSUME NEW c, NEW s, MarkTerminal(c, s) PROVE Final
    BY <2>1, <2>4 DEF MarkTerminal, TypeOK, ChildTerminal
  <2>5. ASSUME NEW p \in Parent, MarkDispatched(p) PROVE Final
    <3> DEFINE c == NextChild(p)
    <3>1. /\ child[c] = "pending" /\ child' = [child EXCEPT ![c] = "dispatched"]
          /\ worker' = [worker EXCEPT ![c] = chain[p].handle] /\ parent' = parent
      BY <2>5 DEF MarkDispatched
    <3> HIDE DEF c
    <3>2. \A d \in Child : d = c => worker[d] = NoTask
      BY <2>1, <3>1 DEF RowsOK
    <3> QED BY <2>1, <3>1, <3>2 DEF TypeOK, ChildTerminal
  <2>6. ASSUME NEW p \in Parent, Finish(p) PROVE Final
    BY <2>1, <2>6 DEF Finish, TypeOK
  <2>7. ASSUME NEW p \in Parent, ChainStep(p) PROVE Final
    BY <2>2, <2>4, <2>5, <2>6, <2>7
       DEF ChainStep, CancelMarked, StartRefresh, Observe, Observed, CountSlots, Dispatch
  <2>8. QED
    BY <1>1, <2>2, <2>3, <2>7
       DEF Next, MarkFails, CancelChild, Refresh, WorkerSettles, WorkerRetires,
           ProcessEnds, Restart
<1>2. QED
  BY <1>1, SupervisorInvariant, PTL DEF Spec, GraphIsFinal

\* The supervisor uses the orchestrator as TaskLifecycle lets it: every step of it
\* is one of the orchestrator's, or leaves the orchestrator as it is.
THEOREM UsesTheOrchestrator == Spec => LifeSpec
<1>1. Init => LifeInit
  BY DEF Init
<1>2. ASSUME SupInv, [Next]_vars PROVE [LifeNext]_lifeVars
  <2> SUFFICES ASSUME Next, ~ UNCHANGED lifeVars PROVE LifeNext
    BY <1>2 DEF vars, lifeVars
  <2>1. ASSUME NEW p \in Parent, Dispatch(p) PROVE LifeNext
    BY <2>1 DEF Dispatch, LifeNext
  <2>2. ASSUME NEW p \in Parent, MarkFails(p) PROVE LifeNext
    <3>1. chain[p].handle \in Task
      BY <1>2, <2>2 DEF MarkFails, SupInv, ChainsOK, ChainOK
    <3> QED BY <2>2, <3>1 DEF MarkFails, LifeNext, Outcome
  <2>3. ASSUME NEW p \in Parent, NEW c \in Child, CancelChild(p, c) PROVE LifeNext
    <3>1. worker[c] \in Task
      BY <1>2, <2>3 DEF CancelChild, SupInv, RowsOK
    <3> QED BY <2>3, <3>1 DEF CancelChild, LifeNext, Outcome
  <2>4. ASSUME NEW t \in Task, WorkerSettles(t) \/ WorkerRetires(t) PROVE LifeNext
    BY <2>4 DEF WorkerSettles, WorkerRetires, LifeNext
  <2>5. CASE ProcessEnds \/ Restart
    BY <2>5 DEF ProcessEnds, Restart, LifeNext
  <2>6. ASSUME NEW p \in Parent, ChainStep(p), ~ Dispatch(p) PROVE UNCHANGED lifeVars
    BY <2>6 DEF ChainStep, CancelMarked, StartRefresh, Observe, Observed, CountSlots,
       MarkDispatched, Finish
  <2>7. QED
    BY <2>1, <2>2, <2>3, <2>4, <2>5, <2>6 DEF Next, CreatePlan, Refresh
<1>3. QED
  BY <1>1, <1>2, SupervisorInvariant, PTL DEF Spec, LifeSpec

-----------------------------------------------------------------------------
(* The bound on the overshoot *)

\* Reserved slots are slots of the chains in flight, so there are finitely many.
LEMMA ReservedFinite ==
  ASSUME SupInv, SlotsOK
  PROVE  /\ Reserved \in SUBSET (InFlight \X (1..MaxConcurrency))
         /\ IsFiniteSet(Reserved) /\ Cardinality(Reserved) \in Nat
         /\ Cardinality(Active) \in Nat /\ Cardinality(InFlight) \in Nat
         /\ MaxConcurrency \in Nat /\ MaxBatch \in Nat
<1>1. MaxConcurrency \in Nat /\ MaxBatch \in Nat
  BY SupervisorAssumption
<1>2. \A p \in Parent : p \notin InFlight => Reserve(p) = 0
  BY DEF InFlight, Reserve
<1>3. Reserved \in SUBSET (InFlight \X (1..MaxConcurrency))
  BY <1>1, <1>2 DEF Reserved
<1>4. IsFiniteSet(InFlight \X (1..MaxConcurrency))
  <2>1. IsFiniteSet(InFlight) /\ IsFiniteSet(1..MaxConcurrency)
    BY <1>1, FS_Interval DEF SlotsOK
  <2> QED BY <2>1, FS_Product
<1>5. QED
  BY <1>1, <1>3, <1>4, FS_Subset, FS_CardinalityType DEF SlotsOK, SupInv

\* A step after which no chain has more slots than before, and no more children
\* are dispatched.
LEMMA NoMoreSlots ==
  ASSUME SupInv, SlotsOK,
         \A q \in Parent :
           \/ chain'[q] = chain[q]
           \/ chain'[q].at \notin {"pumping", "dispatching"}
           \/ /\ chain[q].at \in {"pumping", "dispatching"}
              /\ chain'[q].available = chain[q].available,
         Active' \in SUBSET Active,
         IsFiniteSet(InFlight'), Cardinality(InFlight') <= MaxBatch
  PROVE  SlotsOK'
<1>1. \A q \in Parent : Reserve(q)' = Reserve(q) \/ Reserve(q)' = 0
  BY DEF Reserve
<1>2. Reserved' \in SUBSET Reserved
  BY <1>1, ReservedFinite DEF Reserved
<1>3. /\ Cardinality(Reserved') <= Cardinality(Reserved) /\ IsFiniteSet(Reserved')
      /\ Cardinality(Active') <= Cardinality(Active) /\ IsFiniteSet(Active')
  BY <1>2, ReservedFinite, FS_Subset DEF SupInv
<1>4. Cardinality(Reserved') \in Nat /\ Cardinality(Active') \in Nat
  BY <1>3, FS_CardinalityType
<1>5. Cardinality(Active') + Cardinality(Reserved') <= MaxConcurrency * MaxBatch
  <2>1. MaxConcurrency * MaxBatch \in Nat
    BY ReservedFinite
  <2>2. Cardinality(Active) + Cardinality(Reserved) <= MaxConcurrency * MaxBatch
    BY DEF SlotsOK
  <2> QED BY <1>3, <1>4, <2>1, <2>2, ReservedFinite
<1>6. QED
  BY <1>5 DEF SlotsOK

\* A chain that counted slots: with the dispatched children they make the limit,
\* and each of the other chains has at most the limit.
LEMMA CountKeepsSlots ==
  ASSUME SupInv, SlotsOK, NEW p \in Parent, CountSlots(p)
  PROVE  SlotsOK'
<1> DEFINE free == MaxConcurrency - CountActiveChildren(p)
           todo == IF free > 0 THEN ChildrenIn(p, "pending") ELSE {}
<1>1. /\ chain \in [Parent -> ChainState] /\ chain[p].at \in {"counting", "observing"}
      /\ UNCHANGED child /\ CountActiveChildren(p) = Cardinality(Active)
  BY DEF CountSlots, SupInv, TypeOK, CountActiveChildren, Active, graph
<1>2. /\ chain'[p].at = IF todo # {} THEN "pumping" ELSE "finishing"
      /\ chain'[p].available = IF todo # {} THEN free ELSE 0
      /\ \A q \in Parent \ {p} : chain'[q] = chain[q]
  BY <1>1 DEF CountSlots, ChainState
<1>3. Active' = Active /\ InFlight' = InFlight /\ p \in InFlight
  BY <1>1, <1>2 DEF Active, InFlight
<1>4. CASE todo = {}
  BY <1>2, <1>3, <1>4, NoMoreSlots DEF SlotsOK
<1>5. CASE todo # {}
  <2> DEFINE others == InFlight \ {p}
             mine == {p} \X (1..free)
             theirs == others \X (1..MaxConcurrency)
  <2>1. free \in Nat /\ free > 0 /\ Cardinality(Active) + free = MaxConcurrency
    BY <1>1, <1>5, ReservedFinite
  <2>2. Reserved' \in SUBSET (mine \cup theirs)
    <3> SUFFICES ASSUME NEW s \in Reserved' PROVE s \in mine \cup theirs
      OBVIOUS
    <3>1. PICK q \in Parent, i \in 1..MaxConcurrency : s = <<q, i>> /\ i <= Reserve(q)'
      BY DEF Reserved
    <3>2. CASE q = p
      <4>1. Reserve(q)' = free
        BY <1>2, <1>5, <3>2 DEF Reserve
      <4> QED BY <2>1, <3>1, <3>2, <4>1
    <3>3. CASE q # p
      <4>1. Reserve(q)' = Reserve(q)
        BY <1>2, <3>3 DEF Reserve
      <4>2. q \in InFlight
        BY <3>1, <4>1 DEF Reserve, InFlight
      <4> QED BY <3>1, <3>3, <4>2
    <3> QED BY <3>2, <3>3
  <2>3. /\ IsFiniteSet(others) /\ Cardinality(others) = Cardinality(InFlight) - 1
        /\ Cardinality(others) \in Nat
    BY <1>3, ReservedFinite, FS_RemoveElement, FS_CardinalityType DEF SlotsOK
  <2>4. /\ IsFiniteSet(theirs)
        /\ Cardinality(theirs) = Cardinality(others) * MaxConcurrency
    <3>1. IsFiniteSet(1..MaxConcurrency) /\ Cardinality(1..MaxConcurrency) = MaxConcurrency
      BY ReservedFinite, FS_Interval
    <3> QED BY <2>3, <3>1, FS_Product
  <2>5. IsFiniteSet(mine) /\ Cardinality(mine) = free
    <3>1. IsFiniteSet(1..free) /\ Cardinality(1..free) = free
      BY <2>1, FS_Interval
    <3>2. IsFiniteSet({p}) /\ Cardinality({p}) = 1
      BY FS_Singleton
    <3>3. Cardinality(mine) = 1 * free /\ IsFiniteSet(mine)
      BY <3>1, <3>2, FS_Product
    <3> QED BY <2>1, <3>3
  <2> HIDE DEF mine, theirs, others, free, todo
  <2>6. /\ IsFiniteSet(mine \cup theirs)
        /\ Cardinality(mine \cup theirs) <= Cardinality(mine) + Cardinality(theirs)
        /\ Cardinality(mine) \in Nat /\ Cardinality(theirs) \in Nat
    <3>1. IsFiniteSet(mine \cap theirs) /\ Cardinality(mine \cap theirs) \in Nat
      BY <2>5, FS_Intersection, FS_CardinalityType
    <3>2. Cardinality(mine) \in Nat /\ Cardinality(theirs) \in Nat
      BY <2>4, <2>5, FS_CardinalityType
    <3>3. /\ IsFiniteSet(mine \cup theirs)
          /\ Cardinality(mine \cup theirs) =
               Cardinality(mine) + Cardinality(theirs) - Cardinality(mine \cap theirs)
      BY <2>4, <2>5, FS_Union
    <3> QED BY <3>1, <3>2, <3>3
  <2>7. /\ IsFiniteSet(Reserved') /\ Cardinality(Reserved') \in Nat
        /\ Cardinality(Reserved') <= free + Cardinality(others) * MaxConcurrency
    <3>1. /\ IsFiniteSet(Reserved')
          /\ Cardinality(Reserved') <= Cardinality(mine \cup theirs)
      BY <2>2, <2>6, FS_Subset
    <3>2. Cardinality(Reserved') \in Nat /\ Cardinality(mine \cup theirs) \in Nat
      BY <2>6, <3>1, FS_CardinalityType
    <3> QED BY <2>4, <2>5, <2>6, <3>1, <3>2
  <2>8. MaxConcurrency + Cardinality(others) * MaxConcurrency <= MaxConcurrency * MaxBatch
    <3>1. Cardinality(others) + 1 <= MaxBatch
      BY <2>3, ReservedFinite DEF SlotsOK
    <3>2. \A k, m, n \in Nat : n + 1 <= m => k + n * k <= k * m
      <4> SUFFICES ASSUME NEW k \in Nat, NEW m \in Nat, NEW n \in Nat, n + 1 <= m
                   PROVE  k + n * k <= k * m
        OBVIOUS
      <4>1. PICK d \in Nat : m = n + 1 + d
        BY m - (n + 1) \in Nat
      <4>2. k * m = k + n * k + k * d /\ k * d \in Nat /\ n * k \in Nat
        BY <4>1
      <4> QED BY <4>2
    <3> QED BY <2>3, <3>1, <3>2, ReservedFinite
  <2>9. Cardinality(Active') + Cardinality(Reserved') <= MaxConcurrency * MaxBatch
    <3>1. Cardinality(others) * MaxConcurrency \in Nat /\ MaxConcurrency * MaxBatch \in Nat
      BY <2>3, ReservedFinite
    <3> QED BY <1>3, <2>1, <2>7, <2>8, <3>1, ReservedFinite
  <2> QED BY <1>3, <2>9 DEF SlotsOK
<1>6. QED
  BY <1>4, <1>5

\* A dispatched child uses up the last of its chain's slots.
LEMMA DispatchUsesSlot ==
  ASSUME SupInv, SlotsOK, NEW p \in Parent, MarkDispatched(p)
  PROVE  SlotsOK'
<1> DEFINE c == NextChild(p)
           n == chain[p].available
           slot == <<p, n>>
<1>1. /\ chain \in [Parent -> ChainState] /\ chain[p].at = "dispatching"
      /\ child \in [Child -> ChildState] /\ child[c] = "pending" /\ c \in Child
      /\ child' = [child EXCEPT ![c] = "dispatched"]
      /\ n \in 1..MaxConcurrency
  BY InHand DEF MarkDispatched, SupInv, TypeOK, ChainsOK, ChainOK
<1>2. /\ chain'[p].at \in {"pumping", "finishing"}
      /\ chain'[p].available = n - 1
      /\ \A q \in Parent \ {p} : chain'[q] = chain[q]
  <2> DEFINE left == chain[p].todo \ {c}
             point == IF n > 1 /\ left # {} THEN "pumping" ELSE "finishing"
  <2>1. chain' = [chain EXCEPT ![p].at = point, ![p].todo = left,
                               ![p].available = n - 1, ![p].handle = NoTask]
    BY DEF MarkDispatched
  <2>2. point \in {"pumping", "finishing"}
    OBVIOUS
  <2> HIDE DEF c, point, left
  <2>3. chain'[p].at = point /\ chain'[p].available = n - 1
    BY <1>1, <2>1 DEF ChainState
  <2>4. \A q \in Parent \ {p} : chain'[q] = chain[q]
    BY <1>1, <2>1
  <2> QED BY <2>2, <2>3, <2>4
<1>3. Active' = Active \cup {c} /\ InFlight' = InFlight /\ c \notin Active
  <2>1. Active' = Active \cup {c} /\ c \notin Active
    BY <1>1 DEF Active
  <2>2. InFlight' = InFlight
    BY <1>1, <1>2 DEF InFlight
  <2> QED BY <2>1, <2>2
<1>4. slot \in Reserved
  BY <1>1 DEF Reserved, Reserve
<1>5. Reserved' \in SUBSET (Reserved \ {slot})
  <2> SUFFICES ASSUME NEW s \in Reserved' PROVE s \in Reserved \ {slot}
    OBVIOUS
  <2>1. PICK q \in Parent, i \in 1..MaxConcurrency : s = <<q, i>> /\ i <= Reserve(q)'
    BY DEF Reserved
  <2>2. CASE q = p
    <3>1. Reserve(p)' \in {0, n - 1} /\ Reserve(p) = n
      BY <1>1, <1>2 DEF Reserve
    <3>2. i <= n /\ i # n
      BY <1>1, <2>1, <2>2, <3>1
    <3> QED BY <2>1, <2>2, <3>1, <3>2 DEF Reserved
  <2>3. CASE q # p
    BY <1>2, <2>1, <2>3 DEF Reserve, Reserved
  <2> QED BY <2>2, <2>3
<1> HIDE DEF c, slot
<1>6. /\ Cardinality(Active') = Cardinality(Active) + 1
      /\ Cardinality(Reserved \ {slot}) = Cardinality(Reserved) - 1
      /\ IsFiniteSet(Reserved \ {slot})
  BY <1>3, <1>4, ReservedFinite, FS_AddElement, FS_RemoveElement DEF SupInv
<1>7. /\ Cardinality(Reserved') <= Cardinality(Reserved \ {slot})
      /\ Cardinality(Reserved') \in Nat
  BY <1>5, <1>6, FS_Subset, FS_CardinalityType
<1>8. Cardinality(Active') + Cardinality(Reserved') <= MaxConcurrency * MaxBatch
  <2>1. MaxConcurrency * MaxBatch \in Nat
    BY ReservedFinite
  <2>2. Cardinality(Active) + Cardinality(Reserved) <= MaxConcurrency * MaxBatch
    BY DEF SlotsOK
  <2> QED BY <1>6, <1>7, <2>1, <2>2, ReservedFinite
<1>9. QED
  BY <1>3, <1>8 DEF SlotsOK

\* A request begins only when no chain is in flight, and puts a page in flight.
LEMMA RequestKeepsSlots ==
  ASSUME SupInv, SlotsOK, Next, InFlight = {},
         UNCHANGED child \/ \E p \in Parent : CreatePlan(p)
  PROVE  SlotsOK'
<1>1. chain \in [Parent -> ChainState] /\ \A p \in Parent : chain[p].at = "idle"
  BY DEF SupInv, TypeOK, InFlight
<1>2. Active' \in SUBSET Active
  BY DEF Active, CreatePlan, SupInv, TypeOK
<1>3. MaxBatch \in Nat /\ 1 <= MaxBatch
  BY SupervisorAssumption
<1>4. ASSUME NEW p \in Parent, CreatePlan(p) \/ \E c \in Child : CancelChild(p, c)
      PROVE  SlotsOK'
  <2>1. /\ chain'[p].at \in {"counting", "cancelling"}
        /\ \A q \in Parent \ {p} : chain'[q] = chain[q]
    <3>1. CASE CreatePlan(p)
      BY <1>1, <3>1 DEF CreatePlan, ChainState
    <3>2. ASSUME NEW c \in Child, CancelChild(p, c)
          PROVE  /\ chain'[p].at \in {"counting", "cancelling"}
                 /\ \A q \in Parent \ {p} : chain'[q] = chain[q]
      BY <1>1, <3>2 DEF CancelChild, ChainState
    <3> QED BY <1>4, <3>1, <3>2
  <2>2. InFlight' = {p}
    BY <1>1, <2>1 DEF InFlight
  <2>3. IsFiniteSet(InFlight') /\ Cardinality(InFlight') <= MaxBatch
    BY <1>3, <2>2, FS_Singleton
  <2> QED BY <1>2, <2>1, <2>3, NoMoreSlots
<1>5. ASSUME NEW batch \in SUBSET Parent, Refresh(batch) PROVE SlotsOK'
  <2>1. Idle \in ChainState
    BY SupervisorAssumption DEF Idle, ChainState, Waiting
  <2>2. [Idle EXCEPT !.at = "starting", !.purpose = "refresh"].at = "starting"
    BY <2>1 DEF ChainState
  <2>3. \A q \in Parent : IF q \in batch THEN chain'[q].at = "starting"
                                         ELSE chain'[q] = chain[q]
    BY <1>5, <2>2 DEF Refresh
  <2>4. InFlight' = batch
    BY <1>1, <2>3 DEF InFlight
  <2>5. IsFiniteSet(InFlight') /\ Cardinality(InFlight') <= MaxBatch
    BY <1>5, <2>4 DEF Refresh
  <2> QED BY <1>2, <2>3, <2>5, NoMoreSlots
<1>6. CASE ~ \/ \E p \in Parent : CreatePlan(p) \/ \E c \in Child : CancelChild(p, c)
             \/ \E batch \in SUBSET Parent : Refresh(batch)
  <2>1. \A p \in Parent : ~ ChainStep(p) /\ ~ MarkFails(p)
    BY <1>1 DEF ChainStep, MarkFails, CancelMarked, StartRefresh, Observe, Observed,
       CountSlots, Dispatch, MarkDispatched, Finish
  <2>2. UNCHANGED chain \/ chain' = [p \in Parent |-> Idle]
    BY <1>6, <2>1 DEF Next, WorkerSettles, WorkerRetires, ProcessEnds, Restart
  <2>3. \A p \in Parent : chain'[p].at = "idle"
    BY <1>1, <2>2 DEF Idle
  <2>4. InFlight' = {}
    BY <2>3 DEF InFlight
  <2>5. IsFiniteSet(InFlight') /\ Cardinality(InFlight') <= MaxBatch
    BY <1>3, <2>4, FS_EmptySet
  <2> QED BY <1>2, <2>3, <2>5, NoMoreSlots
<1>7. QED
  BY <1>4, <1>5, <1>6

\* The other steps of chains in flight count nothing and dispatch nothing.
LEMMA OthersKeepSlots ==
  ASSUME SupInv, SlotsOK, NEW p \in Parent,
         ChainStep(p) \/ MarkFails(p), ~ CountSlots(p), ~ MarkDispatched(p)
  PROVE  SlotsOK'
<1>1. chain \in [Parent -> ChainState] /\ child \in [Child -> ChildState]
  BY DEF SupInv, TypeOK
<1>2. /\ \A q \in Parent \ {p} : chain'[q] = chain[q]
      /\ \/ chain'[p].at \notin {"pumping", "dispatching"}
         \/ /\ chain[p].at \in {"pumping", "dispatching"}
            /\ chain'[p].available = chain[p].available
      /\ chain[p].at # "idle"
  <2>1. CASE CancelMarked(p)
    BY <1>1, <2>1 DEF CancelMarked, ChainState
  <2>2. CASE StartRefresh(p)
    BY <1>1, <2>2 DEF StartRefresh, ChainState
  <2>3. CASE Observe(p)
    BY <1>1, <2>3 DEF Observe, ChainState
  <2>4. CASE Observed(p)
    BY <1>1, <2>4 DEF Observed, ChainState
  <2>5. CASE Dispatch(p)
    BY <1>1, <2>5 DEF Dispatch, ChainState
  <2>6. CASE Finish(p)
    BY <1>1, <2>6 DEF Finish, ChainState, Idle
  <2>7. CASE MarkFails(p)
    BY <1>1, <2>7 DEF MarkFails, ChainState, Idle
  <2> QED BY <2>1, <2>2, <2>3, <2>4, <2>5, <2>6, <2>7 DEF ChainStep
<1>3. UNCHANGED child \/ \E c, s : MarkTerminal(c, s) /\ s # "dispatched"
  <2>1. CASE Observed(p)
    BY <1>1, <2>1 DEF Observed, graph, ChainState, Outcome
  <2>2. CASE ~ Observed(p)
    BY <2>2 DEF ChainStep, CancelMarked, StartRefresh, Observe, Dispatch, Finish,
       MarkFails, graph
  <2> QED BY <2>1, <2>2
<1>4. Active' \in SUBSET Active
  BY <1>1, <1>3 DEF Active, MarkTerminal
<1>5. InFlight' \in SUBSET InFlight
  BY <1>2 DEF InFlight
<1>6. IsFiniteSet(InFlight') /\ Cardinality(InFlight') <= MaxBatch
  <2>1. /\ IsFiniteSet(InFlight') /\ Cardinality(InFlight') <= Cardinality(InFlight)
        /\ Cardinality(InFlight') \in Nat
    BY <1>5, FS_Subset, FS_CardinalityType DEF SlotsOK
  <2> QED BY <2>1, ReservedFinite DEF SlotsOK
<1>7. QED
  BY <1>2, <1>4, <1>6, NoMoreSlots

\* Concurrent refreshes exceed the concurrency limit at most by the page of
\* parents a request refreshes: every chain counts on its own, none twice.
THEOREM OvershootIsBounded == Spec => []OvershootBounded
<1>1. Init => SlotsOK
  <2> SUFFICES ASSUME Init PROVE SlotsOK
    OBVIOUS
  <2>1. InFlight = {} /\ Active = {} /\ Reserved = {}
    BY DEF Init, Idle, InFlight, Active, Reserved, Reserve
  <2>2. MaxConcurrency \in Nat /\ MaxBatch \in Nat /\ MaxConcurrency * MaxBatch \in Nat
    BY SupervisorAssumption
  <2> QED BY <2>1, <2>2, FS_EmptySet DEF SlotsOK
<1>2. ASSUME SupInv, SlotsOK, [Next]_vars PROVE SlotsOK'
  <2>1. CASE UNCHANGED <<child, chain>>
    BY <1>2, <2>1 DEF SlotsOK, InFlight, Active, Reserved, Reserve
  <2>2. CASE Next /\ InFlight = {} /\ (UNCHANGED child \/ \E p \in Parent : CreatePlan(p))
    BY <1>2, <2>2, RequestKeepsSlots
  <2>3. ASSUME NEW p \in Parent, ChainStep(p) \/ MarkFails(p) PROVE SlotsOK'
    BY <1>2, <2>3, CountKeepsSlots, DispatchUsesSlot, OthersKeepSlots
  <2>4. CASE ProcessEnds
    <3>1. \A p \in Parent : chain'[p].at = "idle"
      BY <2>4 DEF ProcessEnds, Idle
    <3>2. InFlight' = {} /\ Active' = Active
      BY <2>4, <3>1 DEF InFlight, Active, ProcessEnds, graph
    <3>3. IsFiniteSet(InFlight') /\ Cardinality(InFlight') <= MaxBatch
      BY <3>2, FS_EmptySet, SupervisorAssumption
    <3> QED BY <1>2, <3>1, <3>2, <3>3, NoMoreSlots
  <2>5. QED
    BY <1>2, <2>1, <2>2, <2>3, <2>4
       DEF Next, CreatePlan, CancelChild, Refresh, WorkerSettles, WorkerRetires, Restart,
           vars, graph
<1>3. ASSUME SupInv, SlotsOK PROVE OvershootBounded
  <2>1. MaxConcurrency * MaxBatch \in Nat
    BY <1>3, ReservedFinite
  <2> QED BY <1>3, <2>1, ReservedFinite DEF SlotsOK, OvershootBounded
<1>4. QED
  BY <1>1, <1>2, <1>3, SupervisorInvariant, PTL DEF Spec
=============================================================================
