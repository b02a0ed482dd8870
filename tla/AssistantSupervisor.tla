------------------------- MODULE AssistantSupervisor -------------------------
(***************************************************************************)
(* The supervisor that turns a plan into worker tasks                      *)
(* (packages/assistant-supervisor/src/supervisor.ts with                   *)
(* orchestrator-dispatcher.ts), its durable parent/child graph             *)
(* (task-orchestrator/src/supervisor-graph-store.ts) and the host's use of *)
(* both (apps/host/src/server.ts).  The orchestrator below it is the       *)
(* abstract TaskLifecycle, which TaskOrchestrator implements.              *)
(*                                                                         *)
(* A chain is one run of createPlan, refresh or cancelChild for a parent.  *)
(* Everything a chain awaits is already settled, so it runs to its end     *)
(* before the event loop takes the next request; but the chains of one     *)
(* request (GET /assistant/parents refreshes a page of parents under       *)
(* Promise.all) interleave at every await.  Between two awaits a chain     *)
(* runs alone (Running), yet the process may die between its transactions. *)
(***************************************************************************)
EXTENDS TaskLifecycle, Integers, FiniteSets, Sequences

CONSTANTS
  Parent,          \* parent ids
  Child,           \* child ids
  Plan,            \* the children of each parent, by ordinal
  NoTask,          \* the NULL of column worker_task_id
  NoChild,         \* a task that was submitted for no child
  MaxConcurrency,  \* maxConcurrency of the supervisor
  MaxBatch,        \* bound: parents one request refreshes
  MayCrash,        \* whether the process can end
  MayLose,         \* whether a run can leave its task unsettled (expired lease)
  MayFail          \* whether markDispatched can fail (SQLite busy, disk full)

ASSUME SupervisorAssumption ==
  /\ Plan \in [Parent -> Seq(Child)]
  /\ \A c \in Child : \E p \in Parent : \E i \in 1..Len(Plan[p]) : Plan[p][i] = c
  /\ \A p, q \in Parent : \A i \in 1..Len(Plan[p]), j \in 1..Len(Plan[q]) :
       Plan[p][i] = Plan[q][j] => p = q /\ i = j
  /\ NoTask \notin Task /\ NoChild \notin Child
  /\ MaxConcurrency \in 1..16
  /\ MaxBatch \in Nat \ {0}
  /\ {MayCrash, MayLose, MayFail} \subseteq BOOLEAN

VARIABLES
  parent,  \* table supervisor_parents: the state column
  child,   \* table supervisor_children: the state column
  worker,  \* ... and its worker_task_id
  chain,   \* where the chain of each parent is
  asked    \* history: the child each task was submitted for

graph == <<parent, child, worker>>
vars == <<up, phase, owned, parent, child, worker, chain, asked>>

ChildTerminal == {"completed", "failed", "cancelled"}
ChildState == {"absent", "pending", "dispatched"} \cup ChildTerminal

\* A chain: its point, the children its loop has still to visit, the answer of
\* dispatcher.observe, the slots left of those it counted, the task it submitted.
Idle == [at |-> "idle", purpose |-> "none", todo |-> {}, seen |-> "none",
         available |-> 0, handle |-> NoTask]

\* Points at which a chain runs, and points at which it waits.
Running == {"observing", "counting", "pumping"}
Waiting == {"idle", "starting", "observed", "dispatching", "cancelling", "finishing"}

InFlight == {p \in Parent : chain[p].at # "idle"}

\* A chain may go on when no other runs, and past its first await only when all
\* chains of the request have come to theirs.
Turn(p) ==
  /\ up /\ \A q \in Parent \ {p} : chain[q].at \notin Running
  /\ \/ chain[p].at \in Running \cup {"starting"}
     \/ \A q \in Parent \ {p} : chain[q].at # "starting"

ChildrenOf(p) == {Plan[p][i] : i \in 1..Len(Plan[p])}
ChildrenIn(p, s) == {c \in ChildrenOf(p) : child[c] = s}

\* The loops go over the children by ordinal: the next of what is left of one.
FirstOf(p, S) ==
  LET left == {i \in 1..Len(Plan[p]) : Plan[p][i] \in S}
  IN Plan[p][CHOOSE i \in left : \A j \in left : i <= j]
NextChild(p) == FirstOf(p, chain[p].todo)

\* Mutant: only the parent's own children are counted.
CountActiveChildren_OfParent(p) ==
  Cardinality({c \in ChildrenOf(p) : child[c] = "dispatched"})

\* Mutant: a settled child keeps its slot.
CountActiveChildren_Settled(p) ==
  Cardinality({c \in Child : child[c] \in {"dispatched"} \cup ChildTerminal})

\* countActiveChildren, over all parents.
CountActiveChildren(p) == Cardinality({c \in Child : child[c] = "dispatched"})

Init ==
  /\ LifeInit
  /\ parent = [p \in Parent |-> "absent"]
  /\ child = [c \in Child |-> "absent"]
  /\ worker = [c \in Child |-> NoTask]
  /\ chain = [p \in Parent |-> Idle]
  /\ asked = [t \in Task |-> NoChild]

\* markTerminal.  Its throw for a child that is not dispatched cannot happen:
\* no two chains of one parent are in flight together.
MarkTerminal(c, s) ==
  /\ child[c] = "dispatched"
  /\ child' = [child EXCEPT ![c] = s]
  /\ UNCHANGED <<parent, worker>>

-----------------------------------------------------------------------------
(* Requests *)

\* POST of a delegated message, a due job, a standing intent: one transaction
\* inserts parent and children, then the pump begins.
CreatePlan(p) ==
  /\ up /\ InFlight = {} /\ parent[p] = "absent"
  /\ parent' = [parent EXCEPT ![p] = "active"]
  /\ child' = [c \in Child |-> IF c \in ChildrenOf(p) THEN "pending" ELSE child[c]]
  /\ chain' = [chain EXCEPT ![p].at = "counting", ![p].purpose = "plan"]
  /\ UNCHANGED <<lifeVars, worker, asked>>

\* #refreshSupervisorParent of the parents of one request.
Refresh(batch) ==
  /\ up /\ InFlight = {}
  /\ batch # {} /\ IsFiniteSet(batch) /\ Cardinality(batch) <= MaxBatch
  /\ \A p \in batch : parent[p] # "absent"
  /\ chain' = [p \in Parent |->
                 IF p \in batch
                   THEN [Idle EXCEPT !.at = "starting", !.purpose = "refresh"]
                   ELSE chain[p]]
  /\ UNCHANGED <<lifeVars, graph, asked>>

\* Mutant: the graph is told, the worker is not.
CancelChild_GraphOnly(p, c) ==
  /\ up /\ InFlight = {}
  /\ c \in ChildrenOf(p) /\ child[c] = "dispatched"
  /\ chain' = [chain EXCEPT ![p].at = "cancelling", ![p].purpose = "cancel",
                            ![p].todo = {c}]
  /\ UNCHANGED <<lifeVars, graph, asked>>

\* cancelChild.  orchestrator.cancel settles a running task it holds and ignores
\* any other; its throw (expired lease) ends the request with nothing changed.
CancelChild(p, c) ==
  /\ up /\ InFlight = {}
  /\ c \in ChildrenOf(p) /\ child[c] = "dispatched"
  /\ \/ Settle(worker[c], "cancelled")
     \/ /\ worker[c] \notin owned \/ phase[worker[c]] # "running"
        /\ UNCHANGED lifeVars
  /\ chain' = [chain EXCEPT ![p].at = "cancelling", ![p].purpose = "cancel",
                            ![p].todo = {c}]
  /\ UNCHANGED <<graph, asked>>

CancelMarked(p) ==
  /\ Turn(p) /\ chain[p].at = "cancelling"
  /\ MarkTerminal(NextChild(p), "cancelled")
  /\ chain' = [chain EXCEPT ![p].at = "counting", ![p].todo = {}]
  /\ UNCHANGED <<lifeVars, asked>>

-----------------------------------------------------------------------------
(* refresh: observe the dispatched children of a snapshot, one by one *)

StartRefresh(p) ==
  /\ Turn(p) /\ chain[p].at = "starting"
  /\ chain' = [chain EXCEPT ![p].at = "observing",
                            ![p].todo = ChildrenIn(p, "dispatched")]
  /\ UNCHANGED <<lifeVars, graph, asked>>

\* dispatcher.observe reads at the call, the loop goes on with the answer later.
Observe(p) ==
  /\ Turn(p) /\ chain[p].at = "observing" /\ chain[p].todo # {}
  /\ chain' = [chain EXCEPT ![p].at = "observed",
                            ![p].seen = phase[worker[NextChild(p)]]]
  /\ UNCHANGED <<lifeVars, graph, asked>>

\* Mutant: whatever ended counts as completed.
Observed_Ended(p) ==
  /\ Turn(p) /\ chain[p].at = "observed"
  /\ \/ chain[p].seen = "running" /\ UNCHANGED graph
     \/ chain[p].seen # "running" /\ MarkTerminal(NextChild(p), "completed")
  /\ chain' = [chain EXCEPT ![p].at = "observing", ![p].todo = @ \ {NextChild(p)},
                            ![p].seen = "none"]
  /\ UNCHANGED <<lifeVars, asked>>

Observed(p) ==
  /\ Turn(p) /\ chain[p].at = "observed"
  /\ \/ chain[p].seen = "running" /\ UNCHANGED graph
     \/ chain[p].seen # "running" /\ MarkTerminal(NextChild(p), chain[p].seen)
  /\ chain' = [chain EXCEPT ![p].at = "observing", ![p].todo = @ \ {NextChild(p)},
                            ![p].seen = "none"]
  /\ UNCHANGED <<lifeVars, asked>>

-----------------------------------------------------------------------------
(* #pump: the free slots are counted once, before the first dispatch *)

\* Mutant: a limit already exceeded is not told from a limit reached.
CountSlots_Negative(p) ==
  LET free == MaxConcurrency - CountActiveChildren(p)
      todo == IF free # 0 THEN ChildrenIn(p, "pending") ELSE {}
  IN
  /\ Turn(p)
  /\ \/ chain[p].at = "counting"
     \/ chain[p].at = "observing" /\ chain[p].todo = {}
  /\ chain' = [chain EXCEPT ![p].at = IF todo # {} THEN "pumping" ELSE "finishing",
                            ![p].available = IF todo # {} THEN free ELSE 0,
                            ![p].todo = todo]
  /\ UNCHANGED <<lifeVars, graph, asked>>

CountSlots(p) ==
  LET free == MaxConcurrency - CountActiveChildren(p)
      todo == IF free > 0 THEN ChildrenIn(p, "pending") ELSE {}
  IN
  /\ Turn(p)
  /\ \/ chain[p].at = "counting"
     \/ chain[p].at = "observing" /\ chain[p].todo = {}
  /\ chain' = [chain EXCEPT ![p].at = IF todo # {} THEN "pumping" ELSE "finishing",
                            ![p].available = IF todo # {} THEN free ELSE 0,
                            ![p].todo = todo]
  /\ UNCHANGED <<lifeVars, graph, asked>>

\* dispatch submits a fresh task; the chain awaits the handle.
Dispatch(p) ==
  /\ Turn(p) /\ chain[p].at = "pumping"
  /\ \E t \in Task : phase[t] = "absent"
  /\ LET t == CHOOSE t \in Task : phase[t] = "absent" IN
     /\ Submit(t)
     /\ asked' = [asked EXCEPT ![t] = NextChild(p)]
     /\ chain' = [chain EXCEPT ![p].at = "dispatching", ![p].handle = t]
  /\ UNCHANGED graph

MarkDispatched(p) ==
  /\ Turn(p) /\ chain[p].at = "dispatching"
  /\ LET c == NextChild(p)
         rest == chain[p].todo \ {c}
     IN
     /\ child[c] = "pending"
     /\ child' = [child EXCEPT ![c] = "dispatched"]
     /\ worker' = [worker EXCEPT ![c] = chain[p].handle]
     /\ chain' = [chain EXCEPT ![p].at = IF chain[p].available > 1 /\ rest # {}
                                          THEN "pumping" ELSE "finishing",
                               ![p].todo = rest,
                               ![p].available = @ - 1, ![p].handle = NoTask]
  /\ UNCHANGED <<lifeVars, parent, asked>>

\* Mutant: the error is reported, the submitted task runs on.
MarkFails_Abandons(p) ==
  /\ MayFail /\ Turn(p) /\ chain[p].at = "dispatching"
  /\ chain' = [chain EXCEPT ![p] = Idle]
  /\ UNCHANGED <<lifeVars, graph, asked>>

\* The catch block: abort and cancel the task, rethrow.
MarkFails(p) ==
  /\ MayFail /\ Turn(p) /\ chain[p].at = "dispatching"
  /\ \/ Settle(chain[p].handle, "cancelled")
     \/ /\ chain[p].handle \notin owned \/ phase[chain[p].handle] # "running"
        /\ UNCHANGED lifeVars
  /\ chain' = [chain EXCEPT ![p] = Idle]
  /\ UNCHANGED <<graph, asked>>

\* Mutant: only the chain that created the plan synthesizes.
Finish_PlanOnly(p) ==
  /\ Turn(p) /\ chain[p].at = "finishing"
  /\ parent' = [parent EXCEPT ![p] =
       IF /\ chain[p].purpose = "plan"
          /\ \A c \in ChildrenOf(p) : child[c] = "completed"
         THEN "completed" ELSE @]
  /\ chain' = [chain EXCEPT ![p] = Idle]
  /\ UNCHANGED <<lifeVars, child, worker, asked>>

\* The end of the chain; after a refresh the host synthesizes an active parent
\* whose children are all completed (completeParent).
Finish(p) ==
  /\ Turn(p) /\ chain[p].at = "finishing"
  /\ parent' = [parent EXCEPT ![p] =
       IF /\ chain[p].purpose = "refresh"
          /\ \A c \in ChildrenOf(p) : child[c] = "completed"
         THEN "completed" ELSE @]
  /\ chain' = [chain EXCEPT ![p] = Idle]
  /\ UNCHANGED <<lifeVars, child, worker, asked>>

-----------------------------------------------------------------------------
(* The orchestrator and the process *)

NoneRuns == \A p \in Parent : chain[p].at \notin Running \cup {"starting"}

WorkerSettles(t) ==
  /\ NoneRuns /\ \E o \in Outcome : Settle(t, o)
  /\ UNCHANGED <<graph, chain, asked>>

WorkerRetires(t) ==
  /\ NoneRuns /\ (MayLose \/ phase[t] # "running")
  /\ Retire(t)
  /\ UNCHANGED <<graph, chain, asked>>

ProcessEnds ==
  /\ MayCrash /\ HostDown
  /\ chain' = [p \in Parent |-> Idle]
  /\ UNCHANGED <<graph, asked>>

\* Mutant: a restart queues every dispatched child anew.
Restart_Requeues ==
  /\ HostUp
  /\ child' = [c \in Child |-> IF child[c] = "dispatched" THEN "pending" ELSE child[c]]
  /\ UNCHANGED <<parent, worker, chain, asked>>

Restart == HostUp /\ UNCHANGED <<graph, chain, asked>>

ChainStep(p) ==
  \/ CancelMarked(p) \/ StartRefresh(p) \/ Observe(p) \/ Observed(p)
  \/ CountSlots(p) \/ Dispatch(p) \/ MarkDispatched(p) \/ Finish(p)

Next ==
  \/ \E p \in Parent : CreatePlan(p) \/ ChainStep(p) \/ MarkFails(p)
  \/ \E p \in Parent, c \in Child : CancelChild(p, c)
  \/ \E batch \in SUBSET Parent : Refresh(batch)
  \/ \E t \in Task : WorkerSettles(t) \/ WorkerRetires(t)
  \/ ProcessEnds
  \/ Restart

Spec == Init /\ [][Next]_vars

\* Promises settle; workers settle (EveryTaskSettles of TaskOrchestrator); and
\* clients keep polling every parent (the event stream does so every 20 ms).
Fairness ==
  /\ \A p \in Parent : WF_vars(ChainStep(p)) /\ SF_vars(Refresh({p}))
  /\ \A t \in Task : SF_vars(WorkerSettles(t))

FairSpec == Spec /\ Fairness

-----------------------------------------------------------------------------
ChainState ==
  [at : Running \cup Waiting, purpose : {"none", "plan", "refresh", "cancel"},
   todo : SUBSET Child, seen : {"none", "running"} \cup Outcome,
   available : 0..MaxConcurrency, handle : Task \cup {NoTask}]

\* Every variable has its type.
TypeOK ==
  /\ LifeTypeOK
  /\ parent \in [Parent -> {"absent", "active", "completed"}]
  /\ child \in [Child -> ChildState]
  /\ worker \in [Child -> Task \cup {NoTask}]
  /\ chain \in [Parent -> ChainState]
  /\ asked \in [Task -> Child \cup {NoChild}]

\* tasks/todo.md:674 "do not duplicate active workers": at no time do two live
\* workers serve one child, although a crash or an error between dispatch and
\* markDispatched leaves the child pending and so dispatched once more.
OneLiveWorker ==
  \A t1, t2 \in owned :
    phase[t1] = "running" /\ phase[t2] = "running" /\ asked[t1] = asked[t2] => t1 = t2

\* No live worker is out of the owner's sight: it is the worker of a dispatched
\* child, which can be observed and cancelled, or a chain is about to record it.
NoOrphanWorker ==
  \A t \in owned : phase[t] = "running" =>
    \/ \E c \in Child : child[c] = "dispatched" /\ worker[c] = t
    \/ \E p \in Parent : chain[p].at = "dispatching" /\ chain[p].handle = t

\* Live workers and dispatched children are one to one, but for a chain that is
\* about to record its worker.
WorkersAreTracked == OneLiveWorker /\ NoOrphanWorker

\* Completion is never claimed without a worker that completed for that very
\* child, and a parent's synthesis never without all its children's reports.
CompletionEvidenced ==
  /\ \A c \in Child : child[c] = "completed" =>
       worker[c] \in Task /\ phase[worker[c]] = "completed" /\ asked[worker[c]] = c
  /\ \A p \in Parent : parent[p] = "completed" =>
       \A c \in ChildrenOf(p) : child[c] = "completed"

Active == {c \in Child : child[c] = "dispatched"}

\* How far the interleaved chains of a request can exceed the concurrency limit:
\* each hands out at most the slots it counted, so the excess is bounded by the
\* page of parents, and there is none when a request refreshes one parent.
OvershootBounded == Cardinality(Active) <= MaxConcurrency * MaxBatch

\* SPEC-agentme-mvp.md:158 "Concurrency is bounded and configurable", todo.md:675
\* "Configured concurrency [rule is] enforced".
ConcurrencyBounded == Cardinality(Active) <= MaxConcurrency

\* What the owner was shown as the outcome of a child or parent never changes,
\* and a child never gets a second worker, whatever chains were interrupted.
GraphIsFinal ==
  [][/\ \A c \in Child : /\ child[c] \in ChildTerminal => child'[c] = child[c]
                         /\ worker[c] # NoTask => worker'[c] = worker[c]
     /\ \A p \in Parent : parent[p] = "completed" => parent'[p] = "completed"]_vars

\* Every planned child is dispatched and gets an outcome, in spite of a limit
\* shared by all parents, as long as clients poll and workers settle.
EveryChildSettles ==
  \A c \in Child : child[c] = "pending" ~> child[c] \in ChildTerminal

\* A parent whose children have all completed is synthesized.
ParentCompletes ==
  \A p \in Parent :
    (parent[p] = "active" /\ \A c \in ChildrenOf(p) : child[c] = "completed")
      ~> parent[p] = "completed"

\* Children and then their parents get to their outcomes.
PlansSettle == EveryChildSettles /\ ParentCompletes
=============================================================================
