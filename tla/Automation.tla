------------------------------ MODULE Automation ------------------------------
(***************************************************************************)
(* Scheduled jobs (packages/automation-runtime/src/scheduler.ts), standing *)
(* intents on task events (intent-store.ts, intent-matcher.ts) and the     *)
(* host's two loops over them (apps/host/src/server.ts): the drain, which  *)
(* a timer starts every 50 ms, and the handler, which takes task events    *)
(* one by one from a promise chain.  Both turn a claim into a plan of the  *)
(* supervisor, whose task ends in a new event for the handler.             *)
(*                                                                         *)
(* A loop runs in one stretch of the event loop, from its start or from    *)
(* the end of an audit that it awaits.  The process may die between any    *)
(* two of its transactions; requests, ticks and the other loop come in     *)
(* while it is idle or awaits an audit.                                    *)
(***************************************************************************)
EXTENDS Integers, FiniteSets, SequencesExt

CONSTANTS
  Job, Intent,   \* ids
  Parent,        \* ids of plans and of the tasks of QQ senders
  NoRow,         \* no such job or intent in its table
  NoParent,      \* NULL of the columns parent_id and last_parent_id
  EventType,     \* types a standing intent may wait for
  Cooldown,      \* cooldowns and budgets the owner may choose
  Budget,
  RunAt, Expiry, \* times the owner may choose
  MaxBatch,      \* jobs one drain takes
  AuditWaits,    \* whether the audit sinks are asynchronous
  MayCrash,      \* whether the process can be killed
  MayFail,       \* whether createPlan can throw after it stored the plan
  MaxTime,       \* bound: last tick of the clock
  MaxDelegated   \* bound: plans of the owner and tasks of QQ senders

ASSUME AutomationAssumption ==
  /\ Job \cap Intent = {} /\ {"owner", "remote", "none"} \cap (Job \cup Intent) = {}
  /\ NoParent \notin Parent
  /\ Cooldown \subseteq Nat /\ Budget \subseteq Nat \ {0}
  /\ RunAt \subseteq Nat /\ Expiry \subseteq Nat
  /\ MaxBatch \in Nat \ {0} /\ MaxTime \in Nat /\ MaxDelegated \in Nat
  /\ {AuditWaits, MayCrash, MayFail} \subseteq BOOLEAN

VARIABLES
  now,     \* the clock
  host,    \* the process: up, stopping, down
  job,     \* table scheduled_jobs
  intent,  \* table standing_intents
  work,    \* the task of each plan: none, open, ended
  events,  \* task events queued on #standingIntentEvents
  loop,    \* where the drain and the handler are
  origin,  \* history: who a plan was made for, and by which of its fires
  fires    \* history: the times at which each intent fired

vars == <<now, host, job, intent, work, events, loop, origin, fires>>

JobRow == [runAt : Nat, fired : BOOLEAN, cancelled : BOOLEAN,
           parent : Parent \cup {NoParent}, failed : BOOLEAN]

IntentRow == [type : EventType, expires : Nat, cooldown : Cooldown, maxFires : Budget,
              count : Nat, cancelled : BOOLEAN,
              parent : Parent \cup {NoParent}, failed : BOOLEAN]
ASSUME NoRowIsNone == NoRow \notin JobRow \cup IntentRow

Pc == {"idle", "next", "firing", "planned", "failing", "audit"}
Parked == IF AuditWaits THEN {"idle", "audit"} ELSE {"idle"}
Looping(at, todo) == [at |-> at, todo |-> todo, parent |-> NoParent]
IdleLoop == Looping("idle", <<>>)

\* No stretch of a loop is under way, nor is one due for a queued event.
Quiet ==
  /\ loop["drain"].at \in Parked /\ loop["handler"].at \in Parked
  /\ loop["handler"].at = "idle" => events = <<>>

Other(k) == IF k = "drain" THEN "handler" ELSE "drain"
MayRun(k) == host # "down" /\ loop[Other(k)].at \in Parked

PlansOf(x) == {p \in Parent : origin[p].by = x}

Init ==
  /\ now = 0 /\ host = "up"
  /\ job = [j \in Job |-> NoRow]
  /\ intent = [i \in Intent |-> NoRow]
  /\ work = [p \in Parent |-> "none"]
  /\ events = <<>>
  /\ loop = [k \in {"drain", "handler"} |-> IdleLoop]
  /\ origin = [p \in Parent |-> [by |-> "none", fire |-> 0]]
  /\ fires = [i \in Intent |-> <<>>]

\* createPlan stores a parent of a fresh id; its child is dispatched at once or
\* by a later refresh.
FreshParent == CHOOSE p \in Parent : work[p] = "none"
CreatePlan(by, fire) ==
  /\ \E p \in Parent : work[p] = "none"
  /\ work' = [work EXCEPT ![FreshParent] = "open"]
  /\ origin' = [origin EXCEPT ![FreshParent] = [by |-> by, fire |-> fire]]

-----------------------------------------------------------------------------
(* Requests and task events *)

Request == Quiet /\ host \in {"up", "stopping"}

Schedule(j, runAt) ==
  /\ Request /\ job[j] = NoRow
  /\ job' = [job EXCEPT ![j] = [runAt |-> runAt, fired |-> FALSE, cancelled |-> FALSE,
                                parent |-> NoParent, failed |-> FALSE]]
  /\ UNCHANGED <<now, host, intent, work, events, loop, origin, fires>>

\* DurableScheduler.cancel: only work that has not been claimed.
CancelJob(j) ==
  /\ Request /\ job[j] # NoRow /\ ~job[j].fired /\ ~job[j].cancelled
  /\ job' = [job EXCEPT ![j].cancelled = TRUE]
  /\ UNCHANGED <<now, host, intent, work, events, loop, origin, fires>>

CreateIntent(i, type, expires, cooldown, maxFires) ==
  /\ Request /\ intent[i] = NoRow /\ expires > now
  /\ intent' = [intent EXCEPT ![i] =
       [type |-> type, expires |-> expires, cooldown |-> cooldown,
        maxFires |-> maxFires, count |-> 0, cancelled |-> FALSE,
        parent |-> NoParent, failed |-> FALSE]]
  /\ UNCHANGED <<now, host, job, work, events, loop, origin, fires>>

\* StandingIntentStore.cancel: only an active intent.
CancelIntent(i) ==
  /\ Request /\ intent[i] # NoRow /\ ~intent[i].cancelled
  /\ intent[i].count < intent[i].maxFires /\ intent[i].expires > now
  /\ intent' = [intent EXCEPT ![i].cancelled = TRUE]
  /\ UNCHANGED <<now, host, job, work, events, loop, origin, fires>>

\* A message of the owner makes a plan; a paired QQ sender submits a task of its
\* own to the orchestrator (remoteTaskPorts), which ends in an event just the same.
Delegate(actor) ==
  /\ Request
  /\ Cardinality(PlansOf("owner") \cup PlansOf("remote")) < MaxDelegated
  /\ CreatePlan(actor, 1)
  /\ UNCHANGED <<now, host, job, intent, events, loop, fires>>

\* subscribeAll queues the event of a task that ends, until stop unsubscribes.
\* All tasks but those of QQ senders act for the local owner.
TaskEnds(p, type) ==
  /\ Quiet /\ host = "up" /\ work[p] = "open"
  /\ work' = [work EXCEPT ![p] = "ended"]
  /\ events' = Append(events, [type |-> type, actor |->
                 IF origin[p].by = "remote" THEN "remote" ELSE "owner"])
  /\ UNCHANGED <<now, host, job, intent, loop, origin, fires>>

-----------------------------------------------------------------------------
(* The starts of the two loops *)

Due == {j \in Job : /\ job[j] # NoRow /\ ~job[j].fired /\ ~job[j].cancelled
                    /\ job[j].runAt <= now}

\* The timer starts a drain, unless one is running, on a snapshot of due jobs.
StartDrain ==
  /\ Quiet /\ host = "up" /\ loop["drain"].at = "idle" /\ Due # {}
  /\ \E due \in SetToSeqs(Due) :
       loop' = [loop EXCEPT !["drain"] =
                  Looping("next", SubSeq(due, 1, IF Len(due) < MaxBatch THEN Len(due) ELSE MaxBatch))]
  /\ UNCHANGED <<now, host, job, intent, work, events, origin, fires>>

\* Mutant: the drain claims to the end of its snapshot whatever happens.
DrainOver_NoShutdown == loop["drain"].todo = <<>>

\* The drain ends with its snapshot, or before its next claim when the host stops.
DrainOver == loop["drain"].todo = <<>> \/ host = "stopping"

\* Mutant: #automationDrain is not reset.
DrainEnds_NoFinally == UNCHANGED loop

\* finally: the next tick of the timer may start a drain again.
DrainEnds == loop' = [loop EXCEPT !["drain"] = IdleLoop]

\* Mutant: the claim relies on the snapshot for jobs that are cancelled.
Claimable_Unfired(j) == ~job[j].fired

\* The WHERE clause of scheduler.claim.
Claimable(j) == ~job[j].fired /\ ~job[j].cancelled

\* scheduler.claim of the next job in the snapshot.
ClaimJob ==
  LET todo == loop["drain"].todo IN
  /\ MayRun("drain") /\ loop["drain"].at = "next"
  /\ \/ /\ DrainOver /\ DrainEnds
        /\ UNCHANGED job
     \/ /\ ~DrainOver /\ ~Claimable(Head(todo))
        /\ loop' = [loop EXCEPT !["drain"].todo = Tail(todo)]
        /\ UNCHANGED job
     \/ /\ ~DrainOver /\ Claimable(Head(todo))
        /\ job' = [job EXCEPT ![Head(todo)].fired = TRUE]
        /\ loop' = [loop EXCEPT !["drain"].at = "firing"]
  /\ UNCHANGED <<now, host, intent, work, events, origin, fires>>

\* Mutant of the next operator: the last fire is not looked at.
CanFireIntent_NoCooldown(i, event) ==
  /\ event.actor = "owner" /\ event.type = intent[i].type
  /\ now < intent[i].expires
  /\ intent[i].count < intent[i].maxFires

\* canFireIntent
CanFireIntent(i, event) ==
  /\ event.actor = "owner" /\ event.type = intent[i].type
  /\ now < intent[i].expires
  /\ intent[i].count < intent[i].maxFires
  /\ fires[i] # <<>> => now - Last(fires[i]) >= intent[i].cooldown

\* Mutant: the row goes on naming the plan of the fire before.
ClaimedRow_KeepsParent(row) == [row EXCEPT !.count = @ + 1, !.failed = FALSE]

\* The UPDATE of a claim.
ClaimedRow(row) == [row EXCEPT !.count = @ + 1, !.parent = NoParent, !.failed = FALSE]

\* matchAndClaim claims all intents that the next event fires, in one transaction.
HandleEvent ==
  /\ MayRun("handler") /\ loop["handler"].at = "idle" /\ events # <<>>
  /\ events' = Tail(events)
  /\ \/ host = "stopping" /\ UNCHANGED <<intent, loop, fires>>
     \/ /\ host = "up"
        /\ LET claimed == {i \in Intent : /\ intent[i] # NoRow /\ ~intent[i].cancelled
                                          /\ CanFireIntent(i, Head(events))}
           IN
           /\ intent' = [i \in Intent |->
                IF i \in claimed THEN ClaimedRow(intent[i]) ELSE intent[i]]
           /\ fires' = [i \in Intent |->
                IF i \in claimed THEN Append(fires[i], now) ELSE fires[i]]
           /\ \E todo \in SetToSeqs(claimed) :
                loop' = [loop EXCEPT !["handler"] =
                  IF todo = <<>> THEN IdleLoop
                  ELSE Looping("firing", todo)]
  /\ UNCHANGED <<now, host, job, work, origin>>

-----------------------------------------------------------------------------
(* The body of both loops: plan, record, audit *)

Current(k) == Head(loop[k].todo)
Goto(k, at, p) == loop' = [loop EXCEPT ![k].at = at, ![k].parent = p]

Plan(k) ==
  /\ MayRun(k) /\ loop[k].at = "firing"
  /\ CreatePlan(Current(k), IF k = "drain" THEN 1 ELSE intent[Current(k)].count)
  /\ Goto(k, "planned", FreshParent)
  /\ UNCHANGED <<now, host, job, intent, events, fires>>

\* Mutant of the next operator: the error ends the loop.
PlanThrows_Uncaught(k) ==
  /\ MayRun(k) /\ loop[k].at = "firing"
  /\ loop' = [loop EXCEPT ![k] = IdleLoop]
  /\ UNCHANGED <<now, host, job, intent, work, events, origin, fires>>

\* createPlan throws: a repository or runtime that is no longer registered, or an
\* error of the pump, after which the stored plan waits for a refresh.
PlanThrows(k) ==
  /\ MayRun(k) /\ loop[k].at = "firing"
  /\ \/ UNCHANGED <<work, origin>>
     \/ /\ MayFail
        /\ CreatePlan(Current(k), IF k = "drain" THEN 1 ELSE intent[Current(k)].count)
  /\ Goto(k, "failing", NoParent)
  /\ UNCHANGED <<now, host, job, intent, events, fires>>

\* Mutant: the id of the job is stored for that of its plan.
RecordedRow_OwnId(row, k) == [row EXCEPT !.parent = Current(k),
                                         !.failed = loop[k].at = "failing"]

\* The UPDATEs of recordDispatch and of recordFailure.
RecordedRow(row, k) == [row EXCEPT !.parent = loop[k].parent,
                                   !.failed = loop[k].at = "failing"]

\* A claimed job cannot be cancelled, so that its record does not fail.
RecordJob ==
  LET j == Current("drain") IN
  /\ MayRun("drain") /\ loop["drain"].at \in {"planned", "failing"}
  /\ job' = [job EXCEPT ![j] = RecordedRow(@, "drain")]
  /\ Goto("drain", "audit", NoParent)
  /\ UNCHANGED <<now, host, intent, work, events, origin, fires>>

\* Mutant: the rejection stays on the chain, which calls no handler any more.
HandlerThrows_NoCatch == UNCHANGED loop

\* The catch of the chain: the next event finds it idle.
HandlerThrows == loop' = [loop EXCEPT !["handler"] = IdleLoop]

\* Those of an intent: once it is cancelled both throw, the second out of the
\* handler, whose rejection the chain of events swallows.
RecordIntent ==
  LET i == Current("handler") IN
  /\ MayRun("handler") /\ loop["handler"].at \in {"planned", "failing"}
  /\ \/ /\ ~intent[i].cancelled
        /\ intent' = [intent EXCEPT ![i] = RecordedRow(@, "handler")]
        /\ Goto("handler", "audit", NoParent)
     \/ /\ intent[i].cancelled /\ HandlerThrows
        /\ UNCHANGED intent
  /\ UNCHANGED <<now, host, job, work, events, origin, fires>>

Audited(k) ==
  /\ MayRun(k) /\ loop[k].at = "audit"
  /\ LET rest == Tail(loop[k].todo) IN
     loop' = [loop EXCEPT ![k] =
       IF k = "drain" THEN Looping("next", rest)
       ELSE IF rest = <<>> THEN IdleLoop
       ELSE Looping("firing", rest)]
  /\ UNCHANGED <<now, host, job, intent, work, events, origin, fires>>

-----------------------------------------------------------------------------
(* The process *)

Stop ==
  /\ Quiet /\ host = "up" /\ host' = "stopping"
  /\ UNCHANGED <<now, job, intent, work, events, loop, origin, fires>>

ProcessEnds ==
  /\ host' = "down" /\ events' = <<>>
  /\ loop' = [k \in {"drain", "handler"} |-> IdleLoop]
  /\ UNCHANGED <<now, job, intent, work, origin, fires>>

\* stop awaits the drain and the chain of events.
StopDone ==
  /\ Quiet /\ host = "stopping"
  /\ \A k \in {"drain", "handler"} : loop[k].at = "idle"
  /\ ProcessEnds

Crash == MayCrash /\ host # "down" /\ ProcessEnds

\* A new process opens the tables as they are; of its plans the pending ones are
\* dispatched by a refresh, the dispatched ones never end.
Restart ==
  /\ host = "down" /\ host' = "up"
  /\ UNCHANGED <<now, job, intent, work, events, loop, origin, fires>>

Tick ==
  /\ Quiet \/ host = "down"
  /\ now < MaxTime /\ now' = now + 1
  /\ UNCHANGED <<host, job, intent, work, events, loop, origin, fires>>

Next ==
  \/ \E j \in Job, runAt \in RunAt : Schedule(j, runAt)
  \/ \E j \in Job : CancelJob(j)
  \/ \E i \in Intent, type \in EventType, expires \in Expiry,
       cooldown \in Cooldown, maxFires \in Budget :
       CreateIntent(i, type, expires, cooldown, maxFires)
  \/ \E i \in Intent : CancelIntent(i)
  \/ \E actor \in {"owner", "remote"} : Delegate(actor)
  \/ \E p \in Parent, type \in EventType : TaskEnds(p, type)
  \/ StartDrain \/ ClaimJob \/ HandleEvent \/ RecordJob \/ RecordIntent
  \/ \E k \in {"drain", "handler"} : Plan(k) \/ PlanThrows(k) \/ Audited(k)
  \/ Stop \/ StopDone \/ Crash \/ Restart \/ Tick

Spec == Init /\ [][Next]_vars

\* The timer fires again and again while the process is up (each drain that is
\* possible infinitely often is started and makes its first claim), a stretch of
\* the event loop runs to its end, a sink that waits ends, and a stopped process
\* is started again.
LoopStep == HandleEvent \/ RecordJob \/ RecordIntent
            \/ \E k \in {"drain", "handler"} : Plan(k) \/ PlanThrows(k) \/ Audited(k)
Fairness ==
  /\ SF_vars(StartDrain) /\ SF_vars(ClaimJob) /\ WF_vars(LoopStep)
  /\ WF_vars(StopDone) /\ WF_vars(Restart)
FairSpec == Spec /\ Fairness

-----------------------------------------------------------------------------
(* Properties *)

\* The tables, the queue and both loops have their types.
TypeOK ==
  /\ now \in 0..MaxTime /\ host \in {"up", "stopping", "down"}
  /\ job \in [Job -> JobRow \cup {NoRow}]
  /\ intent \in [Intent -> IntentRow \cup {NoRow}]
  /\ work \in [Parent -> {"none", "open", "ended"}]
  /\ \A n \in DOMAIN events :
       events[n] \in [type : EventType, actor : {"owner", "remote"}]
  /\ \A k \in {"drain", "handler"} :
       /\ loop[k].at \in Pc /\ loop[k].parent \in Parent \cup {NoParent}
       /\ \A n \in DOMAIN loop[k].todo :
            loop[k].todo[n] \in IF k = "drain" THEN Job ELSE Intent
  /\ \A p \in Parent :
       /\ origin[p].by \in Job \cup Intent \cup {"owner", "remote", "none"}
       /\ (origin[p].by = "none") <=> (work[p] = "none")

\* A job is turned into a plan at most once, whatever crashes come between its
\* claim and the record of the plan, and never once its owner was told that it is
\* cancelled, also when the drain took it into its snapshot before.
JobRunsOnce == \A j \in Job :
  /\ Cardinality(PlansOf(j)) <= 1
  /\ PlansOf(j) # {} => job[j].fired /\ ~job[j].cancelled

\* An intent fires within its budget, before it expires and never twice within
\* its cooldown, although the tasks it starts end in events that fire it again;
\* each fire is counted before a plan is made for it and makes one at most.
FiresWithinTerms == \A i \in Intent :
  /\ \A n \in DOMAIN fires[i] :
       /\ fires[i][n] < intent[i].expires
       /\ n > 1 => fires[i][n] - fires[i][n - 1] >= intent[i].cooldown
  /\ fires[i] # <<>> => Len(fires[i]) = intent[i].count
                        /\ Len(fires[i]) <= intent[i].maxFires
  /\ \A p, q \in PlansOf(i) : p # q => origin[p].fire # origin[q].fire
  /\ \A p \in PlansOf(i) : origin[p].fire \in DOMAIN fires[i]

\* The plan a row names is a plan made for that row, and for an intent by its
\* latest fire, never by an earlier one; a row says that its dispatch failed only
\* when it names no plan.
RecordedParent ==
  /\ \A j \in Job : job[j] # NoRow /\ job[j].parent # NoParent =>
       origin[job[j].parent].by = j /\ ~job[j].failed
  /\ \A i \in Intent : intent[i] # NoRow /\ intent[i].parent # NoParent =>
       /\ origin[intent[i].parent] = [by |-> i, fire |-> intent[i].count]
       /\ ~intent[i].failed

\* Jobs and intents do what their owner was told and record what was done for them.
KeepsTerms == JobRunsOnce /\ FiresWithinTerms /\ RecordedParent

\* Once the host is told to stop it claims nothing more, neither the jobs left
\* in the drain's snapshot nor for the events left in the queue: what it does not
\* get to stays claimable for the next process.
StopEndsClaims == [][host = "stopping" =>
  /\ fires' = fires
  /\ \A j \in Job : job[j] # NoRow => job'[j].fired = job[j].fired]_vars

\* A process that is stopped and not killed leaves no claimed job of which the
\* owner cannot see what became.
ClosedAfterRecords == host = "down" /\ ~MayCrash =>
  \A j \in Job : job[j] # NoRow /\ job[j].fired => job[j].failed \/ job[j].parent # NoParent

\* A due job is claimed in the end unless its owner cancels it, across stops and
\* starts, batches that leave it out and audits that keep the drain busy.
EveryDueJobIsClaimed == \A j \in Job : j \in Due ~> j \notin Due

\* A handler that throws does not end the chain of events: the queue is emptied
\* again and again, or the process ends.
EventsAreHandled == events # <<>> ~> events = <<>>

\* Due jobs and events are got to, and a stopped process leaves nothing it got to
\* without a record.
AutomationGoesOn == EveryDueJobIsClaimed /\ EventsAreHandled /\ []ClosedAfterRecords
=============================================================================
