-------------------------- MODULE DesktopWorkbench --------------------------
(***************************************************************************)
(* The desktop's workbench: it shows the activity of the worker that is    *)
(* selected and sends it further turns. Every answer of the host is        *)
(* awaited, and meanwhile the owner selects another worker or goes back.   *)
(***************************************************************************)
EXTENDS Naturals

CONSTANTS Worker,   \* the workers, each the child of a task
          MaxReads  \* bound: activity requests under way

VARIABLES workerState,    \* at the host
          selectedWorker,
          shownWorker,    \* whose events the workbench shows, "nobody" while it loads
          composerOpen,   \* the workbench's composer is enabled
          workerTurn,     \* the turn that submitWorkerTurn awaits
          activityReads,  \* the calls of refreshWorkerActivity
          crossed         \* history: what is shown was being read as another worker was selected

workbenchVars == <<workerState, selectedWorker, shownWorker, composerOpen, workerTurn, activityReads, crossed>>

Nobody == "nobody"
ReadSlot == 1..MaxReads
NoTurn == [of |-> Nobody, at |-> "none"]
NoActivity == [of |-> Nobody, at |-> "none", open |-> FALSE, forTurn |-> FALSE, late |-> FALSE]

WorkbenchTypeOK ==
    /\ workerState \in [Worker -> {"running", "completed", "turn", "ended"}]
    /\ selectedWorker \in Worker \cup {Nobody} /\ shownWorker \in Worker \cup {Nobody}
    /\ composerOpen \in BOOLEAN
    /\ workerTurn \in [of: Worker \cup {Nobody}, at: {"none", "sent", "taken", "answered"}]
    /\ activityReads \in [ReadSlot -> [of: Worker \cup {Nobody}, at: {"none", "asked", "taken", "body"},
                                       open: BOOLEAN, forTurn: BOOLEAN, late: BOOLEAN]]
    /\ crossed \in BOOLEAN

-----------------------------------------------------------------------------
\* refreshWorkerActivity: nothing without a selection; workerTurn tells who waits for it.
Pending == workerTurn.at # "none"

\* An answer is given up unless its worker is still selected when the head of it is there.
StillSelected(w) == w = selectedWorker

\* What is left of a read: the turn that awaited it is over, and the activity is read a last time.
ReadOver(s, reads) ==
    IF ~activityReads[s].forTurn
    THEN activityReads' = [reads EXCEPT ![s] = NoActivity] /\ UNCHANGED workerTurn
    ELSE /\ workerTurn' = NoTurn
         /\ activityReads' = [reads EXCEPT ![s] = IF selectedWorker = Nobody THEN NoActivity
                                                  ELSE [NoActivity EXCEPT !.of = selectedWorker, !.at = "asked"]]

ActivityTaken(s) ==
    /\ activityReads[s].at = "asked"
    /\ activityReads' = [activityReads EXCEPT ![s].at = "taken",
                                              ![s].open = workerState[activityReads[s].of] = "completed"]
    /\ UNCHANGED <<workerState, selectedWorker, shownWorker, composerOpen, workerTurn, crossed>>

\* Mutant: whatever is answered is shown.
ActivityHeard_Any(s) ==
    /\ activityReads[s].at = "taken"
    /\ activityReads' = [activityReads EXCEPT ![s].at = "body"] /\ UNCHANGED workerTurn
    /\ UNCHANGED <<workerState, selectedWorker, shownWorker, composerOpen, crossed>>
ActivityHeard(s) ==
    /\ activityReads[s].at = "taken"
    /\ IF StillSelected(activityReads[s].of)
       THEN activityReads' = [activityReads EXCEPT ![s].at = "body"] /\ UNCHANGED workerTurn
       ELSE ReadOver(s, activityReads)
    /\ UNCHANGED <<workerState, selectedWorker, shownWorker, composerOpen, crossed>>

\* Mutant: the composer is enabled as soon as the host says that the worker can go on.
Enabled_ByHost(read) == read.open
Enabled(read) == read.open /\ ~Pending

\* renderWorkerActivity, once the body has been read too.
ActivityShown(s) ==
    /\ activityReads[s].at = "body"
    /\ shownWorker' = activityReads[s].of
    /\ composerOpen' = Enabled(activityReads[s])
    /\ crossed' = activityReads[s].late
    /\ ReadOver(s, activityReads)
    /\ UNCHANGED <<workerState, selectedWorker>>

ActivityFails(s) ==
    /\ activityReads[s].at # "none"
    /\ ReadOver(s, activityReads)
    /\ UNCHANGED <<workerState, selectedWorker, shownWorker, composerOpen, crossed>>

\* openWorker: by a card of the rail, or for a scheduled task once its tree is there.
OpenWorker(w) ==
    /\ selectedWorker' = w /\ shownWorker' = Nobody
    /\ crossed' = FALSE
    /\ \E s \in ReadSlot :
          /\ activityReads[s].at = "none"
          /\ activityReads' = [t \in ReadSlot |->
                IF t = s THEN [NoActivity EXCEPT !.of = w, !.at = "asked"]
                ELSE [activityReads[t] EXCEPT !.late = @ \/ activityReads[t].at = "body"]]
    /\ UNCHANGED <<workerState, composerOpen, workerTurn>>

\* Back, or another panel.
CloseWorker ==
    /\ selectedWorker # Nobody /\ selectedWorker' = Nobody
    /\ UNCHANGED <<workerState, shownWorker, composerOpen, workerTurn, activityReads, crossed>>

-----------------------------------------------------------------------------
\* submitWorkerTurn: one at a time, to the worker selected.
SubmitTurn ==
    /\ selectedWorker # Nobody /\ composerOpen /\ ~Pending
    /\ workerTurn' = [of |-> selectedWorker, at |-> "sent"]
    /\ composerOpen' = FALSE
    /\ UNCHANGED <<workerState, selectedWorker, shownWorker, activityReads, crossed>>

\* The interval while the turn is under way.
PollActivity ==
    /\ Pending /\ selectedWorker # Nobody
    /\ \E s \in ReadSlot :
          /\ activityReads[s].at = "none"
          /\ activityReads' = [activityReads EXCEPT ![s] = [NoActivity EXCEPT !.of = selectedWorker, !.at = "asked"]]
    /\ UNCHANGED <<workerState, selectedWorker, shownWorker, composerOpen, workerTurn, crossed>>

\* The activity is read for the turn's end, and once more after it.
TurnRead(forTurn) ==
    IF selectedWorker = Nobody
    THEN UNCHANGED activityReads
    ELSE \E s \in ReadSlot :
            /\ activityReads[s].at = "none"
            /\ activityReads' = [activityReads EXCEPT ![s] =
                  [NoActivity EXCEPT !.of = selectedWorker, !.at = "asked", !.forTurn = forTurn]]

TurnAnswered ==
    /\ workerTurn.at = "taken" /\ workerState[workerTurn.of] = "completed"
    /\ workerTurn' = IF selectedWorker = Nobody THEN NoTurn ELSE [workerTurn EXCEPT !.at = "answered"]
    /\ TurnRead(TRUE)
    /\ UNCHANGED <<workerState, selectedWorker, shownWorker, composerOpen, crossed>>

\* Refused or failed at the host, or not answered.
TurnFails ==
    /\ workerTurn.at \in {"sent", "taken"}
    /\ workerTurn' = NoTurn
    /\ TurnRead(FALSE)
    /\ UNCHANGED <<workerState, selectedWorker, shownWorker, composerOpen, crossed>>

-----------------------------------------------------------------------------
\* The host: a worker ends, and works on a turn.
WorkerEnds(w) ==
    /\ workerState[w] = "running"
    /\ \E state \in {"completed", "ended"} : workerState' = [workerState EXCEPT ![w] = state]
    /\ UNCHANGED <<selectedWorker, shownWorker, composerOpen, workerTurn, activityReads, crossed>>

HostTakesTurn ==
    /\ workerTurn.at = "sent" /\ workerState[workerTurn.of] = "completed"
    /\ workerTurn' = [workerTurn EXCEPT !.at = "taken"]
    /\ workerState' = [workerState EXCEPT ![workerTurn.of] = "turn"]
    /\ UNCHANGED <<selectedWorker, shownWorker, composerOpen, activityReads, crossed>>

HostEndsTurn(w) ==
    /\ workerState[w] = "turn" /\ workerState' = [workerState EXCEPT ![w] = "completed"]
    /\ UNCHANGED <<selectedWorker, shownWorker, composerOpen, workerTurn, activityReads, crossed>>

WorkbenchInit ==
    /\ workerState = [c \in Worker |-> "running"]
    /\ selectedWorker = Nobody /\ shownWorker = Nobody /\ composerOpen = TRUE
    /\ workerTurn = NoTurn /\ activityReads = [s \in ReadSlot |-> NoActivity]
    /\ crossed = FALSE

WorkbenchNext ==
    \/ \E s \in ReadSlot : ActivityTaken(s) \/ ActivityHeard(s) \/ ActivityShown(s) \/ ActivityFails(s)
    \/ CloseWorker \/ SubmitTurn \/ HostTakesTurn \/ PollActivity \/ TurnAnswered \/ TurnFails
    \/ \E c \in Worker : OpenWorker(c) \/ WorkerEnds(c) \/ HostEndsTurn(c)

WorkbenchSpec == WorkbenchInit /\ [][WorkbenchNext]_workbenchVars

-----------------------------------------------------------------------------
(***************************************************************************)
(* The workbench shows the worker selected, however late the answers come  *)
(* that were asked for before: all but the one whose body was being read   *)
(* as the selection changed (app.ts:343).                                  *)
(***************************************************************************)
StaleAnswersAreDropped ==
    selectedWorker # Nobody /\ ~crossed => shownWorker \in {selectedWorker, Nobody}

(***************************************************************************)
(* No second turn can be written while one is awaited, whichever worker is *)
(* selected and shown meanwhile, and whichever poll is answered late       *)
(* (app.ts:323, 386).                                                      *)
(***************************************************************************)
OneTurnAwaited == Pending => ~composerOpen
=============================================================================
