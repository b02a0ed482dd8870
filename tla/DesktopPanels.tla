--------------------------- MODULE DesktopPanels ---------------------------
(***************************************************************************)
(* A panel of the desktop: automations, skill proposals, memories or the   *)
(* dashboard. It lists what the host keeps and offers an action on each    *)
(* item, which most panels carry out only at the second click. Reloads     *)
(* overlap with each other and with actions, each of which is followed by  *)
(* one; the automations' panel polls while it is open, and renders a list  *)
(* only when it has changed. The automations' panel has two lists, jobs    *)
(* and intents, which one reload asks for together and renders apart; of   *)
(* the lists one is followed, and of the list one item.                    *)
(***************************************************************************)
EXTENDS Naturals, Sequences, SequencesExt

CONSTANTS Panels,        \* the lists to follow: records are memories or dashboard entries, whose panels are alike
          MaxPanelReads, \* bound: reloads under way
          MaxPanelActs   \* bound: actions under way

ASSUME KnownPanels == Panels \subseteq {"jobs", "intents", "skills", "records"}
ASSUME PanelBounds == MaxPanelReads \in Nat /\ MaxPanelActs \in Nat

VARIABLES panel,        \* the panel, by its list
          hostItem,     \* the stage of the item at the host
          listed,       \* the stage it is shown in, "error" in place of the list
          signature,    \* what was rendered last, which only the automations look at: renderedSignature
          button,       \* the item's button: one click confirmed it, it is disabled; history: its clicks
          panelReads,   \* each reload: who waits for it, and what the host answered
          panelActs,    \* each request of an action
          panelOpen, refreshTimer,
          closedEarly   \* history: the panel was closed while an open awaited its reload

panelVars == <<panel, hostItem, listed, signature, button, panelReads, panelActs, panelOpen, refreshTimer, closedEarly>>

IsAutomation == panel \in {"jobs", "intents"}
FirstStage == [jobs |-> "scheduled", intents |-> "active", skills |-> "pending", records |-> "saved"]

\* The action that is offered on an item in each of its stages.
Offers == [jobs |-> [scheduled |-> "cancel"], intents |-> [active |-> "cancel", fired |-> "cancel"],
           skills |-> [pending |-> "evaluate", evaluated |-> "approve", approved |-> "apply", applied |-> "rollback"],
           records |-> [saved |-> "remove", edited |-> "remove"]]
IsOffered(stage) == stage \in DOMAIN Offers[panel]
NeedsConfirm(action) == action \in {"cancel", "approve", "rollback", "remove"}
PanelOutcome == [cancel |-> {"cancelled"}, evaluate |-> {"evaluated", "rejected"}, approve |-> {"approved"},
                 apply |-> {"applied"}, rollback |-> {"rolled_back"}, remove |-> {"removed"}]
\* What becomes of an item without the panel: its time comes, an event fires it, its budget or its term
\* runs out (exhausted), the assistant writes to it.
OwnCourse == [jobs |-> [scheduled |-> {"claimed"}], intents |-> [active |-> {"fired", "exhausted"}, fired |-> {"exhausted"}],
              skills |-> <<>>, records |-> [saved |-> {"edited"}, edited |-> {"removed"}]]

ItemStage == (UNION {DOMAIN Offers[l] : l \in DOMAIN Offers}) \cup (UNION {PanelOutcome[a] : a \in DOMAIN PanelOutcome})
         \cup {"claimed", "exhausted"}
ActId == 1..MaxPanelActs
NewButton == [armed |-> FALSE, disabled |-> FALSE, clicks |-> 0]
NoAct == [at |-> "none"]

PanelTypeOK ==
    /\ panel \in Panels
    /\ hostItem \in ItemStage
    /\ listed \in ItemStage \cup {"nothing", "error"}
    /\ signature \in ItemStage \cup {"nothing"}
    /\ button \in [armed: BOOLEAN, disabled: BOOLEAN, clicks: 0..2]
    /\ Len(panelReads) <= MaxPanelReads
    /\ \A r \in DOMAIN panelReads : /\ panelReads[r].waits \in {"open", "nobody", "act"}
                                    /\ panelReads[r].got \in ItemStage \cup {"nothing"}
    /\ \A a \in ActId : panelActs[a].at \in {"none", "sent", "done", "refused", "reload"}
    /\ {panelOpen, refreshTimer, closedEarly} \subseteq BOOLEAN

-----------------------------------------------------------------------------
\* reload: its request is on its way.
PanelReload(waits, act) ==
    /\ Len(panelReads) < MaxPanelReads
    /\ panelReads' = Append(panelReads, [waits |-> waits, act |-> act, got |-> "nothing"])

\* From the navigation, where it may be open already.
OpenPanel ==
    /\ PanelReload("open", 0)
    /\ panelOpen' = TRUE
    /\ UNCHANGED <<panel, hostItem, listed, signature, button, panelActs, refreshTimer, closedEarly>>

\* Mutant: the interval outlives the panel.
TimerCleared_Never == refreshTimer
TimerCleared == FALSE

\* A panel that is hidden returns at once.
ClosePanel ==
    /\ panelOpen /\ panelOpen' = FALSE
    /\ refreshTimer' = TimerCleared
    /\ closedEarly' = (closedEarly \/ \E r \in DOMAIN panelReads : panelReads[r].waits = "open")
    /\ UNCHANGED <<panel, hostItem, listed, signature, button, panelReads, panelActs>>

ClickReload ==
    /\ panelOpen /\ PanelReload("nobody", 0)
    /\ UNCHANGED <<panel, hostItem, listed, signature, button, panelActs, panelOpen, refreshTimer, closedEarly>>

PollTick ==
    /\ refreshTimer /\ PanelReload("nobody", 0)
    /\ UNCHANGED <<panel, hostItem, listed, signature, button, panelActs, panelOpen, refreshTimer, closedEarly>>

\* The host answers.
ListsTaken(r) ==
    /\ panelReads[r].got = "nothing"
    /\ panelReads' = [panelReads EXCEPT ![r].got = hostItem]
    /\ UNCHANGED <<panel, hostItem, listed, signature, button, panelActs, panelOpen, refreshTimer, closedEarly>>

\* What awaited the reload, which throws nothing: open starts the interval, an action is done.
ReloadReturns(r) ==
    /\ panelReads' = RemoveAt(panelReads, r)
    /\ refreshTimer' = (refreshTimer \/ (IsAutomation /\ panelReads[r].waits = "open"))
    /\ UNCHANGED <<panel, hostItem, panelOpen, closedEarly>>

\* Buttons of a list that is replaced are there no more, also for the actions that they began.
ButtonsGone(replaced, ended) ==
    panelActs' = [a \in ActId |-> IF a = ended THEN NoAct
                                  ELSE IF panelActs[a].at # "none" /\ replaced
                                  THEN [panelActs[a] EXCEPT !.hasButton = FALSE]
                                  ELSE panelActs[a]]

\* Mutant: what has been confirmed stays so when the list is rendered again.
RenderedButton_KeepsConfirm == [NewButton EXCEPT !.armed = button.armed]
RenderedButton == NewButton

\* Mutant: a list is rendered once.
ListChanged_First(stage) == signature = "nothing"
\* The automations compare with what was rendered last, which may have given way to an error since.
ListChanged(stage) == IsAutomation => signature # stage

ReloadLands(r) ==
    LET got == panelReads[r].got
    IN  /\ got # "nothing"
        /\ IF ListChanged(got)
           THEN listed' = got /\ signature' = got /\ button' = RenderedButton
           ELSE UNCHANGED <<listed, signature, button>>
        /\ ButtonsGone(ListChanged(got), panelReads[r].act) /\ ReloadReturns(r)

\* The error takes the place of the panel's first list, so that the intents stay.
ReloadFails(r) ==
    /\ IF panel = "intents" THEN UNCHANGED <<listed, button>>
       ELSE listed' = "error" /\ button' = NewButton
    /\ ButtonsGone(panel # "intents", panelReads[r].act) /\ ReloadReturns(r)
    /\ UNCHANGED signature

\* The dashboard's filter renders what the last reload brought, which after an error is nothing.
FilterEntries ==
    /\ panelOpen /\ panel = "records" /\ listed # "nothing"
    /\ listed' = IF listed = "error" THEN "nothing" ELSE listed
    /\ button' = RenderedButton
    /\ ButtonsGone(TRUE, 0)
    /\ UNCHANGED <<panel, hostItem, signature, panelReads, panelOpen, refreshTimer, closedEarly>>

-----------------------------------------------------------------------------
\* The first click confirms where that is needed; then the button is disabled and the action asked for.
ClickOnItem ==
    LET action == Offers[panel][listed]
        clicks == IF button.clicks = 2 THEN 2 ELSE button.clicks + 1
    IN  /\ panelOpen /\ IsOffered(listed) /\ ~button.disabled
        /\ IF NeedsConfirm(action) /\ ~button.armed
           THEN /\ button' = [button EXCEPT !.armed = TRUE, !.clicks = clicks]
                /\ UNCHANGED panelActs
           ELSE /\ button' = [button EXCEPT !.disabled = TRUE, !.clicks = clicks]
                /\ \E a \in ActId :
                     /\ panelActs[a] = NoAct
                     /\ panelActs' = [panelActs EXCEPT ![a] =
                          [at |-> "sent", action |-> action, shown |-> listed, found |-> listed,
                           clicks |-> clicks, hasButton |-> TRUE]]
        /\ UNCHANGED <<panel, hostItem, listed, signature, panelReads, panelOpen, refreshTimer, closedEarly>>

\* Mutant: the host goes by the name of the item alone.
HostAgrees_Always(action) == IsOffered(hostItem)
\* Stores refuse what no longer fits the row.
HostAgrees(action) == IsOffered(hostItem) /\ Offers[panel][hostItem] = action

ActionTaken(a) ==
    LET act == panelActs[a]
    IN  /\ act.at = "sent"
        /\ \/ \E stage \in PanelOutcome[act.action], at \in {"done", "refused"} :
                /\ HostAgrees(act.action)
                \* A proposal that is rejected by its scan is an error, too.
                /\ at = "refused" => stage = "rejected"
                /\ hostItem' = stage
                /\ panelActs' = [panelActs EXCEPT ![a].at = at, ![a].found = hostItem]
           \/ \* Nothing to remove is no error.
              /\ act.action = "remove" /\ hostItem = "removed"
              /\ panelActs' = [panelActs EXCEPT ![a].at = "done"]
              /\ UNCHANGED hostItem
           \/ \* Refused, also for reasons of the store's own.
              /\ panelActs' = [panelActs EXCEPT ![a].at = "refused"]
              /\ UNCHANGED hostItem
        /\ UNCHANGED <<panel, listed, signature, button, panelReads, panelOpen, refreshTimer, closedEarly>>

ActionAnswered(a) ==
    /\ panelActs[a].at = "done" /\ panelActs' = [panelActs EXCEPT ![a].at = "reload"]
    /\ PanelReload("act", a)
    /\ UNCHANGED <<panel, hostItem, listed, signature, button, panelOpen, refreshTimer, closedEarly>>

\* Mutant: the button stays disabled.
ButtonEnabled_Never(b) == b
\* It is still confirmed.
ButtonEnabled(b) == [b EXCEPT !.disabled = FALSE]

\* Refused, or no answer, be it carried out or not.
ActionFails(a) ==
    /\ panelActs[a].at \in {"sent", "done", "refused"}
    /\ panelActs' = [panelActs EXCEPT ![a] = NoAct]
    /\ button' = IF panelActs[a].hasButton
                 THEN ButtonEnabled(button) ELSE button
    /\ UNCHANGED <<panel, hostItem, listed, signature, panelReads, panelOpen, refreshTimer, closedEarly>>

ItemMoves ==
    /\ hostItem \in DOMAIN OwnCourse[panel]
    /\ hostItem' \in OwnCourse[panel][hostItem]
    /\ UNCHANGED <<panel, listed, signature, button, panelReads, panelActs, panelOpen, refreshTimer, closedEarly>>

PanelInit ==
    /\ panel \in Panels
    /\ hostItem = FirstStage[panel]
    /\ listed = "nothing" /\ signature = "nothing" /\ button = NewButton
    /\ panelReads = <<>> /\ panelActs = [a \in ActId |-> NoAct]
    /\ panelOpen = FALSE /\ refreshTimer = FALSE /\ closedEarly = FALSE

PanelNext ==
    \/ OpenPanel \/ ClosePanel \/ ClickReload \/ PollTick
    \/ \E r \in DOMAIN panelReads : ListsTaken(r) \/ ReloadLands(r) \/ ReloadFails(r)
    \/ ClickOnItem \/ FilterEntries \/ ItemMoves
    \/ \E a \in ActId : ActionTaken(a) \/ ActionAnswered(a) \/ ActionFails(a)

PanelSpec == PanelInit /\ [][PanelNext]_panelVars

-----------------------------------------------------------------------------
(***************************************************************************)
(* What is cancelled, approved, rolled back or removed was confirmed by    *)
(* two clicks on the item as it is shown, whatever reloads have replaced   *)
(* in between (automation-panel.ts:174, skill-workshop-panel.ts:131,       *)
(* memory-render.ts:103); and what the host carries out fits the item as    *)
(* the owner saw it, however old the list was. An entry edited since is    *)
(* removed all the same, an intent fired since is cancelled.               *)
(***************************************************************************)
ActsAsConfirmed ==
    \A a \in ActId :
       LET act == panelActs[a]
       IN  act.at # "none" =>
             /\ NeedsConfirm(act.action) => act.clicks = 2
             /\ act.found = act.shown \/ <<act.shown, act.found>> \in {<<"saved", "edited">>, <<"active", "fired">>}

(***************************************************************************)
(* A button is disabled only while its action is under way, or on an item  *)
(* that is not any more as it is shown, which the next reload will change: *)
(* the owner can repeat what failed (automation-panel.ts:188, skill-       *)
(* workshop-panel.ts:142).                                                 *)
(***************************************************************************)
ButtonsComeBack ==
    button.disabled => \/ listed # hostItem
                       \/ \E a \in ActId : panelActs[a].at # "none" /\ panelActs[a].hasButton

(***************************************************************************)
(* A panel that is closed polls no more, unless it was closed while it was *)
(* being opened: open then starts the interval after the close             *)
(* (automation-panel.ts:442, 451).                                         *)
(***************************************************************************)
ClosedIsQuiet == refreshTimer /\ ~panelOpen => closedEarly

(***************************************************************************)
(* While it is open, the automations' panel shows again and again what the *)
(* host has. The one exception is an error in place of jobs that have not  *)
(* changed since they were rendered: no reload takes it away, for only a   *)
(* list that differs from the last one is rendered (automation-panel.ts:   *)
(* 328, 339).                                                              *)
(***************************************************************************)
PanelCatchesUp ==
    []<>(IsAutomation /\ panelOpen =>
           \/ listed = hostItem
           \/ panel = "jobs" /\ listed = "error" /\ signature = hostItem)
=============================================================================
