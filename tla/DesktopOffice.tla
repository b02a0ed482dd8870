---------------------------- MODULE DesktopOffice ---------------------------
(***************************************************************************)
(* The office's page of the desktop: it polls the host for a snapshot,     *)
(* keeps a draft for each assistant, and sends the owner's requests, each  *)
(* of which is followed by a refresh. Snapshots may come in another order  *)
(* than they were taken in, and the owner goes on while a request is made. *)
(***************************************************************************)
EXTENDS Naturals, FiniteSets

CONSTANTS OfficeAgent,      \* the assistants
          Coordinator,      \* the one that the home page speaks to
          MaxOfficeChanges  \* bound: changes of the host's office

ASSUME CoordinatorIsAgent == Coordinator \in OfficeAgent
ASSUME PagesAreNoAgents == OfficeAgent \cap {"home", "tasks"} = {}
ASSUME ChangesBound == MaxOfficeChanges \in Nat \ {0}

VARIABLES officeHost,  \* how often the host's office has changed
          officeView,  \* the change that the page shows last, or 0
          officePage,
          typed,       \* what is in the composer: the assistant it was written to, or "nothing"
          draftAgent,
          drafts,
          formBusy,    \* the form being sent
          flights,     \* the refresh of the poll, of the form and of an action: the snapshot it was given
          hired        \* of each task that the composer made: whom it was written to, who has it

deskOfficeVars == <<officeHost, officeView, officePage, typed, draftAgent, drafts, formBusy, flights, hired>>

OtherPages == {"home", "tasks"}
Flight == {"poll", "form", "action"}
\* A refresh not under way, or not yet answered by the host.
NoFlight == 0
Asked == MaxOfficeChanges + 1
NoForm == [at |-> "none", agent |-> "nothing", text |-> "nothing"]

DeskOfficeTypeOK ==
    /\ officeHost \in 1..MaxOfficeChanges /\ officeView \in 0..MaxOfficeChanges
    /\ officePage \in OtherPages \cup OfficeAgent
    /\ typed \in OfficeAgent \cup {"nothing"}
    /\ draftAgent \in OfficeAgent
    /\ drafts \in [OfficeAgent -> OfficeAgent \cup {"nothing"}]
    /\ formBusy.at \in {"none", "sent", "refresh"}
    /\ formBusy.agent \in OfficeAgent \cup {"nothing"} /\ formBusy.text \in OfficeAgent \cup {"nothing"}
    /\ flights \in [Flight -> 0..Asked]
    /\ hired \subseteq [writtenTo: OfficeAgent, agent: OfficeAgent]

Changed == officeHost < MaxOfficeChanges /\ officeHost' = officeHost + 1
AgentOf(page) == IF page \in OfficeAgent THEN page ELSE Coordinator

-----------------------------------------------------------------------------
\* Mutant: the draft that is left is kept under the page that is gone to.
Drafted_Late(page) == [drafts EXCEPT ![AgentOf(page)] = typed]
\* The draft that is left is kept.
Drafted(page) == [drafts EXCEPT ![draftAgent] = typed]

\* navigate: the composer of an assistant's page, or of the home page, takes up that assistant's draft.
Navigated(page, withDraft, text) ==
    /\ officePage' = page
    /\ drafts' = withDraft
    /\ IF page = "tasks"
       THEN UNCHANGED draftAgent /\ typed' = text
       ELSE draftAgent' = AgentOf(page) /\ typed' = withDraft[AgentOf(page)]

Navigate(page) ==
    /\ Navigated(page, Drafted(page), typed)
    /\ UNCHANGED <<officeHost, officeView, formBusy, flights, hired>>

\* The composer is there on the home page and the assistants' pages.
Type ==
    /\ officePage # "tasks"
    /\ typed' \in {AgentOf(officePage), "nothing"}
    /\ UNCHANGED <<officeHost, officeView, officePage, draftAgent, drafts, formBusy, flights, hired>>

\* The one whose page it is, and the coordinator on the home page.
Addressee == AgentOf(officePage)

\* One form at a time.
SubmitComposer ==
    /\ officePage # "tasks" /\ typed # "nothing"
    /\ formBusy = NoForm
    /\ formBusy' = [at |-> "sent", agent |-> Addressee, text |-> typed]
    /\ UNCHANGED <<officeHost, officeView, officePage, typed, draftAgent, drafts, flights, hired>>

\* The dialogs: a task, a handoff or an assistant's instructions.
SubmitDialog(agent) ==
    /\ formBusy = NoForm
    /\ formBusy' = [at |-> "sent", agent |-> agent, text |-> "nothing"]
    /\ UNCHANGED <<officeHost, officeView, officePage, typed, draftAgent, drafts, flights, hired>>

FormReachesHost ==
    /\ Changed
    /\ hired' = IF formBusy.text = "nothing" THEN hired
                ELSE hired \cup {[writtenTo |-> formBusy.text, agent |-> formBusy.agent]}

\* The host takes the form; the page refreshes.
FormTaken ==
    /\ formBusy.at = "sent"
    /\ FormReachesHost
    /\ formBusy' = [formBusy EXCEPT !.at = "refresh"]
    /\ flights' = [flights EXCEPT !["form"] = Asked]
    /\ UNCHANGED <<officeView, officePage, typed, draftAgent, drafts>>

\* No answer, whether the host has taken the form or not: it may be sent again.
FormFails ==
    /\ formBusy.at = "sent"
    /\ formBusy' = NoForm
    /\ FormReachesHost \/ UNCHANGED <<officeHost, hired>>
    /\ UNCHANGED <<officeView, officePage, typed, draftAgent, drafts, flights>>

\* What follows the form's refresh: the composer that sent it is emptied, unless it is another assistant's by now; a dialog
\* goes to the assistant's page.
FormDone ==
    LET agent == formBusy.agent
        sent == [drafts EXCEPT ![agent] = "nothing"]
    IN  IF formBusy.text # "nothing"
        THEN IF draftAgent # agent
             THEN drafts' = sent /\ UNCHANGED <<officePage, typed, draftAgent>>
             ELSE IF officePage \in {"home", agent}
                  THEN Navigated(agent, sent, "nothing")
                  ELSE drafts' = sent /\ typed' = "nothing" /\ UNCHANGED <<officePage, draftAgent>>
        ELSE \/ Navigated(agent, Drafted(agent), typed)
             \/ UNCHANGED <<officePage, typed, draftAgent, drafts>>

-----------------------------------------------------------------------------
\* Buttons: retry and open again ask at once, an action after the host has changed.
Refresh(flight) == flights[flight] = NoFlight /\ flights' = [flights EXCEPT ![flight] = Asked]

ClickRefresh ==
    /\ Refresh("action")
    /\ UNCHANGED <<officeHost, officeView, officePage, typed, draftAgent, drafts, formBusy, hired>>

ClickAction ==
    /\ Changed /\ Refresh("action")
    /\ UNCHANGED <<officeView, officePage, typed, draftAgent, drafts, formBusy, hired>>

\* Mutant: a poll that fails is the last.
PollsAgain_Once(flight) == flight = "poll" /\ officeView = 0
\* Two seconds after a poll there is another, whether it failed or not.
PollsAgain(flight) == flight = "poll"

\* Mutant: what is shown first is kept.
Shows_First(flight) == IF officeView = 0 THEN flights[flight] ELSE officeView
\* The snapshot that comes last is shown, be it an older one.
Shows(flight) == flights[flight]

\* The host takes the snapshot.
Snapshot(flight) ==
    /\ flights[flight] = Asked
    /\ flights' = [flights EXCEPT ![flight] = officeHost]
    /\ UNCHANGED <<officeHost, officeView, officePage, typed, draftAgent, drafts, formBusy, hired>>

Landed(flight) ==
    /\ flights' = [flights EXCEPT ![flight] = IF PollsAgain(flight) THEN Asked ELSE NoFlight]
    /\ IF flight = "form"
       THEN FormDone /\ formBusy' = NoForm
       ELSE UNCHANGED <<officePage, typed, draftAgent, drafts, formBusy>>
    /\ UNCHANGED <<officeHost, hired>>

RefreshShown(flight) ==
    /\ flights[flight] \in 1..MaxOfficeChanges
    /\ officeView' = Shows(flight)
    /\ Landed(flight)

\* No answer, or one that is no snapshot: refresh takes the error itself.
RefreshFails(flight) ==
    /\ flights[flight] # NoFlight
    /\ UNCHANGED officeView
    /\ Landed(flight)

\* Assistants and other requests change the office.
OfficeWorks ==
    /\ Changed
    /\ UNCHANGED <<officeView, officePage, typed, draftAgent, drafts, formBusy, flights, hired>>

DeskOfficeInit ==
    /\ officeHost = 1 /\ officeView = 0
    /\ officePage = "home" /\ draftAgent = Coordinator
    /\ typed = "nothing" /\ drafts = [a \in OfficeAgent |-> "nothing"]
    /\ formBusy = NoForm
    /\ flights = [f \in Flight |-> IF f = "poll" THEN Asked ELSE NoFlight]
    /\ hired = {}

DeskOfficeNext ==
    \/ \E page \in OtherPages \cup OfficeAgent : Navigate(page)
    \/ Type \/ SubmitComposer \/ (\E a \in OfficeAgent : SubmitDialog(a)) \/ FormTaken \/ FormFails
    \/ ClickRefresh \/ ClickAction \/ OfficeWorks
    \/ \E f \in Flight : Snapshot(f) \/ RefreshShown(f) \/ RefreshFails(f)

DeskOfficeSpec == DeskOfficeInit /\ [][DeskOfficeNext]_deskOfficeVars

-----------------------------------------------------------------------------
(***************************************************************************)
(* What the owner writes to one assistant is in no other's composer and    *)
(* goes to no other, whatever pages are gone to while a form is on its way *)
(* (office.ts:184, 334).                                                   *)
(***************************************************************************)
DraftsStayApart ==
    /\ \A a \in OfficeAgent : drafts[a] \in {a, "nothing"}
    /\ typed \in {draftAgent, "nothing"}
    /\ \A task \in hired : task.agent = task.writtenTo

(***************************************************************************)
(* The page shows the office as it is, again and again: an older snapshot  *)
(* that lands last is made up for by a poll (office.ts:141, 424).          *)
(***************************************************************************)
ViewCatchesUp == []<>(officeView = officeHost)
=============================================================================
