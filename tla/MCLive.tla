------------------------------- MODULE MCLive -------------------------------
(***************************************************************************)
(* Components that share no state, for TLC, in one run under fairness:     *)
(* every behaviour chooses one of them, the part, and the others stay as   *)
(* they began. At the end, what a part must get to.                        *)
(***************************************************************************)
EXTENDS AgentOffice, CodingRuntimes, AssistantConversation, DesktopVoice, DesktopOffice, DesktopShell, DesktopPanels

CONSTANT Parts  \* the components to check

VARIABLE part

LiveInit ==
    /\ part \in Parts
    /\ OfficeInit /\ RuntimeInit /\ ConvInit /\ VoiceInit /\ DeskOfficeInit /\ ShellInit /\ PanelInit
    \* It may begin in more than one way, and begins in one when it is not its turn.
    /\ part # "runtime" => backend = "codex"
    /\ part # "panels" => panel = "jobs"

\* What belongs to the other parts.
Others ==
    /\ UNCHANGED part
    /\ part # "office" => UNCHANGED officeVars
    /\ part # "runtime" => UNCHANGED runtimeVars
    /\ part # "conversation" => UNCHANGED convVars
    /\ part # "voice" => UNCHANGED voiceVars
    /\ part # "desktop office" => UNCHANGED deskOfficeVars
    /\ part # "shell" => UNCHANGED shellVars
    /\ part # "panels" => UNCHANGED panelVars

LiveNext ==
    \/ part = "office" /\ Others /\ OfficeNext
    \/ part = "runtime" /\ Others /\ RuntimeNext
    \/ part = "conversation" /\ Others /\ ConvNext
    \/ part = "voice" /\ Others /\ VoiceNext
    \/ part = "desktop office" /\ Others /\ DeskOfficeNext
    \/ part = "shell" /\ Others /\ ShellNext
    \/ part = "panels" /\ Others /\ PanelNext

liveVars == <<part, officeVars, runtimeVars, convVars, voiceVars, deskOfficeVars, shellVars, panelVars>>

\* The timer fires, a drain goes on to its end, some call ends (the office aborts
\* each after two minutes), aborted runs unwind, a process that is down is started.
OfficeFairness ==
    /\ SF_officeVars(part = "office" /\ Timer)
    /\ WF_officeVars(part = "office" /\ (Drain \/ \E t \in Task : Unwind(t)))
    /\ SF_officeVars(part = "office" /\ \E t \in Task, outcome \in Outcome : RunEnds(t, outcome))
    /\ WF_officeVars(part = "office" /\ (OfficeStopDone \/ OfficeRestart))

\* The host's own steps are taken, its timers go off and a terminated process dies;
\* an abort or a process that ends by itself may never come.
RuntimeFairness ==
    /\ WF_runtimeVars(part = "runtime" /\ StartWorker)
    /\ WF_runtimeVars(part = "runtime" /\ ReadStep)
    /\ WF_runtimeVars(part = "runtime" /\ ExitStep)
    /\ WF_runtimeVars(part = "runtime" /\ CloseStep)
    /\ WF_runtimeVars(part = "runtime" /\ StopTimer)
    /\ WF_runtimeVars(part = "runtime" /\ Dies)

\* Each await ends: providers, launcher and model have time limits, and so has a
\* body that does not come.
ConvFairness ==
    /\ \A c \in ConvClient : /\ WF_convVars(part = "conversation" /\ Handler(c))
                            /\ WF_convVars(part = "conversation" /\ BodyRead(c) /\ Disconnect(c))
    /\ WF_convVars(part = "conversation" /\ ChildEnds)
    /\ WF_convVars(part = "conversation" /\ StoresClose)

\* Timers fire.
VoiceFairness == WF_voiceVars(part = "voice" /\ TimerFires)

\* The host answers, and the answers of polls do not fail for ever.
DeskOfficeFairness ==
    /\ \A f \in Flight : WF_deskOfficeVars(part = "desktop office" /\ Snapshot(f))
    /\ SF_deskOfficeVars(part = "desktop office" /\ RefreshShown("poll"))
    /\ \A f \in {"form", "action"} :
         WF_deskOfficeVars(part = "desktop office" /\ (RefreshShown(f) \/ RefreshFails(f)))

\* The event loop comes to an exit; stop_host goes on, with a deadline for the host.
ShellFairness ==
    /\ WF_shellVars(part = "shell" /\ exitAsked /\ ExitRequested)
    /\ \A t \in Thread : WF_shellVars(part = "shell" /\ StopStep(t))

\* The interval fires; the host answers, and not every reload fails.
PanelFairness ==
    /\ SF_panelVars(part = "panels" /\ PollTick)
    /\ SF_panelVars(part = "panels" /\ \E r \in DOMAIN panelReads : ListsTaken(r))
    /\ SF_panelVars(part = "panels" /\ \E r \in DOMAIN panelReads : ReloadLands(r))
    /\ WF_panelVars(part = "panels" /\ \E r \in DOMAIN panelReads : ReloadLands(r) \/ ReloadFails(r))

LiveFairness ==
    /\ OfficeFairness /\ RuntimeFairness /\ ConvFairness
    /\ VoiceFairness /\ DeskOfficeFairness /\ ShellFairness /\ PanelFairness

LiveSpec == LiveInit /\ [][LiveNext]_liveVars /\ LiveFairness

-----------------------------------------------------------------------------
(***************************************************************************)
(* What was asked to end ends: a run of Claude Code or Pi that is aborted, *)
(* a host that is told to stop while streams are open, a recording, a      *)
(* desktop that is quit (process-controller.ts of both, server.ts:437,     *)
(* app.ts:860, lib.rs:304).                                                *)
(***************************************************************************)
WhatIsStoppedEnds == AbortEndsRun /\ StopFinishes /\ RecordingEnds /\ QuitEnds

(***************************************************************************)
(* The office page catches up with the host's office (office.ts:424), and  *)
(* the automations' panel with its lists (automation-panel.ts:443).        *)
(***************************************************************************)
PagesCatchUp ==
    /\ part = "desktop office" => ViewCatchesUp
    /\ part = "panels" => PanelCatchesUp
=============================================================================
