---------------------------- MODULE MCComponents ----------------------------
(***************************************************************************)
(* Components that share no state, for TLC, in one run: every behaviour    *)
(* chooses one of them, the part, and the others stay as they began.       *)
(***************************************************************************)
EXTENDS AgentOffice, HostSettings, QQChannel, SkillWorkshop, CodingRuntimes, PersonalDashboard, OwnerMemory,
        AssistantConversation, PluginRegistry, DesktopVoice, DesktopOffice, DesktopWorkbench, DesktopRail, DesktopShell,
        DesktopPanels

CONSTANT Parts  \* the components to check

VARIABLE part

ComponentsInit ==
    /\ part \in Parts
    /\ OfficeInit /\ SettingsInit /\ QQInit /\ SkillInit /\ RuntimeInit /\ DashInit
    /\ MemInit /\ ConvInit /\ RegistryInit /\ VoiceInit /\ DeskOfficeInit /\ WorkbenchInit /\ RailInit /\ ShellInit /\ PanelInit
    \* What these three may begin with in more than one way begins in one when it is not their turn.
    /\ part # "runtime" => backend = "codex"
    /\ part # "rail" => follow = "none"
    /\ part # "panels" => panel = "jobs"

\* What belongs to the other parts.
Others ==
    /\ UNCHANGED part
    /\ part # "office" => UNCHANGED officeVars
    /\ part # "settings" => UNCHANGED settingsVars
    /\ part # "qq" => UNCHANGED qqVars
    /\ part # "skill" => UNCHANGED skillVars
    /\ part # "runtime" => UNCHANGED runtimeVars
    /\ part # "dashboard" => UNCHANGED dashVars
    /\ part # "memory" => UNCHANGED memVars
    /\ part # "conversation" => UNCHANGED convVars
    /\ part # "registry" => UNCHANGED registryVars
    /\ part # "voice" => UNCHANGED voiceVars
    /\ part # "desktop office" => UNCHANGED deskOfficeVars
    /\ part # "workbench" => UNCHANGED workbenchVars
    /\ part # "rail" => UNCHANGED railVars
    /\ part # "shell" => UNCHANGED shellVars
    /\ part # "panels" => UNCHANGED panelVars

ComponentsNext ==
    \/ part = "office" /\ Others /\ OfficeNext
    \/ part = "settings" /\ Others /\ SettingsNext
    \/ part = "qq" /\ Others /\ QQNext
    \/ part = "skill" /\ Others /\ SkillNext
    \/ part = "runtime" /\ Others /\ RuntimeNext
    \/ part = "dashboard" /\ Others /\ DashNext
    \/ part = "memory" /\ Others /\ MemNext
    \/ part = "conversation" /\ Others /\ ConvNext
    \/ part = "registry" /\ Others /\ RegistryNext
    \/ part = "voice" /\ Others /\ VoiceNext
    \/ part = "desktop office" /\ Others /\ DeskOfficeNext
    \/ part = "workbench" /\ Others /\ WorkbenchNext
    \/ part = "rail" /\ Others /\ RailNext
    \/ part = "shell" /\ Others /\ ShellNext
    \/ part = "panels" /\ Others /\ PanelNext

componentsVars == <<part, officeVars, settingsVars, qqVars, skillVars, runtimeVars, dashVars,
                    memVars, convVars, registryVars, voiceVars, deskOfficeVars, workbenchVars, railVars, shellVars,
                    panelVars>>

ComponentsSpec == ComponentsInit /\ [][ComponentsNext]_componentsVars

-----------------------------------------------------------------------------
(***************************************************************************)
(* Every variable of every part has its type.                              *)
(***************************************************************************)
ComponentsTypeOK ==
    /\ part = "office" => OfficeTypeOK
    /\ part = "settings" => SettingsTypeOK
    /\ part = "qq" => QQTypeOK
    /\ part = "skill" => SkillTypeOK
    /\ part = "runtime" => RuntimeTypeOK
    /\ part = "dashboard" => DashTypeOK
    /\ part = "memory" => MemTypeOK
    /\ part = "conversation" => ConvTypeOK
    /\ part = "registry" => RegistryTypeOK
    /\ part = "voice" => VoiceTypeOK
    /\ part = "desktop office" => DeskOfficeTypeOK
    /\ part = "workbench" => WorkbenchTypeOK
    /\ part = "rail" => RailTypeOK
    /\ part = "shell" => ShellTypeOK
    /\ part = "panels" => PanelTypeOK

(***************************************************************************)
(* The office shows a run exactly while the model is called for it, calls  *)
(* within its limits and only when the owner queued the task, whatever is  *)
(* cancelled, stopped, lost or not saved (agent-office manager.ts).        *)
(***************************************************************************)
OfficeCallsAgree == part = "office" => RunningIsCalled /\ CallsAreBounded /\ CalledWhenAsked

(***************************************************************************)
(* One channel at a time and for the owner in the settings; one task for   *)
(* a message however often it comes; results in the order of their commits *)
(* (tencent-channel-manager.ts, plugins/channel-tencent).                  *)
(***************************************************************************)
ChannelKeepsFaith == part = "qq" => OneChannel /\ AnswersAgree /\ ResultsInOrder

(***************************************************************************)
(* The owner's word stands, whatever is under way when he gives it: a skill*)
(* file that was edited is neither overwritten nor removed, a session that *)
(* was deleted does not come back with the answer to its last question, a  *)
(* turn that was aborted is not said to have passed, and the channel       *)
(* implements ChannelPromise: it takes no task from somebody who is its    *)
(* owner no more and tells him of none (workshop.ts:224,                   *)
(* session-store.ts:103, verifier.ts:30, runtime.ts:77).                   *)
(***************************************************************************)
OwnersWordStands == EditsAreKept /\ DeletedStaysDeleted /\ ChannelKeepsPromise /\ CompletesAsVerified

(***************************************************************************)
(* A run of a coding runtime leaves no process at work in its worktree and *)
(* tells of every file it changed, and a desktop that is quit leaves no    *)
(* host (runtime-codex, -claude, -pi; lib.rs).                             *)
(***************************************************************************)
NothingIsLeft ==
    /\ part = "runtime" => NoStrayWorker /\ ChangesReported
    /\ part = "shell" => QuitStopsHost

(***************************************************************************)
(* The owner's own records - dashboard entries, memories, the experience   *)
(* of a task - are what his saves made them, in every store that holds     *)
(* them (personal-dashboard-store.ts, memory-store.ts).                    *)
(***************************************************************************)
OwnersRecordsAgree ==
    /\ part = "dashboard" => RecordsKept
    /\ part = "memory" => SearchAgrees /\ ExperienceRecorded

(***************************************************************************)
(* Every answer in a session answers the question before it, and the model *)
(* saw the question it answers (server.ts, assistant session-store.ts).    *)
(***************************************************************************)
ConversationHolds == part = "conversation" => AnswersFollowQuestions /\ ModelSeesQuestion

(***************************************************************************)
(* The pages of the desktop do not mix up what their awaits bring back:    *)
(* nothing is heard once muted, one answer is awaited, drafts stay with    *)
(* their assistant, a worker's events with the worker, a task is followed  *)
(* to its end, and a panel's buttons act as they were confirmed, fit for   *)
(* the item they were shown for, and come back (apps/desktop/ui).          *)
(***************************************************************************)
DesktopShowsWhatIs ==
    /\ part = "voice" => MutedIsSilent /\ OneAnswerAwaited
    /\ part = "desktop office" => DraftsStayApart
    /\ part = "workbench" => StaleAnswersAreDropped /\ OneTurnAwaited
    /\ part = "rail" => FollowedToTheEnd
    /\ part = "panels" => ActsAsConfirmed /\ ButtonsComeBack /\ ClosedIsQuiet
=============================================================================
