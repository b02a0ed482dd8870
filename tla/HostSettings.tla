---------------------------- MODULE HostSettings ----------------------------
(***************************************************************************)
(* The settings managers of the host: assistant providers, coding          *)
(* permissions and the Tencent channel each keep one section of            *)
(* settings.json. A manager serialises its own changes and knows nothing   *)
(* of the others': every save reads the whole file, writes a temporary one *)
(* and renames it, over awaits. Provider keys and channel credentials go   *)
(* to the platform's secret store first; the permission profile is put in  *)
(* force in the Codex runtime before it is saved, and taken back when the  *)
(* save fails.                                                             *)
(***************************************************************************)
EXTENDS PolicyEngine

CONSTANTS CodexRun,  \* the runs and turns of the Codex runtime
          MaxOverlap \* bound: changes of the three managers under way at once

VARIABLES settingsFile, \* settings.json, by section
          settings,     \* #settings of each manager
          change,       \* the operation at the head of each manager's #changes
          secrets,      \* the names in the secret store
          approvals,    \* rows of the approval database
          codexPolicy,  \* #executionPolicy of CodexCliRuntime
          codexRuns     \* its #active: the policy each active run was started with

settingsVars == <<settingsFile, settings, change, secrets, approvals, codexPolicy, codexRuns>>

Section == {"assistant", "codingPermissions", "tencent"}
ProviderProfile == {"deepseek", "aliyun"}
PermissionProfile == {"safe-auto", "full-auto"}
\* A section is told apart by its active profile, or by whether the channel is enabled.
SectionValue == [assistant |-> ProviderProfile, codingPermissions |-> PermissionProfile,
                 tencent |-> {"disabled", "enabled"}]
SettingsFile == {f \in [Section -> UNION {SectionValue[s] : s \in Section}] : \A s \in Section : f[s] \in SectionValue[s]}
DefaultSettings == [assistant |-> "deepseek", codingPermissions |-> "safe-auto", tencent |-> "disabled"]

SecretName == ProviderProfile \cup {"qq"}

ProfilePolicy == [p \in PermissionProfile |-> IF p = "full-auto" THEN "danger-full-access" ELSE "workspace-write"]
NotActive == "not active"

NoChange == [stage |-> "idle"]
\* A key is being set or has to be there; then the save: the file is to be read, to be replaced by what was
\* read with the manager's own section in it, and replaced while the rename has not returned.
Change == LET Value == UNION {SectionValue[s] : s \in Section}
          IN  [stage: {"secret", "check"}, to: Value, secret: SecretName] \cup [stage: {"read", "renamed"}, to: Value]
                \cup [stage: {"write"}, to: Value, file: SettingsFile]

SettingsTypeOK ==
    /\ settingsFile \in SettingsFile /\ settings \in SettingsFile
    /\ change \in [Section -> Change \cup {NoChange}]
    /\ secrets \subseteq SecretName
    /\ approvals \subseteq ApprovalRecord({"coding-permissions", "codex:danger-full-access"})
    /\ codexPolicy \in {ProfilePolicy[p] : p \in PermissionProfile}
    /\ codexRuns \in [CodexRun -> {ProfilePolicy[p] : p \in PermissionProfile} \cup {NotActive}]

CodexIdle == \A r \in CodexRun : codexRuns[r] = NotActive
CurrentPolicy == ProfilePolicy[settings.codingPermissions]

\* A manager begins a change when its last one has ended, whatever the others do.
MayBegin(s) == change[s] = NoChange /\ Cardinality({t \in Section : change[t] # NoChange}) < MaxOverlap

Ask(s, stage, to, secret) == change' = [change EXCEPT ![s] = [stage |-> stage, to |-> to, secret |-> secret]]
Save(s, to) == change' = [change EXCEPT ![s] = [stage |-> "read", to |-> to]]
Ended(s) == change' = [change EXCEPT ![s] = NoChange]
At(s, stage) == change[s].stage = stage

-----------------------------------------------------------------------------
\* A provider's endpoint, model and key are set: the active profile stays as it is.
ConfigureProvider(id, withKey) ==
    /\ MayBegin("assistant")
    /\ IF withKey THEN Ask("assistant", "secret", settings.assistant, id) ELSE Save("assistant", settings.assistant)
    /\ UNCHANGED <<settingsFile, settings, secrets, approvals, codexPolicy, codexRuns>>

\* Another provider is made the active one: its key has to be there.
ActivateProvider(id) ==
    /\ MayBegin("assistant")
    /\ Ask("assistant", "check", id, id)
    /\ UNCHANGED <<settingsFile, settings, secrets, approvals, codexPolicy, codexRuns>>

ConfigureTencent(to, withKey) ==
    /\ MayBegin("tencent")
    /\ Ask("tencent", IF withKey THEN "secret" ELSE "check", to, "qq")
    /\ UNCHANGED <<settingsFile, settings, secrets, approvals, codexPolicy, codexRuns>>

\* The store's command or file write of a secret.
SecretSet(s) ==
    /\ At(s, "secret")
    /\ secrets' = secrets \cup {change[s].secret}
    /\ IF s = "tencent" THEN Ask(s, "check", change[s].to, "qq") ELSE Save(s, change[s].to)
    /\ UNCHANGED <<settingsFile, settings, approvals, codexPolicy, codexRuns>>

\* It fails or is aborted. What it leaves of an older value may be torn: get then fails, as it may anyway.
SecretSetFails(s) ==
    /\ At(s, "secret")
    /\ Ended(s)
    /\ UNCHANGED <<settingsFile, settings, secrets, approvals, codexPolicy, codexRuns>>

\* get succeeds, or the channel is only to be disabled.
SecretThere(s) ==
    /\ At(s, "check")
    /\ change[s].secret \in secrets \/ change[s].to = "disabled"
    /\ Save(s, change[s].to)
    /\ UNCHANGED <<settingsFile, settings, secrets, approvals, codexPolicy, codexRuns>>

-----------------------------------------------------------------------------
FullAccess == [taskId |-> "coding-permissions", actor |-> "local-owner", trust |-> "owner", context |-> "direct",
               isAuthenticated |-> TRUE, isRegistered |-> TRUE, isAllowed |-> TRUE, canCommit |-> FALSE,
               networkAllowlist |-> {}, action |-> "activate_full_access",
               target |-> "codex:danger-full-access", worktree |-> "agentme:managed"]
ASSUME FullAccessIsPolicyInput ==
    FullAccess \in PolicyInput({"coding-permissions", "local-owner", "codex:danger-full-access", "agentme:managed"})

\* Bound: the clock stands at 0 and an approval lasts a year.
FullAccessApproval == [taskId |-> FullAccess.taskId, action |-> FullAccess.action, target |-> FullAccess.target,
                       decision |-> "approved", expiresAt |-> 1]

\* Mutant: the approval is not asked for when the profile was active once before.
ApproveFullAccess_Once(acknowledged) ==
    (acknowledged /\ approvals' = approvals \cup {FullAccessApproval}) \/ UNCHANGED approvals

\* The owner acknowledges, the approval is recorded, read back and evaluated.
ApproveFullAccess(acknowledged) ==
    /\ acknowledged
    /\ approvals' = approvals \cup {FullAccessApproval}
    /\ EvaluatePolicy(FullAccess, FindValid(approvals', FullAccess.taskId, FullAccess.action, FullAccess.target, 0), 0)
         = "allow"

\* setExecutionPolicy throws while a run is active.
ApplyPolicy(policy) == CodexIdle /\ codexPolicy' = policy

\* The change starts: approval, then the policy is put in force, then the save is begun.
ActivatePermission(id, acknowledged) ==
    /\ MayBegin("codingPermissions")
    /\ IF id = "full-auto" THEN ApproveFullAccess(acknowledged) ELSE UNCHANGED approvals
    /\ ApplyPolicy(ProfilePolicy[id])
    /\ Save("codingPermissions", id)
    /\ UNCHANGED <<settingsFile, settings, secrets, codexRuns>>

\* The change is refused because Codex runs: the approval row stays.
ActivationRefused(id, acknowledged) ==
    /\ MayBegin("codingPermissions") /\ ~CodexIdle
    /\ IF id = "full-auto" THEN ApproveFullAccess(acknowledged) ELSE UNCHANGED approvals
    /\ UNCHANGED <<settingsFile, settings, change, secrets, codexPolicy, codexRuns>>

\* The catch of activate: what was in force before is applied again, which throws while a run is active.
TakeBackPolicy == IF CodexIdle THEN codexPolicy' = CurrentPolicy ELSE UNCHANGED codexPolicy

-----------------------------------------------------------------------------
\* readFile of the whole file; writeFile puts it, with the manager's own section replaced, beside the old one.
SettingsRead(s) ==
    /\ At(s, "read")
    /\ change' = [change EXCEPT ![s] = [stage |-> "write", to |-> change[s].to,
                                       file |-> [settingsFile EXCEPT ![s] = change[s].to]]]
    /\ UNCHANGED <<settingsFile, settings, secrets, approvals, codexPolicy, codexRuns>>

SettingsRename(s) ==
    /\ At(s, "write")
    /\ settingsFile' = change[s].file
    /\ change' = [change EXCEPT ![s] = [stage |-> "renamed", to |-> change[s].to]]
    /\ UNCHANGED <<settings, secrets, approvals, codexPolicy, codexRuns>>

\* save returns, whether or not the caller has gone: the manager takes the settings as its own.
SettingsSaved(s) ==
    /\ At(s, "renamed")
    /\ settings' = [settings EXCEPT ![s] = change[s].to]
    /\ Ended(s)
    /\ UNCHANGED <<settingsFile, secrets, approvals, codexPolicy, codexRuns>>

\* A check, a read or a write fails, or finds its signal aborted because the client went away or the host
\* stops: the temporary file is removed and the change rejected. After the rename neither has an effect.
ChangeFails(s) ==
    /\ change[s].stage \in {"check", "read", "write"}
    /\ Ended(s)
    /\ IF s = "codingPermissions" THEN TakeBackPolicy ELSE UNCHANGED codexPolicy
    /\ UNCHANGED <<settingsFile, settings, secrets, approvals, codexRuns>>

-----------------------------------------------------------------------------
\* A task or a turn starts Codex with the policy in force; it ends by itself or by a cancel.
CodexStarts(r) ==
    /\ codexRuns[r] = NotActive
    /\ codexRuns' = [codexRuns EXCEPT ![r] = codexPolicy]
    /\ UNCHANGED <<settingsFile, settings, change, secrets, approvals, codexPolicy>>

CodexEnds(r) ==
    /\ codexRuns[r] # NotActive
    /\ codexRuns' = [codexRuns EXCEPT ![r] = NotActive]
    /\ UNCHANGED <<settingsFile, settings, change, secrets, approvals, codexPolicy>>

\* The process dies or is stopped and the next one loads the file.
SettingsRestart ==
    /\ settings' = settingsFile
    /\ change' = [s \in Section |-> NoChange]
    /\ codexPolicy' = ProfilePolicy[settingsFile.codingPermissions]
    /\ codexRuns' = [r \in CodexRun |-> NotActive]
    /\ UNCHANGED <<settingsFile, secrets, approvals>>

SettingsInit ==
    /\ settingsFile = DefaultSettings /\ settings = DefaultSettings
    /\ change = [s \in Section |-> NoChange]
    /\ secrets = {}
    /\ approvals = {}
    /\ codexPolicy = ProfilePolicy["safe-auto"]
    /\ codexRuns = [r \in CodexRun |-> NotActive]

\* The requests of the three routes.
ProviderRoute ==
    \/ \E id \in ProviderProfile, withKey \in BOOLEAN : ConfigureProvider(id, withKey)
    \/ \E id \in ProviderProfile : ActivateProvider(id)
TencentRoute == \E to \in SectionValue.tencent, withKey \in BOOLEAN : ConfigureTencent(to, withKey)
PermissionRoute == \E id \in PermissionProfile, acknowledged \in BOOLEAN :
                      ActivatePermission(id, acknowledged) \/ ActivationRefused(id, acknowledged)

SettingsNext ==
    \/ ProviderRoute \/ TencentRoute \/ PermissionRoute
    \/ \E s \in Section : \/ SecretSet(s) \/ SecretSetFails(s) \/ SecretThere(s)
                          \/ SettingsRead(s) \/ SettingsRename(s) \/ SettingsSaved(s) \/ ChangeFails(s)
    \/ \E r \in CodexRun : CodexStarts(r) \/ CodexEnds(r)
    \/ SettingsRestart

SettingsSpec == SettingsInit /\ [][SettingsNext]_settingsVars

-----------------------------------------------------------------------------
\* Whether a value of a section has been granted: full access by a recorded approval, an enabled channel
\* and a second provider by a secret that was stored once.
Granted(s, v) ==
    /\ v = "full-auto" => FullAccessApproval \in approvals
    /\ v = "enabled" => "qq" \in secrets
    /\ s = "assistant" /\ v # DefaultSettings.assistant => v \in secrets

(***************************************************************************)
(* Whatever is in force - in a manager, in the Codex runtime, in one of    *)
(* its runs - or may come in force by a restart, because it is in the file *)
(* or in a save that read an older file, was granted first. The saves of   *)
(* three managers overlap, a section that was replaced comes back, and a   *)
(* change can end at every await (assistant-provider-manager.ts:325,       *)
(* coding-permission-manager.ts:186, tencent-channel-manager.ts:245).      *)
(***************************************************************************)
GrantsPrecedeSettings ==
    /\ \A s \in Section : /\ Granted(s, settings[s]) /\ Granted(s, settingsFile[s])
                          /\ At(s, "write") => \A t \in Section : Granted(t, change[s].file[t])
    /\ ProfilePolicy["full-auto"] \in {codexPolicy} \cup {codexRuns[r] : r \in CodexRun} =>
         FullAccessApproval \in approvals
=============================================================================
