------------------------- MODULE HostSettingsProofs -------------------------
(***************************************************************************)
(* For any number of Codex runs and of overlapping changes: the types of   *)
(* HostSettings, and that whatever is in force, or may come in force by a  *)
(* restart, was granted before. In the second half: the channel whose      *)
(* settings one of the managers keeps, with what it promises.              *)
(*                                                                         *)
(* A save carries its value over several awaits, and carries the other     *)
(* sections as it read them: so what a change holds must be granted from   *)
(* the moment the check of its secret, or the approval, was passed, and a  *)
(* grant must never be taken back.                                         *)
(***************************************************************************)
EXTENDS HostSettings, QQChannel, TLAPS, FiniteSetTheorems, SequenceTheorems, WellFoundedInduction

\* What the operation at the head of a manager's chain holds, stage by stage: the
\* secret it set or looks for is the one its value needs, and once that has been
\* found the value is granted.
ChangeOK(s) ==
  /\ change[s] # NoChange => change[s].to \in SectionValue[s]
  /\ At(s, "secret") => \/ s = "assistant" /\ Granted(s, change[s].to)
                        \/ s = "tencent" /\ change[s].secret = "qq"
  /\ At(s, "check") => \/ s = "assistant" /\ change[s].secret = change[s].to
                       \/ s = "tencent" /\ change[s].secret = "qq"
  /\ change[s].stage \in {"read", "write", "renamed"} => Granted(s, change[s].to)
  /\ At(s, "write") => \A t \in Section : Granted(t, change[s].file[t])

ChangesOK == \A s \in Section : ChangeOK(s)

SettingsInv == SettingsTypeOK /\ ChangesOK /\ GrantsPrecedeSettings

-----------------------------------------------------------------------------
(* Grants and values *)

\* A grant is never taken back: approvals and stored secrets only accumulate.
LEMMA GrantsStay ==
  ASSUME secrets \subseteq secrets', approvals \subseteq approvals',
         NEW s, NEW v, Granted(s, v)
  PROVE  Granted(s, v)'
BY DEF Granted

\* The other managers' changes are as good as they were.
LEMMA OthersChange ==
  ASSUME secrets \subseteq secrets', approvals \subseteq approvals',
         NEW s \in Section, ChangeOK(s), change'[s] = change[s]
  PROVE  ChangeOK(s)'
BY GrantsStay DEF ChangeOK, At

\* What is in force stays granted, if it is what it was.
LEMMA InForceStays ==
  ASSUME GrantsPrecedeSettings,
         secrets \subseteq secrets', approvals \subseteq approvals',
         UNCHANGED <<settingsFile, settings, codexPolicy, codexRuns>>
  PROVE  /\ \A s \in Section : Granted(s, settings[s])' /\ Granted(s, settingsFile[s])'
         /\ ProfilePolicy["full-auto"] \in {codexPolicy'} \cup {codexRuns'[r] : r \in CodexRun}
              => FullAccessApproval \in approvals'
BY GrantsStay DEF GrantsPrecedeSettings

\* What a value that passed its check is: the file with it is a settings file.
LEMMA FileWith ==
  ASSUME NEW f \in SettingsFile, NEW s \in Section, NEW v \in SectionValue[s]
  PROVE  /\ [f EXCEPT ![s] = v] \in SettingsFile
         /\ [f EXCEPT ![s] = v][s] = v
         /\ \A t \in Section \ {s} : [f EXCEPT ![s] = v][t] = f[t]
BY DEF SettingsFile, Section, SectionValue

\* An operation that only moves one manager's change on, and may add a grant.
LEMMA ChangeMoves ==
  ASSUME SettingsInv, NEW s \in Section, NEW r \in Change \cup {NoChange},
         change' = [change EXCEPT ![s] = r],
         UNCHANGED <<settingsFile, settings, codexPolicy, codexRuns>>,
         secrets \subseteq secrets', secrets' \subseteq SecretName,
         approvals \subseteq approvals',
         approvals' \subseteq ApprovalRecord({"coding-permissions", "codex:danger-full-access"}),
         ChangeOK(s)'
  PROVE  SettingsInv'
<1>1. SettingsTypeOK'
  BY DEF SettingsInv, SettingsTypeOK
<1>2. ChangesOK'
  <2> SUFFICES ASSUME NEW t \in Section, t # s PROVE ChangeOK(t)'
    BY DEF ChangesOK
  <2>1. change'[t] = change[t]
    BY DEF SettingsInv, SettingsTypeOK
  <2> QED BY <2>1, OthersChange DEF SettingsInv, ChangesOK
<1>3. GrantsPrecedeSettings'
  BY <1>2, InForceStays DEF SettingsInv, GrantsPrecedeSettings, ChangesOK, ChangeOK
<1>4. QED
  BY <1>1, <1>2, <1>3 DEF SettingsInv

\* The values a change may carry, and the stages they are carried through.
LEMMA ChangeTypes ==
  /\ \A s \in Section : SectionValue[s] \subseteq UNION {SectionValue[t] : t \in Section}
  /\ \A s \in Section : \A v \in SectionValue[s], n \in SecretName :
       /\ [stage |-> "secret", to |-> v, secret |-> n] \in Change
       /\ [stage |-> "check", to |-> v, secret |-> n] \in Change
       /\ [stage |-> "read", to |-> v] \in Change
       /\ [stage |-> "renamed", to |-> v] \in Change
       /\ \A f \in SettingsFile : [stage |-> "write", to |-> v, file |-> f] \in Change
<1>1. \A s \in Section : SectionValue[s] \subseteq UNION {SectionValue[t] : t \in Section}
  OBVIOUS
<1>2. QED
  BY <1>1 DEF Change

\* Keys, checks and reads of the three routes.
LEMMA RouteKeeps ==
  ASSUME SettingsInv, ProviderRoute \/ TencentRoute
  PROVE  SettingsInv'
<1>1. \A s \in Section : settings[s] \in SectionValue[s] /\ Granted(s, settings[s])
  BY DEF SettingsInv, SettingsTypeOK, SettingsFile, GrantsPrecedeSettings
<1>2. secrets \subseteq SecretName
      /\ approvals \subseteq ApprovalRecord({"coding-permissions", "codex:danger-full-access"})
  BY DEF SettingsInv, SettingsTypeOK
<1>3. ASSUME NEW id \in ProviderProfile, NEW withKey \in BOOLEAN,
             ConfigureProvider(id, withKey)
      PROVE  SettingsInv'
  <2> DEFINE r == IF withKey
                    THEN [stage |-> "secret", to |-> settings.assistant, secret |-> id]
                    ELSE [stage |-> "read", to |-> settings.assistant]
  <2>1. change' = [change EXCEPT !["assistant"] = r]
    BY <1>3 DEF ConfigureProvider, Ask, Save
  <2>2. r \in Change
    BY <1>1, ChangeTypes DEF Section, SecretName
  <2>3. change'["assistant"] = r
    BY <2>1 DEF SettingsInv, SettingsTypeOK, Section
  <2>4. /\ UNCHANGED <<settingsFile, settings, secrets, approvals, codexPolicy, codexRuns>>
        /\ Granted("assistant", settings.assistant)'
    BY <1>1, <1>3, GrantsStay DEF ConfigureProvider, Section
  <2>5. ChangeOK("assistant")'
    BY <1>1, <2>3, <2>4 DEF ChangeOK, At, Section
  <2> QED
    BY <1>2, <2>1, <2>2, <2>4, <2>5, ChangeMoves DEF Section
<1>4. ASSUME NEW id \in ProviderProfile, ActivateProvider(id)
      PROVE  SettingsInv'
  <2> DEFINE r == [stage |-> "check", to |-> id, secret |-> id]
  <2>1. /\ change' = [change EXCEPT !["assistant"] = r]
        /\ UNCHANGED <<settingsFile, settings, secrets, approvals, codexPolicy, codexRuns>>
    BY <1>4 DEF ActivateProvider, Ask
  <2>2. r \in Change /\ id \in SectionValue["assistant"]
    BY ChangeTypes DEF Section, SecretName, SectionValue
  <2>3. change'["assistant"] = r
    BY <2>1 DEF SettingsInv, SettingsTypeOK, Section
  <2>4. ChangeOK("assistant")'
    BY <2>2, <2>3 DEF ChangeOK, At
  <2> QED BY <1>2, <2>1, <2>2, <2>4, ChangeMoves DEF Section
<1>5. ASSUME NEW to \in SectionValue.tencent, NEW withKey \in BOOLEAN,
             ConfigureTencent(to, withKey)
      PROVE  SettingsInv'
  <2> DEFINE r == [stage |-> IF withKey THEN "secret" ELSE "check", to |-> to, secret |-> "qq"]
  <2>1. /\ change' = [change EXCEPT !["tencent"] = r]
        /\ UNCHANGED <<settingsFile, settings, secrets, approvals, codexPolicy, codexRuns>>
    BY <1>5 DEF ConfigureTencent, Ask
  <2>2. r \in Change /\ to \in SectionValue["tencent"]
    BY ChangeTypes DEF Section, SecretName, SectionValue
  <2>3. change'["tencent"] = r
    BY <2>1 DEF SettingsInv, SettingsTypeOK, Section
  <2>4. ChangeOK("tencent")'
    BY <2>2, <2>3 DEF ChangeOK, At
  <2> QED BY <1>2, <2>1, <2>2, <2>4, ChangeMoves DEF Section
<1>6. QED
  BY <1>3, <1>4, <1>5 DEF ProviderRoute, TencentRoute

\* A key is stored or fails to be, and is found; the file is read into the save.
LEMMA SecretKeeps ==
  ASSUME SettingsInv, NEW s \in Section,
         SecretSet(s) \/ SecretSetFails(s) \/ SecretThere(s) \/ SettingsRead(s)
  PROVE  SettingsInv'
<1>1. /\ change \in [Section -> Change \cup {NoChange}]
      /\ settingsFile \in SettingsFile /\ secrets \subseteq SecretName
      /\ approvals \subseteq ApprovalRecord({"coding-permissions", "codex:danger-full-access"})
      /\ ChangeOK(s)
      /\ \A t \in Section : Granted(t, settingsFile[t])
  BY DEF SettingsInv, SettingsTypeOK, ChangesOK, GrantsPrecedeSettings
<1>2. CASE SecretSet(s)
  <2> DEFINE r == IF s = "tencent" THEN [stage |-> "check", to |-> change[s].to, secret |-> "qq"]
                                   ELSE [stage |-> "read", to |-> change[s].to]
  <2>1. /\ change' = [change EXCEPT ![s] = r] /\ At(s, "secret")
        /\ secrets' = secrets \cup {change[s].secret}
        /\ UNCHANGED <<settingsFile, settings, approvals, codexPolicy, codexRuns>>
    BY <1>2 DEF SecretSet, Ask, Save
  <2>2. change[s].secret \in SecretName /\ change[s].to \in SectionValue[s]
    BY <1>1, <2>1 DEF At, Change, NoChange, ChangeOK
  <2>3. r \in Change
    BY <2>2, ChangeTypes DEF SecretName
  <2>4. change'[s] = r
    BY <1>1, <2>1
  <2>5. secrets \subseteq secrets' /\ secrets' \subseteq SecretName /\ approvals \subseteq approvals'
    BY <1>1, <2>1, <2>2
  <2>6. s = "assistant" => Granted(s, change[s].to)'
    BY <1>1, <2>1, <2>5, GrantsStay DEF ChangeOK
  <2>7. ChangeOK(s)'
    BY <1>1, <2>1, <2>2, <2>4, <2>6 DEF ChangeOK, At
  <2> QED BY <1>1, <2>1, <2>3, <2>5, <2>7, ChangeMoves
<1>3. CASE SecretSetFails(s)
  <2>1. /\ change' = [change EXCEPT ![s] = NoChange]
        /\ UNCHANGED <<settingsFile, settings, secrets, approvals, codexPolicy, codexRuns>>
    BY <1>3 DEF SecretSetFails, Ended
  <2>2. ChangeOK(s)'
    BY <1>1, <2>1 DEF ChangeOK, At, NoChange
  <2> QED BY <1>1, <2>1, <2>2, ChangeMoves
<1>4. CASE SecretThere(s)
  <2> DEFINE r == [stage |-> "read", to |-> change[s].to]
  <2>1. /\ change' = [change EXCEPT ![s] = r] /\ At(s, "check")
        /\ change[s].secret \in secrets \/ change[s].to = "disabled"
        /\ UNCHANGED <<settingsFile, settings, secrets, approvals, codexPolicy, codexRuns>>
    BY <1>4 DEF SecretThere, Save
  <2>2. change[s].to \in SectionValue[s]
    BY <1>1, <2>1 DEF At, NoChange, ChangeOK
  <2>3. r \in Change /\ change'[s] = r
    BY <1>1, <2>1, <2>2, ChangeTypes DEF SecretName
  <2>4. Granted(s, change[s].to)'
    BY <1>1, <2>1, <2>2
       DEF ChangeOK, Granted, SectionValue, ProviderProfile, PermissionProfile
  <2>5. ChangeOK(s)'
    BY <2>2, <2>3, <2>4 DEF ChangeOK, At
  <2> QED BY <1>1, <2>1, <2>3, <2>5, ChangeMoves
<1>5. CASE SettingsRead(s)
  <2>1. At(s, "read") /\ change[s].to \in SectionValue[s] /\ Granted(s, change[s].to)
    BY <1>1, <1>5 DEF SettingsRead, At, NoChange, ChangeOK
  <2>2. PICK v \in SectionValue[s], f \in SettingsFile :
          /\ v = change[s].to /\ f = [settingsFile EXCEPT ![s] = v]
          /\ Granted(s, v) /\ \A t \in Section : Granted(t, f[t])
    <3>1. /\ [settingsFile EXCEPT ![s] = change[s].to] \in SettingsFile
          /\ \A t \in Section : Granted(t, [settingsFile EXCEPT ![s] = change[s].to][t])
      BY <1>1, <2>1, FileWith
    <3> QED BY <2>1, <3>1
  <2> DEFINE r == [stage |-> "write", to |-> v, file |-> f]
  <2>3. /\ change' = [change EXCEPT ![s] = r]
        /\ UNCHANGED <<settingsFile, settings, secrets, approvals, codexPolicy, codexRuns>>
    BY <1>5, <2>2 DEF SettingsRead
  <2>4. r \in Change /\ change'[s] = r
    BY <1>1, <2>3, ChangeTypes DEF SecretName
  <2>5. Granted(s, v)' /\ \A t \in Section : Granted(t, f[t])'
    BY <2>2, <2>3, GrantsStay
  <2>6. ChangeOK(s)'
    BY <2>2, <2>4, <2>5 DEF ChangeOK, At
  <2> QED BY <1>1, <2>3, <2>4, <2>6, ChangeMoves
<1>6. QED
  BY <1>2, <1>3, <1>4, <1>5

\* Full access is put in force only after the approval is on record.
LEMMA PermissionKeeps ==
  ASSUME SettingsInv, PermissionRoute
  PROVE  SettingsInv'
<1> DEFINE P == "codingPermissions"
           Rows == ApprovalRecord({"coding-permissions", "codex:danger-full-access"})
<1>1. PICK id \in PermissionProfile, acknowledged \in BOOLEAN :
        ActivatePermission(id, acknowledged) \/ ActivationRefused(id, acknowledged)
  BY DEF PermissionRoute
<1>2. /\ change \in [Section -> Change \cup {NoChange}]
      /\ secrets \subseteq SecretName /\ approvals \subseteq Rows
      /\ \A s \in Section : ChangeOK(s)
  BY DEF SettingsInv, SettingsTypeOK, ChangesOK
<1>3. /\ UNCHANGED <<settingsFile, settings, secrets, codexRuns>>
      /\ IF id = "full-auto" THEN ApproveFullAccess(acknowledged) ELSE UNCHANGED approvals
  BY <1>1 DEF ActivatePermission, ActivationRefused
<1>4. FullAccessApproval \in Rows
  BY DEF FullAccessApproval, FullAccess, ApprovalRecord, PolicyAction, ToolAction
<1>5. /\ approvals \subseteq approvals' /\ approvals' \subseteq Rows
      /\ id = "full-auto" => FullAccessApproval \in approvals'
  BY <1>2, <1>3, <1>4 DEF ApproveFullAccess
<1>6. CASE ActivationRefused(id, acknowledged)
  <2>1. UNCHANGED <<change, codexPolicy>>
    BY <1>6 DEF ActivationRefused
  <2>2. SettingsTypeOK'
    BY <1>3, <1>5, <2>1 DEF SettingsInv, SettingsTypeOK
  <2>3. ChangesOK'
    BY <1>2, <1>3, <1>5, <2>1, OthersChange DEF ChangesOK
  <2>4. GrantsPrecedeSettings'
    BY <1>3, <1>5, <2>1, <2>3, InForceStays
       DEF SettingsInv, GrantsPrecedeSettings, ChangesOK, ChangeOK
  <2> QED BY <2>2, <2>3, <2>4 DEF SettingsInv
<1>7. CASE ActivatePermission(id, acknowledged)
  <2> DEFINE r == [stage |-> "read", to |-> id]
  <2>1. change' = [change EXCEPT ![P] = r] /\ codexPolicy' = ProfilePolicy[id]
    BY <1>7 DEF ActivatePermission, Save, ApplyPolicy
  <2>2. id \in SectionValue[P] /\ P \in Section /\ r \in Change
    BY ChangeTypes DEF SectionValue, Section, SecretName
  <2>3. SettingsTypeOK'
    BY <1>3, <1>5, <2>1, <2>2 DEF SettingsInv, SettingsTypeOK
  <2>4. ChangesOK'
    <3> SUFFICES ASSUME NEW t \in Section PROVE ChangeOK(t)'
      BY DEF ChangesOK
    <3>1. CASE t # P
      BY <1>2, <1>3, <1>5, <2>1, <3>1, OthersChange
    <3>2. CASE t = P
      <4>1. change'[P] = r
        BY <1>2, <2>1, <2>2
      <4>2. Granted(P, id)'
        BY <1>5 DEF Granted, PermissionProfile
      <4> QED BY <2>2, <3>2, <4>1, <4>2 DEF ChangeOK, At
    <3> QED BY <3>1, <3>2
  <2>5. /\ \A s \in Section : Granted(s, settings[s])' /\ Granted(s, settingsFile[s])'
    BY <1>3, <1>5, GrantsStay DEF SettingsInv, GrantsPrecedeSettings
  <2>6. ProfilePolicy["full-auto"] \in {codexPolicy'} \cup {codexRuns'[r1] : r1 \in CodexRun}
          => FullAccessApproval \in approvals'
    BY <1>3, <1>5, <2>1
       DEF SettingsInv, GrantsPrecedeSettings, ProfilePolicy, PermissionProfile
  <2>7. GrantsPrecedeSettings'
    BY <2>4, <2>5, <2>6 DEF GrantsPrecedeSettings, ChangesOK, ChangeOK
  <2> QED BY <2>3, <2>4, <2>7 DEF SettingsInv
<1>8. QED
  BY <1>1, <1>6, <1>7

\* The rename puts in the file what a read of an older file may have carried, and
\* the manager takes its own section of it: all of it was granted.
LEMMA SectionSaveKeeps ==
  ASSUME SettingsInv, NEW s \in Section,
         SettingsRename(s) \/ SettingsSaved(s) \/ ChangeFails(s)
  PROVE  SettingsInv'
<1>1. /\ change \in [Section -> Change \cup {NoChange}]
      /\ settingsFile \in SettingsFile /\ settings \in SettingsFile
      /\ \A t \in Section : ChangeOK(t)
      /\ \A t \in Section : Granted(t, settingsFile[t]) /\ Granted(t, settings[t])
      /\ ProfilePolicy["full-auto"] \in {codexPolicy} \cup {codexRuns[r] : r \in CodexRun}
           => FullAccessApproval \in approvals
  BY DEF SettingsInv, SettingsTypeOK, ChangesOK, GrantsPrecedeSettings
<1>2. UNCHANGED <<secrets, approvals, codexRuns>>
  BY DEF SettingsRename, SettingsSaved, ChangeFails
<1>3. \A t \in Section : \A v : Granted(t, v)' = Granted(t, v)
  BY <1>2 DEF Granted
<1>4. PICK r \in Change \cup {NoChange} :
        /\ change' = [change EXCEPT ![s] = r]
        /\ (r = NoChange) \/ (At(s, "write") /\ r = [stage |-> "renamed", to |-> change[s].to])
  <2>1. CASE SettingsRename(s)
    <3>1. At(s, "write") /\ change[s].to \in SectionValue[s]
      BY <1>1, <2>1 DEF SettingsRename, At, NoChange, ChangeOK
    <3>2. [stage |-> "renamed", to |-> change[s].to] \in Change
      BY <3>1, ChangeTypes DEF SecretName
    <3> QED BY <2>1, <3>1, <3>2 DEF SettingsRename
  <2>2. CASE SettingsSaved(s) \/ ChangeFails(s)
    <3>1. change' = [change EXCEPT ![s] = NoChange]
      BY <2>2 DEF SettingsSaved, ChangeFails, Ended
    <3> QED BY <3>1
  <2> QED BY <2>1, <2>2
<1>5. change'[s] = r /\ \A t \in Section \ {s} : change'[t] = change[t]
  BY <1>1, <1>4
<1>6. ChangesOK'
  <2> SUFFICES ASSUME NEW t \in Section PROVE ChangeOK(t)'
    BY DEF ChangesOK
  <2>1. CASE t # s
    BY <1>1, <1>2, <1>5, <2>1, OthersChange
  <2>2. CASE r = NoChange /\ t = s
    BY <1>5, <2>2 DEF ChangeOK, At, NoChange
  <2>3. CASE At(s, "write") /\ r = [stage |-> "renamed", to |-> change[s].to] /\ t = s
    <3>1. PICK v \in SectionValue[s] : v = change[s].to /\ Granted(s, v)
      BY <1>1, <2>3 DEF ChangeOK, At, NoChange
    <3>2. change'[s] = [stage |-> "renamed", to |-> v]
      BY <1>5, <2>3, <3>1
    <3>3. Granted(s, v)'
      BY <1>3, <3>1
    <3> QED BY <2>3, <3>1, <3>2, <3>3 DEF ChangeOK, At
  <2> QED BY <1>4, <2>1, <2>2, <2>3
<1>7. CASE SettingsRename(s)
  <2>1. /\ settingsFile' = change[s].file /\ At(s, "write")
        /\ UNCHANGED <<settings, codexPolicy>>
    BY <1>7 DEF SettingsRename
  <2>2. change[s].file \in SettingsFile
    BY <1>1, <2>1 DEF At, Change, NoChange
  <2>3. \A t \in Section : Granted(t, change[s].file[t])
    BY <1>1, <2>1 DEF ChangeOK
  <2>4. SettingsTypeOK'
    BY <1>2, <1>4, <2>1, <2>2 DEF SettingsInv, SettingsTypeOK
  <2>5. \A t \in Section : Granted(t, settingsFile'[t]) /\ Granted(t, settings'[t])
    BY <1>1, <2>1, <2>3
  <2>6. GrantsPrecedeSettings'
    BY <1>1, <1>2, <1>3, <1>6, <2>1, <2>5 DEF GrantsPrecedeSettings, ChangesOK, ChangeOK
  <2> QED BY <1>6, <2>4, <2>6 DEF SettingsInv
<1>8. CASE SettingsSaved(s)
  <2>1. /\ settings' = [settings EXCEPT ![s] = change[s].to] /\ At(s, "renamed")
        /\ UNCHANGED <<settingsFile, codexPolicy>>
    BY <1>8 DEF SettingsSaved
  <2>2. change[s].to \in SectionValue[s] /\ Granted(s, change[s].to)
    BY <1>1, <2>1 DEF At, NoChange, ChangeOK
  <2>3. settings' \in SettingsFile /\ \A t \in Section : Granted(t, settings'[t])
    <3>1. PICK v \in SectionValue[s] : v = change[s].to /\ Granted(s, v)
      BY <2>2
    <3>2. settings' = [settings EXCEPT ![s] = v]
      BY <2>1, <3>1
    <3>3. /\ settings' \in SettingsFile /\ settings'[s] = v
          /\ \A t \in Section \ {s} : settings'[t] = settings[t]
      <4> DEFINE File == [settings EXCEPT ![s] = v]
      <4>1. File \in SettingsFile /\ File[s] = v /\ \A t \in Section \ {s} : File[t] = settings[t]
        BY <1>1, FileWith
      <4> QED BY <3>2, <4>1
    <3> QED BY <1>1, <3>1, <3>3
  <2>4. SettingsTypeOK'
    BY <1>2, <1>4, <2>1, <2>3 DEF SettingsInv, SettingsTypeOK
  <2>5. GrantsPrecedeSettings'
    BY <1>1, <1>2, <1>3, <1>6, <2>1, <2>3 DEF GrantsPrecedeSettings, ChangesOK, ChangeOK
  <2> QED BY <1>6, <2>4, <2>5 DEF SettingsInv
<1>9. CASE ChangeFails(s)
  <2>1. /\ UNCHANGED <<settingsFile, settings>>
        /\ codexPolicy' = codexPolicy \/ codexPolicy' = CurrentPolicy
    BY <1>9 DEF ChangeFails, TakeBackPolicy
  <2>2. /\ settings.codingPermissions \in PermissionProfile
        /\ Granted("codingPermissions", settings.codingPermissions)
    BY <1>1 DEF SettingsFile, Section, SectionValue
  <2>3. /\ CurrentPolicy \in {ProfilePolicy[p] : p \in PermissionProfile}
        /\ CurrentPolicy = ProfilePolicy["full-auto"] => FullAccessApproval \in approvals
    BY <2>2 DEF CurrentPolicy, ProfilePolicy, PermissionProfile, Granted
  <2>4. SettingsTypeOK'
    BY <1>2, <1>4, <2>1, <2>3 DEF SettingsInv, SettingsTypeOK
  <2>5. ProfilePolicy["full-auto"] \in {codexPolicy'} \cup {codexRuns'[r1] : r1 \in CodexRun}
          => FullAccessApproval \in approvals'
    BY <1>1, <1>2, <2>1, <2>3
  <2>6. GrantsPrecedeSettings'
    BY <1>1, <1>3, <1>6, <2>1, <2>5 DEF GrantsPrecedeSettings, ChangesOK, ChangeOK
  <2> QED BY <1>6, <2>4, <2>6 DEF SettingsInv
<1>10. QED
  BY <1>7, <1>8, <1>9

\* A run starts with the policy in force; a new process takes what the file says.
LEMMA CodexKeeps ==
  ASSUME SettingsInv,
         (\E r \in CodexRun : CodexStarts(r) \/ CodexEnds(r)) \/ SettingsRestart
  PROVE  SettingsInv'
<1>1. UNCHANGED <<settingsFile, secrets, approvals>>
  BY DEF CodexStarts, CodexEnds, SettingsRestart
<1>2. \A t \in Section : \A v : Granted(t, v)' = Granted(t, v)
  BY <1>1 DEF Granted
<1>3. /\ settingsFile.codingPermissions \in PermissionProfile
      /\ Granted("codingPermissions", settingsFile.codingPermissions)
  BY DEF SettingsInv, SettingsTypeOK, GrantsPrecedeSettings, SettingsFile, Section, SectionValue
<1>4. ASSUME NEW r \in CodexRun, CodexStarts(r) \/ CodexEnds(r) PROVE SettingsInv'
  <2>1. /\ UNCHANGED <<settingsFile, settings, change, secrets, approvals, codexPolicy>>
        /\ \/ codexRuns' = [codexRuns EXCEPT ![r] = codexPolicy]
           \/ codexRuns' = [codexRuns EXCEPT ![r] = NotActive]
    BY <1>4 DEF CodexStarts, CodexEnds
  <2>2. SettingsTypeOK'
    BY <2>1 DEF SettingsInv, SettingsTypeOK
  <2>3. ChangesOK'
    BY <2>1, OthersChange DEF SettingsInv, ChangesOK
  <2>4. \A q \in CodexRun : codexRuns'[q] \in {codexRuns[q], codexPolicy, NotActive}
    BY <2>1 DEF SettingsInv, SettingsTypeOK
  <2>5. ProfilePolicy["full-auto"] # NotActive
    BY DEF ProfilePolicy, PermissionProfile, NotActive
  <2>6. GrantsPrecedeSettings'
    BY <1>2, <2>1, <2>3, <2>4, <2>5
       DEF SettingsInv, GrantsPrecedeSettings, ChangesOK, ChangeOK
  <2> QED BY <2>2, <2>3, <2>6 DEF SettingsInv
<1>5. CASE SettingsRestart
  <2>1. /\ settings' = settingsFile /\ change' = [s \in Section |-> NoChange]
        /\ codexPolicy' = ProfilePolicy[settingsFile.codingPermissions]
        /\ codexRuns' = [r \in CodexRun |-> NotActive]
    BY <1>5 DEF SettingsRestart
  <2>2. SettingsTypeOK'
    BY <1>1, <1>3, <2>1 DEF SettingsInv, SettingsTypeOK
  <2>3. ChangesOK'
    BY <2>1 DEF ChangesOK, ChangeOK, At, NoChange
  <2>4. ProfilePolicy["full-auto"] \in {codexPolicy'} \cup {codexRuns'[r] : r \in CodexRun}
          => FullAccessApproval \in approvals'
    BY <1>1, <1>3, <2>1 DEF ProfilePolicy, PermissionProfile, NotActive, Granted
  <2>5. GrantsPrecedeSettings'
    BY <1>1, <1>2, <2>1, <2>3, <2>4
       DEF SettingsInv, GrantsPrecedeSettings, ChangesOK, ChangeOK
  <2> QED BY <2>2, <2>3, <2>5 DEF SettingsInv
<1>6. QED
  BY <1>4, <1>5

-----------------------------------------------------------------------------
(* The channel *)

\* A non-empty set of numbers has a least one: the intervals 1..i, i in the set,
\* are finite sets, and inclusion of finite sets is well-founded.
LEMMA LeastOf ==
  ASSUME NEW S \in SUBSET Nat, S # {}
  PROVE  \E i \in S : \A j \in S : i <= j
<1> DEFINE T == {1..i : i \in S}
<1>1. T \subseteq FiniteSubsetsOf(Nat) /\ T # {}
  <2>1. ASSUME NEW i \in S PROVE 1..i \in FiniteSubsetsOf(Nat)
    <3>1. IsFiniteSet(1..i) BY FS_Interval
    <3>2. 1..i \in SUBSET Nat OBVIOUS
    <3> QED BY <3>1, <3>2 DEF FiniteSubsetsOf
  <2> QED BY <2>1
<1>2. PICK m \in T : \A l \in T : <<l, m>> \notin StrictSubsetOrdering(Nat)
  <2> HIDE DEF T
  <2> QED BY <1>1, WFMin, FS_StrictSubsetOrderingWellFounded
<1>3. PICK i \in S : m = 1..i
  BY <1>2
<1>4. ASSUME NEW j \in S, j < i PROVE FALSE
  <2>1. 1..j \subseteq 1..i /\ i \in 1..i /\ i \notin 1..j
    BY <1>4
  <2>2. <<1..j, 1..i>> \in StrictSubsetOrdering(Nat)
    BY <2>1 DEF StrictSubsetOrdering
  <2> QED BY <1>2, <1>3, <2>2
<1>5. QED
  BY <1>4

\* Which channels there are: only the one in use is not closed, it works for the owner in the
\* settings unless it was aborted, and is aborted where the manager awaits its end or the host ends.
ChannelsOK ==
  /\ \A c \in ChannelId : c # current => channel[c].phase \in {"none", "closed"}
  /\ current # 0 => channel[current].phase \in {"starting", "online", "ended"}
  /\ current # 0 /\ ~channel[current].aborted => channel[current].owner = ownerId /\ ~hostEnds
  /\ manager \in {"restarting", "closing"} => current # 0 /\ channel[current].aborted
  /\ manager \in {"unbound", "closed"} => current = 0

\* An answer, sent or under way, names the task that is noted for its message.
AnswersOK ==
  /\ \A m \in QQMessage : \A t \in answered[m] : t = requests[m] /\ t # 0
  /\ \A c \in ChannelId : \A r \in replies[c] : r[2] = requests[r[1]]

\* A flush of a channel with open databases has in hand what is not delivered up to some
\* result, and all of it.
FlushOK ==
  \A c \in ChannelId :
    /\ channel[c].phase = "none" => flush[c] = {}
    /\ channel[c].phase # "closed" => \E n \in 0..Len(results) : flush[c] = PendingOf(n)

QQInv == QQTypeOK /\ ChannelsOK /\ AnswersOK /\ FlushOK /\ ResultsInOrder

\* A flush takes the pending deliveries up to one of the table.
LEMMA BatchIsOldest ==
  ASSUME Len(results) \in Nat
  PROVE  \E n \in 0..Len(results) : PendingBatch = PendingOf(n)
<1> DEFINE L == Len(results)
           Fits(n) == Cardinality(PendingOf(n)) <= QQBatch
           S == {n \in 1..(L + 1) : n = L + 1 \/ ~Fits(n)}
<1>1. ASSUME NEW n \in 0..L, NEW m \in 0..L, m <= n, Fits(n)
      PROVE  Fits(m)
  <2>1. IsFiniteSet(1..n) /\ PendingOf(n) \in SUBSET (1..n)
    BY FS_Interval DEF PendingOf
  <2>2. IsFiniteSet(PendingOf(n)) /\ PendingOf(m) \in SUBSET PendingOf(n)
    BY <1>1, <2>1, FS_Subset DEF PendingOf
  <2>3. /\ IsFiniteSet(PendingOf(m)) /\ Cardinality(PendingOf(m)) <= Cardinality(PendingOf(n))
    BY <2>2, FS_Subset
  <2>4. Cardinality(PendingOf(m)) \in Nat /\ Cardinality(PendingOf(n)) \in Nat /\ QQBatch \in Nat
    BY <2>2, <2>3, FS_CardinalityType, QQAssumption
  <2> QED BY <1>1, <2>3, <2>4
<1>2. S \in SUBSET Nat /\ L + 1 \in S
  OBVIOUS
<1>3. PICK k \in S : \A j \in S : k <= j
  BY <1>2, LeastOf
<1>4. k - 1 \in 0..L /\ (k = L + 1 \/ (k \in 0..L /\ ~Fits(k)))
  <2>1. k \in 1..(L + 1) /\ (k = L + 1 \/ ~Fits(k))
    OBVIOUS
  <2> HIDE DEF Fits, S
  <2> QED BY <2>1
<1>5. ASSUME NEW i \in 1..L
      PROVE  Fits(i) <=> i <= k - 1
  <2>1. i <= k - 1 => Fits(i)
    <3>1. i \in S => k <= i
      BY <1>3
    <3>2. i \in 1..(L + 1) /\ i \in Int /\ k \in Int
      BY <1>3
    <3> HIDE DEF Fits
    <3> QED BY <3>1, <3>2
  <2>2. Fits(i) => i < k
    BY <1>1, <1>4
  <2> QED BY <1>4, <2>1, <2>2
<1>6. PendingBatch = {i \in PendingOf(L) : Fits(i)}
  BY DEF PendingBatch
<1> HIDE DEF Fits, S
<1>7. PendingBatch = PendingOf(k - 1)
  BY <1>4, <1>5, <1>6 DEF PendingOf
<1>8. QED
  BY <1>4, <1>7

\* What is noted of a channel.
LEMMA ChannelIs ==
  ASSUME NEW x \in Channel
  PROVE  /\ x.phase \in {"starting", "online", "ended", "closed"} /\ x.owner \in QQUser /\ x.aborted \in BOOLEAN
         /\ \A p \in {"starting", "online", "ended", "closed"} :
              LET y == [x EXCEPT !.phase = p] IN
              y \in Channel /\ y.phase = p /\ y.owner = x.owner /\ y.aborted = x.aborted
         /\ LET y == [x EXCEPT !.aborted = TRUE] IN
            y \in Channel /\ y.phase = x.phase /\ y.owner = x.owner /\ y.aborted = TRUE
BY DEF Channel

LEMMA NoChannelIs == NoChannel.phase = "none" /\ NoChannel \notin Channel
BY DEF NoChannel, Channel

\* The channel in use is one.
LEMMA CurrentIs ==
  ASSUME QQInv
  PROVE  /\ current # 0 => current \in ChannelId /\ channel[current] \in Channel
         /\ \A c \in ChannelId : channel[c].phase \in {"starting", "online", "ended"} => c = current /\ current # 0
         /\ 0 \notin ChannelId
<1>1. current # 0 => current \in ChannelId
  BY DEF QQInv, QQTypeOK
<1>2. \A c \in ChannelId : channel[c].phase # "none" => channel[c] \in Channel
  BY NoChannelIs DEF QQInv, QQTypeOK
<1>3. 0 \notin ChannelId
  BY QQAssumption DEF ChannelId
<1>4. QED
  BY <1>1, <1>2, <1>3 DEF QQInv, ChannelsOK

\* Flushes go on where no table changes and no closed channel opens.
LEMMA FlushesStay ==
  ASSUME FlushOK, UNCHANGED <<flush, results>>,
         \A c \in ChannelId : /\ channel'[c].phase = "none" => channel[c].phase = "none"
                              /\ channel'[c].phase # "closed" => channel[c].phase # "closed"
  PROVE  FlushOK'
BY DEF FlushOK, PendingOf

\* The manager's steps leave the tables and the pumps alone.
ManagerLeaves == UNCHANGED <<hostEnds, flush, replies, tableVars>>

LEMMA TablesStay ==
  ASSUME QQInv, ManagerLeaves \/ UNCHANGED <<flush, replies, tableVars>>
  PROVE  /\ flush' \in [ChannelId -> SUBSET (1..MaxResults)] /\ results' \in Seq(BOOLEAN) /\ Len(results') <= MaxResults
         /\ requests' \in [QQMessage -> 0..MaxQQSubmits] /\ submitted' \in [QQMessage -> 0..MaxQQSubmits]
         /\ replies' \in [ChannelId -> SUBSET (QQMessage \X (1..MaxQQSubmits))]
         /\ answered' \in [QQMessage -> SUBSET (1..MaxQQSubmits)]
         /\ AnswersOK' /\ ResultsInOrder' /\ UNCHANGED <<flush, results>> /\ FlushOK
BY DEF QQInv, QQTypeOK, AnswersOK, ResultsInOrder, ManagerLeaves, tableVars

\* A channel is made, or none, where no other one is at work.
LEMMA ChannelMade ==
  ASSUME QQInv, NEW channels \in [ChannelId -> Channel \cup {NoChannel}],
         \A c \in ChannelId : channels[c].phase \in {"none", "closed"},
         NEW owner \in QQUser \cup {NoQQOwner}, QQRestart(channels, owner),
         ownerId' = owner, saving' = saving, ManagerLeaves,
         \A c \in ChannelId : /\ channels[c].phase = "none" => channel[c].phase = "none"
                              /\ channels[c].phase # "closed" => channel[c].phase # "closed"
  PROVE  QQInv'
<1>1. /\ ownerId' \in QQUser \cup {NoQQOwner} /\ saving' \in QQUser \cup {NoQQOwner} /\ hostEnds' \in BOOLEAN /\ hostEnds' = hostEnds
  BY DEF QQInv, QQTypeOK, ManagerLeaves
<1>2. CASE owner = NoQQOwner \/ hostEnds
  <2>1. current' = 0 /\ channel' = channels /\ manager' = "idle"
    BY <1>2 DEF QQRestart
  <2>2. QQTypeOK'
    BY <1>1, <2>1, TablesStay DEF QQTypeOK
  <2>3. ChannelsOK'
    BY <2>1 DEF ChannelsOK
  <2>4. FlushOK'
    BY <2>1, TablesStay, FlushesStay
  <2> QED BY <2>2, <2>3, <2>4, TablesStay DEF QQInv
<1>3. CASE ~(owner = NoQQOwner \/ hostEnds)
  <2> DEFINE new == [phase |-> "starting", owner |-> owner, aborted |-> FALSE]
  <2>1. new \in Channel /\ new.phase = "starting" /\ new.owner = owner /\ new.aborted = FALSE
    BY <1>3 DEF Channel
  <2>2. PICK c \in ChannelId : /\ channels[c] = NoChannel /\ channel' = [channels EXCEPT ![c] = new]
                               /\ current' = c /\ manager' = "idle"
    BY <1>3 DEF QQRestart
  <2> HIDE DEF new
  <2>3. /\ channel' \in [ChannelId -> Channel \cup {NoChannel}] /\ channel'[c] = new
        /\ \A d \in ChannelId \ {c} : channel'[d] = channels[d]
    BY <2>1, <2>2
  <2>4. QQTypeOK'
    BY <1>1, <2>2, <2>3, TablesStay DEF QQTypeOK
  <2>5. ChannelsOK'
    BY <1>1, <1>3, <2>1, <2>2, <2>3 DEF ChannelsOK
  <2>6. \A d \in ChannelId : /\ channel'[d].phase = "none" => channel[d].phase = "none"
                             /\ channel'[d].phase # "closed" => channel[d].phase # "closed"
    BY <2>1, <2>2, <2>3, NoChannelIs
  <2>7. FlushOK'
    BY <2>6, TablesStay, FlushesStay
  <2> QED BY <2>4, <2>5, <2>7, TablesStay DEF QQInv
<1>4. QED
  BY <1>2, <1>3

\* One channel's record changes; it is the one in use.
LEMMA ChannelGoes ==
  ASSUME QQInv, current # 0, NEW x \in Channel, channel' = [channel EXCEPT ![current] = x],
         UNCHANGED <<flush, replies, tableVars>>,
         ownerId' \in QQUser \cup {NoQQOwner}, saving' \in QQUser \cup {NoQQOwner}, hostEnds' \in BOOLEAN,
         manager' \in {"unbound", "idle", "saving", "restarting", "closing", "closed"},
         \/ /\ current' = current /\ x.phase # "closed" /\ manager' \notin {"unbound", "closed"}
            /\ ~x.aborted => x.owner = ownerId' /\ ~hostEnds' /\ manager' \notin {"restarting", "closing"}
         \/ /\ current' = 0 /\ x.phase = "closed" /\ manager' \notin {"restarting", "closing"}
  PROVE  QQInv'
<1>1. current \in ChannelId /\ channel \in [ChannelId -> Channel \cup {NoChannel}] /\ channel[current] \in Channel
  BY CurrentIs DEF QQInv, QQTypeOK
<1>2. /\ channel' \in [ChannelId -> Channel \cup {NoChannel}] /\ channel'[current] = x
      /\ \A d \in ChannelId \ {current} : channel'[d] = channel[d]
  BY <1>1
<1>3. QQTypeOK'
  BY <1>1, <1>2, TablesStay DEF QQTypeOK
<1>4. /\ x.phase \in {"starting", "online", "ended", "closed"} /\ x.aborted \in BOOLEAN
      /\ \A d \in ChannelId \ {current} : channel[d].phase \in {"none", "closed"}
  BY ChannelIs DEF QQInv, ChannelsOK
<1>5. ChannelsOK'
  BY <1>1, <1>2, <1>4, CurrentIs DEF ChannelsOK
<1>6. channel[current].phase # "closed"
  BY DEF QQInv, ChannelsOK
<1>7. FlushOK'
  <2>1. \A d \in ChannelId : /\ channel'[d].phase = "none" => channel[d].phase = "none"
                             /\ channel'[d].phase # "closed" => channel[d].phase # "closed"
    BY <1>2, <1>4, <1>6
  <2> QED BY <2>1, TablesStay, FlushesStay
<1>8. QED
  BY <1>3, <1>5, <1>7, TablesStay DEF QQInv

\* A change is saved and what it says is applied.
LEMMA ApplyingKeeps ==
  ASSUME QQInv, Bind \/ ConfigureSaved \/ ConfigureApplied
  PROVE  QQInv'
<1>1. /\ channel \in [ChannelId -> Channel \cup {NoChannel}] /\ ownerId \in QQUser \cup {NoQQOwner}
      /\ saving \in QQUser \cup {NoQQOwner} /\ ChannelsOK
  BY DEF QQInv, QQTypeOK
<1>2. ASSUME current = 0, NEW owner \in QQUser \cup {NoQQOwner}, QQRestart(channel, owner),
             ownerId' = owner, UNCHANGED saving, ManagerLeaves
      PROVE  QQInv'
  <2>1. \A c \in ChannelId : channel[c].phase \in {"none", "closed"}
    BY <1>1, <1>2, CurrentIs DEF ChannelsOK
  <2> QED BY <1>1, <1>2, <2>1, ChannelMade
<1>3. CASE Bind
  BY <1>1, <1>2, <1>3 DEF Bind, ChannelsOK, ManagerLeaves
<1>4. CASE ConfigureSaved /\ current = 0
  BY <1>1, <1>2, <1>4 DEF ConfigureSaved, ManagerLeaves
<1>5. CASE ConfigureSaved /\ current # 0
  <2> DEFINE x == [channel[current] EXCEPT !.aborted = TRUE]
  <2>1. /\ channel' = [channel EXCEPT ![current] = x] /\ UNCHANGED <<current, saving, hostEnds, flush, replies, tableVars>>
        /\ manager' = "restarting" /\ ownerId' = saving
    BY <1>5 DEF ConfigureSaved, StopActive
  <2>2. x \in Channel /\ x.phase = channel[current].phase /\ x.aborted
    BY <1>5, CurrentIs, ChannelIs
  <2>3. channel[current].phase # "closed" /\ hostEnds \in BOOLEAN
    BY <1>1, <1>5 DEF ChannelsOK, QQInv, QQTypeOK
  <2> HIDE DEF x
  <2> QED BY <1>1, <1>5, <2>1, <2>2, <2>3, ChannelGoes
<1>6. CASE ConfigureApplied
  <2> DEFINE x == [channel[current] EXCEPT !.phase = "closed"]
             channels == [channel EXCEPT ![current] = x]
  <2>1. current # 0
    BY <1>1, <1>6 DEF ConfigureApplied, ChannelsOK
  <2>2. x \in Channel /\ x.phase = "closed" /\ current \in ChannelId
    BY <2>1, CurrentIs, ChannelIs
  <2>3. QQRestart(channels, ownerId) /\ UNCHANGED <<ownerId, saving>> /\ ManagerLeaves
    BY <1>6 DEF ConfigureApplied, ManagerLeaves
  <2> HIDE DEF x
  <2>4. /\ channels \in [ChannelId -> Channel \cup {NoChannel}] /\ channels[current] = x
        /\ \A c \in ChannelId \ {current} : channels[c] = channel[c]
    BY <1>1, <2>2
  <2>5. \A c \in ChannelId : /\ channels[c].phase \in {"none", "closed"}
                             /\ channels[c].phase = "none" => channel[c].phase = "none"
                             /\ channels[c].phase # "closed" => channel[c].phase # "closed"
    BY <1>1, <2>2, <2>4 DEF ChannelsOK
  <2> HIDE DEF channels
  <2> QED BY <1>1, <2>3, <2>4, <2>5, ChannelMade
<1>7. QED
  BY <1>3, <1>4, <1>5, <1>6

\* A change begins or fails, the host ends, and the manager closes.
LEMMA ManagerKeeps ==
  ASSUME QQInv, (\E o \in QQUser \cup {NoQQOwner} : Configure(o)) \/ ConfigureFails \/ HostEnds \/ Close \/ Closed
  PROVE  QQInv'
<1>1. /\ channel \in [ChannelId -> Channel \cup {NoChannel}] /\ ownerId \in QQUser \cup {NoQQOwner}
      /\ saving \in QQUser \cup {NoQQOwner} /\ ChannelsOK /\ hostEnds \in BOOLEAN
      /\ manager \in {"unbound", "idle", "saving", "restarting", "closing", "closed"}
  BY DEF QQInv, QQTypeOK
<1>2. ASSUME UNCHANGED <<ownerId, current, channel, hostEnds, flush, replies, tableVars>>, saving' \in QQUser \cup {NoQQOwner},
             manager' \in {"idle", "saving"} \/ (manager' = "closed" /\ current = 0)
      PROVE  QQInv'
  <2>1. QQTypeOK'
    BY <1>2, TablesStay DEF QQInv, QQTypeOK
  <2>2. ChannelsOK'
    BY <1>1, <1>2 DEF ChannelsOK
  <2>3. FlushOK'
    BY <1>2, TablesStay, FlushesStay
  <2> QED BY <1>2, <2>1, <2>2, <2>3, TablesStay DEF QQInv
<1>3. CASE (\E o \in QQUser \cup {NoQQOwner} : Configure(o)) \/ ConfigureFails
  BY <1>1, <1>2, <1>3 DEF Configure, ConfigureFails
<1>4. CASE Close /\ current = 0
  BY <1>1, <1>2, <1>4 DEF Close
<1>5. CASE Close /\ current # 0
  <2> DEFINE x == [channel[current] EXCEPT !.aborted = TRUE]
  <2>1. /\ channel' = [channel EXCEPT ![current] = x] /\ manager' = "closing"
        /\ UNCHANGED <<ownerId, current, saving, hostEnds, flush, replies, tableVars>>
    BY <1>5 DEF Close, StopActive
  <2>2. x \in Channel /\ x.phase = channel[current].phase /\ x.aborted
    BY <1>5, CurrentIs, ChannelIs
  <2>3. channel[current].phase # "closed"
    BY <1>1, <1>5 DEF ChannelsOK
  <2> HIDE DEF x
  <2> QED BY <1>1, <1>5, <2>1, <2>2, <2>3, ChannelGoes
<1>6. CASE Closed
  <2> DEFINE x == [channel[current] EXCEPT !.phase = "closed"]
  <2>1. /\ channel' = [channel EXCEPT ![current] = x] /\ manager' = "closed" /\ current' = 0
        /\ UNCHANGED <<ownerId, saving, hostEnds, flush, replies, tableVars>> /\ current # 0
    BY <1>1, <1>6 DEF Closed, ChannelsOK
  <2>2. x \in Channel /\ x.phase = "closed"
    BY <2>1, CurrentIs, ChannelIs
  <2> HIDE DEF x
  <2> QED BY <1>1, <2>1, <2>2, ChannelGoes
<1>7. CASE HostEnds
  <2>1. /\ hostEnds' = TRUE /\ UNCHANGED <<ownerId, manager, saving, current, flush, replies, tableVars>>
        /\ channel' = [c \in ChannelId |-> IF c = current THEN [channel[c] EXCEPT !.aborted = TRUE] ELSE channel[c]]
    BY <1>7 DEF HostEnds
  <2>2. CASE current # 0
    <3> DEFINE x == [channel[current] EXCEPT !.aborted = TRUE]
    <3>1. channel' = [channel EXCEPT ![current] = x]
      BY <1>1, <2>1, <2>2, CurrentIs
    <3>2. x \in Channel /\ x.phase = channel[current].phase /\ x.aborted
      BY <2>2, CurrentIs, ChannelIs
    <3>3. channel[current].phase # "closed" /\ manager \notin {"unbound", "closed"}
      BY <1>1, <2>2 DEF ChannelsOK
    <3> HIDE DEF x
    <3> QED BY <1>1, <2>1, <2>2, <3>1, <3>2, <3>3, ChannelGoes
  <2>3. CASE current = 0
    <3>1. channel' = channel
      BY <1>1, <2>1, <2>3, CurrentIs
    <3>2. QQTypeOK'
      BY <2>1, <3>1, TablesStay DEF QQInv, QQTypeOK
    <3>3. ChannelsOK'
      BY <1>1, <2>1, <2>3, <3>1 DEF ChannelsOK
    <3>4. FlushOK'
      BY <2>1, <3>1, TablesStay, FlushesStay
    <3> QED BY <2>1, <3>2, <3>3, <3>4, TablesStay DEF QQInv
  <2> QED BY <2>2, <2>3
<1>8. QED
  BY <1>3, <1>4, <1>5, <1>6, <1>7

\* The connection comes up or ends.
LEMMA ConnectionKeeps ==
  ASSUME QQInv, NEW c \in ChannelId, Ready(c) \/ ConnectionEnds(c)
  PROVE  QQInv'
<1>1. /\ channel \in [ChannelId -> Channel \cup {NoChannel}] /\ ownerId \in QQUser \cup {NoQQOwner}
      /\ saving \in QQUser \cup {NoQQOwner} /\ ChannelsOK /\ hostEnds \in BOOLEAN
      /\ manager \in {"unbound", "idle", "saving", "restarting", "closing", "closed"}
      /\ flush \in [ChannelId -> SUBSET (1..MaxResults)] /\ results \in Seq(BOOLEAN) /\ Len(results) <= MaxResults
      /\ FlushOK /\ AnswersOK /\ ResultsInOrder
  BY DEF QQInv, QQTypeOK
<1>2. c = current /\ current # 0 /\ channel[c] \in Channel /\ channel[c].phase \in {"starting", "online"}
  BY CurrentIs DEF Ready, ConnectionEnds
<1>3. CASE ConnectionEnds(c)
  <2> DEFINE x == [channel[current] EXCEPT !.phase = "ended"]
  <2>1. channel' = [channel EXCEPT ![current] = x] /\ UNCHANGED <<ownerId, current, saving, manager, hostEnds, flush, replies, tableVars>>
    BY <1>2, <1>3 DEF ConnectionEnds
  <2>2. x \in Channel /\ x.phase = "ended" /\ x.aborted = channel[current].aborted /\ x.owner = channel[current].owner
    BY <1>2, ChannelIs
  <2>3. manager \notin {"unbound", "closed"}
    BY <1>1, <1>2 DEF ChannelsOK
  <2>4. ~x.aborted => x.owner = ownerId' /\ ~hostEnds' /\ manager' \notin {"restarting", "closing"}
    BY <1>1, <1>2, <2>1, <2>2 DEF ChannelsOK
  <2> HIDE DEF x
  <2> QED BY <1>1, <1>2, <2>1, <2>2, <2>3, <2>4, ChannelGoes
<1>4. CASE Ready(c)
  <2> DEFINE x == [channel[c] EXCEPT !.phase = "online"]
  <2>1. PICK n \in 0..Len(results) : /\ channel' = [channel EXCEPT ![c] = x]
                                     /\ flush' = [flush EXCEPT ![c] = IF @ = {} THEN PendingOf(n) ELSE @]
                                     /\ UNCHANGED <<ownerId, manager, saving, current, hostEnds, replies, tableVars>>
    <3>1. \E n \in 0..Len(results) : PendingBatch = PendingOf(n)
      BY <1>1, BatchIsOldest
    <3> QED BY <1>4, <3>1 DEF Ready
  <2>2. x \in Channel /\ x.phase = "online" /\ x.aborted = channel[c].aborted /\ x.owner = channel[c].owner
    BY <1>2, ChannelIs
  <2> HIDE DEF x
  <2>3. /\ channel' \in [ChannelId -> Channel \cup {NoChannel}] /\ channel'[c] = x
        /\ \A d \in ChannelId \ {c} : channel'[d] = channel[d]
    BY <1>1, <2>1, <2>2
  <2>4. PendingOf(n) \in SUBSET (1..MaxResults)
    <3>1. n \in Nat /\ n <= MaxResults
      BY <1>1, QQAssumption
    <3> QED BY <3>1, QQAssumption DEF PendingOf
  <2>5. /\ flush' \in [ChannelId -> SUBSET (1..MaxResults)] /\ flush'[c] = (IF flush[c] = {} THEN PendingOf(n) ELSE flush[c])
        /\ \A d \in ChannelId \ {c} : flush'[d] = flush[d]
    BY <1>1, <2>1, <2>4
  <2>6. QQTypeOK'
    BY <2>1, <2>3, <2>5 DEF QQInv, QQTypeOK, tableVars
  <2>7. ChannelsOK'
    BY <1>1, <1>2, <2>1, <2>2, <2>3 DEF ChannelsOK
  <2>8. UNCHANGED <<results, requests, answered, replies>>
    BY <2>1 DEF tableVars
  <2>9. FlushOK'
    <3> SUFFICES ASSUME NEW d \in ChannelId
                 PROVE  /\ channel'[d].phase = "none" => flush'[d] = {}
                        /\ channel'[d].phase # "closed" => \E m \in 0..Len(results') : flush'[d] = PendingOf(m)'
      BY DEF FlushOK
    <3>1. \A m : PendingOf(m)' = PendingOf(m)
      BY <2>8 DEF PendingOf
    <3>2. CASE d = c
      BY <1>1, <1>2, <2>2, <2>3, <2>5, <2>8, <3>1, <3>2 DEF FlushOK
    <3>3. CASE d # c
      BY <1>1, <2>3, <2>5, <2>8, <3>1, <3>3 DEF FlushOK
    <3> QED BY <3>2, <3>3
  <2>10. AnswersOK' /\ ResultsInOrder'
    BY <1>1, <2>8 DEF AnswersOK, ResultsInOrder
  <2> QED BY <2>6, <2>7, <2>9, <2>10 DEF QQInv
<1>5. QED
  BY <1>3, <1>4

\* What is sent is the oldest of what is left.
LEMMA SendingIs ==
  ASSUME QQInv, NEW c \in ChannelId, flush[c] # {}
  PROVE  SendingOf(c) \in flush[c] /\ \A j \in flush[c] : SendingOf(c) <= j
<1>1. flush[c] \in SUBSET Nat
  BY QQAssumption DEF QQInv, QQTypeOK
<1>2. \E i \in flush[c] : \A j \in flush[c] : i <= j
  BY <1>1, LeastOf
<1>3. QED
  BY <1>2 DEF SendingOf

\* A delivery is sent or not.
LEMMA DeliveryKeeps ==
  ASSUME QQInv, NEW c \in ChannelId, ResultSent(c) \/ SendFails(c)
  PROVE  QQInv'
<1>1. /\ channel \in [ChannelId -> Channel \cup {NoChannel}] /\ ChannelsOK
      /\ flush \in [ChannelId -> SUBSET (1..MaxResults)] /\ results \in Seq(BOOLEAN) /\ Len(results) <= MaxResults
      /\ FlushOK /\ AnswersOK /\ ResultsInOrder /\ flush[c] # {}
  BY DEF QQInv, QQTypeOK, ResultSent, SendFails
<1>2. /\ UNCHANGED <<ownerId, manager, saving, current, channel, hostEnds, requests, submitted, replies, answered>>
      /\ \A d \in ChannelId \ {c} : flush'[d] = flush[d]
      /\ flush' \in [ChannelId -> SUBSET (1..MaxResults)]
  <2>1. \E S \in SUBSET flush[c] : flush' = [flush EXCEPT ![c] = S]
    BY DEF ResultSent, SendFails
  <2>2. PICK S \in SUBSET flush[c] : flush' = [flush EXCEPT ![c] = S]
    BY <2>1
  <2>3. S \in SUBSET (1..MaxResults)
    BY <1>1
  <2> QED BY <1>1, <2>2, <2>3 DEF ResultSent, SendFails, tableVars
<1>3. ChannelsOK' /\ AnswersOK'
  BY <1>1, <1>2 DEF ChannelsOK, AnswersOK
<1>4. ASSUME UNCHANGED results, channel[c].phase # "closed" => flush'[c] = {} PROVE QQInv'
  <2>1. QQTypeOK'
    BY <1>2, <1>4 DEF QQInv, QQTypeOK
  <2>2. FlushOK'
    <3> SUFFICES ASSUME NEW d \in ChannelId, channel[d].phase # "closed"
                 PROVE  /\ channel[d].phase = "none" => flush'[d] = {}
                        /\ \E m \in 0..Len(results) : flush'[d] = PendingOf(m)
      BY <1>2, <1>4 DEF FlushOK, PendingOf
    <3>1. CASE d = c
      <4>1. 0 \in 0..Len(results) /\ PendingOf(0) = {}
        BY <1>1 DEF PendingOf
      <4> QED BY <1>4, <3>1, <4>1
    <3>2. CASE d # c
      BY <1>1, <1>2, <3>2 DEF FlushOK
    <3> QED BY <3>1, <3>2
  <2>3. ResultsInOrder'
    BY <1>1, <1>4 DEF ResultsInOrder
  <2> QED BY <1>3, <2>1, <2>2, <2>3 DEF QQInv
<1>5. CASE SendFails(c)
  BY <1>1, <1>4, <1>5 DEF SendFails, tableVars
<1>6. CASE ResultSent(c) /\ channel[c].phase = "closed"
  BY <1>4, <1>6 DEF ResultSent
<1>7. CASE ResultSent(c) /\ channel[c].phase # "closed"
  <2> DEFINE i == SendingOf(c)
  <2>1. /\ results' = [results EXCEPT ![i] = TRUE]
        /\ flush' = [flush EXCEPT ![c] = IF channel[c].phase = "online" THEN @ \ {i} ELSE {}]
    BY <1>7 DEF ResultSent
  <2>2. PICK n \in 0..Len(results) : flush[c] = PendingOf(n)
    BY <1>1, <1>7 DEF FlushOK
  <2>3. i \in PendingOf(n) /\ \A j \in PendingOf(n) : i <= j
    BY <1>1, <2>2, SendingIs
  <2> HIDE DEF i
  <2>4. i \in 1..n /\ i \in 1..Len(results) /\ ~results[i]
    BY <1>1, <2>3 DEF PendingOf
  <2>5. \A k \in 1..Len(results) : k < i => results[k]
    <3> SUFFICES ASSUME NEW k \in 1..Len(results), k < i, ~results[k] PROVE FALSE
      OBVIOUS
    <3>1. k \in PendingOf(n)
      BY <1>1, <2>4 DEF PendingOf
    <3> QED BY <2>3, <2>4, <3>1
  <2>6. /\ results' \in Seq(BOOLEAN) /\ Len(results') = Len(results) /\ results'[i]
        /\ \A k \in 1..Len(results) : k # i => results'[k] = results[k]
    BY <1>1, <2>1, <2>4
  <2>7. QQTypeOK'
    BY <1>1, <1>2, <2>6 DEF QQInv, QQTypeOK
  <2>8. ResultsInOrder'
    <3> SUFFICES ASSUME NEW a \in 1..Len(results), NEW b \in 1..Len(results), a < b, results'[b] PROVE results'[a]
      BY <2>6 DEF ResultsInOrder
    <3>1. CASE b = i
      BY <2>4, <2>5, <2>6, <3>1
    <3>2. CASE b # i
      <4>1. results[a]
        BY <1>1, <2>6, <3>2 DEF ResultsInOrder
      <4> QED BY <2>6, <4>1
    <3> QED BY <3>1, <3>2
  <2>9. c = current
    <3>1. channel[c].phase # "none"
      BY <1>1 DEF FlushOK
    <3> QED BY <1>1, <1>7, <3>1 DEF ChannelsOK
  <2>10. 0 \in 0..Len(results') /\ PendingOf(0)' = {}
    BY <1>1, <2>6 DEF PendingOf
  <2>11. ASSUME NEW d \in ChannelId, d # c, channel[d].phase # "closed" PROVE flush'[d] = {}
    <3>1. channel[d].phase = "none"
      BY <1>1, <2>9, <2>11 DEF ChannelsOK
    <3> QED BY <1>1, <1>2, <2>11, <3>1 DEF FlushOK
  <2>12. flush'[c] = {} \/ flush'[c] = PendingOf(n)'
    <3>1. PendingOf(n)' = PendingOf(n) \ {i}
      <4>1. \A k \in 1..n : k \in 1..Len(results)
        BY <1>1
      <4> QED BY <2>4, <2>6, <4>1 DEF PendingOf
    <3> QED BY <1>1, <2>1, <2>2, <3>1
  <2>13. FlushOK'
    <3> SUFFICES ASSUME NEW d \in ChannelId
                 PROVE  /\ channel[d].phase = "none" => flush'[d] = {}
                        /\ channel[d].phase # "closed" => \E m \in 0..Len(results') : flush'[d] = PendingOf(m)'
      BY <1>2 DEF FlushOK
    <3>1. CASE d = c
      <4>1. n \in 0..Len(results') /\ channel[c].phase # "none"
        BY <1>1, <2>6 DEF FlushOK
      <4> QED BY <2>10, <2>12, <3>1, <4>1
    <3>2. CASE d # c
      BY <2>10, <2>11, <3>2
    <3> QED BY <3>1, <3>2
  <2> QED BY <1>3, <2>7, <2>8, <2>13 DEF QQInv
<1>8. QED
  BY <1>5, <1>6, <1>7

\* A result is committed: what a flush has in hand is what it was.
LEMMA CommitKeeps ==
  ASSUME QQInv, CommitResult
  PROVE  QQInv'
<1>1. /\ results \in Seq(BOOLEAN) /\ Len(results) < MaxResults /\ FlushOK /\ AnswersOK /\ ResultsInOrder /\ ChannelsOK
      /\ UNCHANGED <<ownerId, manager, saving, current, channel, hostEnds, flush, requests, submitted, replies, answered>>
      /\ results' = Append(results, FALSE)
  BY DEF QQInv, QQTypeOK, CommitResult
<1>2. /\ results' \in Seq(BOOLEAN) /\ Len(results') = Len(results) + 1 /\ Len(results) \in Nat
      /\ results'[Len(results) + 1] = FALSE
      /\ \A k \in 1..Len(results) : results'[k] = results[k]
  BY <1>1
<1>3. QQTypeOK'
  BY <1>1, <1>2, QQAssumption DEF QQInv, QQTypeOK
<1>4. ChannelsOK' /\ AnswersOK'
  BY <1>1 DEF ChannelsOK, AnswersOK
<1>5. ResultsInOrder'
  <2> SUFFICES ASSUME NEW a \in 1..Len(results'), NEW b \in 1..Len(results'), a < b, results'[b] PROVE results'[a]
    BY DEF ResultsInOrder
  <2>1. b \in 1..Len(results) /\ a \in 1..Len(results)
    BY <1>2
  <2> QED BY <1>1, <1>2, <2>1 DEF ResultsInOrder
<1>6. FlushOK'
  <2> SUFFICES ASSUME NEW d \in ChannelId, channel[d].phase # "closed", NEW n \in 0..Len(results), flush[d] = PendingOf(n)
               PROVE  \E m \in 0..Len(results') : flush[d] = PendingOf(m)'
    BY <1>1 DEF FlushOK
  <2>1. PendingOf(n)' = PendingOf(n)
    BY <1>2 DEF PendingOf
  <2>2. n \in 0..Len(results')
    BY <1>2
  <2> QED BY <2>1, <2>2
<1>7. QED
  BY <1>3, <1>4, <1>5, <1>6 DEF QQInv

\* A message is answered with the task noted for it, submitted now or before.
LEMMA QQCreateKeeps ==
  ASSUME QQInv, NEW c \in ChannelId, NEW m \in QQMessage, NEW private \in BOOLEAN, CreateTask(c, m, private)
  PROVE  QQInv'
<1>1. /\ requests \in [QQMessage -> 0..MaxQQSubmits] /\ submitted \in [QQMessage -> 0..MaxQQSubmits]
      /\ replies \in [ChannelId -> SUBSET (QQMessage \X (1..MaxQQSubmits))]
      /\ answered \in [QQMessage -> SUBSET (1..MaxQQSubmits)]
      /\ AnswersOK /\ FlushOK /\ ResultsInOrder /\ ChannelsOK
      /\ UNCHANGED <<ownerId, manager, saving, current, channel, hostEnds, flush, results, answered>>
  BY DEF QQInv, QQTypeOK, CreateTask
<1>2. PICK t \in 1..MaxQQSubmits :
        /\ replies' = [replies EXCEPT ![c] = @ \cup {<<m, t>>}]
        /\ submitted' \in [QQMessage -> 0..MaxQQSubmits]
        /\ \/ requests' = requests /\ requests[m] = t
           \/ requests' = [requests EXCEPT ![m] = t] /\ requests[m] = 0
  <2>1. CASE requests[m] # 0
    <3>1. requests[m] \in 1..MaxQQSubmits
      BY <1>1, <2>1, QQAssumption
    <3>2. replies' = [replies EXCEPT ![c] = @ \cup {<<m, requests[m]>>}] /\ UNCHANGED <<requests, submitted>>
      BY <2>1 DEF CreateTask
    <3> QED BY <1>1, <3>1, <3>2
  <2>2. CASE requests[m] = 0
    <3> DEFINE t == submitted[m] + 1
    <3>1. submitted[m] < MaxQQSubmits /\ submitted' = [submitted EXCEPT ![m] = t]
      BY <2>2 DEF CreateTask
    <3>2. t \in 1..MaxQQSubmits /\ submitted'[m] = t
      BY <1>1, <3>1, QQAssumption
    <3>3. requests' = [requests EXCEPT ![m] = t] /\ replies' = [replies EXCEPT ![c] = @ \cup {<<m, t>>}]
      BY <2>2, <3>2 DEF CreateTask
    <3> HIDE DEF t
    <3>4. submitted' \in [QQMessage -> 0..MaxQQSubmits]
      BY <1>1, <3>1, <3>2, QQAssumption
    <3> QED BY <2>2, <3>2, <3>3, <3>4
  <2> QED BY <2>1, <2>2
<1>3. requests' \in [QQMessage -> 0..MaxQQSubmits] /\ requests'[m] = t /\ t # 0
      /\ \A x \in QQMessage : requests[x] # 0 => requests'[x] = requests[x]
  BY <1>1, <1>2, QQAssumption
<1>4. /\ replies' \in [ChannelId -> SUBSET (QQMessage \X (1..MaxQQSubmits))] /\ replies'[c] = replies[c] \cup {<<m, t>>}
      /\ \A d \in ChannelId \ {c} : replies'[d] = replies[d]
  <2>1. <<m, t>> \in QQMessage \X (1..MaxQQSubmits)
    OBVIOUS
  <2> QED BY <1>1, <1>2, <2>1
<1>5. QQTypeOK'
  BY <1>1, <1>2, <1>3, <1>4 DEF QQInv, QQTypeOK
<1>6. AnswersOK'
  <2>1. ASSUME NEW x \in QQMessage, NEW a \in answered[x] PROVE a = requests'[x] /\ a # 0
    BY <1>1, <1>3 DEF AnswersOK
  <2>2. ASSUME NEW d \in ChannelId, NEW r \in replies'[d] PROVE r[2] = requests'[r[1]]
    <3>1. CASE r \in replies[d]
      <4>1. r[1] \in QQMessage /\ r[2] \in 1..MaxQQSubmits
        BY <1>1, <3>1
      <4>2. r[2] = requests[r[1]] /\ requests[r[1]] # 0
        BY <1>1, <3>1, <4>1, QQAssumption DEF AnswersOK
      <4> QED BY <1>3, <4>1, <4>2
    <3>2. CASE r \notin replies[d]
      <4>1. r = <<m, t>>
        BY <1>4, <2>2, <3>2
      <4> QED BY <1>3, <4>1
    <3> QED BY <3>1, <3>2
  <2> QED BY <1>1, <2>1, <2>2 DEF AnswersOK
<1>7. ChannelsOK' /\ FlushOK' /\ ResultsInOrder'
  BY <1>1 DEF ChannelsOK, FlushOK, PendingOf, ResultsInOrder
<1>8. QED
  BY <1>5, <1>6, <1>7 DEF QQInv

\* An answer is sent or dropped.
LEMMA QQReplyKeeps ==
  ASSUME QQInv, NEW c \in ChannelId, QQReply(c)
  PROVE  QQInv'
<1>1. /\ requests \in [QQMessage -> 0..MaxQQSubmits]
      /\ replies \in [ChannelId -> SUBSET (QQMessage \X (1..MaxQQSubmits))]
      /\ answered \in [QQMessage -> SUBSET (1..MaxQQSubmits)]
      /\ AnswersOK /\ FlushOK /\ ResultsInOrder /\ ChannelsOK
      /\ UNCHANGED <<ownerId, manager, saving, current, channel, hostEnds, flush, results, requests, submitted>>
  BY DEF QQInv, QQTypeOK, QQReply
<1>2. PICK r \in replies[c] : /\ replies' = [replies EXCEPT ![c] = @ \ {r}]
                              /\ answered' = IF TakesUp(c) THEN [answered EXCEPT ![r[1]] = @ \cup {r[2]}] ELSE answered
  BY DEF QQReply
<1>3. r[1] \in QQMessage /\ r[2] \in 1..MaxQQSubmits /\ r[2] = requests[r[1]] /\ r[2] # 0
  BY <1>1, QQAssumption DEF AnswersOK
<1>4. replies' \in [ChannelId -> SUBSET (QQMessage \X (1..MaxQQSubmits))] /\ \A d \in ChannelId : replies'[d] \subseteq replies[d]
  BY <1>1, <1>2
<1>5. /\ answered' \in [QQMessage -> SUBSET (1..MaxQQSubmits)]
      /\ \A x \in QQMessage : answered'[x] \subseteq answered[x] \cup (IF x = r[1] THEN {r[2]} ELSE {})
  BY <1>1, <1>2, <1>3
<1>6. QQTypeOK'
  BY <1>1, <1>4, <1>5 DEF QQInv, QQTypeOK
<1>7. AnswersOK'
  BY <1>1, <1>3, <1>4, <1>5 DEF AnswersOK
<1>8. ChannelsOK' /\ FlushOK' /\ ResultsInOrder'
  BY <1>1 DEF ChannelsOK, FlushOK, PendingOf, ResultsInOrder
<1>9. QED
  BY <1>6, <1>7, <1>8 DEF QQInv

\* The next process begins with the tables alone.
LEMMA NextProcessKeeps ==
  ASSUME QQInv, NextProcess
  PROVE  QQInv'
<1>1. /\ manager' = "unbound" /\ current' = 0 /\ hostEnds' = FALSE /\ saving' = NoQQOwner
      /\ channel' = [c \in ChannelId |-> NoChannel] /\ flush' = [c \in ChannelId |-> {}]
      /\ replies' = [c \in ChannelId |-> {}] /\ UNCHANGED <<ownerId, results, requests, answered>>
  BY DEF NextProcess
<1>2. submitted' \in [QQMessage -> 0..MaxQQSubmits]
  <2>1. submitted \in [QQMessage -> 0..MaxQQSubmits]
    BY DEF QQInv, QQTypeOK
  <2>2. CASE UNCHANGED submitted
    BY <2>1, <2>2
  <2>3. ASSUME NEW m \in QQMessage, submitted[m] < MaxQQSubmits, submitted' = [submitted EXCEPT ![m] = @ + 1]
        PROVE  submitted' \in [QQMessage -> 0..MaxQQSubmits]
    <3>1. submitted[m] + 1 \in 0..MaxQQSubmits
      BY <2>1, <2>3, QQAssumption
    <3> QED BY <2>1, <2>3, <3>1
  <2> QED BY <2>2, <2>3 DEF NextProcess
<1>3. QQTypeOK'
  BY <1>1, <1>2 DEF QQInv, QQTypeOK
<1>4. ChannelsOK' /\ ResultsInOrder' /\ AnswersOK'
  BY <1>1, NoChannelIs DEF QQInv, ChannelsOK, ResultsInOrder, AnswersOK
<1>5. FlushOK'
  <2>1. 0 \in 0..Len(results') /\ PendingOf(0)' = {}
    BY <1>1 DEF QQInv, QQTypeOK, PendingOf
  <2> QED BY <1>1, <2>1 DEF FlushOK
<1>6. QED
  BY <1>3, <1>4, <1>5 DEF QQInv

LEMMA QQStep ==
  ASSUME QQInv, [QQNext]_qqVars
  PROVE  QQInv'
<1>1. CASE UNCHANGED qqVars
  BY <1>1 DEF qqVars, QQInv, QQTypeOK, ChannelsOK, AnswersOK, FlushOK, PendingOf, ResultsInOrder
<1>2. CASE QQNext
  BY <1>2, ApplyingKeeps, ManagerKeeps, ConnectionKeeps, DeliveryKeeps, CommitKeeps, QQCreateKeeps, QQReplyKeeps,
     NextProcessKeeps DEF QQNext
<1>3. QED
  BY <1>1, <1>2

LEMMA QQBegins ==
  ASSUME QQInit
  PROVE  QQInv
<1>1. QQTypeOK
  <2>1. 0 \in 0..MaxQQSubmits /\ 0 \in {0} \cup ChannelId
    BY QQAssumption
  <2>2. results \in Seq(BOOLEAN) /\ Len(results) <= MaxResults
    BY QQAssumption DEF QQInit
  <2>3. /\ channel \in [ChannelId -> Channel \cup {NoChannel}] /\ flush \in [ChannelId -> SUBSET (1..MaxResults)]
        /\ replies \in [ChannelId -> SUBSET (QQMessage \X (1..MaxQQSubmits))]
        /\ answered \in [QQMessage -> SUBSET (1..MaxQQSubmits)]
        /\ requests \in [QQMessage -> 0..MaxQQSubmits] /\ submitted \in [QQMessage -> 0..MaxQQSubmits]
    BY <2>1 DEF QQInit
  <2> QED BY <2>1, <2>2, <2>3 DEF QQInit, QQTypeOK
<1>2. ChannelsOK /\ AnswersOK
  BY NoChannelIs DEF QQInit, ChannelsOK, AnswersOK
<1>5. ResultsInOrder
  <2>1. 1..Len(results) = {}
    BY DEF QQInit
  <2> QED BY <2>1 DEF ResultsInOrder
<1>3. FlushOK
  <2>1. 0 \in 0..Len(results) /\ PendingOf(0) = {}
    BY DEF QQInit, PendingOf
  <2> QED BY <2>1 DEF QQInit, FlushOK
<1>4. QED
  BY <1>1, <1>2, <1>3, <1>5 DEF QQInv

\* What the manager and the tables promise follows.
LEMMA ChannelPromises ==
  ASSUME QQInv
  PROVE  OneChannel /\ AnswersAgree /\ ResultsInOrder
<1>1. OneChannel
  <2>1. \A c \in ChannelId : channel[c].phase \in {"starting", "online"} => c = current
    BY CurrentIs
  <2>2. current # 0 /\ ~channel[current].aborted => channel[current].owner = ownerId
    BY DEF QQInv, ChannelsOK
  <2>3. manager = "closed" => \A c \in ChannelId : channel[c].phase \in {"none", "closed"}
    BY CurrentIs DEF QQInv, ChannelsOK
  <2> QED BY <2>1, <2>2, <2>3 DEF OneChannel
<1>2. ASSUME NEW m \in QQMessage PROVE Cardinality(answered[m]) <= 1
  <2>1. answered[m] \subseteq {requests[m]}
    BY DEF QQInv, AnswersOK
  <2>2. answered[m] = {} \/ answered[m] = {requests[m]}
    BY <2>1
  <2>3. Cardinality({}) = 0 /\ Cardinality({requests[m]}) = 1
    BY FS_EmptySet, FS_Singleton
  <2> QED BY <2>2, <2>3
<1>3. QED
  BY <1>1, <1>2 DEF AnswersAgree, QQInv

-----------------------------------------------------------------------------
(* The channel's promise *)

\* An answer that is under way is for a message of its channel's owner.
RepliesOK ==
  \A c \in ChannelId : \A r \in replies[c] : channel[c].phase # "none" /\ SenderOf(r[1]) = channel[c].owner

Keeps(y, x) == y.phase # "none" /\ y.owner = x.owner
OwnerStays(c) == channel[c].phase # "none" => Keeps(channel'[c], channel[c])

\* No step but the end of the process takes a channel from its owner.
LEMMA OwnersStay ==
  ASSUME QQInv, QQNext, ~NextProcess, NEW c \in ChannelId
  PROVE  OwnerStays(c)
<1>1. /\ channel \in [ChannelId -> Channel \cup {NoChannel}] /\ (current # 0 => current \in ChannelId)
      /\ (channel[c].phase # "none" => channel[c] \in Channel)
  BY CurrentIs, NoChannelIs DEF QQInv, QQTypeOK
<1>0. ASSUME NEW x \in Channel
      PROVE  /\ Keeps([x EXCEPT !.aborted = TRUE], x)
             /\ \A p \in {"starting", "online", "ended", "closed"} : Keeps([x EXCEPT !.phase = p], x)
  <2>1. x.phase # "none" /\ [x EXCEPT !.aborted = TRUE].phase = x.phase /\ [x EXCEPT !.aborted = TRUE].owner = x.owner
    BY ChannelIs
  <2>2. ASSUME NEW p \in {"starting", "online", "ended", "closed"}
        PROVE  [x EXCEPT !.phase = p].phase = p /\ [x EXCEPT !.phase = p].owner = x.owner /\ p # "none"
    BY ChannelIs
  <2> QED BY <2>1, <2>2 DEF Keeps
<1>2. ASSUME NEW d \in ChannelId, channel[d] \in Channel,
             \/ \E p \in {"starting", "online", "ended", "closed"} : channel' = [channel EXCEPT ![d].phase = p]
             \/ channel' = [channel EXCEPT ![d].aborted = TRUE]
      PROVE  OwnerStays(c)
  <2>1. CASE c # d
    <3>1. channel'[c] = channel[c]
      BY <1>1, <1>2, <2>1
    <3> QED BY <3>1 DEF OwnerStays, Keeps
  <2>2. CASE c = d
    <3>1. \/ channel'[c] = [channel[c] EXCEPT !.aborted = TRUE]
          \/ \E p \in {"starting", "online", "ended", "closed"} : channel'[c] = [channel[c] EXCEPT !.phase = p]
      BY <1>1, <1>2, <2>2
    <3>2. channel[c] \in Channel
      BY <1>2, <2>2
    <3>3. Keeps(channel'[c], channel[c])
      <4>1. CASE channel'[c] = [channel[c] EXCEPT !.aborted = TRUE]
        BY <1>0, <3>2, <4>1
      <4>2. ASSUME NEW p \in {"starting", "online", "ended", "closed"}, channel'[c] = [channel[c] EXCEPT !.phase = p]
            PROVE  Keeps(channel'[c], channel[c])
        BY <1>0, <3>2, <4>2
      <4> QED BY <3>1, <4>1, <4>2
    <3> QED BY <3>3 DEF OwnerStays
  <2> QED BY <2>1, <2>2
<1>3. ASSUME NEW channels \in [ChannelId -> Channel \cup {NoChannel}], NEW owner, QQRestart(channels, owner),
             channel[c].phase # "none" => channels[c].phase # "none" /\ channels[c].owner = channel[c].owner
      PROVE  OwnerStays(c)
  <2>1. channel'[c] = channels[c] \/ channels[c] = NoChannel
    BY <1>3 DEF QQRestart
  <2> QED BY <1>3, <2>1, NoChannelIs DEF OwnerStays, Keeps
<1>4. CASE Bind
  BY <1>1, <1>3, <1>4 DEF Bind
<1>5. CASE ConfigureSaved
  <2>1. CASE current = 0
    BY <1>1, <1>3, <1>5, <2>1 DEF ConfigureSaved
  <2>2. CASE current # 0
    BY <1>2, <1>5, <2>2, CurrentIs DEF ConfigureSaved, StopActive
  <2> QED BY <2>1, <2>2
<1>6. CASE ConfigureApplied
  <2> DEFINE x == [channel[current] EXCEPT !.phase = "closed"]
             channels == [channel EXCEPT ![current] = x]
  <2>1. current # 0
    BY <1>6 DEF ConfigureApplied, QQInv, ChannelsOK
  <2>2. x \in Channel /\ x.phase = "closed" /\ x.owner = channel[current].owner /\ current \in ChannelId
    BY <2>1, CurrentIs, ChannelIs
  <2>3. QQRestart(channels, ownerId)
    BY <1>6 DEF ConfigureApplied
  <2> HIDE DEF x
  <2>4. channels \in [ChannelId -> Channel \cup {NoChannel}] /\ (channels[c] = channel[c] \/ (c = current /\ channels[c] = x))
    BY <1>1, <2>2
  <2> HIDE DEF channels
  <2> QED BY <1>3, <2>2, <2>3, <2>4
<1>7. CASE HostEnds
  <2>1. channel'[c] = channel[c] \/ (c = current /\ channel'[c] = [channel[c] EXCEPT !.aborted = TRUE])
    BY <1>7 DEF HostEnds
  <2>2. CASE channel'[c] = channel[c]
    BY <2>2 DEF OwnerStays, Keeps
  <2>3. CASE channel[c].phase # "none" /\ channel'[c] = [channel[c] EXCEPT !.aborted = TRUE]
    <3>1. Keeps(channel'[c], channel[c])
      BY <1>0, <1>1, <2>3
    <3> QED BY <3>1 DEF OwnerStays
  <2> QED BY <2>1, <2>2, <2>3 DEF OwnerStays
<1>8. CASE Close
  <2>1. CASE current = 0
    BY <1>8, <2>1 DEF Close, OwnerStays, Keeps
  <2>2. CASE current # 0
    BY <1>2, <1>8, <2>2, CurrentIs DEF Close, StopActive
  <2> QED BY <2>1, <2>2
<1>9. CASE Closed
  <2>1. current # 0
    BY <1>9 DEF Closed, QQInv, ChannelsOK
  <2> QED BY <1>2, <1>9, <2>1, CurrentIs DEF Closed
<1>10. ASSUME NEW d \in ChannelId, Ready(d) \/ ConnectionEnds(d) PROVE OwnerStays(c)
  <2>1. channel[d] \in Channel
    BY <1>10, CurrentIs DEF Ready, ConnectionEnds
  <2> QED BY <1>2, <1>10, <2>1 DEF Ready, ConnectionEnds
<1>11. CASE UNCHANGED channel
  BY <1>11 DEF OwnerStays, Keeps
<1>12. QED
  BY <1>4, <1>5, <1>6, <1>7, <1>8, <1>9, <1>10, <1>11
     DEF QQNext, Configure, ConfigureFails, QQReply, ResultSent, SendFails, CreateTask, CommitResult

LEMMA RepliesBegin ==
  ASSUME QQInit
  PROVE  RepliesOK
BY DEF QQInit, RepliesOK

LEMMA RepliesKeep ==
  ASSUME QQInv, RepliesOK, [QQNext]_qqVars
  PROVE  RepliesOK'
<1>1. CASE UNCHANGED qqVars
  BY <1>1 DEF qqVars, RepliesOK
<1>2. CASE NextProcess
  BY <1>2 DEF NextProcess, RepliesOK
<1>3. CASE QQNext /\ ~NextProcess
  <2> SUFFICES ASSUME NEW c \in ChannelId, NEW r \in replies'[c], r \notin replies[c]
               PROVE  channel[c].phase # "none" /\ SenderOf(r[1]) = channel[c].owner
    BY <1>3, OwnersStay DEF RepliesOK, OwnerStays, Keeps
  <2>1. replies \in [ChannelId -> SUBSET (QQMessage \X (1..MaxQQSubmits))]
    BY DEF QQInv, QQTypeOK
  <2>2. PICK d \in ChannelId, m \in QQMessage, private \in BOOLEAN : CreateTask(d, m, private)
    <3>1. ASSUME NEW d \in ChannelId, QQReply(d) PROVE replies'[c] \subseteq replies[c]
      BY <2>1, <3>1 DEF QQReply
    <3> QED BY <1>3, <3>1 DEF QQNext, Bind, Configure, ConfigureFails, ConfigureSaved, ConfigureApplied, HostEnds, Close, Closed,
               Ready, ConnectionEnds, CommitResult, ResultSent, SendFails
  <2>3. c = d /\ r[1] = m
    BY <2>1, <2>2 DEF CreateTask
  <2> QED BY <2>2, <2>3 DEF CreateTask, TakesUp, Permitted
<1>4. QED
  BY <1>1, <1>2, <1>3

\* A channel that takes something up works for the owner in the settings, and the host goes on.
LEMMA TakesForOwner ==
  ASSUME QQInv, NEW c \in ChannelId, TakesUp(c)
  PROVE  channel[c].owner = ownerId /\ hostEnds = FALSE
BY CurrentIs DEF TakesUp, QQInv, QQTypeOK, ChannelsOK

\* A message is taken up, and noted unless the process ends before.
LEMMA PromiseTakes ==
  ASSUME QQInv, NEW m \in QQMessage,
         \/ \E c \in ChannelId, private \in BOOLEAN : CreateTask(c, m, private)
         \/ \E c \in ChannelId : /\ NextProcess /\ TakesUp(c) /\ Permitted(c, m, TRUE) /\ requests[m] = 0
                                 /\ submitted' = [submitted EXCEPT ![m] = @ + 1]
  PROVE  [Promise!PromiseNext]_(Promise!promiseVars)
<1>1. PICK c \in ChannelId : TakesUp(c) /\ SenderOf(m) = channel[c].owner
  BY DEF CreateTask, Permitted
<1>2. Promise!Counts(m)
  BY <1>1, TakesForOwner DEF Promise!Counts, SenderOf
<1>3. hostEnds' = hostEnds /\ UNCHANGED <<ownerId, answered, results>>
  BY <1>1, TakesForOwner DEF CreateTask, NextProcess
<1>4. UNCHANGED <<Len(results), PendingOf(Len(results))>>
  BY <1>3 DEF PendingOf
<1>5. CASE requests[m] # 0
  BY <1>3, <1>4, <1>5 DEF CreateTask, Promise!promiseVars
<1>6. CASE requests[m] = 0
  <2>1. /\ submitted' = [submitted EXCEPT ![m] = @ + 1]
        /\ requests' \in {requests, [requests EXCEPT ![m] = submitted'[m]]}
    BY <1>6 DEF CreateTask, NextProcess
  <2>2. Promise!Takes(m)
    BY <1>2, <1>3, <1>4, <1>6, <2>1 DEF Promise!Takes
  <2> QED BY <2>2 DEF Promise!PromiseNext
<1>7. QED
  BY <1>5, <1>6

LEMMA PromiseTells ==
  ASSUME QQInv, RepliesOK, NEW c \in ChannelId, QQReply(c)
  PROVE  [Promise!PromiseNext]_(Promise!promiseVars)
<1>1. /\ UNCHANGED <<ownerId, hostEnds, results, requests, submitted>>
      /\ UNCHANGED <<Len(results), PendingOf(Len(results))>>
  BY DEF QQReply, PendingOf
<1>2. PICK r \in replies[c] : answered' = IF TakesUp(c) THEN [answered EXCEPT ![r[1]] = @ \cup {r[2]}] ELSE answered
  BY DEF QQReply
<1>3. CASE ~TakesUp(c)
  BY <1>1, <1>2, <1>3 DEF Promise!promiseVars
<1>4. CASE TakesUp(c)
  <2>1. r[1] \in QQMessage /\ r[2] = requests[r[1]] /\ r[2] # 0
    <3>1. r \in QQMessage \X (1..MaxQQSubmits)
      BY DEF QQInv, QQTypeOK
    <3> QED BY <3>1, QQAssumption DEF QQInv, AnswersOK
  <2>2. Promise!Counts(r[1])
    BY <1>4, TakesForOwner DEF Promise!Counts, SenderOf, RepliesOK
  <2>3. Promise!Tells(r[1])
    BY <1>1, <1>2, <1>4, <2>1, <2>2 DEF Promise!Tells
  <2> QED BY <2>1, <2>3 DEF Promise!PromiseNext
<1>5. QED
  BY <1>3, <1>4

LEMMA PromiseCommits ==
  ASSUME QQInv, CommitResult
  PROVE  Promise!PromiseNext
<1>1. results \in Seq(BOOLEAN) /\ results' = Append(results, FALSE)
  BY DEF QQInv, QQTypeOK, CommitResult
<1>2. /\ Len(results') = Len(results) + 1 /\ Len(results) \in Nat /\ results'[Len(results) + 1] = FALSE
      /\ \A k \in 1..Len(results) : results'[k] = results[k]
  BY <1>1
<1>3. PendingOf(Len(results))' = PendingOf(Len(results)) \cup {Len(results) + 1}
  BY <1>2 DEF PendingOf
<1>4. Promise!Commits
  BY <1>2, <1>3 DEF CommitResult, Promise!Commits
<1>5. QED
  BY <1>4 DEF Promise!PromiseNext

\* What a flush has sent is the oldest result that is not delivered.
LEMMA PromiseDelivers ==
  ASSUME QQInv, NEW c \in ChannelId, ResultSent(c)
  PROVE  [Promise!PromiseNext]_(Promise!promiseVars)
<1>1. /\ results \in Seq(BOOLEAN) /\ Len(results) \in Nat /\ FlushOK /\ ResultsInOrder
      /\ flush[c] # {} /\ UNCHANGED <<ownerId, hostEnds, requests, submitted, answered>>
  BY DEF QQInv, QQTypeOK, ResultSent
<1>2. CASE channel[c].phase = "closed"
  <2>1. UNCHANGED results /\ UNCHANGED <<Len(results), PendingOf(Len(results))>>
    BY <1>2 DEF ResultSent, PendingOf
  <2> QED BY <1>1, <2>1 DEF Promise!promiseVars
<1>3. CASE channel[c].phase # "closed"
  <2> DEFINE i == SendingOf(c)
             all == PendingOf(Len(results))
  <2>1. results' = [results EXCEPT ![i] = TRUE]
    BY <1>3 DEF ResultSent
  <2>2. PICK n \in 0..Len(results) : flush[c] = PendingOf(n)
    BY <1>1, <1>3 DEF FlushOK
  <2>3. i \in PendingOf(n) /\ \A j \in PendingOf(n) : i <= j
    BY <1>1, <2>2, SendingIs
  <2> HIDE DEF i
  <2>4. i \in 1..n /\ i \in 1..Len(results) /\ ~results[i]
    BY <1>1, <2>3 DEF PendingOf
  <2>5. i \in all /\ \A j \in all : i <= j
    BY <1>1, <2>3, <2>4 DEF PendingOf
  <2>6. /\ Len(results') = Len(results) /\ results'[i] = TRUE
        /\ \A k \in 1..Len(results) : k # i => results'[k] = results[k]
    BY <1>1, <2>1, <2>4
  <2>7. all' = all \ {i}
    BY <2>4, <2>6 DEF PendingOf
  <2> HIDE DEF all
  <2>8. \E k \in all : (\A j \in all : k <= j) /\ all' = all \ {k}
    BY <2>5, <2>7
  <2>9. Promise!Delivers
    BY <1>1, <2>6, <2>8 DEF Promise!Delivers, all
  <2> QED BY <2>9 DEF Promise!PromiseNext
<1>4. QED
  BY <1>2, <1>3

\* The manager's steps change the owner or end the host, if anything that is promised.
LEMMA PromiseSettings ==
  ASSUME QQInv, UNCHANGED tableVars, ownerId' \in QQUser \cup {NoQQOwner}, hostEnds' \in BOOLEAN,
         ownerId' = ownerId \/ hostEnds' = hostEnds
  PROVE  [Promise!PromiseNext]_(Promise!promiseVars)
<1>1. UNCHANGED <<results, requests, submitted, answered>> /\ UNCHANGED <<Len(results), PendingOf(Len(results))>>
  BY DEF tableVars, PendingOf
<1>2. hostEnds \in BOOLEAN
  BY DEF QQInv, QQTypeOK
<1>3. CASE ownerId' = ownerId /\ hostEnds' = hostEnds
  BY <1>1, <1>3 DEF Promise!promiseVars
<1>4. CASE hostEnds' = hostEnds
  <2>1. Promise!Serves(ownerId')
    BY <1>1, <1>4 DEF Promise!Serves
  <2> QED BY <2>1 DEF Promise!PromiseNext
<1>5. CASE ownerId' = ownerId /\ hostEnds' # hostEnds
  <2>1. hostEnds' = ~hostEnds
    BY <1>2, <1>5
  <2>2. Promise!Ends
    BY <1>1, <1>5, <2>1 DEF Promise!Ends
  <2> QED BY <2>2 DEF Promise!PromiseNext
<1>6. QED
  BY <1>3, <1>4, <1>5

LEMMA PromiseBegins ==
  ASSUME QQInit
  PROVE  Promise!PromiseInit
<1>1. Len(results) = 0 /\ PendingOf(Len(results)) = {}
  BY DEF QQInit, PendingOf
<1>2. QED
  BY <1>1 DEF QQInit, Promise!PromiseInit

\* Every step of the channel is one of its promise, or none.
LEMMA PromiseStep ==
  ASSUME QQInv, RepliesOK, [QQNext]_qqVars
  PROVE  [Promise!PromiseNext]_(Promise!promiseVars)
<1>1. /\ ownerId \in QQUser \cup {NoQQOwner} /\ saving \in QQUser \cup {NoQQOwner} /\ hostEnds \in BOOLEAN
  BY DEF QQInv, QQTypeOK
<1>2. CASE UNCHANGED qqVars
  BY <1>1, <1>2, PromiseSettings DEF qqVars, tableVars
<1>3. CASE \/ Bind \/ ConfigureFails \/ ConfigureSaved \/ ConfigureApplied \/ HostEnds \/ Close \/ Closed
           \/ \E o \in QQUser \cup {NoQQOwner} : Configure(o)
           \/ \E c \in ChannelId : Ready(c) \/ ConnectionEnds(c) \/ SendFails(c)
  BY <1>1, <1>3, PromiseSettings
     DEF Bind, ConfigureFails, ConfigureSaved, ConfigureApplied, HostEnds, Close, Closed, Configure, Ready, ConnectionEnds, SendFails
<1>4. CASE NextProcess
  <2>1. CASE UNCHANGED submitted
    BY <1>1, <1>4, <2>1, PromiseSettings DEF NextProcess, tableVars
  <2>2. CASE ~UNCHANGED submitted
    BY <1>4, <2>2, PromiseTakes DEF NextProcess
  <2> QED BY <2>1, <2>2
<1>5. CASE \E c \in ChannelId, m \in QQMessage, private \in BOOLEAN : CreateTask(c, m, private)
  BY <1>5, PromiseTakes
<1>6. CASE CommitResult
  BY <1>6, PromiseCommits
<1>7. CASE \E c \in ChannelId : QQReply(c) \/ ResultSent(c)
  BY <1>7, PromiseTells, PromiseDelivers
<1>8. QED
  BY <1>2, <1>3, <1>4, <1>5, <1>6, <1>7 DEF QQNext

-----------------------------------------------------------------------------
(* The theorems *)

LEMMA SettingsBegins ==
  ASSUME SettingsInit
  PROVE  SettingsInv
<1>1. DefaultSettings \in SettingsFile
  BY DEF DefaultSettings, SettingsFile, Section, SectionValue, ProviderProfile,
         PermissionProfile
<1>2. SettingsTypeOK
  BY <1>1 DEF SettingsInit, SettingsTypeOK, PermissionProfile
<1>3. ChangesOK
  BY DEF SettingsInit, ChangesOK, ChangeOK, At, NoChange
<1>4. \A s \in Section : Granted(s, DefaultSettings[s])
  BY DEF Section, DefaultSettings, Granted
<1>5. ProfilePolicy["full-auto"] \notin {codexPolicy} \cup {codexRuns[r] : r \in CodexRun}
  BY DEF SettingsInit, ProfilePolicy, PermissionProfile, NotActive
<1> QED BY <1>2, <1>3, <1>4, <1>5
        DEF SettingsInv, SettingsInit, GrantsPrecedeSettings, At, NoChange

LEMMA SettingsStep ==
  ASSUME SettingsInv, [SettingsNext]_settingsVars
  PROVE  SettingsInv'
<1>1. CASE UNCHANGED settingsVars
  <2>1. SettingsTypeOK'
    BY <1>1 DEF settingsVars, SettingsInv, SettingsTypeOK
  <2>2. ChangesOK'
    BY <1>1, OthersChange DEF settingsVars, SettingsInv, ChangesOK
  <2>3. GrantsPrecedeSettings'
    BY <1>1, <2>2, InForceStays
       DEF settingsVars, SettingsInv, GrantsPrecedeSettings, ChangesOK, ChangeOK
  <2> QED BY <2>1, <2>2, <2>3 DEF SettingsInv
<1>2. QED
  BY <1>1, RouteKeeps, PermissionKeeps, SecretKeeps, SectionSaveKeeps, CodexKeeps
     DEF SettingsNext

\* The invariant holds of every reachable state.
LEMMA SettingsInvariant == SettingsSpec => []SettingsInv
BY SettingsBegins, SettingsStep, PTL DEF SettingsSpec

\* Every variable of the settings managers has its type.
THEOREM SettingsTypes == SettingsSpec => []SettingsTypeOK
<1>1. SettingsInv => SettingsTypeOK
  BY DEF SettingsInv
<1>2. QED
  BY <1>1, SettingsInvariant, PTL

\* Nothing is in force, in a manager, in the file, in a save under way, in Codex or
\* in one of its runs, that was not granted (coding-permission-manager.ts:186).
THEOREM GrantsComeFirst == SettingsSpec => []GrantsPrecedeSettings
<1>1. SettingsInv => GrantsPrecedeSettings
  BY DEF SettingsInv
<1>2. QED
  BY <1>1, SettingsInvariant, PTL

\* The channel's invariant holds of every reachable state.
LEMMA QQInvariant == QQSpec => []QQInv
BY QQBegins, QQStep, PTL DEF QQSpec

\* Every variable of the channel's manager and of the plugin has its type.
THEOREM ChannelTypes == QQSpec => []QQTypeOK
<1>1. QQInv => QQTypeOK
  BY DEF QQInv
<1>2. QED
  BY <1>1, QQInvariant, PTL

\* The channel implements its promise: whatever connects, is replaced or dies, its owner alone gives it tasks and hears of
\* them, a message has one task that is noted, and results leave oldest first (task-control.ts:140, qq-delivery.ts:53).
THEOREM ChannelImplementsPromise == QQSpec => ChannelKeepsPromise
<1>1. QQInv /\ RepliesOK /\ [QQNext]_qqVars => RepliesOK' /\ [Promise!PromiseNext]_(Promise!promiseVars)
  BY RepliesKeep, PromiseStep
<1>2. QQInit => RepliesOK /\ Promise!PromiseInit
  BY RepliesBegin, PromiseBegins
<1>3. QED
  BY <1>1, <1>2, QQInvariant, PTL DEF QQSpec, ChannelKeepsPromise, Promise!PromiseSpec
=============================================================================
