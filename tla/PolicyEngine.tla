---------------------------- MODULE PolicyEngine ----------------------------
(***************************************************************************)
(* The decision of packages/policy-engine as operators: what an actor may  *)
(* do, and which actions wait for an approval that is bound to their task, *)
(* their kind and their target. HostSettings asks it before full access.   *)
(***************************************************************************)
EXTENDS Naturals, FiniteSets

\* Actions whose approval names a target of their own, actions of a tool, and actions that need approval.
TargetedAction == {"access_network", "delete_persistent", "send_message", "activate_full_access"}
ToolAction == {"read_repository", "write_worktree", "run_configured_command", "install_dependencies",
               "access_network", "read_outside_roots", "modify_source_checkout", "git_commit", "git_push",
               "create_pr", "deploy", "delete_persistent", "activate_full_access"}
ApprovedAction == {"install_dependencies", "git_push", "create_pr", "deploy", "delete_persistent",
                   "send_message", "activate_full_access"}
PolicyAction == ToolAction \cup {"send_message"}

\* A decision asked for: the worktree of the repository stands for the target of untargeted actions.
PolicyInput(Name) ==
    [taskId: Name, actor: Name, trust: {"owner", "trusted", "untrusted"}, context: {"direct", "group"},
     isAuthenticated: BOOLEAN, isRegistered: BOOLEAN, isAllowed: BOOLEAN, canCommit: BOOLEAN,
     networkAllowlist: SUBSET Name, action: PolicyAction, target: Name, worktree: Name]
ApprovalRecord(Name) ==
    [taskId: Name, action: PolicyAction, target: Name, decision: {"approved", "denied"}, expiresAt: Nat]

ActionTarget(i) == IF i.action \in TargetedAction THEN i.target ELSE i.worktree

\* Refused whatever was approved.
PolicyDenies(i) ==
    \/ ~i.isAuthenticated
    \/ /\ i.action \in ToolAction
       /\ \/ i.context = "group" \/ i.trust = "untrusted"
          \/ ~i.isRegistered \/ ~i.isAllowed
    \/ i.action \in {"read_outside_roots", "modify_source_checkout"}
    \/ i.action = "access_network" /\ i.target \notin i.networkAllowlist
    \/ i.action = "git_commit" /\ ~i.canCommit

\* The approval of exactly this task, action and target.
MatchesApproval(i, a, time) ==
    /\ a.taskId = i.taskId /\ a.action = i.action
    /\ a.target = ActionTarget(i) /\ a.expiresAt > time

\* Every approval the caller presents: at most one.
EvaluatePolicy(i, presented, time) ==
    LET bound == {a \in presented : MatchesApproval(i, a, time)}
    IN  IF PolicyDenies(i) THEN "deny"
        ELSE IF \/ i.action \notin ApprovedAction
                \/ i.action = "send_message" /\ i.target = i.actor
             THEN "allow"
        ELSE IF bound = {} THEN "approval_required"
        ELSE IF \E a \in bound : a.decision = "approved" THEN "allow" ELSE "deny"

\* The unexpired row of the binding that expires last, as a set of at most one.
FindValid(rows, taskId, action, target, time) ==
    LET valid == {a \in rows : a.taskId = taskId /\ a.action = action /\ a.target = target /\ a.expiresAt > time}
    IN  IF valid = {} THEN {}
        ELSE {CHOOSE a \in valid : \A b \in valid : b.expiresAt <= a.expiresAt}
=============================================================================
