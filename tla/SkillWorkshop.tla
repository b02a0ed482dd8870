--------------------------- MODULE SkillWorkshop ---------------------------
(***************************************************************************)
(* Proposals for one skill: proposed, scanned, evaluated in a process of   *)
(* its own, approved by the owner, applied to the skill's file and rolled  *)
(* back. File and database are two stores: the file is renamed first and   *)
(* the transaction follows, in one synchronous step that a crash can split.*)
(***************************************************************************)
EXTENDS Naturals, FiniteSets

CONSTANTS Proposal,       \* ids of proposals
          Content,        \* what proposals say
          Critical,       \* the part of Content that the scan finds critical
          Missing,        \* the file, its row or a backup is not there
          Edited,         \* the file as somebody else left it
          MaxEvaluations  \* bound: evaluations of one proposal under way

ASSUME SkillContents == Critical \subseteq Content /\ Missing \notin Content /\ Edited \notin Content /\ Edited # Missing
ASSUME EvaluationBound == MaxEvaluations \in Nat

VARIABLES proposals,   \* table skill_proposals
          skillFile,   \* the file of the skill
          ownedSkill,  \* its row in workshop_owned_skills: the content hashed there
          evaluating   \* evaluations under way, by proposal

skillVars == <<proposals, skillFile, ownedSkill, evaluating>>

NoProposal == [status |-> "none"]
SkillProposal == [content: Content,
                  status: {"pending", "evaluated", "approved", "rejected", "applied", "rolled_back"},
                  passed: BOOLEAN, isApproved: BOOLEAN,
                  backup: Content \cup {Missing}]

SkillTypeOK ==
    /\ proposals \in [Proposal -> SkillProposal \cup {NoProposal}]
    /\ skillFile \in Content \cup {Missing, Edited}
    /\ ownedSkill \in Content \cup {Missing}
    /\ evaluating \in [Proposal -> 0..MaxEvaluations]

ScanSkill(content) == content \in Critical
Status(p) == proposals[p].status

Propose(p, content) ==
    /\ proposals[p] = NoProposal
    /\ proposals' = [proposals EXCEPT ![p] = [content |-> content, status |-> "pending", passed |-> FALSE,
                                              isApproved |-> FALSE, backup |-> Missing]]
    /\ UNCHANGED <<skillFile, ownedSkill, evaluating>>

\* A critical finding rejects at once; anything else is given to the evaluator, and awaited.
Evaluate(p) ==
    /\ Status(p) = "pending"
    /\ IF ScanSkill(proposals[p].content)
       THEN proposals' = [proposals EXCEPT ![p].status = "rejected"] /\ UNCHANGED evaluating
       ELSE /\ evaluating[p] < MaxEvaluations
            /\ evaluating' = [evaluating EXCEPT ![p] = @ + 1]
            /\ UNCHANGED proposals
    /\ UNCHANGED <<skillFile, ownedSkill>>

\* Mutant: the answer of an evaluation that was overtaken by another one counts.
Evaluated_Late(p, passed) ==
    /\ evaluating[p] > 0
    /\ evaluating' = [evaluating EXCEPT ![p] = @ - 1]
    /\ proposals' = [proposals EXCEPT ![p].status = IF passed THEN "evaluated" ELSE "rejected", ![p].passed = passed]
    /\ UNCHANGED <<skillFile, ownedSkill>>

\* The evaluator answers: the row takes the result only if it is still pending.
Evaluated(p, passed) ==
    /\ evaluating[p] > 0
    /\ evaluating' = [evaluating EXCEPT ![p] = @ - 1]
    /\ proposals' = IF Status(p) = "pending"
                    THEN [proposals EXCEPT ![p].status = IF passed THEN "evaluated" ELSE "rejected",
                                           ![p].passed = passed]
                    ELSE proposals
    /\ UNCHANGED <<skillFile, ownedSkill>>

\* Its process fails, writes too much, takes longer than five seconds or is aborted with the request.
EvaluatorFails(p) ==
    /\ evaluating[p] > 0
    /\ evaluating' = [evaluating EXCEPT ![p] = @ - 1]
    /\ UNCHANGED <<proposals, skillFile, ownedSkill>>

\* The owner approves the content whose hash he was shown.
Approve(p) ==
    /\ Status(p) = "evaluated" /\ proposals[p].passed
    /\ proposals' = [proposals EXCEPT ![p].status = "approved", ![p].isApproved = TRUE]
    /\ UNCHANGED <<skillFile, ownedSkill, evaluating>>

\* Mutant: a file that the workshop never wrote may be replaced.
IsOwned_OrNew == skillFile = ownedSkill \/ ownedSkill = Missing

\* The file is the workshop's: it is as its row says, or there is neither.
IsOwned == skillFile = ownedSkill

MayApply(p) == Status(p) = "approved" /\ ~ScanSkill(proposals[p].content) /\ IsOwned

\* A transaction that fails puts the file back as it was: nothing happens.
Apply(p) ==
    /\ MayApply(p)
    /\ skillFile' = proposals[p].content
    /\ proposals' = [proposals EXCEPT ![p].status = "applied", ![p].backup = skillFile]
    /\ ownedSkill' = proposals[p].content
    /\ UNCHANGED evaluating

\* The file is as this proposal left it, whichever proposal was applied last.
MayRollback(p) == Status(p) = "applied" /\ skillFile = proposals[p].content

\* The row of the skill takes the backup's hash if there is one still, or goes with the file.
Rollback(p) ==
    /\ MayRollback(p)
    /\ skillFile' = proposals[p].backup
    /\ proposals' = [proposals EXCEPT ![p].status = "rolled_back"]
    /\ ownedSkill' = IF ownedSkill = Missing THEN Missing ELSE proposals[p].backup
    /\ UNCHANGED evaluating

\* The process dies: between two requests, or after the rename and before the transaction of apply or rollback.
SkillCrash ==
    /\ evaluating' = [p \in Proposal |-> 0]
    /\ \/ UNCHANGED skillFile
       \/ \E p \in Proposal : MayApply(p) /\ skillFile' = proposals[p].content
       \/ \E p \in Proposal : MayRollback(p) /\ skillFile' = proposals[p].backup
    /\ UNCHANGED <<proposals, ownedSkill>>

\* Somebody else writes the file.
EditOutside ==
    /\ skillFile' = Edited
    /\ UNCHANGED <<proposals, ownedSkill, evaluating>>

SkillInit ==
    /\ proposals = [p \in Proposal |-> NoProposal]
    /\ skillFile = Missing /\ ownedSkill = Missing
    /\ evaluating = [p \in Proposal |-> 0]

\* The requests of the route.
SkillRoute(p) ==
    \/ \E content \in Content : Propose(p, content)
    \/ Evaluate(p) \/ Approve(p) \/ Apply(p) \/ Rollback(p)

SkillNext ==
    \/ \E p \in Proposal : SkillRoute(p) \/ EvaluatorFails(p) \/ \E passed \in BOOLEAN : Evaluated(p, passed)
    \/ SkillCrash \/ EditOutside

SkillSpec == SkillInit /\ [][SkillNext]_skillVars

-----------------------------------------------------------------------------
(***************************************************************************)
(* What is active as the skill was scanned, passed its evaluation and was  *)
(* approved by the owner, whether it came by apply, by a rollback to a     *)
(* backup or by a crash between file and database (workshop.ts:206, 259).  *)
(***************************************************************************)
ActiveWasApproved ==
    \A content \in {skillFile, ownedSkill} \ {Missing, Edited} :
      /\ content \notin Critical
      /\ \E p \in Proposal : /\ Status(p) \in {"approved", "applied", "rolled_back"}
                             /\ proposals[p].content = content /\ proposals[p].passed /\ proposals[p].isApproved

(***************************************************************************)
(* What somebody else wrote is never overwritten and never removed         *)
(* (workshop.ts:224, 264).                                                 *)
(***************************************************************************)
EditsAreKept == [][skillFile = Edited => skillFile' = Edited]_skillVars
=============================================================================
