--------------------------- MODULE ExtensionProofs ---------------------------
(***************************************************************************)
(* What the host is extended by, skills and plugins.                       *)
(*                                                                         *)
(* For any set of proposals, contents and evaluations under way: the types *)
(* of SkillWorkshop, that what is active passed its evaluation and was     *)
(* approved, and that a foreign edit of the file is kept. A rollback and a *)
(* crash bring back what a proposal remembers as its backup: so the        *)
(* backups, too, must be contents that were approved, and a proposal that  *)
(* was approved must keep its content and its approval.                    *)
(*                                                                         *)
(* For any number of providers and of queued operations: the types of      *)
(* PluginRegistry, and that the record of a plugin tells which of its      *)
(* providers run. Between the first provider and the last the record tells *)
(* neither what runs nor what will: the invariant has to say, for the      *)
(* operation at the head of the queue, how far it has come, and that the   *)
(* record still is the one it began with.                                  *)
(***************************************************************************)
EXTENDS SkillWorkshop, PluginRegistry, CodingRuntimes, TLAPS, SequenceTheorems

-----------------------------------------------------------------------------
(* The skill workshop *)

\* The owner has approved what passed its evaluation.
Accepted(q) == q.status \in {"approved", "applied", "rolled_back"} /\ q.passed /\ q.isApproved

\* The scan finds nothing critical in it, and a proposal of it was accepted.
Fine(content) ==
  /\ content \notin Critical
  /\ \E p \in Proposal : Accepted(proposals[p]) /\ proposals[p].content = content

\* A proposal is accepted as soon as its status says so; what it would put back is fine.
ProposalOK(q) ==
  /\ q.status \in {"approved", "applied", "rolled_back"} => Accepted(q)
  /\ q \in SkillProposal /\ q.backup # Missing => Fine(q.backup)

SkillInv ==
  /\ SkillTypeOK
  /\ \A p \in Proposal : ProposalOK(proposals[p])
  /\ \A content \in {skillFile, ownedSkill} \ {Missing, Edited} : Fine(content)

-----------------------------------------------------------------------------
\* A proposal with a status is a whole one.
LEMMA HasStatus ==
  ASSUME SkillTypeOK, NEW p \in Proposal, Status(p) # "none"
  PROVE  /\ proposals[p] \in SkillProposal
         /\ proposals[p].content \in Content /\ proposals[p].backup \in Content \cup {Missing}
         /\ proposals[p].passed \in BOOLEAN /\ proposals[p].isApproved \in BOOLEAN
<1>1. proposals[p] \in SkillProposal
  BY DEF SkillTypeOK, Status, NoProposal
<1>2. QED
  BY <1>1 DEF SkillProposal

\* What is written of a proposal replaces its record and leaves the others.
LEMMA ProposalBecomes ==
  ASSUME SkillTypeOK, NEW p \in Proposal, NEW r \in SkillProposal,
         proposals' = [proposals EXCEPT ![p] = r]
  PROVE  /\ proposals' \in [Proposal -> SkillProposal \cup {NoProposal}]
         /\ proposals'[p] = r
         /\ \A q \in Proposal \ {p} : proposals'[q] = proposals[q]
BY DEF SkillTypeOK

\* What is fine stays so while no accepted proposal is changed.
LEMMA FineStays ==
  ASSUME NEW p \in Proposal, \A q \in Proposal \ {p} : proposals'[q] = proposals[q],
         Accepted(proposals[p]) => Accepted(proposals'[p]) /\ proposals'[p].content = proposals[p].content,
         NEW content, Fine(content)
  PROVE  Fine(content)'
<1>1. PICK q \in Proposal : Accepted(proposals[q]) /\ proposals[q].content = content
  BY DEF Fine
<1>2. Accepted(proposals'[q]) /\ proposals'[q].content = content
  BY <1>1
<1>3. QED
  BY <1>2 DEF Fine, Accepted

\* A step that only writes one proposal, and leaves an accepted one accepted, keeps the invariant.
LEMMA ProposalMoves ==
  ASSUME SkillInv, NEW p \in Proposal, NEW r \in SkillProposal,
         proposals' = [proposals EXCEPT ![p] = r],
         Accepted(proposals[p]) => Accepted(r) /\ r.content = proposals[p].content,
         r.status \in {"approved", "applied", "rolled_back"} => Accepted(r),
         r.backup # Missing => Fine(r.backup)',
         evaluating' \in [Proposal -> 0..MaxEvaluations],
         skillFile' \in Content \cup {Missing, Edited}, ownedSkill' \in Content \cup {Missing},
         \A content \in {skillFile', ownedSkill'} \ {Missing, Edited} :
            content \in {skillFile, ownedSkill} \/ Fine(content)'
  PROVE  SkillInv'
<1>1. SkillTypeOK
  BY DEF SkillInv
<1>2. /\ proposals' \in [Proposal -> SkillProposal \cup {NoProposal}] /\ proposals'[p] = r
      /\ \A q \in Proposal \ {p} : proposals'[q] = proposals[q]
  BY <1>1, ProposalBecomes
<1>3. \A content : Fine(content) => Fine(content)'
  BY <1>2, FineStays
<1>4. SkillTypeOK'
  BY <1>2 DEF SkillTypeOK
<1>5. ASSUME NEW q \in Proposal PROVE ProposalOK(proposals[q])'
  <2>1. CASE q = p
    BY <1>2, <2>1 DEF ProposalOK, Accepted
  <2>2. CASE q # p
    <3>1. PICK old : old = proposals[q] /\ ProposalOK(old)
      BY DEF SkillInv
    <3>2. ProposalOK(old)'
      BY <1>3, <3>1 DEF ProposalOK, Accepted
    <3> QED BY <1>2, <2>2, <3>1, <3>2 DEF ProposalOK, Accepted
  <2> QED BY <2>1, <2>2
<1>6. \A content \in {skillFile', ownedSkill'} \ {Missing, Edited} : Fine(content)'
  BY <1>3 DEF SkillInv
<1>7. QED
  BY <1>4, <1>5, <1>6 DEF SkillInv

\* A step that leaves every proposal, and puts in the file only what is fine.
LEMMA FileMoves ==
  ASSUME SkillInv, UNCHANGED proposals,
         evaluating' \in [Proposal -> 0..MaxEvaluations],
         skillFile' \in Content \cup {Missing, Edited}, UNCHANGED ownedSkill,
         skillFile' \in {skillFile, Missing, Edited} \/ Fine(skillFile')
  PROVE  SkillInv'
<1>1. \A content : Fine(content) => Fine(content)'
  BY DEF Fine, Accepted
<1>2. SkillTypeOK'
  BY DEF SkillInv, SkillTypeOK
<1>3. \A p \in Proposal : ProposalOK(proposals[p])'
  BY <1>1 DEF SkillInv, ProposalOK, Accepted
<1>4. \A content \in {skillFile', ownedSkill'} \ {Missing, Edited} : Fine(content)'
  BY <1>1 DEF SkillInv
<1>5. QED
  BY <1>2, <1>3, <1>4 DEF SkillInv

\* A proposal is made, and is not accepted yet.
LEMMA ProposeKeeps ==
  ASSUME SkillInv, NEW p \in Proposal, NEW content \in Content, Propose(p, content)
  PROVE  SkillInv'
<1> DEFINE r == [content |-> content, status |-> "pending", passed |-> FALSE,
                 isApproved |-> FALSE, backup |-> Missing]
<1>1. /\ proposals[p] = NoProposal /\ proposals' = [proposals EXCEPT ![p] = r]
      /\ UNCHANGED <<skillFile, ownedSkill, evaluating>>
  BY DEF Propose
<1>2. r \in SkillProposal
  BY DEF SkillProposal
<1>3. ~Accepted(proposals[p]) /\ r.status = "pending" /\ r.backup = Missing
  BY <1>1 DEF Accepted, NoProposal
<1> HIDE DEF r
<1>4. QED
  BY <1>1, <1>2, <1>3, ProposalMoves DEF SkillInv, SkillTypeOK

\* It is rejected by the scan or by the evaluator, or evaluated: none of this accepts it.
LEMMA EvaluationKeeps ==
  ASSUME SkillInv, NEW p \in Proposal,
         Evaluate(p) \/ EvaluatorFails(p) \/ \E passed \in BOOLEAN : Evaluated(p, passed)
  PROVE  SkillInv'
<1>1. SkillTypeOK /\ UNCHANGED <<skillFile, ownedSkill>>
  BY DEF SkillInv, Evaluate, EvaluatorFails, Evaluated
<1>2. evaluating' \in [Proposal -> 0..MaxEvaluations]
  <2>1. evaluating \in [Proposal -> 0..MaxEvaluations] /\ MaxEvaluations \in Nat
    BY <1>1, EvaluationBound DEF SkillTypeOK
  <2>2. \/ evaluating' = evaluating
        \/ evaluating[p] < MaxEvaluations /\ evaluating' = [evaluating EXCEPT ![p] = @ + 1]
        \/ evaluating[p] > 0 /\ evaluating' = [evaluating EXCEPT ![p] = @ - 1]
    BY DEF Evaluate, EvaluatorFails, Evaluated
  <2> QED BY <2>1, <2>2
<1>3. CASE UNCHANGED proposals
  BY <1>1, <1>2, <1>3, FileMoves DEF SkillTypeOK
<1>4. CASE /\ Status(p) = "pending"
           /\ \E status \in {"evaluated", "rejected"}, passed \in BOOLEAN :
                \/ proposals' = [proposals EXCEPT ![p].status = status]
                \/ proposals' = [proposals EXCEPT ![p].status = status, ![p].passed = passed]
  <2>1. PICK status \in {"evaluated", "rejected"}, passed \in BOOLEAN :
          \/ proposals' = [proposals EXCEPT ![p].status = status]
          \/ proposals' = [proposals EXCEPT ![p].status = status, ![p].passed = passed]
    BY <1>4
  <2>2. /\ proposals[p] \in SkillProposal /\ proposals[p].status = "pending"
        /\ ProposalOK(proposals[p])
    BY <1>1, <1>4, HasStatus DEF Status, SkillInv
  <2>3. PICK was \in BOOLEAN :
          proposals'[p] = [content |-> proposals[p].content, status |-> status, passed |-> was,
                           isApproved |-> proposals[p].isApproved, backup |-> proposals[p].backup]
    <3>1. CASE proposals' = [proposals EXCEPT ![p].status = status]
      <4>1. proposals'[p] = [content |-> proposals[p].content, status |-> status,
                             passed |-> proposals[p].passed,
                             isApproved |-> proposals[p].isApproved, backup |-> proposals[p].backup]
        BY <1>1, <2>2, <3>1, ZenonT(30) DEF SkillTypeOK, SkillProposal
      <4> QED BY <2>2, <4>1 DEF SkillProposal
    <3>2. CASE proposals' = [proposals EXCEPT ![p].status = status, ![p].passed = passed]
      <4>1. proposals'[p] = [content |-> proposals[p].content, status |-> status,
                             passed |-> passed,
                             isApproved |-> proposals[p].isApproved, backup |-> proposals[p].backup]
        BY <1>1, <2>2, <3>2, ZenonT(30) DEF SkillTypeOK, SkillProposal
      <4> QED BY <4>1
    <3> QED BY <2>1, <3>1, <3>2
  <2>4. proposals' = [proposals EXCEPT ![p] = proposals'[p]]
    BY <1>1, <2>1 DEF SkillTypeOK
  <2>5. PICK r \in SkillProposal :
          /\ r = proposals'[p] /\ r.status \in {"evaluated", "rejected"}
          /\ r.backup # Missing => Fine(r.backup)
    BY <2>2, <2>3 DEF SkillProposal, ProposalOK
  <2>6. proposals' = [proposals EXCEPT ![p] = r]
    BY <2>4, <2>5
  <2>7. ~Accepted(proposals[p]) /\ r.status \notin {"approved", "applied", "rolled_back"}
    BY <2>2, <2>5 DEF Accepted
  <2>8. Fine(r.backup) => Fine(r.backup)'
    BY <1>1, <2>6, <2>7, ProposalBecomes, FineStays
  <2> QED BY <1>1, <1>2, <2>5, <2>6, <2>7, <2>8, ProposalMoves DEF SkillTypeOK
<1>5. QED
  BY <1>3, <1>4 DEF Evaluate, EvaluatorFails, Evaluated

\* The owner approves what was evaluated and passed.
LEMMA ApproveKeeps ==
  ASSUME SkillInv, NEW p \in Proposal, Approve(p)
  PROVE  SkillInv'
<1>1. /\ SkillTypeOK /\ UNCHANGED <<skillFile, ownedSkill, evaluating>>
      /\ Status(p) = "evaluated" /\ proposals[p].passed
      /\ proposals' = [proposals EXCEPT ![p].status = "approved", ![p].isApproved = TRUE]
  BY DEF SkillInv, Approve
<1>2. proposals[p] \in SkillProposal /\ ProposalOK(proposals[p])
  BY <1>1, HasStatus DEF SkillInv
<1>3. /\ proposals[p].content \in Content /\ proposals[p].backup \in Content \cup {Missing}
      /\ proposals[p].passed = TRUE
  <2>1. proposals[p].passed \in BOOLEAN
    BY <1>1, HasStatus
  <2> QED BY <1>1, <2>1, HasStatus
<1>4. proposals'[p] = [content |-> proposals[p].content, status |-> "approved",
                       passed |-> TRUE, isApproved |-> TRUE, backup |-> proposals[p].backup]
  BY <1>1, <1>2, <1>3, ZenonT(30) DEF SkillTypeOK, SkillProposal
<1>5. PICK r \in SkillProposal :
        r = [content |-> proposals[p].content, status |-> "approved",
             passed |-> TRUE, isApproved |-> TRUE, backup |-> proposals[p].backup]
  BY <1>3 DEF SkillProposal
<1>6. proposals' = [proposals EXCEPT ![p] = r]
  <2>1. proposals' = [proposals EXCEPT ![p] = proposals'[p]]
    BY <1>1 DEF SkillTypeOK
  <2> QED BY <1>4, <1>5, <2>1
<1>7. Accepted(r)
  BY <1>5 DEF Accepted
<1>8. ~Accepted(proposals[p])
  BY <1>1 DEF Accepted, Status
<1>9. r.backup # Missing => Fine(r.backup)'
  <2>1. r.backup # Missing => Fine(r.backup)
    BY <1>2, <1>5 DEF ProposalOK
  <2>2. Fine(r.backup) => Fine(r.backup)'
    BY <1>1, <1>6, <1>8, ProposalBecomes, FineStays
  <2> QED BY <2>1, <2>2
<1>10. QED
  BY <1>1, <1>6, <1>7, <1>8, <1>9, ProposalMoves DEF SkillTypeOK

\* What apply and rollback write is fine, and they never write over a foreign edit.
LEMMA WritesAreFine ==
  ASSUME SkillInv, NEW p \in Proposal
  PROVE  /\ MayApply(p) => /\ skillFile # Edited /\ Accepted(proposals[p])
                           /\ proposals[p].content \in Content /\ Fine(proposals[p].content)
         /\ MayRollback(p) => /\ skillFile # Edited /\ Accepted(proposals[p])
                              /\ proposals[p].backup \in Content \cup {Missing}
                              /\ proposals[p].backup = Missing \/ Fine(proposals[p].backup)
<1>1. SkillTypeOK /\ ProposalOK(proposals[p])
  BY DEF SkillInv
<1>2. ASSUME MayApply(p)
      PROVE  /\ skillFile # Edited /\ Accepted(proposals[p])
             /\ proposals[p].content \in Content /\ Fine(proposals[p].content)
  <2>1. /\ proposals[p].status = "approved" /\ proposals[p].content \notin Critical
        /\ skillFile = ownedSkill
    BY <1>2 DEF MayApply, Status, ScanSkill, IsOwned
  <2>2. proposals[p].content \in Content
    BY <1>1, <2>1, HasStatus DEF Status
  <2>3. Accepted(proposals[p])
    BY <1>1, <2>1 DEF ProposalOK
  <2>4. skillFile # Edited
    BY <1>1, <2>1, SkillContents DEF SkillTypeOK
  <2> QED BY <2>1, <2>2, <2>3, <2>4 DEF Fine
<1>3. ASSUME MayRollback(p)
      PROVE  /\ skillFile # Edited /\ Accepted(proposals[p])
             /\ proposals[p].backup \in Content \cup {Missing}
             /\ proposals[p].backup = Missing \/ Fine(proposals[p].backup)
  <2>1. proposals[p].status = "applied" /\ skillFile = proposals[p].content
    BY <1>3 DEF MayRollback, Status
  <2>2. /\ proposals[p] \in SkillProposal /\ proposals[p].content \in Content
        /\ proposals[p].backup \in Content \cup {Missing}
    BY <1>1, <2>1, HasStatus DEF Status
  <2>3. Accepted(proposals[p])
    BY <1>1, <2>1 DEF ProposalOK
  <2>4. skillFile # Edited
    BY <2>1, <2>2, SkillContents
  <2>5. proposals[p].backup = Missing \/ Fine(proposals[p].backup)
    BY <1>1, <2>2 DEF ProposalOK
  <2> QED BY <2>2, <2>3, <2>4, <2>5
<1>4. QED
  BY <1>2, <1>3

\* The file becomes what was approved; what was there becomes the backup.
LEMMA ApplyKeeps ==
  ASSUME SkillInv, NEW p \in Proposal, Apply(p)
  PROVE  SkillInv'
<1>1. /\ SkillTypeOK /\ MayApply(p)
      /\ proposals' = [proposals EXCEPT ![p].status = "applied", ![p].backup = skillFile]
      /\ skillFile' = proposals[p].content /\ ownedSkill' = proposals[p].content
      /\ UNCHANGED evaluating
  BY DEF SkillInv, Apply
<1>2. /\ skillFile # Edited /\ Accepted(proposals[p])
      /\ proposals[p].content \in Content /\ Fine(proposals[p].content)
  BY <1>1, WritesAreFine
<1>3. /\ proposals[p] \in SkillProposal
      /\ proposals[p].passed = TRUE /\ proposals[p].isApproved = TRUE
  <2>1. Status(p) # "none"
    BY <1>1 DEF MayApply
  <2>2. /\ proposals[p] \in SkillProposal
        /\ proposals[p].passed \in BOOLEAN /\ proposals[p].isApproved \in BOOLEAN
    BY <1>1, <2>1, HasStatus
  <2> QED BY <1>2, <2>2 DEF Accepted
<1>4. proposals'[p] = [content |-> proposals[p].content, status |-> "applied", passed |-> TRUE,
                       isApproved |-> TRUE, backup |-> skillFile]
  <2>1. proposals'[p] = [proposals[p] EXCEPT !.status = "applied", !.backup = skillFile]
    BY <1>1 DEF SkillTypeOK
  <2> QED BY <1>3, <2>1 DEF SkillProposal
<1>5. PICK c \in Content, old \in Content \cup {Missing} :
        c = proposals[p].content /\ old = skillFile
  BY <1>1, <1>2 DEF SkillTypeOK
<1>6. PICK r \in SkillProposal :
        r = [content |-> c, status |-> "applied", passed |-> TRUE, isApproved |-> TRUE, backup |-> old]
  BY DEF SkillProposal
<1>7. proposals' = [proposals EXCEPT ![p] = r]
  <2>1. proposals' = [proposals EXCEPT ![p] = proposals'[p]]
    BY <1>1 DEF SkillTypeOK
  <2> QED BY <1>4, <1>5, <1>6, <2>1
<1>8. Accepted(r) /\ r.content = proposals[p].content /\ r.backup = old
  BY <1>5, <1>6 DEF Accepted
<1>9. \A content : Fine(content) => Fine(content)'
  <2>1. proposals'[p] = r /\ \A q \in Proposal \ {p} : proposals'[q] = proposals[q]
    BY <1>1, <1>7, ProposalBecomes
  <2>2. Accepted(proposals'[p]) /\ proposals'[p].content = proposals[p].content
    BY <1>8, <2>1 DEF Accepted
  <2> QED BY <2>1, <2>2, FineStays
<1>10. r.backup # Missing => Fine(r.backup)'
  <2>1. old # Missing => Fine(old)
    BY <1>2, <1>5 DEF SkillInv
  <2> QED BY <1>8, <1>9, <2>1
<1>11. Fine(c)'
  BY <1>2, <1>5, <1>9
<1>12. /\ skillFile' \in Content \cup {Missing, Edited} /\ ownedSkill' \in Content \cup {Missing}
       /\ \A content \in {skillFile', ownedSkill'} \ {Missing, Edited} : Fine(content)'
  BY <1>1, <1>5, <1>11
<1>13. evaluating' \in [Proposal -> 0..MaxEvaluations]
  BY <1>1 DEF SkillTypeOK
<1>14. QED
  BY <1>7, <1>8, <1>10, <1>12, <1>13, ProposalMoves

\* The backup comes back.
LEMMA RollbackKeeps ==
  ASSUME SkillInv, NEW p \in Proposal, Rollback(p)
  PROVE  SkillInv'
<1>1. /\ SkillTypeOK /\ MayRollback(p)
      /\ proposals' = [proposals EXCEPT ![p].status = "rolled_back"]
      /\ skillFile' = proposals[p].backup /\ ownedSkill' \in {Missing, proposals[p].backup}
      /\ UNCHANGED evaluating
  BY DEF SkillInv, Rollback
<1>2. /\ Accepted(proposals[p]) /\ proposals[p].backup \in Content \cup {Missing}
      /\ proposals[p].backup = Missing \/ Fine(proposals[p].backup)
  BY <1>1, WritesAreFine
<1>3. /\ proposals[p] \in SkillProposal /\ proposals[p].content \in Content
      /\ proposals[p].passed = TRUE /\ proposals[p].isApproved = TRUE
  <2>1. Status(p) # "none"
    BY <1>1 DEF MayRollback
  <2>2. /\ proposals[p] \in SkillProposal /\ proposals[p].content \in Content
        /\ proposals[p].passed \in BOOLEAN /\ proposals[p].isApproved \in BOOLEAN
    BY <1>1, <2>1, HasStatus
  <2> QED BY <1>2, <2>2 DEF Accepted
<1>4. proposals'[p] = [content |-> proposals[p].content, status |-> "rolled_back", passed |-> TRUE,
                       isApproved |-> TRUE, backup |-> proposals[p].backup]
  BY <1>1, <1>3, ZenonT(30) DEF SkillTypeOK, SkillProposal
<1>5. PICK c \in Content, old \in Content \cup {Missing} :
        c = proposals[p].content /\ old = proposals[p].backup
  BY <1>2, <1>3
<1>6. PICK r \in SkillProposal :
        r = [content |-> c, status |-> "rolled_back", passed |-> TRUE, isApproved |-> TRUE,
             backup |-> old]
  BY DEF SkillProposal
<1>7. proposals' = [proposals EXCEPT ![p] = r]
  <2>1. proposals' = [proposals EXCEPT ![p] = proposals'[p]]
    BY <1>1 DEF SkillTypeOK
  <2> QED BY <1>4, <1>5, <1>6, <2>1
<1>8. Accepted(r) /\ r.content = proposals[p].content /\ r.backup = old
  BY <1>5, <1>6 DEF Accepted
<1>9. \A content : Fine(content) => Fine(content)'
  BY <1>1, <1>7, <1>8, ProposalBecomes, FineStays
<1>10. old # Missing => Fine(old)'
  BY <1>2, <1>5, <1>9
<1>11. r.backup # Missing => Fine(r.backup)'
  BY <1>8, <1>10
<1>12. /\ skillFile' \in Content \cup {Missing, Edited} /\ ownedSkill' \in Content \cup {Missing}
       /\ \A content \in {skillFile', ownedSkill'} \ {Missing, Edited} : Fine(content)'
  BY <1>1, <1>5, <1>10
<1>13. evaluating' \in [Proposal -> 0..MaxEvaluations]
  BY <1>1 DEF SkillTypeOK
<1>14. QED
  BY <1>7, <1>8, <1>11, <1>12, <1>13, ProposalMoves

\* A crash leaves the file as it was or as apply or rollback had just written it.
LEMMA CrashKeeps ==
  ASSUME SkillInv, SkillCrash \/ EditOutside
  PROVE  SkillInv'
<1>1. SkillTypeOK /\ UNCHANGED <<proposals, ownedSkill>>
  BY DEF SkillInv, SkillCrash, EditOutside
<1>2. evaluating' \in [Proposal -> 0..MaxEvaluations]
  BY <1>1, EvaluationBound DEF SkillTypeOK, SkillCrash, EditOutside
<1>3. /\ skillFile' \in Content \cup {Missing, Edited}
      /\ skillFile' \in {skillFile, Missing, Edited} \/ Fine(skillFile')
  <2>1. CASE skillFile' \in {skillFile, Edited}
    BY <1>1, <2>1 DEF SkillTypeOK
  <2>2. CASE \E p \in Proposal : MayApply(p) /\ skillFile' = proposals[p].content
    BY <2>2, WritesAreFine
  <2>3. CASE \E p \in Proposal : MayRollback(p) /\ skillFile' = proposals[p].backup
    BY <2>3, WritesAreFine
  <2> QED BY <2>1, <2>2, <2>3 DEF SkillCrash, EditOutside
<1>4. QED
  BY <1>1, <1>2, <1>3, FileMoves

LEMMA SkillBegins ==
  ASSUME SkillInit
  PROVE  SkillInv
BY EvaluationBound
   DEF SkillInit, SkillInv, SkillTypeOK, ProposalOK, NoProposal, SkillProposal

LEMMA SkillStep ==
  ASSUME SkillInv, [SkillNext]_skillVars
  PROVE  SkillInv'
<1>1. CASE UNCHANGED skillVars
  BY <1>1, FileMoves DEF skillVars, SkillInv, SkillTypeOK
<1>2. CASE \E p \in Proposal : SkillRoute(p)
  BY <1>2, ProposeKeeps, EvaluationKeeps, ApproveKeeps, ApplyKeeps, RollbackKeeps
     DEF SkillRoute
<1>3. QED
  BY <1>1, <1>2, EvaluationKeeps, CrashKeeps DEF SkillNext

\* The invariant holds of every reachable state.
LEMMA SkillInvariant == SkillSpec => []SkillInv
BY SkillBegins, SkillStep, PTL DEF SkillSpec

-----------------------------------------------------------------------------
\* Every variable of the workshop has its type.
THEOREM SkillTypes == SkillSpec => []SkillTypeOK
<1>1. SkillInv => SkillTypeOK
  BY DEF SkillInv
<1>2. QED
  BY <1>1, SkillInvariant, PTL

\* What is active as the skill was scanned, passed its evaluation and was approved,
\* however it came to be there (workshop.ts:206, 259).
THEOREM ActiveIsApproved == SkillSpec => []ActiveWasApproved
<1>1. SkillInv => ActiveWasApproved
  BY DEF SkillInv, ActiveWasApproved, Fine, Accepted, Status
<1>2. QED
  BY <1>1, SkillInvariant, PTL

\* Apply and rollback may not write over a file somebody edited.
LEMMA EditStays ==
  ASSUME SkillInv, [SkillNext]_skillVars, skillFile = Edited
  PROVE  skillFile' = Edited
<1>1. \A p \in Proposal : ~MayApply(p) /\ ~MayRollback(p)
  BY WritesAreFine
<1>2. QED
  BY <1>1 DEF skillVars, SkillNext, SkillRoute, Propose, Evaluate, Approve, Apply, Rollback,
              Evaluated, EvaluatorFails, SkillCrash, EditOutside

\* What somebody else wrote is never overwritten and never removed (workshop.ts:224, 264).
THEOREM EditsStay == SkillSpec => EditsAreKept
<1>1. SkillInv /\ [SkillNext]_skillVars => (skillFile = Edited => skillFile' = Edited)
  BY EditStays
<1>2. QED
  BY <1>1, SkillInvariant, PTL DEF SkillSpec, EditsAreKept

-----------------------------------------------------------------------------
(* The plugin registry *)

\* A start has started the providers before the one it awaits and hands out none;
\* a stop has stopped them and still hands out all.
HalfWay ==
  IF Head(queue) = "start"
    THEN up = 1..(nextProvider - 1) /\ instances = {}
    ELSE up = nextProvider..MaxProviders /\ instances = ProviderIndex

\* The operation that has begun is a start or a stop which the record still calls for.
Begun == queue # <<>> /\ Head(queue) \in {"start", "stop"} /\ Needed(Head(queue))

RegistryInv ==
  /\ RegistryTypeOK
  /\ RecordTellsProviders
  /\ nextProvider > 0 => Begun /\ (~broken => HalfWay)

-----------------------------------------------------------------------------
\* The queue without its head, and with one more operation.
LEMMA QueueMoves ==
  ASSUME RegistryTypeOK
  PROVE  /\ queue # <<>> => Tail(queue) \in Seq(Operation) /\ Len(Tail(queue)) <= MaxQueued
         /\ \A operation \in Operation :
              Len(queue) < MaxQueued =>
                /\ Append(queue, operation) \in Seq(Operation)
                /\ Append(queue, operation) # <<>>
                /\ Len(Append(queue, operation)) <= MaxQueued
                /\ queue # <<>> => Head(Append(queue, operation)) = Head(queue)
<1>1. queue \in Seq(Operation) /\ Len(queue) \in Nat /\ Len(queue) <= MaxQueued
  BY DEF RegistryTypeOK
<1>2. QED
  BY <1>1, ProviderBound

\* What each operation is needed for.
LEMMA NeededWhen ==
  /\ Needed("enable") <=> record = "discovered"
  /\ Needed("start") <=> record \in {"enabled", "stopped"}
  /\ Needed("stop") <=> record = "started"
BY DEF Needed

\* A discovery makes a record only where there is none.
LEMMA DiscoveryKeeps ==
  ASSUME RegistryInv, ReadManifest \/ ManifestInvalid \/ ManifestRead
  PROVE  RegistryInv'
<1>1. UNCHANGED <<queue, nextProvider, up, instances, broken>>
  BY DEF ReadManifest, ManifestInvalid, ManifestRead
<1>2. \/ record' = record
      \/ record = "none" /\ record' = "discovered"
  BY DEF ReadManifest, ManifestInvalid, ManifestRead, Discovered
<1>3. RegistryTypeOK'
  BY <1>1, <1>2 DEF RegistryInv, RegistryTypeOK, ReadManifest, ManifestInvalid, ManifestRead
<1>4. RecordTellsProviders'
  BY <1>1, <1>2 DEF RegistryInv, RecordTellsProviders
<1>5. nextProvider' > 0 => Begun' /\ (~broken' => HalfWay')
  BY <1>1, <1>2 DEF RegistryInv, Begun, HalfWay, Needed
<1>6. QED
  BY <1>3, <1>4, <1>5 DEF RegistryInv

\* An operation joins the queue behind the one under way.
LEMMA EnqueueKeeps ==
  ASSUME RegistryInv, NEW operation \in Operation, Enqueue(operation)
  PROVE  RegistryInv'
<1>1. /\ queue' = Append(queue, operation) /\ Len(queue) < MaxQueued
      /\ UNCHANGED <<discovering, record, nextProvider, up, instances, broken>>
  BY DEF Enqueue
<1>2. /\ queue' \in Seq(Operation) /\ Len(queue') <= MaxQueued
      /\ queue # <<>> => Head(queue') = Head(queue)
      /\ queue' # <<>>
  BY <1>1, QueueMoves DEF RegistryInv, RegistryTypeOK
<1>3. RegistryTypeOK'
  BY <1>1, <1>2 DEF RegistryInv, RegistryTypeOK
<1>4. RecordTellsProviders'
  BY <1>1 DEF RegistryInv, RecordTellsProviders
<1>5. nextProvider' > 0 => Begun' /\ (~broken' => HalfWay')
  BY <1>1, <1>2 DEF RegistryInv, Begun, HalfWay, Needed
<1>6. QED
  BY <1>3, <1>4, <1>5 DEF RegistryInv

\* The head ends without a provider: refused, or the import of the entry.
LEMMA HeadEnds ==
  ASSUME RegistryInv, (\E operation \in Operation : Refused(operation)) \/ Enable
  PROVE  RegistryInv'
<1>1. /\ queue # <<>> /\ nextProvider = 0
      /\ UNCHANGED <<discovering, up, instances, broken>>
      /\ record' = record \/ (record = "discovered" /\ record' = "enabled")
  <2>1. CASE Enable
    <3>1. /\ Head(queue) = "enable" /\ queue # <<>> /\ record = "discovered"
          /\ record' \in {"enabled", "discovered"}
          /\ UNCHANGED <<discovering, up, instances, broken>>
      BY <2>1, NeededWhen DEF Enable, HeadIs
    <3>2. ~(nextProvider > 0)
      BY <3>1 DEF RegistryInv, Begun
    <3> QED BY <3>1, <3>2 DEF RegistryInv, RegistryTypeOK
  <2>2. CASE \E operation \in Operation : Refused(operation)
    BY <2>2 DEF Refused, HeadIs
  <2> QED BY <2>1, <2>2
<1>2. queue' = Tail(queue) /\ nextProvider' = 0
  BY DEF Refused, Enable, Over
<1>3. RegistryTypeOK'
  BY <1>1, <1>2, QueueMoves, ProviderBound DEF RegistryInv, RegistryTypeOK
<1>4. RecordTellsProviders'
  BY <1>1, <1>2 DEF RegistryInv, RecordTellsProviders
<1>5. QED
  BY <1>2, <1>3, <1>4 DEF RegistryInv

\* A start or a stop begins where the record tells what runs.
LEMMA BeginKeeps ==
  ASSUME RegistryInv, NEW operation \in Operation, Begin(operation)
  PROVE  RegistryInv'
<1>1. /\ queue # <<>> /\ Head(queue) = operation /\ operation \in {"start", "stop"}
      /\ Needed(operation) /\ nextProvider = 0 /\ nextProvider' = 1
      /\ UNCHANGED <<discovering, record, queue, up, instances, broken>>
  BY DEF Begin, HeadIs, Operation
<1>2. RegistryTypeOK'
  BY <1>1, ProviderBound DEF RegistryInv, RegistryTypeOK
<1>3. RecordTellsProviders'
  BY <1>1 DEF RecordTellsProviders
<1>4. Begun'
  BY <1>1 DEF Begun, Needed
<1>5. ~broken' => HalfWay'
  <2>1. 1..(1 - 1) = {}
    OBVIOUS
  <2>2. ~broken => up = (IF record = "started" THEN ProviderIndex ELSE {}) /\ instances = up
    BY <1>1 DEF RegistryInv, RecordTellsProviders
  <2>3. CASE operation = "start"
    BY <1>1, <2>1, <2>2, <2>3 DEF HalfWay, Needed
  <2>4. CASE operation = "stop"
    BY <1>1, <2>2, <2>4 DEF HalfWay, Needed, ProviderIndex
  <2> QED BY <1>1, <2>3, <2>4
<1>6. QED
  BY <1>2, <1>3, <1>4, <1>5 DEF RegistryInv

\* A provider is started or stopped: the operation goes on or, with the last one, ends.
LEMMA ProviderKeeps ==
  ASSUME RegistryInv, StartProvider \/ StopProvider
  PROVE  RegistryInv'
<1>1. /\ queue # <<>> /\ nextProvider \in 1..MaxProviders
      /\ Begun /\ (~broken => HalfWay) /\ RegistryTypeOK
      /\ UNCHANGED <<discovering, broken>>
  BY DEF RegistryInv, RegistryTypeOK, StartProvider, StopProvider, HeadIs
<1>2. MaxProviders \in Nat /\ MaxProviders > 0
  BY ProviderBound
<1>3. CASE StartProvider
  <2>1. Head(queue) = "start" /\ up' = up \cup {nextProvider}
    BY <1>3 DEF StartProvider, HeadIs
  <2>2. up' \subseteq ProviderIndex
    BY <1>1, <2>1 DEF RegistryTypeOK, ProviderIndex
  <2>3. ~broken' => up' = 1..nextProvider
    BY <1>1, <2>1 DEF HalfWay
  <2>4. CASE nextProvider < MaxProviders
    <3>1. nextProvider' = nextProvider + 1 /\ UNCHANGED <<record, queue, instances>>
      BY <1>3, <2>4 DEF StartProvider
    <3>2. RegistryTypeOK'
      BY <1>1, <1>2, <2>2, <2>4, <3>1 DEF RegistryTypeOK
    <3>3. Begun'
      BY <1>1, <3>1 DEF Begun, Needed
    <3>4. ~broken' => HalfWay'
      BY <1>1, <2>1, <2>3, <3>1 DEF HalfWay
    <3>5. RecordTellsProviders'
      BY <1>1, <3>1 DEF RecordTellsProviders
    <3> QED BY <3>2, <3>3, <3>4, <3>5 DEF RegistryInv
  <2>5. CASE ~(nextProvider < MaxProviders)
    <3>1. /\ record' = "started" /\ instances' = ProviderIndex
          /\ queue' = Tail(queue) /\ nextProvider' = 0
      BY <1>3, <2>5 DEF StartProvider, StartedAll, Over
    <3>2. RegistryTypeOK'
      BY <1>1, <1>2, <2>2, <3>1, QueueMoves DEF RegistryTypeOK
    <3>3. nextProvider = MaxProviders
      BY <1>1, <1>2, <2>5
    <3>4. RecordTellsProviders'
      BY <2>3, <3>1, <3>3 DEF RecordTellsProviders, ProviderIndex
    <3> QED BY <3>1, <3>2, <3>4 DEF RegistryInv
  <2> QED BY <2>4, <2>5
<1>4. CASE StopProvider
  <2>1. Head(queue) = "stop" /\ up' = up \ {nextProvider}
    BY <1>4 DEF StopProvider, HeadIs
  <2>2. up' \subseteq ProviderIndex
    BY <1>1, <2>1 DEF RegistryTypeOK
  <2>3. ~broken' => up' = (nextProvider + 1)..MaxProviders /\ instances = ProviderIndex
    BY <1>1, <1>2, <2>1 DEF HalfWay
  <2>4. CASE nextProvider < MaxProviders
    <3>1. nextProvider' = nextProvider + 1 /\ UNCHANGED <<record, queue, instances>>
      BY <1>4, <2>4 DEF StopProvider
    <3>2. RegistryTypeOK'
      BY <1>1, <1>2, <2>2, <2>4, <3>1 DEF RegistryTypeOK
    <3>3. Begun'
      BY <1>1, <3>1 DEF Begun, Needed
    <3>4. ~broken' => HalfWay'
      BY <1>1, <2>1, <2>3, <3>1 DEF HalfWay
    <3>5. RecordTellsProviders'
      BY <1>1, <3>1 DEF RecordTellsProviders
    <3> QED BY <3>2, <3>3, <3>4, <3>5 DEF RegistryInv
  <2>5. CASE ~(nextProvider < MaxProviders)
    <3>1. /\ record' = "stopped" /\ instances' = {}
          /\ queue' = Tail(queue) /\ nextProvider' = 0
      BY <1>4, <2>5 DEF StopProvider, Over
    <3>2. RegistryTypeOK'
      BY <1>1, <1>2, <2>2, <3>1, QueueMoves DEF RegistryTypeOK
    <3>3. nextProvider = MaxProviders /\ (MaxProviders + 1)..MaxProviders = {}
      BY <1>1, <1>2, <2>5
    <3>4. RecordTellsProviders'
      BY <2>3, <3>1, <3>3 DEF RecordTellsProviders
    <3> QED BY <3>1, <3>2, <3>4 DEF RegistryInv
  <2> QED BY <2>4, <2>5
<1>5. QED
  BY <1>3, <1>4

\* After a provider has thrown, the record tells nothing any more; the types hold.
LEMMA ThrowKeeps ==
  ASSUME RegistryInv, ProviderThrows
  PROVE  RegistryInv'
<1>1. /\ queue # <<>> /\ broken' = TRUE /\ queue' = Tail(queue) /\ nextProvider' = 0
      /\ UNCHANGED <<discovering, record, up, instances>>
  BY DEF RegistryInv, Begun, ProviderThrows, Over
<1>2. RegistryTypeOK'
  BY <1>1, QueueMoves, ProviderBound DEF RegistryInv, RegistryTypeOK
<1>3. QED
  BY <1>1, <1>2 DEF RegistryInv, RecordTellsProviders

LEMMA RegistryBegins ==
  ASSUME RegistryInit
  PROVE  RegistryInv
<1>1. <<>> \in Seq(Operation) /\ Len(<<>>) = 0
  OBVIOUS
<1>2. RegistryTypeOK
  <2>1. queue \in Seq(Operation) /\ Len(queue) = 0
    BY <1>1, Zenon DEF RegistryInit
  <2>2. /\ discovering = 0 /\ record = "none" /\ nextProvider = 0
        /\ up = {} /\ instances = {} /\ broken = FALSE
    BY DEF RegistryInit
  <2>3. Len(queue) <= MaxQueued /\ discovering \in 0..2 /\ nextProvider \in 0..MaxProviders
    BY <2>1, <2>2, ProviderBound
  <2>4. up \subseteq ProviderIndex /\ instances \subseteq ProviderIndex /\ broken \in BOOLEAN
    BY <2>2
  <2> QED BY <2>1, <2>2, <2>3, <2>4 DEF RegistryTypeOK
<1>3. RecordTellsProviders
  BY DEF RegistryInit, RecordTellsProviders
<1> QED BY <1>2, <1>3 DEF RegistryInit, RegistryInv

LEMMA RegistryStep ==
  ASSUME RegistryInv, [RegistryNext]_registryVars
  PROVE  RegistryInv'
<1>1. CASE UNCHANGED registryVars
  BY <1>1 DEF registryVars, RegistryInv, RegistryTypeOK, RecordTellsProviders, Begun,
              HalfWay, Needed
<1>2. QED
  BY <1>1, DiscoveryKeeps, EnqueueKeeps, HeadEnds, BeginKeeps, ProviderKeeps, ThrowKeeps
     DEF RegistryNext

\* The invariant holds of every reachable state.
LEMMA RegistryInvariant == RegistrySpec => []RegistryInv
BY RegistryBegins, RegistryStep, PTL DEF RegistrySpec

\* Every variable of the registry has its type.
THEOREM RegistryTypes == RegistrySpec => []RegistryTypeOK
<1>1. RegistryInv => RegistryTypeOK
  BY DEF RegistryInv
<1>2. QED
  BY <1>1, RegistryInvariant, PTL

\* Between operations, and unless a provider has thrown, the providers run and are
\* handed out just when the record says started (registry.ts:161, 181, 193).
THEOREM RecordIsTrue == RegistrySpec => []RecordTellsProviders
<1>1. RegistryInv => RecordTellsProviders
  BY DEF RegistryInv
<1>2. QED
  BY <1>1, RegistryInvariant, PTL

-----------------------------------------------------------------------------
(* A worker of a coding backend *)

\* The records of a run, of its process and of what consumes its events.
RunType == [stage: {"create", "idle", "snapshot", "spawn", "read", "exit", "diff", "close", "over"},
            aborted: BOOLEAN, terminal: {"none", "completed", "failed"}, stopTimer: BOOLEAN, readCompleted: BOOLEAN,
            before: Worktree, gitWorks: BOOLEAN, start: Worktree, changed: SUBSET Path, diffed: BOOLEAN, alone: BOOLEAN]
WorkerType == [state: {"none", "running", "ended"}, exitsWell: BOOLEAN, told: BOOLEAN, asked: BOOLEAN]
TurnType == [state: {"streaming", "verifying", "completed", "failed", "lost"}, completed: BOOLEAN,
             verified: 0..MaxCommands, number: 1..MaxTurns,
             verification: {"none", "passed", "failed", "cancelled"}]

RuntimeTypes ==
  /\ backend \in Backend /\ run \in RunType /\ worker \in WorkerType /\ turn \in TurnType
  /\ stray \subseteq {"left", "survived"} /\ files \in Worktree

\* A process runs only from its spawn on, and has ended where its exit was awaited. What Codex
\* leaves at work when its run closes has not completed it, and what is verified has completed.
StageOK ==
  /\ run.stage # "over" => turn.state = "streaming"
  /\ turn.state = "verifying" => turn.completed
  /\ run.stage \in {"create", "idle", "snapshot", "spawn"} => worker.state = "none"
  /\ run.stage \in {"snapshot", "spawn", "diff"} => backend # "codex"
  /\ run.stage = "exit" /\ backend = "codex" => worker.state = "ended"
  /\ run.stage = "diff" => worker.state = "ended"
  /\ run.stage = "close" /\ backend = "codex" /\ worker.state = "running" => ~turn.completed

\* Until the worktree is compared the run remembers how it was at the start; nobody works in
\* it afterwards, and none of its files becomes clean again.
DiffOK ==
  /\ run.diffed => run.stage \in {"close", "over"} /\ worker.state # "running"
  /\ run.stage \in {"spawn", "read", "exit", "diff"} /\ backend # "codex" =>
       run.before = SnapshotOf(run.start, run.gitWorks)
  /\ run.alone /\ turn.state = "streaming" => stray = {}
  /\ \A p \in Path : files[p] = "clean" => run.start[p] = "clean"

RuntimeInv == RuntimeTypes /\ StageOK /\ DiffOK /\ NoStrayWorker /\ ChangesReported

Stage == {"create", "idle", "snapshot", "spawn", "read", "exit", "diff", "close", "over"}

\* What the comparison of the worktree goes by.
SameTrees(q, r) ==
  /\ q.before = r.before /\ q.gitWorks = r.gitWorks /\ q.start = r.start
  /\ q.changed = r.changed /\ q.diffed = r.diffed /\ q.alone = r.alone

RunRecord(stage, aborted, terminal, stopTimer, readCompleted, before, gitWorks, start, changed, diffed, alone) ==
  [stage |-> stage, aborted |-> aborted, terminal |-> terminal, stopTimer |-> stopTimer,
   readCompleted |-> readCompleted, before |-> before, gitWorks |-> gitWorks, start |-> start,
   changed |-> changed, diffed |-> diffed, alone |-> alone]

\* A run goes to another await.
LEMMA RunGoesTo ==
  ASSUME NEW r \in RunType, NEW q, NEW stage \in Stage, q = [r EXCEPT !.stage = stage]
  PROVE  q \in RunType /\ SameTrees(q, r) /\ q.stage = stage
<1>1. q = RunRecord(stage, r.aborted, r.terminal, r.stopTimer, r.readCompleted,
                    r.before, r.gitWorks, r.start, r.changed, r.diffed, r.alone)
  BY ZenonT(60) DEF RunRecord, RunType
<1>2. QED
  BY <1>1 DEF RunRecord, RunType, Stage, SameTrees

\* Its timer is set or stopped on the way.
LEMMA RunIsTimedAt ==
  ASSUME NEW r \in RunType, NEW q, NEW stage \in Stage, NEW b \in BOOLEAN,
         q = [r EXCEPT !.stage = stage, !.stopTimer = b]
  PROVE  q \in RunType /\ SameTrees(q, r) /\ q.stage = stage
<1>1. /\ r.stage \in Stage /\ r.aborted \in BOOLEAN /\ r.terminal \in {"none", "completed", "failed"}
      /\ r.stopTimer \in BOOLEAN /\ r.readCompleted \in BOOLEAN /\ r.before \in Worktree /\ r.gitWorks \in BOOLEAN
      /\ r.start \in Worktree /\ r.changed \in SUBSET Path /\ r.diffed \in BOOLEAN /\ r.alone \in BOOLEAN
  BY DEF RunType, Stage
<1>2. q = RunRecord(stage, r.aborted, r.terminal, b, r.readCompleted,
                    r.before, r.gitWorks, r.start, r.changed, r.diffed, r.alone)
  BY ZenonT(60) DEF RunRecord, RunType
<1> QED BY <1>1, <1>2 DEF RunRecord, RunType, Stage, SameTrees

\* Its timer is set or stopped where it is.
LEMMA RunIsTimed ==
  ASSUME NEW r \in RunType, NEW q, NEW b \in BOOLEAN,
         q = [r EXCEPT !.stopTimer = b]
  PROVE  q \in RunType /\ SameTrees(q, r) /\ q.stage = r.stage
<1>1. /\ r.stage \in Stage /\ r.aborted \in BOOLEAN /\ r.terminal \in {"none", "completed", "failed"}
      /\ r.stopTimer \in BOOLEAN /\ r.readCompleted \in BOOLEAN /\ r.before \in Worktree /\ r.gitWorks \in BOOLEAN
      /\ r.start \in Worktree /\ r.changed \in SUBSET Path /\ r.diffed \in BOOLEAN /\ r.alone \in BOOLEAN
  BY DEF RunType, Stage
<1>2. q = RunRecord(r.stage, r.aborted, r.terminal, b, r.readCompleted,
                    r.before, r.gitWorks, r.start, r.changed, r.diffed, r.alone)
  BY ZenonT(60) DEF RunRecord, RunType
<1> QED BY <1>1, <1>2 DEF RunRecord, RunType, Stage, SameTrees

\* It keeps a terminal event.
LEMMA RunKeepsEvent ==
  ASSUME NEW r \in RunType, NEW q, NEW t \in {"completed", "failed"}, q = [r EXCEPT !.terminal = t]
  PROVE  q \in RunType /\ SameTrees(q, r) /\ q.stage = r.stage
<1>1. q = RunRecord(r.stage, r.aborted, t, r.stopTimer, r.readCompleted,
                    r.before, r.gitWorks, r.start, r.changed, r.diffed, r.alone)
  BY ZenonT(60) DEF RunRecord, RunType
<1>2. QED
  BY <1>1 DEF RunRecord, RunType, SameTrees

\* What is done to a process leaves it running or not.
LEMMA WorkerGoesOn ==
  ASSUME NEW w \in WorkerType, NEW v, v \in {w, StopWorker(w), [w EXCEPT !.told = TRUE]}
  PROVE  v \in WorkerType /\ v.state = w.state
BY DEF WorkerType, StopWorker

\* It is aborted, which may set its timer.
LEMMA RunAborts ==
  ASSUME NEW r \in RunType, NEW q, NEW b \in BOOLEAN,
         q = [r EXCEPT !.aborted = TRUE, !.stopTimer = b]
  PROVE  q \in RunType /\ SameTrees(q, r) /\ q.stage = r.stage
<1>1. /\ r.stage \in Stage /\ r.aborted \in BOOLEAN /\ r.terminal \in {"none", "completed", "failed"}
      /\ r.stopTimer \in BOOLEAN /\ r.readCompleted \in BOOLEAN /\ r.before \in Worktree /\ r.gitWorks \in BOOLEAN
      /\ r.start \in Worktree /\ r.changed \in SUBSET Path /\ r.diffed \in BOOLEAN /\ r.alone \in BOOLEAN
  BY DEF RunType, Stage
<1>2. q = RunRecord(r.stage, TRUE, r.terminal, b, r.readCompleted,
                    r.before, r.gitWorks, r.start, r.changed, r.diffed, r.alone)
  BY ZenonT(60) DEF RunRecord, RunType
<1> QED BY <1>1, <1>2 DEF RunRecord, RunType, Stage, SameTrees

\* A step of the run that does not touch the trees it compares.
LEMMA RunMoves ==
  ASSUME RuntimeInv, run' \in RunType, SameTrees(run', run), worker' \in WorkerType, turn' \in TurnType,
         UNCHANGED <<backend, stray, files>>, StageOK', NoStrayWorker',
         run.diffed => run'.stage \in {"close", "over"} /\ worker'.state # "running",
         run'.stage \in {"spawn", "read", "exit", "diff"} /\ backend # "codex" =>
           run.stage \in {"spawn", "read", "exit", "diff"},
         turn'.state = "streaming" => turn.state = "streaming"
  PROVE  RuntimeInv'
<1>1. RuntimeTypes'
  BY DEF RuntimeInv, RuntimeTypes
<1>2. DiffOK'
  BY DEF RuntimeInv, DiffOK, SameTrees, SnapshotOf
<1>3. ChangesReported'
  BY DEF RuntimeInv, ChangesReported, SameTrees
<1>4. QED
  BY <1>1, <1>2, <1>3 DEF RuntimeInv

\* What consumes the events goes on.
LEMMA TurnGoesOn ==
  ASSUME NEW u \in TurnType, NEW v, NEW e \in BOOLEAN, NEW n \in 0..MaxCommands,
         NEW s \in {"streaming", "verifying", "completed", "failed", "lost"},
         NEW f \in {"none", "passed", "failed", "cancelled"}
  PROVE  /\ v = [u EXCEPT !.completed = e] => v \in TurnType /\ v.state = u.state /\ v.completed = e /\ v.number = u.number
         /\ v = [u EXCEPT !.state = s] => v \in TurnType /\ v.state = s /\ v.completed = u.completed /\ v.number = u.number
         /\ v = [u EXCEPT !.verified = n] => v \in TurnType /\ v.state = u.state /\ v.completed = u.completed /\ v.number = u.number
         /\ v = [u EXCEPT !.state = s, !.verification = f] =>
              /\ v \in TurnType /\ v.state = s /\ v.completed = u.completed /\ v.number = u.number /\ v.verification = f
<1>1. ASSUME v = [u EXCEPT !.completed = e]
      PROVE  v \in TurnType /\ v.state = u.state /\ v.completed = e /\ v.number = u.number
  BY <1>1 DEF TurnType
<1>2. ASSUME v = [u EXCEPT !.state = s]
      PROVE  v \in TurnType /\ v.state = s /\ v.completed = u.completed /\ v.number = u.number
  BY <1>2 DEF TurnType
<1>3. ASSUME v = [u EXCEPT !.verified = n]
      PROVE  v \in TurnType /\ v.state = u.state /\ v.completed = u.completed /\ v.number = u.number
  BY <1>3 DEF TurnType
<1>4. ASSUME v = [u EXCEPT !.state = s, !.verification = f]
      PROVE  /\ v \in TurnType /\ v.state = s /\ v.completed = u.completed /\ v.number = u.number
             /\ v.verification = f
  BY <1>4 DEF TurnType
<1>5. QED
  BY <1>1, <1>2, <1>3, <1>4

\* A run that only moves on while it streams, whatever it makes of its events.
LEMMA RunMovesOn ==
  ASSUME RuntimeInv, NEW stage \in Stage, run' \in RunType, SameTrees(run', run), run'.stage = stage,
         worker' \in WorkerType, turn' \in TurnType, UNCHANGED <<backend, stray, files>>,
         run.stage \in {"create", "idle", "snapshot", "spawn", "read", "exit"} \/ (run.stage = "close" /\ stage = "over"),
         turn'.state = turn.state, turn'.number = turn.number,
         stage = "over" \/ turn.state = "streaming",
         stage \in {"create", "idle", "snapshot", "spawn"} => worker'.state = "none",
         stage \in {"snapshot", "spawn"} => backend # "codex",
         stage \in {"exit", "diff"} => worker'.state = "ended" \/ (backend = "pi" /\ stage = "exit"),
         stage \in {"over", "close"} /\ worker'.state = "running" =>
           IF backend = "codex" THEN turn.state = "streaming" /\ ~turn'.completed ELSE stage = "close",
         stage = "diff" => backend # "codex",
         stage \in {"spawn", "read", "exit", "diff"} /\ backend # "codex" =>
           run.stage \in {"spawn", "read", "exit", "diff"},
         run.stage = "close" => worker'.state = worker.state
  PROVE  RuntimeInv'
<1>1. RuntimeTypes /\ StageOK /\ DiffOK /\ NoStrayWorker
  BY DEF RuntimeInv
<1>2. StageOK'
  BY <1>1 DEF StageOK, Stage
<1>3. NoStrayWorker'
  <2>1. "left" \in stray' => backend' = "codex" /\ turn'.number > 2
    BY <1>1 DEF NoStrayWorker
  <2> QED BY <1>1, <2>1 DEF NoStrayWorker, RunIsAt
<1>4. run.diffed => run'.stage \in {"close", "over"} /\ worker'.state # "running"
  BY <1>1 DEF DiffOK
<1>5. QED
  BY <1>2, <1>3, <1>4, RunMoves

\* The start of a run: git, the snapshot and the spawn are awaited before there is a process.
LEMMA RunStartKeeps ==
  ASSUME RuntimeInv, StartWorker
  PROVE  RuntimeInv'
<1>1. /\ RuntimeTypes /\ StageOK /\ DiffOK /\ NoStrayWorker
      /\ run \in RunType /\ worker \in WorkerType /\ turn \in TurnType /\ files \in Worktree
      /\ NoProcess \in WorkerType
  BY DEF RuntimeInv, RuntimeTypes, NoProcess, WorkerType
<1>2. ASSUME NEW succeeds \in BOOLEAN, CreateWorktree(succeeds) PROVE RuntimeInv'
  <2> DEFINE stage == IF succeeds THEN "idle" ELSE "over"
  <2>1. /\ run.stage = "create" /\ run' = [run EXCEPT !.stage = stage] /\ stage \in {"idle", "over"}
        /\ UNCHANGED <<backend, worker, stray, files, turn>>
    BY <1>2 DEF CreateWorktree, RunIsAt
  <2>2. stage \in Stage
    BY DEF Stage
  <2> HIDE DEF stage
  <2>3. run' \in RunType /\ SameTrees(run', run) /\ run'.stage = stage
    BY <1>1, <2>1, <2>2, RunGoesTo
  <2>4. worker.state = "none" /\ turn.state = "streaming"
    BY <1>1, <2>1 DEF StageOK
  <2> QED BY <1>1, <2>1, <2>2, <2>3, <2>4, RunMovesOn
<1>3. CASE StartSnapshot
  <2> DEFINE stage == IF run.aborted THEN "close" ELSE "snapshot"
  <2>1. /\ run.stage = "idle" /\ run' = [run EXCEPT !.stage = stage] /\ stage \in {"close", "snapshot"}
        /\ UNCHANGED <<backend, worker, stray, files, turn>> /\ backend # "codex"
    BY <1>3 DEF StartSnapshot, RunIsAt
  <2>2. stage \in Stage
    BY DEF Stage
  <2> HIDE DEF stage
  <2>3. run' \in RunType /\ SameTrees(run', run) /\ run'.stage = stage
    BY <1>1, <2>1, <2>2, RunGoesTo
  <2>4. worker.state = "none" /\ turn.state = "streaming"
    BY <1>1, <2>1 DEF StageOK
  <2> QED BY <1>1, <2>1, <2>2, <2>3, <2>4, RunMovesOn
<1>4. CASE Spawned
  <2> DEFINE w == [NoProcess EXCEPT !.state = "running"]
             timer == run.aborted /\ backend = "pi"
  <2>1. /\ run.stage = "spawn" /\ run' = [run EXCEPT !.stage = "read", !.stopTimer = timer]
        /\ worker' = IF run.aborted THEN StopWorker(w) ELSE w
        /\ UNCHANGED <<backend, stray, files, turn>>
    BY <1>4 DEF Spawned, RunIsAt
  <2>2. "read" \in Stage /\ timer \in BOOLEAN
    BY DEF Stage
  <2>3. w \in WorkerType
    BY DEF NoProcess, WorkerType
  <2> HIDE DEF timer, w
  <2>4. run' \in RunType /\ SameTrees(run', run) /\ run'.stage = "read"
    BY <1>1, <2>1, <2>2, RunIsTimedAt
  <2>5. worker' \in WorkerType
    BY <2>1, <2>3, WorkerGoesOn
  <2>6. turn.state = "streaming"
    BY <1>1, <2>1 DEF StageOK
  <2> QED BY <1>1, <2>1, <2>2, <2>4, <2>5, <2>6, RunMovesOn
<1>5. CASE SpawnFails
  <2>1. /\ run.stage = "spawn" /\ run' = [run EXCEPT !.stage = "close"]
        /\ turn' = [turn EXCEPT !.completed = ("failed" = "completed")]
        /\ UNCHANGED <<backend, worker, stray, files>>
    BY <1>5 DEF SpawnFails, Finishes, RunIsAt
  <2>2. "close" \in Stage /\ ("failed" = "completed") \in BOOLEAN
    BY DEF Stage
  <2>3. run' \in RunType /\ SameTrees(run', run) /\ run'.stage = "close"
    BY <1>1, <2>1, <2>2, RunGoesTo
  <2>4. turn' \in TurnType /\ turn'.state = turn.state /\ turn'.number = turn.number
    BY <1>1, <2>1, <2>2 DEF TurnType
  <2>5. worker.state = "none" /\ turn.state = "streaming"
    BY <1>1, <2>1 DEF StageOK
  <2> QED BY <1>1, <2>1, <2>2, <2>3, <2>4, <2>5, RunMovesOn
<1>6. CASE StartCodex
  <2>1. /\ backend = "codex" /\ run.stage = "idle" /\ run' = [run EXCEPT !.stage = "read", !.start = files]
        /\ worker' = [NoProcess EXCEPT !.state = "running"] /\ UNCHANGED <<backend, stray, files, turn>>
    BY <1>6 DEF StartCodex, RunIsAt
  <2>2. run' = RunRecord("read", run.aborted, run.terminal, run.stopTimer, run.readCompleted, run.before,
                         run.gitWorks, files, run.changed, run.diffed, run.alone)
    <3>1. ASSUME NEW q, q = [run EXCEPT !.stage = "read", !.start = files]
          PROVE  q = RunRecord("read", run.aborted, run.terminal, run.stopTimer, run.readCompleted, run.before,
                               run.gitWorks, files, run.changed, run.diffed, run.alone)
      BY <1>1, <3>1, ZenonT(60) DEF RunRecord, RunType
    <3> QED BY <2>1, <3>1
  <2>3. /\ run' \in RunType /\ run'.stage = "read" /\ run'.start = files /\ run'.diffed = run.diffed /\ run'.alone = run.alone
    BY <1>1, <2>2 DEF RunRecord, RunType
  <2>4. ~run.diffed /\ turn.state = "streaming"
    BY <1>1, <2>1 DEF DiffOK, StageOK
  <2>5. worker' \in WorkerType
    BY <2>1 DEF NoProcess, WorkerType
  <2>6. RuntimeTypes' /\ StageOK'
    BY <1>1, <2>1, <2>3, <2>4, <2>5 DEF RuntimeTypes, StageOK
  <2>7. DiffOK' /\ ChangesReported'
    BY <1>1, <2>1, <2>3, <2>4 DEF DiffOK, ChangesReported
  <2>8. NoStrayWorker'
    BY <1>1, <2>1, <2>3 DEF NoStrayWorker, RunIsAt
  <2> QED BY <2>6, <2>7, <2>8 DEF RuntimeInv
<1>7. ASSUME NEW works \in BOOLEAN, SnapshotTaken(works) PROVE RuntimeInv'
  <2> DEFINE stage == IF run.aborted THEN "close" ELSE "spawn"
             before == SnapshotOf(files, works)
  <2>1. /\ run.stage = "snapshot"
        /\ run' = [run EXCEPT !.stage = stage, !.gitWorks = works, !.before = before, !.start = files]
        /\ UNCHANGED <<backend, worker, stray, files, turn>>
    BY <1>7 DEF SnapshotTaken, RunIsAt
  <2>2. stage \in {"close", "spawn"} /\ before \in Worktree
    BY <1>1 DEF SnapshotOf, Worktree, FileState
  <2>3. before = SnapshotOf(files, works)
    OBVIOUS
  <2> HIDE DEF stage, before
  <2>4. run' = RunRecord(stage, run.aborted, run.terminal, run.stopTimer, run.readCompleted, before,
                         works, files, run.changed, run.diffed, run.alone)
    <3>1. ASSUME NEW q, q = [run EXCEPT !.stage = stage, !.gitWorks = works, !.before = before, !.start = files]
          PROVE  q = RunRecord(stage, run.aborted, run.terminal, run.stopTimer, run.readCompleted, before,
                               works, files, run.changed, run.diffed, run.alone)
      BY <1>1, <3>1, ZenonT(60) DEF RunRecord, RunType
    <3> QED BY <2>1, <3>1
  <2>5. /\ run' \in RunType /\ run'.stage = stage /\ run'.start = files /\ run'.diffed = run.diffed /\ run'.alone = run.alone
        /\ run'.before = before /\ run'.gitWorks = works
    BY <1>1, <2>2, <2>4 DEF RunRecord, RunType
  <2>6. ~run.diffed /\ turn.state = "streaming" /\ worker.state = "none" /\ backend # "codex"
    BY <1>1, <2>1 DEF DiffOK, StageOK
  <2>7. RuntimeTypes' /\ StageOK'
    BY <1>1, <2>1, <2>2, <2>5, <2>6 DEF RuntimeTypes, StageOK
  <2>8. DiffOK' /\ ChangesReported'
    BY <1>1, <2>1, <2>2, <2>3, <2>5, <2>6 DEF DiffOK, ChangesReported, SnapshotOf
  <2>9. NoStrayWorker'
    BY <1>1, <2>1, <2>2, <2>5, <2>6 DEF NoStrayWorker, RunIsAt
  <2> QED BY <2>7, <2>8, <2>9 DEF RuntimeInv
<1>8. QED
  BY <1>2, <1>3, <1>4, <1>5, <1>6, <1>7 DEF StartWorker

\* Only what is printed changes, or nothing.
LEMMA RuntimeStays ==
  ASSUME RuntimeInv, UNCHANGED <<backend, run, worker, stray, files, turn>>
  PROVE  RuntimeInv'
<1>1. /\ UNCHANGED backend /\ UNCHANGED run /\ UNCHANGED worker
      /\ UNCHANGED stray /\ UNCHANGED files /\ UNCHANGED turn
  OBVIOUS
<1>2. RuntimeTypes' /\ StageOK'
  BY <1>1 DEF RuntimeInv, RuntimeTypes, StageOK
<1>3. DiffOK' /\ NoStrayWorker' /\ ChangesReported'
  BY <1>1 DEF RuntimeInv, DiffOK, NoStrayWorker, ChangesReported, SnapshotOf, RunIsAt
<1>4. QED
  BY <1>2, <1>3 DEF RuntimeInv

\* The process prints, writes and ends; an earlier one may write and end as well.
LEMMA ProcessKeeps ==
  ASSUME RuntimeInv, ProcessStep \/ Dies \/ StrayEnds
  PROVE  RuntimeInv'
<1>1. /\ RuntimeTypes /\ StageOK /\ DiffOK /\ NoStrayWorker /\ ChangesReported
      /\ run \in RunType /\ worker \in WorkerType /\ turn \in TurnType /\ files \in Worktree
  BY DEF RuntimeInv, RuntimeTypes
<1>2. CASE \E line \in DOMAIN Adapt[backend] : Prints(line)
  BY <1>2, RuntimeStays DEF Prints
<1>3. ASSUME NEW p \in Path, Writes(p) PROVE RuntimeInv'
  <2>1. PICK s \in FileState \ {"clean"} : files' = [files EXCEPT ![p] = s]
    BY <1>3 DEF Writes, FileState, Dirty
  <2>2. UNCHANGED <<backend, run, worker, stray, turn>> /\ (worker.state = "running" \/ stray # {})
    BY <1>3 DEF Writes
  <2>3. files' \in Worktree /\ \A q \in Path : files'[q] = "clean" => files[q] = "clean"
    BY <1>1, <2>1 DEF Worktree
  <2>4. RuntimeTypes' /\ StageOK' /\ NoStrayWorker'
    BY <1>1, <2>2, <2>3 DEF RuntimeTypes, StageOK, NoStrayWorker, RunIsAt
  <2>5. DiffOK'
    BY <1>1, <2>2, <2>3 DEF DiffOK, SnapshotOf
  <2>6. ChangesReported'
    BY <1>1, <2>2 DEF DiffOK, ChangesReported
  <2> QED BY <2>4, <2>5, <2>6 DEF RuntimeInv
<1>4. ASSUME NEW well \in BOOLEAN, Ends(well) PROVE RuntimeInv'
  <2>1. /\ worker.state = "running" /\ worker' = [worker EXCEPT !.state = "ended", !.exitsWell = well]
        /\ UNCHANGED <<backend, run, stray, files, turn>>
    BY <1>4 DEF Ends
  <2>2. worker' = [state |-> "ended", exitsWell |-> well, told |-> worker.told, asked |-> worker.asked]
    <3>1. ASSUME NEW w, w = [worker EXCEPT !.state = "ended", !.exitsWell = well]
          PROVE  w = [state |-> "ended", exitsWell |-> well, told |-> worker.told, asked |-> worker.asked]
      BY <1>1, <3>1, ZenonT(60) DEF WorkerType
    <3> QED BY <2>1, <3>1
  <2>3. worker' \in WorkerType /\ worker'.state = "ended"
    BY <1>1, <2>2 DEF WorkerType
  <2>4. StageOK' /\ NoStrayWorker' /\ SameTrees(run', run) /\ run' \in RunType /\ turn' \in TurnType
    BY <1>1, <2>1, <2>3 DEF StageOK, NoStrayWorker, RunIsAt, SameTrees
  <2>5. run.diffed => run'.stage \in {"close", "over"} /\ worker'.state # "running"
    BY <1>1, <2>1, <2>3 DEF DiffOK
  <2> QED BY <2>1, <2>3, <2>4, <2>5, RunMoves
<1>5. CASE StrayEnds
  <2>1. UNCHANGED <<backend, run, worker, files, turn>> /\ stray' \subseteq stray
    BY <1>5 DEF StrayEnds
  <2>2. RuntimeTypes' /\ StageOK' /\ NoStrayWorker'
    BY <1>1, <2>1 DEF RuntimeTypes, StageOK, NoStrayWorker, RunIsAt
  <2>3. DiffOK' /\ ChangesReported'
    BY <1>1, <2>1 DEF DiffOK, ChangesReported, SnapshotOf
  <2> QED BY <2>2, <2>3 DEF RuntimeInv
<1>6. QED
  BY <1>2, <1>3, <1>4, <1>5 DEF ProcessStep, Dies

\* The abort and the half second of Pi.
LEMMA AbortKeeps ==
  ASSUME RuntimeInv, Abort \/ StopTimer
  PROVE  RuntimeInv'
<1>1. /\ RuntimeTypes /\ StageOK /\ DiffOK /\ NoStrayWorker
      /\ run \in RunType /\ worker \in WorkerType /\ turn \in TurnType /\ run.stage \in Stage /\ run.stopTimer \in BOOLEAN
  BY DEF RuntimeInv, RuntimeTypes, RunType, Stage
<1>2. UNCHANGED <<backend, stray, files, turn>>
  BY DEF Abort, StopTimer
<1>3. \E b \in BOOLEAN : run' = [run EXCEPT !.aborted = TRUE, !.stopTimer = b] \/ run' = [run EXCEPT !.stopTimer = b]
  <2>1. CASE Abort
    <3> DEFINE b == run.stopTimer \/ (RunListens /\ backend = "pi")
    <3>1. run' = [run EXCEPT !.aborted = TRUE, !.stopTimer = b] /\ b \in BOOLEAN
      BY <2>1 DEF Abort
    <3> HIDE DEF b
    <3> QED BY <3>1
  <2>2. CASE StopTimer
    BY <2>2 DEF StopTimer
  <2> QED BY <2>1, <2>2
<1>4. run' \in RunType /\ SameTrees(run', run) /\ run'.stage = run.stage
  <2>1. PICK b \in BOOLEAN : run' = [run EXCEPT !.aborted = TRUE, !.stopTimer = b] \/ run' = [run EXCEPT !.stopTimer = b]
    BY <1>3
  <2>2. CASE run' = [run EXCEPT !.aborted = TRUE, !.stopTimer = b]
    BY <1>1, <2>2, RunAborts
  <2>3. CASE run' = [run EXCEPT !.stopTimer = b]
    BY <1>1, <2>3, RunIsTimed
  <2> QED BY <2>1, <2>2, <2>3
<1>5. worker' \in {worker, StopWorker(worker), [worker EXCEPT !.told = TRUE]}
  BY DEF Abort, StopTimer
<1>6. worker' \in WorkerType /\ worker'.state = worker.state
  BY <1>1, <1>5, WorkerGoesOn
<1>7. StageOK' /\ NoStrayWorker' /\ turn' \in TurnType
  BY <1>1, <1>2, <1>4, <1>6 DEF StageOK, NoStrayWorker, RunIsAt
<1>8. run.diffed => run'.stage \in {"close", "over"} /\ worker'.state # "running"
  BY <1>1, <1>4, <1>6 DEF DiffOK
<1>9. QED
  BY <1>2, <1>4, <1>6, <1>7, <1>8, RunMoves

\* The lines are read.
LEMMA ReadKeeps ==
  ASSUME RuntimeInv, ReadStep
  PROVE  RuntimeInv'
<1>1. /\ RuntimeTypes /\ StageOK /\ DiffOK /\ NoStrayWorker
      /\ run \in RunType /\ worker \in WorkerType /\ turn \in TurnType
  BY DEF RuntimeInv, RuntimeTypes
<1>2. /\ run.stage = "read" /\ UNCHANGED <<backend, worker, stray, files>>
  BY DEF ReadStep, ReadInvalid, ReadTerminal, ReadToEnd, ReadEvent, ReadTerminalCodex, Reads, RunIsAt
<1>3. turn.state = "streaming" /\ worker' = worker
  BY <1>1, <1>2 DEF StageOK
<1>4. {"read", "exit", "close"} \subseteq Stage /\ FALSE \in BOOLEAN /\ TRUE \in BOOLEAN
  BY DEF Stage
<1>5. CASE Throws
  <2>1. run' = [run EXCEPT !.stage = "close"] /\ turn' = [turn EXCEPT !.completed = FALSE]
    BY <1>5 DEF Throws, Closing
  <2>2. run' \in RunType /\ SameTrees(run', run) /\ run'.stage = "close"
    BY <1>1, <1>4, <2>1, RunGoesTo
  <2>3. turn' \in TurnType /\ turn'.state = turn.state /\ turn'.completed = FALSE /\ turn'.number = turn.number
    BY <1>1, <2>1 DEF TurnType
  <2> QED BY <1>1, <1>2, <1>3, <1>4, <2>2, <2>3, RunMovesOn
<1>6. CASE UNCHANGED <<run, turn>>
  BY <1>2, <1>6, RuntimeStays
<1>7. CASE /\ backend = "codex" /\ run' = [run EXCEPT !.terminal = "completed"]
           /\ turn' = [turn EXCEPT !.completed = TRUE]
  <2>1. run' \in RunType /\ SameTrees(run', run) /\ run'.stage = "read"
    BY <1>1, <1>2, <1>4, <1>7, RunKeepsEvent
  <2>2. turn' \in TurnType /\ turn'.state = turn.state /\ turn'.number = turn.number
    BY <1>1, <1>7 DEF TurnType
  <2> QED BY <1>1, <1>2, <1>3, <1>4, <1>7, <2>1, <2>2, RunMovesOn
<1>8. CASE ReadTerminal
  <2> DEFINE stage == IF backend = "pi" THEN "exit" ELSE "read"
             b == run.stopTimer \/ backend = "pi"
  <2>1. /\ run' = [run EXCEPT !.terminal = Head(pipe), !.stage = stage, !.stopTimer = b]
        /\ Head(pipe) \in {"completed", "failed"} /\ backend # "codex" /\ UNCHANGED turn
    BY <1>8 DEF ReadTerminal, TerminalLine
  <2>2. stage \in Stage /\ stage \in {"exit", "read"} /\ (stage = "exit" => backend = "pi") /\ b \in BOOLEAN
    BY <1>1, <1>4 DEF RunType
  <2> HIDE DEF stage, b
  <2>3. run' \in RunType /\ SameTrees(run', run) /\ run'.stage = stage
    <3>1. ASSUME NEW q, q = [run EXCEPT !.terminal = Head(pipe), !.stage = stage, !.stopTimer = b]
          PROVE  q = RunRecord(stage, run.aborted, Head(pipe), b, run.readCompleted, run.before, run.gitWorks,
                               run.start, run.changed, run.diffed, run.alone)
      BY <1>1, <3>1, ZenonT(60) DEF RunRecord, RunType
    <3>2. run' = RunRecord(stage, run.aborted, Head(pipe), b, run.readCompleted, run.before, run.gitWorks,
                           run.start, run.changed, run.diffed, run.alone)
      BY <2>1, <3>1
    <3>3. stage \in Stage /\ b \in BOOLEAN /\ Head(pipe) \in {"none", "completed", "failed"}
      BY <2>1, <2>2
    <3> QED BY <1>1, <3>2, <3>3 DEF RunRecord, RunType, Stage, SameTrees
  <2> QED BY <1>1, <1>2, <1>3, <1>4, <2>1, <2>2, <2>3, RunMovesOn
<1>9. CASE ReadToEnd
  <2>1. run' = [run EXCEPT !.stage = "exit"] /\ worker.state = "ended" /\ UNCHANGED turn
    BY <1>9 DEF ReadToEnd
  <2>2. run' \in RunType /\ SameTrees(run', run) /\ run'.stage = "exit"
    BY <1>1, <1>4, <2>1, RunGoesTo
  <2> QED BY <1>1, <1>2, <1>3, <1>4, <2>1, <2>2, RunMovesOn
<1>10. QED
  BY <1>5, <1>6, <1>7, <1>8, <1>9 DEF ReadStep, ReadInvalid, ReadEvent, ReadTerminalCodex

\* The exit is awaited and the worktree compared.
LEMMA ExitKeeps ==
  ASSUME RuntimeInv, ExitStep
  PROVE  RuntimeInv'
<1>1. /\ RuntimeTypes /\ StageOK /\ DiffOK /\ NoStrayWorker
      /\ run \in RunType /\ worker \in WorkerType /\ turn \in TurnType /\ files \in Worktree
  BY DEF RuntimeInv, RuntimeTypes
<1>2. UNCHANGED <<backend, worker, stray, files>> /\ worker' = worker
  BY DEF ExitStep, ExitCodex, ExitClaude, ExitPi, Diffed
<1>3. turn.state = "streaming" /\ worker.state = "ended"
  BY <1>1 DEF ExitStep, ExitCodex, ExitClaude, ExitPi, Diffed, StageOK, RunIsAt
<1>4. {"close", "diff"} \subseteq Stage
  BY DEF Stage
<1>5. CASE ExitCodex
  <2>1. run.stage = "exit" /\ run' = [run EXCEPT !.stage = "close"] /\ UNCHANGED turn
    BY <1>5 DEF ExitCodex, Closing, RunIsAt
  <2>2. run' \in RunType /\ SameTrees(run', run) /\ run'.stage = "close"
    BY <1>1, <1>4, <2>1, RunGoesTo
  <2> QED BY <1>1, <1>2, <1>3, <1>4, <2>1, <2>2, RunMovesOn
<1>6. CASE ExitClaude /\ run.aborted
  <2>1. /\ run.stage = "exit" /\ run' = [[run EXCEPT !.readCompleted = TRUE] EXCEPT !.stage = "close"]
        /\ turn' = [turn EXCEPT !.completed = ("cancelled" = "completed")]
    BY <1>6 DEF ExitClaude, Finishes, RunIsAt
  <2>2. run' \in RunType /\ SameTrees(run', run) /\ run'.stage = "close"
    <3>1. ASSUME NEW q, q = [[run EXCEPT !.readCompleted = TRUE] EXCEPT !.stage = "close"]
          PROVE  q = RunRecord("close", run.aborted, run.terminal, run.stopTimer, TRUE, run.before, run.gitWorks,
                               run.start, run.changed, run.diffed, run.alone)
      BY <1>1, <3>1, ZenonT(60) DEF RunRecord, RunType
    <3>2. run' = RunRecord("close", run.aborted, run.terminal, run.stopTimer, TRUE, run.before, run.gitWorks,
                           run.start, run.changed, run.diffed, run.alone)
      BY <2>1, <3>1
    <3> QED BY <1>1, <3>2 DEF RunRecord, RunType, SameTrees
  <2>3. turn' \in TurnType /\ turn'.state = turn.state /\ turn'.number = turn.number
    BY <1>1, <2>1 DEF TurnType
  <2> QED BY <1>1, <1>2, <1>3, <1>4, <2>1, <2>2, <2>3, RunMovesOn
<1>7. CASE ExitPi \/ (ExitClaude /\ ~run.aborted)
  <2>1. /\ run.stage = "exit" /\ run' = [run EXCEPT !.stage = "diff", !.readCompleted = TRUE]
        /\ UNCHANGED turn /\ backend # "codex"
    BY <1>7 DEF ExitClaude, ExitPi, RunIsAt
  <2>2. run' \in RunType /\ SameTrees(run', run) /\ run'.stage = "diff"
    <3>1. ASSUME NEW q, q = [run EXCEPT !.stage = "diff", !.readCompleted = TRUE]
          PROVE  q = RunRecord("diff", run.aborted, run.terminal, run.stopTimer, TRUE, run.before, run.gitWorks,
                               run.start, run.changed, run.diffed, run.alone)
      BY <1>1, <3>1, ZenonT(60) DEF RunRecord, RunType
    <3>2. run' = RunRecord("diff", run.aborted, run.terminal, run.stopTimer, TRUE, run.before, run.gitWorks,
                           run.start, run.changed, run.diffed, run.alone)
      BY <2>1, <3>1
    <3> QED BY <1>1, <3>2 DEF RunRecord, RunType, SameTrees
  <2> QED BY <1>1, <1>2, <1>3, <1>4, <2>1, <2>2, RunMovesOn
<1>8. ASSUME NEW works \in BOOLEAN, NEW isRecorded \in BOOLEAN, Diffed(works, isRecorded) PROVE RuntimeInv'
  <2> DEFINE changed == ChangedFiles(works)
             git == run.gitWorks /\ works
  <2>1. /\ run.stage = "diff" /\ \E e \in BOOLEAN : turn' = [turn EXCEPT !.completed = e]
        /\ run' = [[run EXCEPT !.changed = changed, !.gitWorks = git, !.diffed = TRUE] EXCEPT !.stage = "close"]
    BY <1>8 DEF Diffed, Finishes, RunIsAt
  <2>2. changed \in SUBSET Path /\ git \in BOOLEAN
    BY <1>1 DEF ChangedFiles
  <2>3. run' = RunRecord("close", run.aborted, run.terminal, run.stopTimer, run.readCompleted, run.before,
                         git, run.start, changed, TRUE, run.alone)
    <3> HIDE DEF changed, git
    <3>1. ASSUME NEW q, q = [[run EXCEPT !.changed = changed, !.gitWorks = git, !.diffed = TRUE] EXCEPT !.stage = "close"]
          PROVE  q = RunRecord("close", run.aborted, run.terminal, run.stopTimer, run.readCompleted, run.before,
                               git, run.start, changed, TRUE, run.alone)
      BY <1>1, <3>1, ZenonT(60) DEF RunRecord, RunType
    <3> QED BY <2>1, <3>1
  <2>4. /\ run' \in RunType /\ run'.stage = "close" /\ run'.start = run.start /\ run'.alone = run.alone
        /\ run'.before = run.before /\ run'.gitWorks = git /\ run'.changed = changed
    <3> HIDE DEF changed, git
    <3> QED BY <1>1, <2>2, <2>3 DEF RunRecord, RunType
  <2>5. turn' \in TurnType /\ turn'.state = turn.state /\ turn'.number = turn.number
    BY <1>1, <2>1 DEF TurnType
  <2>6. RuntimeTypes'
    BY <1>1, <1>2, <2>4, <2>5 DEF RuntimeTypes
  <2>7. StageOK' /\ NoStrayWorker'
    BY <1>1, <1>2, <1>3, <2>4, <2>5 DEF StageOK, NoStrayWorker, RunIsAt
  <2>8. DiffOK'
    BY <1>1, <1>2, <1>3, <2>4, <2>5 DEF DiffOK, SnapshotOf
  <2>9. ChangesReported'
    <3> SUFFICES ASSUME git, NEW p \in Path
                 PROVE  /\ p \in changed => files[p] # run.start[p]
                        /\ files[p] # run.start[p] => p \in changed \/ files[p] = "committed"
      BY <1>2, <2>4 DEF ChangesReported
    <3>1. run.before = SnapshotOf(run.start, TRUE) /\ works
      BY <1>1, <2>1 DEF DiffOK, StageOK
    <3>2. p \in changed <=> SnapshotOf(run.start, TRUE)[p] # SnapshotOf(files, TRUE)[p]
      BY <3>1 DEF ChangedFiles
    <3>3. files[p] \in FileState /\ run.start[p] \in FileState /\ (files[p] = "clean" => run.start[p] = "clean")
      BY <1>1 DEF DiffOK, RunType, Worktree
    <3> HIDE DEF changed
    <3> QED BY <3>2, <3>3 DEF SnapshotOf, FileState, Dirty
  <2> QED BY <2>6, <2>7, <2>8, <2>9 DEF RuntimeInv
<1>9. QED
  BY <1>5, <1>6, <1>7, <1>8 DEF ExitStep

\* The finally.
LEMMA CloseKeeps ==
  ASSUME RuntimeInv, CloseStep
  PROVE  RuntimeInv'
<1>1. /\ RuntimeTypes /\ StageOK /\ DiffOK /\ NoStrayWorker
      /\ run \in RunType /\ worker \in WorkerType /\ turn \in TurnType
  BY DEF RuntimeInv, RuntimeTypes
<1>2. UNCHANGED <<backend, stray, files, turn>> /\ run.stage = "close"
  BY DEF CloseStep, CloseCodex, CloseStops, CloseWaits, RunIsAt
<1>3. turn.state = "streaming" /\ "over" \in Stage
  BY <1>1, <1>2 DEF StageOK, Stage
<1>4. worker' \in {worker, StopWorker(worker), [worker EXCEPT !.told = TRUE]}
  BY DEF CloseStep, CloseCodex, CloseStops, CloseWaits
<1>5. worker' \in WorkerType /\ worker'.state = worker.state
  BY <1>1, <1>4, WorkerGoesOn
<1>6. CASE CloseStops
  <2>1. UNCHANGED run
    BY <1>6 DEF CloseStops
  <2>2. StageOK' /\ NoStrayWorker' /\ SameTrees(run', run) /\ run' \in RunType /\ turn' \in TurnType
    BY <1>1, <1>2, <1>5, <2>1 DEF StageOK, NoStrayWorker, RunIsAt, SameTrees
  <2>3. run.diffed => run'.stage \in {"close", "over"} /\ worker'.state # "running"
    BY <1>1, <1>5, <2>1 DEF DiffOK
  <2> QED BY <1>2, <1>5, <2>1, <2>2, <2>3, RunMoves
<1>7. CASE CloseCodex
  <2>1. run' = [run EXCEPT !.stage = "over"] /\ backend = "codex"
    BY <1>7 DEF CloseCodex
  <2>2. run' \in RunType /\ SameTrees(run', run) /\ run'.stage = "over"
    BY <1>1, <1>3, <2>1, RunGoesTo
  <2>3. worker'.state = "running" => ~turn'.completed
    BY <1>1, <1>2, <1>5, <2>1 DEF StageOK
  <2> QED BY <1>1, <1>2, <1>3, <1>5, <2>1, <2>2, <2>3, RunMovesOn
<1>8. CASE CloseWaits
  <2>1. run' = [run EXCEPT !.stage = "over", !.stopTimer = FALSE] /\ worker.state # "running"
    BY <1>8 DEF CloseWaits
  <2>2. run' \in RunType /\ SameTrees(run', run) /\ run'.stage = "over"
    BY <1>1, <1>3, <2>1, RunIsTimedAt
  <2> QED BY <1>1, <1>2, <1>3, <1>5, <2>1, <2>2, RunMovesOn
<1>9. QED
  BY <1>6, <1>7, <1>8 DEF CloseStep

\* What a step of the verification makes of the turn: a command more, a failure, or an end with what was found.
VerificationMoves ==
  \/ \E n \in 0..MaxCommands : turn' = [turn EXCEPT !.verified = n]
  \/ turn' = [turn EXCEPT !.state = "failed"]
  \/ \E f \in {"passed", "failed", "cancelled"} : turn' = [turn EXCEPT !.state = "completed", !.verification = f]

LEMMA VerificationGoesOn ==
  ASSUME turn \in TurnType, NEW isRecorded \in BOOLEAN, NEW status \in {"passed", "failed", "cancelled"},
         VerifyCommand(status, isRecorded) \/ Verified(isRecorded)
  PROVE  turn.state = "verifying" /\ VerificationMoves
<1>1. turn.state = "verifying"
  BY DEF VerifyCommand, Verified
<1>2. ASSUME NEW f \in {"passed", "failed", "cancelled"}, VerificationEnds(f, isRecorded)
      PROVE  VerificationMoves
  BY <1>2 DEF VerificationEnds, VerificationMoves
<1>3. CASE Verified(isRecorded)
  BY <1>2, <1>3 DEF Verified
<1>4. CASE VerifyCommand(status, isRecorded)
  <2>1. turn.verified \in 0..MaxCommands /\ turn.verified < MaxCommands
    BY <1>4 DEF VerifyCommand, TurnType
  <2>2. turn.verified + 1 \in 0..MaxCommands
    BY <2>1, RuntimeAssumption
  <2>3. CASE status = "passed"
    BY <1>4, <2>2, <2>3 DEF VerifyCommand, VerificationMoves
  <2>4. CASE status # "passed"
    BY <1>2, <1>4, <2>4 DEF VerifyCommand
  <2> QED BY <2>3, <2>4
<1> QED BY <1>1, <1>3, <1>4

LEMMA VerificationIsTyped ==
  ASSUME turn \in TurnType, turn.state = "verifying", VerificationMoves
  PROVE  /\ turn' \in TurnType /\ turn'.completed = turn.completed /\ turn'.number = turn.number
         /\ turn'.state # "streaming"
<1>1. CASE \E n \in 0..MaxCommands : turn' = [turn EXCEPT !.verified = n]
  BY <1>1 DEF TurnType
<1>2. CASE turn' = [turn EXCEPT !.state = "failed"]
  BY <1>2 DEF TurnType
<1>3. ASSUME NEW f \in {"passed", "failed", "cancelled"}, turn' = [turn EXCEPT !.state = "completed", !.verification = f]
      PROVE  /\ turn' \in TurnType /\ turn'.completed = turn.completed /\ turn'.number = turn.number
             /\ turn'.state # "streaming"
  BY <1>3 DEF TurnType
<1> QED BY <1>1, <1>2, <1>3 DEF VerificationMoves

\* What comes of the events: the verification, the owner's next turn, the death of the host.
LEMMA TurnKeeps ==
  ASSUME RuntimeInv, TurnStep
  PROVE  RuntimeInv'
<1>1. /\ RuntimeTypes /\ StageOK /\ DiffOK /\ NoStrayWorker
      /\ run \in RunType /\ worker \in WorkerType /\ turn \in TurnType
  BY DEF RuntimeInv, RuntimeTypes
<1>2. UNCHANGED <<backend, run, worker, stray, files>> /\ run.stage = "over"
  BY <1>1 DEF TurnStep, RunStreamEnds, VerifyCommand, Verified, StageOK, RunIsAt
<1>3. \/ turn.state = "streaming" /\ \E s \in {"verifying", "failed"} :
           (s = "failed" <=> ~turn.completed) /\ turn' = [turn EXCEPT !.state = s]
      \/ turn.state = "verifying" /\ VerificationMoves
  <2>1. CASE RunStreamEnds
    BY <1>1, <2>1 DEF RunStreamEnds, TurnType
  <2>2. ASSUME NEW isRecorded \in BOOLEAN, NEW status \in {"passed", "failed", "cancelled"},
               VerifyCommand(status, isRecorded) \/ Verified(isRecorded)
        PROVE  turn.state = "verifying" /\ VerificationMoves
    BY <1>1, <2>2, VerificationGoesOn
  <2> QED BY <2>1, <2>2 DEF TurnStep
<1>4. /\ turn' \in TurnType /\ turn'.completed = turn.completed /\ turn'.number = turn.number
      /\ turn'.state # "streaming" /\ (turn.state = "streaming" /\ ~turn.completed => turn'.state = "failed")
  <2>1. CASE turn.state = "streaming"
    BY <1>1, <1>3, <2>1 DEF TurnType
  <2>2. CASE turn.state = "verifying" /\ VerificationMoves
    BY <1>1, <2>2, VerificationIsTyped
  <2> QED BY <1>3, <2>1, <2>2
<1>5. worker.state = "running" => turn.state \in {"streaming", "failed"} /\ backend = "codex" /\ ~turn.completed
  BY <1>1, <1>2 DEF NoStrayWorker, RunIsAt
<1>6. turn.state \in {"streaming", "verifying"}
  BY <1>3
<1>7. StageOK' /\ SameTrees(run', run)
  <2>1. turn'.state = "verifying" => turn'.completed
    <3>1. turn.state = "streaming" \/ turn.completed
      BY <1>1, <1>3 DEF StageOK
    <3> QED BY <1>4, <3>1
  <2> QED BY <1>1, <1>2, <2>1 DEF StageOK, SameTrees
<1>8. NoStrayWorker'
  BY <1>1, <1>2, <1>4, <1>5, <1>6 DEF NoStrayWorker, RunIsAt
<1>9. run.diffed => run'.stage \in {"close", "over"} /\ worker'.state # "running"
  BY <1>1, <1>2 DEF DiffOK
<1>10. QED
  BY <1>1, <1>2, <1>4, <1>7, <1>8, <1>9, RunMoves

\* The process of the host dies, with its workers left to themselves.
LEMMA HostDiesKeeps ==
  ASSUME RuntimeInv, HostDies
  PROVE  RuntimeInv'
<1>1. /\ RuntimeTypes /\ StageOK /\ DiffOK /\ NoStrayWorker
      /\ run \in RunType /\ worker \in WorkerType /\ turn \in TurnType
  BY DEF RuntimeInv, RuntimeTypes
<1>2. /\ run' = [run EXCEPT !.stage = "over", !.stopTimer = FALSE] /\ turn' = [turn EXCEPT !.state = "lost"]
      /\ worker' = NoProcess /\ UNCHANGED <<backend, files>>
      /\ stray' \subseteq stray \cup {"survived"}
  BY DEF HostDies
<1>3. "over" \in Stage
  BY DEF Stage
<1>4. run' \in RunType /\ SameTrees(run', run) /\ run'.stage = "over"
  BY <1>1, <1>2, <1>3, RunIsTimedAt
<1>5. turn' \in TurnType /\ turn'.state = "lost" /\ turn'.number = turn.number
  BY <1>1, <1>2 DEF TurnType
<1>6. worker' \in WorkerType /\ worker'.state = "none"
  BY <1>2 DEF NoProcess, WorkerType
<1>7. RuntimeTypes' /\ StageOK'
  BY <1>1, <1>2, <1>4, <1>5, <1>6 DEF RuntimeTypes, StageOK
<1>8. NoStrayWorker'
  BY <1>1, <1>2, <1>4, <1>5, <1>6 DEF NoStrayWorker, RunIsAt
<1>9. DiffOK' /\ ChangesReported'
  BY <1>1, <1>2, <1>4, <1>5, <1>6 DEF DiffOK, ChangesReported, SameTrees
<1>10. QED
  BY <1>7, <1>8, <1>9 DEF RuntimeInv

LEMMA NextTurnRecord ==
  ASSUME NEW u \in TurnType, NEW n, NEW q,
         q = [u EXCEPT !.state = "streaming", !.completed = FALSE, !.verified = 0, !.number = n,
                       !.verification = "none"]
  PROVE  q = [state |-> "streaming", completed |-> FALSE, verified |-> 0, number |-> n, verification |-> "none"]
BY ZenonT(60) DEF TurnType

\* The next turn starts in the worktree as it is, with what was left behind.
LEMMA NextTurnKeeps ==
  ASSUME RuntimeInv, NextTurn
  PROVE  RuntimeInv'
<1>1. /\ RuntimeTypes /\ StageOK /\ DiffOK /\ NoStrayWorker
      /\ run \in RunType /\ worker \in WorkerType /\ turn \in TurnType /\ files \in Worktree
  BY DEF RuntimeInv, RuntimeTypes
<1>2. /\ turn.state = "completed" \/ (turn.state \in {"failed", "lost"} /\ turn.number > 1)
      /\ turn.number < MaxTurns /\ UNCHANGED <<backend, files>>
      /\ turn' = [turn EXCEPT !.state = "streaming", !.completed = FALSE, !.verified = 0, !.number = turn.number + 1,
                             !.verification = "none"]
      /\ stray' = stray \cup (IF worker.state = "running" THEN {"left"} ELSE {})
      /\ run' = NewRun("idle", files, stray') /\ worker' = NoProcess
  BY DEF NextTurn
<1>3. turn' = [state |-> "streaming", completed |-> FALSE, verified |-> 0, number |-> turn.number + 1,
                verification |-> "none"]
  BY <1>1, <1>2, NextTurnRecord
<1>4. turn.number \in 1..MaxTurns /\ turn.number + 1 \in 1..MaxTurns /\ 0 \in 0..MaxCommands
  <2>1. turn.number \in 1..MaxTurns
    BY <1>1 DEF TurnType
  <2> QED BY <1>2, <2>1, RuntimeAssumption
<1>5. turn' \in TurnType /\ turn'.state = "streaming" /\ turn'.number = turn.number + 1
  BY <1>3, <1>4 DEF TurnType
<1>6. /\ run' \in RunType /\ run'.stage = "idle" /\ run'.start = files /\ run'.diffed = FALSE
      /\ run'.alone = (stray' = {})
  <2>1. [p \in Path |-> "clean"] \in Worktree
    BY DEF Worktree, FileState
  <2> QED BY <1>1, <1>2, <2>1 DEF NewRun, RunType
<1>7. worker' \in WorkerType /\ worker'.state = "none"
  BY <1>2 DEF NoProcess, WorkerType
<1>8. stray' \subseteq {"left", "survived"}
  BY <1>1, <1>2 DEF RuntimeTypes
<1>9. RuntimeTypes' /\ StageOK'
  BY <1>1, <1>2, <1>5, <1>6, <1>7, <1>8 DEF RuntimeTypes, StageOK
<1>10. NoStrayWorker'
  <2>1. run.stage = "over"
    BY <1>1, <1>2 DEF StageOK
  <2>2. "left" \in stray' => backend = "codex" /\ turn.number > 1
    BY <1>1, <1>2, <1>4, <2>1 DEF NoStrayWorker, RunIsAt
  <2>3. turn.number > 1 => turn'.number > 2
    BY <1>4, <1>5
  <2> QED BY <1>2, <1>6, <2>2, <2>3 DEF NoStrayWorker, RunIsAt
<1>11. DiffOK' /\ ChangesReported'
  BY <1>1, <1>2, <1>5, <1>6, <1>7 DEF DiffOK, ChangesReported
<1>12. QED
  BY <1>9, <1>10, <1>11 DEF RuntimeInv

\* Every step of a worker.
LEMMA RuntimeStep ==
  ASSUME RuntimeInv, [RuntimeNext]_runtimeVars
  PROVE  RuntimeInv'
<1>1. CASE UNCHANGED runtimeVars
  BY <1>1, RuntimeStays DEF runtimeVars
<1>2. CASE RuntimeNext
  BY <1>2, RunStartKeeps, ProcessKeeps, HostDiesKeeps, AbortKeeps, ReadKeeps, ExitKeeps, CloseKeeps, TurnKeeps,
     NextTurnKeeps DEF RuntimeNext
<1>3. QED
  BY <1>1, <1>2

\* The first run begins in a clean worktree.
LEMMA RuntimeBegins ==
  ASSUME RuntimeInit
  PROVE  RuntimeInv
<1>1. [p \in Path |-> "clean"] \in Worktree
  BY DEF Worktree, FileState
<1>2. /\ backend \in Backend /\ files = [p \in Path |-> "clean"] /\ stray = {} /\ worker = NoProcess
      /\ run = NewRun("create", files, {})
      /\ turn = [state |-> "streaming", completed |-> FALSE, verified |-> 0, number |-> 1, verification |-> "none"]
  BY DEF RuntimeInit
<1>3. run \in RunType /\ run.stage = "create" /\ run.start = files /\ run.diffed = FALSE
  BY <1>1, <1>2 DEF NewRun, RunType
<1>4. worker \in WorkerType /\ worker.state = "none"
  BY <1>2 DEF NoProcess, WorkerType
<1>5. turn \in TurnType /\ turn.state = "streaming"
  BY <1>2, RuntimeAssumption DEF TurnType
<1>6. RuntimeTypes /\ StageOK
  BY <1>1, <1>2, <1>3, <1>4, <1>5 DEF RuntimeTypes, StageOK
<1>7. DiffOK /\ NoStrayWorker /\ ChangesReported
  BY <1>2, <1>3, <1>4 DEF DiffOK, NoStrayWorker, ChangesReported, RunIsAt
<1>8. QED
  BY <1>6, <1>7 DEF RuntimeInv

\* The lines on the way are events, no more than there is room for.
PipeInv == pipe \in Seq(Line) /\ Len(pipe) <= MaxOutput

\* What the tables adapt the lines of the CLIs to.
Adapts(table) == \A line \in DOMAIN table : table[line] \in Line \cup {"none"}

LEMMA LinesAreAdapted == \A b \in Backend : Adapts(Adapt[b])
<1>1. Adapts(AdaptCodexEvent)
  BY DEF Adapts, AdaptCodexEvent, Line
<1>2. Adapts(AdaptClaudeEvent)
  BY DEF Adapts, AdaptClaudeEvent, Line
<1>3. Adapts(AdaptPiEvent)
  BY DEF Adapts, AdaptPiEvent, Line
<1>4. QED
  BY <1>1, <1>2, <1>3 DEF Backend, Adapt

LEMMA PipeBegins ==
  ASSUME RuntimeInit
  PROVE  PipeInv
BY RuntimeAssumption DEF RuntimeInit, PipeInv

LEMMA PipeStep ==
  ASSUME PipeInv, backend \in Backend, [RuntimeNext]_runtimeVars
  PROVE  PipeInv'
<1>1. CASE UNCHANGED pipe
  BY <1>1 DEF PipeInv
<1>2. CASE pipe' = Tail(pipe) /\ pipe # <<>>
  <2>1. Tail(pipe) \in Seq(Line) /\ Len(Tail(pipe)) = Len(pipe) - 1 /\ Len(pipe) \in Nat
    BY <1>2, HeadTailProperties DEF PipeInv
  <2> QED BY <1>2, <2>1, RuntimeAssumption DEF PipeInv
<1>3. CASE pipe' = <<>>
  BY <1>3, RuntimeAssumption DEF PipeInv
<1>4. ASSUME NEW line \in DOMAIN Adapt[backend], Prints(line)
      PROVE  PipeInv'
  <2>1. Adapt[backend][line] \in Line
    BY <1>4, LinesAreAdapted DEF Prints, Adapts
  <2>2. Len(pipe) < MaxOutput /\ pipe' = Append(pipe, Adapt[backend][line])
    BY <1>4 DEF Prints
  <2> QED BY <2>1, <2>2, AppendProperties, RuntimeAssumption DEF PipeInv
<1>5. CASE ReadStep
  BY <1>1, <1>2, <1>5 DEF ReadStep, ReadInvalid, ReadTerminal, ReadToEnd, ReadEvent, ReadTerminalCodex, Reads
<1>6. CASE StartWorker \/ ExitStep \/ CloseStep
  BY <1>1, <1>6 DEF StartWorker, CreateWorktree, StartCodex, StartSnapshot, SnapshotTaken, Spawned, SpawnFails,
     ExitStep, ExitCodex, ExitClaude, ExitPi, Diffed, CloseStep, CloseCodex, CloseStops, CloseWaits
<1>7. CASE ProcessStep
  BY <1>1, <1>4, <1>7 DEF ProcessStep, Writes, Ends
<1>8. CASE TurnStep \/ Dies \/ StrayEnds \/ HostDies \/ Abort \/ StopTimer
  BY <1>1, <1>8 DEF TurnStep, RunStreamEnds, VerifyCommand, Verified, Dies, StrayEnds, HostDies, Abort, StopTimer, Ends
<1>9. CASE NextTurn
  BY <1>3, <1>9 DEF NextTurn
<1>10. QED
  BY <1>1, <1>5, <1>6, <1>7, <1>8, <1>9 DEF RuntimeNext, runtimeVars

\* A turn completes where its verification ends, with what that found.
LEMMA TurnCompletesAsVerified ==
  ASSUME RuntimeInv, [RuntimeNext]_runtimeVars, turn.state # "completed", turn'.state = "completed"
  PROVE  /\ turn.completed
         /\ turn'.verification = "passed" <=> turn.verified = MaxCommands /\ ~run.aborted
         /\ turn.number = 1 => turn'.verification = "passed"
<1>1. run \in RunType /\ turn \in TurnType /\ StageOK
  BY DEF RuntimeInv, RuntimeTypes
<1>2. turn' # turn
  OBVIOUS
<1>3. ~\E e \in BOOLEAN : turn' = [turn EXCEPT !.completed = e]
  BY <1>1 DEF TurnType
<1>4. ~\E s \in {"lost", "verifying", "failed"} : turn' = [turn EXCEPT !.state = s]
  BY <1>1 DEF TurnType
<1>5. ~NextTurn
  <2>1. SUFFICES ASSUME NextTurn PROVE FALSE
    OBVIOUS
  <2>2. turn' = [turn EXCEPT !.state = "streaming", !.completed = FALSE, !.verified = 0, !.number = turn.number + 1,
                             !.verification = "none"]
    BY <2>1 DEF NextTurn
  <2>3. turn' = [state |-> "streaming", completed |-> FALSE, verified |-> 0, number |-> turn.number + 1,
                 verification |-> "none"]
    BY <1>1, <2>2, NextTurnRecord
  <2> QED BY <2>3
<1>6. ~(ReadStep \/ ExitStep \/ StartWorker)
  BY <1>2, <1>3 DEF ReadStep, ReadInvalid, ReadTerminal, ReadToEnd, ReadEvent, ReadTerminalCodex, Throws, ExitStep,
     ExitCodex, ExitClaude, ExitPi, Diffed, Finishes, StartWorker, CreateWorktree, StartCodex, StartSnapshot,
     SnapshotTaken, Spawned, SpawnFails
<1>7. ~(ProcessStep \/ Dies \/ StrayEnds \/ Abort \/ StopTimer \/ CloseStep)
  BY <1>2 DEF ProcessStep, Prints, Writes, Ends, Dies, StrayEnds, Abort, StopTimer, CloseStep, CloseCodex, CloseStops,
     CloseWaits
<1>8. ~HostDies /\ ~RunStreamEnds
  BY <1>4 DEF HostDies, RunStreamEnds
<1>9. PICK isRecorded \in BOOLEAN, status \in {"passed", "failed", "cancelled"} :
         VerifyCommand(status, isRecorded) \/ Verified(isRecorded)
  BY <1>2, <1>5, <1>6, <1>7, <1>8 DEF RuntimeNext, TurnStep, runtimeVars
<1>10. turn.state = "verifying" /\ turn.completed
  BY <1>1, <1>9 DEF VerifyCommand, Verified, StageOK
<1>11. turn.verified \in 0..MaxCommands /\ run.aborted \in BOOLEAN
  BY <1>1 DEF TurnType, RunType
<1>12. ASSUME NEW f \in {"passed", "failed", "cancelled"}, VerificationEnds(f, isRecorded)
       PROVE  turn'.verification = f /\ (f = "passed" \/ turn.number > 1)
  <2>1. isRecorded /\ (f = "passed" \/ turn.number > 1)
    BY <1>4, <1>12 DEF VerificationEnds
  <2>2. turn' = [turn EXCEPT !.state = "completed", !.verification = f]
    BY <1>12, <2>1 DEF VerificationEnds
  <2> QED BY <1>1, <2>1, <2>2 DEF TurnType
<1>13. CASE Verified(isRecorded)
  <2>1. CASE run.aborted
    BY <1>10, <1>12, <1>13, <2>1 DEF Verified
  <2>2. CASE ~run.aborted
    BY <1>10, <1>12, <1>13, <2>2 DEF Verified
  <2> QED BY <2>1, <2>2
<1>14. CASE VerifyCommand(status, isRecorded)
  <2>1. turn.verified # MaxCommands
    BY <1>11, <1>14, RuntimeAssumption DEF VerifyCommand
  <2>2. status # "passed"
    <3>1. SUFFICES ASSUME status = "passed" PROVE FALSE
      OBVIOUS
    <3>2. turn' = [turn EXCEPT !.verified = turn.verified + 1]
      BY <1>14, <3>1 DEF VerifyCommand
    <3> QED BY <1>1, <3>2 DEF TurnType
  <2>3. VerificationEnds(status, isRecorded)
    BY <1>14, <2>2 DEF VerifyCommand
  <2>4. turn'.verification = status /\ (status = "passed" \/ turn.number > 1)
    BY <1>12, <2>3
  <2>5. turn.number \in 1..MaxTurns
    BY <1>1 DEF TurnType
  <2> QED BY <1>10, <2>1, <2>2, <2>4, <2>5, RuntimeAssumption
<1> QED BY <1>9, <1>13, <1>14

=============================================================================
