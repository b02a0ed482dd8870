--------------------------- MODULE AutomationProofs ---------------------------
(***************************************************************************)
(* For any number of jobs, intents and plans, whatever the bounds: the     *)
(* types of Automation, that jobs and intents keep their terms, and that   *)
(* nothing is claimed while the host stops.                                *)
(*                                                                         *)
(* A plan is made some steps after the claim that it is for, and recorded  *)
(* some steps later; requests, the other loop and crashes come in between. *)
(* The invariant says what the two loops have in hand on that way: that    *)
(* what has been claimed has no plan yet, and that the plan to be recorded *)
(* was made for the row that is about to name it.                          *)
(***************************************************************************)
EXTENDS Automation, TLAPS, FiniteSetTheorems

JobRows == {j \in Job : job[j] # NoRow}
IntentRows == {i \in Intent : intent[i] # NoRow}

LoopState == [at : Pc, todo : Seq(Job) \cup Seq(Intent), parent : Parent \cup {NoParent}]
Origin == [by : Job \cup Intent \cup {"owner", "remote", "none"}, fire : Nat]

\* The types, with those of the histories and of the sequences; the tables are finite.
AutomationTypes ==
  /\ now \in 0..MaxTime /\ host \in {"up", "stopping", "down"}
  /\ job \in [Job -> JobRow \cup {NoRow}] /\ IsFiniteSet(JobRows)
  /\ intent \in [Intent -> IntentRow \cup {NoRow}] /\ IsFiniteSet(IntentRows)
  /\ work \in [Parent -> {"none", "open", "ended"}]
  /\ events \in Seq([type : EventType, actor : {"owner", "remote"}])
  /\ loop \in [{"drain", "handler"} -> LoopState]
  /\ origin \in [Parent -> Origin]
  /\ \A p \in Parent : origin[p].by = "none" <=> work[p] = "none"
  /\ fires \in [Intent -> Seq(Nat)]

\* A job has one plan at most, and only once it was claimed; its row names that one.
JobOK(j) ==
  /\ \A p \in Parent : origin[p].by = j => j \in JobRows /\ job[j].fired /\ ~job[j].cancelled
  /\ \A p, q \in Parent : origin[p].by = j /\ origin[q].by = j => p = q
  /\ j \in JobRows /\ job[j].parent # NoParent =>
       origin[job[j].parent].by = j /\ ~job[j].failed
JobsOK == \A j \in Job : JobOK(j)

\* The fires of an intent are counted, within its terms, and each has one plan at
\* most; the row names the plan of the last one.
IntentOK(i) ==
  /\ IF i \in IntentRows
       THEN Len(fires[i]) = intent[i].count /\ intent[i].count <= intent[i].maxFires
       ELSE fires[i] = <<>>
  /\ \A n \in 1..Len(fires[i]) :
       /\ fires[i][n] < intent[i].expires
       /\ n > 1 => fires[i][n] - fires[i][n - 1] >= intent[i].cooldown
  /\ \A p \in Parent : origin[p].by = i => origin[p].fire \in 1..Len(fires[i])
  /\ \A p, q \in Parent :
       origin[p].by = i /\ origin[q].by = i /\ origin[p].fire = origin[q].fire => p = q
  /\ i \in IntentRows /\ intent[i].parent # NoParent =>
       /\ origin[intent[i].parent] = [by |-> i, fire |-> intent[i].count]
       /\ ~intent[i].failed
IntentsOK == \A i \in Intent : IntentOK(i)

\* The drain: the job in hand is claimed, and has no plan before there is one to record.
DrainOK ==
  LET drain == loop["drain"] IN
  /\ drain.todo \in Seq(Job) /\ \A n \in 1..Len(drain.todo) : drain.todo[n] \in JobRows
  /\ drain.at \in {"firing", "planned", "failing", "audit"} => drain.todo # <<>>
  /\ drain.at \in {"firing", "planned", "failing"} =>
       job[drain.todo[1]].fired /\ ~job[drain.todo[1]].cancelled
  /\ drain.at = "firing" => \A p \in Parent : origin[p].by # drain.todo[1]
  /\ IF drain.at = "planned"
       THEN drain.parent \in Parent /\ origin[drain.parent].by = drain.todo[1]
       ELSE drain.parent = NoParent

\* The last fire of an intent was counted and has no plan yet.
Unplanned(i) ==
  /\ intent[i].count > 0
  /\ \A p \in Parent : origin[p].by = i => origin[p].fire # intent[i].count

\* The handler: all that one event fired was claimed at once, and the intents it has
\* not got to have no plan for that fire.
HandlerOK ==
  LET handler == loop["handler"] IN
  /\ handler.at # "next"
  /\ handler.todo \in Seq(Intent) /\ \A n \in 1..Len(handler.todo) : handler.todo[n] \in IntentRows
  /\ \A m, n \in 1..Len(handler.todo) : handler.todo[m] = handler.todo[n] => m = n
  /\ handler.at # "idle" => handler.todo # <<>>
  /\ handler.at # "idle" =>
       \A n \in 1..Len(handler.todo) : n > 1 \/ handler.at = "firing" => Unplanned(handler.todo[n])
  /\ IF handler.at = "planned"
       THEN /\ handler.parent \in Parent
            /\ origin[handler.parent] = [by |-> handler.todo[1], fire |-> intent[handler.todo[1]].count]
       ELSE handler.parent = NoParent

AutomationInv == AutomationTypes /\ JobsOK /\ IntentsOK /\ DrainOK /\ HandlerOK

-----------------------------------------------------------------------------
(* Sequences *)

\* Elements, head and rest of a sequence.
LEMMA SeqFacts ==
  ASSUME NEW S, NEW s \in Seq(S)
  PROVE  /\ Len(s) \in Nat /\ DOMAIN s = 1..Len(s) /\ \A n \in 1..Len(s) : s[n] \in S
         /\ s # <<>> => /\ Len(s) > 0 /\ Head(s) = s[1] /\ Head(s) \in S
                        /\ Tail(s) \in Seq(S) /\ Len(Tail(s)) = Len(s) - 1
                        /\ \A n \in 1..Len(Tail(s)) : Tail(s)[n] = s[n + 1]
OBVIOUS

\* What holds of all elements holds of those of the rest.
LEMMA RestIn ==
  ASSUME NEW S, NEW T, NEW s \in Seq(S), s # <<>>, \A n \in 1..Len(s) : s[n] \in T
  PROVE  Tail(s) \in Seq(S) /\ \A n \in 1..Len(Tail(s)) : Tail(s)[n] \in T
<1>1. /\ Len(s) \in Nat /\ Tail(s) \in Seq(S) /\ Len(Tail(s)) = Len(s) - 1
      /\ \A n \in 1..Len(Tail(s)) : Tail(s)[n] = s[n + 1]
  BY SeqFacts
<1>2. \A n \in 1..Len(Tail(s)) : n + 1 \in 1..Len(s)
  BY <1>1
<1>3. QED
  BY <1>1, <1>2

\* One more element at the end.
LEMMA AppendFacts ==
  ASSUME NEW S, NEW s \in Seq(S), NEW x \in S
  PROVE  /\ Append(s, x) \in Seq(S) /\ Len(Append(s, x)) = Len(s) + 1
         /\ \A n \in 1..Len(s) : Append(s, x)[n] = s[n]
         /\ Append(s, x)[Len(s) + 1] = x
OBVIOUS

\* An order in which a finite set is visited names each member once.
LEMMA OrderFacts ==
  ASSUME NEW S, IsFiniteSet(S), NEW s \in SetToSeqs(S)
  PROVE  s \in Seq(S) /\ \A m, n \in 1..Len(s) : s[m] = s[n] => m = n
<1>1. PICK c \in Nat : c = Cardinality(S)
  BY FS_CardinalityType
<1>2. s \in [1..c -> S] /\ \A m, n \in 1..c : m # n => s[m] # s[n]
  BY <1>1 DEF SetToSeqs
<1>3. s \in Seq(S) /\ Len(s) = c
  BY <1>2
<1>4. QED
  BY <1>2, <1>3

\* The beginning of a sequence, as far as the batch allows.
LEMMA BatchFacts ==
  ASSUME NEW S, NEW s \in Seq(S)
  PROVE  LET batch == SubSeq(s, 1, IF Len(s) < MaxBatch THEN Len(s) ELSE MaxBatch)
         IN  batch \in Seq(S) /\ \A n \in 1..Len(batch) : batch[n] \in S
<1>1. Len(s) \in Nat /\ MaxBatch \in Nat
  BY AutomationAssumption
<1>2. PICK n \in Nat : n = (IF Len(s) < MaxBatch THEN Len(s) ELSE MaxBatch) /\ n <= Len(s)
  BY <1>1
<1>3. SubSeq(s, 1, n) \in Seq(S)
  BY <1>1, <1>2
<1>4. QED
  BY <1>2, <1>3, SeqFacts

-----------------------------------------------------------------------------
(* What a step leaves alone *)

\* Where the loops are: what moves one leaves the other.
LEMMA LoopMoves ==
  ASSUME AutomationTypes, NEW k \in {"drain", "handler"}, NEW r \in LoopState,
         loop' = [loop EXCEPT ![k] = r]
  PROVE  /\ loop' \in [{"drain", "handler"} -> LoopState] /\ loop'[k] = r
         /\ \A l \in {"drain", "handler"} \ {k} : loop'[l] = loop[l]
BY DEF AutomationTypes

\* A loop that goes on with what it has in hand.
LEMMA GotoMoves ==
  ASSUME AutomationTypes, NEW k \in {"drain", "handler"}, NEW at \in Pc,
         NEW p \in Parent \cup {NoParent}, Goto(k, at, p)
  PROVE  /\ loop' \in [{"drain", "handler"} -> LoopState]
         /\ loop'[k] = [at |-> at, todo |-> loop[k].todo, parent |-> p]
         /\ \A l \in {"drain", "handler"} \ {k} : loop'[l] = loop[l]
<1>1. loop \in [{"drain", "handler"} -> LoopState]
      /\ loop' = [loop EXCEPT ![k].at = at, ![k].parent = p]
  BY DEF AutomationTypes, Goto
<1>2. loop'[k] = [at |-> at, todo |-> loop[k].todo, parent |-> p]
  BY <1>1, ZenonT(30) DEF LoopState
<1>3. [at |-> at, todo |-> loop[k].todo, parent |-> p] \in LoopState
  BY <1>1 DEF LoopState
<1>4. loop' = [loop EXCEPT ![k] = loop'[k]]
  BY <1>1
<1>5. QED
  BY <1>1, <1>2, <1>3, <1>4

\* A loop begins a round.
LEMMA LoopingMoves ==
  ASSUME NEW at \in Pc, NEW todo \in Seq(Job) \cup Seq(Intent)
  PROVE  /\ Looping(at, todo) \in LoopState
         /\ Looping(at, todo).at = at /\ Looping(at, todo).todo = todo
         /\ Looping(at, todo).parent = NoParent
BY DEF Looping, LoopState

\* Plans are made for whom they are made and stay; a new one is not of the kind in question.
PlansStay(S) ==
  \A p \in Parent : \/ origin'[p] = origin[p]
                    \/ origin[p].by = "none" /\ origin'[p].by \notin S

\* No intent is called none, and no job.
LEMMA NoneIsNone == "none" \notin Job \cup Intent /\ "owner" \notin Job \cup Intent /\ "remote" \notin Job \cup Intent
BY AutomationAssumption

\* What the jobs' rows say stays true when they are left alone and no plan is made for a job.
LEMMA JobStays ==
  ASSUME AutomationTypes, NEW j \in Job, JobOK(j), job'[j] = job[j], PlansStay(Job)
  PROVE  JobOK(j)'
<1>1. \A p \in Parent : origin'[p].by = j => origin'[p] = origin[p]
  BY DEF PlansStay
<1>2. (j \in JobRows)' <=> j \in JobRows
  BY DEF JobRows
<1>3. j \in JobRows /\ job[j].parent # NoParent =>
        job[j].parent \in Parent /\ origin'[job[j].parent] = origin[job[j].parent]
  <2>1. j \in JobRows => job[j] \in JobRow
    BY DEF JobRows, AutomationTypes
  <2>2. j \in JobRows /\ job[j].parent # NoParent => job[j].parent \in Parent
    BY <2>1 DEF JobRow
  <2> QED BY <2>2, NoneIsNone DEF JobOK, PlansStay
<1>4. QED
  BY <1>1, <1>2, <1>3 DEF JobOK

\* The same of the intents, their rows and their fires.
LEMMA IntentStays ==
  ASSUME AutomationTypes, NEW i \in Intent, IntentOK(i),
         intent'[i] = intent[i], fires'[i] = fires[i], PlansStay(Intent)
  PROVE  IntentOK(i)'
<1>1. \A p \in Parent : origin'[p].by = i => origin'[p] = origin[p]
  BY DEF PlansStay
<1>2. (i \in IntentRows)' <=> i \in IntentRows
  BY DEF IntentRows
<1>3. i \in IntentRows /\ intent[i].parent # NoParent =>
        intent[i].parent \in Parent /\ origin'[intent[i].parent] = origin[intent[i].parent]
  <2>1. i \in IntentRows => intent[i] \in IntentRow
    BY DEF IntentRows, AutomationTypes
  <2>2. i \in IntentRows /\ intent[i].parent # NoParent => intent[i].parent \in Parent
    BY <2>1 DEF IntentRow
  <2>3. i \in IntentRows /\ intent[i].parent # NoParent => origin[intent[i].parent].by = i
    BY DEF IntentOK
  <2> QED BY <2>2, <2>3, NoneIsNone DEF PlansStay
<1>4. QED
  BY <1>1, <1>2, <1>3 DEF IntentOK

\* What the drain has in hand stays good: no job loses its row or its claim.
LEMMA DrainStays ==
  ASSUME AutomationTypes, DrainOK, loop'["drain"] = loop["drain"], PlansStay(Job),
         \A j \in JobRows : /\ job'[j] # NoRow
                            /\ job[j].fired /\ ~job[j].cancelled => job'[j].fired /\ ~job'[j].cancelled
  PROVE  DrainOK'
<1> DEFINE drain == loop["drain"]
<1>1. \A j \in JobRows : (j \in JobRows)'
  BY DEF JobRows
<1>2. drain.todo # <<>> => drain.todo[1] \in JobRows
  BY SeqFacts DEF DrainOK
<1>3. \A j \in Job : (\A p \in Parent : origin[p].by # j) => \A p \in Parent : origin'[p].by # j
  BY DEF PlansStay
<1>4. drain.at = "planned" => origin'[drain.parent] = origin[drain.parent]
  <2>1. drain.todo # <<>> => drain.todo[1] \in Job
    BY <1>2 DEF JobRows
  <2> QED BY <2>1, NoneIsNone DEF DrainOK, PlansStay
<1>5. drain.todo # <<>> => drain.todo[1] \in Job
  BY <1>2 DEF JobRows
<1>6. QED
  BY <1>1, <1>2, <1>3, <1>4, <1>5 DEF DrainOK

\* What the handler has in hand stays good: no intent loses its row or is claimed again.
LEMMA HandlerStays ==
  ASSUME AutomationTypes, HandlerOK, loop'["handler"] = loop["handler"], PlansStay(Intent),
         \A i \in IntentRows : intent'[i] # NoRow /\ intent'[i].count = intent[i].count
  PROVE  HandlerOK'
<1> DEFINE handler == loop["handler"]
<1>1. \A i \in IntentRows : (i \in IntentRows)'
  BY DEF IntentRows
<1>2. \A n \in 1..Len(handler.todo) : handler.todo[n] \in IntentRows /\ handler.todo[n] \in Intent
  BY DEF HandlerOK, IntentRows
<1>3. \A i \in IntentRows : Unplanned(i) => Unplanned(i)'
  BY DEF Unplanned, PlansStay, IntentRows
<1>4. handler.todo # <<>> => handler.todo[1] \in IntentRows /\ handler.todo[1] \in Intent
  BY <1>2, SeqFacts DEF HandlerOK
<1>5. handler.at = "planned" => origin'[handler.parent] = origin[handler.parent]
  BY <1>4, NoneIsNone DEF HandlerOK, PlansStay
<1>6. QED
  BY <1>1, <1>2, <1>3, <1>4, <1>5 DEF HandlerOK

-----------------------------------------------------------------------------
(* One row of a table is written *)

\* A job's row is written, whatever becomes of the drain.
LEMMA JobRowBecomes ==
  ASSUME AutomationInv, NEW j \in Job, NEW r \in JobRow, job' = [job EXCEPT ![j] = r],
         UNCHANGED <<now, host, intent, work, events, origin, fires>>,
         loop' \in [{"drain", "handler"} -> LoopState], loop'["handler"] = loop["handler"],
         JobOK(j)', DrainOK'
  PROVE  AutomationInv'
<1>1. AutomationTypes /\ PlansStay(Job) /\ PlansStay(Intent)
  BY DEF AutomationInv, PlansStay
<1>2. job' \in [Job -> JobRow \cup {NoRow}] /\ \A q \in Job \ {j} : job'[q] = job[q]
  BY <1>1 DEF AutomationTypes
<1>3. IsFiniteSet(JobRows')
  <2>1. JobRows' \subseteq JobRows \cup {j}
    BY <1>2 DEF JobRows
  <2>2. IsFiniteSet(JobRows \cup {j})
    BY <1>1, FS_AddElement DEF AutomationTypes
  <2> QED BY <2>1, <2>2, FS_Subset
<1>4. AutomationTypes'
  <2>1. IntentRows' = IntentRows
    BY DEF IntentRows
  <2> QED BY <1>1, <1>2, <1>3, <2>1 DEF AutomationTypes
<1>5. JobsOK'
  BY <1>1, <1>2, JobStays DEF AutomationInv, JobsOK
<1>6. IntentsOK'
  BY <1>1, IntentStays DEF AutomationInv, IntentsOK
<1>7. HandlerOK'
  BY <1>1, HandlerStays DEF AutomationInv, IntentRows
<1>8. QED
  BY <1>4, <1>5, <1>6, <1>7 DEF AutomationInv

\* An intent's row is written, whatever becomes of the handler.
LEMMA IntentRowBecomes ==
  ASSUME AutomationInv, NEW i \in Intent, NEW r \in IntentRow, intent' = [intent EXCEPT ![i] = r],
         UNCHANGED <<now, host, job, work, events, origin, fires>>,
         loop' \in [{"drain", "handler"} -> LoopState], loop'["drain"] = loop["drain"],
         IntentOK(i)', HandlerOK'
  PROVE  AutomationInv'
<1>1. AutomationTypes /\ PlansStay(Job) /\ PlansStay(Intent)
  BY DEF AutomationInv, PlansStay
<1>2. intent' \in [Intent -> IntentRow \cup {NoRow}] /\ \A q \in Intent \ {i} : intent'[q] = intent[q]
  BY <1>1 DEF AutomationTypes
<1>3. IsFiniteSet(IntentRows')
  <2>1. IntentRows' \subseteq IntentRows \cup {i}
    BY <1>2 DEF IntentRows
  <2>2. IsFiniteSet(IntentRows \cup {i})
    BY <1>1, FS_AddElement DEF AutomationTypes
  <2> QED BY <2>1, <2>2, FS_Subset
<1>4. AutomationTypes'
  <2>1. JobRows' = JobRows
    BY DEF JobRows
  <2> QED BY <1>1, <1>2, <1>3, <2>1 DEF AutomationTypes
<1>5. JobsOK'
  BY <1>1, JobStays DEF AutomationInv, JobsOK
<1>6. IntentsOK'
  BY <1>1, <1>2, IntentStays DEF AutomationInv, IntentsOK
<1>7. DrainOK'
  BY <1>1, DrainStays DEF AutomationInv, JobRows
<1>8. QED
  BY <1>4, <1>5, <1>6, <1>7 DEF AutomationInv

\* A step that writes no row and makes no plan, of which the loops come out good.
LEMMA NoRowWritten ==
  ASSUME AutomationInv, UNCHANGED <<job, intent, origin, fires>>,
         now' \in 0..MaxTime, host' \in {"up", "stopping", "down"},
         events' \in Seq([type : EventType, actor : {"owner", "remote"}]),
         work' \in [Parent -> {"none", "open", "ended"}],
         \A p \in Parent : work'[p] = "none" <=> work[p] = "none",
         loop' \in [{"drain", "handler"} -> LoopState],
         loop'["drain"] = loop["drain"] \/ DrainOK',
         loop'["handler"] = loop["handler"] \/ HandlerOK'
  PROVE  AutomationInv'
<1>1. AutomationTypes /\ PlansStay(Job) /\ PlansStay(Intent)
  BY DEF AutomationInv, PlansStay
<1>2. AutomationTypes'
  <2>1. JobRows' = JobRows /\ IntentRows' = IntentRows
    BY DEF JobRows, IntentRows
  <2> QED BY <1>1, <2>1 DEF AutomationTypes
<1>3. JobsOK'
  BY <1>1, JobStays DEF AutomationInv, JobsOK
<1>4. IntentsOK'
  BY <1>1, IntentStays DEF AutomationInv, IntentsOK
<1>5. DrainOK'
  BY <1>1, DrainStays DEF AutomationInv, JobRows
<1>6. HandlerOK'
  BY <1>1, HandlerStays DEF AutomationInv, IntentRows
<1>7. QED
  BY <1>2, <1>3, <1>4, <1>5, <1>6 DEF AutomationInv

\* A loop with nothing in hand.
LEMMA IdleIsOK ==
  /\ IdleLoop \in LoopState
  /\ (loop["drain"] = IdleLoop => DrainOK) /\ (loop["handler"] = IdleLoop => HandlerOK)
  /\ (loop["drain"] = IdleLoop => DrainOK)' /\ (loop["handler"] = IdleLoop => HandlerOK)'
<1>1. <<>> \in Seq(Job) /\ <<>> \in Seq(Intent) /\ Len(<<>>) = 0
  OBVIOUS
<1>2. /\ IdleLoop \in LoopState
      /\ IdleLoop.at = "idle" /\ IdleLoop.todo = <<>> /\ IdleLoop.parent = NoParent
  BY <1>1, LoopingMoves DEF IdleLoop, Pc
<1> HIDE DEF IdleLoop
<1>3. 1..0 = {}
  OBVIOUS
<1>4. loop["drain"] = IdleLoop => DrainOK
  BY <1>1, <1>2, <1>3 DEF DrainOK
<1>5. loop["handler"] = IdleLoop => HandlerOK
  BY <1>1, <1>2, <1>3 DEF HandlerOK
<1>6. (loop["drain"] = IdleLoop => DrainOK)'
  BY <1>1, <1>2, <1>3 DEF DrainOK
<1>7. (loop["handler"] = IdleLoop => HandlerOK)'
  BY <1>1, <1>2, <1>3 DEF HandlerOK
<1>8. QED
  BY <1>2, <1>4, <1>5, <1>6, <1>7

-----------------------------------------------------------------------------
(* Requests, ticks and the life of the process *)

\* A job is scheduled where there is none: no plan can have been made for it.
LEMMA ScheduleKeeps ==
  ASSUME AutomationInv, NEW j \in Job, NEW runAt \in RunAt, Schedule(j, runAt)
  PROVE  AutomationInv'
<1> DEFINE r == [runAt |-> runAt, fired |-> FALSE, cancelled |-> FALSE, parent |-> NoParent,
                 failed |-> FALSE]
<1>1. /\ job[j] = NoRow /\ job' = [job EXCEPT ![j] = r]
      /\ UNCHANGED <<now, host, intent, work, events, loop, origin, fires>>
  BY DEF Schedule
<1>2. r \in JobRow
  BY AutomationAssumption DEF JobRow
<1>3. AutomationTypes /\ JobOK(j) /\ DrainOK
  BY DEF AutomationInv, JobsOK
<1>4. job'[j] = r /\ job'[j].parent = NoParent
  BY <1>1, <1>3 DEF AutomationTypes
<1>5. \A p \in Parent : origin'[p].by # j
  BY <1>1, <1>3 DEF JobOK, JobRows
<1>6. JobOK(j)'
  BY <1>4, <1>5 DEF JobOK
<1>7. DrainOK'
  <2>1. \A q \in JobRows : job'[q] = job[q]
    BY <1>1, <1>3 DEF AutomationTypes, JobRows
  <2>2. PlansStay(Job)
    BY <1>1 DEF PlansStay
  <2> QED BY <1>1, <1>3, <2>1, <2>2, DrainStays DEF JobRows
<1> HIDE DEF r
<1>8. loop' \in [{"drain", "handler"} -> LoopState] /\ loop'["handler"] = loop["handler"]
  BY <1>1, <1>3 DEF AutomationTypes
<1>9. QED
  BY <1>1, <1>2, <1>6, <1>7, <1>8, JobRowBecomes

\* Only a job that was not claimed is cancelled: the drain has no such job in hand.
LEMMA CancelJobKeeps ==
  ASSUME AutomationInv, NEW j \in Job, CancelJob(j)
  PROVE  AutomationInv'
<1>1. /\ job[j] # NoRow /\ ~job[j].fired /\ job' = [job EXCEPT ![j].cancelled = TRUE]
      /\ UNCHANGED <<now, host, intent, work, events, loop, origin, fires>>
  BY DEF CancelJob
<1>2. AutomationTypes /\ JobOK(j) /\ DrainOK
  BY DEF AutomationInv, JobsOK
<1>3. job[j] \in JobRow
  BY <1>1, <1>2 DEF AutomationTypes
<1> DEFINE new == [runAt |-> job[j].runAt, fired |-> job[j].fired, cancelled |-> TRUE,
                   parent |-> job[j].parent, failed |-> job[j].failed]
<1>4. job'[j] = new
  BY <1>1, <1>2, <1>3, ZenonT(30) DEF AutomationTypes, JobRow
<1>5. PICK r \in JobRow : /\ r = job'[j] /\ r.parent = job[j].parent /\ r.failed = job[j].failed
  <2>1. new \in JobRow
    BY <1>3 DEF JobRow
  <2>2. new.parent = job[j].parent /\ new.failed = job[j].failed
    BY Zenon
  <2> HIDE DEF new
  <2> QED BY <1>4, <2>1, <2>2
<1>6. job' = [job EXCEPT ![j] = r]
  <2>1. job' = [job EXCEPT ![j] = job'[j]]
    BY <1>1, <1>2 DEF AutomationTypes
  <2> QED BY <1>5, <2>1
<1>7. JobOK(j)'
  BY <1>1, <1>2, <1>5 DEF JobOK, JobRows
<1>8. DrainOK'
  <2>1. \A q \in JobRows : job'[q] # NoRow /\ (job[q].fired => job'[q] = job[q])
    <3>1. r # NoRow
      BY NoRowIsNone
    <3> QED BY <1>1, <1>2, <1>5, <1>6, <3>1 DEF AutomationTypes, JobRows
  <2>2. PlansStay(Job)
    BY <1>1 DEF PlansStay
  <2> QED BY <1>1, <1>2, <2>1, <2>2, DrainStays
<1>9. loop' \in [{"drain", "handler"} -> LoopState] /\ loop'["handler"] = loop["handler"]
  BY <1>1, <1>2 DEF AutomationTypes
<1>10. QED
  BY <1>1, <1>6, <1>7, <1>8, <1>9, JobRowBecomes

\* An intent is created where there is none: it has not fired.
LEMMA CreateIntentKeeps ==
  ASSUME AutomationInv, NEW i \in Intent, NEW type \in EventType, NEW expires \in Expiry,
         NEW cooldown \in Cooldown, NEW maxFires \in Budget,
         CreateIntent(i, type, expires, cooldown, maxFires)
  PROVE  AutomationInv'
<1> DEFINE r == [type |-> type, expires |-> expires, cooldown |-> cooldown, maxFires |-> maxFires,
                 count |-> 0, cancelled |-> FALSE, parent |-> NoParent, failed |-> FALSE]
<1>1. /\ intent[i] = NoRow /\ intent' = [intent EXCEPT ![i] = r]
      /\ UNCHANGED <<now, host, job, work, events, loop, origin, fires>>
  BY DEF CreateIntent
<1>2. r \in IntentRow /\ maxFires \in Nat
  BY AutomationAssumption DEF IntentRow
<1>3. AutomationTypes /\ IntentOK(i) /\ HandlerOK
  BY DEF AutomationInv, IntentsOK
<1>4. intent'[i] = r /\ r.parent = NoParent /\ r.count = 0 /\ r.maxFires = maxFires
  BY <1>1, <1>3 DEF AutomationTypes
<1>5. fires[i] = <<>> /\ Len(fires[i]) = 0
  <2>1. fires[i] = <<>>
    BY <1>1, <1>3 DEF IntentOK, IntentRows
  <2>2. Len(<<>>) = 0
    OBVIOUS
  <2> QED BY <2>1, <2>2
<1>6. r # NoRow
  BY <1>2, NoRowIsNone
<1> HIDE DEF r
<1>7. \A p \in Parent : origin'[p].by # i
  <2>1. 1..0 = {}
    OBVIOUS
  <2> QED BY <1>1, <1>3, <1>5, <2>1 DEF IntentOK
<1>8. IntentOK(i)'
  <2>1. fires'[i] = <<>> /\ Len(fires'[i]) = 0 /\ 1..Len(fires'[i]) = {}
    BY <1>1, <1>5
  <2>2. (i \in IntentRows)' /\ intent'[i].parent = NoParent
    BY <1>4, <1>6 DEF IntentRows
  <2>3. Len(fires'[i]) = intent'[i].count /\ intent'[i].count <= intent'[i].maxFires
    BY <1>2, <1>4, <2>1
  <2> QED BY <1>7, <2>1, <2>2, <2>3 DEF IntentOK
<1>9. HandlerOK'
  <2>1. \A q \in IntentRows : intent'[q] = intent[q]
    BY <1>1, <1>3 DEF AutomationTypes, IntentRows
  <2>2. PlansStay(Intent)
    BY <1>1 DEF PlansStay
  <2> QED BY <1>1, <1>3, <2>1, <2>2, HandlerStays DEF IntentRows
<1>10. loop' \in [{"drain", "handler"} -> LoopState] /\ loop'["drain"] = loop["drain"]
  BY <1>1, <1>3 DEF AutomationTypes
<1>11. QED
  BY <1>1, <1>2, <1>8, <1>9, <1>10, IntentRowBecomes

\* An intent that is cancelled keeps its fires and the plans of them.
LEMMA CancelIntentKeeps ==
  ASSUME AutomationInv, NEW i \in Intent, CancelIntent(i)
  PROVE  AutomationInv'
<1>1. /\ intent[i] # NoRow /\ intent' = [intent EXCEPT ![i].cancelled = TRUE]
      /\ UNCHANGED <<now, host, job, work, events, loop, origin, fires>>
  BY DEF CancelIntent
<1>2. AutomationTypes /\ IntentOK(i) /\ HandlerOK
  BY DEF AutomationInv, IntentsOK
<1>3. intent[i] \in IntentRow
  BY <1>1, <1>2 DEF AutomationTypes
<1> DEFINE new == [type |-> intent[i].type, expires |-> intent[i].expires,
                   cooldown |-> intent[i].cooldown, maxFires |-> intent[i].maxFires,
                   count |-> intent[i].count, cancelled |-> TRUE,
                   parent |-> intent[i].parent, failed |-> intent[i].failed]
<1>4. intent'[i] = new
  BY <1>1, <1>2, <1>3, ZenonT(30) DEF AutomationTypes, IntentRow
<1>5. PICK r \in IntentRow :
        /\ r = intent'[i] /\ r.parent = intent[i].parent /\ r.failed = intent[i].failed
        /\ r.count = intent[i].count /\ r.maxFires = intent[i].maxFires
        /\ r.expires = intent[i].expires /\ r.cooldown = intent[i].cooldown
  <2>1. new \in IntentRow
    BY <1>3 DEF IntentRow
  <2>2. /\ new.parent = intent[i].parent /\ new.failed = intent[i].failed
        /\ new.count = intent[i].count /\ new.maxFires = intent[i].maxFires
        /\ new.expires = intent[i].expires /\ new.cooldown = intent[i].cooldown
    BY Zenon
  <2> HIDE DEF new
  <2> QED BY <1>4, <2>1, <2>2
<1>6. intent' = [intent EXCEPT ![i] = r] /\ r # NoRow
  <2>1. intent' = [intent EXCEPT ![i] = intent'[i]]
    BY <1>1, <1>2 DEF AutomationTypes
  <2> QED BY <1>5, <2>1, NoRowIsNone
<1>7. IntentOK(i)'
  BY <1>1, <1>2, <1>5, <1>6 DEF IntentOK, IntentRows
<1>8. HandlerOK'
  <2>1. \A q \in IntentRows : intent'[q] # NoRow /\ intent'[q].count = intent[q].count
    BY <1>1, <1>2, <1>5, <1>6 DEF AutomationTypes, IntentRows
  <2>2. PlansStay(Intent)
    BY <1>1 DEF PlansStay
  <2> QED BY <1>1, <1>2, <2>1, <2>2, HandlerStays
<1>9. loop' \in [{"drain", "handler"} -> LoopState] /\ loop'["drain"] = loop["drain"]
  BY <1>1, <1>2 DEF AutomationTypes
<1>10. QED
  BY <1>1, <1>6, <1>7, <1>8, <1>9, IntentRowBecomes

\* A task ends, a tick passes, the host stops, dies and starts again.
LEMMA LifeKeeps ==
  ASSUME AutomationInv,
         \/ \E p \in Parent, type \in EventType : TaskEnds(p, type)
         \/ Stop \/ StopDone \/ Crash \/ Restart \/ Tick
  PROVE  AutomationInv'
<1>1. AutomationTypes /\ UNCHANGED <<job, intent, origin, fires>>
  BY DEF AutomationInv, TaskEnds, Stop, StopDone, Crash, Restart, Tick, ProcessEnds
<1>2. ASSUME NEW p \in Parent, NEW type \in EventType, TaskEnds(p, type) PROVE AutomationInv'
  <2> DEFINE event == [type |-> type, actor |-> IF origin[p].by = "remote" THEN "remote" ELSE "owner"]
  <2>1. /\ work[p] = "open" /\ work' = [work EXCEPT ![p] = "ended"]
        /\ events' = Append(events, event) /\ UNCHANGED <<now, host, loop>>
    BY <1>2 DEF TaskEnds
  <2>2. event \in [type : EventType, actor : {"owner", "remote"}]
    OBVIOUS
  <2> HIDE DEF event
  <2>3. events' \in Seq([type : EventType, actor : {"owner", "remote"}])
    BY <1>1, <2>1, <2>2, AppendFacts DEF AutomationTypes
  <2> QED BY <1>1, <2>1, <2>3, NoRowWritten DEF AutomationTypes
<1>3. CASE StopDone \/ Crash
  <2>1. /\ host' = "down" /\ events' = <<>> /\ UNCHANGED <<now, work>>
        /\ loop' = [k \in {"drain", "handler"} |-> IdleLoop]
    BY <1>3 DEF StopDone, Crash, ProcessEnds
  <2>2. <<>> \in Seq([type : EventType, actor : {"owner", "remote"}])
    OBVIOUS
  <2>3. loop'["drain"] = IdleLoop /\ loop'["handler"] = IdleLoop
    BY <2>1
  <2>4. DrainOK' /\ HandlerOK'
    BY <2>3, IdleIsOK
  <2>5. loop' \in [{"drain", "handler"} -> LoopState]
    BY <2>1, IdleIsOK
  <2> QED BY <1>1, <2>1, <2>2, <2>4, <2>5, NoRowWritten DEF AutomationTypes
<1>4. CASE Stop \/ Restart
  BY <1>1, <1>4, NoRowWritten DEF AutomationTypes, Stop, Restart
<1>5. CASE Tick
  <2>1. now' \in 0..MaxTime /\ UNCHANGED <<host, work, events, loop>>
    BY <1>1, <1>5, AutomationAssumption DEF Tick, AutomationTypes
  <2> QED BY <1>1, <2>1, NoRowWritten DEF AutomationTypes
<1>6. QED
  BY <1>2, <1>3, <1>4, <1>5

-----------------------------------------------------------------------------
(* Plans *)

\* A plan takes an id that was not used, for whom it is made.
LEMMA PlanMade ==
  ASSUME AutomationTypes, NEW by \in Job \cup Intent \cup {"owner", "remote"}, NEW fire \in Nat,
         CreatePlan(by, fire)
  PROVE  /\ FreshParent \in Parent /\ origin[FreshParent].by = "none"
         /\ origin'[FreshParent] = [by |-> by, fire |-> fire]
         /\ \A p \in Parent \ {FreshParent} : origin'[p] = origin[p]
         /\ origin' \in [Parent -> Origin]
         /\ work' \in [Parent -> {"none", "open", "ended"}]
         /\ \A p \in Parent : (origin[p].by = "none" <=> work[p] = "none")'
         /\ \A S : by \notin S => PlansStay(S)
<1>1. FreshParent \in Parent /\ work[FreshParent] = "none"
  BY DEF CreatePlan, FreshParent
<1>2. PICK f \in Parent : f = FreshParent
  BY <1>1
<1>3. /\ work' = [work EXCEPT ![f] = "open"]
      /\ origin' = [origin EXCEPT ![f] = [by |-> by, fire |-> fire]]
  BY <1>2 DEF CreatePlan
<1>4. [by |-> by, fire |-> fire] \in Origin /\ by # "none"
  BY NoneIsNone DEF Origin
<1>5. work[f] = "none" /\ origin[f].by = "none"
  BY <1>1, <1>2 DEF AutomationTypes
<1>6. /\ origin'[f] = [by |-> by, fire |-> fire] /\ \A p \in Parent \ {f} : origin'[p] = origin[p]
      /\ origin' \in [Parent -> Origin]
      /\ work' \in [Parent -> {"none", "open", "ended"}]
      /\ \A p \in Parent \ {f} : work'[p] = work[p]
      /\ work'[f] = "open"
  BY <1>3, <1>4 DEF AutomationTypes
<1>7. \A p \in Parent : (origin[p].by = "none" <=> work[p] = "none")'
  <2> SUFFICES ASSUME NEW p \in Parent PROVE origin'[p].by = "none" <=> work'[p] = "none"
    OBVIOUS
  <2>1. CASE p = f
    BY <1>4, <1>6, <2>1
  <2>2. CASE p # f
    BY <1>6, <2>2 DEF AutomationTypes
  <2> QED BY <2>1, <2>2
<1>8. ASSUME NEW S, by \notin S PROVE PlansStay(S)
  <2> SUFFICES ASSUME NEW p \in Parent, origin'[p] # origin[p]
               PROVE  origin[p].by = "none" /\ origin'[p].by \notin S
    BY DEF PlansStay
  <2>1. p = f
    BY <1>6
  <2> QED BY <1>5, <1>6, <1>8, <2>1
<1>9. QED
  BY <1>1, <1>2, <1>5, <1>6, <1>7, <1>8

\* A plan is made for a claimed job that has none, for a counted fire that has none,
\* or for somebody else; the loops come out good.
LEMMA PlanKeeps ==
  ASSUME AutomationInv, NEW by \in Job \cup Intent \cup {"owner", "remote"}, NEW fire \in Nat,
         CreatePlan(by, fire), UNCHANGED <<now, host, job, intent, events, fires>>,
         by \in Job => /\ by \in JobRows /\ job[by].fired /\ ~job[by].cancelled
                       /\ \A p \in Parent : origin[p].by # by,
         by \in Intent => /\ fire \in 1..Len(fires[by])
                          /\ \A p \in Parent : origin[p].by = by => origin[p].fire # fire,
         loop' \in [{"drain", "handler"} -> LoopState], DrainOK', HandlerOK'
  PROVE  AutomationInv'
<1>1. /\ AutomationTypes
      /\ \A j \in Job : JobOK(j)
      /\ \A i \in Intent : IntentOK(i)
  BY DEF AutomationInv, JobsOK, IntentsOK
<1>2. PICK f \in Parent :
        /\ f = FreshParent /\ origin[f].by = "none" /\ origin'[f] = [by |-> by, fire |-> fire]
        /\ \A p \in Parent \ {f} : origin'[p] = origin[p]
  BY <1>1, PlanMade
<1>3. AutomationTypes'
  <2>1. JobRows' = JobRows /\ IntentRows' = IntentRows
    BY DEF JobRows, IntentRows
  <2> QED BY <1>1, <2>1, PlanMade DEF AutomationTypes
<1>4. ASSUME NEW j \in Job PROVE JobOK(j)'
  <2>1. CASE by # j
    <3>1. \A p \in Parent : origin'[p].by = j => origin'[p] = origin[p]
      BY <1>2, <2>1
    <3>2. (j \in JobRows)' <=> j \in JobRows
      BY DEF JobRows
    <3>3. j \in JobRows /\ job[j].parent # NoParent =>
            origin'[job[j].parent].by = j /\ ~job[j].failed
      <4>1. j \in JobRows /\ job[j].parent # NoParent => job[j].parent \in Parent
        BY <1>1 DEF AutomationTypes, JobRows, JobRow
      <4>2. j # "none"
        BY NoneIsNone
      <4> QED BY <1>1, <1>2, <4>1, <4>2 DEF JobOK
    <3>4. JobOK(j)
      BY <1>1
    <3> QED BY <3>1, <3>2, <3>3, <3>4 DEF JobOK
  <2>2. CASE by = j
    <3>1. j \in JobRows => (j \in JobRows)'
      BY DEF JobRows
    <3>2. job[j].parent = NoParent
      <4>1. job[j].parent \in Parent \cup {NoParent}
        BY <1>1, <2>2 DEF AutomationTypes, JobRows, JobRow
      <4>2. JobOK(j)
        BY <1>1
      <4> QED BY <2>2, <4>1, <4>2 DEF JobOK
    <3>3. \A p \in Parent : origin'[p].by = j => p = f
      BY <1>2, <2>2
    <3> QED BY <2>2, <3>1, <3>2, <3>3 DEF JobOK
  <2> QED BY <2>1, <2>2
<1>5. ASSUME NEW i \in Intent PROVE IntentOK(i)'
  <2>0. IntentOK(i) /\ ((i \in IntentRows)' <=> i \in IntentRows) /\ i # "none"
    <3>1. IntentOK(i)
      BY <1>1
    <3>2. i # "none"
      BY NoneIsNone
    <3>3. (i \in IntentRows)' <=> i \in IntentRows
      BY DEF IntentRows
    <3> QED BY <3>1, <3>2, <3>3
  <2>1. \A p \in Parent : origin'[p].by = i =>
          \/ origin'[p] = origin[p]
          \/ p = f /\ by = i /\ origin'[p].fire = fire
    BY <1>2
  <2>2. i \in IntentRows /\ intent[i].parent # NoParent =>
          origin'[intent[i].parent] = origin[intent[i].parent]
    <3>1. i \in IntentRows /\ intent[i].parent # NoParent => intent[i].parent \in Parent
      BY <1>1 DEF AutomationTypes, IntentRows, IntentRow
    <3>2. i \in IntentRows /\ intent[i].parent # NoParent => origin[intent[i].parent].by = i
      BY <2>0 DEF IntentOK
    <3> QED BY <1>2, <2>0, <3>1, <3>2
  <2>3. \A p \in Parent : origin'[p].by = i => origin'[p].fire \in 1..Len(fires[i])
    BY <2>0, <2>1 DEF IntentOK
  <2>4. \A p, q \in Parent :
          origin'[p].by = i /\ origin'[q].by = i /\ origin'[p].fire = origin'[q].fire => p = q
    BY <2>0, <2>1 DEF IntentOK
  <2> QED BY <2>0, <2>2, <2>3, <2>4 DEF IntentOK
<1>6. QED
  BY <1>3, <1>4, <1>5 DEF AutomationInv, JobsOK, IntentsOK

\* The owner and the QQ senders, who have no row.
LEMMA DelegateKeeps ==
  ASSUME AutomationInv, NEW actor \in {"owner", "remote"}, Delegate(actor)
  PROVE  AutomationInv'
<1>1. /\ AutomationTypes /\ CreatePlan(actor, 1)
      /\ UNCHANGED <<now, host, job, intent, events, loop, fires>>
  BY DEF AutomationInv, Delegate
<1>2. actor \notin Job /\ actor \notin Intent
  BY NoneIsNone
<1>3. PlansStay(Job) /\ PlansStay(Intent)
  BY <1>1, <1>2, PlanMade
<1>4. DrainOK' /\ HandlerOK'
  BY <1>1, <1>3, DrainStays, HandlerStays DEF AutomationInv, JobRows, IntentRows
<1>5. loop' \in [{"drain", "handler"} -> LoopState]
  BY <1>1 DEF AutomationTypes
<1>6. QED
  BY <1>1, <1>2, <1>4, <1>5, PlanKeeps

\* What either loop has in hand, before it makes a plan for it.
LEMMA InHand ==
  ASSUME AutomationInv
  PROVE  /\ loop["drain"].todo # <<>> =>
              /\ Current("drain") = loop["drain"].todo[1] /\ Current("drain") \in JobRows
              /\ Current("drain") \in Job
         /\ loop["handler"].todo # <<>> =>
              /\ Current("handler") = loop["handler"].todo[1] /\ Current("handler") \in IntentRows
              /\ Current("handler") \in Intent
BY SeqFacts DEF AutomationInv, DrainOK, HandlerOK, Current, JobRows, IntentRows

\* The drain makes a plan, or fails to, perhaps after the plan was stored.
LEMMA DrainPlanKeeps ==
  ASSUME AutomationInv, Plan("drain") \/ PlanThrows("drain")
  PROVE  AutomationInv'
<1> DEFINE drain == loop["drain"]
<1>1. /\ AutomationTypes /\ DrainOK /\ HandlerOK /\ drain.at = "firing"
      /\ UNCHANGED <<now, host, job, intent, events, fires>>
  BY DEF AutomationInv, Plan, PlanThrows
<1>2. PICK j \in Job : /\ j = Current("drain") /\ j = drain.todo[1] /\ j \in JobRows
                       /\ job[j].fired /\ ~job[j].cancelled /\ \A p \in Parent : origin[p].by # j
  BY <1>1, InHand DEF DrainOK
<1>3. drain.todo \in Seq(Job) /\ drain.todo # <<>>
      /\ \A n \in 1..Len(drain.todo) : drain.todo[n] \in JobRows /\ job'[drain.todo[n]] = job[drain.todo[n]]
  BY <1>1 DEF DrainOK
<1>5. ASSUME NEW p \in Parent \cup {NoParent}, NEW at \in {"planned", "failing"},
             Goto("drain", at, p), CreatePlan(j, 1),
             at = "planned" <=> p = FreshParent, at = "failing" <=> p = NoParent
      PROVE  AutomationInv'
  <2>0. PICK f \in Parent :
          /\ f = FreshParent /\ origin[f].by = "none" /\ origin'[f] = [by |-> j, fire |-> 1]
          /\ \A q \in Parent \ {f} : origin'[q] = origin[q]
    BY <1>1, <1>5, PlanMade
  <2>1. /\ loop' \in [{"drain", "handler"} -> LoopState] /\ loop'["handler"] = loop["handler"]
        /\ loop'["drain"] = [at |-> at, todo |-> drain.todo, parent |-> p]
    BY <1>1, <1>5, GotoMoves DEF Pc
  <2>2. PlansStay(Intent) /\ j \notin Intent
    <3>1. j \notin Intent
      BY AutomationAssumption
    <3> QED BY <1>1, <1>5, <3>1, PlanMade
  <2>3. HandlerOK'
    BY <1>1, <2>1, <2>2, HandlerStays DEF IntentRows
  <2>4. at = "planned" => p \in Parent /\ origin'[p].by = j
    BY <1>5, <2>0
  <2>5. JobRows' = JobRows
    BY <1>1 DEF JobRows
  <2>6. DrainOK'
    BY <1>1, <1>2, <1>3, <1>5, <2>1, <2>4, <2>5 DEF DrainOK
  <2> QED BY <1>1, <1>2, <1>5, <2>1, <2>2, <2>3, <2>6, PlanKeeps
<1>6. ASSUME Goto("drain", "failing", NoParent), UNCHANGED <<work, origin>>
      PROVE  AutomationInv'
  <2>1. /\ loop' \in [{"drain", "handler"} -> LoopState] /\ loop'["handler"] = loop["handler"]
        /\ loop'["drain"] = [at |-> "failing", todo |-> drain.todo, parent |-> NoParent]
    BY <1>1, <1>6, GotoMoves DEF Pc
  <2>2. JobRows' = JobRows
    BY <1>1 DEF JobRows
  <2>3. DrainOK'
    BY <1>1, <1>2, <1>3, <2>1, <2>2 DEF DrainOK
  <2> QED BY <1>1, <1>6, <2>1, <2>3, NoRowWritten DEF AutomationTypes
<1>7. CASE Plan("drain")
  <2>1. CreatePlan(j, 1) /\ Goto("drain", "planned", FreshParent)
    BY <1>2, <1>7 DEF Plan
  <2>2. PICK p \in Parent : p = FreshParent
    BY <1>1, <2>1, PlanMade
  <2> QED BY <1>5, <2>1, <2>2, AutomationAssumption
<1>8. CASE PlanThrows("drain")
  <2>1. Goto("drain", "failing", NoParent)
    BY <1>8 DEF PlanThrows
  <2>2. CreatePlan(j, 1) \/ UNCHANGED <<work, origin>>
    BY <1>2, <1>8 DEF PlanThrows
  <2>3. CASE CreatePlan(j, 1)
    <3>1. NoParent # FreshParent
      BY <1>1, <2>3, PlanMade, AutomationAssumption
    <3> QED BY <1>5, <2>1, <2>3, <3>1
  <2> QED BY <1>6, <2>1, <2>2, <2>3
<1>9. QED
  BY <1>7, <1>8

-----------------------------------------------------------------------------
(* The drain *)

\* Its snapshot is of jobs that have rows; whatever else becomes of them is looked at
\* by the claim.
LEMMA StartDrainKeeps ==
  ASSUME AutomationInv, StartDrain
  PROVE  AutomationInv'
<1>1. AutomationTypes /\ UNCHANGED <<now, host, job, intent, work, events, origin, fires>>
  BY DEF AutomationInv, StartDrain
<1>2. Due \subseteq JobRows /\ Due \subseteq Job /\ IsFiniteSet(Due)
  <2>1. Due \subseteq JobRows /\ JobRows \subseteq Job
    BY DEF Due, JobRows
  <2> QED BY <1>1, <2>1, FS_Subset DEF AutomationTypes
<1>3. PICK due \in SetToSeqs(Due) :
        loop' = [loop EXCEPT !["drain"] = Looping("next",
          SubSeq(due, 1, IF Len(due) < MaxBatch THEN Len(due) ELSE MaxBatch))]
  BY DEF StartDrain
<1>4. PICK batch :
        /\ batch = SubSeq(due, 1, IF Len(due) < MaxBatch THEN Len(due) ELSE MaxBatch)
        /\ batch \in Seq(Due)
  <2>1. due \in Seq(Due)
    BY <1>2, OrderFacts
  <2> QED BY <2>1, BatchFacts
<1>5. batch \in Seq(Job) /\ \A n \in 1..Len(batch) : batch[n] \in JobRows
  <2>1. \A n \in 1..Len(batch) : batch[n] \in Due
    BY <1>4, SeqFacts
  <2> QED BY <1>2, <1>4, <2>1
<1>6. PICK r \in LoopState :
        r = Looping("next", batch) /\ r.at = "next" /\ r.todo = batch /\ r.parent = NoParent
  BY <1>5, LoopingMoves DEF Pc
<1>7. loop' = [loop EXCEPT !["drain"] = r]
  BY <1>3, <1>4, <1>6
<1>8. /\ loop' \in [{"drain", "handler"} -> LoopState] /\ loop'["drain"] = r
      /\ loop'["handler"] = loop["handler"]
  BY <1>1, <1>7, LoopMoves
<1>9. DrainOK'
  <2>1. JobRows' = JobRows
    BY <1>1 DEF JobRows
  <2> QED BY <1>5, <1>6, <1>8, <2>1 DEF DrainOK
<1>10. QED
  BY <1>1, <1>8, <1>9, NoRowWritten DEF AutomationTypes

\* The drain ends, leaves out a job that was claimed or cancelled since, or claims it:
\* then no plan has been made for it.
LEMMA ClaimJobKeeps ==
  ASSUME AutomationInv, ClaimJob
  PROVE  AutomationInv'
<1> DEFINE drain == loop["drain"]
<1>1. /\ AutomationTypes /\ DrainOK /\ drain.at = "next"
      /\ UNCHANGED <<now, host, intent, work, events, origin, fires>>
  BY DEF AutomationInv, ClaimJob
<1>2. drain.todo \in Seq(Job) /\ \A n \in 1..Len(drain.todo) : drain.todo[n] \in JobRows
  BY <1>1 DEF DrainOK
<1>3. CASE DrainEnds /\ UNCHANGED job
  <2>1. /\ loop' \in [{"drain", "handler"} -> LoopState] /\ loop'["drain"] = IdleLoop
        /\ loop'["handler"] = loop["handler"]
    BY <1>1, <1>3, IdleIsOK, LoopMoves DEF DrainEnds
  <2>2. DrainOK'
    BY <2>1, IdleIsOK
  <2> QED BY <1>1, <1>3, <2>1, <2>2, NoRowWritten DEF AutomationTypes
<1>4. CASE /\ drain.todo # <<>> /\ loop' = [loop EXCEPT !["drain"].todo = Tail(drain.todo)]
           /\ UNCHANGED job
  <2>1. PICK rest \in Seq(Job) : /\ rest = Tail(drain.todo)
                                 /\ \A n \in 1..Len(rest) : rest[n] \in JobRows
    BY <1>2, <1>4, RestIn
  <2> DEFINE new == [at |-> drain.at, todo |-> rest, parent |-> drain.parent]
  <2>2. loop'["drain"] = new
    BY <1>1, <1>4, <2>1, ZenonT(30) DEF AutomationTypes, LoopState
  <2>3. new \in LoopState /\ new.at = "next" /\ new.todo = rest /\ new.parent = NoParent
    <3>1. drain.at \in Pc /\ drain.parent = NoParent
      BY <1>1 DEF AutomationTypes, LoopState, DrainOK
    <3> QED BY <1>1, <3>1 DEF LoopState
  <2>4. PICK r \in LoopState : r = loop'["drain"] /\ r.at = "next" /\ r.todo = rest /\ r.parent = NoParent
    BY <2>2, <2>3
  <2>5. loop' = [loop EXCEPT !["drain"] = r]
    <3>1. loop' = [loop EXCEPT !["drain"] = loop'["drain"]]
      BY <1>1, <1>4 DEF AutomationTypes
    <3> QED BY <2>4, <3>1
  <2>6. /\ loop' \in [{"drain", "handler"} -> LoopState] /\ loop'["drain"] = r
        /\ loop'["handler"] = loop["handler"]
    BY <1>1, <2>5, LoopMoves
  <2>7. DrainOK'
    <3>1. JobRows' = JobRows
      BY <1>4 DEF JobRows
    <3> QED BY <2>1, <2>4, <2>6, <3>1 DEF DrainOK
  <2> QED BY <1>1, <1>4, <2>6, <2>7, NoRowWritten DEF AutomationTypes
<1>5. CASE /\ drain.todo # <<>> /\ Claimable(Head(drain.todo))
           /\ job' = [job EXCEPT ![Head(drain.todo)].fired = TRUE]
           /\ loop' = [loop EXCEPT !["drain"].at = "firing"]
  <2>1. PICK j \in Job : /\ j = Head(drain.todo) /\ j = drain.todo[1] /\ j \in JobRows
                         /\ ~job[j].fired /\ ~job[j].cancelled
    BY <1>2, <1>5, SeqFacts DEF Claimable, JobRows
  <2>2. job[j] \in JobRow /\ JobOK(j)
    BY <1>1, <2>1 DEF AutomationTypes, JobRows, AutomationInv, JobsOK
  <2> DEFINE new == [runAt |-> job[j].runAt, fired |-> TRUE, cancelled |-> job[j].cancelled,
                     parent |-> job[j].parent, failed |-> job[j].failed]
  <2>3. job'[j] = new
    BY <1>1, <1>5, <2>1, <2>2, ZenonT(30) DEF AutomationTypes, JobRow
  <2>4. PICK r \in JobRow : /\ r = job'[j] /\ r.fired /\ r.cancelled = job[j].cancelled
                            /\ r.parent = job[j].parent /\ r.failed = job[j].failed
    <3>1. new \in JobRow
      BY <2>2 DEF JobRow
    <3>2. new.fired = TRUE /\ new.cancelled = job[j].cancelled /\ new.parent = job[j].parent
          /\ new.failed = job[j].failed
      BY Zenon
    <3> HIDE DEF new
    <3> QED BY <2>3, <3>1, <3>2
  <2>5. job' = [job EXCEPT ![j] = r]
    <3>1. job' = [job EXCEPT ![j] = job'[j]]
      BY <1>1, <1>5, <2>1 DEF AutomationTypes
    <3> QED BY <2>4, <3>1
  <2>6. \A p \in Parent : origin'[p].by # j
    BY <1>1, <2>1, <2>2 DEF JobOK
  <2>7. JobOK(j)'
    <3>1. r.parent \in Parent \cup {NoParent}
      BY DEF JobRow
    <3>2. r.parent = NoParent
      BY <1>1, <2>1, <2>2, <2>4, <2>6, <3>1 DEF JobOK
    <3> QED BY <2>4, <2>6, <3>2 DEF JobOK
  <2> DEFINE lnew == [at |-> "firing", todo |-> drain.todo, parent |-> drain.parent]
  <2>8. loop'["drain"] = lnew
    BY <1>1, <1>5, ZenonT(30) DEF AutomationTypes, LoopState
  <2>9. PICK l \in LoopState : /\ l = loop'["drain"] /\ l.at = "firing" /\ l.todo = drain.todo
                               /\ l.parent = NoParent
    <3>1. drain.parent = NoParent
      BY <1>1 DEF DrainOK
    <3>2. lnew \in LoopState /\ lnew.at = "firing" /\ lnew.todo = drain.todo /\ lnew.parent = NoParent
      BY <1>1, <1>2, <3>1 DEF LoopState, Pc
    <3> HIDE DEF lnew
    <3> QED BY <2>8, <3>2
  <2>10. loop' = [loop EXCEPT !["drain"] = l]
    <3>1. loop' = [loop EXCEPT !["drain"] = loop'["drain"]]
      BY <1>1, <1>5 DEF AutomationTypes
    <3> QED BY <2>9, <3>1
  <2>11. /\ loop' \in [{"drain", "handler"} -> LoopState] /\ loop'["drain"] = l
         /\ loop'["handler"] = loop["handler"]
    BY <1>1, <2>10, LoopMoves
  <2>12. \A q \in JobRows : (q \in JobRows)'
    <3>1. r # NoRow
      BY NoRowIsNone
    <3> QED BY <1>1, <2>5, <3>1 DEF AutomationTypes, JobRows
  <2>13. DrainOK'
    <3>1. job'[j].fired /\ ~job'[j].cancelled
      BY <2>1, <2>4
    <3> QED BY <1>2, <1>5, <2>1, <2>6, <2>9, <2>11, <2>12, <3>1 DEF DrainOK
  <2> QED BY <1>1, <2>5, <2>7, <2>11, <2>13, JobRowBecomes
<1>6. QED
  BY <1>3, <1>4, <1>5 DEF ClaimJob, DrainOver

\* The row of a job whose dispatch was recorded names what the loop holds, and is
\* otherwise as it was.
LEMMA RecordedJob ==
  ASSUME NEW row \in JobRow, NEW k, loop[k].parent \in Parent \cup {NoParent}
  PROVE  LET r == RecordedRow(row, k)
         IN  /\ r \in JobRow /\ r.fired = row.fired /\ r.cancelled = row.cancelled
             /\ r.parent = loop[k].parent /\ (r.failed <=> loop[k].at = "failing")
<1> DEFINE new == [runAt |-> row.runAt, fired |-> row.fired, cancelled |-> row.cancelled,
                   parent |-> loop[k].parent, failed |-> loop[k].at = "failing"]
<1>1. PICK r : r = RecordedRow(row, k)
  OBVIOUS
<1>2. r = new
  BY <1>1, ZenonT(30) DEF JobRow, RecordedRow
<1>3. new \in JobRow
  BY DEF JobRow
<1>4. /\ new.fired = row.fired /\ new.cancelled = row.cancelled
      /\ new.parent = loop[k].parent /\ (new.failed <=> loop[k].at = "failing")
  BY Zenon
<1> HIDE DEF new
<1>5. QED
  BY <1>1, <1>2, <1>3, <1>4

\* The plan that the drain made, or its failure, is written to the row of the job.
LEMMA RecordJobKeeps ==
  ASSUME AutomationInv, RecordJob
  PROVE  AutomationInv'
<1> DEFINE drain == loop["drain"]
<1>1. /\ AutomationTypes /\ DrainOK /\ drain.at \in {"planned", "failing"}
      /\ UNCHANGED <<now, host, intent, work, events, origin, fires>>
  BY DEF AutomationInv, RecordJob
<1>2. PICK j \in Job : /\ j = Current("drain") /\ j = drain.todo[1] /\ j \in JobRows
                       /\ job[j].fired /\ ~job[j].cancelled /\ job[j] \in JobRow /\ JobOK(j)
  <2>1. drain.todo # <<>> /\ job[drain.todo[1]].fired /\ ~job[drain.todo[1]].cancelled
    BY <1>1 DEF DrainOK
  <2>2. /\ Current("drain") = drain.todo[1] /\ Current("drain") \in JobRows
        /\ Current("drain") \in Job
    BY <2>1, InHand
  <2> QED BY <1>1, <2>1, <2>2 DEF AutomationTypes, AutomationInv, JobsOK, JobRows
<1>3. job' = [job EXCEPT ![j] = RecordedRow(job[j], "drain")] /\ Goto("drain", "audit", NoParent)
  BY <1>1, <1>2 DEF RecordJob, AutomationTypes
<1>4. /\ drain.parent \in Parent \cup {NoParent}
      /\ drain.parent # NoParent => origin[drain.parent].by = j /\ drain.at # "failing"
  BY <1>1, <1>2, AutomationAssumption DEF DrainOK
<1>5. PICK r \in JobRow : r = RecordedRow(job[j], "drain")
  BY <1>2, <1>4, RecordedJob
<1>6. /\ r.fired = job[j].fired /\ r.cancelled = job[j].cancelled
      /\ r.parent = drain.parent /\ (r.failed <=> drain.at = "failing")
  BY <1>2, <1>4, <1>5, RecordedJob
<1>7. job' = [job EXCEPT ![j] = r] /\ job'[j] = r
  BY <1>1, <1>3, <1>5, <1>6 DEF AutomationTypes
<1>8. r # NoRow /\ (j \in JobRows)'
  BY <1>7, NoRowIsNone DEF JobRows
<1>9. JobOK(j)'
  BY <1>1, <1>2, <1>4, <1>6, <1>7, <1>8 DEF JobOK
<1>10. /\ loop' \in [{"drain", "handler"} -> LoopState] /\ loop'["handler"] = loop["handler"]
       /\ loop'["drain"] = [at |-> "audit", todo |-> drain.todo, parent |-> NoParent]
  BY <1>1, <1>3, GotoMoves DEF Pc
<1>11. DrainOK'
  <2>1. \A q \in JobRows : (q \in JobRows)'
    BY <1>1, <1>7, <1>8 DEF AutomationTypes, JobRows
  <2>2. loop'["drain"].at = "audit" /\ loop'["drain"].todo = drain.todo
        /\ loop'["drain"].parent = NoParent
    BY <1>10
  <2> QED BY <1>1, <2>1, <2>2 DEF DrainOK
<1>12. QED
  BY <1>1, <1>7, <1>9, <1>10, <1>11, JobRowBecomes

\* After the audit the drain looks at the rest of its snapshot.
LEMMA DrainAuditedKeeps ==
  ASSUME AutomationInv, Audited("drain")
  PROVE  AutomationInv'
<1> DEFINE drain == loop["drain"]
<1>1. /\ AutomationTypes /\ DrainOK /\ drain.at = "audit"
      /\ UNCHANGED <<now, host, job, intent, work, events, origin, fires>>
      /\ loop' = [loop EXCEPT !["drain"] = Looping("next", Tail(drain.todo))]
  BY DEF AutomationInv, Audited
<1>2. PICK rest \in Seq(Job) : /\ rest = Tail(drain.todo)
                               /\ \A n \in 1..Len(rest) : rest[n] \in JobRows
  BY <1>1, RestIn DEF DrainOK
<1>3. PICK r \in LoopState :
        r = Looping("next", rest) /\ r.at = "next" /\ r.todo = rest /\ r.parent = NoParent
  BY LoopingMoves DEF Pc
<1>4. /\ loop' \in [{"drain", "handler"} -> LoopState] /\ loop'["drain"] = r
      /\ loop'["handler"] = loop["handler"]
  BY <1>1, <1>2, <1>3, LoopMoves
<1>5. DrainOK'
  <2>1. JobRows' = JobRows
    BY <1>1 DEF JobRows
  <2> QED BY <1>2, <1>3, <1>4, <2>1 DEF DrainOK
<1>6. QED
  BY <1>1, <1>4, <1>5, NoRowWritten DEF AutomationTypes

-----------------------------------------------------------------------------
(* The handler *)

\* The handler makes a plan for the fire it has counted, or fails to.
LEMMA HandlerPlanKeeps ==
  ASSUME AutomationInv, Plan("handler") \/ PlanThrows("handler")
  PROVE  AutomationInv'
<1> DEFINE handler == loop["handler"]
<1>1. /\ AutomationTypes /\ DrainOK /\ HandlerOK /\ handler.at = "firing"
      /\ UNCHANGED <<now, host, job, intent, events, fires>>
  BY DEF AutomationInv, Plan, PlanThrows
<1>2. PICK i \in Intent : /\ i = Current("handler") /\ i = handler.todo[1] /\ i \in IntentRows
                          /\ Unplanned(i) /\ IntentOK(i) /\ intent[i] \in IntentRow
  <2>1. handler.todo # <<>>
    BY <1>1 DEF HandlerOK
  <2>2. PICK i \in Intent : i = Current("handler") /\ i = handler.todo[1] /\ i \in IntentRows
    BY <2>1, InHand
  <2>3. 1 \in 1..Len(handler.todo)
    BY <1>1, <2>1, SeqFacts DEF HandlerOK
  <2>4. Unplanned(i)
    BY <1>1, <2>2, <2>3 DEF HandlerOK
  <2>5. intent[i] \in IntentRow
    BY <1>1, <2>2 DEF AutomationTypes, IntentRows
  <2> QED BY <2>2, <2>4, <2>5 DEF AutomationInv, IntentsOK
<1>3. PICK fire \in Nat : /\ fire = intent[i].count /\ fire \in 1..Len(fires[i])
                          /\ \A p \in Parent : origin[p].by = i => origin[p].fire # fire
  <2>1. intent[i].count \in Nat
    BY <1>2 DEF IntentRow
  <2> QED BY <1>2, <2>1 DEF IntentOK, Unplanned
<1>4. /\ handler.todo \in Seq(Intent) /\ handler.todo # <<>>
      /\ \A n \in 1..Len(handler.todo) : handler.todo[n] \in IntentRows
      /\ \A m, n \in 1..Len(handler.todo) : handler.todo[m] = handler.todo[n] => m = n
      /\ \A n \in 1..Len(handler.todo) : Unplanned(handler.todo[n])
      /\ 1 \in 1..Len(handler.todo)
  BY <1>1, SeqFacts DEF HandlerOK
<1>5. IntentRows' = IntentRows /\ JobRows' = JobRows
  BY <1>1 DEF IntentRows, JobRows
<1>6. ASSUME NEW p \in Parent \cup {NoParent}, NEW at \in {"planned", "failing"},
             Goto("handler", at, p), CreatePlan(i, fire),
             at = "planned" <=> p = FreshParent, at = "failing" <=> p = NoParent
      PROVE  AutomationInv'
  <2>1. PICK f \in Parent :
          /\ f = FreshParent /\ origin[f].by = "none" /\ origin'[f] = [by |-> i, fire |-> fire]
          /\ \A q \in Parent \ {f} : origin'[q] = origin[q]
    BY <1>1, <1>6, PlanMade
  <2>2. /\ loop' \in [{"drain", "handler"} -> LoopState] /\ loop'["drain"] = loop["drain"]
        /\ loop'["handler"].at = at /\ loop'["handler"].todo = handler.todo
        /\ loop'["handler"].parent = p
    <3>1. /\ loop' \in [{"drain", "handler"} -> LoopState] /\ loop'["drain"] = loop["drain"]
          /\ loop'["handler"] = [at |-> at, todo |-> handler.todo, parent |-> p]
      BY <1>1, <1>6, GotoMoves DEF Pc
    <3> QED BY <3>1
  <2>3. i \notin Job
    BY AutomationAssumption
  <2>4. DrainOK'
    <3>1. PlansStay(Job)
      BY <1>1, <1>6, <2>3, PlanMade
    <3> QED BY <1>1, <2>2, <3>1, DrainStays DEF JobRows
  <2>5. \A n \in 1..Len(handler.todo) : n > 1 => Unplanned(handler.todo[n])'
    <3> SUFFICES ASSUME NEW n \in 1..Len(handler.todo), n > 1 PROVE Unplanned(handler.todo[n])'
      BY <1>1
    <3>1. PICK o : o = handler.todo[n]
      OBVIOUS
    <3>2. o # i /\ Unplanned(o)
      BY <1>2, <1>4, <3>1
    <3>3. \A q \in Parent : origin'[q].by = o => origin'[q] = origin[q]
      BY <2>1, <3>2
    <3>4. Unplanned(o)'
      BY <1>1, <3>2, <3>3 DEF Unplanned
    <3>5. loop'["handler"].todo[n] = o
      BY <2>2, <3>1
    <3> QED BY <2>2, <3>4, <3>5
  <2>6. at = "planned" => p \in Parent /\ origin'[p] = [by |-> i, fire |-> intent'[i].count]
    BY <1>1, <1>3, <1>6, <2>1
  <2>7. HandlerOK'
    BY <1>2, <1>4, <1>5, <1>6, <2>2, <2>5, <2>6 DEF HandlerOK
  <2> QED BY <1>1, <1>3, <1>6, <2>2, <2>3, <2>4, <2>7, PlanKeeps
<1>7. ASSUME Goto("handler", "failing", NoParent), UNCHANGED <<work, origin>>
      PROVE  AutomationInv'
  <2>1. /\ loop' \in [{"drain", "handler"} -> LoopState] /\ loop'["drain"] = loop["drain"]
        /\ loop'["handler"].at = "failing" /\ loop'["handler"].todo = handler.todo
        /\ loop'["handler"].parent = NoParent
    <3>1. /\ loop' \in [{"drain", "handler"} -> LoopState] /\ loop'["drain"] = loop["drain"]
          /\ loop'["handler"] = [at |-> "failing", todo |-> handler.todo, parent |-> NoParent]
      BY <1>1, <1>7, GotoMoves DEF Pc
    <3> QED BY <3>1
  <2>2. \A o : Unplanned(o) => Unplanned(o)'
    BY <1>1, <1>7 DEF Unplanned
  <2>3. HandlerOK'
    BY <1>4, <1>5, <2>1, <2>2 DEF HandlerOK
  <2> QED BY <1>1, <1>7, <2>1, <2>3, NoRowWritten DEF AutomationTypes
<1>8. CASE Plan("handler")
  <2>1. CreatePlan(i, fire) /\ Goto("handler", "planned", FreshParent)
    BY <1>2, <1>3, <1>8 DEF Plan
  <2>2. PICK p \in Parent : p = FreshParent
    BY <1>1, <2>1, PlanMade
  <2> QED BY <1>6, <2>1, <2>2, AutomationAssumption
<1>9. CASE PlanThrows("handler")
  <2>1. Goto("handler", "failing", NoParent)
    BY <1>9 DEF PlanThrows
  <2>2. CreatePlan(i, fire) \/ UNCHANGED <<work, origin>>
    BY <1>2, <1>3, <1>9 DEF PlanThrows
  <2>3. CASE CreatePlan(i, fire)
    <3>1. NoParent # FreshParent
      BY <1>1, <2>3, PlanMade, AutomationAssumption
    <3> QED BY <1>6, <2>1, <2>3, <3>1
  <2> QED BY <1>7, <2>1, <2>2, <2>3
<1>10. QED
  BY <1>8, <1>9

\* The row of an intent whose dispatch was recorded names what the loop holds, and is
\* otherwise as it was.
LEMMA RecordedIntent ==
  ASSUME NEW row \in IntentRow, NEW k, loop[k].parent \in Parent \cup {NoParent}
  PROVE  LET r == RecordedRow(row, k)
         IN  /\ r \in IntentRow /\ r.count = row.count /\ r.maxFires = row.maxFires
             /\ r.expires = row.expires /\ r.cooldown = row.cooldown
             /\ r.parent = loop[k].parent /\ (r.failed <=> loop[k].at = "failing")
<1> DEFINE new == [type |-> row.type, expires |-> row.expires, cooldown |-> row.cooldown,
                   maxFires |-> row.maxFires, count |-> row.count, cancelled |-> row.cancelled,
                   parent |-> loop[k].parent, failed |-> loop[k].at = "failing"]
<1>1. PICK r : r = RecordedRow(row, k)
  OBVIOUS
<1>2. r = new
  BY <1>1, ZenonT(30) DEF IntentRow, RecordedRow
<1>3. new \in IntentRow
  BY DEF IntentRow
<1>4. /\ new.count = row.count /\ new.maxFires = row.maxFires
      /\ new.expires = row.expires /\ new.cooldown = row.cooldown
      /\ new.parent = loop[k].parent /\ (new.failed <=> loop[k].at = "failing")
  BY Zenon
<1> HIDE DEF new
<1>5. QED
  BY <1>1, <1>2, <1>3, <1>4

\* The plan that the handler made, or its failure, is written to the row of the intent,
\* which has not fired since; or the intent was cancelled and the handler throws.
LEMMA RecordIntentKeeps ==
  ASSUME AutomationInv, RecordIntent
  PROVE  AutomationInv'
<1> DEFINE handler == loop["handler"]
<1>1. /\ AutomationTypes /\ HandlerOK /\ handler.at \in {"planned", "failing"}
      /\ UNCHANGED <<now, host, job, work, events, origin, fires>>
  BY DEF AutomationInv, RecordIntent
<1>2. PICK i \in Intent : /\ i = Current("handler") /\ i = handler.todo[1] /\ i \in IntentRows
                          /\ IntentOK(i) /\ intent[i] \in IntentRow
  <2>1. handler.todo # <<>>
    BY <1>1 DEF HandlerOK
  <2>2. /\ Current("handler") = handler.todo[1] /\ Current("handler") \in IntentRows
        /\ Current("handler") \in Intent
    BY <2>1, InHand
  <2> QED BY <1>1, <2>2 DEF AutomationTypes, AutomationInv, IntentsOK, IntentRows
<1>3. CASE HandlerThrows /\ UNCHANGED intent
  <2>1. /\ loop' \in [{"drain", "handler"} -> LoopState] /\ loop'["handler"] = IdleLoop
        /\ loop'["drain"] = loop["drain"]
    BY <1>1, <1>3, IdleIsOK, LoopMoves DEF HandlerThrows
  <2>2. HandlerOK'
    BY <2>1, IdleIsOK
  <2> QED BY <1>1, <1>3, <2>1, <2>2, NoRowWritten DEF AutomationTypes
<1>4. CASE /\ intent' = [intent EXCEPT ![i] = RecordedRow(@, "handler")]
           /\ Goto("handler", "audit", NoParent)
  <2>1. /\ handler.parent \in Parent \cup {NoParent}
        /\ handler.parent # NoParent =>
             origin[handler.parent] = [by |-> i, fire |-> intent[i].count] /\ handler.at # "failing"
    BY <1>1, <1>2, AutomationAssumption DEF HandlerOK
  <2>2. PICK r \in IntentRow : r = RecordedRow(intent[i], "handler")
    BY <1>2, <2>1, RecordedIntent
  <2>3. /\ r.count = intent[i].count /\ r.maxFires = intent[i].maxFires
        /\ r.expires = intent[i].expires /\ r.cooldown = intent[i].cooldown
        /\ r.parent = handler.parent /\ (r.failed <=> handler.at = "failing")
    BY <1>2, <2>1, <2>2, RecordedIntent
  <2>4. intent' = [intent EXCEPT ![i] = r]
    BY <1>1, <1>4, <2>2 DEF AutomationTypes
  <2>5. /\ intent'[i] = r /\ r # NoRow /\ (i \in IntentRows)'
        /\ \A q \in Intent \ {i} : intent'[q] = intent[q]
    BY <1>1, <2>4, NoRowIsNone DEF AutomationTypes, IntentRows
  <2>6. IntentOK(i)'
    BY <1>1, <1>2, <2>1, <2>3, <2>5 DEF IntentOK
  <2>7. /\ loop' \in [{"drain", "handler"} -> LoopState] /\ loop'["drain"] = loop["drain"]
        /\ loop'["handler"] = [at |-> "audit", todo |-> handler.todo, parent |-> NoParent]
    BY <1>1, <1>4, GotoMoves DEF Pc
  <2>8. HandlerOK'
    <3>1. \A q \in IntentRows : (q \in IntentRows)' /\ intent'[q].count = intent[q].count
      BY <2>3, <2>5 DEF IntentRows
    <3>2. \A q \in IntentRows : Unplanned(q) => Unplanned(q)'
      BY <1>1, <3>1 DEF Unplanned
    <3>3. /\ loop'["handler"].at = "audit" /\ loop'["handler"].todo = handler.todo
          /\ loop'["handler"].parent = NoParent
      BY <2>7
    <3> QED BY <1>1, <3>1, <3>2, <3>3 DEF HandlerOK
  <2> QED BY <1>1, <2>4, <2>6, <2>7, <2>8, IntentRowBecomes
<1>5. QED
  BY <1>2, <1>3, <1>4 DEF RecordIntent

\* After the audit the handler takes the next intent that the event fired.
LEMMA HandlerAuditedKeeps ==
  ASSUME AutomationInv, Audited("handler")
  PROVE  AutomationInv'
<1> DEFINE handler == loop["handler"]
<1>1. /\ AutomationTypes /\ HandlerOK /\ handler.at = "audit"
      /\ UNCHANGED <<now, host, job, intent, work, events, origin, fires>>
      /\ loop' = [loop EXCEPT !["handler"] =
           IF Tail(handler.todo) = <<>> THEN IdleLoop ELSE Looping("firing", Tail(handler.todo))]
  BY DEF AutomationInv, Audited
<1>2. PICK rest \in Seq(Intent) :
        /\ rest = Tail(handler.todo)
        /\ \A n \in 1..Len(rest) : rest[n] \in IntentRows /\ Unplanned(rest[n])
        /\ \A m, n \in 1..Len(rest) : rest[m] = rest[n] => m = n
  <2>1. /\ handler.todo \in Seq(Intent) /\ handler.todo # <<>>
        /\ \A n \in 1..Len(handler.todo) : handler.todo[n] \in IntentRows
        /\ \A m, n \in 1..Len(handler.todo) : handler.todo[m] = handler.todo[n] => m = n
        /\ \A n \in 1..Len(handler.todo) : n > 1 => Unplanned(handler.todo[n])
    BY <1>1 DEF HandlerOK
  <2>2. PICK all \in Seq(Intent) : all = handler.todo
    BY <2>1
  <2>3. /\ Len(all) \in Nat /\ Tail(all) \in Seq(Intent) /\ Len(Tail(all)) = Len(all) - 1
        /\ \A n \in 1..Len(Tail(all)) : Tail(all)[n] = all[n + 1]
    BY <2>1, <2>2, SeqFacts
  <2>4. \A n \in 1..Len(Tail(all)) : n \in Nat /\ n + 1 \in 1..Len(all) /\ n + 1 > 1
    BY <2>3
  <2>5. \A n \in 1..Len(Tail(all)) : Tail(all)[n] \in IntentRows /\ Unplanned(Tail(all)[n])
    BY <2>1, <2>2, <2>3, <2>4
  <2>6. \A m, n \in 1..Len(Tail(all)) : Tail(all)[m] = Tail(all)[n] => m = n
    BY <2>1, <2>2, <2>3, <2>4
  <2> QED BY <2>2, <2>3, <2>5, <2>6
<1>3. CASE rest = <<>>
  <2>1. /\ loop' \in [{"drain", "handler"} -> LoopState] /\ loop'["handler"] = IdleLoop
        /\ loop'["drain"] = loop["drain"]
    BY <1>1, <1>2, <1>3, IdleIsOK, LoopMoves
  <2>2. HandlerOK'
    BY <2>1, IdleIsOK
  <2> QED BY <1>1, <2>1, <2>2, NoRowWritten DEF AutomationTypes
<1>4. CASE rest # <<>>
  <2>1. PICK r \in LoopState :
          r = Looping("firing", rest) /\ r.at = "firing" /\ r.todo = rest /\ r.parent = NoParent
    BY LoopingMoves DEF Pc
  <2>2. /\ loop' \in [{"drain", "handler"} -> LoopState] /\ loop'["handler"] = r
        /\ loop'["drain"] = loop["drain"]
    BY <1>1, <1>2, <1>4, <2>1, LoopMoves
  <2>3. \A o : Unplanned(o) => Unplanned(o)'
    BY <1>1 DEF Unplanned
  <2>4. HandlerOK'
    <3>1. IntentRows' = IntentRows
      BY <1>1 DEF IntentRows
    <3> QED BY <1>2, <1>4, <2>1, <2>2, <2>3, <3>1 DEF HandlerOK
  <2> QED BY <1>1, <2>2, <2>4, NoRowWritten DEF AutomationTypes
<1>5. QED
  BY <1>3, <1>4

\* The row of an intent that fires counts the fire and names no plan.
LEMMA ClaimedIntent ==
  ASSUME NEW row \in IntentRow
  PROVE  LET r == ClaimedRow(row)
         IN  /\ r \in IntentRow /\ r.count = row.count + 1 /\ r.maxFires = row.maxFires
             /\ r.expires = row.expires /\ r.cooldown = row.cooldown /\ r.parent = NoParent
<1> DEFINE new == [type |-> row.type, expires |-> row.expires, cooldown |-> row.cooldown,
                   maxFires |-> row.maxFires, count |-> row.count + 1, cancelled |-> row.cancelled,
                   parent |-> NoParent, failed |-> FALSE]
<1>1. PICK r : r = ClaimedRow(row)
  OBVIOUS
<1>2. r = new
  BY <1>1, ZenonT(30) DEF IntentRow, ClaimedRow
<1>3. new \in IntentRow
  BY DEF IntentRow
<1>4. /\ new.count = row.count + 1 /\ new.maxFires = row.maxFires
      /\ new.expires = row.expires /\ new.cooldown = row.cooldown /\ new.parent = NoParent
  BY Zenon
<1> HIDE DEF new
<1>5. QED
  BY <1>1, <1>2, <1>3, <1>4

\* A fire within the terms of an intent keeps it within them, and has no plan yet.
LEMMA FireKeeps ==
  ASSUME AutomationTypes, NEW i \in Intent, IntentOK(i), intent[i] # NoRow,
         NEW event, CanFireIntent(i, event), UNCHANGED origin,
         intent'[i] = ClaimedRow(intent[i]), fires'[i] = Append(fires[i], now)
  PROVE  IntentOK(i)' /\ (i \in IntentRows)' /\ Unplanned(i)'
<1>1. /\ intent[i] \in IntentRow /\ fires[i] \in Seq(Nat) /\ now \in Nat
      /\ i \in IntentRows
  BY AutomationAssumption DEF AutomationTypes, IntentRows
<1>2. PICK r \in IntentRow, c \in Nat, s \in Seq(Nat) :
        /\ r = intent'[i] /\ c = intent[i].count /\ s = fires[i]
        /\ r.count = c + 1 /\ r.maxFires = intent[i].maxFires
        /\ r.expires = intent[i].expires /\ r.cooldown = intent[i].cooldown /\ r.parent = NoParent
  <2>1. intent[i].count \in Nat
    BY <1>1 DEF IntentRow
  <2> QED BY <1>1, <2>1, ClaimedIntent
<1>3. /\ Len(s) = c /\ c < r.maxFires /\ now < r.expires
      /\ c > 0 => now - s[c] >= r.cooldown
  <2>1. Len(s) = c
    BY <1>1, <1>2 DEF IntentOK
  <2>2. c > 0 => s # <<>>
    BY <2>1
  <2> QED BY <1>2, <2>1, <2>2 DEF CanFireIntent, Last
<1>4. PICK t \in Seq(Nat) : /\ t = fires'[i] /\ Len(t) = c + 1 /\ t[c + 1] = now
                            /\ \A n \in 1..c : t[n] = s[n]
  <2>1. /\ Append(s, now) \in Seq(Nat) /\ Len(Append(s, now)) = Len(s) + 1
        /\ \A n \in 1..Len(s) : Append(s, now)[n] = s[n]
        /\ Append(s, now)[Len(s) + 1] = now
    BY <1>1, AppendFacts
  <2>2. fires'[i] = Append(s, now)
    BY <1>2
  <2> QED BY <1>3, <2>1, <2>2
<1>5. \A n \in 1..Len(t) : t[n] < r.expires /\ (n > 1 => t[n] - t[n - 1] >= r.cooldown)
  <2> SUFFICES ASSUME NEW n \in 1..(c + 1)
               PROVE  t[n] < r.expires /\ (n > 1 => t[n] - t[n - 1] >= r.cooldown)
    BY <1>4
  <2>1. CASE n \in 1..c
    <3>1. s[n] < r.expires /\ (n > 1 => s[n] - s[n - 1] >= r.cooldown)
      BY <1>2, <1>3, <2>1 DEF IntentOK
    <3>2. n > 1 => n - 1 \in 1..c
      BY <2>1
    <3> QED BY <1>4, <2>1, <3>1, <3>2
  <2>2. CASE n = c + 1
    <3>1. n > 1 => c \in 1..c /\ n - 1 = c /\ c > 0
      BY <2>2
    <3> QED BY <1>3, <1>4, <2>2, <3>1
  <2> QED BY <2>1, <2>2
<1>6. \A p \in Parent : origin'[p].by = i => origin'[p].fire \in 1..c
  BY <1>2, <1>3 DEF IntentOK
<1>7. (i \in IntentRows)' /\ r # NoRow
  BY <1>2, NoRowIsNone DEF IntentRows
<1>8. Unplanned(i)'
  BY <1>2, <1>6 DEF Unplanned
<1>9. IntentOK(i)'
  <2>1. Len(t) = r.count /\ r.count <= r.maxFires
    <3>1. r.maxFires \in Budget
      BY DEF IntentRow
    <3>2. r.maxFires \in Nat
      BY <3>1, AutomationAssumption
    <3> QED BY <1>2, <1>3, <1>4, <3>2
  <2>2. \A p \in Parent : origin'[p].by = i => origin'[p].fire \in 1..Len(t)
    BY <1>4, <1>6
  <2>3. \A p, q \in Parent :
          origin'[p].by = i /\ origin'[q].by = i /\ origin'[p].fire = origin'[q].fire => p = q
    BY DEF IntentOK
  <2> QED BY <1>2, <1>4, <1>5, <1>7, <2>1, <2>2, <2>3 DEF IntentOK
<1>10. QED
  BY <1>7, <1>8, <1>9

\* The handler takes an event, and claims all that it fires.
LEMMA HandleEventKeeps ==
  ASSUME AutomationInv, HandleEvent
  PROVE  AutomationInv'
<1>1. /\ AutomationTypes /\ IntentsOK /\ events # <<>> /\ events' = Tail(events)
      /\ UNCHANGED <<now, host, job, work, origin>>
      /\ PlansStay(Job) /\ PlansStay(Intent)
  BY DEF AutomationInv, HandleEvent, PlansStay
<1>2. events' \in Seq([type : EventType, actor : {"owner", "remote"}])
  BY <1>1, SeqFacts DEF AutomationTypes
<1>3. CASE UNCHANGED <<intent, loop, fires>>
  BY <1>1, <1>2, <1>3, NoRowWritten DEF AutomationTypes
<1>4. CASE ~UNCHANGED <<intent, loop, fires>>
  <2> DEFINE fired == {i \in Intent : /\ intent[i] # NoRow /\ ~intent[i].cancelled
                                       /\ CanFireIntent(i, Head(events))}
  <2>0. /\ intent' = [i \in Intent |-> IF i \in fired THEN ClaimedRow(intent[i]) ELSE intent[i]]
        /\ fires' = [i \in Intent |-> IF i \in fired THEN Append(fires[i], now) ELSE fires[i]]
        /\ \E todo \in SetToSeqs(fired) :
             loop' = [loop EXCEPT !["handler"] =
               IF todo = <<>> THEN IdleLoop ELSE Looping("firing", todo)]
    BY <1>4 DEF HandleEvent
  <2>1. PICK event, claimed :
          /\ event = Head(events) /\ claimed = fired
          /\ intent' = [i \in Intent |->
               IF i \in claimed THEN ClaimedRow(intent[i]) ELSE intent[i]]
          /\ fires' = [i \in Intent |->
               IF i \in claimed THEN Append(fires[i], now) ELSE fires[i]]
          /\ \E todo \in SetToSeqs(claimed) :
               loop' = [loop EXCEPT !["handler"] =
                 IF todo = <<>> THEN IdleLoop ELSE Looping("firing", todo)]
    <3> HIDE DEF fired
    <3> QED BY <2>0
  <2>2. PICK todo \in SetToSeqs(claimed) :
          loop' = [loop EXCEPT !["handler"] =
            IF todo = <<>> THEN IdleLoop ELSE Looping("firing", todo)]
    BY <2>1
  <2>3. claimed \subseteq Intent /\ claimed \subseteq IntentRows /\ IsFiniteSet(claimed)
    <3>1. claimed \subseteq Intent /\ claimed \subseteq IntentRows
      BY <2>1 DEF IntentRows
    <3> QED BY <1>1, <3>1, FS_Subset DEF AutomationTypes
  <2>4. ASSUME NEW i \in claimed
        PROVE  IntentOK(i)' /\ (i \in IntentRows)' /\ Unplanned(i)' /\ intent'[i] \in IntentRow
               /\ fires'[i] \in Seq(Nat)
    <3>1. /\ i \in Intent /\ intent[i] # NoRow /\ CanFireIntent(i, event) /\ IntentOK(i)
          /\ intent'[i] = ClaimedRow(intent[i]) /\ fires'[i] = Append(fires[i], now)
      BY <1>1, <2>1 DEF IntentsOK
    <3>2. IntentOK(i)' /\ (i \in IntentRows)' /\ Unplanned(i)'
      BY <1>1, <3>1, FireKeeps
    <3>3. intent'[i] \in IntentRow
      <4>1. intent[i] \in IntentRow
        BY <1>1, <3>1 DEF AutomationTypes
      <4> QED BY <3>1, <4>1, ClaimedIntent
    <3>4. fires'[i] \in Seq(Nat)
      <4>1. fires[i] \in Seq(Nat) /\ now \in Nat
        BY <1>1, <3>1, AutomationAssumption DEF AutomationTypes
      <4> QED BY <3>1, <4>1, AppendFacts
    <3> QED BY <3>2, <3>3, <3>4
  <2>5. ASSUME NEW i \in Intent \ claimed
        PROVE  IntentOK(i)' /\ intent'[i] = intent[i] /\ fires'[i] = fires[i]
    <3>1. intent'[i] = intent[i] /\ fires'[i] = fires[i]
      BY <2>1
    <3> QED BY <1>1, <3>1, IntentStays DEF IntentsOK
  <2>6. IntentsOK'
    BY <2>4, <2>5 DEF IntentsOK
  <2>7. IntentRows' = IntentRows
    BY <2>3, <2>4, <2>5 DEF IntentRows
  <2>8. intent' \in [Intent -> IntentRow \cup {NoRow}] /\ fires' \in [Intent -> Seq(Nat)]
    <3>1. DOMAIN intent' = Intent /\ DOMAIN fires' = Intent
      BY <2>1
    <3>2. \A i \in Intent : intent'[i] \in IntentRow \cup {NoRow} /\ fires'[i] \in Seq(Nat)
      BY <1>1, <2>4, <2>5 DEF AutomationTypes
    <3>3. intent' = [i \in Intent |-> intent'[i]] /\ fires' = [i \in Intent |-> fires'[i]]
      BY <2>1, Zenon
    <3> QED BY <3>2, <3>3
  <2>9. /\ todo \in Seq(Intent) /\ \A n \in 1..Len(todo) : todo[n] \in claimed
        /\ \A m, n \in 1..Len(todo) : todo[m] = todo[n] => m = n
    <3>1. todo \in Seq(claimed) /\ \A m, n \in 1..Len(todo) : todo[m] = todo[n] => m = n
      BY <2>3, OrderFacts
    <3>2. \A n \in 1..Len(todo) : todo[n] \in claimed
      BY <3>1, SeqFacts
    <3> QED BY <2>3, <3>1, <3>2
  <2>10. /\ loop' \in [{"drain", "handler"} -> LoopState] /\ loop'["drain"] = loop["drain"]
         /\ HandlerOK'
    <3>1. CASE todo = <<>>
      <4>1. /\ loop' \in [{"drain", "handler"} -> LoopState] /\ loop'["handler"] = IdleLoop
            /\ loop'["drain"] = loop["drain"]
        BY <1>1, <2>2, <3>1, IdleIsOK, LoopMoves
      <4> QED BY <4>1, IdleIsOK
    <3>2. CASE todo # <<>>
      <4>1. PICK r \in LoopState :
              r = Looping("firing", todo) /\ r.at = "firing" /\ r.todo = todo /\ r.parent = NoParent
        BY <2>9, LoopingMoves DEF Pc
      <4>2. /\ loop' \in [{"drain", "handler"} -> LoopState] /\ loop'["handler"] = r
            /\ loop'["drain"] = loop["drain"]
        BY <1>1, <2>2, <3>2, <4>1, LoopMoves
      <4>3. \A n \in 1..Len(todo) : (todo[n] \in IntentRows)' /\ Unplanned(todo[n])'
        BY <2>4, <2>9
      <4> QED BY <2>9, <3>2, <4>1, <4>2, <4>3 DEF HandlerOK
    <3> QED BY <3>1, <3>2
  <2>11. JobsOK' /\ DrainOK'
    BY <1>1, <2>10, JobStays, DrainStays DEF AutomationInv, JobsOK, JobRows
  <2>12. AutomationTypes'
    <3>1. JobRows' = JobRows
      BY <1>1 DEF JobRows
    <3> QED BY <1>1, <1>2, <2>7, <2>8, <2>10, <3>1 DEF AutomationTypes
  <2> QED BY <2>6, <2>10, <2>11, <2>12 DEF AutomationInv
<1>5. QED
  BY <1>3, <1>4

-----------------------------------------------------------------------------
(* The theorems *)

\* The invariant holds of every reachable state.
LEMMA AutomationInvariant == Spec => []AutomationInv
<1>1. Init => AutomationInv
  <2> SUFFICES ASSUME Init PROVE AutomationInv
    OBVIOUS
  <2>1. /\ now = 0 /\ host = "up" /\ events = <<>>
        /\ job = [j \in Job |-> NoRow] /\ intent = [i \in Intent |-> NoRow]
        /\ work = [p \in Parent |-> "none"] /\ fires = [i \in Intent |-> <<>>]
        /\ loop = [k \in {"drain", "handler"} |-> IdleLoop]
        /\ origin = [p \in Parent |-> [by |-> "none", fire |-> 0]]
    BY DEF Init
  <2>2. Len(<<>>) = 0 /\ <<>> \in Seq(Nat)
        /\ <<>> \in Seq([type : EventType, actor : {"owner", "remote"}])
    OBVIOUS
  <2>3. JobRows = {} /\ IntentRows = {}
    BY <2>1 DEF JobRows, IntentRows
  <2>4. \A p \in Parent : origin[p].by = "none"
    BY <2>1
  <2>5. DrainOK /\ HandlerOK
    <3>1. loop["drain"] = IdleLoop /\ loop["handler"] = IdleLoop
      BY <2>1
    <3> QED BY <3>1, IdleIsOK
  <2>6. AutomationTypes
    <3>1. now \in 0..MaxTime
      BY <2>1, AutomationAssumption
    <3>2. IsFiniteSet(JobRows) /\ IsFiniteSet(IntentRows)
      BY <2>3, FS_EmptySet
    <3>3. loop \in [{"drain", "handler"} -> LoopState]
      BY <2>1, IdleIsOK
    <3>4. origin \in [Parent -> Origin]
      <4>1. [by |-> "none", fire |-> 0] \in Origin
        BY DEF Origin
      <4> QED BY <2>1, <4>1
    <3>5. fires \in [Intent -> Seq(Nat)]
      BY <2>1, <2>2
    <3>6. /\ job \in [Job -> JobRow \cup {NoRow}] /\ intent \in [Intent -> IntentRow \cup {NoRow}]
          /\ work \in [Parent -> {"none", "open", "ended"}]
      BY <2>1
    <3>7. \A p \in Parent : origin[p].by = "none" <=> work[p] = "none"
      BY <2>1, <2>4
    <3>8. events \in Seq([type : EventType, actor : {"owner", "remote"}])
      BY <2>1, <2>2
    <3> QED BY <2>1, <3>1, <3>2, <3>3, <3>4, <3>5, <3>6, <3>7, <3>8 DEF AutomationTypes
  <2>7. JobsOK
    <3> SUFFICES ASSUME NEW j \in Job PROVE JobOK(j)
      BY DEF JobsOK
    <3>1. \A p \in Parent : origin[p].by # j
      BY <2>4, NoneIsNone
    <3> QED BY <2>3, <3>1 DEF JobOK
  <2>8. IntentsOK
    <3> SUFFICES ASSUME NEW i \in Intent PROVE IntentOK(i)
      BY DEF IntentsOK
    <3>1. \A p \in Parent : origin[p].by # i
      BY <2>4, NoneIsNone
    <3>2. fires[i] = <<>> /\ i \notin IntentRows
      BY <2>1, <2>3
    <3>3. 1..Len(fires[i]) = {}
      BY <2>2, <3>2
    <3> QED BY <3>1, <3>2, <3>3 DEF IntentOK
  <2> QED BY <2>5, <2>6, <2>7, <2>8 DEF AutomationInv
<1>2. AutomationInv /\ [Next]_vars => AutomationInv'
  <2> SUFFICES ASSUME AutomationInv, [Next]_vars PROVE AutomationInv'
    OBVIOUS
  <2>1. CASE UNCHANGED vars
    BY <2>1, NoRowWritten DEF vars, AutomationInv, AutomationTypes
  <2>2. ASSUME NEW k \in {"drain", "handler"}, Plan(k) \/ PlanThrows(k) \/ Audited(k)
        PROVE  AutomationInv'
    BY <2>2, DrainPlanKeeps, HandlerPlanKeeps, DrainAuditedKeeps, HandlerAuditedKeeps
  <2>3. QED
    BY <2>1, <2>2, ScheduleKeeps, CancelJobKeeps, CreateIntentKeeps, CancelIntentKeeps,
       DelegateKeeps, LifeKeeps, StartDrainKeeps, ClaimJobKeeps, HandleEventKeeps,
       RecordJobKeeps, RecordIntentKeeps DEF Next
<1>3. QED
  BY <1>1, <1>2, PTL DEF Spec

\* The tables, the queue of events and both loops have their types, however many events
\* wait.
THEOREM AutomationTypesHold == Spec => []TypeOK
<1>1. AutomationInv => TypeOK
  <2> SUFFICES ASSUME AutomationInv PROVE TypeOK
    OBVIOUS
  <2>1. AutomationTypes /\ DrainOK /\ HandlerOK
    BY DEF AutomationInv
  <2>2. \A n \in DOMAIN events : events[n] \in [type : EventType, actor : {"owner", "remote"}]
    <3> DEFINE S == [type : EventType, actor : {"owner", "remote"}]
    <3>1. events \in Seq(S)
      BY <2>1 DEF AutomationTypes
    <3> HIDE DEF S
    <3>2. \A n \in DOMAIN events : events[n] \in S
      BY <3>1, SeqFacts
    <3> QED BY <3>2 DEF S
  <2>3. ASSUME NEW k \in {"drain", "handler"}
        PROVE  /\ loop[k].at \in Pc /\ loop[k].parent \in Parent \cup {NoParent}
               /\ \A n \in DOMAIN loop[k].todo :
                    loop[k].todo[n] \in IF k = "drain" THEN Job ELSE Intent
    <3>1. loop[k].at \in Pc /\ loop[k].parent \in Parent \cup {NoParent}
      BY <2>1 DEF AutomationTypes, LoopState
    <3>2. loop["drain"].todo \in Seq(Job) /\ loop["handler"].todo \in Seq(Intent)
      BY <2>1 DEF DrainOK, HandlerOK
    <3>3. CASE k = "drain"
      <4>1. \A n \in DOMAIN loop["drain"].todo : loop["drain"].todo[n] \in Job
        BY <3>2, SeqFacts
      <4> QED BY <3>1, <3>3, <4>1
    <3>4. CASE k # "drain"
      <4>1. \A n \in DOMAIN loop["handler"].todo : loop["handler"].todo[n] \in Intent
        BY <3>2, SeqFacts
      <4> QED BY <3>1, <3>4, <4>1
    <3> QED BY <3>3, <3>4
  <2>4. \A p \in Parent : origin[p].by \in Job \cup Intent \cup {"owner", "remote", "none"}
    BY <2>1 DEF AutomationTypes, Origin
  <2> QED BY <2>1, <2>2, <2>3, <2>4 DEF AutomationTypes, TypeOK
<1>2. QED
  BY <1>1, AutomationInvariant, PTL

\* Whatever comes between a claim, its plan and its record, and whenever the process
\* dies: a job is turned into one plan at most, and into none once its owner was told
\* that it is cancelled (scheduler.ts:147); an intent fires within its budget, its
\* cooldown and before it expires, and makes one plan at most for each fire
\* (intent-store.ts:219, intent-matcher.ts:12); and a row names the plan made for it, for an
\* intent that of its latest fire.
THEOREM TermsAreKept == Spec => []KeepsTerms
<1>1. AutomationInv => KeepsTerms
  <2> SUFFICES ASSUME AutomationInv PROVE KeepsTerms
    OBVIOUS
  <2>1. AutomationTypes /\ JobsOK /\ IntentsOK
    BY DEF AutomationInv
  <2>2. JobRunsOnce
    <3> SUFFICES ASSUME NEW j \in Job
                 PROVE  /\ Cardinality(PlansOf(j)) <= 1
                        /\ PlansOf(j) # {} => job[j].fired /\ ~job[j].cancelled
      BY DEF JobRunsOnce
    <3>1. JobOK(j)
      BY <2>1 DEF JobsOK
    <3>2. PlansOf(j) # {} => job[j].fired /\ ~job[j].cancelled
      BY <3>1 DEF PlansOf, JobOK
    <3>3. CASE PlansOf(j) = {}
      BY <3>2, <3>3, FS_EmptySet
    <3>4. CASE PlansOf(j) # {}
      <4>1. PICK p : p \in PlansOf(j)
        BY <3>4
      <4>2. PlansOf(j) = {p}
        BY <3>1, <4>1 DEF PlansOf, JobOK
      <4>3. Cardinality({p}) = 1
        BY FS_Singleton, Zenon
      <4>4. Cardinality({p}) <= 1
        BY <4>3
      <4> QED BY <3>2, <4>2, <4>4, Zenon
    <3> QED BY <3>3, <3>4
  <2>3. FiresWithinTerms
    <3> SUFFICES ASSUME NEW i \in Intent
                 PROVE  /\ \A n \in DOMAIN fires[i] :
                             /\ fires[i][n] < intent[i].expires
                             /\ n > 1 => fires[i][n] - fires[i][n - 1] >= intent[i].cooldown
                        /\ fires[i] # <<>> => Len(fires[i]) = intent[i].count
                                              /\ Len(fires[i]) <= intent[i].maxFires
                        /\ \A p, q \in PlansOf(i) : p # q => origin[p].fire # origin[q].fire
                        /\ \A p \in PlansOf(i) : origin[p].fire \in DOMAIN fires[i]
      BY DEF FiresWithinTerms
    <3>1. IntentOK(i) /\ fires[i] \in Seq(Nat)
      BY <2>1 DEF IntentsOK, AutomationTypes
    <3>2. DOMAIN fires[i] = 1..Len(fires[i])
      BY <3>1, SeqFacts
    <3> QED BY <3>1, <3>2 DEF IntentOK, PlansOf
  <2>4. RecordedParent
    BY <2>1 DEF JobsOK, JobOK, IntentsOK, IntentOK, JobRows, IntentRows, RecordedParent
  <2> QED BY <2>2, <2>3, <2>4 DEF KeepsTerms
<1>2. QED
  BY <1>1, AutomationInvariant, PTL

\* The claim of a job is not taken back by a step of a host that stops, nor is one made.
LEMMA ClaimsStay ==
  ASSUME AutomationInv, host = "stopping", [Next]_vars, NEW j \in Job, job[j] # NoRow
  PROVE  job'[j].fired = job[j].fired
<1>1. /\ AutomationTypes /\ DrainOK /\ job[j] \in JobRow
      /\ job \in [Job -> JobRow \cup {NoRow}]
  BY DEF AutomationInv, AutomationTypes
<1>2. ASSUME NEW q \in Job, NEW runAt \in RunAt, Schedule(q, runAt)
      PROVE  job'[j] = job[j]
  BY <1>1, <1>2 DEF Schedule
<1>3. ASSUME NEW q \in Job, CancelJob(q)
      PROVE  job'[j].fired = job[j].fired
  <2>1. job' = [job EXCEPT ![q].cancelled = TRUE]
    BY <1>3 DEF CancelJob
  <2>2. CASE q # j
    BY <1>1, <2>1, <2>2
  <2>3. CASE q = j
    <3> DEFINE new == [runAt |-> job[j].runAt, fired |-> job[j].fired, cancelled |-> TRUE,
                       parent |-> job[j].parent, failed |-> job[j].failed]
    <3>1. job'[j] = new
      BY <1>1, <2>1, <2>3, ZenonT(30) DEF JobRow
    <3>2. new.fired = job[j].fired
      BY Zenon
    <3> HIDE DEF new
    <3> QED BY <3>1, <3>2
  <2> QED BY <2>2, <2>3
<1>4. CASE RecordJob
  <2>1. PICK q : q = Current("drain") /\ job' = [job EXCEPT ![q] = RecordedRow(@, "drain")]
    BY <1>4 DEF RecordJob
  <2>2. CASE q # j
    BY <1>1, <2>1, <2>2
  <2>3. CASE q = j
    <3>1. loop["drain"].parent \in Parent \cup {NoParent}
      BY <1>1 DEF AutomationTypes, LoopState
    <3>2. job'[j] = RecordedRow(job[j], "drain")
      BY <1>1, <2>1, <2>3
    <3> QED BY <1>1, <3>1, <3>2, RecordedJob
  <2> QED BY <2>2, <2>3
<1>5. CASE ClaimJob
  BY <1>5 DEF ClaimJob, DrainOver
<1>6. CASE /\ ~RecordJob /\ ~ClaimJob /\ \A q \in Job : ~CancelJob(q)
           /\ \A q \in Job, runAt \in RunAt : ~Schedule(q, runAt)
  <2>1. job' = job
    BY <1>6 DEF Next, vars, CreateIntent, CancelIntent, Delegate, TaskEnds, StartDrain,
                HandleEvent, RecordIntent, Plan, PlanThrows, Audited, Stop, StopDone, Crash,
                Restart, Tick, ProcessEnds
  <2> QED BY <2>1
<1>7. QED
  BY <1>2, <1>3, <1>4, <1>5, <1>6

\* Once the host is told to stop it claims nothing more, neither the rest of the drain's
\* snapshot nor what the events left in the queue fire (server.ts:1859, 1910), for
\* any number of them.
THEOREM StopsClaiming == Spec => StopEndsClaims
<1>1. ASSUME AutomationInv, [Next]_vars, host = "stopping"
      PROVE  /\ fires' = fires
             /\ \A j \in Job : job[j] # NoRow => job'[j].fired = job[j].fired
  <2>1. fires' = fires
    BY <1>1 DEF Next, vars, Schedule, CancelJob, CreateIntent, CancelIntent, Delegate, TaskEnds,
                StartDrain, ClaimJob, HandleEvent, RecordJob, RecordIntent, Plan, PlanThrows,
                Audited, Stop, StopDone, Crash, Restart, Tick, ProcessEnds
  <2>2. ASSUME NEW j \in Job, job[j] # NoRow PROVE job'[j].fired = job[j].fired
    BY <1>1, <2>2, ClaimsStay
  <2> QED BY <2>1, <2>2
<1>2. AutomationInv /\ [Next]_vars =>
        [host = "stopping" =>
           /\ fires' = fires
           /\ \A j \in Job : job[j] # NoRow => job'[j].fired = job[j].fired]_vars
  BY <1>1
<1>3. QED
  BY <1>2, AutomationInvariant, PTL DEF Spec, StopEndsClaims
=============================================================================
