--------------------------- MODULE ChannelPromise ---------------------------
(***************************************************************************)
(* What the Tencent channel promises, however many connections, channels   *)
(* and processes it takes: it serves one owner at a time, who alone gives  *)
(* it tasks and hears of them; a message has one task, but for those that  *)
(* a dying process did not note; and results leave in the order of their   *)
(* commits.  QQChannel implements it.                                      *)
(***************************************************************************)
EXTENDS Naturals

CONSTANTS QQUser, NoQQOwner, QQMessage

VARIABLES
  owner,      \* who the saved settings name
  ending,     \* the host is told to end
  tasks,      \* how many tasks were submitted for a message
  noted,      \* the task noted for it, 0 for none
  told,       \* the tasks its sender was told of
  committed,  \* how many results there are
  waiting     \* those that are not delivered

promiseVars == <<owner, ending, tasks, noted, told, committed, waiting>>

PromiseInit ==
  /\ owner = NoQQOwner /\ ending = FALSE
  /\ tasks = [m \in QQMessage |-> 0] /\ noted = [m \in QQMessage |-> 0]
  /\ told = [m \in QQMessage |-> {}]
  /\ committed = 0 /\ waiting = {}

\* The owner changes, the host is told to end, and the next one starts.
Serves(o) == owner' = o /\ UNCHANGED <<ending, tasks, noted, told, committed, waiting>>
Ends == ending' = ~ending /\ UNCHANGED <<owner, tasks, noted, told, committed, waiting>>

\* A message counts while its sender is the owner and the host goes on.
Counts(m) == m[1] = owner /\ ~ending

\* A message without a task gets one, which is noted unless the process dies before.
Takes(m) ==
  /\ Counts(m) /\ noted[m] = 0
  /\ tasks' = [tasks EXCEPT ![m] = @ + 1]
  /\ noted' \in {noted, [noted EXCEPT ![m] = tasks'[m]]}
  /\ UNCHANGED <<owner, ending, told, committed, waiting>>

Tells(m) ==
  /\ Counts(m) /\ noted[m] # 0
  /\ told' = [told EXCEPT ![m] = @ \cup {noted[m]}]
  /\ UNCHANGED <<owner, ending, tasks, noted, committed, waiting>>

Commits ==
  /\ committed' = committed + 1 /\ waiting' = waiting \cup {committed + 1}
  /\ UNCHANGED <<owner, ending, tasks, noted, told>>

\* The oldest goes first.
Delivers ==
  /\ \E i \in waiting : (\A j \in waiting : i <= j) /\ waiting' = waiting \ {i}
  /\ UNCHANGED <<owner, ending, tasks, noted, told, committed>>

PromiseNext ==
  \/ \E o \in QQUser \cup {NoQQOwner} : Serves(o)
  \/ \E m \in QQMessage : Takes(m) \/ Tells(m)
  \/ Ends \/ Commits \/ Delivers

PromiseSpec == PromiseInit /\ [][PromiseNext]_promiseVars
=============================================================================
