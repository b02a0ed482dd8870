----------------------------- MODULE QQChannel -----------------------------
(***************************************************************************)
(* The Tencent channel: the manager in the host that binds, replaces and   *)
(* closes one QQ connection, and the plugin behind it, which answers the   *)
(* commands of the owner, remembers the task of every message and sends    *)
(* committed results when the connection comes up. Settings are saved as   *)
(* in HostSettings; here a change is saved or fails.                       *)
(***************************************************************************)
EXTENDS Naturals, Sequences, FiniteSets

CONSTANTS QQUser, QQSender,  \* who may be the owner, and who of them writes
          NoQQOwner,         \* the channel is disabled
          MaxChannels,       \* bound: channels made by one process
          MaxResults,        \* bound: results committed
          MaxMessages,       \* bound: messages of one user
          MaxQQSubmits,      \* bound: tasks submitted for one message
          QQBatch            \* results a flush takes at most: 100

ASSUME QQAssumption ==
    /\ MaxChannels \in Nat /\ MaxResults \in Nat /\ MaxMessages \in Nat /\ MaxQQSubmits \in Nat
    /\ QQBatch \in Nat \ {0}

VARIABLES ownerId,    \* #settings of the manager: the owner, or NoQQOwner
          manager,    \* where its change or its close stands
          saving,     \* the owner a change is about to set
          current,    \* #channel, with its #operation and #operationAbort; 0 for none
          channel,    \* every channel of the process
          hostEnds,   \* the host's signal is aborted
          results,    \* the table of deliveries, in the order of their ids: delivered or not
          flush,      \* #active of each channel's pump: the deliveries left, the oldest of them being sent
          requests,   \* the task remembered for a message, 0 for none
          submitted,  \* tasks submitted for a message
          replies,    \* answers a channel is about to send: message and task
          answered    \* the tasks that answers named, by message

qqVars == <<ownerId, manager, saving, current, channel, hostEnds, results, flush, requests, submitted, replies, answered>>

\* QQ delivers every message as often as it likes.
QQMessage == QQSender \X (1..MaxMessages)
SenderOf(m) == m[1]

ChannelId == 1..MaxChannels
NoChannel == [phase |-> "none"]
\* "starting": credentials are resolved and the bot starts; "ended": start has returned; "closed": databases too.
Channel == [phase: {"starting", "online", "ended", "closed"}, owner: QQUser, aborted: BOOLEAN]

QQTypeOK ==
    /\ ownerId \in QQUser \cup {NoQQOwner} /\ saving \in QQUser \cup {NoQQOwner}
    /\ manager \in {"unbound", "idle", "saving", "restarting", "closing", "closed"}
    /\ current \in {0} \cup ChannelId
    /\ channel \in [ChannelId -> Channel \cup {NoChannel}]
    /\ hostEnds \in BOOLEAN
    /\ results \in Seq(BOOLEAN) /\ Len(results) <= MaxResults
    /\ flush \in [ChannelId -> SUBSET (1..MaxResults)]
    /\ requests \in [QQMessage -> 0..MaxQQSubmits] /\ submitted \in [QQMessage -> 0..MaxQQSubmits]
    /\ replies \in [ChannelId -> SUBSET (QQMessage \X (1..MaxQQSubmits))]
    /\ answered \in [QQMessage -> SUBSET (1..MaxQQSubmits)]

tableVars == <<results, requests, submitted, answered>>

-----------------------------------------------------------------------------
\* The end of #restart: a channel for the owner is made, paired and started, unless the channel is disabled or the
\* host ends. The channels before it are passed as they are after #stopActive.
QQRestart(channels, owner) ==
    IF owner = NoQQOwner \/ hostEnds
    THEN current' = 0 /\ channel' = channels /\ manager' = "idle"
    ELSE \E c \in ChannelId :
           /\ channels[c] = NoChannel /\ \A d \in 1..(c - 1) : channels[d] # NoChannel
           /\ channel' = [channels EXCEPT ![c] = [phase |-> "starting", owner |-> owner, aborted |-> FALSE]]
           /\ current' = c /\ manager' = "idle"

\* #stopActive up to its await: the channel's signal is aborted and the manager lets go of it.
StopActive(next) ==
    /\ manager' = next
    /\ channel' = [channel EXCEPT ![current].aborted = TRUE]
    /\ UNCHANGED current

Bind ==
    /\ manager = "unbound"
    /\ QQRestart(channel, ownerId)
    /\ UNCHANGED <<ownerId, saving, hostEnds, flush, replies, tableVars>>

Configure(owner) ==
    /\ manager = "idle"
    /\ manager' = "saving" /\ saving' = owner
    /\ UNCHANGED <<ownerId, current, channel, hostEnds, flush, replies, tableVars>>

ConfigureFails ==
    /\ manager = "saving"
    /\ manager' = "idle"
    /\ UNCHANGED <<ownerId, saving, current, channel, hostEnds, flush, replies, tableVars>>

\* The settings are saved; in the same step the manager takes them and aborts the channel in use.
ConfigureSaved ==
    /\ manager = "saving"
    /\ ownerId' = saving
    /\ IF current = 0 THEN QQRestart(channel, saving) ELSE StopActive("restarting")
    /\ UNCHANGED <<saving, hostEnds, flush, replies, tableVars>>

\* Mutant: the next channel is made before the operation of the last one has ended.
ConfigureApplied_AtOnce ==
    /\ manager = "restarting"
    /\ QQRestart(channel, ownerId)
    /\ UNCHANGED <<ownerId, saving, hostEnds, flush, replies, tableVars>>

\* The operation of the channel has ended: it is closed, and the next one is made.
ConfigureApplied ==
    /\ manager = "restarting" /\ channel[current].phase = "ended"
    /\ QQRestart([channel EXCEPT ![current].phase = "closed"], ownerId)
    /\ UNCHANGED <<ownerId, saving, hostEnds, flush, replies, tableVars>>

\* The host's signal aborts the channel it was linked to; #stopActive unlinks it when it aborts by itself.
HostEnds ==
    /\ ~hostEnds /\ manager # "unbound"
    /\ hostEnds' = TRUE
    /\ channel' = [c \in ChannelId |-> IF c = current THEN [channel[c] EXCEPT !.aborted = TRUE] ELSE channel[c]]
    /\ UNCHANGED <<ownerId, manager, saving, current, flush, replies, tableVars>>

\* close waits for the changes, then for the operation.
Close ==
    /\ hostEnds /\ manager = "idle"
    /\ IF current = 0 THEN manager' = "closed" /\ UNCHANGED <<current, channel>> ELSE StopActive("closing")
    /\ UNCHANGED <<ownerId, saving, hostEnds, flush, replies, tableVars>>

Closed ==
    /\ manager = "closing" /\ channel[current].phase = "ended"
    /\ channel' = [channel EXCEPT ![current].phase = "closed"]
    /\ current' = 0 /\ manager' = "closed"
    /\ UNCHANGED <<ownerId, saving, hostEnds, flush, replies, tableVars>>

-----------------------------------------------------------------------------
\* The deliveries that pending selects of the oldest n, and those that slice leaves of all.
PendingOf(n) == {i \in 1..n : ~results[i]}
PendingBatch == {i \in PendingOf(Len(results)) : Cardinality(PendingOf(i)) <= QQBatch}

\* The bot reports ready or resumed: what is not delivered is sent, unless the pump is at it.
Ready(c) ==
    /\ channel[c].phase \in {"starting", "online"} /\ ~channel[c].aborted
    /\ channel' = [channel EXCEPT ![c].phase = "online"]
    /\ flush' = [flush EXCEPT ![c] = IF @ = {} THEN PendingBatch ELSE @]
    /\ UNCHANGED <<ownerId, manager, saving, current, hostEnds, replies, tableVars>>

\* start returns: the signal was aborted, the credentials are missing, or the connection was given up.
ConnectionEnds(c) ==
    /\ channel[c].phase \in {"starting", "online"}
    /\ channel' = [channel EXCEPT ![c].phase = "ended"]
    /\ UNCHANGED <<ownerId, manager, saving, current, hostEnds, flush, replies, tableVars>>

\* What a sender may do: the owner of the channel, who was paired when it was made, in a private conversation.
Permitted(c, m, private) == private /\ SenderOf(m) = channel[c].owner

\* Mutant: the signal is not looked at.
TakesUp_Stopped(c) == channel[c].phase = "online"

\* A message is taken up while the signal is not aborted.
TakesUp(c) == channel[c].phase = "online" /\ ~channel[c].aborted

\* /task: a message that was seen is answered with its task, another one is submitted and remembered.
CreateTask(c, m, private) ==
    /\ TakesUp(c) /\ Permitted(c, m, private)
    /\ IF requests[m] # 0
       THEN UNCHANGED <<requests, submitted>> /\ replies' = [replies EXCEPT ![c] = @ \cup {<<m, requests[m]>>}]
       ELSE /\ submitted[m] < MaxQQSubmits
            /\ submitted' = [submitted EXCEPT ![m] = @ + 1]
            /\ requests' = [requests EXCEPT ![m] = submitted'[m]]
            /\ replies' = [replies EXCEPT ![c] = @ \cup {<<m, submitted'[m]>>}]
    /\ UNCHANGED <<ownerId, manager, saving, current, channel, hostEnds, flush, results, answered>>

\* The answer is sent, or dropped when the signal was aborted or the client is gone by then.
QQReply(c) ==
    \E r \in replies[c] :
      /\ replies' = [replies EXCEPT ![c] = @ \ {r}]
      /\ answered' = IF TakesUp(c) THEN [answered EXCEPT ![r[1]] = @ \cup {r[2]}] ELSE answered
      /\ UNCHANGED <<ownerId, manager, saving, current, channel, hostEnds, flush, results, requests, submitted>>

\* A result for the owner is stored; nothing sends it before the connection comes up the next time.
CommitResult ==
    /\ current # 0 /\ Len(results) < MaxResults
    /\ results' = Append(results, FALSE)
    /\ UNCHANGED <<ownerId, manager, saving, current, channel, hostEnds, flush, requests, submitted, replies, answered>>

\* The delivery of a flush that is being sent.
SendingOf(c) == CHOOSE i \in flush[c] : \A j \in flush[c] : i <= j

\* A result was sent: it is marked, unless the database was closed meanwhile, and the next one follows.
ResultSent(c) ==
    /\ flush[c] # {}
    /\ IF channel[c].phase = "closed" THEN UNCHANGED results
       ELSE results' = [results EXCEPT ![SendingOf(c)] = TRUE]
    /\ flush' = [flush EXCEPT ![c] = IF channel[c].phase = "online" THEN @ \ {SendingOf(c)} ELSE {}]
    /\ UNCHANGED <<ownerId, manager, saving, current, channel, hostEnds, requests, submitted, replies, answered>>

\* Mutant: the flush goes on with the next result.
SendFails_GoesOn(c) ==
    /\ flush[c] # {}
    /\ flush' = [flush EXCEPT ![c] = @ \ {SendingOf(c)}]
    /\ UNCHANGED <<ownerId, manager, saving, current, channel, hostEnds, replies, tableVars>>

\* It was not sent, or nobody knows: the flush rejects and the rest waits for the next one.
SendFails(c) ==
    /\ flush[c] # {}
    /\ flush' = [flush EXCEPT ![c] = {}]
    /\ UNCHANGED <<ownerId, manager, saving, current, channel, hostEnds, replies, tableVars>>

-----------------------------------------------------------------------------
\* The process ends - it may have submitted a task that it did not remember - and the next one loads what was saved.
NextProcess ==
    /\ manager' = "unbound" /\ current' = 0 /\ hostEnds' = FALSE /\ saving' = NoQQOwner
    /\ channel' = [c \in ChannelId |-> NoChannel]
    /\ flush' = [c \in ChannelId |-> {}]
    /\ replies' = [c \in ChannelId |-> {}]
    /\ \/ UNCHANGED submitted
       \/ \E c \in ChannelId, m \in QQMessage :
            /\ TakesUp(c) /\ Permitted(c, m, TRUE) /\ requests[m] = 0 /\ submitted[m] < MaxQQSubmits
            /\ submitted' = [submitted EXCEPT ![m] = @ + 1]
    /\ UNCHANGED <<ownerId, results, requests, answered>>

QQInit ==
    /\ ownerId = NoQQOwner /\ manager = "unbound" /\ saving = NoQQOwner /\ current = 0 /\ hostEnds = FALSE
    /\ channel = [c \in ChannelId |-> NoChannel]
    /\ results = <<>> /\ flush = [c \in ChannelId |-> {}]
    /\ requests = [m \in QQMessage |-> 0] /\ submitted = [m \in QQMessage |-> 0]
    /\ replies = [c \in ChannelId |-> {}] /\ answered = [m \in QQMessage |-> {}]

QQNext ==
    \/ Bind \/ ConfigureFails \/ ConfigureSaved \/ ConfigureApplied \/ HostEnds \/ Close \/ Closed
    \/ \E o \in QQUser \cup {NoQQOwner} : Configure(o)
    \/ \E c \in ChannelId : Ready(c) \/ ConnectionEnds(c) \/ QQReply(c) \/ ResultSent(c) \/ SendFails(c)
    \/ \E c \in ChannelId, m \in QQMessage, private \in BOOLEAN : CreateTask(c, m, private)
    \/ CommitResult \/ NextProcess

QQSpec == QQInit /\ [][QQNext]_qqVars

-----------------------------------------------------------------------------
(***************************************************************************)
(* One channel at a time, whatever overlaps: a replaced channel is at rest *)
(* before the next one is made, the one in use works for the owner in the  *)
(* settings unless it is being stopped, and none is left when the manager  *)
(* is closed (tencent-channel-manager.ts:285, 278).                        *)
(***************************************************************************)
OneChannel ==
    /\ \A c \in ChannelId : channel[c].phase \in {"starting", "online"} => c = current
    /\ current # 0 /\ ~channel[current].aborted => channel[current].owner = ownerId
    /\ manager = "closed" => \A c \in ChannelId : channel[c].phase \in {"none", "closed"}

(***************************************************************************)
(* All answers to one message name one task, however often QQ delivers it, *)
(* and whatever process or channel answers (task-control.ts:140).          *)
(***************************************************************************)
AnswersAgree == \A m \in QQMessage : Cardinality(answered[m]) <= 1

(***************************************************************************)
(* Results are delivered in the order they were committed, over failing    *)
(* sends, reconnects, replaced channels and crashes (qq-delivery.ts:53).   *)
(***************************************************************************)
ResultsInOrder == \A i, j \in 1..Len(results) : i < j /\ results[j] => results[i]

(***************************************************************************)
(* The channel implements ChannelPromise: with its connections, channels   *)
(* and processes left out it takes tasks from the owner in the manager's   *)
(* settings alone, not from the owner before, whose channel is still being *)
(* stopped, nor once it was disabled or the host ends, and tells nobody    *)
(* else of them; it notes one task for a message, and delivers results     *)
(* oldest first (runtime.ts:77, controller.ts:95, task-control.ts:140,     *)
(* qq-delivery.ts:53).                                                     *)
(***************************************************************************)
Promise == INSTANCE ChannelPromise WITH
    owner <- ownerId, ending <- hostEnds, tasks <- submitted, noted <- requests, told <- answered,
    committed <- Len(results), waiting <- PendingOf(Len(results))

ChannelKeepsPromise == Promise!PromiseSpec
=============================================================================
