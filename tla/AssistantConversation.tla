----------------------- MODULE AssistantConversation -----------------------
(***************************************************************************)
(* The owner talks to the assistant: text or speech comes in, is appended  *)
(* to a session, and is answered by the dashboard, a desktop action, the   *)
(* state of recent tasks or a model, or becomes a plan. Several requests   *)
(* share a session, which may be deleted while they await something; the   *)
(* host stops by aborting them and waits for their connections.            *)
(***************************************************************************)
EXTENDS Naturals, Sequences, FiniteSets, SequencesExt

CONSTANTS ConvClient,  \* connections
          MaxSessions, \* bound: sessions ever made
          MaxAsked,    \* bound: messages of the owner ever appended
          MaxPlanned,  \* bound: plans under way
          Routes       \* bound: the routes that speech takes

ASSUME ConvAssumption == MaxSessions \in Nat /\ MaxAsked \in Nat /\ MaxPlanned \in Nat

VARIABLES convHost,  \* the process
          session,   \* the tables assistant_sessions and assistant_messages
          expired,   \* sessions not updated for the days of retention
          talk,      \* what each connection's handler awaits
          asked,     \* messages of the owner so far
          convWork   \* the children of the owner's plans, that a stream of events follows

convVars == <<convHost, session, expired, talk, asked, convWork>>

SessionId == 1..MaxSessions
Message == [role: {"user", "assistant"}, question: 1..MaxAsked]
MissingSession(state) == [state |-> state, rows |-> <<>>]
\* What a message is about, as the patterns that are tried one after the other find it.
Topic == {"dashboard", "desktop", "status", "coding", "talk"}
\* The local provider or Alibaba alone, or the local one and Alibaba when that fails.
VoiceRoute == {"one", "auto"}
ASSUME RoutesBound == Routes \subseteq VoiceRoute
\* Speech is made of up to 1,000 characters, a session takes up to 4,000, a model may write 64,000.
Size == {"speakable", "storable", "oversized"}

Silent == [at |-> "idle", topic |-> "none", session |-> 0, question |-> 0, route |-> "none", sent |-> {},
           aborted |-> FALSE, connected |-> FALSE]

ConvTypeOK ==
    /\ convHost \in {"up", "stopping", "closed"}
    /\ \A s \in SessionId : session[s].state \in {"unused", "live", "deleted"} /\ session[s].rows \in Seq(Message)
    /\ expired \subseteq SessionId
    /\ \A c \in ConvClient :
         /\ talk[c].at \in {"idle", "transcribe", "fallback", "dashboard", "desktop", "status", "model",
                            "speak", "speak again", "stream"}
         /\ talk[c].topic \in Topic \cup {"none"} /\ talk[c].route \in VoiceRoute \cup {"none"}
         /\ talk[c].sent \subseteq 1..MaxAsked
    /\ asked \in 0..MaxAsked
    /\ convWork \in [queued: 0..MaxPlanned, running: 0..MaxPlanned]

TalkAt(c, step) == talk[c].at = step
Live(s) == s \in SessionId /\ session[s].state = "live" /\ convHost # "closed"
Say(c, r) == talk' = [talk EXCEPT ![c] = r]
Reply(c) == Say(c, Silent)

-----------------------------------------------------------------------------
\* The reply is spoken when the question was and the text is short enough; without speech the reply goes all the same.
Answered(c, size) ==
    IF talk[c].route # "none" /\ size = "speakable"
    THEN Say(c, [talk[c] EXCEPT !.at = "speak", !.topic = "none", !.session = 0, !.question = 0, !.sent = {}])
    ELSE Reply(c)

\* Mutant: the row of the session is not looked for, but made if it is not there.
CanAppend_Upserts(s, size) == convHost # "closed" /\ size # "oversized"
CanAppend(s, size) == Live(s) /\ size # "oversized"

\* appendAssistantMessage, then the reply; it throws when the session is gone meanwhile, or the text is too long.
AppendAnswer(c, size) ==
    LET s == talk[c].session
        row == [role |-> "assistant", question |-> talk[c].question]
    IN  IF CanAppend(s, size)
        THEN /\ session' = [session EXCEPT ![s] = [state |-> "live", rows |-> Append(@.rows, row)]]
             /\ expired' = expired \ {s}
             /\ Answered(c, size)
        ELSE Reply(c) /\ UNCHANGED <<session, expired>>

\* appendUserMessage with the request r: a new session when none is named, and a refusal when it is not there.
AppendQuestion(c, r, named, topic) ==
    LET s == IF named = 0 THEN Cardinality({x \in SessionId : session[x].state # "unused"}) + 1 ELSE named
    IN  IF s = named /\ ~Live(s)
        THEN Reply(c) /\ UNCHANGED <<session, expired, asked>>
        ELSE /\ s \in SessionId /\ asked < MaxAsked
             /\ asked' = asked + 1
             /\ session' = [session EXCEPT ![s] = [state |-> "live",
                                                   rows |-> Append(@.rows, [role |-> "user", question |-> asked + 1])]]
             /\ expired' = expired \ {s}
             /\ Say(c, [r EXCEPT !.session = s, !.question = asked + 1, !.topic = topic,
                                 !.at = IF topic = "dashboard" THEN "dashboard" ELSE "desktop"])

\* A request's head has come and its body is read: not yet an operation that stop aborts.
Connect(c) ==
    /\ convHost = "up" /\ ~talk[c].connected /\ TalkAt(c, "idle")
    /\ Say(c, [Silent EXCEPT !.connected = TRUE])
    /\ UNCHANGED <<convHost, session, expired, asked, convWork>>

BodyRead(c) == TalkAt(c, "idle") /\ talk[c].connected

SendText(c, named, topic) ==
    /\ BodyRead(c)
    /\ AppendQuestion(c, talk[c], named, topic)
    /\ UNCHANGED <<convHost, convWork>>

SendSpeech(c, route, named) ==
    /\ BodyRead(c)
    /\ Say(c, [talk[c] EXCEPT !.at = "transcribe", !.route = route, !.session = named])
    /\ UNCHANGED <<convHost, session, expired, asked, convWork>>

-----------------------------------------------------------------------------
\* The provider of the route fails: the other one is tried for auto, unless the request is aborted.
VoiceFails(c, first, second) ==
    /\ TalkAt(c, first) \/ TalkAt(c, second)
    /\ IF TalkAt(c, first) /\ talk[c].route = "auto" /\ ~talk[c].aborted
       THEN Say(c, [talk[c] EXCEPT !.at = second])
       ELSE Reply(c)
    /\ UNCHANGED <<convHost, session, expired, asked, convWork>>

\* The sidecar's process or the service does not answer with a transcript, or with audio.
TranscriptionFails(c) == VoiceFails(c, "transcribe", "fallback")
SpeechFails(c) == VoiceFails(c, "speak", "speak again")

Heard(c) ==
    /\ TalkAt(c, "transcribe") \/ TalkAt(c, "fallback")
    /\ \E topic \in Topic : AppendQuestion(c, talk[c], talk[c].session, topic)
    /\ UNCHANGED <<convHost, convWork>>

\* A word that stops is answered as such, and leaves no message.
HeardStop(c) ==
    /\ TalkAt(c, "transcribe") \/ TalkAt(c, "fallback")
    /\ Reply(c)
    /\ UNCHANGED <<convHost, session, expired, asked, convWork>>

Spoken(c) ==
    /\ TalkAt(c, "speak") \/ TalkAt(c, "speak again")
    /\ Reply(c)
    /\ UNCHANGED <<convHost, session, expired, asked, convWork>>

\* Mutant: the command is executed, and its message goes on to the model.
DashboardAnswers_GoesOn(c) ==
    /\ TalkAt(c, "dashboard") /\ Live(talk[c].session)
    /\ LET s == talk[c].session IN
       session' = [session EXCEPT ![s].rows = Append(@, [role |-> "assistant", question |-> talk[c].question])]
    /\ Say(c, [talk[c] EXCEPT !.at = "desktop", !.topic = "talk"])
    /\ UNCHANGED <<convHost, expired, asked, convWork>>

DashboardAnswers(c) ==
    /\ TalkAt(c, "dashboard")
    /\ \/ AppendAnswer(c, "speakable")
       \/ Reply(c) /\ UNCHANGED <<session, expired>>
    /\ UNCHANGED <<convHost, asked, convWork>>

\* Two children run at a time.
Pump(w) == IF w.queued > 0 /\ w.running < 2 THEN [queued |-> w.queued - 1, running |-> w.running + 1] ELSE w

\* Mutant: the last message is taken for the one that is asked, and left to the model as such.
Questions_Before(rows) == {rows[i].question : i \in {j \in DOMAIN rows : rows[j].role = "user" /\ j < Len(rows)}}
Questions(rows) == {rows[i].question : i \in {j \in DOMAIN rows : rows[j].role = "user"}}

\* The launcher opens the application, or fails. A message that asks for none goes on: the messages of the session are
\* read for the model, and a task is planned.
DesktopAnswers(c) ==
    /\ TalkAt(c, "desktop")
    /\ LET s == talk[c].session
           topic == talk[c].topic
           planned == topic = "coding" /\ Live(s)
       IN  /\ convWork' = IF planned THEN Pump([convWork EXCEPT !.queued = @ + 1]) ELSE convWork
           /\ planned => convWork.queued + convWork.running < MaxPlanned
           /\ \/ /\ topic = "desktop" /\ AppendAnswer(c, "speakable")
              \/ /\ topic = "desktop" \/ ~Live(s)
                 /\ Reply(c) /\ UNCHANGED <<session, expired>>
              \/ /\ topic \in {"status", "talk"} /\ Live(s)
                 /\ Say(c, [talk[c] EXCEPT !.at = IF topic = "talk" THEN "model" ELSE "status",
                                           !.sent = Questions(session[s].rows)])
                 /\ UNCHANGED <<session, expired>>
              \/ planned /\ Answered(c, "speakable") /\ UNCHANGED <<session, expired>>
    /\ UNCHANGED <<convHost, asked>>

StatusAnswers(c) ==
    /\ TalkAt(c, "status")
    /\ IF talk[c].aborted THEN Reply(c) /\ UNCHANGED <<session, expired>> ELSE AppendAnswer(c, "speakable")
    /\ UNCHANGED <<convHost, asked, convWork>>

ModelAnswers(c) ==
    /\ TalkAt(c, "model") /\ ~talk[c].aborted
    /\ \E size \in Size : AppendAnswer(c, size)
    /\ UNCHANGED <<convHost, asked, convWork>>

\* An event of the stream is none, it has no end, the time limit is over, or the request is aborted.
ModelFails(c) == TalkAt(c, "model") /\ Reply(c) /\ UNCHANGED <<convHost, session, expired, asked, convWork>>

-----------------------------------------------------------------------------
OpenStream(c) ==
    /\ convHost = "up" /\ convWork.queued + convWork.running > 0
    /\ ~talk[c].connected /\ TalkAt(c, "idle")
    /\ Say(c, [Silent EXCEPT !.at = "stream", !.connected = TRUE])
    /\ UNCHANGED <<convHost, session, expired, asked, convWork>>

\* Mutant: the stream only looks at the children, and what is queued waits for another request to dispatch it.
FlushStream_Watches(c) ==
    /\ TalkAt(c, "stream")
    /\ convWork.queued + convWork.running = 0 /\ Reply(c)
    /\ UNCHANGED <<convHost, session, expired, asked, convWork>>

\* Every 20 ms the stream refreshes the parent, which dispatches what is queued, and ends with the last child.
FlushStream(c) ==
    /\ TalkAt(c, "stream")
    /\ convWork' = Pump(convWork)
    /\ IF convWork'.queued + convWork'.running = 0 THEN Reply(c) ELSE UNCHANGED talk
    /\ UNCHANGED <<convHost, session, expired, asked>>

ChildEnds ==
    /\ convWork.running > 0 /\ convWork' = [convWork EXCEPT !.running = @ - 1]
    /\ UNCHANGED <<convHost, session, expired, talk, asked>>

\* The connection goes: a spoken request is aborted, a stream ends, and a text request may not hear of it.
Disconnect(c) ==
    /\ talk[c].connected
    /\ IF TalkAt(c, "stream") THEN Reply(c)
       ELSE \E heard \in BOOLEAN :
              Say(c, [talk[c] EXCEPT !.connected = FALSE, !.aborted = @ \/ heard \/ talk[c].route # "none"])
    /\ UNCHANGED <<convHost, session, expired, asked, convWork>>

DeleteSession(s) ==
    /\ convHost = "up" /\ Live(s)
    /\ session' = [session EXCEPT ![s] = MissingSession("deleted")]
    /\ UNCHANGED <<convHost, expired, talk, asked, convWork>>

\* Days pass.
Expires(s) ==
    /\ Live(s) /\ s \notin expired
    /\ expired' = expired \cup {s}
    /\ UNCHANGED <<convHost, session, talk, asked, convWork>>

-----------------------------------------------------------------------------
\* stop: running tasks are cancelled and requests aborted; it waits for the connections, then the stores close. When
\* a cancel throws nobody handles the rejection of stop and the process ends: RestartHost, while the host is up.
StopHost ==
    /\ convHost = "up"
    /\ convHost' = "stopping"
    /\ talk' = [c \in ConvClient |-> IF TalkAt(c, "idle") \/ TalkAt(c, "stream") THEN talk[c]
                                     ELSE [talk[c] EXCEPT !.aborted = TRUE]]
    /\ convWork' = [convWork EXCEPT !.running = 0]
    /\ UNCHANGED <<session, expired, asked>>

StoresClose ==
    /\ convHost = "stopping"
    /\ \A c \in ConvClient : ~talk[c].connected
    /\ convHost' = "closed"
    /\ UNCHANGED <<session, expired, talk, asked, convWork>>

\* The process ends, at once or after stop; the next one purges what has expired and recovers no child.
RestartHost ==
    /\ convHost' = "up"
    /\ session' = [s \in SessionId |-> IF s \in expired THEN MissingSession("deleted") ELSE session[s]]
    /\ expired' = {}
    /\ talk' = [c \in ConvClient |-> Silent]
    /\ convWork' = [queued |-> 0, running |-> 0]
    /\ UNCHANGED asked

ConvInit ==
    /\ convHost = "up"
    /\ session = [s \in SessionId |-> MissingSession("unused")]
    /\ expired = {}
    /\ talk = [c \in ConvClient |-> Silent]
    /\ asked = 0
    /\ convWork = [queued |-> 0, running |-> 0]

Handler(c) ==
    \/ TranscriptionFails(c) \/ Heard(c) \/ HeardStop(c) \/ SpeechFails(c) \/ Spoken(c)
    \/ DashboardAnswers(c) \/ DesktopAnswers(c) \/ StatusAnswers(c) \/ ModelAnswers(c) \/ ModelFails(c)
    \/ FlushStream(c)

ClientSends(c) ==
    \E s \in 0..MaxSessions : \/ \E topic \in Topic : SendText(c, s, topic)
                              \/ \E route \in Routes : SendSpeech(c, route, s)

ConvNext ==
    \/ \E c \in ConvClient : Handler(c) \/ Connect(c) \/ ClientSends(c) \/ OpenStream(c) \/ Disconnect(c)
    \/ ChildEnds
    \/ \E s \in SessionId : DeleteSession(s) \/ Expires(s)
    \/ StopHost \/ StoresClose \/ RestartHost

ConvSpec == ConvInit /\ [][ConvNext]_convVars

-----------------------------------------------------------------------------
(***************************************************************************)
(* A conversation that was deleted or purged stays so, and none of its     *)
(* messages comes back, though requests that it was deleted under are      *)
(* still to append their answers (session-store.ts:103, 160).              *)
(***************************************************************************)
DeletedStaysDeleted ==
    [][\A s \in SessionId : session[s].state = "deleted" => session'[s] = session[s]]_convVars

(***************************************************************************)
(* Every answer follows its own question in the same session, and no       *)
(* question is answered twice, whatever is asked, deleted and aborted      *)
(* meanwhile (server.ts:1527).                                             *)
(***************************************************************************)
AnswersFollowQuestions ==
    \A s \in SessionId : LET rows == session[s].rows IN
      \A i \in DOMAIN rows : rows[i].role = "assistant" =>
        /\ \E j \in 1..(i - 1) : rows[j] = [role |-> "user", question |-> rows[i].question]
        /\ \A j \in DOMAIN rows : rows[j] = rows[i] => j = i

(***************************************************************************)
(* The model is asked with the question in its session's messages, in      *)
(* spite of the awaits between append and read (server.ts:1558).           *)
(***************************************************************************)
ModelSeesQuestion == \A c \in ConvClient : TalkAt(c, "model") => talk[c].question \in talk[c].sent

(***************************************************************************)
(* A host that stops gets to the end of it: each connection it waits for   *)
(* ends, the streams of tasks that it cancelled included (server.ts:437).  *)
(***************************************************************************)
StopFinishes == convHost = "stopping" ~> convHost # "stopping"
=============================================================================
