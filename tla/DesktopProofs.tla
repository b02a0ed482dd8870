---------------------------- MODULE DesktopProofs ----------------------------
(***************************************************************************)
(* The desktop's pages, for any number of recordings, assistants, workers, *)
(* reloads and clicks: what each of them promises, by an invariant of its  *)
(* own. What a page awaits comes back to a page that has gone on, so each  *)
(* invariant says what the awaited answer may still do to it.              *)
(***************************************************************************)
EXTENDS DesktopVoice, DesktopOffice, DesktopWorkbench, DesktopRail, DesktopShell, DesktopPanels, TLAPS, SequenceTheorems

-----------------------------------------------------------------------------
(* The voice *)

Mic == [open: BOOLEAN, leaked: BOOLEAN, recording: BOOLEAN, heard: BOOLEAN, discard: BOOLEAN,
        timer: BOOLEAN, stale: 0..MaxStarts]
Wake == [enabled: BOOLEAN, suspended: BOOLEAN, aborted: BOOLEAN,
         loop: {"off", "media", "window", "asking", "start", "delay"}]
Submission == [at: {"none", "asking", "tracking", "speaking"}, aborted: BOOLEAN]

\* While muted nothing is played and the loop, wherever it is, has been told to end.
Quiet(w) == ~w.enabled /\ (w.loop \in {"media", "window", "asking"} => w.aborted)

\* Whose answer is awaited is the one of voiceOperation.
Awaited(x) == x.at = "asking" /\ ~x.aborted

\* The three parts of the state that the actions change, each on its own.
MicOK == mic \in Mic
WakeOK == wake \in Wake /\ (muted => Quiet(wake))
SubmitsOK == /\ submit \in [SubmitId -> Submission] /\ voiceOp \in 0..MaxSubmits
             /\ \A op \in SubmitId : Awaited(submit[op]) => op = voiceOp
SwitchesOK == muted \in BOOLEAN /\ playing \in BOOLEAN /\ voiceStarts \in 0..MaxStarts /\ (muted => ~playing)

VoiceInv == MicOK /\ WakeOK /\ SubmitsOK /\ SwitchesOK

\* What the microphone's state becomes.
LEMMA MicsAre ==
  ASSUME NEW m \in Mic
  PROVE  /\ Release(m) \in Mic
         /\ [Release(m) EXCEPT !.discard = TRUE] \in Mic
         /\ [m EXCEPT !.discard = FALSE, !.heard = FALSE] \in Mic
         /\ [m EXCEPT !.heard = TRUE] \in Mic
         /\ m.stale > 0 => [m EXCEPT !.stale = @ - 1] \in Mic
<1> DEFINE r == Release(m)
<1>1. r \in Mic
  BY DEF Mic, Release
<1> HIDE DEF r
<1>2. [r EXCEPT !.discard = TRUE] \in Mic
  BY <1>1 DEF Mic
<1>3. [m EXCEPT !.discard = FALSE, !.heard = FALSE] \in Mic
  BY DEF Mic
<1>4. [m EXCEPT !.heard = TRUE] \in Mic
  BY DEF Mic
<1>5. ASSUME m.stale > 0
      PROVE  [m EXCEPT !.stale = @ - 1] \in Mic
  <2> DEFINE k == m.stale - 1
  <2>1. k \in 0..MaxStarts
    BY <1>5, VoiceAssumption DEF Mic
  <2> HIDE DEF k
  <2>2. [m EXCEPT !.stale = k] \in Mic
    BY <2>1 DEF Mic
  <2> QED BY <2>2 DEF k
<1>6. QED
  BY <1>1, <1>2, <1>3, <1>4, <1>5 DEF r

\* And the wake listener's: what stops it quiets it, and only a click on its button ends the quiet.
LEMMA PauseIsQuiet ==
  ASSUME NEW w \in Wake
  PROVE  /\ PauseWake(w) \in Wake /\ PauseWake(w).enabled = w.enabled /\ PauseWake(w).suspended = w.suspended
         /\ PauseWake(w).loop = w.loop
         /\ w.loop \in {"media", "window", "asking"} => PauseWake(w).aborted
         /\ w.aborted => PauseWake(w).aborted
<1> DEFINE a == w.aborted \/ w.loop \in {"media", "window", "asking"}
<1>1. a \in BOOLEAN /\ (w.loop \in {"media", "window", "asking"} => a) /\ (w.aborted => a)
  BY DEF Wake
<1>2. PauseWake(w) = [w EXCEPT !.aborted = a]
  BY DEF PauseWake
<1> HIDE DEF a
<1>3. QED
  BY <1>1, <1>2 DEF Wake

LEMMA StopIsQuiet ==
  ASSUME NEW w \in Wake
  PROVE  StopWake(w) \in Wake /\ Quiet(StopWake(w)) /\ ~StopWake(w).suspended
<1> DEFINE p == PauseWake(w)
<1>1. p \in Wake /\ (p.loop \in {"media", "window", "asking"} => p.aborted)
  BY PauseIsQuiet
<1>2. StopWake(w) = [p EXCEPT !.enabled = FALSE, !.suspended = FALSE]
  BY DEF StopWake
<1> HIDE DEF p
<1> DEFINE q == [p EXCEPT !.enabled = FALSE, !.suspended = FALSE]
<1>3. q \in Wake /\ q.enabled = FALSE /\ q.suspended = FALSE /\ q.loop = p.loop /\ q.aborted = p.aborted
  BY <1>1 DEF Wake
<1> HIDE DEF q
<1>4. QED
  BY <1>1, <1>2, <1>3 DEF Quiet, q

LEMMA SuspendedIs ==
  ASSUME NEW w \in Wake, NEW b \in BOOLEAN
  PROVE  /\ [w EXCEPT !.suspended = b] \in Wake
         /\ Quiet(w) => Quiet([w EXCEPT !.suspended = b])
BY DEF Wake, Quiet

LEMMA LoopIs ==
  ASSUME NEW w \in Wake
  PROVE  RunLoop(w) \in Wake /\ (Quiet(w) => Quiet(RunLoop(w)))
BY DEF Wake, Quiet, RunLoop

\* The operation that voiceOperation holds is aborted, the others stay.
LEMMA OpAborted ==
  ASSUME NEW ops \in [SubmitId -> Submission], voiceOp \in 0..MaxSubmits
  PROVE  /\ AbortOp(ops) \in [SubmitId -> Submission]
         /\ \A p \in SubmitId : p # voiceOp => AbortOp(ops)[p] = ops[p]
         /\ \A p \in SubmitId : p = voiceOp => ~Awaited(AbortOp(ops)[p])
<1>1. CASE voiceOp = 0
  BY <1>1, VoiceAssumption DEF AbortOp, SubmitId
<1>2. CASE voiceOp # 0
  <2> DEFINE x == ops[voiceOp]
             b == x.aborted \/ x.at # "none"
             y == [x EXCEPT !.aborted = b]
  <2>1. voiceOp \in SubmitId /\ x \in Submission
    BY <1>2, VoiceAssumption DEF SubmitId
  <2>2. b \in BOOLEAN /\ (x.at = "asking" => b)
    BY <2>1 DEF Submission
  <2>3. AbortOp(ops) = [ops EXCEPT ![voiceOp] = y]
    BY <1>2, <2>1 DEF AbortOp
  <2> HIDE DEF b
  <2>4. y \in Submission /\ ~Awaited(y)
    BY <2>1, <2>2 DEF Submission, Awaited
  <2> HIDE DEF x, y
  <2> QED BY <2>1, <2>3, <2>4
<1>3. QED
  BY <1>1, <1>2

\* One submission is over, or goes on from its question.
LEMMA SubmitGoes ==
  ASSUME SubmitsOK, NEW op \in SubmitId, NEW x \in Submission, ~Awaited(x),
         submit' = [submit EXCEPT ![op] = x], voiceOp' = voiceOp \/ (voiceOp = op /\ voiceOp' = 0)
  PROVE  SubmitsOK'
BY VoiceAssumption DEF SubmitsOK, SubmitId

LEMMA CancelVoiceKeeps ==
  ASSUME MicOK, WakeOK, SubmitsOK, CancelVoice(submit)
  PROVE  MicOK' /\ wake' \in Wake /\ Quiet(wake)' /\ SubmitsOK' /\ playing' = FALSE
<1>1. MicOK'
  BY MicsAre DEF MicOK, CancelVoice
<1>2. wake' \in Wake /\ Quiet(wake)'
  BY StopIsQuiet DEF WakeOK, CancelVoice, Quiet
<1>3. SubmitsOK'
  BY OpAborted, VoiceAssumption DEF SubmitsOK, CancelVoice
<1>4. QED
  BY <1>1, <1>2, <1>3 DEF CancelVoice

LEMMA NewSubmit ==
         /\ NotSubmitted \in Submission /\ ~Awaited(NotSubmitted)
         /\ [NotSubmitted EXCEPT !.at = "asking"] \in Submission
BY DEF NotSubmitted, Submission, Awaited

LEMMA SupersedeKeeps ==
  ASSUME SubmitsOK, NEW op \in SubmitId, Supersede(op), voiceOp' = op
  PROVE  SubmitsOK'
<1>1. /\ AbortOp(submit) \in [SubmitId -> Submission]
      /\ \A p \in SubmitId : ~Awaited(AbortOp(submit)[p])
  BY OpAborted DEF SubmitsOK
<1>2. submit' = [AbortOp(submit) EXCEPT ![op] = [NotSubmitted EXCEPT !.at = "asking"]]
  BY DEF Supersede
<1>3. QED
  BY <1>1, <1>2, NewSubmit, VoiceAssumption DEF SubmitsOK, SubmitId

LEMMA FinishKeeps ==
  ASSUME MicOK, SubmitsOK, NEW b, FinishRecording(b)
  PROVE  MicOK' /\ SubmitsOK'
<1>1. MicOK'
  BY MicsAre DEF MicOK, FinishRecording
<1>2. CASE UNCHANGED <<submit, voiceOp>>
  BY <1>1, <1>2 DEF SubmitsOK
<1>3. CASE \E op \in SubmitId : submit[op].at = "none" /\ Supersede(op) /\ voiceOp' = op
  BY <1>1, <1>3, SupersedeKeeps
<1>4. QED
  BY <1>2, <1>3, <1>1 DEF FinishRecording

LEMMA VoiceBegins ==
  ASSUME VoiceInit
  PROVE  VoiceInv
<1>1. MicOK
  BY VoiceAssumption DEF VoiceInit, MicOK, Mic
<1>2. WakeOK
  BY DEF VoiceInit, WakeOK, Wake
<1>3. SubmitsOK
  BY NewSubmit, VoiceAssumption DEF VoiceInit, SubmitsOK
<1>4. SwitchesOK
  <2>1. muted = FALSE /\ playing = FALSE /\ voiceStarts = 0
    BY DEF VoiceInit
  <2>2. 0 \in 0..MaxStarts
    BY VoiceAssumption
  <2> QED BY <2>1, <2>2, ZenonT(20) DEF SwitchesOK
<1>5. QED
  BY <1>1, <1>2, <1>3, <1>4 DEF VoiceInv

\* A recording begins, goes on and ends.
LEMMA RecordingKeeps ==
  ASSUME VoiceInv, \/ ClickVoice \/ AudioProcess \/ TimerFires \/ StaleTimerFires
                   \/ \E byLoop \in BOOLEAN : MicrophoneOpens(byLoop) \/ MicrophoneFails(byLoop)
  PROVE  VoiceInv'
<1>1. MicOK /\ WakeOK /\ SubmitsOK /\ SwitchesOK
  BY DEF VoiceInv
<1>2. CASE ClickVoice
  <2>1. CASE mic.recording
    <3>1. FinishRecording(TRUE) /\ UNCHANGED <<wake, voiceStarts, muted, playing>>
      BY <1>2, <2>1 DEF ClickVoice
    <3> QED BY <1>1, <3>1, FinishKeeps DEF VoiceInv, WakeOK, SwitchesOK
  <2>2. CASE ~mic.recording
    <3>1. /\ voiceStarts < MaxStarts /\ voiceStarts' = voiceStarts + 1 /\ mic' = Asks
          /\ wake' = PauseWake([wake EXCEPT !.suspended = TRUE])
          /\ UNCHANGED <<submit, voiceOp, muted, playing>>
      BY <1>2, <2>2 DEF ClickVoice
    <3>2. MicOK'
      BY <1>1, <3>1, MicsAre DEF MicOK, Asks
    <3>3. WakeOK'
      <4> DEFINE w == [wake EXCEPT !.suspended = TRUE]
      <4>1. w \in Wake /\ (Quiet(wake) => Quiet(w))
        BY <1>1, SuspendedIs DEF WakeOK
      <4> HIDE DEF w
      <4>2. PauseWake(w) \in Wake /\ (Quiet(w) => Quiet(PauseWake(w)))
        BY <4>1, PauseIsQuiet DEF Quiet
      <4> QED BY <1>1, <3>1, <4>1, <4>2 DEF WakeOK, w
    <3>4. SubmitsOK' /\ SwitchesOK'
      BY <1>1, <3>1, VoiceAssumption DEF SubmitsOK, SwitchesOK
    <3> QED BY <3>2, <3>3, <3>4 DEF VoiceInv
  <2> QED BY <2>1, <2>2
<1>3. CASE AudioProcess
  BY <1>1, <1>3, MicsAre DEF VoiceInv, AudioProcess, MicOK, WakeOK, SubmitsOK, SwitchesOK
<1>4. CASE TimerFires
  <2>1. MicOK' /\ SubmitsOK'
    BY <1>1, <1>4, FinishKeeps DEF TimerFires
  <2> QED BY <1>1, <1>4, <2>1 DEF VoiceInv, TimerFires, WakeOK, SwitchesOK
<1>5. CASE StaleTimerFires
  <2> DEFINE m == [mic EXCEPT !.stale = @ - 1]
  <2>1. m \in Mic /\ Release(m) \in Mic
    BY <1>1, <1>5, MicsAre DEF MicOK, StaleTimerFires
  <2>2. /\ mic' \in {m, Release(m)}
        /\ \/ \E op \in SubmitId : Supersede(op) /\ voiceOp' = op
           \/ UNCHANGED <<submit, voiceOp>>
        /\ UNCHANGED <<muted, voiceStarts, wake, playing>>
    BY <1>5 DEF StaleTimerFires
  <2> HIDE DEF m
  <2>3. MicOK' /\ SubmitsOK'
    BY <1>1, <2>1, <2>2, SupersedeKeeps DEF MicOK, SubmitsOK
  <2> QED BY <1>1, <2>2, <2>3 DEF VoiceInv, WakeOK, SwitchesOK
<1>6. ASSUME NEW byLoop \in BOOLEAN, MicrophoneOpens(byLoop)
      PROVE  VoiceInv'
  <2>1. MicOK'
    <3> DEFINE l == mic.leaked \/ mic.open
               k == IF mic.timer THEN mic.stale + 1 ELSE mic.stale
    <3>1. mic' = [mic EXCEPT !.open = TRUE, !.leaked = l, !.recording = TRUE, !.timer = TRUE, !.stale = k]
      BY <1>1, <1>6 DEF MicrophoneOpens, Opened, MicOK, Mic
    <3>2. l \in BOOLEAN /\ k \in 0..MaxStarts
      BY <1>1, <1>6, VoiceAssumption DEF MicrophoneOpens, MicOK, Mic
    <3> HIDE DEF l, k
    <3> QED BY <1>1, <3>1, <3>2 DEF MicOK, Mic
  <2>2. WakeOK'
    BY <1>1, <1>6 DEF MicrophoneOpens, WakeOK, Wake, Quiet
  <2>3. SubmitsOK' /\ SwitchesOK'
    BY <1>1, <1>6, VoiceAssumption DEF MicrophoneOpens, SubmitsOK, SwitchesOK
  <2> QED BY <2>1, <2>2, <2>3 DEF VoiceInv
<1>7. ASSUME NEW byLoop \in BOOLEAN, MicrophoneFails(byLoop)
      PROVE  VoiceInv'
  <2>1. MicOK'
    BY <1>1, <1>7, MicsAre DEF MicrophoneFails, MicOK
  <2>2. WakeOK'
    <3>1. CASE byLoop
      <4> DEFINE v == [wake EXCEPT !.suspended = FALSE, !.loop = "off"]
      <4>1. wake' = v /\ muted' = muted
        BY <1>7, <3>1 DEF MicrophoneFails
      <4>2. v \in Wake /\ (Quiet(wake) => Quiet(v))
        BY <1>1 DEF WakeOK, Wake, Quiet
      <4> HIDE DEF v
      <4> QED BY <1>1, <4>1, <4>2 DEF WakeOK, Quiet
    <3>2. CASE ~byLoop
      BY <1>1, <1>7, <3>2, SuspendedIs, LoopIs DEF MicrophoneFails, WakeOK
    <3> QED BY <3>1, <3>2
  <2>3. SubmitsOK' /\ SwitchesOK'
    BY <1>1, <1>7, VoiceAssumption DEF MicrophoneFails, SubmitsOK, SwitchesOK
  <2> QED BY <2>1, <2>2, <2>3 DEF VoiceInv
<1>8. QED
  BY <1>2, <1>3, <1>4, <1>5, <1>6, <1>7

\* An answer is awaited, spoken and over.
LEMMA AnswerKeeps ==
  ASSUME VoiceInv, \/ \E op \in SubmitId : VoiceAnswered(op) \/ VoiceTracked(op) \/ SpokenStop(op) \/ SubmitEnds(op)
                   \/ PlaybackEnds
  PROVE  VoiceInv'
<1>1. MicOK /\ WakeOK /\ SubmitsOK /\ SwitchesOK
  BY DEF VoiceInv
<1>2. ASSUME NEW op \in SubmitId, NEW step \in {"tracking", "speaking"}
      PROVE  [submit[op] EXCEPT !.at = step] \in Submission /\ ~Awaited([submit[op] EXCEPT !.at = step])
  BY <1>1, <1>2 DEF SubmitsOK, Submission, Awaited
<1>3. ASSUME NEW op \in SubmitId, VoiceAnswered(op) \/ VoiceTracked(op)
      PROVE  VoiceInv'
  <2>1. PICK step \in {"tracking", "speaking"} : submit' = [submit EXCEPT ![op].at = step]
    BY <1>3 DEF VoiceAnswered, VoiceTracked, PlaySpeech
  <2>2. submit' = [submit EXCEPT ![op] = [submit[op] EXCEPT !.at = step]] /\ voiceOp' = voiceOp
    BY <1>3, <2>1 DEF VoiceAnswered, VoiceTracked
  <2>3. SubmitsOK'
    BY <1>1, <1>2, <2>2, SubmitGoes
  <2>4. MicOK' /\ WakeOK'
    BY <1>1, <1>3 DEF VoiceAnswered, VoiceTracked, MicOK, WakeOK
  <2>5. SwitchesOK'
    <3>1. UNCHANGED <<muted, voiceStarts>>
      BY <1>3 DEF VoiceAnswered, VoiceTracked
    <3>2. playing' = playing \/ (~muted /\ playing' \in {playing, TRUE})
      BY <1>3 DEF VoiceAnswered, VoiceTracked, PlaySpeech
    <3>3. playing' \in BOOLEAN
      BY <1>1, <3>2 DEF SwitchesOK
    <3>4. muted => ~playing'
      BY <1>1, <3>2 DEF SwitchesOK
    <3> QED BY <1>1, <3>1, <3>3, <3>4 DEF SwitchesOK
  <2> QED BY <2>3, <2>4, <2>5 DEF VoiceInv
<1>4. ASSUME NEW w \in Wake
      PROVE  SubmitOver(w) \in Wake /\ (Quiet(w) => Quiet(SubmitOver(w)))
  BY SuspendedIs, LoopIs DEF SubmitOver
<1>5. ASSUME NEW op \in SubmitId, SpokenStop(op)
      PROVE  VoiceInv'
  <2>1. MicOK'
    BY <1>1, <1>5, MicsAre DEF SpokenStop, MicOK
  <2>2. WakeOK'
    BY <1>1, <1>4, <1>5, StopIsQuiet DEF SpokenStop, WakeOK
  <2>3. SubmitsOK'
    <3>1. /\ AbortOp(submit) \in [SubmitId -> Submission]
          /\ \A p \in SubmitId : ~Awaited(AbortOp(submit)[p])
      BY <1>1, OpAborted DEF SubmitsOK
    <3>2. submit' = [AbortOp(submit) EXCEPT ![op] = NotSubmitted] /\ voiceOp' = 0
      BY <1>5 DEF SpokenStop
    <3> QED BY <3>1, <3>2, NewSubmit, VoiceAssumption DEF SubmitsOK
  <2>4. SwitchesOK'
    BY <1>1, <1>5 DEF SpokenStop, SwitchesOK
  <2> QED BY <2>1, <2>2, <2>3, <2>4 DEF VoiceInv
<1>6. ASSUME NEW op \in SubmitId, SubmitEnds(op)
      PROVE  VoiceInv'
  <2>1. SubmitsOK'
    BY <1>1, <1>6, SubmitGoes, NewSubmit DEF SubmitEnds
  <2>2. WakeOK'
    BY <1>1, <1>4, <1>6 DEF SubmitEnds, WakeOK
  <2>3. MicOK' /\ SwitchesOK'
    BY <1>1, <1>6 DEF SubmitEnds, MicOK, SwitchesOK
  <2> QED BY <2>1, <2>2, <2>3 DEF VoiceInv
<1>7. CASE PlaybackEnds
  BY <1>1, <1>7 DEF VoiceInv, PlaybackEnds, MicOK, WakeOK, SubmitsOK, SwitchesOK
<1>8. QED
  BY <1>3, <1>5, <1>6, <1>7

\* The loop that listens for the phrase.
LEMMA WakeKeeps ==
  ASSUME VoiceInv, WakeMedia \/ WindowOver \/ WakeAgain \/ DelayOver \/ WakeFails \/ Awake \/ ClickWake
  PROVE  VoiceInv'
<1>1. MicOK /\ WakeOK /\ SubmitsOK /\ SwitchesOK
  BY DEF VoiceInv
<1>2. CASE WakeMedia \/ WindowOver
  BY <1>1, <1>2 DEF VoiceInv, WakeMedia, WindowOver, LoopAt, OthersStay, MicOK, WakeOK, SubmitsOK, SwitchesOK, Wake, Quiet
<1>3. CASE WakeAgain \/ DelayOver
  <2>1. WakeOK'
    <3>1. CASE WakeAgain
      <4> DEFINE l == IF Listening THEN "delay" ELSE "off"
      <4>1. wake' = [wake EXCEPT !.aborted = FALSE, !.loop = l]
        BY <1>3, <3>1 DEF WakeAgain
      <4>2. l \in {"delay", "off"}
        OBVIOUS
      <4> HIDE DEF l
      <4> QED BY <1>1, <3>1, <4>1, <4>2 DEF WakeAgain, OthersStay, WakeOK, Wake, Quiet
    <3>2. CASE DelayOver
      <4> DEFINE l == IF Listening THEN "media" ELSE "off"
      <4>1. wake' = [wake EXCEPT !.loop = l]
        BY <3>2 DEF DelayOver
      <4>2. l \in {"media", "off"} /\ (~wake.enabled => l = "off")
        BY DEF Listening
      <4> HIDE DEF l
      <4> QED BY <1>1, <3>2, <4>1, <4>2 DEF DelayOver, OthersStay, WakeOK, Wake, Quiet
    <3> QED BY <1>3, <3>1, <3>2
  <2> QED BY <1>1, <1>3, <2>1 DEF VoiceInv, WakeAgain, DelayOver, OthersStay, MicOK, SubmitsOK, SwitchesOK
<1>4. CASE WakeFails
  <2>1. WakeOK'
    <3> DEFINE w == StopWake(wake)
    <3>1. w \in Wake /\ Quiet(w)
      BY <1>1, StopIsQuiet DEF WakeOK
    <3>2. wake' = [w EXCEPT !.loop = "off", !.aborted = FALSE]
      BY <1>4 DEF WakeFails
    <3> HIDE DEF w
    <3> QED BY <3>1, <3>2 DEF WakeOK, Wake, Quiet
  <2> QED BY <1>1, <1>4, <2>1 DEF VoiceInv, WakeFails, OthersStay, MicOK, SubmitsOK, SwitchesOK
<1>5. CASE Awake
  <2>1. CASE mic.recording
    <3>1. FinishRecording(TRUE) /\ wake' = [wake EXCEPT !.loop = "off"] /\ OthersStay
      BY <1>5, <2>1 DEF Awake
    <3>2. WakeOK'
      BY <1>1, <3>1 DEF OthersStay, WakeOK, Wake, Quiet
    <3> QED BY <1>1, <3>1, <3>2, FinishKeeps DEF VoiceInv, OthersStay, SwitchesOK
  <2>2. CASE ~mic.recording
    <3>1. /\ mic' = Asks /\ wake' = [wake EXCEPT !.suspended = TRUE, !.loop = "start"]
          /\ UNCHANGED <<submit, voiceOp>> /\ OthersStay
      BY <1>5, <2>2 DEF Awake
    <3>2. WakeOK'
      BY <1>1, <3>1 DEF OthersStay, WakeOK, Wake, Quiet
    <3>3. MicOK'
      BY <1>1, <3>1, MicsAre DEF MicOK, Asks
    <3> QED BY <1>1, <3>1, <3>2, <3>3 DEF VoiceInv, OthersStay, SubmitsOK, SwitchesOK
  <2> QED BY <2>1, <2>2
<1>6. CASE ClickWake
  <2>1. WakeOK'
    <3>1. CASE wake' = StopWake(wake)
      BY <1>1, <1>6, <3>1, StopIsQuiet DEF ClickWake, WakeOK
    <3>2. CASE ~muted /\ wake' = RunLoop([wake EXCEPT !.enabled = TRUE, !.suspended = FALSE])
      <4> DEFINE w == [wake EXCEPT !.enabled = TRUE, !.suspended = FALSE]
      <4>1. w \in Wake
        BY <1>1 DEF WakeOK, Wake
      <4> HIDE DEF w
      <4>2. RunLoop(w) \in Wake
        BY <4>1, LoopIs
      <4> QED BY <1>6, <3>2, <4>2 DEF ClickWake, OthersStay, WakeOK, w
    <3> QED BY <1>6, <3>1, <3>2 DEF ClickWake
  <2> QED BY <1>1, <1>6, <2>1 DEF VoiceInv, ClickWake, OthersStay, MicOK, SubmitsOK, SwitchesOK
<1>7. QED
  BY <1>2, <1>3, <1>4, <1>5, <1>6

LEMMA VoiceStep ==
  ASSUME VoiceInv, [VoiceNext]_voiceVars
  PROVE  VoiceInv'
<1>1. MicOK /\ WakeOK /\ SubmitsOK /\ SwitchesOK
  BY DEF VoiceInv
<1>2. CASE UNCHANGED voiceVars
  BY <1>2 DEF voiceVars, VoiceInv, MicOK, WakeOK, SubmitsOK, SwitchesOK
<1>3. CASE Mute \/ Escape
  BY <1>1, <1>3, CancelVoiceKeeps DEF VoiceInv, Mute, Escape, WakeOK, SwitchesOK
<1>4. CASE Unmute
  BY <1>1, <1>4 DEF VoiceInv, Unmute, MicOK, WakeOK, SubmitsOK, SwitchesOK
<1>5. QED
  BY <1>2, <1>3, <1>4, RecordingKeeps, AnswerKeeps, WakeKeeps DEF VoiceNext

LEMMA VoicePromises ==
  ASSUME VoiceInv
  PROVE  VoiceTypeOK /\ MutedIsSilent /\ OneAnswerAwaited
BY DEF VoiceInv, MicOK, WakeOK, SubmitsOK, SwitchesOK, VoiceTypeOK, Mic, Wake, Submission, Quiet, Awaited, MutedIsSilent, OneAnswerAwaited

\* While muted nothing is played and nothing listened for, and one answer at most is awaited (app.ts:697, 723, 735, 875).
THEOREM MutedStaysSilent == VoiceSpec => [](VoiceTypeOK /\ MutedIsSilent /\ OneAnswerAwaited)
BY VoiceBegins, VoiceStep, VoicePromises, PTL DEF VoiceSpec

-----------------------------------------------------------------------------
(* The office's page *)

Form == [at: {"none", "sent", "refresh"}, agent: OfficeAgent \cup {"nothing"}, text: OfficeAgent \cup {"nothing"}]
Draft == OfficeAgent \cup {"nothing"}

\* The composer is the one of the page's assistant, and a form on its way is for the assistant that it was written to; its
\* refresh is that of a form that the host has taken.
FormOK(form) == /\ form \in Form
                /\ form.text # "nothing" => form.text = form.agent
                /\ form.at # "none" => form.agent \in OfficeAgent

DeskOfficeInv ==
  /\ officeHost \in 1..MaxOfficeChanges /\ officeView \in 0..MaxOfficeChanges
  /\ officePage \in OtherPages \cup OfficeAgent /\ typed \in {draftAgent, "nothing"} /\ draftAgent \in OfficeAgent
  /\ drafts \in [OfficeAgent -> Draft] /\ \A a \in OfficeAgent : drafts[a] \in {a, "nothing"}
  /\ flights \in [Flight -> 0..Asked]
  /\ hired \subseteq [writtenTo: OfficeAgent, agent: OfficeAgent] /\ \A task \in hired : task.agent = task.writtenTo
  /\ officePage # "tasks" => draftAgent = AgentOf(officePage)
  /\ FormOK(formBusy)
  /\ flights["form"] # NoFlight => formBusy.at = "refresh"

LEMMA AgentsOfPages ==
  /\ \A page \in OtherPages \cup OfficeAgent : AgentOf(page) \in OfficeAgent
  /\ \A a \in OfficeAgent : AgentOf(a) = a /\ a # "tasks" /\ a # "home"
BY CoordinatorIsAgent, PagesAreNoAgents DEF AgentOf, OtherPages

LEMMA DeskOfficeBegins ==
  ASSUME DeskOfficeInit
  PROVE  DeskOfficeInv
<1>1. NoForm \in Form /\ FormOK(NoForm)
  BY DEF NoForm, Form, FormOK
<1>2. AgentOf("home") = Coordinator /\ "home" \in OtherPages
  BY PagesAreNoAgents DEF AgentOf, OtherPages
<1>3. flights \in [Flight -> 0..Asked] /\ flights["form"] = NoFlight
  BY ChangesBound DEF DeskOfficeInit, Flight, Asked, NoFlight
<1>4. officeHost \in 1..MaxOfficeChanges /\ officeView \in 0..MaxOfficeChanges
  BY ChangesBound DEF DeskOfficeInit
<1>5. QED
  BY <1>1, <1>2, <1>3, <1>4, CoordinatorIsAgent DEF DeskOfficeInit, DeskOfficeInv, Draft

\* The composer after a page is gone to: the draft that belongs to it.
LEMMA NavigatedKeeps ==
  ASSUME DeskOfficeInv, NEW page \in OtherPages \cup OfficeAgent, NEW d \in [OfficeAgent -> Draft], NEW t,
         \A a \in OfficeAgent : d[a] \in {a, "nothing"}, t \in {draftAgent, "nothing"}, Navigated(page, d, t)
  PROVE  /\ officePage' \in OtherPages \cup OfficeAgent /\ draftAgent' \in OfficeAgent
         /\ typed' \in {draftAgent', "nothing"}
         /\ drafts' \in [OfficeAgent -> Draft] /\ \A a \in OfficeAgent : drafts'[a] \in {a, "nothing"}
         /\ officePage' # "tasks" => draftAgent' = AgentOf(officePage)'
BY AgentsOfPages DEF DeskOfficeInv, Navigated, AgentOf

\* The draft that is left is its assistant's.
LEMMA DraftedIs ==
  ASSUME DeskOfficeInv, NEW page
  PROVE  /\ Drafted(page) \in [OfficeAgent -> Draft]
         /\ \A a \in OfficeAgent : Drafted(page)[a] \in {a, "nothing"}
BY DEF DeskOfficeInv, Drafted, Draft

LEMMA FormsAre ==
  /\ FormOK(NoForm)
  /\ \A a \in OfficeAgent : FormOK([at |-> "sent", agent |-> a, text |-> a])
  /\ \A a \in OfficeAgent : FormOK([at |-> "sent", agent |-> a, text |-> "nothing"])
  /\ \A f : FormOK(f) /\ f.at # "none" => FormOK([f EXCEPT !.at = "refresh"])
<1>1. FormOK(NoForm)
  BY DEF FormOK, Form, NoForm
<1>2. ASSUME NEW a \in OfficeAgent
      PROVE  FormOK([at |-> "sent", agent |-> a, text |-> a]) /\ FormOK([at |-> "sent", agent |-> a, text |-> "nothing"])
  BY DEF FormOK, Form
<1>3. ASSUME NEW f, FormOK(f), f.at # "none"
      PROVE  FormOK([f EXCEPT !.at = "refresh"])
  BY <1>3 DEF FormOK, Form
<1>4. QED
  BY <1>1, <1>2, <1>3

LEMMA DeskOfficeStep ==
  ASSUME DeskOfficeInv, [DeskOfficeNext]_deskOfficeVars
  PROVE  DeskOfficeInv'
<1>1. CASE UNCHANGED deskOfficeVars
  BY <1>1 DEF deskOfficeVars, DeskOfficeInv, AgentOf, FormOK
<1>2. ASSUME NEW page \in OtherPages \cup OfficeAgent, Navigate(page)
      PROVE  DeskOfficeInv'
  BY <1>2, NavigatedKeeps, DraftedIs DEF Navigate, DeskOfficeInv, FormOK
<1>3. CASE Type
  BY <1>3 DEF Type, DeskOfficeInv, FormOK, AgentOf
<1>4. CASE SubmitComposer
  <2>1. formBusy' = [at |-> "sent", agent |-> draftAgent, text |-> draftAgent]
    BY <1>4 DEF SubmitComposer, Addressee, DeskOfficeInv
  <2>2. FormOK(formBusy)'
    BY <2>1, FormsAre DEF DeskOfficeInv, FormOK
  <2>3. flights'["form"] = NoFlight
    BY <1>4 DEF SubmitComposer, DeskOfficeInv, NoForm
  <2> QED BY <1>4, <2>2, <2>3 DEF SubmitComposer, DeskOfficeInv, AgentOf
<1>5. ASSUME NEW a \in OfficeAgent, SubmitDialog(a)
      PROVE  DeskOfficeInv'
  <2>1. FormOK(formBusy)'
    BY <1>5, FormsAre DEF SubmitDialog, FormOK
  <2>2. flights'["form"] = NoFlight
    BY <1>5 DEF SubmitDialog, DeskOfficeInv, NoForm
  <2> QED BY <1>5, <2>1, <2>2 DEF SubmitDialog, DeskOfficeInv, AgentOf
<1>6. ASSUME formBusy.at = "sent", FormReachesHost
      PROVE  /\ officeHost' \in 1..MaxOfficeChanges
             /\ hired' \subseteq [writtenTo: OfficeAgent, agent: OfficeAgent]
             /\ \A task \in hired' : task.agent = task.writtenTo
  <2>1. officeHost' \in 1..MaxOfficeChanges
    BY <1>6, ChangesBound DEF FormReachesHost, Changed, DeskOfficeInv
  <2>2. formBusy.agent \in OfficeAgent /\ (formBusy.text # "nothing" => formBusy.text = formBusy.agent)
    BY <1>6 DEF DeskOfficeInv, FormOK
  <2> QED BY <1>6, <2>1, <2>2 DEF FormReachesHost, DeskOfficeInv
<1>7. CASE FormTaken
  <2>1. FormOK(formBusy)' /\ formBusy'.at = "refresh"
    BY <1>7, FormsAre DEF FormTaken, DeskOfficeInv, FormOK, Form
  <2>2. flights' \in [Flight -> 0..Asked]
    BY <1>7, ChangesBound DEF FormTaken, DeskOfficeInv, Asked, Flight
  <2> QED BY <1>6, <1>7, <2>1, <2>2 DEF FormTaken, DeskOfficeInv, AgentOf
<1>8. CASE FormFails
  <2>1. FormOK(formBusy)'
    BY <1>8, FormsAre DEF FormFails, FormOK
  <2>2. flights'["form"] = NoFlight
    BY <1>8 DEF FormFails, DeskOfficeInv
  <2>3. /\ officeHost' \in 1..MaxOfficeChanges
        /\ hired' \subseteq [writtenTo: OfficeAgent, agent: OfficeAgent]
        /\ \A task \in hired' : task.agent = task.writtenTo
    BY <1>6, <1>8 DEF FormFails, DeskOfficeInv
  <2> QED BY <1>8, <2>1, <2>2, <2>3 DEF FormFails, DeskOfficeInv, AgentOf
<1>9. CASE ClickRefresh \/ ClickAction \/ OfficeWorks
  <2>1. officeHost' \in 1..MaxOfficeChanges
    BY <1>9, ChangesBound DEF ClickRefresh, ClickAction, OfficeWorks, Changed, DeskOfficeInv
  <2>2. flights' \in [Flight -> 0..Asked] /\ flights'["form"] = flights["form"]
    BY <1>9, ChangesBound DEF ClickRefresh, ClickAction, OfficeWorks, Refresh, DeskOfficeInv, Asked, Flight
  <2> QED BY <1>9, <2>1, <2>2 DEF ClickRefresh, ClickAction, OfficeWorks, DeskOfficeInv, AgentOf, FormOK
<1>10. ASSUME NEW f \in Flight, Snapshot(f)
       PROVE  DeskOfficeInv'
  <2>1. flights' \in [Flight -> 0..Asked] /\ (flights'["form"] # NoFlight => flights["form"] # NoFlight)
    BY <1>10, ChangesBound DEF Snapshot, DeskOfficeInv, Asked, NoFlight, Flight
  <2> QED BY <1>10, <2>1 DEF Snapshot, DeskOfficeInv, AgentOf, FormOK
<1>11. ASSUME NEW f \in Flight, flights[f] # NoFlight, Landed(f), officeView' \in 0..MaxOfficeChanges
       PROVE  DeskOfficeInv'
  <2>1. flights' \in [Flight -> 0..Asked] /\ (f = "form" => flights'["form"] = NoFlight)
        /\ (f # "form" => flights'["form"] = flights["form"])
    BY <1>11, ChangesBound DEF Landed, PollsAgain, DeskOfficeInv, Asked, NoFlight, Flight
  <2>2. CASE f = "form"
    <3>1. formBusy' = NoForm /\ FormOK(formBusy)'
      BY <1>11, <2>2, FormsAre DEF Landed, FormOK
    <3>2. formBusy.agent \in OfficeAgent /\ FormDone
      BY <1>11, <2>2 DEF Landed, DeskOfficeInv, FormOK
    <3>3. /\ officePage' \in OtherPages \cup OfficeAgent /\ draftAgent' \in OfficeAgent
          /\ typed' \in {draftAgent', "nothing"}
          /\ drafts' \in [OfficeAgent -> Draft] /\ \A a \in OfficeAgent : drafts'[a] \in {a, "nothing"}
          /\ officePage' # "tasks" => draftAgent' = AgentOf(officePage)'
      <4> DEFINE sent == [drafts EXCEPT ![formBusy.agent] = "nothing"]
      <4>1. sent \in [OfficeAgent -> Draft] /\ \A a \in OfficeAgent : sent[a] \in {a, "nothing"}
        BY <3>2 DEF DeskOfficeInv, Draft
      <4>2. \/ Navigated(formBusy.agent, sent, "nothing")
            \/ /\ drafts' = sent /\ typed' \in {typed, "nothing"} /\ UNCHANGED <<officePage, draftAgent>>
            \/ Navigated(formBusy.agent, Drafted(formBusy.agent), typed)
            \/ UNCHANGED <<officePage, typed, draftAgent, drafts>>
        BY <3>2 DEF FormDone
      <4> HIDE DEF sent
      <4>3. CASE Navigated(formBusy.agent, sent, "nothing")
        BY <3>2, <4>1, <4>3, NavigatedKeeps
      <4>4. CASE Navigated(formBusy.agent, Drafted(formBusy.agent), typed)
        BY <3>2, <4>4, NavigatedKeeps, DraftedIs DEF DeskOfficeInv
      <4>5. CASE /\ drafts' = sent /\ typed' \in {typed, "nothing"} /\ UNCHANGED <<officePage, draftAgent>>
        BY <4>1, <4>5 DEF DeskOfficeInv, AgentOf
      <4>6. CASE UNCHANGED <<officePage, typed, draftAgent, drafts>>
        BY <4>6 DEF DeskOfficeInv, AgentOf
      <4> QED BY <4>2, <4>3, <4>4, <4>5, <4>6
    <3> QED BY <1>11, <2>1, <2>2, <3>1, <3>3 DEF Landed, DeskOfficeInv
  <2>3. CASE f # "form"
    BY <1>11, <2>1, <2>3 DEF Landed, DeskOfficeInv, AgentOf, FormOK
  <2> QED BY <2>2, <2>3
<1>12. ASSUME NEW f \in Flight, RefreshShown(f) \/ RefreshFails(f)
       PROVE  DeskOfficeInv'
  <2>1. flights[f] # NoFlight /\ Landed(f) /\ officeView' \in 0..MaxOfficeChanges
    BY <1>12, ChangesBound DEF RefreshShown, RefreshFails, Shows, DeskOfficeInv, NoFlight
  <2> QED BY <1>11, <2>1
<1>13. QED
  BY <1>1, <1>2, <1>3, <1>4, <1>5, <1>7, <1>8, <1>9, <1>10, <1>12 DEF DeskOfficeNext

LEMMA DeskOfficePromises ==
  ASSUME DeskOfficeInv
  PROVE  DeskOfficeTypeOK /\ DraftsStayApart
BY DEF DeskOfficeInv, DeskOfficeTypeOK, DraftsStayApart, Draft, FormOK, Form

\* What was written to one assistant goes to no other, whatever pages are gone to meanwhile (office.ts:184, 334).
THEOREM DraftsGoWhereTheyBelong == DeskOfficeSpec => [](DeskOfficeTypeOK /\ DraftsStayApart)
BY DeskOfficeBegins, DeskOfficeStep, DeskOfficePromises, PTL DEF DeskOfficeSpec

-----------------------------------------------------------------------------
(* The workbench *)

\* A worker read out, whose selection has not changed meanwhile, is the one selected.
ReadOK(r) == r.at = "body" /\ ~r.late => r.of = selectedWorker \/ selectedWorker = Nobody

WorkbenchInv ==
  /\ WorkbenchTypeOK
  /\ StaleAnswersAreDropped
  /\ OneTurnAwaited
  /\ \A s \in ReadSlot : ReadOK(activityReads[s])

Activity == [of: Worker \cup {Nobody}, at: {"none", "asked", "taken", "body"},
             open: BOOLEAN, forTurn: BOOLEAN, late: BOOLEAN]
Turns == [of: Worker \cup {Nobody}, at: {"none", "sent", "taken", "answered"}]

\* What a read becomes.
LEMMA ReadsAre ==
  ASSUME NEW w \in Worker \cup {Nobody}, NEW b \in BOOLEAN
  PROVE  /\ NoActivity \in Activity /\ NoActivity.at = "none"
         /\ LET r == [NoActivity EXCEPT !.of = w, !.at = "asked"] IN r \in Activity /\ r.at = "asked"
         /\ LET r == [NoActivity EXCEPT !.of = w, !.at = "asked", !.forTurn = b] IN r \in Activity /\ r.at = "asked"
BY DEF Activity, NoActivity

\* The end of a read leaves the others as they were, and takes up at most a read of the selected worker.
LEMMA ReadEnds ==
  ASSUME WorkbenchInv, NEW s \in ReadSlot, ReadOver(s, activityReads)
  PROVE  /\ activityReads' \in [ReadSlot -> Activity] /\ workerTurn' \in Turns
         /\ activityReads'[s].at \in {"none", "asked"}
         /\ \A t \in ReadSlot : t # s => activityReads'[t] = activityReads[t]
         /\ workerTurn'.at # "none" => workerTurn.at # "none"
<1>1. /\ activityReads \in [ReadSlot -> Activity] /\ workerTurn \in Turns
      /\ selectedWorker \in Worker \cup {Nobody}
  BY DEF WorkbenchInv, WorkbenchTypeOK, Activity, Turns
<1>2. NoTurn \in Turns /\ NoTurn.at = "none"
  BY DEF NoTurn, Turns
<1>3. PICK r \in Activity : activityReads' = [activityReads EXCEPT ![s] = r] /\ r.at \in {"none", "asked"}
  BY <1>1, ReadsAre DEF ReadOver
<1>4. workerTurn' = workerTurn \/ workerTurn' = NoTurn
  BY DEF ReadOver
<1>5. QED
  BY <1>1, <1>2, <1>3, <1>4

LEMMA WorkbenchBegins ==
  ASSUME WorkbenchInit
  PROVE  WorkbenchInv
BY DEF WorkbenchInit, WorkbenchInv, WorkbenchTypeOK, StaleAnswersAreDropped, OneTurnAwaited, Pending, ReadOK,
       NoActivity, NoTurn

LEMMA WorkbenchStep ==
  ASSUME WorkbenchInv, [WorkbenchNext]_workbenchVars
  PROVE  WorkbenchInv'
<1> USE DEF Pending
<1>1. /\ activityReads \in [ReadSlot -> Activity] /\ workerTurn \in Turns
      /\ selectedWorker \in Worker \cup {Nobody} /\ shownWorker \in Worker \cup {Nobody}
      /\ workerState \in [Worker -> {"running", "completed", "turn", "ended"}]
      /\ composerOpen \in BOOLEAN /\ crossed \in BOOLEAN
      /\ \A s \in ReadSlot : ReadOK(activityReads[s])
  BY DEF WorkbenchInv, WorkbenchTypeOK, Activity, Turns
<1>2. ASSUME activityReads' \in [ReadSlot -> Activity], workerTurn' \in Turns,
             selectedWorker' \in Worker \cup {Nobody}, shownWorker' \in Worker \cup {Nobody},
             workerState' \in [Worker -> {"running", "completed", "turn", "ended"}],
             composerOpen' \in BOOLEAN, crossed' \in BOOLEAN
      PROVE  WorkbenchTypeOK'
  BY <1>2 DEF WorkbenchTypeOK, Activity, Turns
<1>3. CASE UNCHANGED workbenchVars
  BY <1>3 DEF workbenchVars, WorkbenchInv, WorkbenchTypeOK, StaleAnswersAreDropped, OneTurnAwaited, ReadOK
<1>4. ASSUME NEW s \in ReadSlot, ActivityTaken(s)
      PROVE  WorkbenchInv'
  <2> DEFINE r == [activityReads[s] EXCEPT !.at = "taken", !.open = workerState[activityReads[s].of] = "completed"]
  <2>1. activityReads' = [activityReads EXCEPT ![s] = r]
    BY <1>1, <1>4 DEF ActivityTaken
  <2>2. r \in Activity /\ r.at = "taken"
    BY <1>1 DEF Activity
  <2> HIDE DEF r
  <2>3. activityReads' \in [ReadSlot -> Activity]
    BY <1>1, <2>1, <2>2
  <2>4. selectedWorker' = selectedWorker
    BY <1>4 DEF ActivityTaken
  <2>5. ASSUME NEW t \in ReadSlot
        PROVE  ReadOK(activityReads[t])'
    <3>1. CASE t = s
      <4>1. activityReads'[t] = r
        BY <1>1, <2>1, <3>1
      <4> QED BY <2>2, <4>1 DEF ReadOK
    <3>2. CASE t # s
      <4>1. activityReads'[t] = activityReads[t] /\ ReadOK(activityReads[t])
        BY <1>1, <2>1, <3>2
      <4> QED BY <2>4, <4>1 DEF ReadOK
    <3> QED BY <3>1, <3>2
  <2> QED BY <1>1, <1>2, <1>4, <2>3, <2>5 DEF ActivityTaken, WorkbenchInv, StaleAnswersAreDropped, OneTurnAwaited
<1>5. ASSUME NEW s \in ReadSlot, ActivityHeard(s)
      PROVE  WorkbenchInv'
  <2>1. CASE StillSelected(activityReads[s].of)
    <3> DEFINE r == [activityReads[s] EXCEPT !.at = "body"]
    <3>1. activityReads' = [activityReads EXCEPT ![s] = r]
      BY <1>1, <1>5, <2>1 DEF ActivityHeard
    <3>2. r \in Activity /\ r.of = selectedWorker
      BY <1>1, <2>1 DEF Activity, StillSelected
    <3> HIDE DEF r
    <3>3. activityReads' \in [ReadSlot -> Activity]
      BY <1>1, <3>1, <3>2
    <3>4. selectedWorker' = selectedWorker
      BY <1>5, <2>1 DEF ActivityHeard
    <3>5. ASSUME NEW t \in ReadSlot
          PROVE  ReadOK(activityReads[t])'
      <4>1. CASE t = s
        <5>1. activityReads'[t] = r
          BY <1>1, <3>1, <4>1
        <5> QED BY <3>2, <3>4, <5>1 DEF ReadOK
      <4>2. CASE t # s
        <5>1. activityReads'[t] = activityReads[t] /\ ReadOK(activityReads[t])
          BY <1>1, <3>1, <4>2
        <5> QED BY <3>4, <5>1 DEF ReadOK
      <4> QED BY <4>1, <4>2
    <3> QED BY <1>1, <1>2, <1>5, <2>1, <3>3, <3>5 DEF ActivityHeard, WorkbenchInv, StaleAnswersAreDropped, OneTurnAwaited
  <2>2. CASE ~StillSelected(activityReads[s].of)
    <3>1. ReadOver(s, activityReads)
      BY <1>5, <2>2 DEF ActivityHeard
    <3> QED BY <1>1, <1>2, <1>5, <3>1, ReadEnds DEF ActivityHeard, WorkbenchInv, StaleAnswersAreDropped, OneTurnAwaited, ReadOK
  <2> QED BY <2>1, <2>2
<1>6. ASSUME NEW s \in ReadSlot, ActivityFails(s)
      PROVE  WorkbenchInv'
  BY <1>1, <1>2, <1>6, ReadEnds DEF ActivityFails, WorkbenchInv, StaleAnswersAreDropped, OneTurnAwaited, ReadOK
<1>7. ASSUME NEW s \in ReadSlot, ActivityShown(s)
      PROVE  WorkbenchInv'
  <2>1. /\ activityReads[s].of \in Worker \cup {Nobody} /\ activityReads[s].open \in BOOLEAN
        /\ activityReads[s].late \in BOOLEAN
    BY <1>1 DEF Activity
  <2>2. composerOpen' \in BOOLEAN /\ (composerOpen' => ~Pending)
    BY <1>7, <2>1 DEF ActivityShown, Enabled
  <2>3. WorkbenchTypeOK' /\ OneTurnAwaited' /\ \A t \in ReadSlot : ReadOK(activityReads[t])'
    BY <1>1, <1>2, <1>7, <2>1, <2>2, ReadEnds DEF ActivityShown, OneTurnAwaited, ReadOK
  <2>4. StaleAnswersAreDropped'
    BY <1>1, <1>7 DEF ActivityShown, StaleAnswersAreDropped, ReadOK
  <2> QED BY <2>3, <2>4 DEF WorkbenchInv
<1>8. ASSUME NEW w \in Worker, OpenWorker(w)
      PROVE  WorkbenchInv'
  <2>1. PICK s \in ReadSlot :
           activityReads' = [t \in ReadSlot |->
                IF t = s THEN [NoActivity EXCEPT !.of = w, !.at = "asked"]
                ELSE [activityReads[t] EXCEPT !.late = @ \/ activityReads[t].at = "body"]]
    BY <1>8 DEF OpenWorker
  <2>2. ASSUME NEW t \in ReadSlot
        PROVE  activityReads'[t] \in Activity /\ (activityReads'[t].at = "body" => activityReads'[t].late)
    <3>1. CASE t = s
      <4>1. activityReads'[t] = [NoActivity EXCEPT !.of = w, !.at = "asked"]
        BY <2>1, <3>1
      <4>2. activityReads'[t] \in Activity /\ activityReads'[t].at = "asked"
        BY <4>1, ReadsAre
      <4> QED BY <4>2
    <3>2. CASE t # s
      <4> DEFINE l == activityReads[t].late \/ activityReads[t].at = "body"
      <4>1. activityReads'[t] = [activityReads[t] EXCEPT !.late = l]
        BY <2>1, <3>2
      <4>2. l \in BOOLEAN /\ (activityReads[t].at = "body" => l)
        OBVIOUS
      <4> HIDE DEF l
      <4> QED BY <1>1, <4>1, <4>2 DEF Activity
    <3> QED BY <3>1, <3>2
  <2>3. activityReads' \in [ReadSlot -> Activity]
    BY <2>1, <2>2
  <2>4. \A t \in ReadSlot : ReadOK(activityReads[t])'
    BY <2>2 DEF ReadOK
  <2> QED BY <1>1, <1>2, <1>8, <2>3, <2>4 DEF OpenWorker, WorkbenchInv, StaleAnswersAreDropped, OneTurnAwaited
<1>9. CASE CloseWorker
  BY <1>1, <1>2, <1>9 DEF CloseWorker, WorkbenchInv, StaleAnswersAreDropped, OneTurnAwaited, ReadOK
<1>10. CASE SubmitTurn
  <2>1. workerTurn' \in Turns
    BY <1>1, <1>10 DEF SubmitTurn, Turns
  <2> QED BY <1>1, <1>2, <1>10, <2>1 DEF SubmitTurn, WorkbenchInv, StaleAnswersAreDropped, OneTurnAwaited, ReadOK
<1>11. CASE PollActivity
  <2>1. PICK s \in ReadSlot, r \in Activity : r.at = "asked" /\ activityReads' = [activityReads EXCEPT ![s] = r]
    BY <1>1, <1>11, ReadsAre DEF PollActivity
  <2> QED BY <1>1, <1>2, <1>11, <2>1 DEF PollActivity, WorkbenchInv, StaleAnswersAreDropped, OneTurnAwaited, ReadOK
<1>12. ASSUME NEW b \in BOOLEAN, TurnRead(b)
       PROVE  activityReads' \in [ReadSlot -> Activity] /\ \A t \in ReadSlot : activityReads'[t] = activityReads[t] \/ activityReads'[t].at = "asked"
  <2>1. activityReads' = activityReads \/ \E s \in ReadSlot, r \in Activity : r.at = "asked" /\ activityReads' = [activityReads EXCEPT ![s] = r]
    <3> DEFINE r == [NoActivity EXCEPT !.of = selectedWorker, !.at = "asked", !.forTurn = b]
    <3>1. r \in Activity /\ r.at = "asked"
      BY <1>1, ReadsAre
    <3>2. activityReads' = activityReads \/ \E s \in ReadSlot : activityReads' = [activityReads EXCEPT ![s] = r]
      BY <1>12 DEF TurnRead
    <3> HIDE DEF r
    <3> QED BY <3>1, <3>2
  <2> QED BY <1>1, <2>1
<1>13. CASE TurnAnswered
  <2>1. TurnRead(TRUE) /\ workerTurn' \in Turns /\ Pending
    BY <1>1, <1>13 DEF TurnAnswered, Turns, NoTurn
  <2>2. activityReads' \in [ReadSlot -> Activity] /\ \A t \in ReadSlot : activityReads'[t] = activityReads[t] \/ activityReads'[t].at = "asked"
    BY <1>12, <2>1
  <2> QED BY <1>1, <1>2, <1>13, <2>1, <2>2 DEF TurnAnswered, WorkbenchInv, StaleAnswersAreDropped, OneTurnAwaited, ReadOK
<1>14. CASE TurnFails
  <2>1. TurnRead(FALSE) /\ workerTurn' \in Turns /\ Pending
    BY <1>1, <1>14 DEF TurnFails, Turns, NoTurn
  <2>2. activityReads' \in [ReadSlot -> Activity] /\ \A t \in ReadSlot : activityReads'[t] = activityReads[t] \/ activityReads'[t].at = "asked"
    BY <1>12, <2>1
  <2> QED BY <1>1, <1>2, <1>14, <2>1, <2>2 DEF TurnFails, WorkbenchInv, StaleAnswersAreDropped, OneTurnAwaited, ReadOK
<1>15. CASE HostTakesTurn
  <2>1. workerTurn' \in Turns /\ Pending
    BY <1>1, <1>15 DEF HostTakesTurn, Turns
  <2> QED BY <1>1, <1>2, <1>15, <2>1 DEF HostTakesTurn, WorkbenchInv, StaleAnswersAreDropped, OneTurnAwaited, ReadOK
<1>16. ASSUME NEW w \in Worker, WorkerEnds(w) \/ HostEndsTurn(w)
       PROVE  WorkbenchInv'
  BY <1>1, <1>2, <1>16 DEF WorkerEnds, HostEndsTurn, WorkbenchInv, StaleAnswersAreDropped, OneTurnAwaited, ReadOK
<1>17. QED
  BY <1>3, <1>4, <1>5, <1>6, <1>7, <1>8, <1>9, <1>10, <1>11, <1>13, <1>14, <1>15, <1>16 DEF WorkbenchNext

\* A worker's events are shown under no other worker, and one turn at most is awaited (app.ts:323, 343, 386).
THEOREM EventsStayWithTheirWorker == WorkbenchSpec => [](WorkbenchTypeOK /\ StaleAnswersAreDropped /\ OneTurnAwaited)
<1>1. WorkbenchInv => WorkbenchTypeOK /\ StaleAnswersAreDropped /\ OneTurnAwaited
  BY DEF WorkbenchInv
<1>2. QED
  BY <1>1, WorkbenchBegins, WorkbenchStep, PTL DEF WorkbenchSpec

-----------------------------------------------------------------------------
(* The rail *)

\* A stream that is over has delivered the settled state, so the refresh that follows it brings that tree;
\* a refresh of the stream's is under way just while followTree waits for it.
FollowOK ==
  /\ streamed = "settled" => treeAtHost = "settled"
  /\ follow \in {"last", "over"} => streamed = "settled"
  /\ follow = "last" => streamRefresh \in {"asked", "settled"}
  /\ streamRefresh # "none" => follow \in {"chunk", "last", "cut"}

RailInv == RailTypeOK /\ FollowOK /\ FollowedToTheEnd

LEMMA RailBegins ==
  ASSUME RailInit
  PROVE  RailInv
BY DEF RailInit, RailInv, RailTypeOK, FollowOK, FollowedToTheEnd, Tree, NoRefresh

LEMMA RailStep ==
  ASSUME RailInv, [RailNext]_railVars
  PROVE  RailInv'
<1> USE DEF RailInv, RailTypeOK, FollowOK, FollowedToTheEnd, Tree
<1>1. CASE UNCHANGED railVars
  BY <1>1 DEF railVars
<1>2. CASE TaskSettles \/ Chunk \/ TreeStreamEnds
  BY <1>2 DEF TaskSettles, Chunk, TreeStreamEnds
<1>3. CASE StreamTreeTaken \/ StreamTreeShown
  BY <1>3 DEF StreamTreeTaken, StreamTreeShown, SetTree
<1>4. CASE FollowFails
  BY <1>4 DEF FollowFails
<1>5. ASSUME NEW why \in {"track", "cancel", "open"}, OwnerRefreshes(why)
      PROVE  RailInv'
  BY <1>5 DEF OwnerRefreshes, NoRefresh
<1>6. CASE OwnerTreeTaken
  BY <1>6 DEF OwnerTreeTaken
<1>7. CASE OwnerTreeShown
  BY <1>7 DEF OwnerTreeShown, SetTree, NoRefresh
<1>8. CASE OwnerRefreshFails
  BY <1>8 DEF OwnerRefreshFails, NoRefresh
<1>9. QED
  BY <1>1, <1>2, <1>3, <1>4, <1>5, <1>6, <1>7, <1>8 DEF RailNext

\* A task that was followed to the end of its stream is shown settled (app.ts:538, 560).
THEOREM TreeIsFollowed == RailSpec => [](RailTypeOK /\ FollowedToTheEnd)
<1>1. RailInv => RailTypeOK /\ FollowedToTheEnd
  BY DEF RailInv
<1>2. QED
  BY <1>1, RailBegins, RailStep, PTL DEF RailSpec

-----------------------------------------------------------------------------
(* The panels *)

\* The stages that the host keeps an item in, and how far each is along the way.
Stages == {"scheduled", "claimed", "cancelled", "active", "fired", "exhausted", "pending", "evaluated", "rejected",
           "approved", "applied", "rolled_back", "saved", "edited", "removed"}
Age(stage) == IF stage \in {"nothing", "error"} THEN 0
              ELSE IF stage \in {"scheduled", "active", "pending", "saved"} THEN 1
              ELSE IF stage \in {"claimed", "fired", "evaluated", "edited"} THEN 2
              ELSE IF stage = "applied" THEN 4
              ELSE IF stage = "rolled_back" THEN 5 ELSE 3

PanelRead == [waits: {"open", "nobody", "act"}, act: 0..MaxPanelActs, got: Stages \cup {"nothing"}]
PanelAct == [at: {"sent", "done", "refused", "reload"}, action: {"cancel","evaluate","approve","apply","rollback","remove"}, shown: Stages, found: Stages,
             clicks: 0..2, hasButton: BOOLEAN]

Button == [armed: BOOLEAN, disabled: BOOLEAN, clicks: 0..2]

\* What is shown is no younger than what the host has. A button is confirmed by a click, and disabled on what is offered.
ListInv ==
  /\ panel \in Panels /\ hostItem \in Stages
  /\ listed \in Stages \cup {"nothing", "error"} /\ signature \in Stages \cup {"nothing"}
  /\ button \in Button
  /\ Age(listed) <= Age(hostItem)
  /\ IsAutomation => listed \in {signature, "error"}
  /\ button.armed => button.clicks \in {1, 2}
  /\ button.disabled => IsOffered(listed)

\* A reload that follows a cancellation finds it.
ReadsInv ==
  /\ panelReads \in Seq(PanelRead) /\ Len(panelReads) <= MaxPanelReads
  /\ \A r \in DOMAIN panelReads :
        /\ Age(panelReads[r].got) <= Age(hostItem)
        /\ IsAutomation /\ panelReads[r].act # 0 => hostItem = "cancelled" /\ panelReads[r].got \in {"nothing", "cancelled"}

ActOK(x) ==
  x # NoAct =>
    /\ x \in PanelAct
    /\ x.shown \in DOMAIN Offers[panel] /\ x.action = Offers[panel][x.shown] /\ Age(x.shown) <= Age(hostItem)
    /\ x.at = "sent" => x.found = x.shown
    /\ NeedsConfirm(x.action) => x.clicks = 2
    /\ x.found = x.shown \/ <<x.shown, x.found>> \in {<<"saved", "edited">>, <<"active", "fired">>}
    /\ IsAutomation /\ x.at \in {"done", "reload"} => hostItem = "cancelled"

ActsInv == DOMAIN panelActs = ActId /\ \A a \in ActId : ActOK(panelActs[a])

HasButton == \E a \in ActId : panelActs[a] # NoAct /\ panelActs[a].hasButton
ButtonInv == button.disabled => listed # hostItem \/ HasButton

OpenInv ==
  /\ panelOpen \in BOOLEAN /\ refreshTimer \in BOOLEAN /\ closedEarly \in BOOLEAN
  /\ (\E r \in DOMAIN panelReads : panelReads[r].waits = "open") /\ ~panelOpen => closedEarly
  /\ ClosedIsQuiet

PanelInv == ListInv /\ ReadsInv /\ ActsInv /\ ButtonInv /\ OpenInv

-----------------------------------------------------------------------------
LEMMA OffersAre ==
  /\ DOMAIN Offers["jobs"] = {"scheduled"} /\ Offers["jobs"]["scheduled"] = "cancel"
  /\ DOMAIN Offers["intents"] = {"active", "fired"}
  /\ Offers["intents"]["active"] = "cancel" /\ Offers["intents"]["fired"] = "cancel"
  /\ DOMAIN Offers["skills"] = {"pending", "evaluated", "approved", "applied"}
  /\ Offers["skills"]["pending"] = "evaluate" /\ Offers["skills"]["evaluated"] = "approve"
  /\ Offers["skills"]["approved"] = "apply" /\ Offers["skills"]["applied"] = "rollback"
  /\ DOMAIN Offers["records"] = {"saved", "edited"}
  /\ Offers["records"]["saved"] = "remove" /\ Offers["records"]["edited"] = "remove"
BY DEF Offers

LEMMA OutcomesAre ==
  /\ PanelOutcome["cancel"] = {"cancelled"} /\ PanelOutcome["evaluate"] = {"evaluated", "rejected"}
  /\ PanelOutcome["approve"] = {"approved"} /\ PanelOutcome["apply"] = {"applied"}
  /\ PanelOutcome["rollback"] = {"rolled_back"} /\ PanelOutcome["remove"] = {"removed"}
BY DEF PanelOutcome

LEMMA OwnCourseIs ==
  /\ DOMAIN OwnCourse["jobs"] = {"scheduled"} /\ OwnCourse["jobs"]["scheduled"] = {"claimed"}
  /\ DOMAIN OwnCourse["intents"] = {"active", "fired"}
  /\ OwnCourse["intents"]["active"] = {"fired", "exhausted"} /\ OwnCourse["intents"]["fired"] = {"exhausted"}
  /\ DOMAIN OwnCourse["skills"] = {}
  /\ DOMAIN OwnCourse["records"] = {"saved", "edited"}
  /\ OwnCourse["records"]["saved"] = {"edited"} /\ OwnCourse["records"]["edited"] = {"removed"}
BY DEF OwnCourse

LEMMA AgesAre == \A s : Age(s) \in 0..5
BY DEF Age

\* What is offered on a stage leads to a later one: on a job or an intent, to its end.
LEMMA OfferedMoves ==
  ASSUME panel \in Panels, NEW s \in DOMAIN Offers[panel]
  PROVE  /\ s \in Stages /\ s # "cancelled"
         /\ Offers[panel][s] \in {"cancel", "evaluate", "approve", "apply", "rollback", "remove"}
         /\ IsAutomation => Offers[panel][s] = "cancel"
         /\ \A t \in PanelOutcome[Offers[panel][s]] : /\ t \in Stages /\ Age(s) < Age(t)
                                                      /\ IsAutomation => t = "cancelled"
<1>1. panel \in {"jobs", "intents", "skills", "records"}
  BY KnownPanels
<1>2. CASE panel = "jobs"
  BY <1>2, OffersAre, OutcomesAre DEF Stages, Age
<1>3. CASE panel = "intents"
  BY <1>3, OffersAre, OutcomesAre DEF Stages, Age
<1>4. CASE panel = "skills"
  BY <1>4, OffersAre, OutcomesAre DEF Stages, Age, IsAutomation
<1>5. CASE panel = "records"
  BY <1>5, OffersAre, OutcomesAre DEF Stages, Age, IsAutomation
<1>6. QED
  BY <1>1, <1>2, <1>3, <1>4, <1>5

\* An item goes its own way to later stages, too.
LEMMA OwnMoves ==
  ASSUME panel \in Panels, NEW s \in DOMAIN OwnCourse[panel], NEW t \in OwnCourse[panel][s]
  PROVE  s # "cancelled" /\ t \in Stages /\ Age(s) < Age(t)
BY KnownPanels, OwnCourseIs DEF Stages, Age

\* Two stages that offer the same action, the second no younger.
LEMMA OfferedTwice ==
  ASSUME panel \in Panels, NEW s \in DOMAIN Offers[panel], NEW t \in DOMAIN Offers[panel],
         Offers[panel][s] = Offers[panel][t], Age(s) <= Age(t)
  PROVE  t = s \/ <<s, t>> \in {<<"saved", "edited">>, <<"active", "fired">>}
<1>1. panel \in {"jobs", "intents", "skills", "records"}
  BY KnownPanels
<1>2. CASE panel = "jobs"
  BY <1>2, OffersAre
<1>3. CASE panel = "intents"
  BY <1>3, OffersAre DEF Age
<1>4. CASE panel = "skills"
  BY <1>4, OffersAre
<1>5. CASE panel = "records"
  BY <1>5, OffersAre DEF Age
<1>6. QED
  BY <1>1, <1>2, <1>3, <1>4, <1>5

-----------------------------------------------------------------------------
\* A reload as it is kept, and a button after a click.
LEMMA PanelReadIs ==
  ASSUME ReadsInv, NEW r \in DOMAIN panelReads
  PROVE  /\ r \in 1..Len(panelReads) /\ panelReads[r] \in PanelRead
         /\ panelReads[r].waits \in {"open", "nobody", "act"} /\ panelReads[r].got \in Stages \cup {"nothing"}
         /\ Age(panelReads[r].got) <= Age(hostItem)
<1>1. r \in 1..Len(panelReads) /\ panelReads[r] \in PanelRead
  BY DEF ReadsInv
<1>2. QED
  BY <1>1 DEF ReadsInv, PanelRead

LEMMA ClickedIs ==
  ASSUME NEW b \in Button, NEW n \in {1, 2}
  PROVE  /\ [b EXCEPT !.armed = TRUE, !.clicks = n] \in Button
         /\ [b EXCEPT !.armed = TRUE, !.clicks = n].disabled = b.disabled
         /\ [b EXCEPT !.armed = TRUE, !.clicks = n].clicks = n
         /\ [b EXCEPT !.disabled = TRUE, !.clicks = n] \in Button
         /\ [b EXCEPT !.disabled = TRUE, !.clicks = n].clicks = n
<1>1. n \in 0..2
  OBVIOUS
<1>2. [b EXCEPT !.armed = TRUE, !.clicks = n] \in Button
  BY <1>1 DEF Button
<1>3. [b EXCEPT !.disabled = TRUE, !.clicks = n] \in Button
  BY <1>1 DEF Button
<1>4. QED
  BY <1>2, <1>3 DEF Button

\* As the item goes on, what is shown and what was asked for lag behind.
LEMMA HostGoesOn ==
  ASSUME PanelInv, hostItem' \in Stages, Age(hostItem) < Age(hostItem)', hostItem # "cancelled",
         UNCHANGED <<panel, listed, signature, button, panelReads>>
  PROVE  /\ ListInv' /\ ReadsInv' /\ listed' # hostItem'
         /\ \A x : ActOK(x) => x = NoAct \/ ~IsAutomation \/ x.at \notin {"done", "reload"}
         /\ \A x : ActOK(x) => ActOK(x)'
<1>1. ListInv /\ ReadsInv
  BY DEF PanelInv
<1>2. \A s : Age(s) \in Int /\ Age(hostItem)' \in Int
  BY AgesAre DEF Age
<1>3. ListInv' /\ listed' # hostItem'
  BY <1>1, <1>2 DEF ListInv, IsAutomation, IsOffered
<1>4. ReadsInv'
  BY <1>1, <1>2 DEF ReadsInv, IsAutomation
<1>5. \A x : ActOK(x) => x = NoAct \/ ~IsAutomation \/ x.at \notin {"done", "reload"}
  BY DEF ActOK
<1>6. ASSUME NEW x, ActOK(x)
      PROVE  ActOK(x)'
  BY <1>2, <1>5, <1>6 DEF ActOK, IsAutomation
<1>7. QED
  BY <1>3, <1>4, <1>5, <1>6

\* A list without the element at i.
LEMMA ListWithout ==
  ASSUME NEW S, NEW s \in Seq(S), NEW i \in DOMAIN s
  PROVE  /\ RemoveAt(s, i) \in Seq(S) /\ Len(RemoveAt(s, i)) = Len(s) - 1
         /\ DOMAIN RemoveAt(s, i) = 1..(Len(s) - 1)
         /\ \A j \in 1..(Len(s) - 1) : RemoveAt(s, i)[j] = IF j < i THEN s[j] ELSE s[j + 1]
<1> DEFINE r == RemoveAt(s, i)
           a == SubSeq(s, 1, i - 1)
           b == SubSeq(s, i + 1, Len(s))
<1>1. Len(s) \in Nat /\ DOMAIN s = 1..Len(s) /\ i \in 1..Len(s)
  OBVIOUS
<1>2. /\ a \in Seq(S) /\ Len(a) = i - 1 /\ \A j \in 1..(i - 1) : a[j] = s[j]
      /\ b \in Seq(S) /\ Len(b) = Len(s) - i /\ \A j \in 1..(Len(s) - i) : b[j] = s[i + j]
  <2>1. \A j \in 1..Len(s) : s[j] \in S
    BY <1>1
  <2>2. /\ a \in Seq(S) /\ Len(a) = IF 1 <= i - 1 THEN i - 1 - 1 + 1 ELSE 0
        /\ \A j \in 1..(i - 1 - 1 + 1) : a[j] = s[1 + j - 1]
    BY <1>1, <2>1, SubSeqProperties
  <2>3. /\ b \in Seq(S) /\ Len(b) = IF i + 1 <= Len(s) THEN Len(s) - (i + 1) + 1 ELSE 0
        /\ \A j \in 1..(Len(s) - (i + 1) + 1) : b[j] = s[i + 1 + j - 1]
    BY <1>1, <2>1, SubSeqProperties
  <2> HIDE DEF a, b
  <2>4. ASSUME NEW j \in 1..(Len(s) - i) PROVE b[j] = s[i + j]
    <3>1. j \in 1..(Len(s) - (i + 1) + 1) /\ i + 1 + j - 1 = i + j
      BY <1>1
    <3> QED BY <2>3, <3>1
  <2> QED BY <1>1, <2>2, <2>3, <2>4
<1>3. r = a \o b
  BY DEF RemoveAt
<1> HIDE DEF r, a, b
<1>4. /\ r \in Seq(S) /\ Len(r) = Len(a) + Len(b)
      /\ \A j \in 1..(Len(a) + Len(b)) : r[j] = IF j <= Len(a) THEN a[j] ELSE b[j - Len(a)]
  BY <1>2, <1>3, ConcatProperties
<1>5. ASSUME NEW j \in 1..(Len(s) - 1), j >= i
      PROVE  b[j - (i - 1)] = s[j + 1]
  <2>1. j - (i - 1) \in 1..(Len(s) - i) /\ i + (j - (i - 1)) = j + 1
    BY <1>1, <1>5
  <2> QED BY <1>2, <2>1
<1>6. ASSUME NEW j \in 1..(Len(s) - 1) PROVE r[j] = IF j < i THEN s[j] ELSE s[j + 1]
  <2>1. j \in 1..(Len(a) + Len(b)) /\ (j < i <=> j <= Len(a)) /\ Len(a) = i - 1
    BY <1>1, <1>2
  <2>2. r[j] = IF j < i THEN a[j] ELSE b[j - (i - 1)]
    BY <1>4, <2>1
  <2>3. CASE j < i
    <3>1. j \in 1..(i - 1)
      BY <1>1, <2>3
    <3> QED BY <1>2, <2>2, <2>3, <3>1
  <2>4. CASE ~(j < i)
    BY <1>1, <1>5, <2>2, <2>4
  <2> QED BY <2>3, <2>4
<1>7. Len(r) = Len(s) - 1
  BY <1>1, <1>2, <1>4
<1>8. QED
  BY <1>4, <1>6, <1>7 DEF r

\* What holds of each read holds of each that is left.
LEMMA ReadReturns ==
  ASSUME ReadsInv, OpenInv, NEW r \in DOMAIN panelReads, ReloadReturns(r)
  PROVE  ReadsInv' /\ OpenInv'
<1>1. /\ panelReads' = RemoveAt(panelReads, r) /\ panelReads \in Seq(PanelRead) /\ Len(panelReads) <= MaxPanelReads
      /\ UNCHANGED <<panel, hostItem, panelOpen, closedEarly>>
  BY DEF ReloadReturns, ReadsInv
<1>2. /\ panelReads' \in Seq(PanelRead) /\ Len(panelReads') <= MaxPanelReads
      /\ \A i \in DOMAIN panelReads' : \E j \in DOMAIN panelReads : panelReads'[i] = panelReads[j]
  <2>1. Len(panelReads) \in Nat /\ DOMAIN panelReads = 1..Len(panelReads)
    BY <1>1
  <2>2. /\ panelReads' \in Seq(PanelRead) /\ Len(panelReads') = Len(panelReads) - 1
        /\ DOMAIN panelReads' = 1..(Len(panelReads) - 1)
        /\ \A j \in 1..(Len(panelReads) - 1) : panelReads'[j] = IF j < r THEN panelReads[j] ELSE panelReads[j + 1]
    BY <1>1, ListWithout
  <2>3. ASSUME NEW i \in 1..(Len(panelReads) - 1)
        PROVE  \E j \in 1..Len(panelReads) : panelReads'[i] = panelReads[j]
    <3>1. i \in 1..Len(panelReads) /\ i + 1 \in 1..Len(panelReads)
      BY <2>1
    <3> QED BY <2>2, <3>1
  <2>4. Len(panelReads') <= MaxPanelReads
    BY <1>1, <2>1, <2>2, PanelBounds
  <2> QED BY <2>1, <2>2, <2>3, <2>4
<1>3. ReadsInv'
  BY <1>1, <1>2 DEF ReadsInv, IsAutomation
<1>4. refreshTimer' \in BOOLEAN /\ (refreshTimer' => refreshTimer \/ panelReads[r].waits = "open")
  BY DEF ReloadReturns, OpenInv, IsAutomation
<1>5. OpenInv'
  BY <1>1, <1>2, <1>4 DEF OpenInv, ClosedIsQuiet
<1>6. QED
  BY <1>3, <1>5

LEMMA ReadBegins ==
  ASSUME ReadsInv, NEW w \in {"open", "nobody", "act"}, NEW a \in 0..MaxPanelActs, PanelReload(w, a),
         UNCHANGED <<panel, hostItem>>, IsAutomation /\ a # 0 => hostItem = "cancelled"
  PROVE  /\ ReadsInv'
         /\ \A r \in DOMAIN panelReads' : panelReads'[r].waits = w \/ (r \in DOMAIN panelReads /\ panelReads'[r] = panelReads[r])
<1> DEFINE x == [waits |-> w, act |-> a, got |-> "nothing"]
<1>1. x \in PanelRead /\ x.waits = w /\ x.act = a /\ x.got = "nothing"
  BY DEF PanelRead
<1>2. /\ panelReads \in Seq(PanelRead) /\ panelReads' = Append(panelReads, x) /\ Len(panelReads) < MaxPanelReads
  BY DEF ReadsInv, PanelReload
<1> HIDE DEF x
<1>3. /\ panelReads' \in Seq(PanelRead) /\ Len(panelReads') = Len(panelReads) + 1
      /\ DOMAIN panelReads = 1..Len(panelReads) /\ DOMAIN panelReads' = 1..(Len(panelReads) + 1)
      /\ \A r \in 1..Len(panelReads) : panelReads'[r] = panelReads[r]
      /\ panelReads'[Len(panelReads) + 1] = x
  BY <1>1, <1>2, AppendProperties
<1>4. Len(panelReads) \in Nat /\ Len(panelReads') <= MaxPanelReads
  BY <1>2, <1>3, PanelBounds
<1>5. \A r \in DOMAIN panelReads' : panelReads'[r] = x \/ (r \in DOMAIN panelReads /\ panelReads'[r] = panelReads[r])
  BY <1>3, <1>4
<1>6. Age("nothing") = 0 /\ Age(hostItem) \in 0..5
  BY AgesAre DEF Age
<1>7. ReadsInv'
  <2>1. ASSUME NEW r \in DOMAIN panelReads'
        PROVE  /\ Age(panelReads'[r].got) <= Age(hostItem)
               /\ IsAutomation /\ panelReads'[r].act # 0 =>
                     hostItem = "cancelled" /\ panelReads'[r].got \in {"nothing", "cancelled"}
    BY <1>1, <1>5, <1>6 DEF ReadsInv
  <2> QED BY <1>3, <1>4, <2>1 DEF ReadsInv, IsAutomation
<1>8. QED
  BY <1>1, <1>5, <1>7

LEMMA ButtonsGoneKeeps ==
  ASSUME ActsInv, NEW replaced \in BOOLEAN, NEW ended, ButtonsGone(replaced, ended), UNCHANGED <<panel, hostItem>>
  PROVE  /\ ActsInv'
         /\ \A a \in ActId : a # ended /\ ~replaced => panelActs'[a] = panelActs[a]
<1>1. /\ DOMAIN panelActs' = ActId /\ DOMAIN panelActs = ActId
      /\ \A a \in ActId : panelActs'[a] = IF a = ended THEN NoAct
                                          ELSE IF panelActs[a].at # "none" /\ replaced
                                          THEN [panelActs[a] EXCEPT !.hasButton = FALSE] ELSE panelActs[a]
  BY DEF ActsInv, ButtonsGone
<1>2. ASSUME NEW x, ActOK(x), x.at # "none"
      PROVE  ActOK([x EXCEPT !.hasButton = FALSE])
  <2> DEFINE y == [x EXCEPT !.hasButton = FALSE]
  <2>1. x # NoAct /\ x \in PanelAct
    BY <1>2 DEF ActOK, NoAct
  <2>2. /\ y \in PanelAct /\ y.at = x.at /\ y.action = x.action /\ y.shown = x.shown /\ y.found = x.found
        /\ y.clicks = x.clicks
    BY <2>1 DEF PanelAct
  <2> HIDE DEF y
  <2>3. ActOK(y)
    BY <1>2, <2>1, <2>2 DEF ActOK
  <2> QED BY <2>3 DEF y
<1>3. ActOK(NoAct)
  BY DEF ActOK
<1>4. \A a \in ActId : ActOK(panelActs'[a])
  BY <1>1, <1>2, <1>3 DEF ActsInv
<1>5. \A a \in ActId : ActOK(panelActs[a])'
  BY <1>4 DEF ActOK, IsAutomation
<1>6. QED
  BY <1>1, <1>5 DEF ActsInv

LEMMA PanelBegins ==
  ASSUME PanelInit
  PROVE  PanelInv
<1>1. hostItem \in Stages /\ panel \in Panels
  BY KnownPanels DEF PanelInit, FirstStage, Stages
<1>2. Age("nothing") = 0 /\ Age(hostItem) \in 0..5
  BY AgesAre DEF Age
<1>3. ListInv
  BY <1>1, <1>2 DEF PanelInit, ListInv, NewButton, Button
<1>4. panelReads = <<>> /\ <<>> \in Seq(PanelRead) /\ Len(panelReads) = 0 /\ DOMAIN panelReads = {}
  BY DEF PanelInit
<1>5. ReadsInv
  BY <1>4, PanelBounds DEF ReadsInv
<1>6. ActsInv /\ ButtonInv
  BY DEF PanelInit, ActsInv, ActOK, ButtonInv, NewButton
<1>7. OpenInv
  BY <1>4 DEF PanelInit, OpenInv, ClosedIsQuiet
<1>8. QED
  BY <1>3, <1>5, <1>6, <1>7 DEF PanelInv

\* A reload is shown, or its error.
LEMMA ReloadKeeps ==
  ASSUME PanelInv, NEW r \in DOMAIN panelReads, ReloadLands(r) \/ ReloadFails(r)
  PROVE  PanelInv'
<1>1. ListInv /\ ReadsInv /\ ActsInv /\ ButtonInv /\ OpenInv
  BY DEF PanelInv
<1> DEFINE ended == panelReads[r].act
<1>2. ReadsInv' /\ OpenInv' /\ UNCHANGED <<panel, hostItem>>
  BY <1>1, ReadReturns DEF ReloadLands, ReloadFails, ReloadReturns
<1>3. PICK replaced \in BOOLEAN :
        /\ ButtonsGone(replaced, ended)
        /\ \/ replaced /\ button' = NewButton /\ listed' = "error" /\ signature' = signature
           \/ replaced /\ button' = NewButton /\ listed' = panelReads[r].got /\ signature' = panelReads[r].got
           \/ ~replaced /\ IsAutomation /\ UNCHANGED <<listed, signature, button>>
  <2>1. CASE ReloadLands(r) /\ ListChanged(panelReads[r].got)
    BY <2>1 DEF ReloadLands, RenderedButton
  <2>2. CASE ReloadLands(r) /\ ~ListChanged(panelReads[r].got)
    BY <2>2 DEF ReloadLands, ListChanged
  <2>3. CASE ReloadFails(r) /\ panel = "intents"
    BY <2>3 DEF ReloadFails, IsAutomation
  <2>4. CASE ReloadFails(r) /\ panel # "intents"
    BY <2>4 DEF ReloadFails
  <2> QED BY <2>1, <2>2, <2>3, <2>4
<1> HIDE DEF ended
<1>4. ActsInv' /\ \A a \in ActId : a # ended /\ ~replaced => panelActs'[a] = panelActs[a]
  BY <1>1, <1>2, <1>3, ButtonsGoneKeeps
<1>5. CASE replaced
  <2>1. panelReads[r].got \in Stages \cup {"nothing"} /\ Age(panelReads[r].got) <= Age(hostItem)
    BY <1>1, PanelReadIs
  <2>2. Age("error") = 0 /\ Age(hostItem) \in 0..5
    BY AgesAre DEF Age
  <2>3. /\ button' = NewButton
        /\ \/ listed' = "error" /\ signature' = signature
           \/ listed' = panelReads[r].got /\ signature' = panelReads[r].got
    BY <1>3, <1>5
  <2>4. NewButton \in Button /\ ~NewButton.armed /\ ~NewButton.disabled
    BY DEF NewButton, Button
  <2>5. ListInv' /\ ButtonInv'
    BY <1>1, <1>2, <2>1, <2>2, <2>3, <2>4 DEF ListInv, ButtonInv, IsAutomation
  <2> QED BY <1>2, <1>4, <2>5 DEF PanelInv
<1>6. CASE ~replaced
  <2>1. IsAutomation /\ UNCHANGED <<listed, signature, button>>
    BY <1>3, <1>6
  <2>2. ListInv'
    BY <1>1, <1>2, <2>1 DEF ListInv, IsAutomation, IsOffered
  <2>3. ButtonInv'
    <3>1. SUFFICES ASSUME button.disabled, listed = hostItem
                   PROVE  HasButton'
      BY <1>2, <2>1 DEF ButtonInv
    <3>2. hostItem # "cancelled"
      BY <1>1, <3>1, OfferedMoves DEF ListInv, IsOffered
    <3>3. ended = 0
      BY <1>1, <2>1, <3>2 DEF ReadsInv, ended
    <3>4. PICK a \in ActId : panelActs[a] # NoAct /\ panelActs[a].hasButton
      BY <1>1, <3>1 DEF ButtonInv, HasButton
    <3>5. a # 0
      BY PanelBounds DEF ActId
    <3> QED BY <1>4, <1>6, <3>3, <3>4, <3>5 DEF HasButton
  <2> QED BY <1>2, <1>4, <2>2, <2>3 DEF PanelInv
<1>7. QED
  BY <1>5, <1>6

\* The panel is opened, closed and reloaded.
LEMMA OpeningKeeps ==
  ASSUME PanelInv, OpenPanel \/ ClosePanel \/ ClickReload \/ PollTick
  PROVE  PanelInv'
<1>1. ListInv /\ ReadsInv /\ ActsInv /\ ButtonInv /\ OpenInv
  BY DEF PanelInv
<1>2. UNCHANGED <<panel, hostItem, listed, signature, button, panelActs>>
  BY DEF OpenPanel, ClosePanel, ClickReload, PollTick
<1>3. ListInv' /\ ActsInv' /\ ButtonInv'
  <2>1. ListInv'
    BY <1>1, <1>2 DEF ListInv, IsAutomation, IsOffered
  <2>2. ActsInv'
    BY <1>1, <1>2 DEF ActsInv, ActOK, IsAutomation
  <2>3. ButtonInv'
    BY <1>1, <1>2 DEF ButtonInv, HasButton
  <2> QED BY <2>1, <2>2, <2>3
<1>4. CASE ClosePanel
  <2>1. ReadsInv'
    BY <1>1, <1>4 DEF ClosePanel, ReadsInv, IsAutomation
  <2>2. OpenInv'
    BY <1>1, <1>4 DEF ClosePanel, OpenInv, TimerCleared, ClosedIsQuiet
  <2> QED BY <1>3, <2>1, <2>2 DEF PanelInv
<1>5. CASE OpenPanel
  <2>1. ReadsInv'
    BY <1>1, <1>2, <1>5, ReadBegins, PanelBounds DEF OpenPanel
  <2>2. OpenInv'
    BY <1>1, <1>5 DEF OpenPanel, OpenInv, ClosedIsQuiet
  <2> QED BY <1>3, <2>1, <2>2 DEF PanelInv
<1>6. CASE ClickReload \/ PollTick
  <2>1. PanelReload("nobody", 0) /\ UNCHANGED <<panelOpen, refreshTimer, closedEarly>> /\ 0 \in 0..MaxPanelActs
    BY <1>6, PanelBounds DEF ClickReload, PollTick
  <2>2. /\ ReadsInv'
        /\ \A r \in DOMAIN panelReads' :
              panelReads'[r].waits = "nobody" \/ (r \in DOMAIN panelReads /\ panelReads'[r] = panelReads[r])
    BY <1>1, <1>2, <2>1, ReadBegins
  <2>3. OpenInv'
    BY <1>1, <2>1, <2>2 DEF OpenInv, ClosedIsQuiet
  <2> QED BY <1>3, <2>2, <2>3 DEF PanelInv
<1>7. QED
  BY <1>4, <1>5, <1>6

LEMMA FilterKeeps ==
  ASSUME PanelInv, FilterEntries
  PROVE  PanelInv'
<1>1. ListInv /\ ReadsInv /\ ActsInv /\ OpenInv
  BY DEF PanelInv
<1>2. /\ panel = "records" /\ listed' \in {listed, "nothing"} /\ button' = NewButton /\ ButtonsGone(TRUE, 0)
      /\ UNCHANGED <<panel, hostItem, signature, panelReads, panelOpen, refreshTimer, closedEarly>>
  BY DEF FilterEntries, RenderedButton
<1>3. Age("nothing") = 0 /\ Age(hostItem) \in 0..5
  BY AgesAre DEF Age
<1>4. NewButton \in Button /\ ~NewButton.armed /\ ~NewButton.disabled
  BY DEF NewButton, Button
<1>5. ListInv' /\ ButtonInv'
  BY <1>1, <1>2, <1>3, <1>4 DEF ListInv, ButtonInv, IsAutomation
<1>6. ReadsInv' /\ OpenInv'
  BY <1>1, <1>2 DEF ReadsInv, OpenInv, ClosedIsQuiet, IsAutomation
<1>7. ActsInv'
  BY <1>1, <1>2, ButtonsGoneKeeps
<1>8. QED
  BY <1>5, <1>6, <1>7 DEF PanelInv

\* A request changes one act, perhaps the button, and perhaps the item.
LEMMA ActChanges ==
  ASSUME ActsInv, NEW a \in ActId, NEW x, panelActs' = [panelActs EXCEPT ![a] = x],
         ActOK(x)', \A y : ActOK(y) => ActOK(y)'
  PROVE  ActsInv' /\ \A b \in ActId : panelActs'[b] = IF b = a THEN x ELSE panelActs[b]
BY DEF ActsInv

LEMMA SameOK ==
  ASSUME UNCHANGED <<panel, hostItem>>
  PROVE  \A y : ActOK(y) => ActOK(y)'
BY DEF ActOK, IsAutomation

LEMMA ClickKeeps ==
  ASSUME PanelInv, ClickOnItem
  PROVE  PanelInv'
<1> DEFINE action == Offers[panel][listed]
           clicks == IF button.clicks = 2 THEN 2 ELSE button.clicks + 1
<1>1. ListInv /\ ReadsInv /\ ActsInv /\ OpenInv
  BY DEF PanelInv
<1>2. /\ IsOffered(listed) /\ ~button.disabled
      /\ UNCHANGED <<panel, hostItem, listed, signature, panelReads, panelOpen, refreshTimer, closedEarly>>
  BY DEF ClickOnItem
<1>3. /\ clicks \in {1, 2} /\ (button.armed => clicks = 2)
      /\ listed \in Stages /\ action \in {"cancel", "evaluate", "approve", "apply", "rollback", "remove"}
  <2>1. listed \in Stages /\ action \in {"cancel", "evaluate", "approve", "apply", "rollback", "remove"}
    BY <1>1, <1>2, OfferedMoves DEF ListInv, IsOffered
  <2>2. button.clicks \in 0..2 /\ (button.armed => button.clicks \in {1, 2})
    BY <1>1 DEF ListInv, Button
  <2> QED BY <2>1, <2>2
<1>4. ReadsInv' /\ OpenInv'
  BY <1>1, <1>2 DEF ReadsInv, OpenInv, ClosedIsQuiet, IsAutomation
<1>5. CASE NeedsConfirm(action) /\ ~button.armed
  <2>1. button' = [button EXCEPT !.armed = TRUE, !.clicks = clicks] /\ UNCHANGED panelActs
    BY <1>5 DEF ClickOnItem
  <2> HIDE DEF clicks, action
  <2>2. button' \in Button /\ ~button'.disabled /\ button'.clicks \in {1, 2}
    BY <1>1, <1>2, <1>3, <2>1, ClickedIs DEF ListInv
  <2>3. ListInv' /\ ButtonInv'
    BY <1>1, <1>2, <2>2 DEF ListInv, ButtonInv, IsAutomation
  <2>4. ActsInv'
    BY <1>1, <1>2, <2>1 DEF ActsInv, ActOK, IsAutomation
  <2> QED BY <1>4, <2>3, <2>4 DEF PanelInv
<1>6. CASE ~(NeedsConfirm(action) /\ ~button.armed)
  <2> DEFINE x == [at |-> "sent", action |-> action, shown |-> listed, found |-> listed,
                   clicks |-> clicks, hasButton |-> TRUE]
  <2>1. PICK a \in ActId : panelActs' = [panelActs EXCEPT ![a] = x]
    BY <1>6 DEF ClickOnItem
  <2>2. button' = [button EXCEPT !.disabled = TRUE, !.clicks = clicks]
    BY <1>6 DEF ClickOnItem
  <2>3. /\ x \in PanelAct /\ x.at = "sent" /\ x.action = action /\ x.shown = listed /\ x.found = listed
        /\ x.clicks = clicks /\ x.hasButton
    BY <1>3 DEF PanelAct
  <2>4. NeedsConfirm(action) => clicks = 2
    BY <1>3, <1>6
  <2> HIDE DEF clicks, x
  <2>5. ActOK(x)
    BY <1>1, <1>2, <2>3, <2>4 DEF ActOK, ListInv, IsOffered
  <2>6. ActsInv' /\ panelActs'[a] = x
    BY <1>1, <1>2, <2>1, <2>5, ActChanges, SameOK
  <2>7. button' \in Button /\ button'.clicks \in {1, 2}
    BY <1>1, <1>3, <2>2, ClickedIs DEF ListInv
  <2>8. ListInv'
    BY <1>1, <1>2, <2>7 DEF ListInv, IsAutomation, IsOffered
  <2>9. ButtonInv'
    BY <2>3, <2>6 DEF ButtonInv, HasButton, NoAct
  <2> QED BY <1>4, <2>6, <2>8, <2>9 DEF PanelInv
<1>7. QED
  BY <1>5, <1>6

LEMMA TakenKeeps ==
  ASSUME PanelInv, NEW a \in ActId, ActionTaken(a)
  PROVE  PanelInv'
<1> DEFINE act == panelActs[a]
<1>1. ListInv /\ ReadsInv /\ ActsInv /\ ButtonInv /\ OpenInv /\ ActOK(act)
  BY DEF PanelInv, ActsInv
<1>2. /\ act # NoAct /\ act.at = "sent" /\ act \in PanelAct
      /\ UNCHANGED <<panel, listed, signature, button, panelReads, panelOpen, refreshTimer, closedEarly>>
  BY <1>1 DEF ActionTaken, ActOK, NoAct
<1>3. OpenInv'
  BY <1>1, <1>2 DEF OpenInv, ClosedIsQuiet
<1>4. CASE \E stage \in PanelOutcome[act.action], at \in {"done", "refused"} :
                /\ HostAgrees(act.action) /\ hostItem' = stage
                /\ panelActs' = [panelActs EXCEPT ![a].at = at, ![a].found = hostItem]
  <2>1. PICK stage \in PanelOutcome[act.action], at \in {"done", "refused"} :
                /\ HostAgrees(act.action) /\ hostItem' = stage
                /\ panelActs' = [panelActs EXCEPT ![a].at = at, ![a].found = hostItem]
    BY <1>4
  <2>2. hostItem \in DOMAIN Offers[panel] /\ Offers[panel][hostItem] = act.action /\ panel \in Panels /\ hostItem \in Stages
    BY <1>1, <2>1 DEF HostAgrees, IsOffered, ListInv
  <2>3. /\ hostItem' \in Stages /\ Age(hostItem) < Age(hostItem') /\ hostItem # "cancelled"
        /\ IsAutomation => hostItem' = "cancelled"
    BY <2>1, <2>2, OfferedMoves
  <2>4. Age(hostItem)' = Age(hostItem')
    BY DEF Age
  <2>5. /\ ListInv' /\ ReadsInv' /\ listed' # hostItem' /\ \A y : ActOK(y) => ActOK(y)'
    BY <1>2, <2>3, <2>4, HostGoesOn
  <2>6. [act EXCEPT !.at = at, !.found = hostItem] \in PanelAct
    BY <1>2, <2>2 DEF PanelAct
  <2>7. PICK x \in PanelAct : /\ x.at = at /\ x.action = act.action /\ x.shown = act.shown /\ x.found = hostItem
                             /\ x.clicks = act.clicks /\ panelActs' = [panelActs EXCEPT ![a] = x]
    <3> DEFINE x == [act EXCEPT !.at = at, !.found = hostItem]
    <3>1. panelActs' = [panelActs EXCEPT ![a] = x]
      BY <1>1, <2>1 DEF ActsInv
    <3>2. x.at = at /\ x.action = act.action /\ x.shown = act.shown /\ x.found = hostItem /\ x.clicks = act.clicks
      BY <1>2 DEF PanelAct
    <3> HIDE DEF x
    <3> QED BY <2>6, <3>1, <3>2 DEF x
  <2>8. hostItem = act.shown \/ <<act.shown, hostItem>> \in {<<"saved", "edited">>, <<"active", "fired">>}
    BY <1>1, <1>2, <2>2, OfferedTwice DEF ActOK
  <2>9. ActOK(x)'
    <3>1. Age(act.shown) <= Age(hostItem')
      BY <1>1, <1>2, <2>3, AgesAre DEF ActOK
    <3>2. /\ act.shown \in DOMAIN Offers[panel] /\ act.action = Offers[panel][act.shown]
          /\ (NeedsConfirm(act.action) => act.clicks = 2)
      BY <1>1, <1>2 DEF ActOK
    <3> QED BY <1>2, <2>1, <2>3, <2>4, <2>7, <2>8, <3>1, <3>2 DEF ActOK, IsAutomation
  <2>10. ActsInv'
    BY <1>1, <2>5, <2>7, <2>9, ActChanges
  <2>11. ButtonInv'
    BY <2>5 DEF ButtonInv
  <2> QED BY <1>3, <2>5, <2>10, <2>11 DEF PanelInv
<1>5. CASE \E at \in {"done", "refused"} :
              /\ panelActs' = [panelActs EXCEPT ![a].at = at] /\ UNCHANGED hostItem
              /\ at = "done" => act.action = "remove"
  <2>1. PICK at \in {"done", "refused"} : /\ panelActs' = [panelActs EXCEPT ![a].at = at] /\ UNCHANGED hostItem
                                          /\ at = "done" => act.action = "remove"
    BY <1>5
  <2> DEFINE x == [act EXCEPT !.at = at]
  <2>2. panelActs' = [panelActs EXCEPT ![a] = x]
    BY <1>1, <2>1 DEF ActsInv
  <2>3. /\ x \in PanelAct /\ x.at = at /\ x.action = act.action /\ x.shown = act.shown /\ x.found = act.found
        /\ x.clicks = act.clicks /\ x.hasButton = act.hasButton
    BY <1>2 DEF PanelAct
  <2>4. at = "done" => ~IsAutomation
    BY <1>1, <1>2, <2>1, OfferedMoves DEF ActOK, ListInv
  <2> HIDE DEF x
  <2>5. ActOK(x)
    BY <1>1, <1>2, <2>3, <2>4 DEF ActOK
  <2>6. ActsInv' /\ \A b \in ActId : panelActs'[b] = IF b = a THEN x ELSE panelActs[b]
    BY <1>1, <1>2, <2>1, <2>2, <2>5, ActChanges, SameOK
  <2>7. ListInv' /\ ReadsInv'
    BY <1>1, <1>2, <2>1 DEF ListInv, ReadsInv, IsAutomation, IsOffered
  <2>8. ButtonInv'
    BY <1>1, <1>2, <2>1, <2>3, <2>6 DEF ButtonInv, HasButton, NoAct
  <2> QED BY <1>3, <2>6, <2>7, <2>8 DEF PanelInv
<1>6. QED
  BY <1>4, <1>5 DEF ActionTaken

LEMMA AnsweredKeeps ==
  ASSUME PanelInv, NEW a \in ActId, ActionAnswered(a) \/ ActionFails(a)
  PROVE  PanelInv'
<1> DEFINE act == panelActs[a]
<1>1. ListInv /\ ReadsInv /\ ActsInv /\ ButtonInv /\ OpenInv /\ ActOK(act)
  BY DEF PanelInv, ActsInv
<1>2. act # NoAct /\ act \in PanelAct /\ UNCHANGED <<panel, hostItem, listed, signature, panelOpen, refreshTimer, closedEarly>>
  BY <1>1 DEF ActionAnswered, ActionFails, ActOK, NoAct
<1>3. CASE ActionAnswered(a)
  <2> DEFINE x == [act EXCEPT !.at = "reload"]
  <2>1. panelActs' = [panelActs EXCEPT ![a] = x] /\ act.at = "done" /\ PanelReload("act", a) /\ button' = button
    BY <1>1, <1>3 DEF ActionAnswered, ActsInv
  <2>2. /\ x \in PanelAct /\ x.at = "reload" /\ x.action = act.action /\ x.shown = act.shown /\ x.found = act.found
        /\ x.clicks = act.clicks /\ x.hasButton = act.hasButton
    BY <1>2 DEF PanelAct
  <2> HIDE DEF x
  <2>3. ActOK(x)
    BY <1>1, <1>2, <2>1, <2>2 DEF ActOK
  <2>4. ActsInv' /\ \A b \in ActId : panelActs'[b] = IF b = a THEN x ELSE panelActs[b]
    BY <1>1, <1>2, <2>1, <2>3, ActChanges, SameOK
  <2>5. a \in 0..MaxPanelActs /\ (IsAutomation => hostItem = "cancelled")
    BY <1>1, <1>2, <2>1, PanelBounds DEF ActId, ActOK
  <2>6. /\ ReadsInv'
        /\ \A r \in DOMAIN panelReads' :
              panelReads'[r].waits = "act" \/ (r \in DOMAIN panelReads /\ panelReads'[r] = panelReads[r])
    BY <1>1, <1>2, <2>1, <2>5, ReadBegins
  <2>7. OpenInv'
    BY <1>1, <1>2, <2>6 DEF OpenInv, ClosedIsQuiet
  <2>8. ListInv'
    BY <1>1, <1>2, <2>1 DEF ListInv, IsAutomation, IsOffered
  <2>9. ButtonInv'
    BY <1>1, <1>2, <2>1, <2>2, <2>4 DEF ButtonInv, HasButton, NoAct
  <2> QED BY <2>4, <2>6, <2>7, <2>8, <2>9 DEF PanelInv
<1>4. CASE ActionFails(a)
  <2>1. panelActs' = [panelActs EXCEPT ![a] = NoAct] /\ UNCHANGED panelReads
    BY <1>4 DEF ActionFails
  <2>2. ActsInv' /\ \A b \in ActId : panelActs'[b] = IF b = a THEN NoAct ELSE panelActs[b]
    <3>1. ActOK(NoAct)
      BY DEF ActOK
    <3> QED BY <1>1, <1>2, <2>1, <3>1, ActChanges, SameOK
  <2>3. ReadsInv' /\ OpenInv'
    BY <1>1, <1>2, <2>1 DEF ReadsInv, OpenInv, ClosedIsQuiet, IsAutomation
  <2>4. CASE act.hasButton
    <3>1. button' = [button EXCEPT !.disabled = FALSE]
      BY <1>4, <2>4 DEF ActionFails, ButtonEnabled
    <3>2. button' \in Button /\ ~button'.disabled /\ button'.armed = button.armed /\ button'.clicks = button.clicks
      BY <1>1, <3>1 DEF ListInv, Button
    <3>3. ListInv' /\ ButtonInv'
      BY <1>1, <1>2, <3>2 DEF ListInv, ButtonInv, IsAutomation
    <3> QED BY <2>2, <2>3, <3>3 DEF PanelInv
  <2>5. CASE ~act.hasButton
    <3>1. button' = button
      BY <1>4, <2>5 DEF ActionFails
    <3>2. ListInv'
      BY <1>1, <1>2, <3>1 DEF ListInv, IsAutomation, IsOffered
    <3>3. ButtonInv'
      BY <1>1, <1>2, <2>2, <2>5, <3>1 DEF ButtonInv, HasButton
    <3> QED BY <2>2, <2>3, <3>2, <3>3 DEF PanelInv
  <2> QED BY <2>4, <2>5
<1>5. QED
  BY <1>3, <1>4

LEMMA PanelStep ==
  ASSUME PanelInv, [PanelNext]_panelVars
  PROVE  PanelInv'
<1>1. ListInv /\ ReadsInv /\ ActsInv /\ ButtonInv /\ OpenInv
  BY DEF PanelInv
<1>2. CASE UNCHANGED panelVars
  <2>1. ListInv' /\ ReadsInv' /\ OpenInv'
    BY <1>1, <1>2 DEF panelVars, ListInv, ReadsInv, OpenInv, ClosedIsQuiet, IsAutomation, IsOffered
  <2>2. ActsInv' /\ ButtonInv'
    BY <1>1, <1>2 DEF panelVars, ActsInv, ActOK, ButtonInv, HasButton, IsAutomation
  <2> QED BY <2>1, <2>2 DEF PanelInv
<1>3. ASSUME NEW r \in DOMAIN panelReads, ListsTaken(r)
      PROVE  PanelInv'
  <2> DEFINE x == [panelReads[r] EXCEPT !.got = hostItem]
  <2>1. /\ panelReads \in Seq(PanelRead) /\ panelReads' = [panelReads EXCEPT ![r] = x]
        /\ UNCHANGED <<panel, hostItem, listed, signature, button, panelActs, panelOpen, refreshTimer, closedEarly>>
    BY <1>1, <1>3 DEF ListsTaken, ReadsInv
  <2>2. /\ x \in PanelRead /\ x.waits = panelReads[r].waits /\ x.act = panelReads[r].act /\ x.got = hostItem
    BY <1>1, <2>1, PanelReadIs DEF ListInv, PanelRead
  <2> HIDE DEF x
  <2>3. /\ panelReads' \in Seq(PanelRead) /\ Len(panelReads') = Len(panelReads) /\ DOMAIN panelReads' = DOMAIN panelReads
        /\ \A i \in DOMAIN panelReads : panelReads'[i] = IF i = r THEN x ELSE panelReads[i]
    BY <2>1, <2>2, ExceptSeq
  <2>4. ReadsInv'
    BY <1>1, <2>1, <2>2, <2>3, AgesAre DEF ReadsInv, IsAutomation
  <2>5. OpenInv'
    BY <1>1, <2>1, <2>2, <2>3 DEF OpenInv, ClosedIsQuiet
  <2>6. ListInv' /\ ButtonInv'
    BY <1>1, <2>1 DEF ListInv, ButtonInv, HasButton, IsAutomation, IsOffered
  <2>7. ActsInv'
    BY <1>1, <2>1 DEF ActsInv, ActOK, IsAutomation
  <2> QED BY <2>4, <2>5, <2>6, <2>7 DEF PanelInv
<1>4. CASE ItemMoves
  <2>1. /\ hostItem' \in Stages /\ Age(hostItem) < Age(hostItem') /\ hostItem # "cancelled"
        /\ UNCHANGED <<panel, listed, signature, button, panelReads, panelActs, panelOpen, refreshTimer, closedEarly>>
    BY <1>1, <1>4, OwnMoves DEF ItemMoves, ListInv
  <2>2. Age(hostItem)' = Age(hostItem')
    BY DEF Age
  <2>3. /\ ListInv' /\ ReadsInv' /\ listed' # hostItem' /\ \A y : ActOK(y) => ActOK(y)'
    BY <2>1, <2>2, HostGoesOn
  <2>4. ActsInv' /\ ButtonInv' /\ OpenInv'
    BY <1>1, <2>1, <2>3 DEF ActsInv, ButtonInv, OpenInv, ClosedIsQuiet
  <2> QED BY <2>3, <2>4 DEF PanelInv
<1>5. QED
  BY <1>2, <1>3, <1>4, OpeningKeeps, ReloadKeeps, FilterKeeps, ClickKeeps, TakenKeeps, AnsweredKeeps DEF PanelNext

LEMMA PanelPromises ==
  ASSUME PanelInv
  PROVE  PanelTypeOK /\ ActsAsConfirmed /\ ButtonsComeBack /\ ClosedIsQuiet
<1>1. ListInv /\ ReadsInv /\ ActsInv /\ ButtonInv /\ OpenInv
  BY DEF PanelInv
<1>2. Stages \subseteq ItemStage
  <2>1. /\ UNION {DOMAIN Offers[l] : l \in DOMAIN Offers} \subseteq ItemStage
        /\ UNION {PanelOutcome[o] : o \in DOMAIN PanelOutcome} \subseteq ItemStage
        /\ {"claimed", "exhausted"} \subseteq ItemStage
    BY DEF ItemStage
  <2>2. /\ {"jobs", "intents", "skills", "records"} \subseteq DOMAIN Offers
        /\ {"cancel", "evaluate", "approve", "apply", "rollback", "remove"} \subseteq DOMAIN PanelOutcome
    BY DEF Offers, PanelOutcome
  <2>3. \A l \in {"jobs", "intents", "skills", "records"} : DOMAIN Offers[l] \subseteq ItemStage
    BY <2>1, <2>2
  <2>4. \A o \in {"cancel", "evaluate", "approve", "apply", "rollback", "remove"} : PanelOutcome[o] \subseteq ItemStage
    BY <2>1, <2>2
  <2> QED BY <2>1, <2>3, <2>4, OffersAre, OutcomesAre DEF Stages
<1>3. \A a \in ActId : panelActs[a] # NoAct => panelActs[a] \in PanelAct
  BY <1>1 DEF ActsInv, ActOK
<1>4. \A a \in ActId : panelActs[a].at \in {"none", "sent", "done", "refused", "reload"}
                       /\ (panelActs[a].at # "none" <=> panelActs[a] # NoAct)
  BY <1>3 DEF NoAct, PanelAct
<1>5. PanelTypeOK
  <2>1. \A r \in DOMAIN panelReads : /\ panelReads[r].waits \in {"open", "nobody", "act"}
                                      /\ panelReads[r].got \in ItemStage \cup {"nothing"}
    BY <1>1, <1>2, PanelReadIs
  <2>2. {panelOpen, refreshTimer, closedEarly} \subseteq BOOLEAN
    BY <1>1 DEF OpenInv
  <2>3. Len(panelReads) <= MaxPanelReads
    BY <1>1 DEF ReadsInv
  <2> QED BY <1>1, <1>2, <1>4, <2>1, <2>2, <2>3 DEF PanelTypeOK, ListInv, Button
<1>6. ActsAsConfirmed
  BY <1>1, <1>4 DEF ActsAsConfirmed, ActsInv, ActOK
<1>7. ButtonsComeBack
  BY <1>1, <1>4 DEF ButtonsComeBack, ButtonInv, HasButton
<1>8. QED
  BY <1>1, <1>5, <1>6, <1>7 DEF OpenInv

\* What a panel has the host do was confirmed on the item as it was shown, its buttons come back, and one that is closed polls
\* no more (automation-panel.ts:174, 188, 442, skill-workshop-panel.ts:131, memory-render.ts:103).
THEOREM PanelsActAsConfirmed == PanelSpec => [](PanelTypeOK /\ ActsAsConfirmed /\ ButtonsComeBack /\ ClosedIsQuiet)
BY PanelBegins, PanelStep, PanelPromises, PTL DEF PanelSpec

-----------------------------------------------------------------------------
(* The desktop's shell *)

\* Slot and threads hold no host but that of the last launch, a thread holds one just
\* while it stops it, and only a desktop that is up has threads that stop.
SlotsOK ==
  /\ hostSlot \in {0, launches} /\ (shell \in {"off", "setup"} => hostSlot = 0)
  /\ \A t \in Thread : /\ stopper[t].host \in {0, launches}
                       /\ stopper[t].at = "stop" <=> stopper[t].host # 0
                       /\ stopper[t] # NoStop => shell = "up"

ShellInv == ShellTypeOK /\ SlotsOK /\ QuitStopsHost

StopperType == [at: {"none", "lock", "stop", "done"}, host: 0..MaxShells]

\* NoStop and AtLock are entries, of no host.
LEMMA StopperValues ==
  /\ NoStop \in StopperType /\ NoStop.at = "none" /\ NoStop.host = 0
  /\ AtLock \in StopperType /\ AtLock.at = "lock" /\ AtLock.host = 0
  /\ NoStopper \in [Thread -> StopperType] /\ \A t \in Thread : NoStopper[t] = NoStop
BY ShellAssumption DEF NoStop, AtLock, StopperType, NoStopper

\* The desktop ends where every living host but that of its setup is an orphan.
LEMMA ShellEndsKeeps ==
  ASSUME ShellInv, shell' = "off" /\ hostSlot' = 0 /\ stopper' = NoStopper /\ mainAt' = "idle",
         exitAsked' = FALSE, UNCHANGED launches,
         hostChild' \in [HostId -> {"none", "booting", "serving", "told", "dead"}],
         orphans' \subseteq HostId,
         \A h \in HostId : Alive(h)' => h \in orphans'
  PROVE  ShellInv'
<1>1. ShellTypeOK'
  BY StopperValues, ShellAssumption DEF ShellInv, ShellTypeOK, StopperType
<1>2. SlotsOK'
  BY StopperValues DEF SlotsOK
<1>3. QuitStopsHost'
  BY DEF QuitStopsHost
<1>4. QED
  BY <1>1, <1>2, <1>3 DEF ShellInv

\* A launch: the host of the one before is dead or an orphan.
LEMMA LaunchKeeps ==
  ASSUME ShellInv, Launch
  PROVE  ShellInv'
<1>1. /\ shell = "off" /\ shell' = "setup" /\ launches' = launches + 1 /\ launches < MaxShells
      /\ hostChild' = [hostChild EXCEPT ![launches + 1] = "booting"]
      /\ UNCHANGED <<hostSlot, stopper, mainAt, exitAsked, orphans>>
      /\ ShellTypeOK /\ SlotsOK /\ QuitStopsHost
  BY DEF Launch, ShellInv
<1>2. launches \in Nat /\ launches + 1 \in HostId /\ launches + 1 \in 0..MaxShells
  <2>1. launches \in 0..MaxShells
    BY <1>1 DEF ShellTypeOK
  <2> QED BY <1>1, <2>1, ShellAssumption DEF HostId
<1>3. ShellTypeOK'
  BY <1>1, <1>2 DEF ShellTypeOK
<1>4. \A t \in Thread : stopper[t] = NoStop
  BY <1>1 DEF SlotsOK
<1>5. SlotsOK'
  BY <1>1, <1>4, StopperValues DEF SlotsOK
<1>6. QuitStopsHost'
  <2> SUFFICES ASSUME NEW h \in HostId, Alive(h)', h # launches' PROVE h \in orphans
    BY <1>1 DEF QuitStopsHost
  <2>1. Alive(h)
    BY <1>1, <1>2 DEF Alive, ShellTypeOK
  <2> QED BY <1>1, <2>1 DEF QuitStopsHost
<1>7. QED
  BY <1>3, <1>5, <1>6 DEF ShellInv

\* Setup goes on, and fails, or the desktop is killed.
LEMMA SetupKeeps ==
  ASSUME ShellInv, HostReports \/ TrayBuilt \/ BootFails \/ SetupFails \/ ShellKilled
  PROVE  ShellInv'
<1>1. ShellTypeOK /\ SlotsOK /\ QuitStopsHost
  BY DEF ShellInv
<1>2. CASE HostReports
  <2>1. /\ shell = "setup" /\ shell' = "ready" /\ hostSlot' = launches
        /\ hostChild[launches] = "booting" /\ hostChild' = [hostChild EXCEPT ![launches] = "serving"]
        /\ UNCHANGED <<launches, stopper, mainAt, exitAsked, orphans>>
    BY <1>2 DEF HostReports
  <2>2. \A t \in Thread : stopper[t] = NoStop
    BY <1>1, <2>1 DEF SlotsOK
  <2>3. SlotsOK'
    BY <1>1, <2>1, <2>2, StopperValues DEF SlotsOK
  <2>4. ShellTypeOK'
    BY <1>1, <2>1 DEF ShellTypeOK
  <2>5. QuitStopsHost'
    BY <1>1, <2>1 DEF QuitStopsHost, Alive, ShellTypeOK
  <2> QED BY <2>3, <2>4, <2>5 DEF ShellInv
<1>3. CASE TrayBuilt
  <2>1. /\ shell = "ready" /\ shell' = "up"
        /\ UNCHANGED <<launches, hostSlot, hostChild, stopper, mainAt, exitAsked, orphans>>
    BY <1>3 DEF TrayBuilt
  <2>2. ShellTypeOK' /\ SlotsOK' /\ QuitStopsHost'
    BY <1>1, <2>1 DEF ShellTypeOK, SlotsOK, QuitStopsHost, Alive
  <2> QED BY <2>2 DEF ShellInv
<1>4. CASE BootFails
  <2>1. /\ shell = "setup" /\ hostChild[launches] = "dead" /\ ShellEnds /\ UNCHANGED orphans
        /\ hostChild' = hostChild
    BY <1>4 DEF BootFails, ShellEnds
  <2>2. \A h \in HostId : Alive(h)' => h \in orphans'
    BY <1>1, <2>1, StopperValues DEF QuitStopsHost, SlotsOK, Alive
  <2> QED BY <1>1, <2>1, <2>2, ShellEndsKeeps DEF ShellEnds, ShellTypeOK
<1>5. CASE SetupFails \/ ShellKilled
  <2>1. ShellEnds /\ orphans' = orphans \cup Abandoned /\ hostChild' = hostChild
    BY <1>5 DEF SetupFails, ShellKilled, ShellEnds
  <2>2. /\ \A h \in HostId : Alive(h)' => h \in orphans'
        /\ orphans' \subseteq HostId
    BY <1>1, <2>1 DEF Abandoned, Alive, ShellTypeOK
  <2> QED BY <1>1, <2>1, <2>2, ShellEndsKeeps DEF ShellEnds, ShellTypeOK
<1>6. QED
  BY <1>2, <1>3, <1>4, <1>5

\* One entry changes while the desktop is up.
LEMMA StopperChanges ==
  ASSUME ShellInv, NEW t \in Thread, NEW new \in StopperType, new.host \in {0, launches},
         new.at = "stop" <=> new.host # 0, stopper' = [stopper EXCEPT ![t] = new],
         shell = "up", UNCHANGED <<shell, launches>>, hostSlot' \in {0, launches}
  PROVE  /\ SlotsOK' /\ stopper' \in [Thread -> StopperType] /\ stopper'[t] = new
         /\ \A u \in Thread \ {t} : stopper'[u] = stopper[u]
<1>1. stopper \in [Thread -> StopperType] /\ SlotsOK
  BY DEF ShellInv, ShellTypeOK, StopperType
<1>2. /\ stopper' \in [Thread -> StopperType] /\ stopper'[t] = new
      /\ \A u \in Thread \ {t} : stopper'[u] = stopper[u]
  BY <1>1
<1>3. SlotsOK'
  BY <1>1, <1>2 DEF SlotsOK
<1>4. QED
  BY <1>2, <1>3

\* A thread comes to the lock.
LEMMA CallStopKeeps ==
  ASSUME ShellInv, QuitClicked \/ TimedExit \/ ExitRequested
  PROVE  ShellInv'
<1>1. /\ shell = "up" /\ UNCHANGED <<shell, launches, hostSlot, hostChild, orphans>>
      /\ mainAt' \in {"quit", "exit requested", mainAt} /\ exitAsked' = exitAsked
      /\ ShellTypeOK /\ SlotsOK /\ QuitStopsHost
  BY DEF QuitClicked, TimedExit, ExitRequested, ShellInv
<1>2. PICK t \in Thread : stopper[t] = NoStop /\ stopper' = [stopper EXCEPT ![t] = AtLock]
  BY DEF QuitClicked, TimedExit, ExitRequested, CallStop, Thread
<1>3. /\ SlotsOK' /\ stopper' \in [Thread -> StopperType] /\ stopper'[t] = AtLock
      /\ \A u \in Thread \ {t} : stopper'[u] = stopper[u]
  BY <1>1, <1>2, StopperValues, StopperChanges DEF SlotsOK
<1>4. ShellTypeOK'
  BY <1>1, <1>3 DEF ShellTypeOK, StopperType
<1>5. QuitStopsHost'
  <2>1. \A u \in Thread : stopper'[u].host = stopper[u].host
    BY <1>2, <1>3, StopperValues
  <2>2. UNCHANGED <<shell, launches, hostSlot, hostChild, orphans>> /\ QuitStopsHost
    BY <1>1
  <2> QED BY <2>1, <2>2 DEF QuitStopsHost, Alive
<1>6. QED
  BY <1>3, <1>4, <1>5 DEF ShellInv

\* stop_host returns: what it was to stop is dead, or was dead before.
LEMMA StopReturnsKeeps ==
  ASSUME ShellInv, NEW t \in Thread, StopReturns(t), stopper[t] # NoStop,
         hostChild' \in [HostId -> {"none", "booting", "serving", "told", "dead"}],
         \A h \in HostId : Alive(h)' => Alive(h),
         stopper[t].at = "stop" => \A h \in HostId : h = launches => ~Alive(h)',
         stopper[t].at # "stop" => hostSlot = 0 /\ \A u \in Thread : stopper[u].at # "stop"
  PROVE  ShellInv'
<1>1. /\ shell = "up" /\ ShellTypeOK /\ SlotsOK /\ QuitStopsHost
      /\ UNCHANGED <<launches, orphans>> /\ stopper \in [Thread -> StopperType]
  BY DEF ShellInv, SlotsOK, StopReturns, ShellTypeOK, StopperType
<1>2. ASSUME NEW h \in HostId, Alive(h)'
      PROVE  h \in orphans
  <2>1. h \in orphans \/ (h = launches /\ (h = hostSlot \/ \E u \in Thread : stopper[u].host = h))
    BY <1>1, <1>2 DEF QuitStopsHost
  <2>2. h # 0
    BY ShellAssumption DEF HostId
  <2>3. CASE stopper[t].at = "stop"
    BY <1>2, <2>1, <2>3
  <2>4. CASE stopper[t].at # "stop"
    BY <1>1, <2>1, <2>2, <2>4 DEF SlotsOK
  <2> QED BY <2>3, <2>4
<1>3. CASE t = "timer" \/ mainAt = "quit" \/ mainAt = "exit requested"
  <2> DEFINE new == IF t = "timer" THEN [at |-> "done", host |-> 0]
                    ELSE IF mainAt = "quit" THEN NoStop ELSE AtLock
  <2>1. new \in StopperType /\ new.at # "stop" /\ new.host = 0
    BY StopperValues, ShellAssumption DEF StopperType
  <2>2. /\ stopper' = [stopper EXCEPT ![t] = new]
        /\ UNCHANGED <<shell, hostSlot>> /\ mainAt' \in {"idle", "exit", mainAt}
        /\ exitAsked' \in {TRUE, exitAsked}
    <3>1. stopper[t] \in StopperType
      BY <1>1
    <3>2. CASE t = "timer" \/ mainAt = "quit"
      <4> DEFINE at == IF t = "timer" THEN "done" ELSE "none"
      <4>1. stopper' = [stopper EXCEPT ![t].at = at, ![t].host = 0]
        BY <3>2 DEF StopReturns
      <4>2. [at |-> at, host |-> 0] = new
        BY <3>2 DEF NoStop
      <4> HIDE DEF at, new
      <4>3. stopper'[t] = [at |-> at, host |-> 0]
        BY <1>1, <4>1, Zenon DEF StopperType
      <4>4. stopper' = [stopper EXCEPT ![t] = stopper'[t]]
        BY <1>1, <4>1
      <4>5. stopper' = [stopper EXCEPT ![t] = new]
        BY <4>2, <4>3, <4>4
      <4> QED BY <1>1, <3>2, <4>5 DEF StopReturns
    <3>3. CASE ~(t = "timer" \/ mainAt = "quit")
      BY <1>3, <3>3 DEF StopReturns
    <3> QED BY <3>2, <3>3
  <2> HIDE DEF new
  <2>3. /\ SlotsOK' /\ stopper' \in [Thread -> StopperType] /\ stopper'[t] = new
        /\ \A u \in Thread \ {t} : stopper'[u] = stopper[u]
    BY <1>1, <2>1, <2>2, StopperChanges DEF SlotsOK
  <2>4. ShellTypeOK'
    BY <1>1, <2>2, <2>3 DEF ShellTypeOK, StopperType
  <2>5. QuitStopsHost'
    BY <1>1, <1>2, <2>2, <2>3 DEF QuitStopsHost
  <2> QED BY <2>3, <2>4, <2>5 DEF ShellInv
<1>4. CASE ~(t = "timer" \/ mainAt = "quit" \/ mainAt = "exit requested")
  <2>1. /\ shell' = "off" /\ hostSlot' = 0 /\ stopper' = NoStopper /\ mainAt' = "idle"
        /\ exitAsked' = FALSE
    BY <1>4 DEF StopReturns
  <2>2. orphans' \subseteq HostId
    BY <1>1 DEF ShellTypeOK
  <2> QED BY <1>1, <1>2, <2>1, <2>2, ShellEndsKeeps
<1>5. QED
  BY <1>3, <1>4

\* The steps of stop_host.
LEMMA StopStepKeeps ==
  ASSUME ShellInv, NEW t \in Thread, StopStep(t)
  PROVE  ShellInv'
<1>1. /\ ShellTypeOK /\ SlotsOK /\ QuitStopsHost
      /\ hostChild \in [HostId -> {"none", "booting", "serving", "told", "dead"}]
  BY DEF ShellInv, ShellTypeOK
<1>2. CASE NothingToStop(t)
  <2>1. /\ stopper[t] = AtLock /\ hostSlot = 0 /\ StopReturns(t) /\ UNCHANGED hostChild
        /\ \A u \in Thread : stopper[u].at # "stop"
    BY <1>2 DEF NothingToStop, LockFree
  <2>2. AtLock # NoStop /\ \A h \in HostId : Alive(h)' => Alive(h)
    BY <2>1, StopperValues DEF Alive
  <2> QED BY <1>1, <2>1, <2>2, StopReturnsKeeps, StopperValues
<1>3. CASE TakeHost(t)
  <2> DEFINE new == [at |-> "stop", host |-> hostSlot]
  <2>1. /\ stopper[t] = AtLock /\ hostSlot # 0 /\ hostSlot' = 0
        /\ stopper' = [stopper EXCEPT ![t] = new]
        /\ hostChild' = hostChild
           \/ hostChild' = [hostChild EXCEPT ![hostSlot] = IF hostChild[hostSlot] = "serving" THEN "told"
                                                           ELSE hostChild[hostSlot]]
        /\ UNCHANGED <<shell, launches, mainAt, exitAsked, orphans>>
    BY <1>3 DEF TakeHost
  <2>2. shell = "up" /\ hostSlot = launches /\ hostSlot \in HostId /\ hostSlot \in 0..MaxShells
    <3>1. AtLock # NoStop
      BY StopperValues
    <3>2. launches \in 0..MaxShells /\ hostSlot = launches /\ shell = "up"
      BY <1>1, <2>1, <3>1 DEF ShellTypeOK, SlotsOK
    <3> QED BY <2>1, <3>2, ShellAssumption DEF HostId
  <2>3. new \in StopperType /\ new.at = "stop" /\ new.host = hostSlot
    BY <2>2 DEF StopperType
  <2> HIDE DEF new
  <2>4. /\ SlotsOK' /\ stopper' \in [Thread -> StopperType] /\ stopper'[t] = new
        /\ \A u \in Thread \ {t} : stopper'[u] = stopper[u]
    BY <2>1, <2>2, <2>3, StopperChanges
  <2>5. /\ hostChild' \in [HostId -> {"none", "booting", "serving", "told", "dead"}]
        /\ \A h \in HostId : Alive(h)' => Alive(h)
    BY <1>1, <2>1, <2>2 DEF Alive
  <2>6. ShellTypeOK'
    <3>1. hostSlot' \in 0..MaxShells /\ UNCHANGED <<shell, launches, mainAt, exitAsked, orphans>>
      BY <2>1, ShellAssumption
    <3> QED BY <1>1, <2>4, <2>5, <3>1 DEF ShellTypeOK, StopperType
  <2>7. QuitStopsHost'
    <3> SUFFICES ASSUME NEW h \in HostId, Alive(h)', h \notin orphans
                 PROVE  h = launches /\ \E u \in Thread : stopper'[u].host = h
      BY <2>1, <2>2 DEF QuitStopsHost
    <3>1. h = launches
      BY <1>1, <2>5 DEF QuitStopsHost
    <3> QED BY <2>2, <2>3, <2>4, <3>1
  <2> QED BY <2>4, <2>6, <2>7 DEF ShellInv
<1>4. CASE HostGone(t)
  <2>1. /\ stopper[t].at = "stop" /\ hostChild' = [hostChild EXCEPT ![stopper[t].host] = "dead"]
        /\ StopReturns(t)
    BY <1>4 DEF HostGone
  <2>2. stopper[t].host = launches /\ stopper[t] # NoStop
    BY <1>1, <2>1, StopperValues DEF SlotsOK
  <2>3. /\ hostChild' \in [HostId -> {"none", "booting", "serving", "told", "dead"}]
        /\ \A h \in HostId : /\ Alive(h)' => Alive(h)
                             /\ h = launches => ~Alive(h)'
    BY <1>1, <2>1, <2>2 DEF Alive
  <2> QED BY <2>1, <2>2, <2>3, StopReturnsKeeps
<1>5. QED
  BY <1>2, <1>3, <1>4 DEF StopStep

\* Every step of the shell keeps its invariant.
LEMMA ShellStep ==
  ASSUME ShellInv, [ShellNext]_shellVars
  PROVE  ShellInv'
<1>1. CASE \E h \in HostId : HostExits(h)
  <2>1. PICK h \in HostId : HostExits(h)
    BY <1>1
  <2>2. /\ hostChild' = [hostChild EXCEPT ![h] = "dead"] /\ ShellTypeOK /\ SlotsOK /\ QuitStopsHost
        /\ UNCHANGED <<shell, launches, hostSlot, stopper, mainAt, exitAsked, orphans>>
    BY <2>1 DEF HostExits, ShellInv
  <2>3. ShellTypeOK' /\ SlotsOK'
    BY <2>2 DEF ShellTypeOK, SlotsOK
  <2>4. \A u \in HostId : Alive(u)' => Alive(u)
    BY <2>2 DEF ShellTypeOK, Alive
  <2>5. QuitStopsHost'
    BY <2>2, <2>4 DEF QuitStopsHost
  <2> QED BY <2>3, <2>5 DEF ShellInv
<1>2. CASE UNCHANGED shellVars
  BY <1>2 DEF shellVars, ShellInv, ShellTypeOK, SlotsOK, QuitStopsHost, Alive
<1>3. CASE ShellNext
  BY <1>1, <1>3, LaunchKeeps, SetupKeeps, CallStopKeeps, StopStepKeeps DEF ShellNext
<1>4. QED
  BY <1>2, <1>3

\* Before the first launch there is no host.
LEMMA ShellBegins ==
  ASSUME ShellInit
  PROVE  ShellInv
<1>1. ShellTypeOK
  BY StopperValues, ShellAssumption DEF ShellInit, ShellTypeOK, StopperType
<1>2. SlotsOK
  BY StopperValues DEF ShellInit, SlotsOK
<1>3. QuitStopsHost
  BY DEF ShellInit, QuitStopsHost, Alive
<1>4. QED
  BY <1>1, <1>2, <1>3 DEF ShellInv

=============================================================================
