---------------------------- MODULE DesktopVoice ----------------------------
(***************************************************************************)
(* The desktop's voice: a click or the wake phrase starts a recording,     *)
(* which is submitted when it is clicked again or its timer fires, and the *)
(* answer is spoken. Each step that waits (for the microphone, the host,   *)
(* the loop's delay) may be met on its return by a mute, an Escape, a      *)
(* second click or another answer.                                         *)
(***************************************************************************)
EXTENDS Naturals

CONSTANTS MaxStarts,  \* bound: clicks that await the microphone, and timers that nothing clears any more
          MaxSubmits  \* bound: recordings under way to their answer

ASSUME VoiceAssumption == MaxStarts \in Nat /\ MaxSubmits \in Nat

VARIABLES muted,
          voiceStarts,  \* calls of startVoice by clicks that await the microphone
          mic,          \* the recording's stream, chunks and timers
          wake,         \* the wake button, and the loop that listens for the phrase
          submit,       \* each submitVoice under way
          voiceOp,      \* the one that voiceOperation holds, or 0
          playing       \* an answer is heard

voiceVars == <<muted, voiceStarts, mic, wake, submit, voiceOp, playing>>

SubmitId == 1..MaxSubmits
NotSubmitted == [at |-> "none", aborted |-> FALSE]

VoiceTypeOK ==
    /\ muted \in BOOLEAN /\ playing \in BOOLEAN
    /\ voiceStarts \in 0..MaxStarts
    /\ mic \in [open: BOOLEAN, leaked: BOOLEAN, recording: BOOLEAN, heard: BOOLEAN, discard: BOOLEAN,
                timer: BOOLEAN, stale: 0..MaxStarts]
    /\ wake \in [enabled: BOOLEAN, suspended: BOOLEAN, aborted: BOOLEAN,
                 loop: {"off", "media", "window", "asking", "start", "delay"}]
    /\ submit \in [SubmitId -> [at: {"none", "asking", "tracking", "speaking"}, aborted: BOOLEAN]]
    /\ voiceOp \in 0..MaxSubmits

-----------------------------------------------------------------------------
\* The audio graph's stream and timer go; a stream or a timer that a second start has replaced does not. There is
\* nothing to release while nothing is recorded.
Release(m) == [m EXCEPT !.open = FALSE, !.recording = FALSE, !.timer = FALSE]

\* An aborted window closes its own stream.
PauseWake(w) == [w EXCEPT !.aborted = @ \/ w.loop \in {"media", "window", "asking"}]
StopWake(w) == [PauseWake(w) EXCEPT !.enabled = FALSE, !.suspended = FALSE]
RunLoop(w) == IF w.loop = "off" /\ w.enabled /\ ~w.suspended THEN [w EXCEPT !.loop = "media", !.aborted = FALSE] ELSE w

AbortOp(ops) == IF voiceOp = 0 THEN ops ELSE [ops EXCEPT ![voiceOp].aborted = @ \/ ops[voiceOp].at # "none"]

\* Mutant: what is being played is let to its end.
CancelVoice_PlaysOn(ops) ==
    /\ mic' = [Release(mic) EXCEPT !.discard = TRUE]
    /\ wake' = StopWake(wake)
    /\ submit' = AbortOp(ops) /\ voiceOp' = 0
    /\ UNCHANGED playing
\* Mute and Escape: the recording, the wake listener, the request and the playback there are.
CancelVoice(ops) ==
    /\ mic' = [Release(mic) EXCEPT !.discard = TRUE]
    /\ wake' = StopWake(wake)
    /\ submit' = AbortOp(ops) /\ voiceOp' = 0
    /\ playing' = FALSE

\* Mutant: the answer to an earlier recording is still awaited, and given.
Supersede_Both(op) == submit' = [submit EXCEPT ![op] = [NotSubmitted EXCEPT !.at = "asking"]]
Supersede(op) == submit' = [AbortOp(submit) EXCEPT ![op] = [NotSubmitted EXCEPT !.at = "asking"]]

\* finishRecording, which submits what was heard, unless that is too long.
FinishRecording(send) ==
    /\ mic' = Release(mic)
    /\ IF send /\ mic.heard
       THEN \/ \E op \in SubmitId : submit[op].at = "none" /\ Supersede(op) /\ voiceOp' = op
            \/ UNCHANGED <<submit, voiceOp>>
       ELSE UNCHANGED <<submit, voiceOp>>

\* The part of startVoice before it waits for the microphone.
Asks == [mic EXCEPT !.discard = FALSE, !.heard = FALSE]

ClickVoice ==
    /\ ~muted
    /\ IF mic.recording
       THEN FinishRecording(TRUE) /\ UNCHANGED <<wake, voiceStarts>>
       ELSE /\ voiceStarts < MaxStarts /\ voiceStarts' = voiceStarts + 1
            /\ mic' = Asks
            /\ wake' = PauseWake([wake EXCEPT !.suspended = TRUE])
            /\ UNCHANGED <<submit, voiceOp>>
    /\ UNCHANGED <<muted, playing>>

\* Mutant: only a recording that a click starts has a timer.
Opened_ClickTimer(byLoop) ==
    [mic EXCEPT !.open = TRUE, !.leaked = @ \/ mic.open, !.recording = TRUE, !.timer = ~byLoop,
                !.stale = IF mic.timer THEN @ + 1 ELSE @]
\* The stream comes and is recorded, whatever has happened since it was asked for; one that it replaces stays open.
Opened(byLoop) ==
    [mic EXCEPT !.open = TRUE, !.leaked = @ \/ mic.open, !.recording = TRUE, !.timer = TRUE,
                !.stale = IF mic.timer THEN @ + 1 ELSE @]

\* startVoice goes on for a click, or for the loop, which ends with it.
MicrophoneOpens(byLoop) ==
    /\ mic.timer => mic.stale < MaxStarts
    /\ mic' = Opened(byLoop)
    /\ IF byLoop
       THEN wake.loop = "start" /\ wake' = [wake EXCEPT !.loop = "off"] /\ UNCHANGED voiceStarts
       ELSE voiceStarts > 0 /\ voiceStarts' = voiceStarts - 1 /\ UNCHANGED wake
    /\ UNCHANGED <<muted, submit, voiceOp, playing>>

\* The catch of startVoice; the loop is not started again while it is the one that waits.
MicrophoneFails(byLoop) ==
    /\ mic' = Release(mic)
    /\ IF byLoop
       THEN wake.loop = "start" /\ wake' = [wake EXCEPT !.suspended = FALSE, !.loop = "off"] /\ UNCHANGED voiceStarts
       ELSE /\ voiceStarts > 0 /\ voiceStarts' = voiceStarts - 1
            /\ wake' = RunLoop([wake EXCEPT !.suspended = FALSE])
    /\ UNCHANGED <<muted, submit, voiceOp, playing>>

AudioProcess ==
    /\ mic.open \/ mic.leaked
    /\ ~mic.heard /\ mic' = [mic EXCEPT !.heard = TRUE]
    /\ UNCHANGED <<muted, voiceStarts, wake, submit, voiceOp, playing>>

\* The timer of this recording, or one left over from a recording that this one replaced.
TimerFires ==
    /\ mic.timer
    /\ FinishRecording(~mic.discard)
    /\ UNCHANGED <<muted, voiceStarts, wake, playing>>
StaleTimerFires ==
    /\ mic.stale > 0
    /\ LET m == [mic EXCEPT !.stale = @ - 1] IN
       IF mic.recording
       THEN /\ mic' = Release(m)
            /\ \/ ~mic.discard /\ mic.heard /\ \E op \in SubmitId :
                    submit[op].at = "none" /\ Supersede(op) /\ voiceOp' = op
               \/ UNCHANGED <<submit, voiceOp>>
       ELSE mic' = m /\ UNCHANGED <<submit, voiceOp>>
    /\ UNCHANGED <<muted, voiceStarts, wake, playing>>

-----------------------------------------------------------------------------
\* The answer's audio is played unless it is muted by now; the promise of play() is then awaited.
PlaySpeech(op) ==
    /\ submit' = [submit EXCEPT ![op].at = "speaking"]
    /\ IF muted THEN UNCHANGED playing ELSE playing' \in {playing, TRUE}

\* The finally of submitVoice, which listens for the phrase again.
SubmitOver(w) == RunLoop([w EXCEPT !.suspended = FALSE])

VoiceAnswered(op) ==
    /\ submit[op] = [at |-> "asking", aborted |-> FALSE]
    /\ \/ PlaySpeech(op)
       \/ submit' = [submit EXCEPT ![op].at = "tracking"] /\ UNCHANGED playing
    /\ UNCHANGED <<muted, voiceStarts, mic, wake, voiceOp>>

VoiceTracked(op) ==
    /\ submit[op].at = "tracking"
    /\ PlaySpeech(op)
    /\ UNCHANGED <<muted, voiceStarts, mic, wake, voiceOp>>

\* The host heard a word that stops.
SpokenStop(op) ==
    /\ submit[op] = [at |-> "asking", aborted |-> FALSE]
    /\ mic' = [Release(mic) EXCEPT !.discard = TRUE]
    /\ wake' = SubmitOver(StopWake(wake))
    /\ submit' = [AbortOp(submit) EXCEPT ![op] = NotSubmitted] /\ voiceOp' = 0
    /\ playing' = FALSE
    /\ UNCHANGED <<muted, voiceStarts>>

\* An abort, an error or the end.
SubmitEnds(op) ==
    /\ submit[op].at # "none"
    /\ submit' = [submit EXCEPT ![op] = NotSubmitted]
    /\ voiceOp' = IF voiceOp = op THEN 0 ELSE voiceOp
    /\ wake' = SubmitOver(wake)
    /\ UNCHANGED <<muted, voiceStarts, mic, playing>>

PlaybackEnds == playing /\ playing' = FALSE /\ UNCHANGED <<muted, voiceStarts, mic, wake, submit, voiceOp>>

-----------------------------------------------------------------------------
LoopAt(step) == wake.loop = step
Listening == wake.enabled /\ ~wake.suspended
OthersStay == UNCHANGED <<muted, voiceStarts, playing>>

\* The microphone of the window comes, after an abort for nothing.
WakeMedia ==
    /\ LoopAt("media") /\ ~wake.aborted
    /\ wake' = [wake EXCEPT !.loop = "window"]
    /\ OthersStay /\ UNCHANGED <<mic, submit, voiceOp>>

WindowOver ==
    /\ LoopAt("window") /\ ~wake.aborted
    /\ wake' = [wake EXCEPT !.loop = "asking"]
    /\ OthersStay /\ UNCHANGED <<mic, submit, voiceOp>>

\* Not the phrase, or an abort: a delay, unless the loop is to end.
WakeAgain ==
    /\ \/ wake.aborted /\ wake.loop \in {"media", "window", "asking"}
       \/ LoopAt("asking")
    /\ wake' = [wake EXCEPT !.aborted = FALSE, !.loop = IF Listening THEN "delay" ELSE "off"]
    /\ OthersStay /\ UNCHANGED <<mic, submit, voiceOp>>

DelayOver ==
    /\ LoopAt("delay")
    /\ wake' = [wake EXCEPT !.loop = IF Listening THEN "media" ELSE "off"]
    /\ OthersStay /\ UNCHANGED <<mic, submit, voiceOp>>

\* No microphone, nothing heard, or the host does not answer: the wake button goes off.
WakeFails ==
    /\ wake.loop \in {"media", "window", "asking"} /\ ~wake.aborted
    /\ wake' = [StopWake(wake) EXCEPT !.loop = "off", !.aborted = FALSE]
    /\ OthersStay /\ UNCHANGED <<mic, submit, voiceOp>>

\* The phrase: startVoice, as if the owner had clicked.
Awake ==
    /\ LoopAt("asking") /\ ~wake.aborted
    /\ IF mic.recording
       THEN FinishRecording(TRUE) /\ wake' = [wake EXCEPT !.loop = "off"]
       ELSE /\ mic' = Asks
            /\ wake' = [wake EXCEPT !.suspended = TRUE, !.loop = "start"]
            /\ UNCHANGED <<submit, voiceOp>>
    /\ OthersStay

ClickWake ==
    /\ \/ wake.enabled /\ wake' = StopWake(wake)
       \/ ~wake.enabled /\ ~muted /\ wake' = RunLoop([wake EXCEPT !.enabled = TRUE, !.suspended = FALSE])
    /\ OthersStay /\ UNCHANGED <<mic, submit, voiceOp>>

Mute == ~muted /\ muted' = TRUE /\ CancelVoice(submit) /\ UNCHANGED voiceStarts
Unmute == muted /\ muted' = FALSE /\ UNCHANGED <<voiceStarts, mic, wake, submit, voiceOp, playing>>
Escape == CancelVoice(submit) /\ UNCHANGED <<muted, voiceStarts>>

VoiceInit ==
    /\ muted = FALSE /\ voiceStarts = 0 /\ voiceOp = 0 /\ playing = FALSE
    /\ mic = [open |-> FALSE, leaked |-> FALSE, recording |-> FALSE, heard |-> FALSE, discard |-> FALSE,
              timer |-> FALSE, stale |-> 0]
    /\ wake = [enabled |-> FALSE, suspended |-> FALSE, aborted |-> FALSE, loop |-> "off"]
    /\ submit = [op \in SubmitId |-> NotSubmitted]

VoiceNext ==
    \/ ClickVoice \/ ClickWake \/ Mute \/ Unmute \/ Escape
    \/ \E byLoop \in BOOLEAN : MicrophoneOpens(byLoop) \/ MicrophoneFails(byLoop)
    \/ AudioProcess \/ TimerFires \/ StaleTimerFires \/ PlaybackEnds
    \/ \E op \in SubmitId : VoiceAnswered(op) \/ VoiceTracked(op) \/ SpokenStop(op) \/ SubmitEnds(op)
    \/ WakeMedia \/ WindowOver \/ WakeAgain \/ DelayOver \/ WakeFails \/ Awake

VoiceSpec == VoiceInit /\ [][VoiceNext]_voiceVars

-----------------------------------------------------------------------------
(***************************************************************************)
(* While muted the desktop neither speaks nor listens for the phrase,      *)
(* whichever answers, windows and delays were under way at the mute        *)
(* (app.ts:697, 723, 875).                                                 *)
(***************************************************************************)
MutedIsSilent == muted => /\ ~playing
                          /\ ~wake.enabled
                          /\ wake.loop \in {"window", "asking"} => wake.aborted

(***************************************************************************)
(* At most one recording is being answered: a newer one takes the place of *)
(* an older, though clicks, timers and the phrase may end recordings while *)
(* the host works on the last (app.ts:735).                                *)
(***************************************************************************)
OneAnswerAwaited ==
    \A o, p \in SubmitId : submit[o] = [at |-> "asking", aborted |-> FALSE] /\ submit[p] = submit[o] => o = p

(***************************************************************************)
(* A recording ends: by a click, by its timer, or as it is cancelled or    *)
(* replaced (app.ts:860).                                                  *)
(***************************************************************************)
RecordingEnds == mic.recording ~> ~mic.recording
=============================================================================
