--------------------------- MODULE CodingRuntimes ---------------------------
(***************************************************************************)
(* One worker of one coding backend: the CLI started as a process in the   *)
(* task's worktree, the generator that turns its lines into coding events, *)
(* the abort that may come at any await, the runner that consumes the      *)
(* events and verifies the worktree, and later turns in the same worktree. *)
(* Codex, Claude Code and Pi differ in when they look at the abort, in     *)
(* what they make of a terminal event and in what they leave behind.       *)
(***************************************************************************)
EXTENDS Naturals, Sequences, FiniteSets

CONSTANTS Path,         \* files of the worktree
          MaxOutput,    \* bound: lines of the process that are not read yet
          MaxCommands,  \* verification commands of the repository
          MaxTurns      \* bound: runs in the worktree

ASSUME RuntimeAssumption == MaxOutput \in Nat /\ MaxCommands \in Nat /\ MaxTurns \in Nat \ {0}

VARIABLES backend,  \* the runner the router has for the task's runtimeId
          run,      \* the generator
          worker,   \* the process
          pipe,     \* its lines on the way
          stray,    \* processes of earlier runs that still run: left behind by Codex, or survivors of the host
          files,    \* the worktree against HEAD
          turn      \* what consumes the events: CodingTaskRunner, later TaskWorkerSession

runtimeVars == <<backend, run, worker, pipe, stray, files, turn>>

Backend == {"codex", "claude", "pi"}
\* Lines of the CLIs by the coding event they are adapted to: "delta" stands for all that are only recorded,
\* "none" for lines without one, and "malformed" is no JSON, no event or too long.
AdaptCodexEvent ==
    [line \in {"malformed", "thread.started", "turn.started", "item.started", "item.completed", "turn.completed",
               "turn.failed", "error", "other"} |->
       CASE line = "malformed" -> "invalid" [] line = "thread.started" -> "started" [] line = "turn.completed" -> "completed"
         [] line \in {"turn.failed", "error"} -> "failed" [] line = "other" -> "none" [] OTHER -> "delta"]
AdaptClaudeEvent ==
    [line \in {"malformed", "system.init", "system", "assistant", "stream_event", "result.success", "result.error",
               "user", "other"} |->
       CASE line = "malformed" -> "invalid" [] line = "system.init" -> "started" [] line = "result.success" -> "completed"
         [] line = "result.error" -> "failed" [] line \in {"user", "other"} -> "none" [] OTHER -> "delta"]
AdaptPiEvent ==
    [line \in {"malformed", "agent_start", "response.accepted", "message_update", "tool_execution_start",
               "tool_execution_end", "agent_settled", "response.refused", "message_end.error", "extension_error",
               "message_end", "other"} |->
       CASE line = "malformed" -> "invalid" [] line = "agent_start" -> "started" [] line = "agent_settled" -> "completed"
         [] line \in {"response.refused", "message_end.error", "extension_error"} -> "failed"
         [] line \in {"message_end", "other"} -> "none" [] OTHER -> "delta"]
Adapt == [codex |-> AdaptCodexEvent, claude |-> AdaptClaudeEvent, pi |-> AdaptPiEvent]
Line == {"started", "delta", "completed", "failed", "invalid"}
TerminalLine == {"completed", "failed"}
\* A file is as in HEAD, edited in one way or another, or changed and committed by the worker.
FileState == {"clean", "edited", "edited again", "committed"}
Dirty == {"edited", "edited again"}
Worktree == [Path -> FileState]
NoProcess == [state |-> "none", exitsWell |-> FALSE, told |-> FALSE, asked |-> FALSE]

RuntimeTypeOK ==
    /\ backend \in Backend
    /\ run \in [stage: {"create", "idle", "snapshot", "spawn", "read", "exit", "diff", "close", "over"},
                aborted: BOOLEAN, terminal: {"none", "completed", "failed"}, stopTimer: BOOLEAN, readCompleted: BOOLEAN,
                before: Worktree, gitWorks: BOOLEAN, start: Worktree, changed: SUBSET Path, diffed: BOOLEAN, alone: BOOLEAN]
    /\ worker \in [state: {"none", "running", "ended"}, exitsWell: BOOLEAN, told: BOOLEAN, asked: BOOLEAN]
    /\ pipe \in Seq(Line) /\ Len(pipe) <= MaxOutput
    /\ stray \subseteq {"left", "survived"}
    /\ files \in Worktree
    /\ turn \in [state: {"streaming", "verifying", "completed", "failed", "lost"}, completed: BOOLEAN,
                 verified: 0..MaxCommands, number: 1..MaxTurns,
                 verification: {"none", "passed", "failed", "cancelled"}]

NewRun(stage, w, strays) == [stage |-> stage, aborted |-> FALSE, terminal |-> "none", stopTimer |-> FALSE,
                      readCompleted |-> FALSE, before |-> [p \in Path |-> "clean"], gitWorks |-> TRUE,
                      start |-> w, changed |-> {}, diffed |-> FALSE, alone |-> strays = {}]
RunIsAt(stage) == run.stage = stage
\* The abort listener is on: from the spawn to the finally.
RunListens == run.stage \in {"read", "exit", "diff"}

\* The generator ends here: the finally comes next.
Closing == [run EXCEPT !.stage = "close"]
\* The runner throws in its loop, or the generator does: the finally runs, then the turn fails.
Throws == run' = Closing /\ turn' = [turn EXCEPT !.completed = FALSE]
\* The last event of a run.
Finishes(event, r) ==
    /\ run' = [r EXCEPT !.stage = "close"]
    /\ turn' = [turn EXCEPT !.completed = (event = "completed")]

\* The listener, or the look at the signal that replaces it: the process tree is terminated; Pi is asked
\* first, and terminated half a second later.
StopWorker(w) == IF backend = "pi" THEN [w EXCEPT !.asked = TRUE] ELSE [w EXCEPT !.told = TRUE]

-----------------------------------------------------------------------------
\* The first run waits for git to add the worktree, which fails when the path or the branch is there already.
\* The signal is not looked at in between.
CreateWorktree(succeeds) ==
    /\ RunIsAt("create")
    /\ run' = [run EXCEPT !.stage = IF succeeds THEN "idle" ELSE "over"]
    /\ UNCHANGED <<backend, worker, pipe, stray, files, turn>>

\* start or resumeInWorktree, with the run in #active. Codex is spawned at once, whatever the signal says.
StartCodex ==
    /\ backend = "codex" /\ RunIsAt("idle")
    /\ run' = [run EXCEPT !.stage = "read", !.start = files]
    /\ worker' = [NoProcess EXCEPT !.state = "running"]
    /\ UNCHANGED <<backend, pipe, stray, files, turn>>

\* The host process dies: at any await, or because Codex cannot be spawned and its error event, which
\* nobody listens to yet, is thrown. Its workers are process groups of their own and live on.
HostDies ==
    /\ turn.state \in {"streaming", "verifying"}
    /\ run' = [run EXCEPT !.stage = "over", !.stopTimer = FALSE]
    /\ turn' = [turn EXCEPT !.state = "lost"]
    /\ stray' = stray \cup (IF worker.state = "running" THEN {"survived"} ELSE {})
    /\ worker' = NoProcess
    /\ UNCHANGED <<backend, pipe, files>>

\* Claude and Pi take a snapshot of the dirty files first.
StartSnapshot ==
    /\ backend # "codex" /\ RunIsAt("idle")
    /\ run' = [run EXCEPT !.stage = IF run.aborted THEN "close" ELSE "snapshot"]
    /\ UNCHANGED <<backend, worker, pipe, stray, files, turn>>

\* What git lists with its fingerprint; a git that fails lists nothing.
SnapshotOf(w, works) == [p \in Path |-> IF works /\ w[p] \in Dirty THEN w[p] ELSE "clean"]

\* Mutant: what is dirty before the run is not remembered.
SnapshotTaken_Nothing(works) ==
    /\ RunIsAt("snapshot")
    /\ run' = [run EXCEPT !.stage = IF run.aborted THEN "close" ELSE "spawn", !.gitWorks = works, !.start = files]
    /\ UNCHANGED <<backend, worker, pipe, stray, files, turn>>

SnapshotTaken(works) ==
    /\ RunIsAt("snapshot")
    /\ run' = [run EXCEPT !.stage = IF run.aborted THEN "close" ELSE "spawn", !.gitWorks = works,
                          !.before = SnapshotOf(files, works), !.start = files]
    /\ UNCHANGED <<backend, worker, pipe, stray, files, turn>>

\* Mutant: the abort during the spawn is not looked at.
Spawned_Unheard ==
    /\ RunIsAt("spawn")
    /\ run' = [run EXCEPT !.stage = "read"]
    /\ worker' = [NoProcess EXCEPT !.state = "running"]
    /\ UNCHANGED <<backend, pipe, stray, files, turn>>

Spawned ==
    /\ RunIsAt("spawn")
    /\ run' = [run EXCEPT !.stage = "read", !.stopTimer = run.aborted /\ backend = "pi"]
    /\ LET w == [NoProcess EXCEPT !.state = "running"] IN worker' = IF run.aborted THEN StopWorker(w) ELSE w
    /\ UNCHANGED <<backend, pipe, stray, files, turn>>

SpawnFails ==
    /\ RunIsAt("spawn")
    /\ Finishes("failed", run)
    /\ UNCHANGED <<backend, worker, pipe, stray, files>>

-----------------------------------------------------------------------------
\* The process: it prints, edits, commits and ends when it likes.
Prints(line) ==
    /\ worker.state = "running" /\ Len(pipe) < MaxOutput
    /\ Adapt[backend][line] # "none" /\ pipe' = Append(pipe, Adapt[backend][line])
    /\ UNCHANGED <<backend, run, worker, stray, files, turn>>

Writes(p) ==
    /\ worker.state = "running" \/ stray # {}
    /\ \/ \E s \in Dirty : files' = [files EXCEPT ![p] = s]
       \/ files[p] \in Dirty /\ files' = [files EXCEPT ![p] = "committed"]
    /\ UNCHANGED <<backend, run, worker, pipe, stray, turn>>

Ends(well) ==
    /\ worker.state = "running"
    /\ worker' = [worker EXCEPT !.state = "ended", !.exitsWell = well]
    /\ UNCHANGED <<backend, run, pipe, stray, files, turn>>

\* It was terminated.
Dies ==
    /\ worker.told
    /\ Ends(FALSE)

StrayEnds ==
    /\ \E s \in stray : stray' = stray \ {s}
    /\ UNCHANGED <<backend, run, worker, pipe, files, turn>>

-----------------------------------------------------------------------------
\* A task is cancelled, its lease lost or the host stopped; cancel(runId) aborts a run in #active.
Abort ==
    /\ ~run.aborted /\ turn.state \in {"streaming", "verifying"}
    /\ run' = [run EXCEPT !.aborted = TRUE, !.stopTimer = @ \/ (RunListens /\ backend = "pi")]
    /\ worker' = IF RunListens /\ worker.state = "running" THEN StopWorker(worker) ELSE worker
    /\ UNCHANGED <<backend, pipe, stray, files, turn>>

\* The half second of Pi is over.
StopTimer ==
    /\ run.stopTimer /\ RunListens
    /\ run' = [run EXCEPT !.stopTimer = FALSE]
    /\ worker' = [worker EXCEPT !.told = TRUE]
    /\ UNCHANGED <<backend, pipe, stray, files, turn>>

-----------------------------------------------------------------------------
Reads == RunIsAt("read") /\ pipe # <<>> /\ pipe' = Tail(pipe)

\* A line that is no event throws, and so does a second terminal event of Claude.
ReadInvalid ==
    /\ Reads
    /\ \/ Head(pipe) = "invalid"
       \/ backend = "claude" /\ Head(pipe) \in TerminalLine /\ run.terminal # "none"
    /\ Throws
    /\ UNCHANGED <<backend, worker, stray, files>>

\* An event is yielded and recorded under the task's lease, which may be lost: the runner throws.
ReadEvent(isRecorded) ==
    /\ Reads
    /\ Head(pipe) \in {"started", "delta"}
    /\ IF isRecorded THEN UNCHANGED <<run, turn>> ELSE Throws
    /\ UNCHANGED <<backend, worker, stray, files>>

\* Codex yields a terminal event as it comes and reads on.
ReadTerminalCodex(isRecorded) ==
    /\ backend = "codex" /\ Reads
    /\ Head(pipe) \in TerminalLine
    /\ IF isRecorded /\ Head(pipe) = "completed"
       THEN /\ run' = [run EXCEPT !.terminal = "completed"]
            /\ turn' = [turn EXCEPT !.completed = TRUE]
       ELSE Throws
    /\ UNCHANGED <<backend, worker, stray, files>>

\* Claude keeps it and reads to the end; Pi reads no further, closes the pipes and gives it half a second.
ReadTerminal ==
    /\ backend # "codex" /\ Reads
    /\ Head(pipe) \in TerminalLine /\ (backend = "claude" => run.terminal = "none")
    /\ run' = [run EXCEPT !.terminal = Head(pipe), !.stage = IF backend = "pi" THEN "exit" ELSE "read",
                          !.stopTimer = @ \/ backend = "pi"]
    /\ UNCHANGED <<backend, worker, stray, files, turn>>

ReadToEnd ==
    /\ RunIsAt("read") /\ pipe = <<>> /\ worker.state = "ended"
    /\ run' = [run EXCEPT !.stage = "exit"]
    /\ UNCHANGED <<backend, worker, pipe, stray, files, turn>>

-----------------------------------------------------------------------------
\* Without a terminal event the abort or the exit code decides; with neither the stream just ends.
ExitCodex ==
    /\ backend = "codex" /\ RunIsAt("exit") /\ worker.state = "ended"
    /\ run' = Closing
    /\ UNCHANGED <<backend, worker, pipe, stray, files, turn>>

ExitClaude ==
    /\ backend = "claude" /\ RunIsAt("exit") /\ worker.state = "ended"
    /\ IF run.aborted
       THEN Finishes("cancelled", [run EXCEPT !.readCompleted = TRUE])
       ELSE run' = [run EXCEPT !.stage = "diff", !.readCompleted = TRUE] /\ UNCHANGED turn
    /\ UNCHANGED <<backend, worker, pipe, stray, files>>

ExitPi ==
    /\ backend = "pi" /\ RunIsAt("exit") /\ worker.state = "ended"
    /\ run' = [run EXCEPT !.stage = "diff", !.readCompleted = TRUE]
    /\ UNCHANGED <<backend, worker, pipe, stray, files, turn>>

\* changedFilesSince: what is dirty now, or was before, and has another fingerprint.
ChangedFiles(works) == {p \in Path : run.before[p] # SnapshotOf(files, works)[p]}

\* The changed files are yielded, then what ends the run.
Diffed(works, isRecorded) ==
    /\ RunIsAt("diff")
    /\ LET changed == ChangedFiles(works)
           r == [run EXCEPT !.changed = changed, !.gitWorks = @ /\ works, !.diffed = TRUE]
           event == CASE backend = "claude" /\ ~worker.exitsWell -> "failed"
                      [] backend = "pi" /\ run.aborted -> "cancelled"
                      [] OTHER -> run.terminal
       IN  Finishes(IF isRecorded THEN event ELSE "failed", r)
    /\ UNCHANGED <<backend, worker, pipe, stray, files>>

-----------------------------------------------------------------------------
\* The finally of Codex: an aborted process without an exit code is terminated and nothing is awaited.
CloseCodex ==
    /\ backend = "codex" /\ RunIsAt("close")
    /\ run' = [run EXCEPT !.stage = "over"]
    /\ worker' = IF run.aborted /\ worker.state = "running" THEN StopWorker(worker) ELSE worker
    /\ UNCHANGED <<backend, pipe, stray, files, turn>>

\* Of Claude and Pi: a process that was not read to its end, is aborted or still there is terminated ...
CloseStops ==
    /\ backend # "codex" /\ RunIsAt("close") /\ worker.state = "running" /\ ~worker.told
    /\ ~run.readCompleted \/ run.aborted \/ backend = "pi"
    /\ worker' = [worker EXCEPT !.told = TRUE]
    /\ UNCHANGED <<backend, run, pipe, stray, files, turn>>

\* Mutant: the exit is not awaited.
CloseWaits_Returns ==
    /\ backend # "codex" /\ RunIsAt("close")
    /\ run' = [run EXCEPT !.stage = "over", !.stopTimer = FALSE]
    /\ UNCHANGED <<backend, worker, pipe, stray, files, turn>>

\* ... and its exit awaited; the run leaves #active.
CloseWaits ==
    /\ backend # "codex" /\ RunIsAt("close") /\ worker.state # "running"
    /\ run' = [run EXCEPT !.stage = "over", !.stopTimer = FALSE]
    /\ UNCHANGED <<backend, worker, pipe, stray, files, turn>>

-----------------------------------------------------------------------------
\* The stream is over: a run that completed is verified.
RunStreamEnds ==
    /\ RunIsAt("over") /\ turn.state = "streaming"
    /\ turn' = [turn EXCEPT !.state = IF turn.completed THEN "verifying" ELSE "failed"]
    /\ UNCHANGED <<backend, run, worker, pipe, stray, files>>

\* Mutant: the task's run completes with any verification, as a later turn does.
VerificationEnds_Alike(status, isRecorded) ==
    turn' = IF isRecorded THEN [turn EXCEPT !.state = "completed", !.verification = status]
            ELSE [turn EXCEPT !.state = "failed"]

\* The task's run completes only if the verification passed; a later turn completes and records what it found. Both
\* fail when a command cannot be started, the report not be built or the lease was lost.
VerificationEnds(status, isRecorded) ==
    turn' = IF isRecorded /\ (status = "passed" \/ turn.number > 1)
            THEN [turn EXCEPT !.state = "completed", !.verification = status]
            ELSE [turn EXCEPT !.state = "failed"]

\* verifyWorkspace: one command after the other; an abort before one cancels, an abort during one and an exit code fail.
VerifyCommand(status, isRecorded) ==
    /\ turn.state = "verifying" /\ turn.verified < MaxCommands
    /\ status \in (IF run.aborted THEN {"failed", "cancelled"} ELSE {"passed", "failed"})
    /\ IF status = "passed" THEN turn' = [turn EXCEPT !.verified = @ + 1] ELSE VerificationEnds(status, isRecorded)
    /\ UNCHANGED <<backend, run, worker, pipe, stray, files>>

\* Mutant: the last command passed, so the verification did.
Verified_Anyway(isRecorded) ==
    /\ turn.state = "verifying" /\ turn.verified = MaxCommands
    /\ VerificationEnds("passed", isRecorded)
    /\ UNCHANGED <<backend, run, worker, pipe, stray, files>>

Verified(isRecorded) ==
    /\ turn.state = "verifying" /\ turn.verified = MaxCommands
    /\ VerificationEnds(IF run.aborted THEN "cancelled" ELSE "passed", isRecorded)
    /\ UNCHANGED <<backend, run, worker, pipe, stray, files>>

\* The owner's next turn of a completed task, as a turn that failed leaves it too: the same worktree.
NextTurn ==
    /\ turn.state = "completed" \/ (turn.state \in {"failed", "lost"} /\ turn.number > 1)
    /\ turn.number < MaxTurns
    /\ turn' = [turn EXCEPT !.state = "streaming", !.completed = FALSE, !.verified = 0, !.number = @ + 1,
                           !.verification = "none"]
    /\ stray' = stray \cup (IF worker.state = "running" THEN {"left"} ELSE {})
    /\ run' = NewRun("idle", files, stray') /\ worker' = NoProcess /\ pipe' = <<>>
    /\ UNCHANGED <<backend, files>>

RuntimeInit ==
    /\ backend \in Backend
    /\ files = [p \in Path |-> "clean"]
    /\ run = NewRun("create", files, {}) /\ worker = NoProcess /\ pipe = <<>>
    /\ stray = {}
    /\ turn = [state |-> "streaming", completed |-> FALSE, verified |-> 0, number |-> 1,
               verification |-> "none"]

StartWorker == (\E succeeds \in BOOLEAN : CreateWorktree(succeeds)) \/ StartCodex \/ StartSnapshot
               \/ (\E works \in BOOLEAN : SnapshotTaken(works)) \/ Spawned \/ SpawnFails
ProcessStep == \/ \E line \in DOMAIN Adapt[backend] : Prints(line)
               \/ \E p \in Path : Writes(p)
               \/ \E well \in BOOLEAN : Ends(well)
ReadStep == ReadInvalid \/ ReadTerminal \/ ReadToEnd
            \/ \E isRecorded \in BOOLEAN : ReadEvent(isRecorded) \/ ReadTerminalCodex(isRecorded)
ExitStep == ExitCodex \/ ExitClaude \/ ExitPi \/ \E works, isRecorded \in BOOLEAN : Diffed(works, isRecorded)
CloseStep == CloseCodex \/ CloseStops \/ CloseWaits
TurnStep == \/ RunStreamEnds
            \/ \E isRecorded \in BOOLEAN : \/ \E status \in {"passed", "failed", "cancelled"} : VerifyCommand(status, isRecorded)
                                          \/ Verified(isRecorded)

RuntimeNext == StartWorker \/ ProcessStep \/ Dies \/ StrayEnds \/ HostDies \/ Abort \/ StopTimer
               \/ ReadStep \/ ExitStep \/ CloseStep \/ TurnStep \/ NextTurn

RuntimeSpec == RuntimeInit /\ [][RuntimeNext]_runtimeVars

-----------------------------------------------------------------------------
(***************************************************************************)
(* A run of Claude Code or Pi that has left #active leaves no process in   *)
(* the worktree, however it ended: read to its end, with an invalid line,  *)
(* with a lost lease, aborted (runtime-claude process-controller.ts:110).  *)
(* Codex may leave one, but not to a turn that is verified unless an       *)
(* earlier turn failed (runtime-codex process-controller.ts:90).           *)
(***************************************************************************)
NoStrayWorker ==
    /\ RunIsAt("over") /\ worker.state = "running" =>
         backend = "codex" /\ turn.state \in {"streaming", "failed"} /\ ~turn.completed
    /\ "left" \in stray => backend = "codex" /\ turn.number > 2

(***************************************************************************)
(* A turn completes only after the CLI reported it complete, and says that *)
(* its verification passed only if every command passed and no abort came  *)
(* before the last had ended, in whichever order abort, lines, exit and    *)
(* commands come; the task's run, the first, does not complete otherwise   *)
(* (coding-task-runner.ts:73, task-worker-session.ts:262, verifier.ts:30). *)
(***************************************************************************)
CompletesAsVerified ==
    [][turn.state # "completed" /\ turn'.state = "completed" =>
         /\ turn.completed
         /\ turn'.verification = "passed" <=> turn.verified = MaxCommands /\ ~run.aborted
         /\ turn.number = 1 => turn'.verification = "passed"]_runtimeVars

(***************************************************************************)
(* While git works and nothing else runs there, the files a run of Claude  *)
(* or Pi reports are those that are not as they were when it started,      *)
(* except for what the worker has committed; edits of earlier turns are    *)
(* not reported as its own (worktree-state.ts:21).                         *)
(***************************************************************************)
ChangesReported ==
    run.diffed /\ run.gitWorks /\ run.alone /\ turn.state = "streaming" =>
      \A p \in Path : /\ p \in run.changed => files[p] # run.start[p]
                      /\ files[p] # run.start[p] => p \in run.changed \/ files[p] = "committed"

(***************************************************************************)
(* An aborted run of Claude or Pi ends.                                    *)
(***************************************************************************)
AbortEndsRun == (run.aborted /\ backend # "codex") ~> RunIsAt("over")
=============================================================================
