---------------------------- MODULE DesktopShell ----------------------------
(***************************************************************************)
(* The desktop process (src-tauri lib.rs): it starts the host as a child,  *)
(* waits for its address, and stops it when the owner quits, from the menu *)
(* or another thread, which share one slot behind a mutex. A second launch *)
(* while it runs only shows its window.                                    *)
(***************************************************************************)
EXTENDS Naturals, FiniteSets

CONSTANT MaxShells  \* bound: how often the desktop is launched

ASSUME ShellAssumption == MaxShells \in Nat

HostId == 1..MaxShells  \* the host of each launch

VARIABLES shell,      \* run: setup until start_host is through, ready, up in its event loop
          launches,
          hostSlot,   \* DesktopState.host: the host it would stop, or 0
          hostChild,  \* each host's process
          stopper,    \* the stop_host of each thread: none, at the lock, or the host it stops
          mainAt,     \* what the main thread calls stop_host for
          exitAsked,  \* app.exit was called
          orphans     \* history: hosts of desktops that were killed or failed in their setup

shellVars == <<shell, launches, hostSlot, hostChild, stopper, mainAt, exitAsked, orphans>>

Thread == {"main", "timer"}

ShellTypeOK ==
    /\ shell \in {"off", "setup", "ready", "up"} /\ launches \in 0..MaxShells
    /\ hostSlot \in 0..MaxShells
    /\ hostChild \in [HostId -> {"none", "booting", "serving", "told", "dead"}]
    /\ stopper \in [Thread -> [at: {"none", "lock", "stop", "done"}, host: 0..MaxShells]]
    /\ mainAt \in {"idle", "quit", "exit requested", "exit"}
    /\ exitAsked \in BOOLEAN /\ orphans \subseteq HostId

Alive(h) == hostChild[h] \in {"booting", "serving", "told"}
NoStop == [at |-> "none", host |-> 0]
AtLock == [at |-> "lock", host |-> 0]
NoStopper == [t \in Thread |-> NoStop]

-----------------------------------------------------------------------------
Launch ==
    /\ shell = "off" /\ launches < MaxShells
    /\ shell' = "setup" /\ launches' = launches + 1
    /\ hostChild' = [hostChild EXCEPT ![launches + 1] = "booting"]
    /\ UNCHANGED <<hostSlot, stopper, mainAt, exitAsked, orphans>>

\* The desktop ends without stop_host: what lives of its hosts goes on.
ShellEnds ==
    /\ shell' = "off" /\ hostSlot' = 0
    /\ stopper' = NoStopper /\ mainAt' = "idle" /\ exitAsked' = FALSE
    /\ UNCHANGED <<launches, hostChild>>

\* The host's first line is its address; only now is the host put in the slot.
HostReports ==
    /\ shell = "setup" /\ hostChild[launches] = "booting"
    /\ hostChild' = [hostChild EXCEPT ![launches] = "serving"]
    /\ shell' = "ready" /\ hostSlot' = launches
    /\ UNCHANGED <<launches, stopper, mainAt, exitAsked, orphans>>

\* The host's output ended: so does the setup, and the desktop with it.
BootFails == shell = "setup" /\ hostChild[launches] = "dead" /\ ShellEnds /\ UNCHANGED orphans

TrayBuilt ==
    /\ shell = "ready" /\ shell' = "up"
    /\ UNCHANGED <<launches, hostSlot, hostChild, stopper, mainAt, exitAsked, orphans>>

\* Autostart or the tray fails, or the desktop is killed at any time.
Abandoned == {h \in HostId : Alive(h)}
SetupFails == shell = "ready" /\ ShellEnds /\ orphans' = orphans \cup Abandoned
ShellKilled == shell # "off" /\ ShellEnds /\ orphans' = orphans \cup Abandoned

-----------------------------------------------------------------------------
\* Mutant: stop_process comes after the lock is given back.
LockFree_Always == TRUE
LockFree == \A t \in Thread : stopper[t].at # "stop"

CallStop(t) == stopper[t] = NoStop /\ stopper' = [stopper EXCEPT ![t] = AtLock]

\* The main thread takes its events in their order.
QuitClicked ==
    /\ shell = "up" /\ mainAt = "idle" /\ ~exitAsked
    /\ CallStop("main") /\ mainAt' = "quit"
    /\ UNCHANGED <<shell, launches, hostSlot, hostChild, exitAsked, orphans>>

\* The thread of AGENTME_DESKTOP_SMOKE_EXIT_MS, once.
TimedExit ==
    /\ shell = "up" /\ CallStop("timer")
    /\ UNCHANGED <<shell, launches, hostSlot, hostChild, mainAt, exitAsked, orphans>>

\* The event loop comes to the exit that was asked for, or the system asks for one.
ExitRequested ==
    /\ shell = "up" /\ mainAt = "idle"
    /\ CallStop("main") /\ mainAt' = "exit requested"
    /\ UNCHANGED <<shell, launches, hostSlot, hostChild, exitAsked, orphans>>

\* What follows stop_host: app.exit after a quit and on the timer, the next event, the end.
StopReturns(t) ==
    /\ UNCHANGED <<launches, orphans>>
    /\ IF t = "timer" \/ mainAt = "quit"
       THEN /\ exitAsked' = TRUE
            /\ stopper' = [stopper EXCEPT ![t].at = IF t = "timer" THEN "done" ELSE "none", ![t].host = 0]
            /\ mainAt' = IF t = "main" THEN "idle" ELSE mainAt
            /\ UNCHANGED <<shell, hostSlot>>
       ELSE IF mainAt = "exit requested"
       THEN /\ mainAt' = "exit" /\ stopper' = [stopper EXCEPT ![t] = AtLock]
            /\ UNCHANGED <<shell, hostSlot, exitAsked>>
       ELSE /\ shell' = "off" /\ hostSlot' = 0
            /\ stopper' = NoStopper /\ mainAt' = "idle" /\ exitAsked' = FALSE

\* Another thread has taken the host before.
NothingToStop(t) ==
    /\ stopper[t] = AtLock /\ LockFree /\ hostSlot = 0
    /\ StopReturns(t)
    /\ UNCHANGED hostChild

\* The host is taken from the slot and asked to shut down, unless its port does not answer.
TakeHost(t) ==
    /\ stopper[t] = AtLock /\ LockFree /\ hostSlot # 0
    /\ stopper' = [stopper EXCEPT ![t] = [at |-> "stop", host |-> hostSlot]]
    /\ hostSlot' = 0
    /\ hostChild' \in {hostChild, [hostChild EXCEPT ![hostSlot] = IF @ = "serving" THEN "told" ELSE @]}
    /\ UNCHANGED <<shell, launches, mainAt, exitAsked, orphans>>

\* It has ended, or is killed after three seconds.
HostGone(t) ==
    /\ stopper[t].at = "stop"
    /\ hostChild' = [hostChild EXCEPT ![stopper[t].host] = "dead"]
    /\ StopReturns(t)

\* A host ends by itself, or once it was told to; a killed desktop does not end it.
HostExits(h) ==
    /\ Alive(h) /\ hostChild' = [hostChild EXCEPT ![h] = "dead"]
    /\ UNCHANGED <<shell, launches, hostSlot, stopper, mainAt, exitAsked, orphans>>

ShellInit ==
    /\ shell = "off" /\ launches = 0 /\ hostSlot = 0
    /\ hostChild = [h \in HostId |-> "none"]
    /\ stopper = NoStopper /\ mainAt = "idle" /\ exitAsked = FALSE /\ orphans = {}

StopStep(t) == NothingToStop(t) \/ TakeHost(t) \/ HostGone(t)

ShellNext ==
    \/ Launch \/ HostReports \/ BootFails \/ TrayBuilt \/ SetupFails \/ ShellKilled
    \/ QuitClicked \/ TimedExit \/ ExitRequested
    \/ \E t \in Thread : StopStep(t)
    \/ \E h \in HostId : HostExits(h)

ShellSpec == ShellInit /\ [][ShellNext]_shellVars

-----------------------------------------------------------------------------
(***************************************************************************)
(* A desktop that was quit has stopped its host, whichever threads quit it *)
(* at once; a host without a desktop is left only where the desktop was    *)
(* killed or failed in its setup (lib.rs:292).                             *)
(***************************************************************************)
QuitStopsHost ==
    \A h \in HostId : Alive(h) =>
      \/ h \in orphans
      \/ h = launches /\ shell # "off" /\ (shell = "setup" \/ h = hostSlot \/ \E t \in Thread : stopper[t].host = h)

(***************************************************************************)
(* A quit gets to its end, whether or not the host answers (lib.rs:304).   *)
(***************************************************************************)
QuitEnds == mainAt # "idle" \/ exitAsked ~> shell = "off"
=============================================================================
