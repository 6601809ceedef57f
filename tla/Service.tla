------------------------------- MODULE Service -------------------------------
(***************************************************************************)
(* The agent as a Linux service: supervisor.ts and the worker it keeps alive *)
(* (run.ts, heartbeat.ts), the gate that lets one agent run (live-agent.ts,  *)
(* single-instance.ts), the update with its rollback (self-update.ts) and    *)
(* the commands that stop, restart and remove it (ctl/).  An agent is either  *)
(* the unit's or one an operator started by hand.                            *)
(*                                                                          *)
(* Versions are "old" and "new"; bad: the new one cannot run as a supervisor. A*)
(* process identifier is modelled by whether it is still the one that was     *)
(* read.  mishaps and orders bound what goes wrong and what operators do.     *)
(***************************************************************************)
EXTENDS Naturals, FiniteSets

CONSTANTS
  MaxMishaps,  \* bound: failures of processes, of calls, of the machine
  MaxOrders,   \* bound: commands of operators
  MaxUpdates   \* bound: updates

ASSUME BoundsAssumption == {MaxMishaps, MaxOrders, MaxUpdates} \subseteq Nat

VARIABLES
  disk,     \* the installed version, the backup, the lock of the update
  bad,      \* whether the new version cannot run as a supervisor
  unit,     \* the unit: its state, whether it starts again, enabled
  sup,      \* the supervisors
  worker,   \* their workers
  stamp,    \* the heartbeat file
  upd,      \* the process of the update, and how the last one ended
  un,       \* the uninstall
  job,      \* for the uninstall: a detached job in a scope of its own, its data
  mishaps, orders

vars == <<disk, bad, unit, sup, worker, stamp, upd, un, job, mishaps, orders>>

Agent == {"unit", "hand"}
NotSeen == [install |-> "none", before |-> "none"]
NoSup == [pc |-> "none", grace |-> FALSE]

Mishap == mishaps < MaxMishaps /\ mishaps' = mishaps + 1
Order == orders < MaxOrders /\ orders' = orders + 1
NoBudget == UNCHANGED <<mishaps, orders>>

-----------------------------------------------------------------------------
(* Who is an agent here: findRunningAgents.                                 *)

\* A supervisor is one from its first instruction, before its own look.  A worker
\* is one without its supervisor, too.
\* Mutant: only a recorded worker is found.
IsAgent_Worker(a) == worker[a] \in {"start", "up", "stuck"}
IsAgent(a) == sup[a].pc # "none" \/ worker[a] # "none"

\* What the walk of the process table and the recorded process find.
Found == {a \in Agent : IsAgent(a)}

\* singleInstanceVerdict, for one that does not count itself.
Clear(a) == Found \subseteq {a}

Serves(a) == sup[a].pc = "run" \/ worker[a] # "none"

-----------------------------------------------------------------------------
(* systemd.                                                                 *)

\* Executing a version that cannot run.
Born == [pc |-> IF disk.now = "none" \/ (disk.now = "new" /\ bad) THEN "doomed" ELSE "scan",
         grace |-> FALSE]

Signalled(p) == IF p.pc = "none" THEN p ELSE [p EXCEPT !.pc = "quit"]

\* systemctl stop, and restart or start with again; enable and disable.
Stop(again, enabled) ==
  /\ unit' = [unit EXCEPT
       !.state = IF @ \in {"active", "stopping"} THEN "stopping"
                 ELSE IF again THEN "waiting" ELSE "inactive",
       !.again = again /\ unit.state \in {"active", "stopping"},
       !.enabled = enabled]
  /\ sup' = [sup EXCEPT !["unit"] = IF unit.state = "active" THEN Signalled(@) ELSE @]

\* What was read as the MainPID is no longer it.
Replaced(seen) == [r \in DOMAIN seen |-> IF seen[r] = "same" THEN "other" ELSE seen[r]]

\* After RestartSec, or at once.
UnitUp ==
  /\ unit.state = "waiting"
  /\ unit' = [unit EXCEPT !.state = "active"]
  /\ sup' = [sup EXCEPT !["unit"] = Born]
  /\ upd' = [upd EXCEPT !.seen = Replaced(@)]
  /\ NoBudget /\ UNCHANGED <<disk, bad, worker, stamp, un, job>>

\* Restart=always, KillMode=control-group; the runtime directory goes too.
Down(state) ==
  /\ unit' = [unit EXCEPT !.state = state, !.again = FALSE]
  /\ sup' = [sup EXCEPT !["unit"] = NoSup]
  /\ worker' = [worker EXCEPT !["unit"] = "none"]
  /\ stamp' = "none"
  /\ NoBudget /\ UNCHANGED <<disk, bad, upd, un, job>>

MainEnded == unit.state = "active" /\ sup["unit"].pc = "none" /\ Down("waiting")

\* The signal did it, or TimeoutStopSec.
UnitDown == unit.state = "stopping" /\ Down(IF unit.again THEN "waiting" ELSE "inactive")

\* A reboot: what is on disk stays.  An update after its swap never gets to look.
Reboot ==
  /\ Mishap
  /\ unit' = [unit EXCEPT !.state = IF unit.enabled THEN "waiting" ELSE "inactive", !.again = FALSE]
  /\ sup' = [a \in Agent |-> NoSup] /\ worker' = [a \in Agent |-> "none"]
  /\ stamp' = "none"
  /\ upd' = [upd EXCEPT !.pc = "idle", !.seen = NotSeen,
       !.said = IF upd.pc \in {"idle", "begin", "install"} THEN @ ELSE "killed"]
  /\ un' = IF un = "done" THEN un ELSE "idle"
  /\ job' = IF job = "live" THEN "over" ELSE job
  /\ UNCHANGED <<disk, bad, orders>>

-----------------------------------------------------------------------------
(* An agent: startAgent, runSupervisor, runAgent.                           *)

\* aicommander-agent run, in a terminal; not after an uninstall has looked.
HandStart ==
  /\ ~IsAgent("hand") /\ Order /\ disk.now # "none" /\ un \in {"idle", "aborted", "stop", "scan"}
  /\ sup' = [sup EXCEPT !["hand"] = Born]
  /\ UNCHANGED <<disk, bad, unit, worker, stamp, upd, un, job, mishaps>>

Ends(a) == sup' = [sup EXCEPT ![a] = NoSup]

DoomedEnds(a) ==
  /\ sup[a].pc = "doomed" /\ Ends(a)
  /\ NoBudget /\ UNCHANGED <<disk, bad, unit, worker, stamp, upd, un, job>>

\* The gate; a look that fails, or leaves a process unidentified, refuses.
Spawned(p) == [p EXCEPT !.pc = "run", !.grace = TRUE]

Gate(a) ==
  /\ sup[a].pc = "scan"
  /\ \/ ~Clear(a) /\ Ends(a) /\ NoBudget /\ UNCHANGED worker
     \/ Mishap /\ Ends(a) /\ UNCHANGED <<worker, orders>>
     \/ /\ Clear(a)
        /\ sup' = [sup EXCEPT ![a] = Spawned(@)]
        /\ worker' = [worker EXCEPT ![a] = "boot"]
        /\ NoBudget
  /\ UNCHANGED <<disk, bad, unit, stamp, upd, un, job>>

\* At once, or after the backoff of a crash loop.  No timer of a supervisor keeps
\* its process: without a worker it may run out of work and end.
Respawn(a) ==
  /\ sup[a].pc = "run" /\ worker[a] = "none"
  /\ \/ sup' = [sup EXCEPT ![a] = Spawned(@)] /\ worker' = [worker EXCEPT ![a] = "boot"]
     \/ Ends(a) /\ UNCHANGED worker
  /\ NoBudget /\ UNCHANGED <<disk, bad, unit, stamp, upd, un, job>>

\* startHeartbeat stamps first of all; a stamp may fail to be written.
Stamp(a) ==
  /\ worker[a] = "boot"
  /\ worker' = [worker EXCEPT ![a] = "start"]
  /\ \/ stamp' = "fresh" /\ NoBudget
     \/ Mishap /\ UNCHANGED <<stamp, orders>>
  /\ UNCHANGED <<disk, bad, unit, sup, upd, un, job>>

Beat(a) ==
  /\ worker[a] \in {"start", "up"} /\ stamp # "fresh" /\ stamp' = "fresh"
  /\ NoBudget /\ UNCHANGED <<disk, bad, unit, sup, worker, upd, un, job>>

\* register, saveSession, writeState.
Register(a) ==
  /\ worker[a] = "start"
  /\ worker' = [worker EXCEPT ![a] = "up"]
  /\ NoBudget /\ UNCHANGED <<disk, bad, unit, sup, stamp, upd, un, job>>

\* One of them failed, or the worker died; or its event loop stands still.
WorkerFails(a) ==
  /\ worker[a] \in {"start", "up"} /\ Mishap
  /\ \E w \in {"none", "stuck"} : worker' = [worker EXCEPT ![a] = w]
  /\ UNCHANGED <<disk, bad, unit, sup, stamp, upd, un, job, orders>>

\* WATCHDOG_STALL_MS without a stamp; a worker that works stamps more often.
Stale ==
  /\ stamp = "fresh" /\ \A a \in Agent : worker[a] \notin {"start", "up"}
  /\ stamp' = "stale"
  /\ NoBudget /\ UNCHANGED <<disk, bad, unit, sup, worker, upd, un, job>>

\* WATCHDOG_STALL_MS after a spawn; a worker gets to its first stamp before.
GraceOver(a) ==
  /\ sup[a].pc = "run" /\ sup[a].grace /\ worker[a] # "boot"
  /\ sup' = [sup EXCEPT ![a].grace = FALSE]
  /\ NoBudget /\ UNCHANGED <<disk, bad, unit, worker, stamp, upd, un, job>>

\* A fresh worker is not judged by the stamp of the one before.
Stalled(a) == sup[a].pc = "run" /\ worker[a] # "none" /\ ~sup[a].grace /\ stamp = "stale"

Watchdog(a) ==
  /\ Stalled(a)
  /\ worker' = [worker EXCEPT ![a] = "none"]
  /\ NoBudget /\ UNCHANGED <<disk, bad, unit, sup, stamp, upd, un, job>>

\* SIGINT: no more watchdog or respawn, and the exit of the worker is the end.  A
\* worker that stands still does not hear it.
HandSignal ==
  /\ sup["hand"].pc \in {"scan", "run"}
  /\ sup' = [sup EXCEPT !["hand"] = Signalled(@)]
  /\ NoBudget /\ UNCHANGED <<disk, bad, unit, worker, stamp, upd, un, job>>

Quits(a) ==
  /\ sup[a].pc = "quit" /\ worker[a] # "stuck"
  /\ worker' = [worker EXCEPT ![a] = "none"] /\ Ends(a)
  /\ NoBudget /\ UNCHANGED <<disk, bad, unit, stamp, upd, un, job>>

\* Killed: the worker of a supervisor started by hand lives on.
SupervisorDies(a) ==
  /\ sup[a].pc \in {"run", "quit"} /\ Mishap /\ Ends(a)
  /\ UNCHANGED <<disk, bad, unit, worker, stamp, upd, un, job, orders>>

\* Who started an agent by hand ends what is left of it.
HandGone ==
  /\ IsAgent("hand")
  /\ Ends("hand") /\ worker' = [worker EXCEPT !["hand"] = "none"]
  /\ NoBudget /\ UNCHANGED <<disk, bad, unit, stamp, upd, un, job>>

JobEnds ==
  /\ job = "live" /\ job' = "over"
  /\ NoBudget /\ UNCHANGED <<disk, bad, unit, sup, worker, stamp, upd, un>>

-----------------------------------------------------------------------------
(* Commands.                                                                *)

Free == un \in {"idle", "aborted"} /\ disk.now # "none"

\* A start that is refused leaves the unit stopped.
Install == \/ Stop(TRUE, TRUE) /\ UNCHANGED mishaps
           \/ Mishap /\ Stop(FALSE, TRUE)
Enable == Stop(TRUE, TRUE) /\ UNCHANGED mishaps
ChangeCode == Stop(TRUE, unit.enabled) /\ UNCHANGED mishaps

\* The jobs are left alone.
Disable == Stop(FALSE, FALSE) /\ UNCHANGED mishaps

Command ==
  /\ Free /\ Order
  /\ Install \/ Enable \/ ChangeCode \/ Disable
  /\ un' = "idle"
  /\ UNCHANGED <<disk, bad, worker, stamp, upd, job>>

\* uninstall --force.  Nobody updates meanwhile; a detached job may run.
Uninstall ==
  /\ Free /\ Order /\ upd.pc = "idle"
  /\ Stop(FALSE, unit.enabled)
  /\ un' = "stop"
  /\ \E j \in {"none", "live"} : job' = IF job = "none" THEN j ELSE job
  /\ UNCHANGED <<disk, bad, worker, stamp, upd, mishaps>>

\* stopServiceVerified: in the end, after a SIGKILL, it is known to be stopped.
Verified ==
  /\ un = "stop"
  /\ \/ unit.state = "inactive" /\ un' = "scan" /\ NoBudget
     \/ Mishap /\ un' = "aborted" /\ UNCHANGED orders
  /\ UNCHANGED <<disk, bad, unit, sup, worker, stamp, upd, job>>

\* The look at the processes; then the unit, the program and the identity go.
Removes ==
  /\ un = "scan"
  /\ \/ Found # {} /\ un' = "aborted" /\ NoBudget /\ UNCHANGED <<disk, unit>>
     \/ Mishap /\ un' = "aborted" /\ UNCHANGED <<disk, unit, orders>>
     \/ /\ Found = {}
        /\ un' = "scopes"
        /\ disk' = [disk EXCEPT !.now = "none"] /\ unit' = [unit EXCEPT !.enabled = FALSE]
        /\ NoBudget
  /\ UNCHANGED <<bad, sup, worker, stamp, upd, job>>

\* stopJobScopes: stop, or kill after SCOPE_STOP_TIMEOUT_MS; neither need work.
StopsScopes ==
  /\ un = "scopes" /\ un' = "verify"
  /\ \/ UNCHANGED job
     \/ job = "live" /\ job' = "over"
  /\ NoBudget /\ UNCHANGED <<disk, bad, unit, sup, worker, stamp, upd>>

\* Only a fresh list says that a scope is gone; without one the data is kept.
Listed == job = "live"

RemovesData ==
  /\ un = "verify" /\ un' = "done"
  /\ \/ UNCHANGED job /\ (NoBudget \/ (Mishap /\ UNCHANGED orders))
     \/ ~Listed /\ job' = "none" /\ NoBudget
  /\ UNCHANGED <<disk, bad, unit, sup, worker, stamp, upd>>

-----------------------------------------------------------------------------
(* self-update.                                                             *)

Says(what) == upd' = [upd EXCEPT !.pc = "idle", !.said = what, !.seen = NotSeen]
Unlocked == disk' = [disk EXCEPT !.lock = FALSE]
Goes(pc) == upd' = [upd EXCEPT !.pc = pc]
MainPid == IF unit.state = "active" /\ sup["unit"].pc # "none" THEN "same" ELSE "none"

\* A unit of its own, so one at a time.  The program itself must run.
Launch ==
  /\ upd.pc = "idle" /\ upd.runs < MaxUpdates /\ Free /\ disk.now = "old"
  /\ upd' = [upd EXCEPT !.pc = "begin", !.runs = @ + 1, !.said = "over", !.doubt = FALSE]
  /\ NoBudget /\ UNCHANGED <<disk, bad, unit, sup, worker, stamp, un, job>>

\* The lock of one that was killed is stale, unless its number lives again.  Then
\* the target, the download, the signature: any of them may be the end of it.
Begin ==
  /\ upd.pc = "begin"
  /\ \/ disk.lock /\ Says("over") /\ NoBudget /\ UNCHANGED disk
     \/ Says("over") /\ Unlocked /\ NoBudget
     \/ /\ disk' = [disk EXCEPT !.lock = TRUE, !.bak = disk.now]
        /\ \/ /\ upd' = [upd EXCEPT !.pc = "install", !.seen.install = MainPid] /\ NoBudget
           \/ /\ upd' = [upd EXCEPT !.pc = "install", !.seen.install = "none"]
              /\ Mishap /\ UNCHANGED orders
  /\ UNCHANGED <<bad, unit, sup, worker, stamp, un, job>>

\* The installer puts the new program in place, or fails before.  Or the old one
\* stays and nothing says so: an exit without an error, or no answer of the program.
Swap ==
  /\ upd.pc = "install"
  /\ \/ /\ Says("over") /\ Mishap /\ Unlocked
        /\ UNCHANGED orders
     \/ /\ \E next \in {"swapped", "settle"} : Goes(next)
        /\ Mishap /\ UNCHANGED <<disk, orders>>
     \/ /\ disk' = [disk EXCEPT !.now = "new"]
        /\ upd' = [upd EXCEPT !.pc = "swapped", !.doubt = upd.seen.install # MainPid]
        /\ NoBudget
  /\ UNCHANGED <<bad, unit, sup, worker, stamp, un, job>>

\* It enables and restarts the unit; or dies; or can stop it and not start it.
Installed ==
  /\ upd.pc = "swapped" /\ Goes("settle")
  /\ \/ Stop(TRUE, TRUE) /\ NoBudget
     \/ Mishap /\ UNCHANGED <<unit, sup, orders>>
     \/ Mishap /\ Stop(FALSE, TRUE) /\ UNCHANGED orders
  /\ UNCHANGED <<disk, bad, worker, stamp, un, job>>

\* After SETTLE_MS.
Settled ==
  /\ upd.pc = "settle"
  /\ upd' = [upd EXCEPT !.pc = "judge", !.seen.before = MainPid]
  /\ NoBudget /\ UNCHANGED <<disk, bad, unit, sup, worker, stamp, un, job>>

\* What <program> --version can answer: a bad one may not even execute.
Version == IF disk.now = "new" /\ bad THEN {"new", "none"} ELSE {disk.now}

\* updateOutcome.
\* Mutant: a service that goes on restarting is taken for a running one.
Outcome_Flapping(version) ==
  /\ unit.state = "active" /\ sup["unit"].pc # "none" /\ upd.seen.before # "none"
  /\ upd.seen.install # "same"
  /\ version = "new"
Outcome(version) ==
  /\ unit.state = "active" /\ sup["unit"].pc # "none" /\ upd.seen.before = "same"
  /\ upd.seen.install # "same"
  /\ version = "new"

\* After STABILITY_MS, in which a supervisor that cannot run has ended.  A question to
\* systemd or to the program that has no answer speaks against the update.
Judge ==
  /\ upd.pc = "judge" /\ ~(upd.seen.before = "same" /\ sup["unit"].pc = "doomed")
  /\ \E version \in Version :
       \/ Outcome(version) /\ Says("over") /\ Unlocked /\ NoBudget
       \/ ~Outcome(version) /\ Goes("rollback") /\ NoBudget /\ UNCHANGED disk
       \/ Mishap /\ Goes("rollback") /\ UNCHANGED <<disk, orders>>
  /\ UNCHANGED <<bad, unit, sup, worker, stamp, un, job>>

\* replaceExecutable: at once or not at all.
Replace == disk' = [disk EXCEPT !.now = disk.bak]

\* It may throw; systemctl restart may fail unnoticed.
Rollback ==
  /\ upd.pc = "rollback"
  /\ \/ Mishap /\ Says("threw") /\ Unlocked /\ UNCHANGED <<unit, sup, orders>>
     \/ /\ Replace /\ Goes("back")
        /\ \/ Stop(TRUE, unit.enabled) /\ NoBudget
           \/ Mishap /\ UNCHANGED <<unit, sup, orders>>
  /\ UNCHANGED <<bad, worker, stamp, un, job>>

\* The verdict of a rollback is a line in the log.
RolledBack ==
  /\ upd.pc = "back" /\ Unlocked
  /\ Says("over")
  /\ NoBudget /\ UNCHANGED <<bad, unit, sup, worker, stamp, un, job>>

-----------------------------------------------------------------------------

\* An installed service, at boot; an agent may be started by hand then.
\* An update before may have been killed and have left its lock.
Init ==
  /\ disk \in [now : {"old"}, bak : {"none"}, lock : BOOLEAN]
  /\ bad \in BOOLEAN
  /\ unit = [state |-> "waiting", again |-> FALSE, enabled |-> TRUE]
  /\ \E p \in {NoSup, Born} : sup = [unit |-> NoSup, hand |-> p]
  /\ worker = [a \in Agent |-> "none"]
  /\ stamp = "none"
  /\ upd = [pc |-> "idle", said |-> "over", runs |-> 0, doubt |-> FALSE,
            seen |-> NotSeen]
  /\ un = "idle" /\ job = "none"
  /\ mishaps = 0 /\ orders = 0

Runs(a) ==
  \/ DoomedEnds(a) \/ Gate(a) \/ Respawn(a) \/ Stamp(a) \/ Beat(a) \/ Register(a)
  \/ GraceOver(a) \/ Watchdog(a) \/ Quits(a)

Fails(a) == WorkerFails(a) \/ SupervisorDies(a)

Update == Begin \/ Swap \/ Installed \/ Settled \/ Judge \/ Rollback \/ RolledBack
Uninstalls == Verified \/ Removes \/ StopsScopes \/ RemovesData

Systemd == UnitUp \/ MainEnded \/ UnitDown

Next ==
  \/ Systemd \/ Reboot
  \/ HandStart \/ HandSignal \/ HandGone
  \/ \E a \in Agent : Runs(a) \/ Fails(a)
  \/ Stale \/ JobEnds
  \/ Command \/ Uninstall \/ Uninstalls
  \/ Launch \/ Update

\* What processes, timers and systemd do by themselves; an agent started by hand
\* is ended some day.  Nothing is promised of jobs, failures and commands.
Fairness ==
  /\ WF_vars(Systemd) /\ WF_vars(HandGone) /\ WF_vars(Stale)
  /\ WF_vars(Update) /\ WF_vars(Uninstalls)
  /\ \A a \in Agent : WF_vars(Runs(a))

Spec == Init /\ [][Next]_vars
FairSpec == Spec /\ Fairness

-----------------------------------------------------------------------------

\* Whoever acts on a clear look at the processes is alone: two agents never serve
\* this machine, none serves it while or after its files are removed, and the data
\* of a job is not removed under it.
ClearMeansAlone ==
  [][/\ \A a, b \in Agent : Serves(a)' /\ Serves(b)' => a = b
     /\ un' \in {"scopes", "verify", "done"} => ~\E a \in Agent : Serves(a)'
     /\ job = "live" => job' # "none"]_vars

\* The machine comes back: through dead and stuck workers, dead supervisors,
\* reboots, agents started by hand and a new version that does not run, an enabled
\* service has a worker that serves again and again.  Not so if the worker stands
\* still before its first stamp is on disk; nor with a version that does not run, if
\* its update was cut short, threw on its way back, or took a restart by others
\* before its swap for its own.
ComesBack ==
  LET Wanted == unit.enabled /\ unit.state # "inactive"
      Stamped == worker["unit"] = "stuck" => stamp # "none"
      Runnable == bad => upd.said \notin {"killed", "threw"} /\ ~upd.doubt
  IN <>[](Wanted /\ Stamped /\ Runnable) => []<>(\E a \in Agent : worker[a] = "up")
=============================================================================
