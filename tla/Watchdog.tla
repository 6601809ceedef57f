------------------------------- MODULE Watchdog -------------------------------
(***************************************************************************)
(* The crash watchdog of the privileged helper on Windows: win-watchdog.ts   *)
(* (the decision, the throttle and the loop), win-watchdog-probe.ts and      *)
(* win-watchdog-install.ts (what a tick sees), win-watchdog-logfile.ts.      *)
(*                                                                          *)
(* Time is counted in ticks.  A tick reads the tray processes first and the  *)
(* sessions and the installation later, and triggers after that; users,      *)
(* trays and installers go on meanwhile.  retryAtTick and the install        *)
(* directory's mtime are kept as the ticks still to go, and a counter is     *)
(* kept up to where it stops to matter.                                      *)
(***************************************************************************)
EXTENDS Integers

CONSTANTS
  User,    \* the interactive users
  Misses,  \* WATCHDOG_MISSES_BEFORE_RECOVERY
  Ceiling, \* WATCHDOG_MAX_BACKOFF_TICKS
  Quiet,   \* WATCHDOG_FLAP_QUIET_TICKS
  Settle,  \* INSTALL_SETTLE_MS in ticks
  Every,   \* REPEATED_OBSERVATION_LOG_EVERY
  Worst    \* bound: how far relaunches are counted, where no backoff grows any more

ASSUME BoundAssumption == {Misses, Ceiling, Quiet, Settle, Every, Worst} \subseteq Nat \ {0}
ASSUME WorstAssumption == 2 ^ Worst >= Ceiling

VARIABLES
  user,    \* what each user's session and tray are
  install, \* the installation directory and who works on it
  mem,     \* WatchdogState.users
  tick,    \* the tick in flight
  log,     \* the throttle of the sessions-skipped line and the log file
  history  \* for the properties: what was triggered, seen and written

watchVars == <<user, install, mem, tick, log, history>>

Least(a, b) == IF a < b THEN a ELSE b
Less(n) == IF n > 0 THEN n - 1 ELSE 0

\* Nothing to remember of a user: the entry is deleted from the map.
Forgotten == [misses |-> 0, attempts |-> 0, flaps |-> 0, wait |-> 0, healthy |-> 0]

\* UserSession: nobody is logged on.
LoggedOff == [shell |-> FALSE, tray |-> FALSE, consent |-> "wanted"]
\* InstallSignals: complete, and left alone for long.
Complete == [by |-> "nobody", files |-> "ok", settle |-> 0]
\* WatchdogSnapshot and TickResult: nothing is probed, nobody is a target.
NoTick == [pc |-> "idle", owners |-> {}, targets |-> {}]

-----------------------------------------------------------------------------
(* The machine.                                                             *)

\* A user logs on, or gives or withdraws consent: the Run value, .user-quit.
LogOn(u) ==
  /\ ~user[u].shell
  /\ user' = [user EXCEPT ![u].shell = TRUE]
  /\ UNCHANGED <<install, mem, tick, log, history>>

\* The shell ends, with the session and its tray or alone.
ShellEnds(u) ==
  /\ user[u].shell
  /\ \E tray \in {user[u].tray, FALSE} :
       user' = [user EXCEPT ![u].shell = FALSE, ![u].tray = tray]
  /\ UNCHANGED <<install, mem, tick, log, history>>

SetConsent(u) ==
  /\ \E c \in {"wanted", "opt-out", "quit"} :
       user' = [user EXCEPT ![u].consent = c, ![u].tray = @ /\ c # "quit"]
  /\ UNCHANGED <<install, mem, tick, log, history>>

TrayStarts(u) ==
  /\ user[u].shell /\ ~user[u].tray /\ install.files = "ok"
  /\ user' = [user EXCEPT ![u].tray = TRUE]
  /\ UNCHANGED <<install, mem, tick, log, history>>

TrayEnds(u) ==
  /\ user[u].tray
  /\ user' = [user EXCEPT ![u].tray = FALSE]
  /\ UNCHANGED <<install, mem, tick, log, history>>

\* An update by the task, an installer run by hand, a sweep that takes the
\* executable or the files it loads; an installer ends every tray.
InstallBegins ==
  /\ install.by = "nobody"
  /\ \E by \in {"task", "hand"}, files \in {"ok", "no exe"} :
       install' = [by |-> by, files |-> files, settle |-> Settle]
  /\ user' = [u \in User |-> [user[u] EXCEPT !.tray = FALSE]]
  /\ UNCHANGED <<mem, tick, log, history>>

InstallEnds ==
  /\ install.by # "nobody"
  /\ install' = [by |-> "nobody", files |-> "ok", settle |-> Settle]
  /\ UNCHANGED <<user, mem, tick, log, history>>

Sweep ==
  /\ install.by = "nobody" /\ install.files = "ok"
  /\ \E files \in {"no exe", "gutted"} : install' = [install EXCEPT !.files = files]
  /\ UNCHANGED <<user, mem, tick, log, history>>

-----------------------------------------------------------------------------
(* The decision.                                                            *)

\* backoffTicks
Backoff(n) == IF n < 1 THEN Misses ELSE Least(2 ^ n, Ceiling)

\* What a probe finds out about the installation.  An update by the task shows
\* at once; any other installer only by the directory it has touched.
Updating == install.by = "task"
TrayExeInstalled == install.files # "no exe"
Settling == install.settle > 0

\* installIncompleteVerdict: the files are only judged when nothing is being
\* installed.  The manifest beside the helper outlives a sweep.
Incomplete == install.files = "gutted" /\ ~Updating /\ ~Settling

\* installBlockReason
Blocked == Updating \/ ~TrayExeInstalled \/ Settling \/ Incomplete

\* What a session says of its user: the Run value and the .user-quit marker.
AutoStart(u) == user[u].consent # "opt-out"
QuitMarker(u) == user[u].consent = "quit"

\* The outcome of a user the tick has seen.
Verdict(u, owners, m) ==
  CASE u \in owners -> "tray-running"
    [] u \notin owners /\ ~AutoStart(u) -> "opt-out"
    [] u \notin owners /\ QuitMarker(u) -> "quit"
    [] u \notin owners /\ user[u].consent = "wanted" /\ Blocked -> "waiting"
    [] u \notin owners /\ user[u].consent = "wanted" /\ ~Blocked /\ m.wait > 0 -> "backoff"
    [] OTHER -> "recover"

\* A healthy stretch counts only unbroken: any other outcome ends it.
\* Mutant: the ticks a tray was seen alive are added up over its crashes.
Healthy_Total(outcome, m) == IF outcome = "tray-running" THEN Least(m.healthy + 1, Quiet) ELSE m.healthy
Healthy(outcome, m) == IF outcome = "tray-running" THEN Least(m.healthy + 1, Quiet) ELSE 0

Due(outcome, m) == outcome = "recover" /\ m.misses + 1 >= Misses

\* The entry after the tick.  A backoff is left by time and by a healthy
\* stretch, and by nothing a user can do.
Remembered(outcome, m) ==
  LET h == Healthy(outcome, m)
      n == [m EXCEPT !.healthy = h,
                     !.misses = IF outcome = "recover" THEN @ + 1 ELSE 0,
                     !.attempts = IF outcome \in {"tray-running", "opt-out", "quit"} THEN 0 ELSE @]
  IN CASE Due(outcome, m) ->
            LET a == Least(m.attempts + 1, Worst)
                f == Least(m.flaps + 1, Worst)
            IN [n EXCEPT !.misses = 0, !.attempts = a, !.flaps = f,
                         !.wait = Backoff(IF a > f THEN a ELSE f)]
       [] outcome = "tray-running" /\ m.flaps > 0 /\ h >= Quiet -> Forgotten
       [] OTHER -> n

Kept(m) == IF m.misses = 0 /\ m.attempts = 0 /\ m.flaps = 0 THEN Forgotten ELSE m

\* Only a tick that has delivered every session proves that a user is gone.
\* Mutant: a user the tick did not deliver is forgotten.
Unseen_Pruned(m, skipped) == Forgotten
Unseen(m, skipped) == IF skipped THEN m ELSE Forgotten

\* evaluateTick: the clock of the backoff moves for everybody.
Aged(m) == [m EXCEPT !.wait = Less(@)]
Evaluated(seen, skipped) ==
  [u \in User |->
     IF u \in seen THEN Kept(Remembered(Verdict(u, tick.owners, Aged(mem[u])), Aged(mem[u])))
     ELSE Unseen(Aged(mem[u]), skipped)]

Targets(seen) ==
  {u \in seen : Due(Verdict(u, tick.owners, Aged(mem[u])), Aged(mem[u]))}

-----------------------------------------------------------------------------
(* The log.                                                                 *)

\* createLogThrottle: quiet ticks count as well.
\* Mutant: a condition that was away is new again.
Cleared_Fresh(t) == [t EXCEPT !.since = Every]
Cleared(t) == [t EXCEPT !.since = Least(@ + 1, Every)]
LineDue(t) == t.since + 1 >= Every
Hit(t) == [t EXCEPT !.since = IF LineDue(t) THEN 0 ELSE @ + 1]

\* One line into the file: opened on the first in a directory that is checked
\* then, rotated when it is full, and given up for good when any of that fails.
Usable(t, ok) == t.file = "usable" /\ ok
Wrote(t, ok) == [t EXCEPT !.file = IF Usable(t, ok) THEN "usable" ELSE "disabled"]

Logged(skipped, ok) ==
  IF ~skipped THEN Cleared(log)
  ELSE IF LineDue(log) THEN Wrote(Hit(log), ok) ELSE Hit(log)

-----------------------------------------------------------------------------
(* The loop.                                                                *)

\* The owners a probe can find: of the processes whose image is the tray's and
\* whose command line is a main process, those whose token could be read within
\* the budgets.  A tray counts only for the user whose own token it runs under.
TrayOwners == SUBSET {u \in User : user[u].tray}

\* The timer fires: the trays are read.
TickStarts ==
  /\ tick.pc = "idle"
  /\ \E owners \in TrayOwners :
       tick' = [NoTick EXCEPT !.pc = "probing", !.owners = owners]
  /\ install' = [install EXCEPT !.settle = Less(@)]
  /\ history' = [history EXCEPT !.line = Least(@ + 1, Every),
                                !.gap = [u \in User |-> Least(@[u] + 1, Ceiling)]]
  /\ UNCHANGED <<user, mem, log>>

\* A probe that fails or makes no sense is no evidence: the tick is skipped.
ProbeFails ==
  /\ tick.pc = "probing" /\ tick' = NoTick
  /\ UNCHANGED <<user, install, mem, log, history>>

\* What the properties remember: relaunches since the last quiet stretch or
\* since the user was seen to be gone, and how long the tray has been seen.
Calm(u, seen) == IF u \in seen /\ u \in tick.owners THEN Least(history.calm[u] + 1, Quiet)
                 ELSE IF u \in seen THEN 0 ELSE history.calm[u]
Remember(seen, skipped, wrote) ==
  [line |-> IF wrote THEN 0 ELSE history.line,
   gap |-> [u \in User |-> IF u \in Targets(seen) THEN 0 ELSE history.gap[u]],
   calm |-> [u \in User |-> Calm(u, seen)],
   runs |-> [u \in User |->
     IF u \in Targets(seen) THEN Least(history.runs[u] + 1, Worst)
     ELSE IF Calm(u, seen) = Quiet \/ (u \notin seen /\ ~skipped) THEN 0
     ELSE history.runs[u]]]

\* The shells a probe can look up: a budget per session and for the machine,
\* from a random start, so that no user is always among the dropped.
Shells == SUBSET {u \in User : user[u].shell}

\* A session that was dropped (budget, owner, profile, hive) is counted, and
\* makes the tick a partial one; a shell of somebody without a session counts too.
Delivers(seen, skipped) == skipped \/ \A u \in User : user[u].shell => u \in seen

\* The rest of the probe, the decision and its log lines.
Evaluate(seen, skipped, ok) ==
  /\ Delivers(seen, skipped)
  /\ log' = Logged(skipped, ok)
  /\ history' = Remember(seen, skipped, skipped /\ LineDue(log))
  /\ mem' = Evaluated(seen, skipped)
  /\ tick' = IF Targets(seen) = {} THEN NoTick
             ELSE [NoTick EXCEPT !.pc = "triggering", !.targets = Targets(seen)]

Decide(must) ==
  /\ tick.pc = "probing"
  /\ \E seen \in Shells, skipped, ok \in BOOLEAN :
       must \subseteq seen /\ Evaluate(seen, skipped, ok)
  /\ UNCHANGED <<user, install>>

Triggered(u) ==
  LET rest == tick.targets \ {u}
  IN IF rest = {} THEN NoTick ELSE [tick EXCEPT !.targets = rest]

\* RunEx of the Relaunch task.  Its launcher looks at the marker again, and a
\* second tray of a user ends at once.
Relaunch(u) ==
  /\ u \in tick.targets /\ tick' = Triggered(u)
  /\ user[u].shell /\ install.files = "ok" /\ user[u].consent # "quit"
  /\ user' = [user EXCEPT ![u].tray = TRUE]
  /\ UNCHANGED <<install, mem, log, history>>

\* The task cannot be started, or what it starts declines or crashes.
RelaunchFails(u) ==
  /\ u \in tick.targets /\ tick' = Triggered(u)
  /\ UNCHANGED <<user, install, mem, log, history>>

-----------------------------------------------------------------------------
WatchInit ==
  /\ user = [u \in User |-> LoggedOff]
  /\ install = Complete
  /\ mem = [u \in User |-> Forgotten]
  /\ tick = NoTick
  /\ log = [since |-> Every, file |-> "usable"]
  /\ history = [line |-> Every, gap |-> [u \in User |-> Ceiling],
                calm |-> [u \in User |-> 0], runs |-> [u \in User |-> 0]]

WatchNext ==
  \/ InstallBegins \/ InstallEnds \/ Sweep
  \/ TickStarts \/ ProbeFails \/ Decide({})
  \/ \E u \in User :
       \/ LogOn(u) \/ ShellEnds(u) \/ SetConsent(u) \/ TrayStarts(u) \/ TrayEnds(u)
       \/ Relaunch(u) \/ RelaunchFails(u)

WatchSpec == WatchInit /\ [][WatchNext]_watchVars

\* The timer is re-armed after every tick.  A probe succeeds again and again,
\* its random start reaches every session, and a launch sometimes takes.
WatchFairness ==
  /\ WF_watchVars(TickStarts \/ ProbeFails \/ Decide({}) \/ \E u \in User : Relaunch(u) \/ RelaunchFails(u))
  /\ \A u \in User :
       /\ SF_watchVars(Decide({u}))
       /\ SF_watchVars(Relaunch(u))

FairWatchSpec == WatchSpec /\ WatchFairness

-----------------------------------------------------------------------------
\* A tray that keeps dying is relaunched ever more slowly: between two
\* relaunches lie the ticks of the backoff for all relaunches since the user
\* was last seen with a tray for a whole quiet stretch, or seen to be gone.
\* Withdrawn consent, installs, partial and failed ticks shorten nothing.
NoRelaunchStorm ==
  [][\A u \in User :
       (tick.pc = "probing" /\ u \in tick'.targets /\ history.runs[u] > 0)
         => history.gap[u] >= Backoff(history.runs[u])]_watchVars

\* A user who wants the tray on a machine where nothing forbids it gets it
\* again, however often it dies.
Recovers ==
  \A u \in User :
    <>[](user[u].shell /\ user[u].consent = "wanted" /\ ~Blocked) => []<>user[u].tray

\* A condition anybody on the machine can switch on and off writes no more
\* than one line in Every ticks.
LogRate ==
  [][(tick.pc = "probing" /\ log' # log /\ history'.line = 0) => history.line >= Every]_watchVars
=============================================================================
