----------------------------- MODULE CommandSlot -----------------------------
(***************************************************************************)
(* The one foreground command of a relay connection: the slot of            *)
(* connection-commands.ts, the executor of do:exec (executor.ts, with the   *)
(* deferred start on the login-shell PATH probe and the Windows launcher    *)
(* handshake) and the sandboxed executor of do:secure_exec                  *)
(* (secure-executor.ts, secure-exec-drop.ts).                               *)
(*                                                                          *)
(* A command lives twice: as the slot's record (cmd), which decides what    *)
(* the relay is told, and as the executor's record (proc), which owns the   *)
(* process.  The two are tied only by callbacks, so each of them can be     *)
(* over while the other is not.                                             *)
(*                                                                          *)
(* Timers are countdowns: Off, or the ticks left; Tick waits for every      *)
(* timer that is due.                                                       *)
(***************************************************************************)
EXTENDS Integers, Sequences

CONSTANTS
  Command,     \* command ids, each used by one frame
  None,        \* the empty slot
  Timeout,     \* the deadline of a do:exec
  Escalation,  \* KILL_ESCALATION_MS, from SIGTERM to SIGKILL
  DrainQuiet,  \* EXIT_DRAIN_QUIET_MS
  DrainMax,    \* EXIT_DRAIN_MAX_MS
  Guard,       \* EXIT_DRAIN_DEADLINE_GUARD_MS
  Handshake,   \* WINDOWS_LAUNCHER_HANDSHAKE_TIMEOUT_MS
  Platform     \* the platforms of the instance, out of darwin, linux, win32

ASSUME CommandAssumption == None \notin Command
ASSUME TimeAssumption ==
  /\ {Timeout, Escalation, DrainQuiet, DrainMax, Guard, Handshake} \subseteq Nat \ {0}
  /\ DrainQuiet <= DrainMax
ASSUME PlatformAssumption == Platform \subseteq {"darwin", "linux", "win32"}

VARIABLES
  activeCommand, \* the command in the slot
  cmd,           \* the slot's record of each command
  proc,          \* the executor's record of each command
  told,          \* what the relay was told of each command
  link,          \* up; settled (the promise is decided); closed
  platform,
  pathProbe,     \* the login-shell PATH probe, pending on macOS only
  identity       \* what /etc/passwd and /etc/group say of the sandbox user

vars == <<activeCommand, cmd, proc, told, link, platform, pathProbe, identity>>
slot == <<activeCommand, cmd, told>>
env == <<link, platform, pathProbe, identity>>

Off == -1

NoCommand == [mode |-> "none", sent |-> FALSE, settled |-> FALSE, kill |-> FALSE,
              deadline |-> Off]
NoProcess == [st |-> "none", closed |-> FALSE, settled |-> FALSE, term |-> FALSE,
              sig |-> "none", esc |-> Off, hs |-> Off, ready |-> FALSE, fail |-> FALSE,
              lost |-> FALSE, held |-> FALSE, next |-> Off, until |-> Off, quiet |-> 0,
              quietFor |-> 0, killReq |-> FALSE, user |-> "none"]

Smaller(a, b) == IF a < b THEN a ELSE b
Larger(a, b) == IF a > b THEN a ELSE b

-----------------------------------------------------------------------------
(* The slot.                                                                *)

Reply(c, f) ==
  told' = [told EXCEPT ![c] = [replies |-> Append(@.replies, f), last |-> "terminal"]]

\* Frames that are not terminal, dropped once the command is over.
Chatter(c, f) ==
  told' = IF cmd[c].sent \/ cmd[c].settled THEN told ELSE [told EXCEPT ![c].last = f]

\* onDone / onError: settleCommandExecution, then the reply unless one was sent.
\* Mutant: the reply does not look at terminalResponseSent.
SettleSlot_Twice(c, f) ==
  IF cmd[c].settled THEN UNCHANGED slot
  ELSE /\ cmd' = [cmd EXCEPT ![c].settled = TRUE, ![c].sent = TRUE,
                             ![c].kill = FALSE, ![c].deadline = Off]
       /\ activeCommand' = IF activeCommand = c THEN None ELSE activeCommand
       /\ Reply(c, f)
SettleSlot(c, f) ==
  IF cmd[c].settled THEN UNCHANGED slot
  ELSE /\ cmd' = [cmd EXCEPT ![c].settled = TRUE, ![c].sent = TRUE,
                             ![c].kill = FALSE, ![c].deadline = Off]
       /\ activeCommand' = IF activeCommand = c THEN None ELSE activeCommand
       /\ IF cmd[c].sent THEN told' = told ELSE Reply(c, f)

-----------------------------------------------------------------------------
(* The executor.                                                            *)

\* What settle() reports: a setup failure, a launcher that was never ready or
\* whose console stage vanished is an error, anything else an exit code.
Verdict(x) ==
  IF x.fail \/ (platform = "win32" /\ ~x.ready) \/ x.lost THEN "error" ELSE "done"

\* The record once its handlers were called: nothing reads it any more, and a
\* survivor that holds the pipes is left alone.
Settled(x) == [NoProcess EXCEPT !.st = "gone", !.sig = x.sig, !.closed = x.closed,
                                !.settled = TRUE, !.user = x.user]

\* settle() of the executor on its record x.
SettleExec(c, x) ==
  IF x.settled
  THEN proc' = [proc EXCEPT ![c] = Settled(x)] /\ UNCHANGED slot
  ELSE proc' = [proc EXCEPT ![c] = Settled(x)] /\ SettleSlot(c, Verdict(x))

\* signalTree: taskkill /F on Windows, the process group elsewhere.
Signal(x, s) ==
  [x EXCEPT !.sig = IF @ = "kill" \/ x.st = "unborn" THEN @
                    ELSE IF platform = "win32" THEN "kill" ELSE s]

\* RunningCommand.kill.  The sandboxed executor only asks whether the process
\* was closed; the other one terminates at most once.
\* Mutant: no SIGKILL follows.
Killed_Polite(c, x) ==
  IF x.st = "waiting" THEN [x EXCEPT !.killReq = TRUE]
  ELSE IF x.closed \/ (cmd[c].mode = "exec" /\ x.term) THEN x
  ELSE [Signal(x, "term") EXCEPT !.term = TRUE]
Killed(c, x) ==
  IF x.st = "waiting" THEN [x EXCEPT !.killReq = TRUE]
  ELSE IF x.closed \/ (cmd[c].mode = "exec" /\ x.term) THEN x
  ELSE [Signal(x, "term") EXCEPT !.term = TRUE, !.esc = Escalation]

\* recordSetupFailure.
SetupFailed(x) ==
  IF x.settled \/ x.fail THEN x
  ELSE LET y == [x EXCEPT !.fail = TRUE, !.hs = Off]
       IN IF y.closed \/ y.term THEN y ELSE [Signal(y, "kill") EXCEPT !.term = TRUE]

\* scheduleDrainCheck, on the record of a process that has just exited, q ticks
\* after its last output: read on until the pipes are quiet, but never into the caller's deadline.
\* Mutant: the deadline does not clamp the drain.
Drained_Unclamped(c, x, q) ==
  [x EXCEPT !.until = DrainMax, !.next = DrainQuiet, !.quiet = DrainQuiet, !.quietFor = q]
Drained(c, x, q) ==
  LET budget == IF cmd[c].deadline = Off THEN 0 ELSE cmd[c].deadline - Guard
      max == Smaller(DrainMax, budget)
      quiet == Smaller(DrainQuiet, max)
  IN [x EXCEPT !.until = max, !.next = IF max <= 0 THEN Off ELSE quiet, !.quiet = quiet,
                !.quietFor = q]

-----------------------------------------------------------------------------
(* Frames of the relay.                                                     *)

\* The message handler is attached until the close event.
Frame(c) == link # "closed" /\ cmd[c].mode = "none"

\* beginCommand when the slot is taken.
Busy(c) ==
  /\ Frame(c) /\ activeCommand # None
  /\ cmd' = [cmd EXCEPT ![c].mode = "refused"]
  /\ Reply(c, "error")
  /\ UNCHANGED <<activeCommand, proc, env>>

\* A request this machine cannot run: cwd, shell plan, launcher, spawn, or the
\* sandbox's pre-flight.  The error follows in the same turn.
Refuse(c, m) ==
  /\ Frame(c) /\ activeCommand = None
  /\ cmd' = [cmd EXCEPT ![c] = [NoCommand EXCEPT !.mode = m, !.sent = TRUE, !.settled = TRUE]]
  /\ Reply(c, "error")
  /\ UNCHANGED <<activeCommand, proc, env>>

Accept(c, m, deadline, x) ==
  /\ Frame(c) /\ activeCommand = None
  /\ activeCommand' = c
  /\ cmd' = [cmd EXCEPT ![c] = [NoCommand EXCEPT !.mode = m, !.kill = TRUE,
                                                 !.deadline = deadline]]
  /\ proc' = [proc EXCEPT ![c] = x]
  /\ UNCHANGED <<told, env>>

\* startCommand: the process is up, or its spawn error is still to come.
Spawned ==
  {[NoProcess EXCEPT !.st = s, !.hs = IF platform = "win32" THEN Handshake ELSE Off] :
    s \in {"running", "unborn"}}

\* pendingLoginShellPath: the probe of the login shell, begun by the first that asks.
PathPending == pathProbe = "pending"

Exec(c) ==
  \/ Refuse(c, "exec")
  \/ /\ ~PathPending
     /\ \E x \in Spawned : Accept(c, "exec", Timeout, x)
  \/ /\ PathPending
     /\ Accept(c, "exec", Timeout, [NoProcess EXCEPT !.st = "waiting"])

\* assertSafeGroupMembership: the accounts as they are read for this command.
IdentitySafe == identity = "clean"

\* executeSecureCommand: Linux, an allowed argv, and a sandbox user whose
\* uid, gid and groups are safe now; the child starts as root and drops.
SecureExec(c) ==
  \/ Refuse(c, "secure")
  \/ /\ platform = "linux" /\ IdentitySafe
     /\ Accept(c, "secure", Off, [NoProcess EXCEPT !.st = "dropping"])

\* do:kill.
Kill(c) ==
  /\ link # "closed" /\ activeCommand = c /\ cmd[c].kill
  /\ proc' = [proc EXCEPT ![c] = Killed(c, @)]
  /\ cmd' = [cmd EXCEPT ![c].kill = FALSE]
  /\ UNCHANGED <<activeCommand, told, env>>

-----------------------------------------------------------------------------
(* The process and its pipes.                                               *)

ProbeSettles ==
  /\ PathPending /\ pathProbe' = "resolved"
  /\ UNCHANGED <<slot, proc, link, platform, identity>>

\* A kill that came while the start was waiting is final.
\* Mutant: the start forgets the kill.
CancelledEarly_Forgotten(c) == FALSE
CancelledEarly(c) == proc[c].killReq

StartDeferred(c) ==
  /\ proc[c].st = "waiting" /\ ~PathPending
  /\ \/ /\ CancelledEarly(c)
        /\ SettleExec(c, [proc[c] EXCEPT !.st = "gone", !.fail = TRUE])
     \/ /\ ~CancelledEarly(c)
        /\ \/ \E x \in Spawned : proc' = [proc EXCEPT ![c] = x] /\ UNCHANGED slot
           \/ SettleExec(c, [proc[c] EXCEPT !.st = "gone", !.fail = TRUE])
  /\ UNCHANGED env

SpawnFails(c) ==
  /\ proc[c].st = "unborn"
  /\ SettleExec(c, [proc[c] EXCEPT !.st = "gone", !.closed = TRUE, !.fail = TRUE])
  /\ UNCHANGED env

\* secure-exec-drop: initgroups reads /etc/group again; gid 0 left in the
\* groups of the process ends it before the target runs.
\* Mutant: the groups are not looked at after initgroups.
DropHolds_Trusting == TRUE
DropHolds == identity # "root"

Drop(c) ==
  /\ proc[c].st = "dropping"
  /\ proc' = [proc EXCEPT ![c] = [@ EXCEPT !.st = IF DropHolds THEN "running" ELSE "exited",
                                           !.user = IF DropHolds THEN identity ELSE "none"]]
  /\ UNCHANGED <<slot, env>>

\* Output on a pipe nobody has detached from.
Listening(x) == x.st \in {"running", "exited"} /\ ~x.settled

Output(c) ==
  /\ Listening(proc[c])
  /\ platform = "win32" => proc[c].ready
  /\ proc' = [proc EXCEPT ![c].quietFor = 0]
  /\ IF proc[c].fail THEN told' = told ELSE Chatter(c, "output")
  /\ UNCHANGED <<activeCommand, cmd, env>>

\* The launcher's first frame on stdout, or what stands in its place.
LauncherAnswers(c) ==
  /\ platform = "win32" /\ Listening(proc[c]) /\ ~proc[c].ready /\ ~proc[c].fail
  /\ \E x \in {[proc[c] EXCEPT !.ready = TRUE, !.hs = Off, !.quietFor = 0],
               SetupFailed([proc[c] EXCEPT !.quietFor = 0])} :
       proc' = [proc EXCEPT ![c] = x]
  /\ UNCHANGED <<slot, env>>

LauncherTimeout(c) ==
  /\ proc[c].hs = 0
  /\ proc' = [proc EXCEPT ![c] = SetupFailed([@ EXCEPT !.hs = Off])]
  /\ UNCHANGED <<slot, env>>

\* The exit event.  From here on the pid is not ours: nothing is signalled.
\* Mutant: only the close event ends the signalling.
Reaped_AtClose(x) == x
Reaped(x) == [x EXCEPT !.closed = TRUE, !.esc = Off]

\* The process ends; a grandchild may hold its pipes, and on Windows the
\* launcher's console stage may have vanished.
Exit(c) ==
  /\ proc[c].st \in {"running", "dropping"}
  /\ \E h, l \in BOOLEAN, q \in 0 .. DrainQuiet :
       /\ l => platform = "win32" /\ proc[c].ready
       /\ LET x == [proc[c] EXCEPT !.st = "exited", !.held = h, !.lost = l]
              y == Drained(c, Reaped(x), q)
          IN IF cmd[c].mode = "secure"
             THEN proc' = [proc EXCEPT ![c] = x] /\ UNCHANGED slot
             ELSE IF y.until <= 0 THEN SettleExec(c, y)
             ELSE proc' = [proc EXCEPT ![c] = y] /\ UNCHANGED slot
  /\ UNCHANGED env

DrainCheck(c) ==
  /\ proc[c].next = 0
  /\ LET x == proc[c]
     IN IF x.quietFor >= x.quiet \/ x.until <= 0 THEN SettleExec(c, x)
        ELSE /\ proc' = [proc EXCEPT ![c].next =
                           Larger(1, Smaller(x.quiet - x.quietFor, x.until))]
             /\ UNCHANGED slot
  /\ UNCHANGED env

SurvivorEnds(c) ==
  /\ proc[c].held
  /\ proc' = [proc EXCEPT ![c].held = FALSE]
  /\ UNCHANGED <<slot, env>>

\* The close event: the process is gone and its pipes are at their end.
Close(c) ==
  /\ proc[c].st = "exited" /\ ~proc[c].held
  /\ SettleExec(c, [proc[c] EXCEPT !.st = "gone", !.closed = TRUE, !.esc = Off,
                                   !.next = Off, !.until = Off])
  /\ UNCHANGED env

-----------------------------------------------------------------------------
(* Timers of the slot, and the end of the connection.                       *)

CommandTimeout(c) ==
  /\ cmd[c].deadline = 0
  /\ cmd' = [cmd EXCEPT ![c].deadline = Off, ![c].sent = TRUE, ![c].kill = FALSE]
  /\ Reply(c, "timeout")
  /\ proc' = IF cmd[c].kill THEN [proc EXCEPT ![c] = Killed(c, @)] ELSE proc
  /\ UNCHANGED <<activeCommand, env>>

Escalate(c) ==
  /\ proc[c].esc = 0
  /\ proc' = [proc EXCEPT ![c] = [(IF @.closed THEN @ ELSE Signal(@, "kill"))
                                   EXCEPT !.esc = Off]]
  /\ UNCHANGED <<slot, env>>

\* Silence for EXEC_IDLE_THRESHOLD_MS, told once per silence (idleReported is
\* that the last frame was the notice).
IdleNotice(c) ==
  /\ activeCommand = c /\ told[c].last # "idle"
  /\ Chatter(c, "idle")
  /\ UNCHANGED <<activeCommand, cmd, proc, env>>

\* abortActiveCommand: no reply, the slot is free at once, the process is killed.
\* Mutant: the slot is freed without killing.
Abort_Abandon ==
  IF activeCommand = None THEN UNCHANGED <<slot, proc>>
  ELSE /\ cmd' = [cmd EXCEPT ![activeCommand] =
                    [@ EXCEPT !.sent = TRUE, !.settled = TRUE, !.kill = FALSE, !.deadline = Off]]
       /\ activeCommand' = None
       /\ UNCHANGED <<told, proc>>
Abort ==
  IF activeCommand = None THEN UNCHANGED <<slot, proc>>
  ELSE /\ cmd' = [cmd EXCEPT ![activeCommand] =
                    [@ EXCEPT !.sent = TRUE, !.settled = TRUE, !.kill = FALSE, !.deadline = Off]]
       /\ activeCommand' = None
       /\ proc' = IF cmd[activeCommand].kill
                  THEN [proc EXCEPT ![activeCommand] = Killed(activeCommand, @)] ELSE proc
       /\ UNCHANGED told

\* The connection's promise is decided (doResolve, doReject); the socket's
\* close event may still be to come, and frames before it.
Settle ==
  /\ link = "up" /\ link' = "settled" /\ Abort
  /\ UNCHANGED <<platform, pathProbe, identity>>

Closed ==
  /\ link # "closed" /\ link' = "closed" /\ Abort
  /\ UNCHANGED <<platform, pathProbe, identity>>

\* An administrator edits the accounts after the pre-flight (an edit before it
\* is a refusal).
EditAccounts ==
  /\ identity = "clean" /\ identity' = "root"
  /\ \E c \in Command : proc[c].st = "dropping"
  /\ UNCHANGED <<slot, proc, link, platform, pathProbe>>

Timers(c) == {cmd[c].deadline, proc[c].esc, proc[c].hs, proc[c].next}
Less(t) == IF t > 0 THEN t - 1 ELSE t

Tick ==
  /\ \A c \in Command : 0 \notin Timers(c)
  /\ \E c \in Command : Timers(c) # {Off}
  /\ cmd' = [c \in Command |-> [cmd[c] EXCEPT !.deadline = Less(@)]]
  /\ proc' = [c \in Command |->
       [proc[c] EXCEPT !.esc = Less(@), !.hs = Less(@), !.next = Less(@), !.until = Less(@),
                       !.quietFor = IF proc[c].next = Off THEN 0 ELSE Smaller(DrainQuiet, @ + 1)]]
  /\ UNCHANGED <<activeCommand, told, env>>

-----------------------------------------------------------------------------
Init ==
  /\ activeCommand = None
  /\ cmd = [c \in Command |-> NoCommand]
  /\ proc = [c \in Command |-> NoProcess]
  /\ told = [c \in Command |-> [replies |-> <<>>, last |-> "output"]]
  /\ link = "up"
  /\ platform \in Platform
  /\ pathProbe = IF platform = "darwin" THEN "pending" ELSE "resolved"
  /\ identity = IF platform = "linux" THEN "clean" ELSE "absent"

Next ==
  \/ ProbeSettles \/ Settle \/ Closed \/ EditAccounts \/ Tick
  \/ \E c \in Command :
       \/ Busy(c) \/ Exec(c) \/ SecureExec(c) \/ Kill(c)
       \/ StartDeferred(c) \/ SpawnFails(c) \/ Drop(c) \/ Output(c)
       \/ LauncherAnswers(c) \/ LauncherTimeout(c) \/ Exit(c) \/ DrainCheck(c)
       \/ SurvivorEnds(c) \/ Close(c)
       \/ CommandTimeout(c) \/ Escalate(c) \/ IdleNotice(c)

Spec == Init /\ [][Next]_vars

\* The event loop runs what is due: timers (of which a Tick makes finitely many
\* due) and callbacks (finitely many for a command).  A killed process ends.
Clock ==
  \/ Tick
  \/ \E c \in Command :
       DrainCheck(c) \/ LauncherTimeout(c) \/ CommandTimeout(c) \/ Escalate(c)
Callback ==
  \/ ProbeSettles
  \/ \E c \in Command :
       \/ StartDeferred(c) \/ SpawnFails(c) \/ Drop(c) \/ Close(c)
       \/ proc[c].sig = "kill" /\ Exit(c)

FairSpec == Spec /\ WF_vars(Clock) /\ WF_vars(Callback)

-----------------------------------------------------------------------------
\* The relay gets one terminal frame for a command, and nothing after it: not
\* from the executor after a timeout, not from an idle check, not from a pipe.
TerminalIsLast ==
  \A c \in Command :
    LET t == told[c]
    IN Len(t.replies) <= 1 /\ (t.replies # <<>> => t.last = "terminal")

\* A command whose exit the agent has seen is never reported as timed out
\* (executor.ts: the drain ends before the caller's deadline).
NoFalseTimeout ==
  [][\A c \in Command :
       told'[c].replies # told[c].replies /\ told'[c].replies[Len(told'[c].replies)] = "timeout"
         => proc[c].st \notin {"exited", "gone"}]_vars

\* do:exec signals a process group only while its leader has not been reaped:
\* afterwards the number may belong to somebody else.
NoSignalAfterReap ==
  [][\A c \in Command :
       cmd[c].mode = "exec" /\ proc[c].st \in {"exited", "gone"} => proc'[c].sig = proc[c].sig]_vars

\* Nothing starts to run after the caller was told it is over, and the target
\* of a sandboxed command never runs with root's groups.
NoLateStart ==
  [][\A c \in Command :
       proc[c].st = "waiting" /\ proc'[c].st \in {"running", "unborn"} => ~cmd[c].sent]_vars
SandboxHolds == \A c \in Command : proc[c].user # "root"

\* The end of the connection ends every command it started.
LinkEndKills ==
  link = "closed" ~> \A c \in Command : proc[c].st \notin {"waiting", "unborn", "dropping", "running"}

\* A do:exec gives the slot back by its deadline and the kill that follows.
SlotReleased ==
  \A c \in Command : (activeCommand = c /\ cmd[c].mode = "exec") ~> activeCommand # c
=============================================================================
