------------------------------- MODULE Elevated -------------------------------
(***************************************************************************)
(* Elevated execution: the agent's half (connection.ts reconcileElevated,   *)
(* elevated-availability.ts, elevated-executor.ts) and the privileged       *)
(* helper (helper.ts, lease-manager.ts, capability-verify.ts, executor.ts,  *)
(* transport.ts).                                                           *)
(*                                                                          *)
(* The relay binds a capability to the boot of the helper the agent has     *)
(* advertised.  The helper may restart at any time, so what is advertised,  *)
(* what a probe has seen and what a capability names can be of different    *)
(* boots.  A connection of the agent to the helper carries one command.     *)
(*                                                                          *)
(* Signatures hold; one verification reads the clock once, and finds the   *)
(* capability expired or not.  Escalation and drain are countdowns.         *)
(***************************************************************************)
EXTENDS Integers

CONSTANTS
  MaxConn,    \* bound on the agent's connections to the helper, one command each
  MaxBoot,    \* bound on the helper's starts
  Endpoints,  \* how many candidate endpoints a discovery walks
  Attempts,   \* passes over the list before a discovery gives up
  HardGrace,  \* HARD_KILL_GRACE_MS
  SoftGrace,  \* KILL_ESCALATION_MS
  Drain       \* SHUTDOWN_DRAIN_MS

ASSUME BoundAssumption == {MaxConn, MaxBoot, Endpoints, Attempts} \subseteq Nat \ {0}
ASSUME GraceAssumption ==
  /\ {HardGrace, SoftGrace, Drain} \subseteq Nat \ {0}
  /\ HardGrace < Drain

VARIABLES
  helper,     \* the helper process: its boot, state and drain
  seen,       \* ReplayGuard of this boot
  cap,        \* the boot the relay's capability is bound to, 0 before it is minted
  conn,       \* both ends of each connection, and its command
  active,     \* the connection of the command in the agent's slot
  link,       \* the relay connection of the agent
  registered, \* registeredBootId, 0 for no helper
  rec         \* the reconcile in flight

vars == <<helper, seen, cap, conn, active, link, registered, rec>>

Listening == helper.st \in {"up", "draining"}

Boot == 1 .. MaxBoot
Conn == 1 .. MaxConn
None == 0
Off == -1
Idle == [pc |-> "idle", stale |-> FALSE, answers |-> {}, left |-> 0]
NoRun == [st |-> "none", sig |-> "none", esc |-> Off, told |-> FALSE, lease |-> FALSE]
NoConn == [agent |-> "none", open |-> FALSE, boot |-> 0, exec |-> "none", kill |-> "none",
           cancelled |-> FALSE, reply |-> FALSE, run |-> NoRun]

-----------------------------------------------------------------------------
(* What the agent advertises.                                               *)

\* staticElevatedUnavailableReason: the helper's files may be missing (an
\* installer, an antivirus) while no helper runs.
FilesMissing == {FALSE, ~Listening}

\* registeredBootId of a connection that has advertised no helper.
NoHelper == 0

\* sendRegister: whatever is being probed is older than this frame.  Without a
\* helper (0) the frame says why; the reason is only ever words.
SendRegister(boot) ==
  /\ registered' = boot
  /\ rec' = [rec EXCEPT !.stale = rec.pc # "idle"]

LinkUp ==
  /\ link = "down" /\ link' = "up"
  /\ registered' = NoHelper /\ rec' = Idle
  /\ UNCHANGED <<helper, seen, cap, conn, active>>

\* resolveElevatedAvailability: without the files there is nothing to probe.
ReconcileStart ==
  /\ link = "up" /\ rec.pc = "idle"
  /\ \E missing \in FilesMissing :
       rec' = [Idle EXCEPT !.pc = "probing",
                           !.left = IF missing THEN 0 ELSE Endpoints * Attempts]
  /\ UNCHANGED <<helper, seen, cap, conn, active, link, registered>>

\* A pass nobody answered is repeated after a delay.
Discovered == rec.pc = "probing" /\ rec.left % Endpoints = 0 /\ (rec.answers # {} \/ rec.left = 0)

\* probeHelperHello on the next endpoint; a helper binds every one of them.
Probe ==
  /\ rec.pc = "probing" /\ ~Discovered
  /\ rec' = [rec EXCEPT !.left = @ - 1,
                        !.answers = IF Listening THEN @ \cup {helper.boot} ELSE @]
  /\ UNCHANGED <<helper, seen, cap, conn, active, link, registered>>

\* The verdict of a finished discovery: endpoints that answer with different
\* boots are no helper, like endpoints that do not answer.
Found ==
  IF \E b \in Boot : rec.answers = {b} THEN CHOOSE b \in Boot : rec.answers = {b} ELSE NoHelper

\* Mutant: a result that was overtaken by another register is used.
Overtaken_Ignored == FALSE
Overtaken == rec.stale

\* Mutant: a helper that is already advertised is taken for unchanged.
Changed_NewOnly == IF Found # 0 THEN registered = 0 ELSE registered # 0
Changed == registered # Found

ReconcileDecide ==
  /\ Discovered
  /\ registered' = IF ~Overtaken /\ Changed THEN Found ELSE registered
  /\ rec' = Idle
  /\ UNCHANGED <<helper, seen, cap, conn, active, link>>

-----------------------------------------------------------------------------
(* The relay.                                                               *)

Mint ==
  /\ cap = 0 /\ link = "up" /\ registered # NoHelper
  /\ cap' = registered
  /\ UNCHANGED <<helper, seen, conn, active, link, registered, rec>>

-----------------------------------------------------------------------------
(* The agent's end of a command.                                            *)

\* do:elevated_exec into a free slot, the first time or again.
ElevatedExec(k) ==
  /\ cap # 0 /\ link = "up" /\ active = None /\ conn[k].agent = "none"
  /\ \A j \in Conn : j < k => conn[j].agent # "none"
  /\ active' = k /\ conn' = [conn EXCEPT ![k].agent = "connecting"]
  /\ UNCHANGED <<helper, seen, cap, link, registered, rec>>

Freed(k) == IF active = k THEN None ELSE active

\* hello, hello-ok and onBootId, then the exec frame.  Nobody listening, or a
\* helper of another protocol version, is an error.
Connect(k) ==
  /\ conn[k].agent = "connecting"
  /\ IF Listening
     THEN /\ conn' = [conn EXCEPT ![k] = [@ EXCEPT !.agent = "sent", !.open = TRUE,
                                                   !.boot = helper.boot, !.exec = "wire"]]
          /\ IF link = "up" /\ helper.boot # registered
             THEN SendRegister(helper.boot) ELSE UNCHANGED <<registered, rec>>
          /\ UNCHANGED active
     ELSE /\ conn' = [conn EXCEPT ![k].agent = "settled"] /\ active' = Freed(k)
          /\ UNCHANGED <<registered, rec>>
  /\ UNCHANGED <<helper, seen, cap, link>>

\* RunningCommand.kill: before the exec frame the command never starts.
AgentKilled(x) ==
  IF x.agent = "connecting" THEN [x EXCEPT !.agent = "settled"]
  ELSE IF x.agent = "sent" /\ x.kill = "none" THEN [x EXCEPT !.kill = "wire"] ELSE x

KillCommand ==
  /\ link = "up" /\ active # None /\ conn[active].kill = "none"
  /\ conn' = [conn EXCEPT ![active] = AgentKilled(@)]
  /\ active' = IF conn[active].agent = "connecting" THEN None ELSE active
  /\ UNCHANGED <<helper, seen, cap, link, registered, rec>>

\* The relay connection ends: the slot is given up, the command is killed, and
\* a reconcile in flight finds itself settled.
LinkDown ==
  /\ link = "up" /\ link' = "down" /\ active' = None /\ rec' = Idle
  /\ conn' = IF active = None THEN conn ELSE [conn EXCEPT ![active] = AgentKilled(@)]
  /\ UNCHANGED <<helper, seen, cap, registered>>

\* The agent process ends, and its sockets with it.
AgentDies ==
  /\ link' = "down" /\ active' = None /\ rec' = Idle
  /\ conn' = [k \in Conn |-> [conn[k] EXCEPT !.agent =
                              IF @ \in {"connecting", "sent"} THEN "settled" ELSE @]]
  /\ UNCHANGED <<helper, seen, cap, registered>>

\* done, error, or the end of the socket: settled, and the socket destroyed.
AgentSettles(k) ==
  /\ conn[k].agent = "sent"
  /\ conn[k].reply \/ ~conn[k].open
  /\ conn' = [conn EXCEPT ![k].agent = "settled", ![k].reply = FALSE] /\ active' = Freed(k)
  /\ UNCHANGED <<helper, seen, cap, link, registered, rec>>

-----------------------------------------------------------------------------
(* The helper's end of a connection.                                        *)

\* conn.send does nothing on a closed connection; onDone/onError come once.
Replied(x) == IF x.open THEN [x EXCEPT !.reply = TRUE] ELSE x
Reported(x) ==
  IF x.run.told THEN x
  ELSE LET y == Replied(x) IN [y EXCEPT !.run.told = TRUE]

\* killTree: a hard kill shortens the grace of a soft one.
\* Mutant: a pending escalation is left as it is.
KillTree_NoUpgrade(x, hard) ==
  [x EXCEPT !.run.sig = IF @ = "kill" THEN @ ELSE "term",
            !.run.esc = IF @ # Off THEN @ ELSE IF hard THEN HardGrace ELSE SoftGrace]
KillTree(x, hard) ==
  [x EXCEPT !.run.sig = IF @ = "kill" THEN @ ELSE "term",
            !.run.esc = IF @ # Off /\ ~hard THEN @ ELSE IF hard THEN HardGrace ELSE SoftGrace]

\* LeaseManager.kill / releaseAll: a leased command is signalled and stays leased.
LeaseKill(x, hard) ==
  IF x.run.lease THEN KillTree(x, hard) ELSE x

Serving(k) == Listening /\ conn[k].open /\ conn[k].boot = helper.boot

ExecFrame(k) ==
  /\ Serving(k) /\ conn[k].exec = "wire"
  /\ conn' = [conn EXCEPT ![k] =
                IF helper.st = "draining" THEN Replied([@ EXCEPT !.exec = "done"])
                ELSE [@ EXCEPT !.exec = "verifying"]]
  /\ UNCHANGED <<helper, seen, cap, active, link, registered, rec>>

KillFrame(k) ==
  /\ Serving(k) /\ conn[k].kill = "wire" /\ conn[k].exec # "wire"
  /\ conn' = [conn EXCEPT ![k] =
                LeaseKill([@ EXCEPT !.kill = "done",
                                    !.cancelled = conn[k].cancelled \/ conn[k].exec = "verifying"],
                          FALSE)]
  /\ UNCHANGED <<helper, seen, cap, active, link, registered, rec>>

\* verifyElevatedCapability: signed by the relay, and not expired.
Signed(expired) == cap # 0 /\ ~expired
\* ReplayGuard.claim
Unused == ~seen

\* verifyCapabilityForExec: valid, of this boot, and never used before.
Verified(expired) == Signed(expired) /\ cap = helper.boot /\ Unused

\* What may have changed while the signature was awaited.
\* Mutant: the cancellation is not looked at again.
StillWanted_Unchecked(k) == helper.st = "up"
StillWanted(k) == conn[k].open /\ ~conn[k].cancelled /\ helper.st = "up"

\* The rest of handleExec.  The capability is used up before it is asked
\* whether anybody still wants it.
HandleExec(k) ==
  /\ Listening /\ conn[k].exec = "verifying" /\ conn[k].boot = helper.boot
  /\ \E expired, spawned \in BOOLEAN :
       LET ok == Verified(expired)
           x == [conn[k] EXCEPT !.exec = "done", !.cancelled = FALSE]
       IN /\ seen' = (seen \/ ok)
          /\ conn' = [conn EXCEPT ![k] =
               IF ok /\ StillWanted(k) /\ spawned
               THEN [x EXCEPT !.run = [NoRun EXCEPT !.st = "alive", !.lease = TRUE]]
               ELSE Replied(x)]
  /\ UNCHANGED <<helper, cap, active, link, registered, rec>>

\* The agent's end is gone.
\* Mutant: the commands of the connection are left to themselves.
HangUp_Lenient(x) == [x EXCEPT !.open = FALSE, !.kill = "none"]
HangUp(x) ==
  LeaseKill([x EXCEPT !.open = FALSE, !.kill = "none",
                      !.exec = IF @ = "verifying" THEN @ ELSE "done"], TRUE)

ConnClosed(k) ==
  /\ Serving(k) /\ conn[k].agent = "settled"
  /\ conn' = [conn EXCEPT ![k] = HangUp(@)]
  /\ UNCHANGED <<helper, seen, cap, active, link, registered, rec>>

-----------------------------------------------------------------------------
(* The privileged process.                                                  *)

\* Supervised: the helper that started it is still there.
Supervised(k) == Listening /\ conn[k].boot = helper.boot

\* The close event: timers, lease, and the report if none was made.
ProcessEnds(k) ==
  /\ conn[k].run.st = "alive"
  /\ conn' = [conn EXCEPT ![k] =
       IF ~Supervised(k) THEN [@ EXCEPT !.run.st = "gone"]
       ELSE LET y == Reported(@)
            IN [y EXCEPT !.run = [NoRun EXCEPT !.st = "gone"]]]
  /\ UNCHANGED <<helper, seen, cap, active, link, registered, rec>>

\* Its own deadline, too much output, or a launcher that fails its handshake.
CommandFails(k) ==
  /\ Supervised(k) /\ conn[k].run.st = "alive" /\ ~conn[k].run.told
  /\ conn' = [conn EXCEPT ![k] = Reported(KillTree(@, FALSE))]
  /\ UNCHANGED <<helper, seen, cap, active, link, registered, rec>>

Escalate(k) ==
  /\ Supervised(k) /\ conn[k].run.esc = 0
  /\ conn' = [conn EXCEPT ![k].run.sig = "kill", ![k].run.esc = Off]
  /\ UNCHANGED <<helper, seen, cap, active, link, registered, rec>>

-----------------------------------------------------------------------------
(* The life of the helper.                                                  *)

\* stop(): no new command, a hard kill for every lease, then the drain.
Stop ==
  /\ helper.st = "up"
  /\ helper' = [helper EXCEPT !.st = "draining", !.left = Drain]
  /\ conn' = [k \in Conn |-> LeaseKill(conn[k], TRUE)]
  /\ UNCHANGED <<seen, cap, active, link, registered, rec>>

Gone(st) ==
  /\ helper' = [helper EXCEPT !.st = st, !.left = Off]
  /\ conn' = [k \in Conn |-> [conn[k] EXCEPT !.open = FALSE, !.exec = "none", !.kill = "none",
                                             !.cancelled = FALSE,
                                             !.run = [NoRun EXCEPT !.st = conn[k].run.st]]]
  /\ UNCHANGED <<seen, cap, active, link, registered, rec>>

DrainEnds == helper.st = "draining" /\ helper.left = 0 /\ Gone("stopped")
HelperCrash == Listening /\ Gone("crashed")

\* A new boot id, an empty ReplayGuard, no leases.
HelperStart ==
  /\ ~Listening /\ helper.boot < MaxBoot
  /\ helper' = [st |-> "up", boot |-> helper.boot + 1, left |-> Off]
  /\ seen' = FALSE
  /\ UNCHANGED <<cap, conn, active, link, registered, rec>>

Less(t) == IF t > 0 THEN t - 1 ELSE t

\* Nothing due is left undone, and a process that was sent SIGKILL ends at once.
Tick ==
  /\ helper.left # 0 /\ \A k \in Conn : conn[k].run.esc # 0
  /\ helper.left > 0 \/ \E k \in Conn : conn[k].run.esc > 0
  /\ \A k \in Conn : ~(conn[k].run.st = "alive" /\ conn[k].run.sig = "kill")
  /\ helper' = [helper EXCEPT !.left = Less(@)]
  /\ conn' = [k \in Conn |-> [conn[k] EXCEPT !.run.esc = Less(@)]]
  /\ UNCHANGED <<seen, cap, active, link, registered, rec>>

-----------------------------------------------------------------------------
Init ==
  /\ helper = [st |-> "stopped", boot |-> 0, left |-> Off]
  /\ seen = FALSE
  /\ cap = 0
  /\ conn = [k \in Conn |-> NoConn]
  /\ active = None
  /\ link = "down" /\ registered = NoHelper /\ rec = Idle

Reconcile == ReconcileStart \/ Probe \/ ReconcileDecide

Next ==
  \/ LinkUp \/ LinkDown \/ AgentDies \/ Reconcile \/ Mint \/ KillCommand
  \/ Stop \/ DrainEnds \/ HelperCrash \/ HelperStart \/ Tick
  \/ \E k \in Conn :
       \/ ElevatedExec(k) \/ Connect(k) \/ AgentSettles(k)
       \/ ExecFrame(k) \/ KillFrame(k) \/ HandleExec(k) \/ ConnClosed(k)
       \/ ProcessEnds(k) \/ CommandFails(k) \/ Escalate(k)

Spec == Init /\ [][Next]_vars

\* The reconcile runs every minute; sockets deliver, timers fire, and a process
\* that was sent SIGKILL ends.
Work ==
  \/ Tick \/ DrainEnds
  \/ \E k \in Conn :
       \/ Connect(k) \/ AgentSettles(k) \/ ExecFrame(k) \/ KillFrame(k) \/ HandleExec(k)
       \/ ConnClosed(k) \/ Escalate(k)
       \/ conn[k].run.sig = "kill" /\ ProcessEnds(k)

FairSpec == Spec /\ WF_vars(Reconcile) /\ WF_vars(Work)

-----------------------------------------------------------------------------
\* The agent never goes back from a boot it advertised to an older one: a
\* probe that was overtaken by onBootId is discarded (registerEpoch).
AdvertisedNeverOlder ==
  [][(registered' # 0 /\ link = "up" /\ link' = "up")
       => registered' >= registered]_vars

\* Once a helper and the relay connection stay up, the relay ends up with the
\* helper's boot and keeps it.
AdvertisesHelper ==
  <>[](helper.st = "up" /\ link = "up") => <>[](registered = helper.boot)

\* A privileged process starts for a capability of this boot that was not used
\* before, on a connection that is still there and not killed, and never
\* while the helper is being stopped.
StartIsAuthorized ==
  [][\A k \in Conn :
       conn[k].run.st = "none" /\ conn'[k].run.st = "alive" =>
         /\ cap = helper.boot
         /\ conn[k].open /\ conn[k].kill # "done" /\ helper.st = "up"
         /\ \A j \in Conn : conn[j].boot = helper.boot => conn[j].run.st = "none"]_vars

\* While the helper drains, SIGKILL is sent or due for every process it still
\* runs: none was let go of when its command was reported as failed.
DrainReachesAll ==
  helper.st = "draining" =>
    \A k \in Conn : conn[k].boot = helper.boot /\ conn[k].run.st = "alive" =>
      conn[k].run.sig = "kill" \/ conn[k].run.esc \in 0 .. HardGrace

\* "Even a SIGTERM-ignoring child is dead before process.exit" (helper.ts): a
\* helper that was stopped leaves no privileged process behind.
NoOrphan ==
  helper.st = "stopped" =>
    \A k \in Conn : conn[k].boot = helper.boot => conn[k].run.st # "alive"

\* A privileged process does not outlive its connection, unless the helper goes: again
\* and again there is none without its connection.  (One that has gone, or has lost its
\* helper, never is again, so none stays.)
EndsWithItsConnection ==
  []<>(\A k \in Conn : ~(conn[k].run.st = "alive" /\ conn[k].agent = "settled" /\ Supervised(k)))
=============================================================================
