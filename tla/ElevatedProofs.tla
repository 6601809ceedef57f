---------------------------- MODULE ElevatedProofs ----------------------------
(***************************************************************************)
(* Elevated execution: what the agent advertises, what the helper starts, and  *)
(* what a helper that stops does to the processes it runs.  For any number of *)
(* connections, restarts of the helper, endpoints and graces.                *)
(***************************************************************************)
EXTENDS Elevated, TLAPS

-----------------------------------------------------------------------------
(* The inductive invariant.                                                  *)

BootOrNone == 0 .. MaxBoot
Countdown == Nat \cup {Off}

RunRecord ==
  [st : {"none", "alive", "gone"}, sig : {"none", "term", "kill"}, esc : Countdown,
   told : BOOLEAN, lease : BOOLEAN]
ConnRecord ==
  [agent : {"none", "connecting", "sent", "settled"}, open : BOOLEAN, boot : BootOrNone,
   exec : {"none", "wire", "verifying", "done"}, kill : {"none", "wire", "done"},
   cancelled : BOOLEAN, reply : BOOLEAN, run : RunRecord]
HelperRecord ==
  [st : {"up", "draining", "stopped", "crashed"}, boot : BootOrNone, left : Countdown]
ReconcileRecord ==
  [pc : {"idle", "probing"}, stale : BOOLEAN, answers : SUBSET BootOrNone, left : Nat]

ElevatedTypeOK ==
  /\ helper \in HelperRecord /\ seen \in BOOLEAN /\ cap \in BootOrNone
  /\ conn \in [Conn -> ConnRecord] /\ active \in Conn \cup {None}
  /\ link \in {"up", "down"} /\ registered \in BootOrNone /\ rec \in ReconcileRecord

\* A connection nobody has made yet.
Unmade(x) ==
  x.boot = 0 /\ ~x.open /\ x.exec = "none" /\ x.kill = "none" /\ x.run.st = "none" /\ ~x.run.lease

\* A process the helper is about to lose is dead or has its SIGKILL coming.
Doomed(x) == x.run.sig = "kill" \/ x.run.esc \in 0 .. HardGrace

\* A process is this helper's as long as its connection is of this boot: it took the
\* one capability of the boot, and is leased until it is over.
ConnOK(x) ==
  /\ x.agent \in {"none", "connecting"} => Unmade(x)
  /\ x.boot <= helper.boot
  /\ x.kill = "done" => x.exec # "wire" /\ (x.exec = "verifying" => x.cancelled)
  /\ x.boot = helper.boot /\ x.run.st # "none" => seen
  /\ Listening /\ x.boot = helper.boot /\ x.run.st = "alive" => x.run.lease
  /\ helper.st = "draining" /\ x.boot = helper.boot /\ x.run.st = "alive" => Doomed(x)
  /\ Listening /\ x.boot = helper.boot /\ x.run.st = "alive" => x.open \/ Doomed(x)

\* What a probe that nothing has overtaken has seen is no older than what is advertised.
AdvertiseInv ==
  /\ registered <= helper.boot
  /\ rec.pc = "idle" => rec.answers = {}
  /\ \A b \in rec.answers : b <= helper.boot
  /\ ~rec.stale => \A b \in rec.answers : registered <= b

ElevatedInv ==
  /\ ElevatedTypeOK
  /\ AdvertiseInv
  /\ \A k \in Conn : ConnOK(conn[k])

-----------------------------------------------------------------------------
(* What the helper does to the record of a connection.                       *)

LEMMA ElevatedConstants ==
  /\ HardGrace \in Nat /\ SoftGrace \in Nat /\ Drain \in Nat /\ MaxBoot \in Nat
  /\ Endpoints \in Nat \ {0} /\ Attempts \in Nat \ {0} /\ MaxConn \in Nat
BY BoundAssumption, GraceAssumption

LEMMA KillTreeKeeps ==
  ASSUME NEW x \in ConnRecord, ConnOK(x), NEW hard \in BOOLEAN
  PROVE  KillTree(x, hard) \in ConnRecord /\ ConnOK(KillTree(x, hard))
<1> DEFINE y == KillTree(x, hard)
<1>1. /\ y \in ConnRecord
      /\ y.agent = x.agent /\ y.open = x.open /\ y.boot = x.boot /\ y.exec = x.exec /\ y.kill = x.kill
      /\ y.cancelled = x.cancelled /\ y.run.st = x.run.st /\ y.run.lease = x.run.lease
      /\ y.run.sig = IF x.run.sig = "kill" THEN "kill" ELSE "term"
      /\ y.run.esc = IF x.run.esc # Off /\ ~hard THEN x.run.esc ELSE IF hard THEN HardGrace ELSE SoftGrace
  BY ElevatedConstants DEF KillTree, ConnRecord, RunRecord, Countdown
<1>2. Doomed(x) => Doomed(y)
  BY <1>1, ElevatedConstants DEF Doomed, ConnRecord, RunRecord, Countdown, Off
<1> HIDE DEF y
<1>3. ConnOK(y)
  BY <1>1, <1>2 DEF ConnOK, Unmade
<1> QED BY <1>1, <1>3 DEF y

LEMMA LeaseKillKeeps ==
  ASSUME NEW x \in ConnRecord, ConnOK(x), NEW hard \in BOOLEAN
  PROVE  LeaseKill(x, hard) \in ConnRecord /\ ConnOK(LeaseKill(x, hard))
BY KillTreeKeeps DEF LeaseKill

\* A command whose connection is gone gets SIGKILL within the hard grace.
LEMMA HungUp ==
  ASSUME NEW x \in ConnRecord, ConnOK(x), NEW y \in ConnRecord,
         y.agent = "settled", y.kill = "none", y.boot = x.boot, y.run = x.run
  PROVE  LeaseKill(y, TRUE) \in ConnRecord /\ ConnOK(LeaseKill(y, TRUE))
<1> DEFINE z == KillTree(y, TRUE)
<1>1. CASE ~y.run.lease
  BY <1>1 DEF LeaseKill, ConnOK, Doomed
<1>2. CASE y.run.lease
  <2>1. /\ z \in ConnRecord /\ z.agent = y.agent /\ z.kill = y.kill /\ z.boot = y.boot
        /\ z.run.st = y.run.st /\ z.run.lease = y.run.lease /\ z.run.esc = HardGrace
    BY ElevatedConstants DEF KillTree, ConnRecord, RunRecord, Countdown
  <2>2. LeaseKill(y, TRUE) = z
    BY <1>2 DEF LeaseKill
  <2>3. HardGrace \in 0 .. HardGrace
    BY ElevatedConstants
  <2> HIDE DEF z
  <2>4. Doomed(z)
    BY <2>1, <2>3 DEF Doomed
  <2>5. ConnOK(z)
    BY <2>1, <2>4 DEF ConnOK
  <2> QED BY <2>1, <2>2, <2>5
<1> QED BY <1>1, <1>2

LEMMA RepliedKeeps ==
  ASSUME NEW x \in ConnRecord, ConnOK(x)
  PROVE  Replied(x) \in ConnRecord /\ ConnOK(Replied(x))
BY DEF Replied, ConnRecord, ConnOK, Unmade, Doomed

LEMMA ReportedKeeps ==
  ASSUME NEW x \in ConnRecord, ConnOK(x)
  PROVE  Reported(x) \in ConnRecord /\ ConnOK(Reported(x)) /\ Reported(x).agent = x.agent
         /\ Reported(x).boot = x.boot /\ Reported(x).kill = x.kill /\ Reported(x).exec = x.exec
         /\ Reported(x).cancelled = x.cancelled
<1>1. CASE x.run.told
  BY <1>1 DEF Reported
<1>2. CASE ~x.run.told
  <2> DEFINE y == Replied(x)
  <2>1. y \in ConnRecord /\ ConnOK(y) /\ y.agent = x.agent /\ y.boot = x.boot /\ y.kill = x.kill
        /\ y.exec = x.exec /\ y.cancelled = x.cancelled
    BY RepliedKeeps DEF Replied, ConnRecord
  <2>2. Reported(x) = [y EXCEPT !.run.told = TRUE]
    BY <1>2 DEF Reported
  <2> HIDE DEF y
  <2>3. [y EXCEPT !.run.told = TRUE] \in ConnRecord
    BY <2>1 DEF ConnRecord, RunRecord
  <2>4. ConnOK([y EXCEPT !.run.told = TRUE])
    BY <2>1 DEF ConnOK, Unmade, Doomed, ConnRecord, RunRecord
  <2> QED BY <2>1, <2>2, <2>3, <2>4 DEF ConnRecord, RunRecord
<1> QED BY <1>1, <1>2

\* A step that changes one connection, and nothing of the helper.
LEMMA ConnStep ==
  ASSUME ElevatedInv, ElevatedTypeOK', AdvertiseInv', UNCHANGED helper, seen => seen',
         NEW k \in Conn, \A j \in Conn \ {k} : conn'[j] = conn[j], ConnOK(conn[k])'
  PROVE  ElevatedInv'
<1>1. ASSUME NEW j \in Conn \ {k} PROVE ConnOK(conn[j])'
  <2>1. conn'[j] = conn[j] /\ ConnOK(conn[j])
    BY DEF ElevatedInv
  <2> QED BY <2>1 DEF ConnOK, Unmade, Doomed, Listening
<1> QED BY <1>1 DEF ElevatedInv

\* A step that changes one connection alone, to a record that is in order.
LEMMA ConnReplaced ==
  ASSUME ElevatedInv, UNCHANGED <<helper, seen, cap, link, registered, rec>>,
         active' \in Conn \cup {None},
         NEW k \in Conn, NEW y \in ConnRecord, conn' = [conn EXCEPT ![k] = y], ConnOK(y)
  PROVE  ElevatedInv'
<1>1. ElevatedTypeOK' /\ AdvertiseInv'
  BY DEF ElevatedInv, ElevatedTypeOK, AdvertiseInv
<1>2. conn'[k] = y /\ \A j \in Conn \ {k} : conn'[j] = conn[j]
  BY DEF ElevatedInv, ElevatedTypeOK
<1>3. ConnOK(conn[k])'
  BY <1>2 DEF ConnOK, Unmade, Doomed, Listening
<1> QED BY <1>1, <1>2, <1>3, ConnStep

\* A step that leaves the connections and the helper alone.
LEMMA ConnsAlone ==
  ASSUME ElevatedInv, UNCHANGED <<helper, seen, conn>>, ElevatedTypeOK', AdvertiseInv'
  PROVE  ElevatedInv'
BY DEF ElevatedInv, ConnOK, Unmade, Doomed, Listening

-----------------------------------------------------------------------------
(* The steps of the agent.                                                   *)

LEMMA ElevatedInvInit == Init => ElevatedInv
<1> SUFFICES ASSUME Init PROVE ElevatedInv
  OBVIOUS
<1>1. NoConn \in ConnRecord /\ Unmade(NoConn) /\ NoConn.kill = "none" /\ NoConn.run.st = "none" /\ NoConn.boot = 0
  BY ElevatedConstants DEF NoConn, NoRun, ConnRecord, RunRecord, Countdown, Off, BootOrNone, Unmade
<1>2. /\ helper \in HelperRecord /\ helper.boot = 0 /\ 0 \in BootOrNone
      /\ rec \in ReconcileRecord /\ rec.answers = {}
  BY ElevatedConstants DEF Init, HelperRecord, ReconcileRecord, Idle, BootOrNone, Countdown
<1>3. registered = 0 /\ cap = 0 /\ active = None /\ conn \in [Conn -> ConnRecord] /\ seen = FALSE
      /\ link = "down"
  BY <1>1 DEF Init, NoHelper
<1>4. AdvertiseInv
  BY <1>2, <1>3 DEF AdvertiseInv
<1>5. ElevatedTypeOK
  BY <1>2, <1>3 DEF ElevatedTypeOK
<1> QED BY <1>1, <1>2, <1>4, <1>5, ElevatedConstants DEF Init, ElevatedInv, ConnOK, HelperRecord

LEMMA ReconcileKeeps ==
  ASSUME ElevatedInv, LinkUp \/ Reconcile \/ Mint PROVE ElevatedInv'
<1>t. ElevatedTypeOK /\ AdvertiseInv
  BY DEF ElevatedInv
<1>i. Idle \in ReconcileRecord /\ Idle.pc = "idle" /\ ~Idle.stale /\ Idle.answers = {}
  BY DEF Idle, ReconcileRecord
<1>1. CASE LinkUp
  <2>1. ElevatedTypeOK' /\ AdvertiseInv'
    BY <1>t, <1>i, <1>1, ElevatedConstants
       DEF LinkUp, ElevatedTypeOK, AdvertiseInv, NoHelper, BootOrNone, HelperRecord
  <2> QED BY <1>1, <2>1, ConnsAlone DEF LinkUp
<1>2. CASE ReconcileStart
  <2>1. PICK missing \in FilesMissing :
          rec' = [Idle EXCEPT !.pc = "probing", !.left = IF missing THEN 0 ELSE Endpoints * Attempts]
    BY <1>2 DEF ReconcileStart
  <2>2. Endpoints * Attempts \in Nat
    BY ElevatedConstants
  <2>3. rec' \in ReconcileRecord /\ rec'.pc = "probing" /\ rec'.answers = {}
    BY <2>1, <2>2, <1>i DEF ReconcileRecord
  <2>4. ElevatedTypeOK' /\ AdvertiseInv'
    BY <1>t, <1>2, <2>3 DEF ReconcileStart, ElevatedTypeOK, AdvertiseInv
  <2> QED BY <1>2, <2>4, ConnsAlone DEF ReconcileStart
<1>3. CASE Probe
  <2>1. rec.left # 0
    <3>1. 0 % Endpoints = 0
      BY ElevatedConstants
    <3> QED BY <1>3, <3>1 DEF Probe, Discovered
  <2>s. rec.left - 1 \in Nat /\ rec \in ReconcileRecord /\ helper.boot \in BootOrNone
    BY <1>t, <2>1 DEF ElevatedTypeOK, ReconcileRecord, HelperRecord
  <2>a. rec.answers \cup {helper.boot} \in SUBSET BootOrNone
    BY <2>s DEF ReconcileRecord
  <2>2. /\ rec' \in ReconcileRecord /\ rec'.pc = rec.pc /\ rec'.stale = rec.stale
        /\ rec'.answers \subseteq rec.answers \cup {helper.boot}
    BY <1>3, <2>s, <2>a DEF Probe, ReconcileRecord
  <2>3. rec.pc # "idle" /\ UNCHANGED <<helper, registered>>
    BY <1>3 DEF Probe
  <2>4. helper.boot <= helper.boot /\ registered <= helper.boot
    BY <1>t, <2>s DEF AdvertiseInv, BootOrNone
  <2>5. AdvertiseInv'
    BY <1>t, <2>2, <2>3, <2>4 DEF AdvertiseInv
  <2>6. ElevatedTypeOK'
    BY <1>t, <1>3, <2>2 DEF Probe, ElevatedTypeOK
  <2> QED BY <1>3, <2>5, <2>6, ConnsAlone DEF Probe
<1>4. CASE ReconcileDecide
  <2>1. Found = NoHelper \/ Found \in rec.answers
    BY DEF Found
  <2>2. registered' \in {registered, Found} /\ rec' = Idle
    BY <1>4 DEF ReconcileDecide
  <2>3. rec.answers \subseteq BootOrNone
    BY <1>t DEF ElevatedTypeOK, ReconcileRecord
  <2>4. Found \in BootOrNone /\ Found <= helper.boot
    BY <1>t, <2>1, <2>3, ElevatedConstants
       DEF ElevatedTypeOK, AdvertiseInv, NoHelper, BootOrNone, HelperRecord
  <2>5. ElevatedTypeOK' /\ AdvertiseInv'
    BY <1>t, <1>i, <1>4, <2>2, <2>4 DEF ReconcileDecide, ElevatedTypeOK, AdvertiseInv
  <2> QED BY <1>4, <2>5, ConnsAlone DEF ReconcileDecide
<1>5. CASE Mint
  <2>1. ElevatedTypeOK' /\ AdvertiseInv'
    BY <1>t, <1>5 DEF Mint, ElevatedTypeOK, AdvertiseInv
  <2> QED BY <1>5, <2>1, ConnsAlone DEF Mint
<1> QED BY <1>1, <1>2, <1>3, <1>4, <1>5 DEF Reconcile
LEMMA AgentKilledKeeps ==
  ASSUME NEW x \in ConnRecord, ConnOK(x)
  PROVE  AgentKilled(x) \in ConnRecord /\ ConnOK(AgentKilled(x))
<1>1. CASE x.agent = "connecting"
  BY <1>1 DEF AgentKilled, ConnRecord, ConnOK, Unmade, Doomed
<1>2. CASE x.agent = "sent" /\ x.kill = "none"
  BY <1>2 DEF AgentKilled, ConnRecord, ConnOK, Unmade, Doomed
<1>3. CASE x.agent # "connecting" /\ ~(x.agent = "sent" /\ x.kill = "none")
  BY <1>3 DEF AgentKilled
<1> QED BY <1>1, <1>2, <1>3

LEMMA CommandKeeps ==
  ASSUME ElevatedInv, NEW k \in Conn, ElevatedExec(k) \/ AgentSettles(k) \/ KillCommand PROVE ElevatedInv'
<1>t. ElevatedTypeOK /\ conn[k] \in ConnRecord /\ ConnOK(conn[k]) /\ active \in Conn \cup {None}
  BY DEF ElevatedInv, ElevatedTypeOK
<1>1. CASE ElevatedExec(k)
  <2> DEFINE y == [conn[k] EXCEPT !.agent = "connecting"]
  <2>1. y \in ConnRecord /\ ConnOK(y)
    BY <1>t, <1>1 DEF ElevatedExec, ConnRecord, ConnOK, Unmade, Doomed
  <2> QED BY <1>1, <2>1, ConnReplaced DEF ElevatedExec
<1>2. CASE AgentSettles(k)
  <2> DEFINE y == [conn[k] EXCEPT !.agent = "settled", !.reply = FALSE]
  <2>1. y \in ConnRecord /\ ConnOK(y) /\ Freed(k) \in Conn \cup {None}
    BY <1>t, <1>2 DEF AgentSettles, ConnRecord, ConnOK, Unmade, Doomed, Freed
  <2>2. conn' = [conn EXCEPT ![k] = y]
    BY <1>t, <1>2 DEF AgentSettles, ElevatedTypeOK
  <2> QED BY <1>2, <2>1, <2>2, ConnReplaced DEF AgentSettles
<1>3. CASE KillCommand
  <2>1. active \in Conn
    BY <1>t, <1>3 DEF KillCommand
  <2>2. conn[active] \in ConnRecord /\ ConnOK(conn[active])
    BY <2>1 DEF ElevatedInv, ElevatedTypeOK
  <2>3. AgentKilled(conn[active]) \in ConnRecord /\ ConnOK(AgentKilled(conn[active]))
    BY <2>2, AgentKilledKeeps
  <2>4. /\ conn' = [conn EXCEPT ![active] = AgentKilled(conn[active])]
        /\ active' \in Conn \cup {None} /\ UNCHANGED <<helper, seen, cap, link, registered, rec>>
    BY <2>1, <1>3 DEF KillCommand
  <2> QED BY <2>1, <2>3, <2>4, ConnReplaced
<1> QED BY <1>1, <1>2, <1>3

LEMMA ConnectKeeps ==
  ASSUME ElevatedInv, NEW k \in Conn, Connect(k) PROVE ElevatedInv'
<1>t. ElevatedTypeOK /\ AdvertiseInv /\ conn[k] \in ConnRecord /\ ConnOK(conn[k])
  BY DEF ElevatedInv, ElevatedTypeOK
<1>f. Freed(k) \in Conn \cup {None}
  BY <1>t DEF Freed, ElevatedTypeOK
<1>1. CASE Listening
  <2> DEFINE y == [conn[k] EXCEPT !.agent = "sent", !.open = TRUE, !.boot = helper.boot, !.exec = "wire"]
  <2>0. helper.boot \in BootOrNone /\ helper.boot \in Int
    BY <1>t DEF ElevatedTypeOK, HelperRecord, BootOrNone
  <2>1. y \in ConnRecord /\ y.agent = "sent" /\ y.boot = helper.boot /\ y.kill = "none" /\ y.run.st = "none"
    BY <1>t, <1>1, <2>0 DEF Connect, ConnRecord, ConnOK, Unmade
  <2>2. conn' = [conn EXCEPT ![k] = y]
    BY <1>1 DEF Connect
  <2> HIDE DEF y
  <2>3. conn'[k] = y /\ (\A j \in Conn \ {k} : conn'[j] = conn[j]) /\ conn' \in [Conn -> ConnRecord]
    BY <1>t, <2>1, <2>2 DEF ElevatedTypeOK
  <2>4. UNCHANGED <<helper, seen, cap, link, active>>
    BY <1>1 DEF Connect
  <2>5. /\ registered' \in {registered, helper.boot}
        /\ rec' = rec \/ (rec' = [rec EXCEPT !.stale = rec.pc # "idle"])
        /\ registered' # registered => rec' = [rec EXCEPT !.stale = rec.pc # "idle"]
    BY <1>1 DEF Connect, SendRegister
  <2>6. /\ rec' \in ReconcileRecord /\ rec'.pc = rec.pc /\ rec'.answers = rec.answers
        /\ (rec'.stale = rec.stale /\ registered' = registered) \/ rec'.stale \/ rec.answers = {}
    BY <1>t, <2>5 DEF ElevatedTypeOK, AdvertiseInv, ReconcileRecord
  <2>7. ElevatedTypeOK' /\ AdvertiseInv'
    BY <1>t, <2>0, <2>3, <2>4, <2>5, <2>6 DEF ElevatedTypeOK, AdvertiseInv
  <2>8. ConnOK(conn[k])'
    BY <2>0, <2>1, <2>3, <2>4 DEF ConnOK
  <2> QED BY <2>3, <2>4, <2>7, <2>8, ConnStep
<1>2. CASE ~Listening
  <2> DEFINE y == [conn[k] EXCEPT !.agent = "settled"]
  <2>1. y \in ConnRecord /\ ConnOK(y)
    BY <1>t DEF ConnRecord, ConnOK, Unmade, Doomed
  <2>2. conn' = [conn EXCEPT ![k] = y]
    BY <1>2 DEF Connect
  <2> QED BY <1>2, <1>f, <2>1, <2>2, ConnReplaced DEF Connect
<1> QED BY <1>1, <1>2

LEMMA AgentGoneKeeps ==
  ASSUME ElevatedInv, LinkDown \/ AgentDies PROVE ElevatedInv'
<1>t. ElevatedTypeOK /\ AdvertiseInv
  BY DEF ElevatedInv
<1>i. Idle \in ReconcileRecord /\ Idle.pc = "idle" /\ ~Idle.stale /\ Idle.answers = {}
  BY DEF Idle, ReconcileRecord
<1>1. /\ link' = "down" /\ active' = None /\ rec' = Idle /\ UNCHANGED <<helper, seen, cap, registered>>
  BY DEF LinkDown, AgentDies
<1>2. AdvertiseInv'
  BY <1>t, <1>i, <1>1 DEF AdvertiseInv
<1>3. ASSUME conn' \in [Conn -> ConnRecord], \A j \in Conn : ConnOK(conn'[j])
      PROVE  ElevatedInv'
  <2>1. ElevatedTypeOK'
    BY <1>t, <1>i, <1>1, <1>3 DEF ElevatedTypeOK
  <2>2. ASSUME NEW j \in Conn PROVE ConnOK(conn[j])'
    BY <1>1, <1>3 DEF ConnOK, Unmade, Doomed, Listening
  <2> QED BY <1>2, <2>1, <2>2 DEF ElevatedInv
<1>4. CASE LinkDown
  <2>1. CASE active = None
    BY <1>3, <1>4, <2>1 DEF LinkDown, ElevatedInv, ElevatedTypeOK
  <2>2. CASE active # None
    <3>1. active \in Conn /\ conn[active] \in ConnRecord /\ ConnOK(conn[active])
      BY <2>2 DEF ElevatedInv, ElevatedTypeOK
    <3>2. AgentKilled(conn[active]) \in ConnRecord /\ ConnOK(AgentKilled(conn[active]))
      BY <3>1, AgentKilledKeeps
    <3>3. conn' = [conn EXCEPT ![active] = AgentKilled(conn[active])]
      BY <1>4, <2>2 DEF LinkDown
    <3>4. conn' \in [Conn -> ConnRecord] /\ \A j \in Conn : ConnOK(conn'[j])
      BY <3>1, <3>2, <3>3 DEF ElevatedInv, ElevatedTypeOK
    <3> QED BY <1>3, <3>4
  <2> QED BY <2>1, <2>2
<1>5. CASE AgentDies
  <2>1. ASSUME NEW j \in Conn
        PROVE  /\ conn'[j] = [conn[j] EXCEPT !.agent =
                                IF conn[j].agent \in {"connecting", "sent"} THEN "settled" ELSE conn[j].agent]
               /\ conn'[j] \in ConnRecord /\ ConnOK(conn'[j])
    <3>1. conn[j] \in ConnRecord /\ ConnOK(conn[j])
      BY DEF ElevatedInv, ElevatedTypeOK
    <3>2. conn'[j] = [conn[j] EXCEPT !.agent =
                        IF conn[j].agent \in {"connecting", "sent"} THEN "settled" ELSE conn[j].agent]
      BY <1>5 DEF AgentDies
    <3>3. CASE conn[j].agent \in {"connecting", "sent"}
      <4>1. conn'[j] = [conn[j] EXCEPT !.agent = "settled"]
        BY <3>2, <3>3
      <4> QED BY <3>1, <3>2, <4>1 DEF ConnRecord, ConnOK, Unmade, Doomed
    <3>4. CASE conn[j].agent \notin {"connecting", "sent"}
      <4>1. conn'[j] = conn[j]
        BY <3>1, <3>2, <3>4 DEF ConnRecord
      <4> QED BY <3>1, <3>2, <4>1
    <3> QED BY <3>3, <3>4
  <2>2. conn' \in [Conn -> ConnRecord]
    BY <1>5, <2>1 DEF AgentDies
  <2> QED BY <1>3, <2>1, <2>2
<1> QED BY <1>4, <1>5

-----------------------------------------------------------------------------
(* The steps of the helper.                                                  *)

LEMMA FramesKeep ==
  ASSUME ElevatedInv, NEW k \in Conn, ExecFrame(k) \/ KillFrame(k) \/ ConnClosed(k)
  PROVE  ElevatedInv'
<1>t. ElevatedTypeOK /\ conn[k] \in ConnRecord /\ ConnOK(conn[k]) /\ active \in Conn \cup {None}
  BY DEF ElevatedInv, ElevatedTypeOK
<1>1. CASE ExecFrame(k)
  <2> DEFINE y == [conn[k] EXCEPT !.exec = "done"]
             z == [conn[k] EXCEPT !.exec = "verifying"]
  <2>1. conn[k].agent \notin {"none", "connecting"} /\ conn[k].kill # "done"
    BY <1>t, <1>1 DEF ExecFrame, ConnOK, Unmade
  <2>2. y \in ConnRecord /\ ConnOK(y) /\ z \in ConnRecord /\ ConnOK(z)
    BY <1>t, <2>1 DEF ConnRecord, ConnOK, Unmade, Doomed
  <2>3. conn' = [conn EXCEPT ![k] = Replied(y)] \/ conn' = [conn EXCEPT ![k] = z]
    BY <1>1 DEF ExecFrame
  <2>4. UNCHANGED <<helper, seen, cap, active, link, registered, rec>>
    BY <1>1 DEF ExecFrame
  <2> HIDE DEF y, z
  <2>5. Replied(y) \in ConnRecord /\ ConnOK(Replied(y))
    BY <2>2, RepliedKeeps
  <2> QED BY <1>t, <2>2, <2>3, <2>4, <2>5, ConnReplaced
<1>2. CASE KillFrame(k)
  <2> DEFINE y == [conn[k] EXCEPT !.kill = "done",
                                  !.cancelled = conn[k].cancelled \/ conn[k].exec = "verifying"]
  <2>1. conn[k].agent \notin {"none", "connecting"} /\ conn[k].exec # "wire"
    BY <1>t, <1>2 DEF KillFrame, ConnOK, Unmade
  <2>2. y \in ConnRecord /\ ConnOK(y)
    <3> DEFINE lost == conn[k].cancelled \/ conn[k].exec = "verifying"
    <3>1. lost \in BOOLEAN /\ (conn[k].exec = "verifying" => lost)
      OBVIOUS
    <3>2. y = [conn[k] EXCEPT !.kill = "done", !.cancelled = lost]
      OBVIOUS
    <3> HIDE DEF lost, y
    <3>3. /\ y \in ConnRecord /\ y.agent = conn[k].agent /\ y.boot = conn[k].boot /\ y.exec = conn[k].exec
          /\ y.kill = "done" /\ y.run = conn[k].run /\ y.cancelled = lost /\ y.open = conn[k].open
      BY <1>t, <3>1, <3>2 DEF ConnRecord
    <3> QED BY <1>t, <2>1, <3>1, <3>3 DEF ConnOK, Doomed
  <2>3. conn' = [conn EXCEPT ![k] = LeaseKill(y, FALSE)]
    BY <1>2 DEF KillFrame
  <2>4. UNCHANGED <<helper, seen, cap, active, link, registered, rec>>
    BY <1>2 DEF KillFrame
  <2> HIDE DEF y
  <2>5. LeaseKill(y, FALSE) \in ConnRecord /\ ConnOK(LeaseKill(y, FALSE))
    BY <2>2, LeaseKillKeeps
  <2> QED BY <1>t, <2>3, <2>4, <2>5, ConnReplaced
<1>3. CASE ConnClosed(k)
  <2> DEFINE y == [conn[k] EXCEPT !.open = FALSE, !.kill = "none",
                                  !.exec = IF conn[k].exec = "verifying" THEN conn[k].exec ELSE "done"]
  <2>1. y \in ConnRecord /\ y.agent = "settled" /\ y.kill = "none" /\ y.boot = conn[k].boot /\ y.run = conn[k].run
    BY <1>t, <1>3 DEF ConnClosed, ConnRecord
  <2>3. conn' = [conn EXCEPT ![k] = LeaseKill(y, TRUE)]
    BY <1>3 DEF ConnClosed, HangUp
  <2>4. UNCHANGED <<helper, seen, cap, active, link, registered, rec>>
    BY <1>3 DEF ConnClosed
  <2> HIDE DEF y
  <2>5. LeaseKill(y, TRUE) \in ConnRecord /\ ConnOK(LeaseKill(y, TRUE))
    BY <1>t, <2>1, HungUp
  <2> QED BY <1>t, <2>3, <2>4, <2>5, ConnReplaced
<1> QED BY <1>1, <1>2, <1>3

LEMMA HandleKeeps ==
  ASSUME ElevatedInv, NEW k \in Conn, HandleExec(k) PROVE ElevatedInv'
<1>t. /\ ElevatedTypeOK /\ AdvertiseInv /\ conn[k] \in ConnRecord /\ ConnOK(conn[k])
      /\ conn[k].agent \notin {"none", "connecting"}
  BY DEF ElevatedInv, ElevatedTypeOK, HandleExec, ConnOK, Unmade
<1> DEFINE x == [conn[k] EXCEPT !.exec = "done", !.cancelled = FALSE]
           y == [x EXCEPT !.run = [NoRun EXCEPT !.st = "alive", !.lease = TRUE]]
<1>1. /\ x \in ConnRecord /\ x.agent = conn[k].agent /\ x.boot = conn[k].boot /\ x.exec = "done"
      /\ x.kill = conn[k].kill /\ x.run = conn[k].run /\ x.open = conn[k].open
  BY <1>t DEF ConnRecord
<1>2. [NoRun EXCEPT !.st = "alive", !.lease = TRUE] \in RunRecord
  BY DEF NoRun, RunRecord, Countdown
<1>3. /\ y \in ConnRecord /\ y.agent = x.agent /\ y.boot = x.boot /\ y.exec = x.exec /\ y.kill = x.kill
      /\ y.run.st = "alive" /\ y.run.lease /\ y.open = x.open
  BY <1>1, <1>2 DEF ConnRecord, NoRun
<1>4. PICK expired \in BOOLEAN, spawned \in BOOLEAN :
        /\ seen' = (seen \/ Verified(expired))
        /\ conn' = [conn EXCEPT ![k] =
             IF Verified(expired) /\ StillWanted(k) /\ spawned THEN y ELSE Replied(x)]
        /\ UNCHANGED <<helper, cap, active, link, registered, rec>>
  BY DEF HandleExec
<1>5. ConnOK(x)
  BY <1>t, <1>1 DEF ConnOK, Doomed
<1> HIDE DEF x, y
<1>6. Replied(x) \in ConnRecord /\ ConnOK(Replied(x))
  BY <1>1, <1>5, RepliedKeeps
<1>7. /\ conn' \in [Conn -> ConnRecord] /\ \A j \in Conn \ {k} : conn'[j] = conn[j]
      /\ conn'[k] = Replied(x) \/ (conn'[k] = y /\ seen' /\ helper.st = "up" /\ x.open)
  BY <1>t, <1>1, <1>3, <1>4, <1>6 DEF ElevatedTypeOK, StillWanted
<1>8. ElevatedTypeOK' /\ AdvertiseInv' /\ (seen => seen') /\ UNCHANGED helper
  BY <1>t, <1>4, <1>7 DEF ElevatedTypeOK, AdvertiseInv
<1>9. ConnOK(conn[k])'
  <2>1. CASE conn'[k] = Replied(x)
    BY <1>6, <1>8, <2>1 DEF ConnOK, Unmade, Doomed, Listening
  <2>2. CASE conn'[k] = y /\ seen' /\ helper.st = "up" /\ x.open
    BY <1>t, <1>1, <1>3, <1>8, <2>2 DEF ConnOK
  <2> QED BY <1>7, <2>1, <2>2
<1> QED BY <1>7, <1>8, <1>9, ConnStep

LEMMA ProcessKeeps ==
  ASSUME ElevatedInv, NEW k \in Conn, ProcessEnds(k) \/ CommandFails(k) \/ Escalate(k)
  PROVE  ElevatedInv'
<1>t. /\ ElevatedTypeOK /\ conn[k] \in ConnRecord /\ ConnOK(conn[k]) /\ active \in Conn \cup {None}
      /\ UNCHANGED <<helper, seen, cap, active, link, registered, rec>>
  BY DEF ElevatedInv, ElevatedTypeOK, ProcessEnds, CommandFails, Escalate
<1>1. CASE ProcessEnds(k)
  <2>0. conn[k].agent \notin {"none", "connecting"} /\ conn[k].run.st = "alive"
    BY <1>t, <1>1 DEF ProcessEnds, ConnOK, Unmade
  <2>1. CASE ~Supervised(k)
    <3> DEFINE y == [conn[k] EXCEPT !.run.st = "gone"]
    <3>1. y \in ConnRecord /\ ConnOK(y)
      BY <1>t, <2>0 DEF ConnRecord, RunRecord, ConnOK
    <3>2. conn' = [conn EXCEPT ![k] = y]
      BY <1>1, <2>1 DEF ProcessEnds
    <3> QED BY <1>t, <3>1, <3>2, ConnReplaced
  <2>2. CASE Supervised(k)
    <3> DEFINE z == Reported(conn[k])
               y == [z EXCEPT !.run = [NoRun EXCEPT !.st = "gone"]]
    <3>1. z \in ConnRecord /\ ConnOK(z) /\ z.agent = conn[k].agent /\ z.boot = conn[k].boot
      BY <1>t, ReportedKeeps
    <3>2. [NoRun EXCEPT !.st = "gone"] \in RunRecord /\ [NoRun EXCEPT !.st = "gone"].st = "gone"
      BY DEF NoRun, RunRecord, Countdown
    <3>3. conn' = [conn EXCEPT ![k] = y]
      BY <1>1, <2>2 DEF ProcessEnds
    <3>4. conn[k].boot = helper.boot /\ seen
      BY <1>t, <2>0, <2>2 DEF Supervised, ConnOK
    <3> HIDE DEF z
    <3>5. y \in ConnRecord /\ y.agent = z.agent /\ y.boot = z.boot /\ y.exec = z.exec /\ y.kill = z.kill
          /\ y.cancelled = z.cancelled /\ y.run.st = "gone"
      BY <3>1, <3>2 DEF ConnRecord
    <3> HIDE DEF y
    <3>6. ConnOK(y)
      BY <2>0, <3>1, <3>4, <3>5 DEF ConnOK
    <3> QED BY <1>t, <3>3, <3>5, <3>6, ConnReplaced
  <2> QED BY <2>1, <2>2
<1>2. CASE CommandFails(k)
  <2> DEFINE z == KillTree(conn[k], FALSE)
  <2>1. z \in ConnRecord /\ ConnOK(z)
    BY <1>t, KillTreeKeeps
  <2>2. conn' = [conn EXCEPT ![k] = Reported(z)]
    BY <1>2 DEF CommandFails
  <2> HIDE DEF z
  <2>3. Reported(z) \in ConnRecord /\ ConnOK(Reported(z))
    BY <2>1, ReportedKeeps
  <2> QED BY <1>t, <2>2, <2>3, ConnReplaced
<1>3. CASE Escalate(k)
  <2> DEFINE y == [conn[k] EXCEPT !.run.sig = "kill", !.run.esc = Off]
  <2>1. /\ y \in ConnRecord /\ y.agent = conn[k].agent /\ y.boot = conn[k].boot /\ y.exec = conn[k].exec
        /\ y.kill = conn[k].kill /\ y.cancelled = conn[k].cancelled /\ y.open = conn[k].open
        /\ y.run.st = conn[k].run.st /\ y.run.lease = conn[k].run.lease /\ y.run.sig = "kill"
    BY <1>t DEF ConnRecord, RunRecord, Countdown
  <2>2. conn' = [conn EXCEPT ![k] = y]
    BY <1>t, <1>3 DEF Escalate, ElevatedTypeOK, ConnRecord, RunRecord
  <2> HIDE DEF y
  <2>3. ConnOK(y)
    BY <1>t, <2>1 DEF ConnOK, Unmade, Doomed
  <2> QED BY <1>t, <2>1, <2>2, <2>3, ConnReplaced
<1> QED BY <1>1, <1>2, <1>3

\* A step of the helper's own life changes every connection.
LEMMA LifeStep ==
  ASSUME ElevatedInv, UNCHANGED <<cap, active, link, registered, rec>>, seen' \in BOOLEAN,
         helper' \in HelperRecord, helper.boot <= helper'.boot, DOMAIN conn' = Conn,
         conn' = [j \in Conn |-> conn'[j]],
         \A j \in Conn : conn'[j] \in ConnRecord /\ ConnOK(conn[j])'
  PROVE  ElevatedInv'
<1>1. ElevatedTypeOK'
  BY DEF ElevatedInv, ElevatedTypeOK
<1>2. AdvertiseInv'
  <2>1. helper.boot \in Int /\ helper'.boot \in Int /\ registered \in Int /\ \A b \in rec.answers : b \in Int
    BY DEF ElevatedInv, ElevatedTypeOK, HelperRecord, ReconcileRecord, BootOrNone
  <2> QED BY <2>1 DEF ElevatedInv, AdvertiseInv
<1> QED BY <1>1, <1>2 DEF ElevatedInv

LEMMA StopKeeps == ASSUME ElevatedInv, Stop PROVE ElevatedInv'
<1>t. ElevatedTypeOK /\ helper \in HelperRecord /\ helper.st = "up"
  BY DEF ElevatedInv, ElevatedTypeOK, Stop
<1>1. /\ helper' \in HelperRecord /\ helper'.st = "draining" /\ helper'.boot = helper.boot
      /\ UNCHANGED <<seen, cap, active, link, registered, rec>>
      /\ conn' = [j \in Conn |-> LeaseKill(conn[j], TRUE)]
  BY <1>t, ElevatedConstants DEF Stop, HelperRecord, Countdown
<1>2. ASSUME NEW j \in Conn PROVE conn'[j] \in ConnRecord /\ ConnOK(conn[j])'
  <2>1. conn[j] \in ConnRecord /\ ConnOK(conn[j])
    BY DEF ElevatedInv, ElevatedTypeOK
  <2> DEFINE y == LeaseKill(conn[j], TRUE)
  <2>2. y \in ConnRecord /\ ConnOK(y) /\ conn'[j] = y
    BY <1>1, <2>1, LeaseKillKeeps
  <2>3. y.run.lease => y.run.esc = HardGrace
    BY <2>1 DEF LeaseKill, KillTree, ConnRecord, RunRecord
  <2> HIDE DEF y
  <2>4. y.boot = helper.boot /\ y.run.st = "alive" => Doomed(y)
    BY <1>t, <2>2, <2>3, ElevatedConstants DEF ConnOK, Listening, Doomed
  <2> QED BY <1>t, <1>1, <2>2, <2>4 DEF ConnOK, Unmade, Doomed, Listening
<1>3. helper.boot <= helper'.boot
  <2>1. helper.boot \in Int
    BY <1>t DEF HelperRecord, BootOrNone
  <2> QED BY <1>1, <2>1
<1>4. seen' \in BOOLEAN
  BY <1>t, <1>1 DEF ElevatedTypeOK
<1> QED BY <1>1, <1>2, <1>3, <1>4, LifeStep

LEMMA GoneKeeps ==
  ASSUME ElevatedInv, DrainEnds \/ HelperCrash PROVE ElevatedInv'
<1>t. ElevatedTypeOK /\ helper \in HelperRecord
  BY DEF ElevatedInv, ElevatedTypeOK
<1>0. helper' \in HelperRecord /\ helper'.st \in {"stopped", "crashed"} /\ helper'.boot = helper.boot
  BY <1>t DEF DrainEnds, HelperCrash, Gone, HelperRecord, Countdown
<1>1. /\ UNCHANGED <<seen, cap, active, link, registered, rec>>
      /\ conn' = [k \in Conn |-> [conn[k] EXCEPT !.open = FALSE, !.exec = "none", !.kill = "none",
                                                 !.cancelled = FALSE,
                                                 !.run = [NoRun EXCEPT !.st = conn[k].run.st]]]
  BY DEF DrainEnds, HelperCrash, Gone
<1>2. ASSUME NEW j \in Conn PROVE conn'[j] \in ConnRecord /\ ConnOK(conn[j])'
  <2>1. conn[j] \in ConnRecord /\ ConnOK(conn[j])
    BY DEF ElevatedInv, ElevatedTypeOK
  <2> DEFINE r == [NoRun EXCEPT !.st = conn[j].run.st]
             y == [conn[j] EXCEPT !.open = FALSE, !.exec = "none", !.kill = "none", !.cancelled = FALSE,
                                  !.run = r]
  <2>2. r \in RunRecord /\ r.st = conn[j].run.st /\ ~r.lease
    BY <2>1 DEF NoRun, ConnRecord, RunRecord, Countdown
  <2>3. conn'[j] = y
    BY <1>1
  <2> HIDE DEF r
  <2>4. /\ y \in ConnRecord /\ y.agent = conn[j].agent /\ y.boot = conn[j].boot /\ ~y.open
        /\ y.exec = "none" /\ y.kill = "none" /\ y.run = r
    BY <2>1, <2>2 DEF ConnRecord
  <2> HIDE DEF y
  <2> QED BY <1>0, <1>1, <2>1, <2>2, <2>3, <2>4 DEF ConnOK, Unmade, Listening
<1>3. helper.boot <= helper'.boot
  <2>1. helper.boot \in Int
    BY <1>t DEF HelperRecord, BootOrNone
  <2> QED BY <1>0, <2>1
<1>4. seen' \in BOOLEAN
  BY <1>t, <1>1 DEF ElevatedTypeOK
<1> QED BY <1>0, <1>1, <1>2, <1>3, <1>4, LifeStep

LEMMA HelperStartKeeps == ASSUME ElevatedInv, HelperStart PROVE ElevatedInv'
<1>t. ElevatedTypeOK /\ helper \in HelperRecord /\ helper.boot \in Nat
  BY DEF ElevatedInv, ElevatedTypeOK, HelperRecord, BootOrNone
<1>1. /\ helper' \in HelperRecord /\ helper'.st = "up" /\ helper'.boot = helper.boot + 1
      /\ UNCHANGED <<cap, conn, active, link, registered, rec>> /\ seen' = FALSE
  BY <1>t, ElevatedConstants DEF HelperStart, HelperRecord, BootOrNone, Countdown
<1>2. ASSUME NEW j \in Conn PROVE conn'[j] \in ConnRecord /\ ConnOK(conn[j])'
  <2>1. conn[j] \in ConnRecord /\ ConnOK(conn[j]) /\ conn[j].boot \in Nat
    BY DEF ElevatedInv, ElevatedTypeOK, ConnRecord, BootOrNone
  <2>2. conn[j].boot <= helper'.boot /\ conn[j].boot # helper'.boot
    BY <1>t, <1>1, <2>1 DEF ConnOK
  <2> QED BY <1>1, <2>1, <2>2 DEF ConnOK, Unmade
<1>3. helper.boot <= helper'.boot
  BY <1>t, <1>1
<1>4. conn' = [j \in Conn |-> conn'[j]] /\ DOMAIN conn' = Conn /\ seen' \in BOOLEAN
  BY <1>t, <1>1 DEF ElevatedTypeOK
<1> QED BY <1>1, <1>2, <1>3, <1>4, LifeStep

LEMMA TickKeeps == ASSUME ElevatedInv, Tick PROVE ElevatedInv'
<1>t. ElevatedTypeOK /\ helper \in HelperRecord
  BY DEF ElevatedInv, ElevatedTypeOK
<1>0. \A n \in Countdown : Less(n) \in Countdown /\ (n \in 0 .. HardGrace => Less(n) \in 0 .. HardGrace)
  BY ElevatedConstants DEF Countdown, Less, Off
<1>1. /\ helper' \in HelperRecord /\ helper'.st = helper.st /\ helper'.boot = helper.boot
      /\ UNCHANGED <<seen, cap, active, link, registered, rec>>
      /\ conn' = [k \in Conn |-> [conn[k] EXCEPT !.run.esc = Less(conn[k].run.esc)]]
  BY <1>t, <1>0 DEF Tick, HelperRecord
<1>2. ASSUME NEW j \in Conn PROVE conn'[j] \in ConnRecord /\ ConnOK(conn[j])'
  <2>1. conn[j] \in ConnRecord /\ ConnOK(conn[j])
    BY DEF ElevatedInv, ElevatedTypeOK
  <2>2. Less(conn[j].run.esc) \in Countdown
    BY <1>0, <2>1 DEF ConnRecord, RunRecord
  <2> DEFINE y == [conn[j] EXCEPT !.run.esc = Less(conn[j].run.esc)]
  <2>3. conn'[j] = y
    BY <1>1
  <2>4. /\ y \in ConnRecord /\ y.agent = conn[j].agent /\ y.boot = conn[j].boot /\ y.exec = conn[j].exec
        /\ y.kill = conn[j].kill /\ y.cancelled = conn[j].cancelled /\ y.open = conn[j].open
        /\ y.run.st = conn[j].run.st /\ y.run.lease = conn[j].run.lease /\ y.run.sig = conn[j].run.sig
        /\ y.run.esc = Less(conn[j].run.esc)
    BY <2>1, <2>2 DEF ConnRecord, RunRecord
  <2> HIDE DEF y
  <2>5. Doomed(conn[j]) => Doomed(y)
    BY <1>0, <2>1, <2>4 DEF Doomed, ConnRecord, RunRecord
  <2> QED BY <1>1, <2>1, <2>3, <2>4, <2>5 DEF ConnOK, Unmade, Listening
<1>3. helper.boot <= helper'.boot
  <2>1. helper.boot \in Int
    BY <1>t DEF HelperRecord, BootOrNone
  <2> QED BY <1>1, <2>1
<1>4. seen' \in BOOLEAN
  BY <1>t, <1>1 DEF ElevatedTypeOK
<1> QED BY <1>1, <1>2, <1>3, <1>4, LifeStep

LEMMA ElevatedInvStep == ElevatedInv /\ [Next]_vars => ElevatedInv'
<1> SUFFICES ASSUME ElevatedInv, [Next]_vars PROVE ElevatedInv'
  OBVIOUS
<1>1. CASE UNCHANGED vars
  BY <1>1 DEF vars, ElevatedInv, ElevatedTypeOK, AdvertiseInv, ConnOK, Unmade, Doomed, Listening
<1>2. CASE LinkUp \/ Reconcile \/ Mint
  BY <1>2, ReconcileKeeps
<1>3. CASE LinkDown \/ AgentDies
  BY <1>3, AgentGoneKeeps
<1>4. CASE KillCommand
  <2>1. active \in Conn
    BY <1>4 DEF ElevatedInv, ElevatedTypeOK, KillCommand
  <2> QED BY <1>4, <2>1, CommandKeeps
<1>5. CASE Stop \/ DrainEnds \/ HelperCrash \/ HelperStart \/ Tick
  BY <1>5, StopKeeps, GoneKeeps, HelperStartKeeps, TickKeeps
<1>6. ASSUME NEW k \in Conn,
             \/ ElevatedExec(k) \/ Connect(k) \/ AgentSettles(k)
             \/ ExecFrame(k) \/ KillFrame(k) \/ HandleExec(k) \/ ConnClosed(k)
             \/ ProcessEnds(k) \/ CommandFails(k) \/ Escalate(k)
      PROVE  ElevatedInv'
  BY <1>6, CommandKeeps, ConnectKeeps, FramesKeep, HandleKeeps, ProcessKeeps
<1> QED BY <1>1, <1>2, <1>3, <1>4, <1>5, <1>6 DEF Next

THEOREM ElevatedIsInvariant == Spec => []ElevatedInv
BY ElevatedInvInit, ElevatedInvStep, PTL DEF Spec

-----------------------------------------------------------------------------
(* What follows.                                                             *)

\* While the helper drains, SIGKILL is sent or due for every process it still runs
\* (helper.ts stop, lease-manager.ts releaseAll): each is leased, though its command may
\* have been reported as failed or its connection be gone.  For any graces.
THEOREM DrainKills == Spec => []DrainReachesAll
<1>1. ElevatedInv => DrainReachesAll
  BY DEF ElevatedInv, ConnOK, Doomed, DrainReachesAll
<1> QED BY <1>1, ElevatedIsInvariant, PTL

\* What still runs of a connection that the helper has lost is about to end.
CutOffIsDoomed ==
  \A k \in Conn :
    Supervised(k) /\ conn[k].run.st = "alive" /\ ~conn[k].open =>
      conn[k].run.sig = "kill" \/ conn[k].run.esc \in 0 .. HardGrace

\* A privileged process whose connection is gone has SIGKILL, or gets it within the hard
\* grace (helper.ts, the close of a connection): it was leased to the last, also when its
\* command had been answered with an error, and a slow escalation was made a fast one.
\* The safety half of EndsWithItsConnection, for any graces and any number of helpers.
THEOREM CutOffIsKilled == Spec => []CutOffIsDoomed
<1>1. ElevatedInv => CutOffIsDoomed
  BY DEF ElevatedInv, ConnOK, Doomed, Supervised, CutOffIsDoomed
<1> QED BY <1>1, ElevatedIsInvariant, PTL

\* The agent never goes back from a boot of the helper it advertised to an older one
\* (connection.ts reconcileElevated, registerEpoch): a probe that was overtaken by a
\* register is discarded, and what the others saw was listening after it.  For any
\* number of starts, endpoints and attempts.
THEOREM AdvertisedIsMonotone == Spec => AdvertisedNeverOlder
<1>1. ASSUME ElevatedInv, [Next]_vars, registered' # 0, link = "up", link' = "up"
      PROVE  registered' >= registered
  <2>t. ElevatedTypeOK /\ AdvertiseInv /\ registered \in Int /\ helper.boot \in Int
    BY <1>1 DEF ElevatedInv, ElevatedTypeOK, HelperRecord, BootOrNone
  <2>1. ASSUME registered' = registered PROVE registered' >= registered
    BY <2>t, <2>1
  <2>2. CASE ReconcileDecide
    <3>1. Found = NoHelper \/ Found \in rec.answers
      BY DEF Found
    <3>2. registered' = registered \/ (registered' = Found /\ ~rec.stale)
      BY <2>2 DEF ReconcileDecide, Overtaken
    <3>3. rec.answers \subseteq BootOrNone
      BY <2>t DEF ElevatedTypeOK, ReconcileRecord
    <3>4. CASE registered' = Found /\ ~rec.stale
      <4>1. Found \in rec.answers
        BY <1>1, <3>1, <3>4 DEF NoHelper
      <4>2. registered <= Found /\ Found \in Int
        BY <2>t, <3>3, <3>4, <4>1 DEF AdvertiseInv, BootOrNone
      <4> QED BY <2>t, <3>4, <4>2
    <3> QED BY <2>1, <3>2, <3>4
  <2>3. ASSUME NEW k \in Conn, Connect(k) PROVE registered' >= registered
    <3>1. registered' \in {registered, helper.boot}
      BY <2>3 DEF Connect, SendRegister
    <3> QED BY <2>t, <3>1 DEF AdvertiseInv
  <2>4. CASE UNCHANGED vars
    BY <2>1, <2>4 DEF vars
  <2>5. CASE \/ LinkDown \/ AgentDies \/ ReconcileStart \/ Probe \/ Mint \/ KillCommand
             \/ Stop \/ DrainEnds \/ HelperCrash \/ HelperStart \/ Tick
    BY <2>1, <2>5 DEF LinkDown, AgentDies, ReconcileStart, Probe, Mint, KillCommand, Stop, DrainEnds,
                      HelperCrash, Gone, HelperStart, Tick
  <2>6. ASSUME NEW k \in Conn,
               \/ ElevatedExec(k) \/ AgentSettles(k) \/ ExecFrame(k) \/ KillFrame(k) \/ HandleExec(k)
               \/ ConnClosed(k) \/ ProcessEnds(k) \/ CommandFails(k) \/ Escalate(k)
        PROVE  registered' >= registered
    BY <2>1, <2>6 DEF ElevatedExec, AgentSettles, ExecFrame, KillFrame, HandleExec, ConnClosed,
                      ProcessEnds, CommandFails, Escalate
  <2>7. ~LinkUp
    BY <1>1 DEF LinkUp
  <2> QED BY <1>1, <2>2, <2>3, <2>4, <2>5, <2>6, <2>7 DEF Next, Reconcile
<1>2. ElevatedInv /\ [Next]_vars =>
        [registered' # 0 /\ link = "up" /\ link' = "up" => registered' >= registered]_vars
  BY <1>1
<1> QED BY <1>2, ElevatedIsInvariant, PTL DEF Spec, AdvertisedNeverOlder

\* Nothing but the end of a verification starts a process.
LEMMA RunIsKept ==
  ASSUME NEW x \in ConnRecord, NEW hard \in BOOLEAN
  PROVE  /\ KillTree(x, hard) \in ConnRecord /\ KillTree(x, hard).run.st = x.run.st
         /\ LeaseKill(x, hard).run.st = x.run.st
         /\ Replied(x) \in ConnRecord /\ Replied(x).run.st = x.run.st
         /\ Reported(x).run.st = x.run.st
         /\ AgentKilled(x).run.st = x.run.st
<1>1. KillTree(x, hard) \in ConnRecord /\ KillTree(x, hard).run.st = x.run.st
  BY ElevatedConstants DEF KillTree, ConnRecord, RunRecord, Countdown
<1>2. Replied(x) \in ConnRecord /\ Replied(x).run.st = x.run.st
  BY DEF Replied, ConnRecord
<1>3. Reported(x).run.st = x.run.st
  <2> DEFINE y == Replied(x)
  <2>1. y \in ConnRecord /\ y.run.st = x.run.st
    BY <1>2
  <2>2. Reported(x) = x \/ Reported(x) = [y EXCEPT !.run.told = TRUE]
    BY DEF Reported
  <2> HIDE DEF y
  <2>3. [y EXCEPT !.run.told = TRUE].run.st = y.run.st
    BY <2>1 DEF ConnRecord, RunRecord
  <2> QED BY <2>1, <2>2, <2>3
<1>4. AgentKilled(x).run.st = x.run.st
  BY DEF AgentKilled, ConnRecord
<1> QED BY <1>1, <1>2, <1>3, <1>4 DEF LeaseKill

LEMMA NobodyElseStarts ==
  ASSUME ElevatedInv, [Next]_vars, NEW k \in Conn, ~HandleExec(k), conn[k].run.st = "none"
  PROVE  conn'[k].run.st = "none"
<1>t. ElevatedTypeOK /\ (\A j \in Conn : conn[j] \in ConnRecord) /\ conn[k] \in ConnRecord
  BY DEF ElevatedInv, ElevatedTypeOK
<1>0. ASSUME UNCHANGED conn PROVE conn'[k].run.st = "none"
  BY <1>0
<1>1. ASSUME NEW j \in Conn, NEW y, conn' = [conn EXCEPT ![j] = y], j # k \/ y.run.st = "none"
      PROVE  conn'[k].run.st = "none"
  BY <1>t, <1>1 DEF ElevatedTypeOK
<1>2. CASE UNCHANGED vars \/ LinkUp \/ Reconcile \/ Mint \/ HelperStart
  BY <1>0, <1>2 DEF vars, LinkUp, Reconcile, ReconcileStart, Probe, ReconcileDecide, Mint, HelperStart
<1>3. CASE KillCommand \/ LinkDown
  <2>1. CASE active = None
    BY <1>0, <1>3, <2>1 DEF KillCommand, LinkDown
  <2>2. CASE active # None
    <3>1. active \in Conn /\ conn[active] \in ConnRecord
      BY <1>t, <2>2 DEF ElevatedTypeOK
    <3>2. conn' = [conn EXCEPT ![active] = AgentKilled(conn[active])]
      BY <1>3, <2>2 DEF KillCommand, LinkDown
    <3>3. AgentKilled(conn[active]).run.st = conn[active].run.st
      BY <3>1, RunIsKept
    <3> QED BY <1>1, <3>1, <3>2, <3>3
  <2> QED BY <2>1, <2>2
<1>4. CASE AgentDies
  <2>1. conn'[k] = [conn[k] EXCEPT !.agent =
                      IF conn[k].agent \in {"connecting", "sent"} THEN "settled" ELSE conn[k].agent]
    BY <1>4 DEF AgentDies
  <2> QED BY <1>t, <2>1 DEF ConnRecord
<1>5. CASE Stop
  BY <1>t, <1>5, RunIsKept DEF Stop
<1>6. CASE DrainEnds \/ HelperCrash
  <2>1. conn'[k] = [conn[k] EXCEPT !.open = FALSE, !.exec = "none", !.kill = "none", !.cancelled = FALSE,
                                   !.run = [NoRun EXCEPT !.st = conn[k].run.st]]
    BY <1>6 DEF DrainEnds, HelperCrash, Gone
  <2> QED BY <1>t, <2>1 DEF ConnRecord, NoRun
<1>7. CASE Tick
  <2>1. conn'[k] = [conn[k] EXCEPT !.run.esc = Less(conn[k].run.esc)]
    BY <1>7 DEF Tick
  <2> QED BY <1>t, <2>1 DEF ConnRecord, RunRecord
<1>8. ASSUME NEW j \in Conn, ElevatedExec(j) \/ Connect(j) \/ AgentSettles(j) PROVE conn'[k].run.st = "none"
  <2>1. /\ [conn[j] EXCEPT !.agent = "connecting"].run = conn[j].run
        /\ [conn[j] EXCEPT !.agent = "settled"].run = conn[j].run
        /\ [conn[j] EXCEPT !.agent = "sent", !.open = TRUE, !.boot = helper.boot, !.exec = "wire"].run = conn[j].run
        /\ [conn[j] EXCEPT !.agent = "settled", !.reply = FALSE].run = conn[j].run
    BY <1>t DEF ConnRecord
  <2>2. CASE ElevatedExec(j)
    <3>1. conn' = [conn EXCEPT ![j] = [conn[j] EXCEPT !.agent = "connecting"]]
      BY <1>t, <2>2 DEF ElevatedExec, ElevatedTypeOK
    <3> QED BY <1>1, <2>1, <3>1
  <2>3. CASE Connect(j)
    <3>1. \/ conn' = [conn EXCEPT ![j] = [conn[j] EXCEPT !.agent = "sent", !.open = TRUE, !.boot = helper.boot,
                                                         !.exec = "wire"]]
          \/ conn' = [conn EXCEPT ![j] = [conn[j] EXCEPT !.agent = "settled"]]
      BY <1>t, <2>3 DEF Connect, ElevatedTypeOK
    <3> DEFINE a == [conn[j] EXCEPT !.agent = "sent", !.open = TRUE, !.boot = helper.boot, !.exec = "wire"]
               b == [conn[j] EXCEPT !.agent = "settled"]
    <3>2. a.run = conn[j].run /\ b.run = conn[j].run
      BY <2>1
    <3>3. conn' = [conn EXCEPT ![j] = a] \/ conn' = [conn EXCEPT ![j] = b]
      BY <3>1
    <3> HIDE DEF a, b
    <3> QED BY <1>1, <3>2, <3>3
  <2>4. CASE AgentSettles(j)
    <3>1. conn' = [conn EXCEPT ![j] = [conn[j] EXCEPT !.agent = "settled", !.reply = FALSE]]
      BY <1>t, <2>4 DEF AgentSettles, ElevatedTypeOK
    <3> QED BY <1>1, <2>1, <3>1
  <2> QED BY <1>8, <2>2, <2>3, <2>4
<1>9. ASSUME NEW j \in Conn, ExecFrame(j) \/ KillFrame(j) \/ ConnClosed(j) PROVE conn'[k].run.st = "none"
  <2> DEFINE d == [conn[j] EXCEPT !.exec = "done"]
             v == [conn[j] EXCEPT !.exec = "verifying"]
             q == [conn[j] EXCEPT !.kill = "done",
                                  !.cancelled = conn[j].cancelled \/ conn[j].exec = "verifying"]
             h == [conn[j] EXCEPT !.open = FALSE, !.kill = "none",
                                  !.exec = IF conn[j].exec = "verifying" THEN conn[j].exec ELSE "done"]
  <2>1. d \in ConnRecord /\ d.run = conn[j].run /\ v.run = conn[j].run /\ h \in ConnRecord /\ h.run = conn[j].run
    BY <1>t DEF ConnRecord
  <2>2. q \in ConnRecord /\ q.run = conn[j].run
    <3> DEFINE lost == conn[j].cancelled \/ conn[j].exec = "verifying"
    <3>1. lost \in BOOLEAN /\ q = [conn[j] EXCEPT !.kill = "done", !.cancelled = lost]
      OBVIOUS
    <3> HIDE DEF lost, q
    <3> QED BY <1>t, <3>1 DEF ConnRecord
  <2>3. \/ conn' = [conn EXCEPT ![j] = Replied(d)] \/ conn' = [conn EXCEPT ![j] = v]
        \/ conn' = [conn EXCEPT ![j] = LeaseKill(q, FALSE)] \/ conn' = [conn EXCEPT ![j] = LeaseKill(h, TRUE)]
    <3>1. ExecFrame(j) => conn' = [conn EXCEPT ![j] = Replied(d)] \/ conn' = [conn EXCEPT ![j] = v]
      BY DEF ExecFrame
    <3>2. KillFrame(j) => conn' = [conn EXCEPT ![j] = LeaseKill(q, FALSE)]
      BY DEF KillFrame
    <3>3. ConnClosed(j) => conn' = [conn EXCEPT ![j] = LeaseKill(h, TRUE)]
      BY DEF ConnClosed, HangUp
    <3> QED BY <1>9, <3>1, <3>2, <3>3
  <2> HIDE DEF d, v, q, h
  <2>4. Replied(d).run.st = d.run.st /\ LeaseKill(q, FALSE).run.st = q.run.st /\ LeaseKill(h, TRUE).run.st = h.run.st
    BY <2>1, <2>2, RunIsKept
  <2>5. \E y : conn' = [conn EXCEPT ![j] = y] /\ y.run.st = conn[j].run.st
    BY <2>1, <2>2, <2>3, <2>4
  <2> QED BY <1>1, <2>5
<1>10. ASSUME NEW j \in Conn, ProcessEnds(j) \/ CommandFails(j) PROVE conn'[k].run.st = "none"
  <2>1. conn[j].run.st = "alive" /\ j # k
    BY <1>10 DEF ProcessEnds, CommandFails
  <2>2. \E y : conn' = [conn EXCEPT ![j] = y]
    BY <1>10 DEF ProcessEnds, CommandFails
  <2> QED BY <1>1, <2>1, <2>2
<1>11. ASSUME NEW j \in Conn, Escalate(j) PROVE conn'[k].run.st = "none"
  <2>1. conn' = [conn EXCEPT ![j] = [conn[j] EXCEPT !.run.sig = "kill", !.run.esc = Off]]
    BY <1>t, <1>11 DEF Escalate, ElevatedTypeOK, ConnRecord, RunRecord
  <2>2. [conn[j] EXCEPT !.run.sig = "kill", !.run.esc = Off].run.st = conn[j].run.st
    BY <1>t DEF ConnRecord, RunRecord
  <2> QED BY <1>1, <2>1, <2>2
<1>12. ASSUME NEW j \in Conn, HandleExec(j) PROVE conn'[k].run.st = "none"
  <2>1. j # k
    BY <1>12
  <2>2. \E y : conn' = [conn EXCEPT ![j] = y]
    BY <1>12 DEF HandleExec
  <2> QED BY <1>1, <2>1, <2>2
<1> QED BY <1>2, <1>3, <1>4, <1>5, <1>6, <1>7, <1>8, <1>9, <1>10, <1>11, <1>12 DEF Next

\* A privileged process starts (executor.ts, lease-manager.ts) for a capability of this
\* boot that has started nothing before, on a connection that is open and not killed,
\* in a helper that is not stopping, whatever came between the check of the signature
\* and the start.  For any number of connections and restarts.
THEOREM StartsAreAuthorized == Spec => StartIsAuthorized
<1>1. ASSUME ElevatedInv, [Next]_vars, NEW k \in Conn, conn[k].run.st = "none", conn'[k].run.st = "alive"
      PROVE  /\ cap = helper.boot
             /\ conn[k].open /\ conn[k].kill # "done" /\ helper.st = "up"
             /\ \A j \in Conn : conn[j].boot = helper.boot => conn[j].run.st = "none"
  <2>t. ElevatedTypeOK /\ \A j \in Conn : conn[j] \in ConnRecord /\ ConnOK(conn[j])
    BY <1>1 DEF ElevatedInv, ElevatedTypeOK
  <2>1. HandleExec(k)
    BY <1>1, NobodyElseStarts
  <2> DEFINE x == [conn[k] EXCEPT !.exec = "done", !.cancelled = FALSE]
  <2>2. PICK expired \in BOOLEAN, spawned \in BOOLEAN :
          \/ Verified(expired) /\ StillWanted(k) /\ spawned
          \/ conn' = [conn EXCEPT ![k] = Replied(x)]
    BY <2>1 DEF HandleExec
  <2>3. conn'[k] # Replied(x)
    <3>1. x \in ConnRecord /\ x.run.st = "none"
      BY <1>1, <2>t DEF ConnRecord
    <3> HIDE DEF x
    <3>2. Replied(x).run.st = "none"
      BY <3>1, RunIsKept
    <3> QED BY <1>1, <3>2
  <2>4. Verified(expired) /\ StillWanted(k)
    BY <2>t, <2>2, <2>3 DEF ElevatedTypeOK
  <2>5. conn[k].exec = "verifying"
    BY <2>1 DEF HandleExec
  <2>6. conn[k].kill # "done"
    BY <2>t, <2>4, <2>5 DEF StillWanted, ConnOK
  <2>7. ASSUME NEW j \in Conn, conn[j].boot = helper.boot PROVE conn[j].run.st = "none"
    BY <2>t, <2>4, <2>7 DEF Verified, Unused, ConnOK
  <2> QED BY <2>4, <2>6, <2>7 DEF Verified, StillWanted
<1>2. ElevatedInv /\ [Next]_vars =>
        [\A k \in Conn :
           conn[k].run.st = "none" /\ conn'[k].run.st = "alive" =>
             /\ cap = helper.boot
             /\ conn[k].open /\ conn[k].kill # "done" /\ helper.st = "up"
             /\ \A j \in Conn : conn[j].boot = helper.boot => conn[j].run.st = "none"]_vars
  BY <1>1
<1> QED BY <1>2, ElevatedIsInvariant, PTL DEF Spec, StartIsAuthorized
=============================================================================
