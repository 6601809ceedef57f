---------------------------- MODULE SupervisionProofs ----------------------------
(***************************************************************************)
(* What keeps trays and agents running.  The watchdog of Windows relaunches a  *)
(* tray that keeps dying ever more slowly, and its log has a rate, for any     *)
(* users, any constants and any order of ticks, consent and installs.  Whoever *)
(* acts on a look at the processes of a Linux machine is alone, for any number *)
(* of failures, commands and updates.                                        *)
(***************************************************************************)
EXTENDS Watchdog, Service, TLAPS

-----------------------------------------------------------------------------
(* The watchdog: the inductive invariant.                                    *)

UserRecord == [shell : BOOLEAN, tray : BOOLEAN, consent : {"wanted", "opt-out", "quit"}]
EntryRecord == [misses : Nat, attempts : Nat, flaps : Nat, wait : Int, healthy : Nat]
TickRecord == [pc : {"idle", "probing", "triggering"}, owners : SUBSET User, targets : SUBSET User]
LogRecord == [since : Nat, file : {"usable", "disabled"}]
SeenRecord == [line : Nat, gap : [User -> Nat], calm : [User -> Nat], runs : [User -> Nat]]

WatchTypeOK ==
  /\ user \in [User -> UserRecord] /\ mem \in [User -> EntryRecord] /\ tick \in TickRecord
  /\ log \in LogRecord /\ history \in SeenRecord

\* The tick that is probing has been counted as time, and not yet taken off the backoff.
Begun == IF tick.pc = "probing" THEN 1 ELSE 0

\* The entry of a user counts its relaunches as they were since the last quiet stretch; and
\* what is left of the backoff, with the time since the last relaunch, is the backoff for them.
EntryOK(u) ==
  /\ mem[u].flaps = history.runs[u] /\ mem[u].attempts <= mem[u].flaps
  /\ history.runs[u] > 0 =>
       /\ mem[u].healthy = history.calm[u] /\ history.calm[u] < Quiet
       /\ \/ history.gap[u] >= Backoff(history.runs[u])
          \/ history.gap[u] + mem[u].wait >= Backoff(history.runs[u]) + Begun

\* No line was written in the ticks the throttle has counted.
LineOK == history.line >= Every \/ history.line >= log.since + Begun

WatchInv ==
  /\ WatchTypeOK /\ LineOK
  /\ tick.pc = "probing" => tick.targets = {}
  /\ \A u \in User : EntryOK(u)

-----------------------------------------------------------------------------
(* The decision about one user.                                              *)

LEMMA WatchConstants ==
  /\ Misses \in Nat \ {0} /\ Ceiling \in Nat \ {0} /\ Quiet \in Nat \ {0} /\ Every \in Nat \ {0} /\ Worst \in Nat \ {0}
BY BoundAssumption

LEMMA BackoffIs == ASSUME NEW n \in Nat PROVE Backoff(n) \in Int /\ (n > 0 => Backoff(n) <= Ceiling)
BY WatchConstants DEF Backoff, Least

LEMMA AgedIs ==
  ASSUME NEW m \in EntryRecord
  PROVE  /\ Aged(m) \in EntryRecord /\ Aged(m).misses = m.misses /\ Aged(m).attempts = m.attempts
         /\ Aged(m).flaps = m.flaps /\ Aged(m).healthy = m.healthy /\ Aged(m).wait = Less(m.wait)
<1>1. Less(m.wait) \in Int
  BY DEF Less, EntryRecord
<1> QED BY <1>1 DEF Aged, EntryRecord

LEMMA ForgottenIs ==
  Forgotten \in EntryRecord /\ Forgotten.flaps = 0 /\ Forgotten.attempts = 0
BY DEF Forgotten, EntryRecord

LEMMA KeptIs ==
  ASSUME NEW m \in EntryRecord
  PROVE  /\ Kept(m) \in EntryRecord /\ Kept(m).flaps = m.flaps /\ Kept(m).attempts = m.attempts
         /\ m.flaps > 0 => Kept(m) = m
BY ForgottenIs DEF Kept, EntryRecord

LEMMA HealthyIs ==
  ASSUME NEW m \in EntryRecord, NEW outcome
  PROVE  /\ Healthy(outcome, m) \in Nat
         /\ Healthy(outcome, m) = IF outcome = "tray-running" THEN Least(m.healthy + 1, Quiet) ELSE 0
BY WatchConstants DEF Healthy, Least, EntryRecord

\* A relaunch is counted, and the backoff is the one for all that are.
LEMMA RelaunchIsCounted ==
  ASSUME NEW m \in EntryRecord, NEW outcome, Due(outcome, m), m.attempts <= m.flaps
  PROVE  LET e == Remembered(outcome, m)
         IN  /\ e \in EntryRecord /\ e.flaps = Least(m.flaps + 1, Worst) /\ e.flaps > 0 /\ e.attempts <= e.flaps
             /\ e.wait = Backoff(e.flaps) /\ e.healthy = 0
<1> DEFINE h == Healthy(outcome, m)
           a == Least(m.attempts + 1, Worst)
           f == Least(m.flaps + 1, Worst)
           x == m.misses + 1
           n == [m EXCEPT !.healthy = h, !.misses = x, !.attempts = m.attempts]
           w == Backoff(IF a > f THEN a ELSE f)
<1>1. h \in Nat /\ h = 0
  BY HealthyIs DEF Due
<1>2. a \in Nat /\ f \in Nat /\ f > 0 /\ a <= f
  BY WatchConstants DEF Least, EntryRecord
<1>3. w = Backoff(f) /\ w \in Int
  <2>1. (IF a > f THEN a ELSE f) = f
    BY <1>2
  <2> QED BY <1>2, <2>1, BackoffIs
<1>4. Remembered(outcome, m) = [n EXCEPT !.misses = 0, !.attempts = a, !.flaps = f, !.wait = w]
  BY DEF Remembered, Due
<1>5. x \in Nat
  BY DEF EntryRecord
<1> HIDE DEF h, a, w, x
<1>6. n \in EntryRecord /\ n.healthy = h
  BY <1>1, <1>5 DEF EntryRecord
<1> HIDE DEF n, f
<1> QED BY <1>1, <1>2, <1>3, <1>4, <1>6 DEF EntryRecord, f

\* No relaunch: the entry is forgotten after a quiet stretch, and otherwise keeps its count
\* and its backoff.
LEMMA RestIsKept ==
  ASSUME NEW m \in EntryRecord, NEW outcome, ~Due(outcome, m)
  PROVE  LET e == Remembered(outcome, m)
             h == Healthy(outcome, m)
         IN  /\ e \in EntryRecord
             /\ \/ e = Forgotten /\ outcome = "tray-running" /\ h >= Quiet
                \/ /\ e.flaps = m.flaps /\ e.attempts \in {0, m.attempts} /\ e.wait = m.wait /\ e.healthy = h
                   /\ ~(outcome = "tray-running" /\ m.flaps > 0 /\ h >= Quiet)
<1> DEFINE h == Healthy(outcome, m)
           x == IF outcome = "recover" THEN m.misses + 1 ELSE 0
           y == IF outcome \in {"tray-running", "opt-out", "quit"} THEN 0 ELSE m.attempts
           n == [m EXCEPT !.healthy = h, !.misses = x, !.attempts = y]
<1>1. h \in Nat /\ x \in Nat /\ y \in Nat /\ y \in {0, m.attempts}
  BY HealthyIs DEF EntryRecord
<1>2. Remembered(outcome, m) = IF outcome = "tray-running" /\ m.flaps > 0 /\ h >= Quiet THEN Forgotten ELSE n
  BY DEF Remembered
<1> HIDE DEF h, x, y
<1>3. n \in EntryRecord /\ n.healthy = h /\ n.attempts = y /\ n.flaps = m.flaps /\ n.wait = m.wait
  BY <1>1 DEF EntryRecord
<1> HIDE DEF n
<1> QED BY <1>1, <1>2, <1>3, ForgottenIs DEF h

-----------------------------------------------------------------------------
(* The steps of the machine and of the loop.                                 *)

LEMMA WatchInvInit == WatchInit => WatchInv
<1> SUFFICES ASSUME WatchInit PROVE WatchInv
  OBVIOUS
<1>1. user \in [User -> UserRecord] /\ mem \in [User -> EntryRecord] /\ \A u \in User : mem[u] = Forgotten
  BY ForgottenIs DEF WatchInit, LoggedOff, UserRecord
<1>2. tick \in TickRecord /\ tick.pc = "idle" /\ log \in LogRecord
  BY WatchConstants DEF WatchInit, NoTick, TickRecord, LogRecord
<1>3. history \in SeenRecord /\ history.line = Every /\ \A u \in User : history.runs[u] = 0
  BY WatchConstants DEF WatchInit, SeenRecord
<1>4. \A u \in User : EntryOK(u)
  <2> SUFFICES ASSUME NEW u \in User PROVE EntryOK(u)
    OBVIOUS
  <2>1. mem[u].flaps = 0 /\ mem[u].attempts = 0 /\ history.runs[u] = 0 /\ ~(history.runs[u] > 0)
    BY <1>1, <1>3, ForgottenIs
  <2> QED BY <2>1 DEF EntryOK
<1>5. LineOK
  BY <1>3, WatchConstants DEF LineOK
<1> QED BY <1>1, <1>2, <1>3, <1>4, <1>5 DEF WatchInv, WatchTypeOK

\* The machine changes, or a tick ends: nothing is remembered or written.
LEMMA MachineKeeps ==
  ASSUME WatchInv, UNCHANGED <<mem, log, history>>, user' \in [User -> UserRecord], tick' \in TickRecord,
         tick' = tick \/ tick'.pc # "probing"
  PROVE  WatchInv'
<1>1. Begun' \in {0, 1} /\ Begun \in {0, 1} /\ Begun' <= Begun
  BY DEF Begun
<1>2. WatchTypeOK'
  BY DEF WatchInv, WatchTypeOK
<1>3. LineOK'
  BY <1>1 DEF WatchInv, WatchTypeOK, LineOK, LogRecord, SeenRecord
<1>4. ASSUME NEW u \in User PROVE EntryOK(u)'
  <2>1. EntryOK(u) /\ history.runs[u] \in Nat /\ history.gap[u] \in Nat /\ mem[u].wait \in Int
    BY DEF WatchInv, WatchTypeOK, SeenRecord, EntryRecord
  <2>2. Backoff(history.runs[u]) \in Int
    BY <2>1, BackoffIs
  <2>3. Backoff(history.runs[u])' = Backoff(history.runs[u])
    BY DEF Backoff
  <2> QED BY <1>1, <2>1, <2>2, <2>3 DEF EntryOK
<1>5. tick'.pc = "probing" => tick'.targets = {}
  BY DEF WatchInv
<1> QED BY <1>2, <1>3, <1>4, <1>5 DEF WatchInv

LEMMA NoTickIs == NoTick \in TickRecord /\ NoTick.pc = "idle"
BY DEF NoTick, TickRecord

LEMMA WorldKeeps ==
  ASSUME WatchInv,
         \/ InstallBegins \/ InstallEnds \/ Sweep \/ ProbeFails
         \/ \E u \in User :
              LogOn(u) \/ ShellEnds(u) \/ SetConsent(u) \/ TrayStarts(u) \/ TrayEnds(u) \/ Relaunch(u) \/ RelaunchFails(u)
  PROVE  WatchInv'
<1>t. user \in [User -> UserRecord] /\ tick \in TickRecord
  BY DEF WatchInv, WatchTypeOK
<1>1. CASE InstallBegins \/ InstallEnds \/ Sweep \/ ProbeFails
  <2>1. user' \in [User -> UserRecord]
    BY <1>t, <1>1 DEF InstallBegins, InstallEnds, Sweep, ProbeFails, UserRecord
  <2>2. UNCHANGED <<mem, log, history>> /\ (tick' = tick \/ tick' = NoTick)
    BY <1>1 DEF InstallBegins, InstallEnds, Sweep, ProbeFails
  <2> QED BY <1>t, <2>1, <2>2, NoTickIs, MachineKeeps
<1>2. ASSUME NEW u \in User, LogOn(u) \/ ShellEnds(u) \/ SetConsent(u) \/ TrayStarts(u) \/ TrayEnds(u)
      PROVE  WatchInv'
  <2>1. UNCHANGED <<mem, log, history, tick>>
    BY <1>2 DEF LogOn, ShellEnds, SetConsent, TrayStarts, TrayEnds
  <2>2. user[u] \in UserRecord
    BY <1>t
  <2>3. \E r \in UserRecord : user' = [user EXCEPT ![u] = r]
    <3>1. CASE LogOn(u)
      <4>1. user' = [user EXCEPT ![u] = [user[u] EXCEPT !.shell = TRUE]]
        BY <1>t, <3>1 DEF LogOn
      <4>2. [user[u] EXCEPT !.shell = TRUE] \in UserRecord
        BY <2>2 DEF UserRecord
      <4> QED BY <4>1, <4>2
    <3>2. CASE ShellEnds(u)
      <4>1. PICK tray \in BOOLEAN : user' = [user EXCEPT ![u].shell = FALSE, ![u].tray = tray]
        BY <2>2, <3>2 DEF ShellEnds, UserRecord
      <4>2. user' = [user EXCEPT ![u] = [user[u] EXCEPT !.shell = FALSE, !.tray = tray]]
        BY <1>t, <4>1
      <4>3. [user[u] EXCEPT !.shell = FALSE, !.tray = tray] \in UserRecord
        BY <2>2 DEF UserRecord
      <4> QED BY <4>2, <4>3
    <3>3. CASE SetConsent(u)
      <4>1. PICK c \in {"wanted", "opt-out", "quit"} :
              user' = [user EXCEPT ![u].consent = c, ![u].tray = user[u].tray /\ c # "quit"]
        BY <1>t, <3>3 DEF SetConsent
      <4> DEFINE b == user[u].tray /\ c # "quit"
      <4>2. user' = [user EXCEPT ![u] = [user[u] EXCEPT !.consent = c, !.tray = b]] /\ b \in BOOLEAN
        BY <1>t, <4>1
      <4> HIDE DEF b
      <4>3. [user[u] EXCEPT !.consent = c, !.tray = b] \in UserRecord
        BY <2>2, <4>2 DEF UserRecord
      <4> QED BY <4>2, <4>3
    <3>4. CASE TrayStarts(u) \/ TrayEnds(u)
      <4>1. PICK tray \in BOOLEAN : user' = [user EXCEPT ![u] = [user[u] EXCEPT !.tray = tray]]
        BY <1>t, <3>4 DEF TrayStarts, TrayEnds
      <4>2. [user[u] EXCEPT !.tray = tray] \in UserRecord
        BY <2>2 DEF UserRecord
      <4> QED BY <4>1, <4>2
    <3> QED BY <1>2, <3>1, <3>2, <3>3, <3>4
  <2>4. user' \in [User -> UserRecord]
    BY <1>t, <2>3
  <2> QED BY <1>t, <2>1, <2>4, MachineKeeps
<1>3. ASSUME NEW u \in User, Relaunch(u) \/ RelaunchFails(u) PROVE WatchInv'
  <2>1. UNCHANGED <<mem, log, history>> /\ tick' = Triggered(u) /\ u \in tick.targets
    BY <1>3 DEF Relaunch, RelaunchFails
  <2>2. tick.pc # "probing"
    BY <2>1 DEF WatchInv
  <2>3. tick' \in TickRecord /\ tick'.pc # "probing"
    BY <1>t, <2>1, <2>2, NoTickIs DEF Triggered, TickRecord
  <2>4. user' \in [User -> UserRecord]
    BY <1>t, <1>3 DEF Relaunch, RelaunchFails, UserRecord
  <2> QED BY <2>1, <2>3, <2>4, MachineKeeps
<1> QED BY <1>1, <1>2, <1>3

\* The timer fires: one more tick has passed for everybody.
LEMMA TickStartsKeeps == ASSUME WatchInv, TickStarts PROVE WatchInv'
<1>t. WatchTypeOK /\ tick.pc # "probing"
  BY DEF WatchInv, TickStarts
<1>1. UNCHANGED <<user, mem, log>> /\ tick'.pc = "probing" /\ tick'.targets = {} /\ tick' \in TickRecord
  BY DEF TickStarts, TrayOwners, NoTick, TickRecord
<1> DEFINE l == Least(history.line + 1, Every)
           g == [u \in User |-> Least(history.gap[u] + 1, Ceiling)]
<1>2. history \in [line : Nat, gap : [User -> Nat], calm : [User -> Nat], runs : [User -> Nat]]
  BY <1>t DEF WatchTypeOK, SeenRecord
<1>3. l \in Nat /\ g \in [User -> Nat] /\ \A u \in User : g[u] = Least(history.gap[u] + 1, Ceiling)
  BY <1>2, WatchConstants DEF Least
<1>4. history' = [history EXCEPT !.line = l, !.gap = g]
  BY DEF TickStarts
<1> HIDE DEF g
<1>5. history' \in SeenRecord /\ history'.line = l /\ history'.gap = g /\ history'.calm = history.calm
      /\ history'.runs = history.runs
  <2> HIDE DEF l
  <2> QED BY <1>2, <1>3, <1>4 DEF SeenRecord
<1>6. WatchTypeOK'
  BY <1>t, <1>1, <1>5 DEF WatchTypeOK
<1>7. Begun = 0 /\ Begun' = 1
  BY <1>t, <1>1 DEF Begun
<1>8. LineOK'
  <2>1. log.since \in Nat /\ history.line \in Nat /\ (history.line >= Every \/ history.line >= log.since)
    BY <1>t, <1>2, <1>7 DEF WatchInv, LineOK, WatchTypeOK, LogRecord
  <2> QED BY <1>1, <1>5, <1>7, <2>1, WatchConstants DEF LineOK, Least
<1>9. ASSUME NEW u \in User PROVE EntryOK(u)'
  <2>1. EntryOK(u) /\ history.runs[u] \in Nat /\ history.gap[u] \in Nat /\ mem[u].wait \in Int
    BY <1>t, <1>2 DEF WatchInv, WatchTypeOK, EntryRecord
  <2> DEFINE b == Backoff(history.runs[u])
  <2>2. b \in Int /\ (history.runs[u] > 0 => b <= Ceiling)
    BY <2>1, BackoffIs
  <2>3. Backoff(history.runs[u])' = b
    BY <1>5 DEF Backoff
  <2>4. history.runs[u] > 0 => history.gap[u] >= b \/ history.gap[u] + mem[u].wait >= b
    BY <1>7, <2>1, <2>2 DEF EntryOK
  <2> HIDE DEF b
  <2>5. history.runs[u] > 0 => g[u] >= b \/ g[u] + mem[u].wait >= b + 1
    BY <1>3, <2>1, <2>2, <2>4, WatchConstants DEF Least
  <2> QED BY <1>1, <1>5, <1>7, <2>1, <2>3, <2>5 DEF EntryOK
<1> QED BY <1>1, <1>6, <1>8, <1>9 DEF WatchInv

-----------------------------------------------------------------------------
(* The decision of a tick.                                                   *)

\* What the tick makes of a user it has seen: a relaunch needs a backoff that is over.
LEMMA VerdictIs ==
  ASSUME WatchTypeOK, NEW u \in User, NEW owners, NEW m \in EntryRecord
  PROVE  /\ Verdict(u, owners, m) = "tray-running" <=> u \in owners
         /\ Due(Verdict(u, owners, m), m) => ~(m.wait > 0) /\ u \notin owners
<1>1. user[u].consent \in {"wanted", "opt-out", "quit"}
  BY DEF WatchTypeOK, UserRecord
<1>2. CASE u \in owners
  BY <1>2 DEF Verdict, Due
<1>3. CASE u \notin owners /\ user[u].consent = "opt-out"
  BY <1>3 DEF Verdict, Due, AutoStart, QuitMarker
<1>4. CASE u \notin owners /\ user[u].consent = "quit"
  BY <1>4 DEF Verdict, Due, AutoStart, QuitMarker
<1>5. CASE u \notin owners /\ user[u].consent = "wanted"
  <2>1. AutoStart(u) /\ ~QuitMarker(u)
    BY <1>5 DEF AutoStart, QuitMarker
  <2>2. CASE Blocked
    BY <1>5, <2>1, <2>2 DEF Verdict, Due
  <2>3. CASE ~Blocked /\ m.wait > 0
    BY <1>5, <2>1, <2>3 DEF Verdict, Due
  <2>4. CASE ~Blocked /\ ~(m.wait > 0)
    BY <1>5, <2>1, <2>4 DEF Verdict, Due
  <2> QED BY <2>2, <2>3, <2>4
<1> QED BY <1>1, <1>2, <1>3, <1>4, <1>5

\* The entry m, aged by this tick, agrees with run relaunches, the last of them gap ticks
\* ago, and a tray seen for calm ticks.
Agrees(m, run, gap, calm) ==
  /\ m.flaps = run /\ m.attempts <= m.flaps
  /\ run > 0 => m.healthy = calm /\ calm < Quiet /\ (gap >= Backoff(run) \/ gap + m.wait >= Backoff(run))

LEMMA RelaunchAgrees ==
  ASSUME NEW m \in EntryRecord, NEW run \in Nat, NEW gap \in Nat, NEW calm \in Nat, Agrees(m, run, gap, calm),
         NEW o, Due(o, m)
  PROVE  LET e == Kept(Remembered(o, m))
         IN  e \in EntryRecord /\ Agrees(e, Least(run + 1, Worst), 0, 0)
<1> DEFINE x == Remembered(o, m)
           r == Least(run + 1, Worst)
<1>1. m.flaps = run /\ m.attempts <= m.flaps
  BY DEF Agrees
<1>2. x \in EntryRecord /\ x.flaps = r /\ x.flaps > 0 /\ x.attempts <= x.flaps /\ x.wait = Backoff(r) /\ x.healthy = 0
  BY <1>1, RelaunchIsCounted
<1>3. r \in Nat
  BY WatchConstants DEF Least
<1> HIDE DEF x, r
<1>4. Kept(x) = x
  BY <1>2, KeptIs
<1>5. Backoff(r) \in Int
  BY <1>3, BackoffIs
<1>6. 0 + x.wait >= Backoff(r)
  BY <1>2, <1>5
<1>7. Agrees(x, r, 0, 0)
  BY <1>2, <1>6, WatchConstants DEF Agrees
<1> QED BY <1>2, <1>4, <1>7 DEF x, r

LEMMA RestAgrees ==
  ASSUME NEW m \in EntryRecord, NEW run \in Nat, NEW gap \in Nat, NEW calm \in Nat, Agrees(m, run, gap, calm),
         NEW o, ~Due(o, m), NEW c, c = IF o = "tray-running" THEN Least(calm + 1, Quiet) ELSE 0
  PROVE  LET e == Kept(Remembered(o, m))
         IN  e \in EntryRecord /\ Agrees(e, IF c = Quiet THEN 0 ELSE run, gap, c)
<1> DEFINE x == Remembered(o, m)
           h == Healthy(o, m)
           r == IF c = Quiet THEN 0 ELSE run
<1>1. /\ m.flaps = run /\ m.attempts <= m.flaps /\ m.attempts \in Nat
      /\ run > 0 => m.healthy = calm /\ calm < Quiet /\ (gap >= Backoff(run) \/ gap + m.wait >= Backoff(run))
  BY DEF Agrees, EntryRecord
<1>2. h = IF o = "tray-running" THEN Least(m.healthy + 1, Quiet) ELSE 0
  BY HealthyIs
<1>3. c \in Nat /\ c <= Quiet
  BY WatchConstants DEF Least
<1>4. run > 0 => h = c
  BY <1>1, <1>2
<1>5. /\ x \in EntryRecord
      /\ \/ x = Forgotten /\ o = "tray-running" /\ h >= Quiet
         \/ /\ x.flaps = m.flaps /\ x.attempts \in {0, m.attempts} /\ x.wait = m.wait /\ x.healthy = h
            /\ ~(o = "tray-running" /\ m.flaps > 0 /\ h >= Quiet)
  BY RestIsKept
<1> HIDE DEF x, h
<1>6. /\ Kept(x) \in EntryRecord /\ Kept(x).flaps = x.flaps /\ Kept(x).attempts = x.attempts
      /\ x.flaps > 0 => Kept(x) = x
  BY <1>5, KeptIs
<1>7. CASE x = Forgotten /\ o = "tray-running" /\ h >= Quiet
  <2>1. run > 0 => c = Quiet
    BY <1>3, <1>4, <1>7, WatchConstants
  <2>2. r = 0 /\ ~(r > 0)
    BY <2>1
  <2>3. Kept(x).flaps = 0 /\ Kept(x).attempts = 0
    BY <1>6, <1>7, ForgottenIs
  <2> HIDE DEF r
  <2>4. Agrees(Kept(x), r, gap, c)
    BY <2>2, <2>3 DEF Agrees
  <2> QED BY <1>6, <2>4 DEF x, r
<1>8. CASE /\ x.flaps = m.flaps /\ x.attempts \in {0, m.attempts} /\ x.wait = m.wait /\ x.healthy = h
           /\ ~(o = "tray-running" /\ m.flaps > 0 /\ h >= Quiet)
  <2>1. run > 0 => c < Quiet
    <3>1. CASE o = "tray-running"
      BY <1>1, <1>3, <1>4, <1>8, <3>1, WatchConstants
    <3>2. CASE o # "tray-running"
      BY <3>2, WatchConstants
    <3> QED BY <3>1, <3>2
  <2>2. r = run
    BY <1>3, <2>1, WatchConstants
  <2>3. Kept(x).flaps = run /\ Kept(x).attempts <= Kept(x).flaps
    BY <1>1, <1>6, <1>8
  <2>4. run > 0 => Kept(x).healthy = c /\ Kept(x).wait = m.wait
    BY <1>1, <1>4, <1>6, <1>8
  <2>5. Agrees(Kept(x), run, gap, c)
    BY <1>1, <2>1, <2>3, <2>4 DEF Agrees
  <2> QED BY <1>6, <2>2, <2>5 DEF x
<1> QED BY <1>5, <1>7, <1>8

\* The invariant of an entry in a probing tick, after the backoff has aged.
LEMMA AgedAgrees ==
  ASSUME WatchInv, tick.pc = "probing", NEW u \in User
  PROVE  LET m == Aged(mem[u])
         IN  /\ m \in EntryRecord /\ history.runs[u] \in Nat /\ history.gap[u] \in Nat /\ history.calm[u] \in Nat
             /\ Agrees(m, history.runs[u], history.gap[u], history.calm[u])
             /\ history.runs[u] > 0 /\ ~(m.wait > 0) => history.gap[u] >= Backoff(history.runs[u])
<1>1. EntryOK(u) /\ mem[u] \in EntryRecord /\ history.gap[u] \in Nat /\ history.calm[u] \in Nat /\ history.runs[u] \in Nat
  BY DEF WatchInv, WatchTypeOK, SeenRecord
<1> DEFINE m == Aged(mem[u])
<1>2. /\ m \in EntryRecord /\ m.attempts = mem[u].attempts /\ m.flaps = mem[u].flaps /\ m.healthy = mem[u].healthy
      /\ m.wait = Less(mem[u].wait)
  BY <1>1, AgedIs
<1> HIDE DEF m
<1>3. mem[u].wait \in Int /\ m.wait \in Int /\ m.wait >= mem[u].wait - 1 /\ (~(m.wait > 0) => mem[u].wait <= 1)
  BY <1>1, <1>2 DEF Less, EntryRecord
<1> DEFINE b == Backoff(history.runs[u])
<1>4. b \in Int
  BY <1>1, BackoffIs
<1>5. /\ mem[u].flaps = history.runs[u] /\ mem[u].attempts <= mem[u].flaps
      /\ history.runs[u] > 0 =>
           /\ mem[u].healthy = history.calm[u] /\ history.calm[u] < Quiet
           /\ history.gap[u] >= b \/ history.gap[u] + mem[u].wait >= b + 1
  BY <1>1 DEF EntryOK, Begun
<1> HIDE DEF b
<1>6. history.runs[u] > 0 =>
        /\ history.gap[u] >= b \/ history.gap[u] + m.wait >= b
        /\ ~(m.wait > 0) => history.gap[u] >= b
  BY <1>1, <1>3, <1>4, <1>5
<1>7. Agrees(m, history.runs[u], history.gap[u], history.calm[u])
  BY <1>2, <1>5, <1>6 DEF Agrees, b
<1> QED BY <1>1, <1>2, <1>6, <1>7 DEF m, b

\* What a tick leaves of a user: the entry, and what the history says.
LEMMA UserAfter ==
  ASSUME WatchInv, tick.pc = "probing", NEW u \in User, NEW seen \in SUBSET User, NEW skipped \in BOOLEAN,
         NEW wrote \in BOOLEAN
  PROVE  LET e == Evaluated(seen, skipped)[u]
             after == Remember(seen, skipped, wrote)
         IN  /\ e \in EntryRecord /\ after.gap[u] \in Nat /\ after.calm[u] \in Nat /\ after.runs[u] \in Nat
             /\ Agrees(e, after.runs[u], after.gap[u], after.calm[u])
             /\ u \in Targets(seen) /\ history.runs[u] > 0 => history.gap[u] >= Backoff(history.runs[u])
<1> DEFINE m == Aged(mem[u])
           o == Verdict(u, tick.owners, m)
           run == history.runs[u]
           gap == history.gap[u]
           calm == history.calm[u]
<1>1. /\ m \in EntryRecord /\ run \in Nat /\ gap \in Nat /\ calm \in Nat /\ Agrees(m, run, gap, calm)
      /\ run > 0 /\ ~(m.wait > 0) => gap >= Backoff(run)
  BY AgedAgrees
<1>2. (o = "tray-running" <=> u \in tick.owners) /\ (Due(o, m) => ~(m.wait > 0) /\ u \notin tick.owners)
  BY <1>1, VerdictIs DEF WatchInv
<1> DEFINE e == Evaluated(seen, skipped)[u]
           after == Remember(seen, skipped, wrote)
<1>3. /\ e = IF u \in seen THEN Kept(Remembered(o, m)) ELSE Unseen(m, skipped)
      /\ u \in Targets(seen) <=> u \in seen /\ Due(o, m)
  BY DEF Evaluated, Targets
<1>4. /\ after.gap[u] = IF u \in Targets(seen) THEN 0 ELSE gap
      /\ after.calm[u] = Calm(u, seen)
      /\ after.runs[u] = IF u \in Targets(seen) THEN Least(run + 1, Worst)
                         ELSE IF Calm(u, seen) = Quiet \/ (u \notin seen /\ ~skipped) THEN 0 ELSE run
  BY DEF Remember
<1>5. Calm(u, seen) = IF u \in seen /\ u \in tick.owners THEN Least(calm + 1, Quiet)
                      ELSE IF u \in seen THEN 0 ELSE calm
  BY DEF Calm
<1> HIDE DEF m, o, run, gap, calm, e, after
<1>6. Least(run + 1, Worst) \in Nat /\ Least(calm + 1, Quiet) \in Nat
  BY <1>1, WatchConstants DEF Least
<1>7. CASE u \in seen /\ Due(o, m)
  <2>1. after.gap[u] = 0 /\ after.calm[u] = 0 /\ after.runs[u] = Least(run + 1, Worst)
    BY <1>2, <1>3, <1>4, <1>5, <1>7
  <2>2. e \in EntryRecord /\ Agrees(e, Least(run + 1, Worst), 0, 0)
    BY <1>1, <1>3, <1>7, RelaunchAgrees
  <2> QED BY <1>1, <1>2, <1>6, <1>7, <2>1, <2>2 DEF e, after, run, gap
<1>8. CASE u \in seen /\ ~Due(o, m)
  <2> DEFINE c == Calm(u, seen)
  <2>1. c = (IF o = "tray-running" THEN Least(calm + 1, Quiet) ELSE 0) /\ c \in Nat
    BY <1>2, <1>5, <1>6, <1>8
  <2>2. /\ after.gap[u] = gap /\ after.calm[u] = c /\ after.runs[u] = (IF c = Quiet THEN 0 ELSE run)
        /\ u \notin Targets(seen)
    BY <1>3, <1>4, <1>8
  <2> HIDE DEF c
  <2>3. e \in EntryRecord /\ Agrees(e, IF c = Quiet THEN 0 ELSE run, gap, c)
    BY <1>1, <1>3, <1>8, <2>1, RestAgrees
  <2> QED BY <1>1, <2>1, <2>2, <2>3 DEF e, after
<1>9. CASE u \notin seen
  <2>1. after.gap[u] = gap /\ after.calm[u] = calm /\ u \notin Targets(seen)
    BY <1>3, <1>4, <1>5, <1>9
  <2>2. CASE skipped
    <3>1. e = m /\ after.runs[u] = IF calm = Quiet THEN 0 ELSE run
      BY <1>3, <1>4, <1>5, <1>9, <2>1, <2>2 DEF Unseen
    <3>2. after.runs[u] = run
      BY <1>1, <3>1, WatchConstants DEF Agrees
    <3> QED BY <1>1, <2>1, <3>1, <3>2 DEF e, after
  <2>3. CASE ~skipped
    <3>1. e = Forgotten /\ after.runs[u] = 0
      BY <1>3, <1>4, <1>9, <2>1, <2>3 DEF Unseen
    <3>2. Agrees(Forgotten, 0, gap, calm)
      BY ForgottenIs DEF Agrees
    <3> QED BY <1>1, <2>1, <3>1, <3>2, ForgottenIs DEF e, after
  <2> QED BY <2>2, <2>3
<1> QED BY <1>7, <1>8, <1>9

\* The throttle after a tick, with the line that was or was not written.
LEMMA LineAfter ==
  ASSUME WatchInv, tick.pc = "probing", NEW skipped \in BOOLEAN, NEW ok \in BOOLEAN,
         NEW line, line = IF skipped /\ LineDue(log) THEN 0 ELSE history.line
  PROVE  /\ Logged(skipped, ok) \in LogRecord /\ line \in Nat
         /\ line >= Every \/ line >= Logged(skipped, ok).since
         /\ line = 0 => history.line >= Every
<1>1. log \in [since : Nat, file : {"usable", "disabled"}] /\ history.line \in Nat
      /\ (history.line >= Every \/ history.line >= log.since + 1)
  BY DEF WatchInv, WatchTypeOK, LogRecord, SeenRecord, LineOK, Begun
<1> DEFINE s == Least(log.since + 1, Every)
           n == log.since + 1
<1>2. s \in Nat /\ s <= log.since + 1 /\ s <= Every /\ n \in Nat /\ log.since \in Nat
  BY <1>1, WatchConstants DEF Least
<1>3. CASE ~skipped
  <2>1. Logged(skipped, ok) = [log EXCEPT !.since = s]
    BY <1>3 DEF Logged, Cleared
  <2> HIDE DEF s
  <2>2. Logged(skipped, ok) \in LogRecord /\ Logged(skipped, ok).since = s
    BY <1>1, <1>2, <2>1 DEF LogRecord
  <2>3. line = history.line
    BY <1>3
  <2> QED BY <1>1, <1>2, <2>2, <2>3, WatchConstants
<1>4. CASE skipped /\ LineDue(log)
  <2>1. history.line >= Every
    BY <1>1, <1>4, WatchConstants DEF LineDue
  <2> DEFINE h == [log EXCEPT !.since = 0]
             f == IF Usable(h, ok) THEN "usable" ELSE "disabled"
  <2>2. Logged(skipped, ok) = [h EXCEPT !.file = f]
    BY <1>4 DEF Logged, Wrote, Hit
  <2>3. f \in {"usable", "disabled"} /\ h \in LogRecord /\ h.since = 0
    BY <1>1 DEF LogRecord
  <2> HIDE DEF h, f
  <2>4. Logged(skipped, ok) \in LogRecord /\ Logged(skipped, ok).since = 0
    BY <2>2, <2>3 DEF LogRecord
  <2>5. line = 0
    BY <1>4
  <2> QED BY <2>1, <2>4, <2>5
<1>5. CASE skipped /\ ~LineDue(log)
  <2>1. Logged(skipped, ok) = [log EXCEPT !.since = n]
    BY <1>5 DEF Logged, Hit
  <2> HIDE DEF n
  <2>2. Logged(skipped, ok) \in LogRecord /\ Logged(skipped, ok).since = n
    BY <1>1, <1>2, <2>1 DEF LogRecord
  <2>3. line = history.line
    BY <1>5
  <2> QED BY <1>1, <1>2, <2>2, <2>3, WatchConstants DEF n
<1> QED BY <1>3, <1>4, <1>5

LEMMA DecideKeeps ==
  ASSUME WatchInv, Decide({})
  PROVE  /\ WatchInv'
         /\ \A u \in User : u \in tick'.targets /\ history.runs[u] > 0 => history.gap[u] >= Backoff(history.runs[u])
         /\ history'.line = 0 => history.line >= Every
<1>t. WatchTypeOK /\ tick.pc = "probing" /\ UNCHANGED <<user, install>>
  BY DEF WatchInv, Decide
<1>1. PICK seen \in Shells, skipped \in BOOLEAN, ok \in BOOLEAN : Evaluate(seen, skipped, ok)
  BY DEF Decide
<1>2. seen \in SUBSET User
  BY DEF Shells
<1> DEFINE wrote == skipped /\ LineDue(log)
<1>3. wrote \in BOOLEAN
  OBVIOUS
<1>4. /\ log' = Logged(skipped, ok) /\ history' = Remember(seen, skipped, wrote) /\ mem' = Evaluated(seen, skipped)
      /\ tick' = IF Targets(seen) = {} THEN NoTick
                 ELSE [NoTick EXCEPT !.pc = "triggering", !.targets = Targets(seen)]
  BY <1>1 DEF Evaluate
<1> HIDE DEF wrote
<1>5. Targets(seen) \in SUBSET User
  BY <1>2 DEF Targets
<1>6. tick' \in TickRecord /\ tick'.pc # "probing" /\ tick'.targets = Targets(seen)
  BY <1>4, <1>5 DEF NoTick, TickRecord
<1>7. ASSUME NEW u \in User
      PROVE  /\ mem'[u] \in EntryRecord /\ history'.gap[u] \in Nat /\ history'.calm[u] \in Nat /\ history'.runs[u] \in Nat
             /\ Agrees(mem'[u], history'.runs[u], history'.gap[u], history'.calm[u])
             /\ u \in Targets(seen) /\ history.runs[u] > 0 => history.gap[u] >= Backoff(history.runs[u])
  BY <1>t, <1>2, <1>3, <1>4, UserAfter
<1>8. history'.line = IF skipped /\ LineDue(log) THEN 0 ELSE history.line
  BY <1>4 DEF Remember, wrote
<1>9. /\ log' \in LogRecord /\ history'.line \in Nat /\ (history'.line >= Every \/ history'.line >= log'.since)
      /\ history'.line = 0 => history.line >= Every
  BY <1>t, <1>4, <1>8, LineAfter
<1>10. mem' \in [User -> EntryRecord]
  <2>1. DOMAIN mem' = User /\ mem' = [u \in User |-> mem'[u]]
    BY <1>4 DEF Evaluated
  <2> QED BY <1>7, <2>1
<1>11. history' \in SeenRecord
  <2> DEFINE g == [u \in User |-> IF u \in Targets(seen) THEN 0 ELSE history.gap[u]]
             c == [u \in User |-> Calm(u, seen)]
             r == [u \in User |->
                     IF u \in Targets(seen) THEN Least(history.runs[u] + 1, Worst)
                     ELSE IF Calm(u, seen) = Quiet \/ (u \notin seen /\ ~skipped) THEN 0
                     ELSE history.runs[u]]
             l == IF wrote THEN 0 ELSE history.line
  <2>1. history' = [line |-> l, gap |-> g, calm |-> c, runs |-> r]
    BY <1>4 DEF Remember
  <2>2. (\A u \in User : g[u] = history'.gap[u] /\ c[u] = history'.calm[u] /\ r[u] = history'.runs[u]) /\ l = history'.line
    BY <2>1
  <2>3. g \in [User -> Nat] /\ c \in [User -> Nat] /\ r \in [User -> Nat] /\ l \in Nat
    <3>1. \A u \in User : g[u] \in Nat /\ c[u] \in Nat /\ r[u] \in Nat
      BY <1>7, <2>2
    <3>2. l \in Nat
      BY <1>9, <2>2
    <3> QED BY <3>1, <3>2
  <2> HIDE DEF g, c, r, l
  <2> QED BY <2>1, <2>3 DEF SeenRecord
<1>12. WatchTypeOK'
  BY <1>t, <1>6, <1>9, <1>10, <1>11 DEF WatchTypeOK
<1>13. Begun' = 0
  BY <1>6 DEF Begun
<1>14. LineOK'
  BY <1>9, <1>13 DEF LineOK, LogRecord
<1>15. ASSUME NEW u \in User PROVE EntryOK(u)'
  <2> DEFINE b == Backoff(history.runs[u])'
  <2>1. b = Backoff(history'.runs[u]) /\ b \in Int
    BY <1>7, BackoffIs
  <2> QED BY <1>7, <1>13, <2>1 DEF EntryOK, Agrees, EntryRecord
<1> QED BY <1>6, <1>7, <1>9, <1>12, <1>14, <1>15 DEF WatchInv

-----------------------------------------------------------------------------
(* What the watchdog promises.                                               *)

LEMMA WatchStep ==
  ASSUME WatchInv, [WatchNext]_watchVars
  PROVE  /\ WatchInv'
         /\ tick.pc = "probing" =>
              /\ \A u \in User : u \in tick'.targets /\ history.runs[u] > 0 => history.gap[u] >= Backoff(history.runs[u])
              /\ log' # log /\ history'.line = 0 => history.line >= Every
<1>1. CASE UNCHANGED watchVars
  <2>1. UNCHANGED <<user, mem, tick, log, history>>
    BY <1>1 DEF watchVars
  <2>2. WatchInv'
    BY <2>1, MachineKeeps DEF WatchInv, WatchTypeOK
  <2> QED BY <2>1, <2>2 DEF WatchInv
<1>2. CASE TickStarts
  BY <1>2, TickStartsKeeps DEF TickStarts
<1>3. CASE Decide({})
  BY <1>3, DecideKeeps
<1>4. ASSUME \/ InstallBegins \/ InstallEnds \/ Sweep \/ ProbeFails
             \/ \E u \in User :
                  LogOn(u) \/ ShellEnds(u) \/ SetConsent(u) \/ TrayStarts(u) \/ TrayEnds(u) \/ Relaunch(u) \/ RelaunchFails(u)
      PROVE  /\ WatchInv'
             /\ log' = log
             /\ tick.pc = "probing" => tick'.targets = {}
  <2>1. WatchInv'
    BY <1>4, WorldKeeps
  <2>2. log' = log
    BY <1>4 DEF InstallBegins, InstallEnds, Sweep, ProbeFails, LogOn, ShellEnds, SetConsent, TrayStarts, TrayEnds,
                Relaunch, RelaunchFails
  <2>3. tick.pc = "probing" => tick.targets = {}
    BY DEF WatchInv
  <2>4. tick' = tick \/ tick' = NoTick \/ tick.targets # {}
    BY <1>4 DEF InstallBegins, InstallEnds, Sweep, ProbeFails, LogOn, ShellEnds, SetConsent, TrayStarts, TrayEnds,
                Relaunch, RelaunchFails
  <2> QED BY <2>1, <2>2, <2>3, <2>4 DEF NoTick
<1> QED BY <1>1, <1>2, <1>3, <1>4 DEF WatchNext

\* The invariant the results of the watchdog rest on: what WatchdogState.users remembers is
\* what happened (evaluateTick of win-watchdog.ts).
THEOREM WatchIsInvariant == WatchSpec => []WatchInv
<1>1. WatchInv /\ [WatchNext]_watchVars => WatchInv'
  BY WatchStep
<1> QED BY <1>1, WatchInvInit, PTL DEF WatchSpec

\* A tray that keeps dying is relaunched ever more slowly: between two relaunches lies the
\* backoff for all relaunches since the last quiet stretch, for any number of users and
\* any installs, consent, failed and partial ticks (evaluateTick of win-watchdog.ts).
THEOREM RelaunchesSlowDown == WatchSpec => NoRelaunchStorm
<1>1. WatchInv /\ [WatchNext]_watchVars =>
        [\A u \in User :
           (tick.pc = "probing" /\ u \in tick'.targets /\ history.runs[u] > 0)
             => history.gap[u] >= Backoff(history.runs[u])]_watchVars
  BY WatchStep
<1> QED BY <1>1, WatchIsInvariant, PTL DEF WatchSpec, NoRelaunchStorm

\* A condition that comes and goes writes no more than one line in Every ticks
\* (createLogThrottle of win-watchdog.ts).
THEOREM LogHasARate == WatchSpec => LogRate
<1>1. WatchInv /\ [WatchNext]_watchVars =>
        [(tick.pc = "probing" /\ log' # log /\ history'.line = 0) => history.line >= Every]_watchVars
  BY WatchStep
<1> QED BY <1>1, WatchIsInvariant, PTL DEF WatchSpec, LogRate

-----------------------------------------------------------------------------
(* The service: the inductive invariant.                                     *)

SupRecord == [pc : {"none", "doomed", "scan", "run", "quit"}, grace : BOOLEAN]

ServiceTypeOK ==
  /\ disk \in [now : {"none", "old", "new"}, bak : {"none", "old", "new"}, lock : BOOLEAN]
  /\ sup \in [Agent -> SupRecord]
  /\ worker \in [Agent -> {"none", "boot", "start", "up", "stuck"}]
  /\ "pc" \in DOMAIN upd

Removed == un \in {"scopes", "verify", "done"}
Uninstalling == un \in {"stop", "scan"} \/ Removed

\* One agent serves.  Nobody updates while an uninstall is on its way; and once it has
\* looked, there is no program: what starts then does not run.
ServiceInv ==
  /\ ServiceTypeOK
  /\ \A a, b \in Agent : Serves(a) /\ Serves(b) => a = b
  /\ Uninstalling => upd.pc = "idle"
  /\ Removed => disk.now = "none" /\ \A a \in Agent : sup[a].pc \in {"none", "doomed"} /\ worker[a] = "none"

LEMMA NoSupIs == NoSup \in SupRecord /\ NoSup.pc = "none"
BY DEF NoSup, SupRecord

LEMMA BornIs ==
  /\ Born \in SupRecord /\ Born.pc \in {"doomed", "scan"}
  /\ disk.now = "none" => Born.pc = "doomed"
BY DEF Born, SupRecord

LEMMA SpawnedIs == ASSUME NEW p \in SupRecord PROVE Spawned(p) \in SupRecord /\ Spawned(p).pc = "run"
BY DEF Spawned, SupRecord

LEMMA SignalledIs ==
  ASSUME NEW p \in SupRecord
  PROVE  Signalled(p) \in SupRecord /\ Signalled(p).pc \in {"none", "quit"}
BY DEF Signalled, SupRecord

LEMMA ServiceInvInit == Init => ServiceInv
<1> SUFFICES ASSUME Init PROVE ServiceInv
  OBVIOUS
<1>1. "pc" \in DOMAIN upd
  BY DEF Init
<1>2. disk \in [now : {"none", "old", "new"}, bak : {"none", "old", "new"}, lock : BOOLEAN]
  BY DEF Init
<1>3. PICK p \in {NoSup, Born} : sup = [unit |-> NoSup, hand |-> p]
  BY DEF Init
<1>4. sup \in [Agent -> SupRecord] /\ sup["unit"].pc # "run" /\ sup["hand"].pc # "run"
  BY <1>3, NoSupIs, BornIs DEF Agent
<1>5. worker \in [Agent -> {"none", "boot", "start", "up", "stuck"}] /\ \A a \in Agent : worker[a] = "none"
  BY DEF Init
<1>6. ServiceTypeOK
  BY <1>1, <1>2, <1>4, <1>5 DEF ServiceTypeOK
<1>7. \A a \in Agent : ~Serves(a)
  BY <1>4, <1>5 DEF Serves, Agent
<1>8. un = "idle"
  BY DEF Init
<1> QED BY <1>6, <1>7, <1>8 DEF ServiceInv, Uninstalling, Removed

\* A step on which nobody begins to serve, and no uninstall gets past its look.
LEMMA NobodyBegins ==
  ASSUME ServiceInv, ServiceTypeOK', \A a \in Agent : Serves(a)' => Serves(a),
         Uninstalling' => Uninstalling /\ upd'.pc = upd.pc,
         Removed' => Removed /\ disk'.now = disk.now,
         \A a \in Agent : sup'[a].pc = sup[a].pc \/ sup'[a].pc \in {"none", "doomed"} \/ ~Removed',
         \A a \in Agent : worker'[a] = worker[a] \/ worker'[a] = "none" \/ ~Removed'
  PROVE  ServiceInv'
BY DEF ServiceInv

-----------------------------------------------------------------------------
(* The steps of the service.                                                 *)

LEMMA StopIs ==
  ASSUME ServiceTypeOK, NEW again, NEW enabled, Stop(again, enabled)
  PROVE  /\ sup' \in [Agent -> SupRecord]
         /\ \A a \in Agent : sup'[a].pc = sup[a].pc \/ sup'[a].pc \in {"none", "quit"}
<1>1. sup["unit"] \in SupRecord
  BY DEF ServiceTypeOK, Agent
<1>2. PICK p \in {Signalled(sup["unit"]), sup["unit"]} : sup' = [sup EXCEPT !["unit"] = p]
  BY DEF Stop
<1>3. p \in SupRecord /\ (p.pc = sup["unit"].pc \/ p.pc \in {"none", "quit"})
  BY <1>1, <1>2, SignalledIs
<1> QED BY <1>2, <1>3 DEF ServiceTypeOK, Agent

\* No update is on its way while an uninstall is; and it starts no process itself.
LEMMA UpdateKeeps == ASSUME ServiceInv, Launch \/ Update PROVE ServiceInv'
<1>t. ServiceTypeOK
  BY DEF ServiceInv
<1>1. UNCHANGED <<worker, un>>
  BY DEF Launch, Update, Begin, Swap, Installed, Settled, Judge, Rollback, RolledBack
<1>2. ~Uninstalling
  <2>1. CASE Launch
    BY <2>1 DEF Launch, Free, Uninstalling, Removed
  <2>2. CASE Update
    <3>1. upd.pc # "idle"
      BY <2>2 DEF Update, Begin, Swap, Installed, Settled, Judge, Rollback, RolledBack
    <3> QED BY <3>1 DEF ServiceInv
  <2> QED BY <2>1, <2>2
<1>3. ~Uninstalling' /\ ~Removed'
  BY <1>1, <1>2 DEF Uninstalling, Removed
<1>4. /\ sup' \in [Agent -> SupRecord]
      /\ \A a \in Agent : sup'[a].pc = sup[a].pc \/ sup'[a].pc \in {"none", "quit"}
  <2>1. CASE UNCHANGED sup
    BY <1>t, <2>1 DEF ServiceTypeOK
  <2>2. CASE \E again, enabled \in BOOLEAN \cup {unit.enabled} : Stop(again, enabled)
    BY <1>t, <2>2, StopIs
  <2>3. UNCHANGED sup \/ Stop(TRUE, TRUE) \/ Stop(FALSE, TRUE) \/ Stop(TRUE, unit.enabled)
    BY DEF Launch, Update, Begin, Swap, Installed, Settled, Judge, Rollback, RolledBack
  <2> QED BY <2>1, <2>2, <2>3
<1>5. "pc" \in DOMAIN upd'
  <2>1. "pc" \in DOMAIN upd
    BY <1>t DEF ServiceTypeOK
  <2>2. CASE Launch
    BY <2>1, <2>2 DEF Launch
  <2>3. CASE Begin
    BY <2>1, <2>3 DEF Begin, Says
  <2>4. CASE Swap
    BY <2>1, <2>4 DEF Swap, Says, Goes
  <2>5. CASE Installed \/ Settled
    BY <2>1, <2>5 DEF Installed, Settled, Goes
  <2>6. CASE Judge \/ Rollback \/ RolledBack
    BY <2>1, <2>6 DEF Judge, Rollback, RolledBack, Goes, Says
  <2> QED BY <2>2, <2>3, <2>4, <2>5, <2>6 DEF Update
<1>6. disk' \in [now : {"none", "old", "new"}, bak : {"none", "old", "new"}, lock : BOOLEAN]
  <2>1. disk \in [now : {"none", "old", "new"}, bak : {"none", "old", "new"}, lock : BOOLEAN]
    BY <1>t DEF ServiceTypeOK
  <2>2. CASE Launch \/ Installed \/ Settled
    BY <2>1, <2>2 DEF Launch, Installed, Settled
  <2>3. CASE Begin
    BY <2>1, <2>3 DEF Begin, Unlocked
  <2>4. CASE Swap
    BY <2>1, <2>4 DEF Swap, Unlocked
  <2>5. CASE Judge \/ RolledBack
    BY <2>1, <2>5 DEF Judge, RolledBack, Unlocked
  <2>6. CASE Rollback
    BY <2>1, <2>6 DEF Rollback, Replace, Unlocked
  <2> QED BY <2>2, <2>3, <2>4, <2>5, <2>6 DEF Update
<1>7. ServiceTypeOK'
  BY <1>t, <1>1, <1>4, <1>5, <1>6 DEF ServiceTypeOK
<1>8. \A a \in Agent : Serves(a)' => Serves(a)
  BY <1>1, <1>4 DEF Serves
<1> QED BY <1>3, <1>7, <1>8, NobodyBegins

\* Commands, and the uninstall.
LEMMA CommandsKeep ==
  ASSUME ServiceInv, Command \/ Uninstall \/ Uninstalls
  PROVE  ServiceInv' /\ (job = "live" => job' # "none")
<1>t. ServiceTypeOK
  BY DEF ServiceInv
<1>1. UNCHANGED <<worker, upd>>
  BY DEF Command, Uninstall, Uninstalls, Verified, Removes, StopsScopes, RemovesData
<1>2. /\ sup' \in [Agent -> SupRecord]
      /\ \A a \in Agent : sup'[a].pc = sup[a].pc \/ (sup'[a].pc \in {"none", "quit"} /\ un' \in {"idle", "stop"})
  <2>1. CASE UNCHANGED sup
    BY <1>t, <2>1 DEF ServiceTypeOK
  <2>2. CASE Stop(TRUE, TRUE) \/ Stop(FALSE, TRUE) \/ Stop(TRUE, unit.enabled) \/ Stop(FALSE, FALSE) \/ Stop(FALSE, unit.enabled)
    <3>1. un' \in {"idle", "stop"} \/ UNCHANGED sup
      BY DEF Command, Uninstall, Uninstalls, Verified, Removes, StopsScopes, RemovesData
    <3> QED BY <1>t, <2>2, <3>1, StopIs DEF ServiceTypeOK
  <2>3. \/ UNCHANGED sup
        \/ Stop(TRUE, TRUE) \/ Stop(FALSE, TRUE) \/ Stop(TRUE, unit.enabled) \/ Stop(FALSE, FALSE) \/ Stop(FALSE, unit.enabled)
    BY DEF Command, Install, Enable, ChangeCode, Disable, Uninstall, Uninstalls, Verified, Removes, StopsScopes, RemovesData
  <2> QED BY <2>1, <2>2, <2>3
<1>3. \A a \in Agent : Serves(a)' => Serves(a)
  BY <1>1, <1>2 DEF Serves
<1>4. disk' \in [now : {"none", "old", "new"}, bak : {"none", "old", "new"}, lock : BOOLEAN]
  <2>1. disk' = disk \/ disk' = [disk EXCEPT !.now = "none"]
    BY DEF Command, Uninstall, Uninstalls, Verified, Removes, StopsScopes, RemovesData
  <2> QED BY <1>t, <2>1 DEF ServiceTypeOK
<1>5. ServiceTypeOK'
  BY <1>t, <1>1, <1>2, <1>4 DEF ServiceTypeOK
<1>6. CASE Command
  <2>1. un' = "idle" /\ UNCHANGED job
    BY <1>6 DEF Command
  <2> QED BY <1>3, <1>5, <2>1, NobodyBegins DEF Uninstalling, Removed
<1>7. CASE Uninstall
  <2>1. un' = "stop" /\ upd.pc = "idle" /\ (job # "none" => job' = job)
    BY <1>7 DEF Uninstall
  <2>2. ~Removed' /\ Uninstalling'
    BY <2>1 DEF Uninstalling, Removed
  <2> QED BY <1>1, <1>3, <1>5, <2>1, <2>2 DEF ServiceInv
<1>8. CASE Verified
  <2>1. un = "stop" /\ un' \in {"scan", "aborted"} /\ UNCHANGED job
    BY <1>8 DEF Verified
  <2> QED BY <1>1, <1>3, <1>5, <2>1, NobodyBegins DEF Uninstalling, Removed
<1>9. CASE Removes
  <2>1. un = "scan" /\ UNCHANGED <<sup, job>> /\ un' \in {"aborted", "scopes"}
    BY <1>9 DEF Removes
  <2>2. CASE un' = "aborted"
    BY <1>3, <1>5, <2>1, <2>2, NobodyBegins DEF Uninstalling, Removed
  <2>3. CASE un' = "scopes"
    <3>1. Found = {} /\ disk' = [disk EXCEPT !.now = "none"]
      BY <1>9, <2>3 DEF Removes
    <3>2. disk'.now = "none"
      BY <1>t, <3>1 DEF ServiceTypeOK
    <3>3. \A a \in Agent : sup[a].pc = "none" /\ worker[a] = "none"
      BY <3>1 DEF Found, IsAgent
    <3>4. upd'.pc = "idle"
      BY <1>1, <2>1 DEF ServiceInv, Uninstalling
    <3>5. \A a \in Agent : ~Serves(a)'
      BY <1>1, <2>1, <3>3 DEF Serves
    <3> QED BY <1>1, <1>5, <2>1, <3>2, <3>3, <3>4, <3>5 DEF ServiceInv
  <2> QED BY <2>1, <2>2, <2>3
<1>10. CASE StopsScopes \/ RemovesData
  <2>1. un \in {"scopes", "verify"} /\ un' \in {"verify", "done"} /\ UNCHANGED <<sup, disk>>
    BY <1>10 DEF StopsScopes, RemovesData
  <2>2. job = "live" => job' # "none"
    BY <1>10 DEF StopsScopes, RemovesData, Listed
  <2> QED BY <1>1, <1>3, <1>5, <2>1, <2>2, NobodyBegins DEF Uninstalling, Removed
<1> QED BY <1>6, <1>7, <1>8, <1>9, <1>10 DEF Uninstalls

-----------------------------------------------------------------------------
(* The steps of the agents.                                                  *)

WorkerStates == {"none", "boot", "start", "up", "stuck"}

\* Whoever sees no other agent is the only one that can serve.
LEMMA ClearIs ==
  ASSUME NEW a \in Agent, Clear(a), NEW b \in Agent, b # a
  PROVE  ~Serves(b)
BY DEF Clear, Found, IsAgent, Serves

\* A step of one agent: it goes on serving, or begins after a clear look, and does
\* neither once the files are removed.
LEMMA AgentStep ==
  ASSUME ServiceInv, UNCHANGED <<disk, upd, un>>,
         NEW a \in Agent, NEW p \in SupRecord, NEW w \in WorkerStates,
         sup' = [sup EXCEPT ![a] = p], worker' = [worker EXCEPT ![a] = w],
         Serves(a) \/ Clear(a) \/ (p.pc # "run" /\ w = "none"),
         Removed => p.pc \in {"none", "doomed"} /\ w = "none"
  PROVE  ServiceInv'
<1>t. ServiceTypeOK
  BY DEF ServiceInv
<1>1. /\ sup'[a] = p /\ worker'[a] = w
      /\ \A b \in Agent : b # a => sup'[b] = sup[b] /\ worker'[b] = worker[b]
  BY <1>t DEF ServiceTypeOK
<1>2. ServiceTypeOK'
  BY <1>t DEF ServiceTypeOK, WorkerStates
<1>3. \A b \in Agent : b # a => (Serves(b)' <=> Serves(b))
  BY <1>1 DEF Serves
<1>4. (\A b, c \in Agent : Serves(b) /\ Serves(c) => b = c)'
  <2>1. CASE p.pc # "run" /\ w = "none"
    <3>1. ~Serves(a)'
      BY <1>1, <2>1 DEF Serves
    <3> QED BY <1>3, <3>1 DEF ServiceInv
  <2>2. CASE Serves(a)
    BY <1>3, <2>2 DEF ServiceInv
  <2>3. CASE Clear(a)
    <3>1. \A b \in Agent : b # a => ~Serves(b)'
      BY <1>3, <2>3, ClearIs
    <3> QED BY <3>1
  <2> QED BY <2>1, <2>2, <2>3
<1>5. (Uninstalling => upd.pc = "idle")'
  BY DEF ServiceInv, Uninstalling, Removed
<1>6. (Removed => disk.now = "none" /\ \A b \in Agent : sup[b].pc \in {"none", "doomed"} /\ worker[b] = "none")'
  BY <1>1 DEF ServiceInv, Removed
<1> QED BY <1>2, <1>4, <1>5, <1>6 DEF ServiceInv

\* What an agent runs, and what fails.
LEMMA AgentKeeps ==
  ASSUME ServiceInv, NEW a \in Agent, Runs(a) \/ Fails(a)
  PROVE  ServiceInv'
<1>t. ServiceTypeOK
  BY DEF ServiceInv
<1>1. UNCHANGED <<disk, upd, un>>
  BY DEF Runs, Fails, DoomedEnds, Gate, Respawn, Stamp, Beat, Register, GraceOver, Watchdog, Quits,
         WorkerFails, SupervisorDies
<1>2. sup[a] \in SupRecord /\ worker[a] \in WorkerStates
  BY <1>t DEF ServiceTypeOK, WorkerStates
<1>3. sup = [sup EXCEPT ![a] = sup[a]] /\ worker = [worker EXCEPT ![a] = worker[a]]
  BY <1>t DEF ServiceTypeOK
<1>4. Removed => sup[a].pc \in {"none", "doomed"} /\ worker[a] = "none"
  BY DEF ServiceInv
<1>5. "none" \in WorkerStates /\ "boot" \in WorkerStates /\ "start" \in WorkerStates
      /\ "up" \in WorkerStates /\ "stuck" \in WorkerStates
  BY DEF WorkerStates
<1>6. CASE Ends(a) /\ UNCHANGED worker /\ (Serves(a) \/ worker[a] = "none")
  BY <1>1, <1>2, <1>3, <1>4, <1>6, NoSupIs, AgentStep DEF Ends
<1>7. CASE UNCHANGED <<sup, worker>>
  BY <1>1, <1>2, <1>3, <1>4, <1>7, AgentStep DEF Serves
<1>8. CASE UNCHANGED sup /\ Serves(a) /\ ~Removed /\ \E w \in WorkerStates : worker' = [worker EXCEPT ![a] = w]
  BY <1>1, <1>2, <1>3, <1>8, AgentStep
<1>9. CASE /\ sup[a].pc \in {"scan", "run"}
           /\ Serves(a) \/ Clear(a)
           /\ sup' = [sup EXCEPT ![a] = Spawned(sup[a])] /\ worker' = [worker EXCEPT ![a] = "boot"]
  <2>1. ~Removed
    BY <1>4, <1>9
  <2> QED BY <1>1, <1>2, <1>5, <1>9, <2>1, SpawnedIs, AgentStep
<1>10. DoomedEnds(a) => UNCHANGED worker /\ Ends(a)
  BY DEF DoomedEnds
<1>11. CASE Gate(a)
  <2>1. sup[a].pc = "scan"
    BY <1>11 DEF Gate
  <2>2. CASE Ends(a) /\ UNCHANGED worker
    BY <1>6, <2>1, <2>2 DEF Serves
  <2>3. CASE Clear(a) /\ sup' = [sup EXCEPT ![a] = Spawned(@)] /\ worker' = [worker EXCEPT ![a] = "boot"]
    BY <1>9, <2>1, <2>3
  <2> QED BY <1>11, <2>2, <2>3 DEF Gate
<1>12. CASE Respawn(a)
  <2>1. sup[a].pc = "run" /\ Serves(a)
    BY <1>12 DEF Respawn, Serves
  <2> QED BY <1>6, <1>9, <1>12, <2>1 DEF Respawn
<1>13. CASE Stamp(a) \/ Register(a) \/ WorkerFails(a) \/ Watchdog(a)
  <2>1. UNCHANGED sup /\ worker[a] # "none"
    BY <1>13 DEF Stamp, Register, WorkerFails, Watchdog, Stalled
  <2>2. \E w \in WorkerStates : worker' = [worker EXCEPT ![a] = w]
    BY <1>5, <1>13 DEF Stamp, Register, WorkerFails, Watchdog
  <2>3. Serves(a) /\ ~Removed
    BY <1>4, <2>1 DEF Serves
  <2> QED BY <1>8, <2>1, <2>2, <2>3
<1>14. CASE Beat(a)
  BY <1>7, <1>14 DEF Beat
<1>15. CASE GraceOver(a)
  <2>1. sup[a].pc = "run" /\ UNCHANGED worker
    BY <1>15 DEF GraceOver
  <2>2. PICK p \in SupRecord : p.pc = "run" /\ sup' = [sup EXCEPT ![a] = p]
    <3>1. [sup[a] EXCEPT !.grace = FALSE] \in SupRecord /\ [sup[a] EXCEPT !.grace = FALSE].pc = "run"
      BY <1>2, <2>1 DEF SupRecord
    <3>2. sup' = [sup EXCEPT ![a] = [sup[a] EXCEPT !.grace = FALSE]]
      BY <1>15 DEF GraceOver
    <3> QED BY <3>1, <3>2
  <2>3. Serves(a) /\ ~Removed
    BY <1>4, <2>1 DEF Serves
  <2> QED BY <1>1, <1>2, <1>3, <2>1, <2>2, <2>3, AgentStep
<1>16. CASE Quits(a)
  BY <1>1, <1>5, <1>16, NoSupIs, AgentStep DEF Quits, Ends
<1>17. CASE SupervisorDies(a)
  <2>1. Ends(a) /\ UNCHANGED worker
    BY <1>17 DEF SupervisorDies
  <2> QED BY <1>6, <2>1 DEF Serves
<1>18. CASE DoomedEnds(a)
  BY <1>6, <1>10, <1>18 DEF Serves
<1> QED BY <1>11, <1>12, <1>13, <1>14, <1>15, <1>16, <1>17, <1>18 DEF Runs, Fails

\* An operator starts an agent, signals it, and ends what is left of it.  Once the
\* files are removed, what is started does not run.
LEMMA HandKeeps ==
  ASSUME ServiceInv, HandStart \/ HandSignal \/ HandGone
  PROVE  ServiceInv'
<1>t. ServiceTypeOK
  BY DEF ServiceInv
<1>1. UNCHANGED <<disk, upd, un>> /\ "hand" \in Agent
  BY DEF HandStart, HandSignal, HandGone, Agent
<1>2. sup["hand"] \in SupRecord /\ worker["hand"] \in WorkerStates
  BY <1>1, <1>t DEF ServiceTypeOK, WorkerStates
<1>3. worker = [worker EXCEPT !["hand"] = worker["hand"]]
  BY <1>t, <1>1 DEF ServiceTypeOK
<1>4. Removed => sup["hand"].pc \in {"none", "doomed"} /\ worker["hand"] = "none"
  BY <1>1 DEF ServiceInv
<1>5. CASE HandStart
  <2>1. worker["hand"] = "none" /\ UNCHANGED worker /\ sup' = [sup EXCEPT !["hand"] = Born]
    BY <1>5 DEF HandStart, IsAgent
  <2>2. Born \in SupRecord /\ Born.pc \in {"doomed", "scan"} /\ (Removed => Born.pc = "doomed")
    BY BornIs DEF ServiceInv
  <2> QED BY <1>1, <1>2, <1>3, <2>1, <2>2, AgentStep
<1>6. CASE HandSignal
  <2>1. sup["hand"].pc \in {"scan", "run"} /\ UNCHANGED worker /\ sup' = [sup EXCEPT !["hand"] = Signalled(sup["hand"])]
    BY <1>6 DEF HandSignal
  <2>2. Signalled(sup["hand"]) \in SupRecord /\ Signalled(sup["hand"]).pc # "run" /\ ~Removed
    BY <1>2, <1>4, <2>1, SignalledIs
  <2>3. Serves("hand") \/ worker["hand"] = "none"
    BY DEF Serves
  <2> QED BY <1>1, <1>2, <1>3, <2>1, <2>2, <2>3, AgentStep
<1>7. CASE HandGone
  <2>1. sup' = [sup EXCEPT !["hand"] = NoSup] /\ worker' = [worker EXCEPT !["hand"] = "none"]
    BY <1>7 DEF HandGone, Ends
  <2>2. "none" \in WorkerStates
    BY DEF WorkerStates
  <2> QED BY <1>1, <2>1, <2>2, NoSupIs, AgentStep
<1> QED BY <1>5, <1>6, <1>7

\* systemd starts the unit after RestartSec, and cleans up after it.
LEMMA SystemdKeeps == ASSUME ServiceInv, Systemd PROVE ServiceInv'
<1>t. ServiceTypeOK
  BY DEF ServiceInv
<1>1. UNCHANGED <<disk, un>> /\ "unit" \in Agent
  BY DEF Systemd, UnitUp, MainEnded, UnitDown, Down, Agent
<1>2. CASE UnitUp
  <2>1. sup' = [sup EXCEPT !["unit"] = Born] /\ UNCHANGED worker /\ upd' = [upd EXCEPT !.seen = Replaced(@)]
    BY <1>2 DEF UnitUp
  <2>2. Born \in SupRecord /\ Born.pc \in {"doomed", "scan"} /\ (Removed => Born.pc = "doomed")
    BY BornIs DEF ServiceInv
  <2>3. /\ sup'["unit"] = Born
        /\ \A a \in Agent : a # "unit" => sup'[a] = sup[a]
    BY <1>t, <1>1, <2>1 DEF ServiceTypeOK
  <2>4. "pc" \in DOMAIN upd' /\ upd'.pc = upd.pc
    BY <1>t, <2>1 DEF ServiceTypeOK
  <2>5. ServiceTypeOK'
    BY <1>t, <1>1, <2>1, <2>2, <2>4 DEF ServiceTypeOK
  <2>6. \A a \in Agent : Serves(a)' => Serves(a)
    BY <2>1, <2>2, <2>3 DEF Serves
  <2>7. \A a \in Agent : sup'[a].pc = sup[a].pc \/ sup'[a].pc \in {"none", "doomed"} \/ ~Removed'
    BY <1>1, <2>2, <2>3 DEF Removed
  <2> QED BY <1>1, <2>1, <2>4, <2>5, <2>6, <2>7, NobodyBegins DEF Uninstalling, Removed
<1>3. CASE MainEnded \/ UnitDown
  <2>1. /\ sup' = [sup EXCEPT !["unit"] = NoSup] /\ worker' = [worker EXCEPT !["unit"] = "none"]
        /\ UNCHANGED upd
    BY <1>3 DEF MainEnded, UnitDown, Down
  <2>2. "none" \in WorkerStates
    BY DEF WorkerStates
  <2> QED BY <1>1, <2>1, <2>2, NoSupIs, AgentStep
<1> QED BY <1>2, <1>3 DEF Systemd

\* After a reboot nothing runs, neither an update nor an agent.
LEMMA RebootKeeps == ASSUME ServiceInv, Reboot PROVE ServiceInv'
<1>t. ServiceTypeOK
  BY DEF ServiceInv
<1>1. /\ sup' = [a \in Agent |-> NoSup] /\ worker' = [a \in Agent |-> "none"]
      /\ un' = IF un = "done" THEN un ELSE "idle"
      /\ UNCHANGED disk
  BY DEF Reboot
<1>2. "pc" \in DOMAIN upd' /\ upd'.pc = "idle"
  <2> DEFINE said == IF upd.pc \in {"idle", "begin", "install"} THEN upd.said ELSE "killed"
  <2>1. upd' = [upd EXCEPT !.pc = "idle", !.seen = NotSeen, !.said = said]
    BY DEF Reboot
  <2> HIDE DEF said
  <2> QED BY <1>t, <2>1 DEF ServiceTypeOK
<1>3. \A a \in Agent : sup'[a].pc = "none" /\ worker'[a] = "none"
  BY <1>1, NoSupIs
<1>4. ServiceTypeOK'
  BY <1>t, <1>1, <1>2, NoSupIs DEF ServiceTypeOK
<1>5. \A a \in Agent : ~Serves(a)'
  BY <1>3 DEF Serves
<1>6. (Removed => disk.now = "none")'
  BY <1>1 DEF ServiceInv, Removed
<1> QED BY <1>2, <1>3, <1>4, <1>5, <1>6 DEF ServiceInv

LEMMA ServiceStep ==
  ServiceInv /\ [Next]_vars => ServiceInv' /\ (job = "live" => job' # "none")
<1> SUFFICES ASSUME ServiceInv, [Next]_vars PROVE ServiceInv' /\ (job = "live" => job' # "none")
  OBVIOUS
<1>1. CASE Systemd
  <2>1. UNCHANGED job
    BY <1>1 DEF Systemd, UnitUp, MainEnded, UnitDown, Down
  <2> QED BY <1>1, <2>1, SystemdKeeps
<1>2. CASE Reboot
  <2>1. job = "live" => job' # "none"
    BY <1>2 DEF Reboot
  <2> QED BY <1>2, <2>1, RebootKeeps
<1>3. CASE HandStart \/ HandSignal \/ HandGone
  <2>1. UNCHANGED job
    BY <1>3 DEF HandStart, HandSignal, HandGone
  <2> QED BY <1>3, <2>1, HandKeeps
<1>4. ASSUME NEW a \in Agent, Runs(a) \/ Fails(a)
      PROVE  ServiceInv' /\ (job = "live" => job' # "none")
  <2>1. UNCHANGED job
    BY <1>4 DEF Runs, Fails, DoomedEnds, Gate, Respawn, Stamp, Beat, Register, GraceOver, Watchdog, Quits,
                WorkerFails, SupervisorDies
  <2> QED BY <1>4, <2>1, AgentKeeps
<1>5. CASE Stale \/ JobEnds \/ UNCHANGED vars
  <2>1. UNCHANGED <<disk, sup, worker, upd, un>> /\ (job = "live" => job' # "none")
    BY <1>5 DEF Stale, JobEnds, vars
  <2>2. ServiceInv'
    BY <2>1 DEF ServiceInv, ServiceTypeOK, Serves, Removed, Uninstalling
  <2> QED BY <2>1, <2>2
<1>6. CASE Command \/ Uninstall \/ Uninstalls
  BY <1>6, CommandsKeep
<1>7. CASE Launch \/ Update
  <2>1. UNCHANGED job
    BY <1>7 DEF Launch, Update, Begin, Swap, Installed, Settled, Judge, Rollback, RolledBack
  <2> QED BY <1>7, <2>1, UpdateKeeps
<1> QED BY <1>1, <1>2, <1>3, <1>4, <1>5, <1>6, <1>7 DEF Next

\* The invariant holds of every run of the service.
THEOREM ServiceIsInvariant == Spec => []ServiceInv
<1> QED BY ServiceInvInit, ServiceStep, PTL DEF Spec

\* Whoever acts on a clear look at the processes is alone (singleInstanceVerdict,
\* findRunningAgents, and the uninstall's own look): no second agent begins to serve,
\* no agent serves once the files are removed, and the data of a job that runs stays.
THEOREM LookMeansAlone == Spec => ClearMeansAlone
<1>1. ServiceInv /\ [Next]_vars =>
        [/\ \A a, b \in Agent : Serves(a)' /\ Serves(b)' => a = b
         /\ un' \in {"scopes", "verify", "done"} => ~\E a \in Agent : Serves(a)'
         /\ job = "live" => job' # "none"]_vars
  <2> SUFFICES ASSUME ServiceInv, [Next]_vars
               PROVE  /\ \A a, b \in Agent : Serves(a)' /\ Serves(b)' => a = b
                      /\ un' \in {"scopes", "verify", "done"} => ~\E a \in Agent : Serves(a)'
                      /\ job = "live" => job' # "none"
    OBVIOUS
  <2>1. ServiceInv' /\ (job = "live" => job' # "none")
    BY ServiceStep
  <2> QED BY <2>1 DEF ServiceInv, Removed, Serves
<1> QED BY <1>1, ServiceIsInvariant, PTL DEF Spec, ClearMeansAlone
=============================================================================
