-------------------------- MODULE CommandSlotProofs --------------------------
(***************************************************************************)
(* The foreground command of a connection: one terminal frame, no start and   *)
(* no signal after the end, no timeout of a command that has exited, and no   *)
(* sandboxed target with root's groups.  For every set of commands, every     *)
(* platform and all timer lengths.                                            *)
(***************************************************************************)
EXTENDS CommandSlot, TLAPS

-----------------------------------------------------------------------------
(* The inductive invariant, command by command.                               *)

Ticks == Nat \cup {Off}

SlotRecord == [mode : {"none", "refused", "exec", "secure"}, sent : BOOLEAN, settled : BOOLEAN,
               kill : BOOLEAN, deadline : Ticks]
Process == [st : {"none", "waiting", "unborn", "dropping", "running", "exited", "gone"},
            closed : BOOLEAN, settled : BOOLEAN, term : BOOLEAN, sig : {"none", "term", "kill"},
            esc : Ticks, hs : Ticks, ready : BOOLEAN, fail : BOOLEAN, lost : BOOLEAN,
            held : BOOLEAN, next : Ticks, until : Ticks, quiet : Nat, quietFor : Nat,
            killReq : BOOLEAN, user : {"none", "clean", "absent"}]
Told == [replies : Seq({"error", "done", "timeout"}), last : {"output", "idle", "terminal"}]

TypeOK ==
  /\ activeCommand \in Command \cup {None}
  /\ cmd \in [Command -> SlotRecord]
  /\ proc \in [Command -> Process]
  /\ told \in [Command -> Told]
  /\ link \in {"up", "settled", "closed"}
  /\ identity \in {"clean", "absent", "root"}

\* What the slot knows of a command, and what it said of it.
SlotPart(c) ==
  /\ cmd[c].settled => cmd[c].sent
  /\ cmd[c].sent => ~cmd[c].kill /\ cmd[c].deadline = Off
  /\ cmd[c].deadline # Off => cmd[c].mode = "exec"
  /\ activeCommand = c => cmd[c].mode \in {"exec", "secure"} /\ ~cmd[c].settled
  /\ cmd[c].mode \in {"none", "refused"} => proc[c] = NoProcess /\ cmd[c].deadline = Off
  /\ cmd[c].mode = "none" => ~cmd[c].sent
  /\ Len(told[c].replies) <= 1
  /\ told[c].replies # <<>> => told[c].last = "terminal" /\ (cmd[c].sent \/ cmd[c].mode = "refused")

\* What the executor knows of its process, and how it is tied to the slot.
ExecPart(c) ==
  /\ proc[c].settled => proc[c].st = "gone"
  /\ proc[c].st = "dropping" => cmd[c].mode = "secure"
  /\ proc[c].st = "waiting" => cmd[c].kill \/ proc[c].killReq
  /\ proc[c].st = "gone" => cmd[c].settled
  /\ proc[c].st \in {"none", "gone"} =>
       ~cmd[c].kill /\ ~proc[c].held /\ proc[c].esc = Off /\ proc[c].hs = Off
  /\ proc[c].st # "exited" => proc[c].next = Off
  /\ cmd[c].mode = "exec" /\ proc[c].st = "exited" => proc[c].closed /\ proc[c].esc = Off

\* The drain of a process that has exited is over before the deadline.
DrainPart(c) ==
  cmd[c].deadline # Off /\ proc[c].st = "exited" =>
    /\ proc[c].next # Off /\ proc[c].until # Off
    /\ proc[c].next <= proc[c].until /\ proc[c].until + Guard <= cmd[c].deadline

CommandInv(c) == SlotPart(c) /\ ExecPart(c) /\ DrainPart(c)
SlotInv == TypeOK /\ \A c \in Command : CommandInv(c)

LEMMA SlotFacts ==
  ASSUME SlotInv, NEW c \in Command
  PROVE  /\ cmd[c] \in SlotRecord /\ proc[c] \in Process /\ told[c] \in Told
         /\ SlotPart(c) /\ ExecPart(c) /\ DrainPart(c) /\ c # None
BY CommandAssumption DEF SlotInv, TypeOK, CommandInv

\* A command none of whose records change keeps its part of the invariant.
Untouched(c) ==
  /\ cmd'[c] = cmd[c] /\ proc'[c] = proc[c] /\ told'[c] = told[c]
  /\ activeCommand' = c => activeCommand = c

LEMMA UntouchedKeeps == ASSUME SlotInv, NEW c \in Command, Untouched(c) PROVE CommandInv(c)'
BY SlotFacts DEF Untouched, CommandInv, SlotPart, ExecPart, DrainPart

\* A step of one command, whose new records are given.
StepOf(c) ==
  /\ cmd' = [cmd EXCEPT ![c] = cmd'[c]]
  /\ proc' = [proc EXCEPT ![c] = proc'[c]]
  /\ told' = [told EXCEPT ![c] = told'[c]]
  /\ activeCommand' \in {activeCommand, None, c}
  /\ UNCHANGED <<link, identity>>

\* What no step does to a command: the three action properties, piece by piece.
Lawful(c) ==
  /\ told'[c].replies # told[c].replies /\ told'[c].replies[Len(told'[c].replies)] = "timeout"
       => proc[c].st \notin {"exited", "gone"}
  /\ cmd[c].mode = "exec" /\ proc[c].st \in {"exited", "gone"} => proc'[c].sig = proc[c].sig
  /\ proc[c].st = "waiting" /\ proc'[c].st \in {"running", "unborn"} => ~cmd[c].sent

LawfulStep == SlotInv' /\ \A c \in Command : Lawful(c)

LEMMA StepKeeps ==
  ASSUME SlotInv, NEW c \in Command, StepOf(c), CommandInv(c)', Lawful(c),
         cmd'[c] \in SlotRecord, proc'[c] \in Process, told'[c] \in Told
  PROVE  LawfulStep
<1>1. TypeOK'
  BY DEF StepOf, SlotInv, TypeOK
<1>2. ASSUME NEW d \in Command, d # c PROVE CommandInv(d)'
  <2>1. Untouched(d)
    BY <1>2, SlotFacts DEF StepOf, Untouched, SlotInv, TypeOK
  <2> QED BY <2>1, UntouchedKeeps
<1>3. ASSUME NEW d \in Command, d # c PROVE Lawful(d)
  <2>1. proc'[d] = proc[d] /\ told'[d] = told[d]
    BY <1>3, SlotFacts DEF StepOf, SlotInv, TypeOK
  <2> QED BY <2>1 DEF Lawful
<1> QED BY <1>1, <1>2, <1>3 DEF SlotInv, LawfulStep

-----------------------------------------------------------------------------
(* The operators on one process record.                                       *)

\* What a kill or a failed setup leaves alone.
SameLife(y, x) ==
  /\ y.st = x.st /\ y.closed = x.closed /\ y.settled = x.settled /\ y.next = x.next
  /\ y.until = x.until /\ y.held = x.held /\ y.quiet = x.quiet /\ y.quietFor = x.quietFor /\ y.user = x.user

LEMMA SignalEffect ==
  ASSUME NEW x \in Process, NEW s \in {"term", "kill"}
  PROVE  Signal(x, s) \in Process /\ SameLife(Signal(x, s), x) /\ Signal(x, s).killReq = x.killReq
         /\ Signal(x, s).hs = x.hs /\ Signal(x, s).esc = x.esc
BY DEF Signal, Process, SameLife

LEMMA KillEffect ==
  ASSUME NEW c \in Command, NEW x \in Process
  PROVE  /\ Killed(c, x) \in Process /\ SameLife(Killed(c, x), x) /\ Killed(c, x).hs = x.hs
         /\ x.st = "waiting" => Killed(c, x).killReq
         /\ x.closed /\ x.st # "waiting" => Killed(c, x) = x
<1>1. CASE x.st = "waiting"
  BY <1>1 DEF Killed, Process, SameLife
<1>2. CASE x.st # "waiting" /\ (x.closed \/ (cmd[c].mode = "exec" /\ x.term))
  BY <1>2 DEF Killed, SameLife
<1>3. CASE x.st # "waiting" /\ ~(x.closed \/ (cmd[c].mode = "exec" /\ x.term))
  <2> DEFINE y == Signal(x, "term")
  <2>1. y \in Process /\ SameLife(y, x) /\ y.hs = x.hs
    BY SignalEffect
  <2>2. Killed(c, x) = [y EXCEPT !.term = TRUE, !.esc = Escalation]
    BY <1>3 DEF Killed
  <2>3. Escalation \in Ticks
    BY TimeAssumption DEF Ticks
  <2> HIDE DEF y
  <2> DEFINE z == [y EXCEPT !.term = TRUE]
  <2>4. z \in Process /\ SameLife(z, y) /\ z.hs = y.hs
    BY <2>1 DEF Process, SameLife
  <2>5. Killed(c, x) = [z EXCEPT !.esc = Escalation]
    BY <2>2
  <2> HIDE DEF z
  <2>6. Killed(c, x) \in Process /\ SameLife(Killed(c, x), z) /\ Killed(c, x).hs = z.hs
    BY <2>3, <2>4, <2>5 DEF Process, SameLife
  <2> QED BY <1>3, <2>1, <2>4, <2>6 DEF SameLife
<1> QED BY <1>1, <1>2, <1>3

LEMMA SetupEffect ==
  ASSUME NEW x \in Process
  PROVE  /\ SetupFailed(x) \in Process /\ SameLife(SetupFailed(x), x)
         /\ SetupFailed(x).killReq = x.killReq /\ SetupFailed(x).esc = x.esc
         /\ SetupFailed(x).hs \in {x.hs, Off}
         /\ x.closed => SetupFailed(x).sig = x.sig
<1>1. CASE x.settled \/ x.fail
  BY <1>1 DEF SetupFailed, SameLife
<1>2. CASE ~(x.settled \/ x.fail)
  <2> DEFINE y == [x EXCEPT !.fail = TRUE, !.hs = Off]
             z == Signal(y, "kill")
  <2>1. y \in Process /\ SameLife(y, x) /\ y.killReq = x.killReq /\ y.esc = x.esc /\ y.hs = Off
        /\ y.sig = x.sig
    BY DEF Process, Ticks, SameLife
  <2>2. SetupFailed(x) = IF y.closed \/ y.term THEN y ELSE [z EXCEPT !.term = TRUE]
    BY <1>2 DEF SetupFailed
  <2> HIDE DEF y
  <2>3. z \in Process /\ SameLife(z, y) /\ z.killReq = y.killReq /\ z.esc = y.esc /\ z.hs = y.hs
    BY <2>1, SignalEffect
  <2> HIDE DEF z
  <2>4. CASE y.closed \/ y.term
    BY <2>1, <2>2, <2>4
  <2>5. CASE ~(y.closed \/ y.term)
    <3> DEFINE w == [z EXCEPT !.term = TRUE]
    <3>1. w \in Process /\ SameLife(w, z) /\ w.killReq = z.killReq /\ w.esc = z.esc /\ w.hs = z.hs
      BY <2>3 DEF Process, SameLife
    <3>2. SetupFailed(x) = w
      BY <2>2, <2>5
    <3> HIDE DEF w
    <3> QED BY <2>1, <2>3, <2>5, <3>1, <3>2 DEF SameLife
  <2> QED BY <2>4, <2>5
<1> QED BY <1>1, <1>2

LEMMA SettledIs ==
  ASSUME NEW x, x.sig \in {"none", "term", "kill"}, x.closed \in BOOLEAN,
         x.user \in {"none", "clean", "absent"}
  PROVE  /\ Settled(x) \in Process /\ Settled(x).st = "gone" /\ Settled(x).sig = x.sig
         /\ Settled(x).esc = Off /\ Settled(x).hs = Off /\ Settled(x).next = Off /\ ~Settled(x).held
<1> DEFINE n == NoProcess
           p == [n EXCEPT !.st = "gone", !.sig = x.sig]
           q == [p EXCEPT !.closed = x.closed, !.settled = TRUE]
<1>1. n \in Process /\ n.esc = Off /\ n.hs = Off /\ n.next = Off /\ ~n.held
  BY DEF NoProcess, Process, Ticks
<1>2. Settled(x) = [q EXCEPT !.user = x.user]
  BY DEF Settled
<1> HIDE DEF n
<1>3. p \in Process /\ p.st = "gone" /\ p.sig = x.sig /\ p.esc = Off /\ p.hs = Off /\ p.next = Off /\ ~p.held
  BY <1>1 DEF Process
<1> HIDE DEF p
<1>4. q \in Process /\ q.st = "gone" /\ q.sig = x.sig /\ q.esc = Off /\ q.hs = Off /\ q.next = Off /\ ~q.held
  BY <1>3 DEF Process
<1> HIDE DEF q
<1> QED BY <1>2, <1>4 DEF Process

\* One of the executor's ways to be over: the slot is told unless it knows.
LEMMA SettleStep ==
  ASSUME SlotInv, NEW c \in Command, NEW x, SettleExec(c, x), UNCHANGED env,
         proc[c].st # "none", ~x.settled, x.closed \in BOOLEAN, x.sig = proc[c].sig, x.user = proc[c].user
  PROVE  LawfulStep
<1>1. cmd[c].mode \in {"exec", "secure"}
  BY SlotFacts DEF SlotPart, SlotRecord, NoProcess
<1>2. /\ proc' = [proc EXCEPT ![c] = Settled(x)] /\ proc'[c] = Settled(x)
      /\ Verdict(x) \in {"error", "done"} /\ SettleSlot(c, Verdict(x))
  BY DEF SettleExec, SlotInv, TypeOK, Verdict
<1>3. /\ proc'[c] \in Process /\ proc'[c].st = "gone" /\ proc'[c].sig = proc[c].sig
      /\ proc'[c].esc = Off /\ proc'[c].hs = Off /\ proc'[c].next = Off /\ ~proc'[c].held
  <2>1. proc[c].sig \in {"none", "term", "kill"} /\ proc[c].user \in {"none", "clean", "absent"}
    BY SlotFacts DEF Process
  <2> QED BY <1>2, <2>1, SettledIs
<1> DEFINE f == Verdict(x)
<1>4. f \in {"error", "done"} /\ SettleSlot(c, f)
  BY <1>2
<1> HIDE DEF f
<1>5. /\ cmd' = [cmd EXCEPT ![c] = cmd'[c]] /\ cmd'[c] \in SlotRecord /\ cmd'[c].mode = cmd[c].mode
      /\ cmd'[c].settled /\ cmd'[c].sent /\ ~cmd'[c].kill /\ cmd'[c].deadline = Off
      /\ activeCommand' \in {activeCommand, None} /\ activeCommand' # c
  <2>1. CASE cmd[c].settled
    BY <1>4, <2>1, SlotFacts DEF SettleSlot, slot, SlotPart, SlotInv, TypeOK
  <2>2. CASE ~cmd[c].settled
    <3> DEFINE r == [cmd[c] EXCEPT !.settled = TRUE, !.sent = TRUE]
               r2 == [r EXCEPT !.kill = FALSE, !.deadline = Off]
    <3>1. cmd' = [cmd EXCEPT ![c] = r2]
      BY <1>4, <2>2, SlotFacts DEF SettleSlot, SlotInv, TypeOK
    <3>2. r \in SlotRecord /\ r.mode = cmd[c].mode /\ r.settled /\ r.sent
      BY SlotFacts DEF SlotRecord
    <3> HIDE DEF r
    <3>3. r2 \in SlotRecord /\ r2.mode = r.mode /\ r2.settled /\ r2.sent /\ ~r2.kill /\ r2.deadline = Off
      BY <3>2 DEF SlotRecord, Ticks
    <3> HIDE DEF r2
    <3>4. activeCommand' \in {activeCommand, None} /\ activeCommand' # c
      BY <1>4, <2>2, SlotFacts DEF SettleSlot
    <3> QED BY <3>1, <3>2, <3>3, <3>4 DEF SlotInv, TypeOK
  <2> QED BY <2>1, <2>2
<1>6. /\ told' = [told EXCEPT ![c] = told'[c]] /\ told'[c] \in Told /\ Len(told'[c].replies) <= 1
      /\ told'[c].replies # <<>> => told'[c].last = "terminal"
      /\ told'[c].replies # told[c].replies => told'[c].replies[Len(told'[c].replies)] # "timeout"
  <2>1. CASE told' = told
    BY <2>1, SlotFacts DEF SlotPart, SlotInv, TypeOK
  <2>2. CASE told' # told
    <3>1. ~cmd[c].sent /\ Reply(c, f)
      BY <1>4, <2>2 DEF SettleSlot, slot
    <3>2. told[c].replies = <<>> /\ told' = [told EXCEPT ![c] = told'[c]]
          /\ told'[c] = [replies |-> Append(told[c].replies, f), last |-> "terminal"]
      BY <1>1, <3>1, SlotFacts DEF SlotPart, Reply, SlotInv, TypeOK
    <3>3. told'[c] = [replies |-> <<f>>, last |-> "terminal"]
      BY <3>2
    <3> QED BY <1>4, <3>2, <3>3 DEF Told
  <2> QED BY <2>1, <2>2
<1>7. SlotPart(c)' /\ ExecPart(c)' /\ DrainPart(c)'
  BY <1>1, <1>3, <1>5, <1>6 DEF SlotPart, ExecPart, DrainPart
<1>8. Lawful(c)
  BY <1>3, <1>6 DEF Lawful
<1>9. StepOf(c)
  BY <1>2, <1>5, <1>6 DEF StepOf, env
<1> QED BY <1>3, <1>5, <1>6, <1>7, <1>8, <1>9, StepKeeps DEF CommandInv

-----------------------------------------------------------------------------
(* Frames of the relay.                                                       *)

\* What a frame finds of a command it names for the first time.
LEMMA Fresh ==
  ASSUME SlotInv, NEW c \in Command, Frame(c)
  PROVE  proc[c] = NoProcess /\ ~cmd[c].sent /\ told[c].replies = <<>> /\ activeCommand # c
BY SlotFacts DEF Frame, SlotPart

LEMMA RecordTypes ==
  NoCommand \in SlotRecord /\ NoProcess \in Process
BY DEF NoCommand, SlotRecord, NoProcess, Process, Ticks

\* A refusal: the error is the only frame.
LEMMA RefusedStep ==
  ASSUME SlotInv, NEW c \in Command, Frame(c), UNCHANGED <<activeCommand, proc, env>>, Reply(c, "error"),
         NEW r \in SlotRecord, cmd' = [cmd EXCEPT ![c] = r], r.deadline = Off,
         r.mode = "refused" \/ (r.mode \in {"exec", "secure"} /\ r.sent),
         ~r.kill, r.settled => r.sent
  PROVE  LawfulStep
<1>1. /\ cmd'[c] = r /\ proc'[c] = NoProcess /\ proc[c] = NoProcess /\ activeCommand' # c
      /\ told' = [told EXCEPT ![c] = told'[c]]
      /\ told'[c] = [replies |-> Append(told[c].replies, "error"), last |-> "terminal"]
      /\ told[c].replies = <<>>
  BY Fresh DEF Reply, SlotInv, TypeOK
<1>2. told'[c] = [replies |-> <<"error">>, last |-> "terminal"]
  BY <1>1
<1>3. told'[c] \in Told /\ Len(told'[c].replies) = 1 /\ told'[c].last = "terminal"
      /\ told'[c].replies[Len(told'[c].replies)] = "error"
  BY <1>2 DEF Told
<1>4. /\ NoProcess.st = "none" /\ ~NoProcess.settled /\ NoProcess.next = Off /\ NoProcess.esc = Off
      /\ NoProcess.hs = Off /\ ~NoProcess.held
  BY DEF NoProcess
<1>5. CommandInv(c)'
  BY <1>1, <1>3, <1>4 DEF CommandInv, SlotPart, ExecPart, DrainPart
<1>6. Lawful(c)
  BY <1>1, <1>3, <1>4 DEF Lawful
<1>7. StepOf(c)
  BY <1>1 DEF StepOf, env, SlotInv, TypeOK
<1> QED BY <1>1, <1>3, <1>5, <1>6, <1>7, RecordTypes, StepKeeps

LEMMA AcceptedStep ==
  ASSUME SlotInv, NEW c \in Command, NEW m \in {"exec", "secure"}, NEW d \in Ticks, NEW x \in Process,
         Accept(c, m, d, x), d # Off => m = "exec", ~x.settled, x.next = Off,
         x.st \in {"running", "unborn", "waiting"} \/ (x.st = "dropping" /\ m = "secure")
  PROVE  LawfulStep
<1> DEFINE n == NoCommand
           r == [n EXCEPT !.mode = m, !.kill = TRUE, !.deadline = d]
<1>1. n \in SlotRecord /\ ~n.sent /\ ~n.settled
  BY RecordTypes DEF NoCommand
<1>2. /\ cmd' = [cmd EXCEPT ![c] = r] /\ proc' = [proc EXCEPT ![c] = x] /\ activeCommand' = c
      /\ UNCHANGED <<told, env>> /\ Frame(c)
  BY DEF Accept
<1> HIDE DEF n
<1>3. r \in SlotRecord /\ r.mode = m /\ r.kill /\ r.deadline = d /\ ~r.sent /\ ~r.settled
  BY <1>1 DEF SlotRecord
<1> HIDE DEF r
<1>4. cmd'[c] = r /\ proc'[c] = x /\ told'[c] = told[c] /\ told[c].replies = <<>>
  BY <1>2, Fresh DEF SlotInv, TypeOK
<1>5. CommandInv(c)'
  BY <1>2, <1>3, <1>4, SlotFacts DEF CommandInv, SlotPart, ExecPart, DrainPart
<1>6. Lawful(c)
  BY <1>2, <1>4, Fresh DEF Lawful, Frame
<1>7. StepOf(c)
  BY <1>2, <1>4 DEF StepOf, env, SlotInv, TypeOK
<1> QED BY <1>3, <1>4, <1>5, <1>6, <1>7, SlotFacts, StepKeeps

\* The records a start begins with.
LEMMA BirthTypes ==
  /\ \A x \in Spawned : x \in Process /\ x.st \in {"running", "unborn"} /\ ~x.settled /\ x.next = Off
                        /\ x.user = "none" /\ x.sig = "none"
  /\ \A s \in {"waiting", "dropping"} : LET x == [NoProcess EXCEPT !.st = s]
                                        IN x \in Process /\ x.st = s /\ ~x.settled /\ x.next = Off
<1> DEFINE n == NoProcess
<1>1. Handshake \in Ticks /\ Off \in Ticks
  BY TimeAssumption DEF Ticks
<1>2. n \in Process /\ ~n.settled /\ n.next = Off /\ n.user = "none" /\ n.sig = "none"
  BY RecordTypes DEF NoProcess
<1>3. \A x \in Spawned : \E s \in {"running", "unborn"}, h \in Ticks : x = [n EXCEPT !.st = s, !.hs = h]
  BY <1>1 DEF Spawned
<1>4. \A s \in {"waiting", "dropping"} : LET x == [n EXCEPT !.st = s]
                                          IN x \in Process /\ x.st = s /\ ~x.settled /\ x.next = Off
  <2> HIDE DEF n
  <2> QED BY <1>2 DEF Process
<1>5. ASSUME NEW x \in Spawned
      PROVE  /\ x \in Process /\ x.st \in {"running", "unborn"} /\ ~x.settled /\ x.next = Off
             /\ x.user = "none" /\ x.sig = "none"
  <2> HIDE DEF n
  <2>1. PICK s \in {"running", "unborn"}, h \in Ticks : x = [n EXCEPT !.st = s, !.hs = h]
    BY <1>3
  <2> QED BY <1>2, <2>1 DEF Process
<1> QED BY <1>4, <1>5

LEMMA FrameSteps ==
  ASSUME SlotInv, NEW c \in Command, Busy(c) \/ Exec(c) \/ SecureExec(c)
  PROVE  LawfulStep
<1>1. CASE Busy(c)
  <2> DEFINE r == [cmd[c] EXCEPT !.mode = "refused"]
  <2>1. r \in SlotRecord /\ r.mode = "refused" /\ r.deadline = Off /\ ~r.sent /\ ~r.settled /\ ~r.kill
    <3>1. cmd[c].deadline = Off /\ ~cmd[c].sent /\ ~cmd[c].settled /\ ~cmd[c].kill
      BY <1>1, SlotFacts DEF Busy, Frame, SlotPart, ExecPart, NoProcess
    <3> QED BY <3>1, SlotFacts DEF SlotRecord
  <2>2. cmd' = [cmd EXCEPT ![c] = r]
    BY <1>1 DEF Busy
  <2> HIDE DEF r
  <2> QED BY <1>1, <2>1, <2>2, RefusedStep DEF Busy
<1>2. ASSUME NEW m \in {"exec", "secure"}, Refuse(c, m) PROVE LawfulStep
  <2> DEFINE n == NoCommand
             r == [n EXCEPT !.mode = m, !.sent = TRUE, !.settled = TRUE]
  <2>1. n \in SlotRecord /\ ~n.kill /\ n.deadline = Off
    BY RecordTypes DEF NoCommand
  <2>2. cmd' = [cmd EXCEPT ![c] = r]
    BY <1>2 DEF Refuse
  <2> HIDE DEF n
  <2>3. r \in SlotRecord /\ r.mode = m /\ r.deadline = Off /\ r.sent /\ r.settled /\ ~r.kill
    BY <2>1 DEF SlotRecord
  <2> HIDE DEF r
  <2> QED BY <1>2, <2>2, <2>3, RefusedStep DEF Refuse
<1>3. ASSUME NEW x \in Spawned, Accept(c, "exec", Timeout, x) PROVE LawfulStep
  <2>1. Timeout \in Ticks /\ x \in Process /\ x.st \in {"running", "unborn"} /\ ~x.settled /\ x.next = Off
    BY TimeAssumption, BirthTypes DEF Ticks
  <2> QED BY <1>3, <2>1, AcceptedStep
<1>4. CASE Accept(c, "exec", Timeout, [NoProcess EXCEPT !.st = "waiting"])
  <2> DEFINE x == [NoProcess EXCEPT !.st = "waiting"]
  <2>1. Timeout \in Ticks /\ x \in Process /\ x.st = "waiting" /\ ~x.settled /\ x.next = Off
    BY TimeAssumption, BirthTypes DEF Ticks
  <2>2. Accept(c, "exec", Timeout, x)
    BY <1>4
  <2> HIDE DEF x
  <2> QED BY <2>1, <2>2, AcceptedStep
<1>5. CASE Accept(c, "secure", Off, [NoProcess EXCEPT !.st = "dropping"])
  <2> DEFINE x == [NoProcess EXCEPT !.st = "dropping"]
  <2>1. Off \in Ticks /\ x \in Process /\ x.st = "dropping" /\ ~x.settled /\ x.next = Off
    BY BirthTypes DEF Ticks
  <2>2. Accept(c, "secure", Off, x)
    BY <1>5
  <2> HIDE DEF x
  <2> QED BY <2>1, <2>2, AcceptedStep
<1> QED BY <1>1, <1>2, <1>3, <1>4, <1>5 DEF Exec, SecureExec

-----------------------------------------------------------------------------
(* Kills: by a frame, by the deadline, by the end of the connection.          *)

\* The process part survives a new record of the slot that only ends things,
\* given that a command that could still be killed is killed.
LEMMA EndedKeeps ==
  ASSUME SlotInv, NEW c \in Command, cmd[c].mode \in {"exec", "secure"},
         cmd'[c].mode = cmd[c].mode, ~cmd'[c].kill, cmd'[c].deadline \in {cmd[c].deadline, Off},
         cmd[c].settled => cmd'[c].settled,
         proc'[c] = IF cmd[c].kill THEN Killed(c, proc[c]) ELSE proc[c]
  PROVE  /\ ExecPart(c)' /\ DrainPart(c)' /\ proc'[c] \in Process /\ proc'[c].st = proc[c].st
         /\ cmd[c].mode = "exec" /\ proc[c].st \in {"exited", "gone"} => proc'[c].sig = proc[c].sig
<1>1. CASE ~cmd[c].kill
  BY <1>1, SlotFacts DEF ExecPart, DrainPart, SlotPart, SlotRecord
<1>2. CASE cmd[c].kill
  <2>1. proc'[c] = Killed(c, proc[c]) /\ proc[c].st \notin {"none", "gone"} /\ ~cmd[c].settled
    BY <1>2, SlotFacts DEF SlotPart, ExecPart
  <2>2. /\ proc'[c] \in Process /\ SameLife(proc'[c], proc[c]) /\ proc'[c].hs = proc[c].hs
        /\ proc[c].st = "waiting" => proc'[c].killReq
        /\ proc[c].closed /\ proc[c].st # "waiting" => proc'[c] = proc[c]
    BY <2>1, SlotFacts, KillEffect
  <2>3. cmd[c].mode = "exec" /\ proc[c].st = "exited" => proc'[c] = proc[c]
    BY <2>2, SlotFacts DEF ExecPart
  <2>4. ExecPart(c)'
    BY <2>1, <2>2, <2>3, SlotFacts DEF ExecPart, SameLife
  <2>5. DrainPart(c)'
    BY <2>2, SlotFacts DEF DrainPart, SameLife
  <2> QED BY <2>1, <2>2, <2>3, <2>4, <2>5 DEF SameLife
<1> QED BY <1>1, <1>2, SlotFacts DEF SlotRecord

LEMMA KillStep == ASSUME SlotInv, NEW c \in Command, Kill(c) PROVE LawfulStep
<1>1. /\ activeCommand = c /\ cmd[c].kill /\ cmd' = [cmd EXCEPT ![c].kill = FALSE]
      /\ proc' = [proc EXCEPT ![c] = Killed(c, proc[c])] /\ UNCHANGED <<activeCommand, told, env>>
  BY DEF Kill
<1>2. /\ cmd'[c] = [cmd[c] EXCEPT !.kill = FALSE] /\ proc'[c] = Killed(c, proc[c])
      /\ cmd[c].mode \in {"exec", "secure"}
  BY <1>1, SlotFacts DEF SlotInv, TypeOK, SlotPart
<1>3. /\ cmd'[c] \in SlotRecord /\ cmd'[c].mode = cmd[c].mode /\ ~cmd'[c].kill
      /\ cmd'[c].deadline = cmd[c].deadline /\ cmd'[c].settled = cmd[c].settled /\ cmd'[c].sent = cmd[c].sent
  BY <1>2, SlotFacts DEF SlotRecord
<1>4. /\ ExecPart(c)' /\ DrainPart(c)' /\ proc'[c] \in Process /\ proc'[c].st = proc[c].st
      /\ cmd[c].mode = "exec" /\ proc[c].st \in {"exited", "gone"} => proc'[c].sig = proc[c].sig
  BY <1>1, <1>2, <1>3, EndedKeeps
<1>5. SlotPart(c)'
  BY <1>1, <1>2, <1>3, SlotFacts DEF SlotPart
<1>6. Lawful(c) /\ StepOf(c)
  BY <1>1, <1>4 DEF Lawful, StepOf, env, SlotInv, TypeOK
<1> QED BY <1>1, <1>3, <1>4, <1>5, <1>6, SlotFacts, StepKeeps DEF CommandInv

LEMMA CommandTimeoutStep == ASSUME SlotInv, NEW c \in Command, CommandTimeout(c) PROVE LawfulStep
<1>1. /\ cmd[c].deadline = 0
      /\ cmd' = [cmd EXCEPT ![c].deadline = Off, ![c].sent = TRUE, ![c].kill = FALSE]
      /\ Reply(c, "timeout") /\ UNCHANGED <<activeCommand, env>>
      /\ proc' = IF cmd[c].kill THEN [proc EXCEPT ![c] = Killed(c, proc[c])] ELSE proc
  BY DEF CommandTimeout
<1>2. cmd[c].mode = "exec" /\ ~cmd[c].sent /\ told[c].replies = <<>>
  BY <1>1, SlotFacts DEF SlotPart, Off
<1>3. /\ cmd' = [cmd EXCEPT ![c] = cmd'[c]] /\ cmd'[c] \in SlotRecord /\ cmd'[c].mode = "exec"
      /\ ~cmd'[c].kill /\ cmd'[c].sent /\ cmd'[c].deadline = Off /\ cmd'[c].settled = cmd[c].settled
  BY <1>1, <1>2, SlotFacts DEF SlotInv, TypeOK, SlotRecord, Ticks
<1>4. proc' = [proc EXCEPT ![c] = proc'[c]]
      /\ proc'[c] = IF cmd[c].kill THEN Killed(c, proc[c]) ELSE proc[c]
  BY <1>1 DEF SlotInv, TypeOK
<1>5. /\ ExecPart(c)' /\ DrainPart(c)' /\ proc'[c] \in Process /\ proc'[c].st = proc[c].st
      /\ proc[c].st \in {"exited", "gone"} => proc'[c].sig = proc[c].sig
  BY <1>2, <1>3, <1>4, EndedKeeps
<1>6. told' = [told EXCEPT ![c] = told'[c]]
      /\ told'[c] = [replies |-> Append(told[c].replies, "timeout"), last |-> "terminal"]
  BY <1>1 DEF Reply, SlotInv, TypeOK
<1>7. told'[c] = [replies |-> <<"timeout">>, last |-> "terminal"]
  BY <1>2, <1>6
<1>8. told'[c] \in Told /\ Len(told'[c].replies) = 1 /\ told'[c].last = "terminal"
  BY <1>7 DEF Told
<1>9. SlotPart(c)'
  BY <1>1, <1>2, <1>3, <1>8, SlotFacts DEF SlotPart
<1>10. proc[c].st \notin {"exited", "gone"}
  <2>1. proc[c].st # "gone"
    BY <1>2, SlotFacts DEF ExecPart, SlotPart
  <2>2. proc[c].st # "exited"
    <3> SUFFICES ASSUME proc[c].st = "exited" PROVE FALSE
      OBVIOUS
    <3>1. proc[c].until \in Nat /\ proc[c].until + Guard <= 0 /\ Guard \in Nat \ {0}
      BY <1>1, SlotFacts, TimeAssumption DEF DrainPart, Process, Ticks, Off
    <3> QED BY <3>1
  <2> QED BY <2>1, <2>2
<1>11. Lawful(c) /\ StepOf(c)
  BY <1>1, <1>3, <1>4, <1>5, <1>6, <1>10 DEF Lawful, StepOf, env
<1> QED BY <1>3, <1>5, <1>8, <1>9, <1>11, StepKeeps DEF CommandInv

\* The end of the connection, seen twice: the promise, then the close event.
LEMMA AbortStep == ASSUME SlotInv, Settle \/ Closed PROVE LawfulStep
<1>1. Abort /\ link' \in {"settled", "closed"} /\ UNCHANGED identity
  BY DEF Settle, Closed
<1>2. CASE activeCommand = None
  <2>1. UNCHANGED <<activeCommand, cmd, told, proc>>
    BY <1>1, <1>2 DEF Abort, slot
  <2>2. \A c \in Command : CommandInv(c)' /\ Lawful(c)
    BY <2>1, UntouchedKeeps DEF Untouched, Lawful
  <2> QED BY <1>1, <2>1, <2>2 DEF LawfulStep, SlotInv, TypeOK
<1>3. CASE activeCommand # None
  <2>0. PICK c \in Command : c = activeCommand
    BY <1>3 DEF SlotInv, TypeOK
  <2>1. /\ activeCommand = c /\ activeCommand' = None /\ UNCHANGED told
        /\ cmd' = [cmd EXCEPT ![c] = [cmd[c] EXCEPT !.sent = TRUE, !.settled = TRUE, !.kill = FALSE,
                                                    !.deadline = Off]]
        /\ proc' = IF cmd[c].kill THEN [proc EXCEPT ![c] = Killed(c, proc[c])] ELSE proc
    BY <1>1, <1>3, <2>0 DEF Abort
  <2>2. cmd[c].mode \in {"exec", "secure"}
    BY <2>1, SlotFacts DEF SlotPart
  <2> DEFINE r == [cmd[c] EXCEPT !.sent = TRUE, !.settled = TRUE]
             r2 == [r EXCEPT !.kill = FALSE, !.deadline = Off]
  <2>3. cmd' = [cmd EXCEPT ![c] = r2]
    BY <2>1
  <2>4. r \in SlotRecord /\ r.mode = cmd[c].mode /\ r.sent /\ r.settled
    BY <2>1, SlotFacts DEF SlotRecord
  <2> HIDE DEF r
  <2>5. r2 \in SlotRecord /\ r2.mode = r.mode /\ r2.sent /\ r2.settled /\ ~r2.kill /\ r2.deadline = Off
    BY <2>4 DEF SlotRecord, Ticks
  <2> HIDE DEF r2
  <2>6. cmd'[c] = r2
    BY <2>1, <2>3 DEF SlotInv, TypeOK
  <2>7. proc' = [proc EXCEPT ![c] = proc'[c]]
        /\ proc'[c] = IF cmd[c].kill THEN Killed(c, proc[c]) ELSE proc[c]
    BY <2>1 DEF SlotInv, TypeOK
  <2>8. /\ ExecPart(c)' /\ DrainPart(c)' /\ proc'[c] \in Process /\ proc'[c].st = proc[c].st
        /\ cmd[c].mode = "exec" /\ proc[c].st \in {"exited", "gone"} => proc'[c].sig = proc[c].sig
    BY <2>1, <2>2, <2>4, <2>5, <2>6, <2>7, EndedKeeps
  <2>9. SlotPart(c)'
    BY <2>1, <2>2, <2>4, <2>5, <2>6, SlotFacts DEF SlotPart
  <2>10. Lawful(c)
    BY <2>1, <2>8 DEF Lawful
  <2>11. \A d \in Command : d # c => Untouched(d)
    BY <2>1, <2>3, <2>7, SlotFacts DEF Untouched, SlotInv, TypeOK
  <2>12. TypeOK'
    BY <1>1, <2>1, <2>3, <2>5, <2>7, <2>8 DEF SlotInv, TypeOK
  <2>13. \A d \in Command : CommandInv(d)' /\ Lawful(d)
    BY <2>8, <2>9, <2>10, <2>11, UntouchedKeeps DEF CommandInv, Untouched, Lawful
  <2> QED BY <2>12, <2>13 DEF LawfulStep, SlotInv
<1> QED BY <1>2, <1>3

-----------------------------------------------------------------------------
(* The process and its pipes.                                                 *)

\* A step of the executor's record alone.
LEMMA ProcStep ==
  ASSUME SlotInv, NEW c \in Command, NEW x \in Process, proc' = [proc EXCEPT ![c] = x],
         UNCHANGED <<slot, env>>, proc[c].st # "none", ExecPart(c)', DrainPart(c)',
         cmd[c].mode = "exec" /\ proc[c].st \in {"exited", "gone"} => x.sig = proc[c].sig,
         proc[c].st = "waiting" /\ x.st \in {"running", "unborn"} => ~cmd[c].sent
  PROVE  LawfulStep
<1>1. cmd[c].mode \in {"exec", "secure"}
  BY SlotFacts DEF SlotPart, SlotRecord, NoProcess
<1>2. proc'[c] = x /\ UNCHANGED <<activeCommand, cmd, told, link, identity>>
  BY DEF slot, env, SlotInv, TypeOK
<1>3. SlotPart(c)'
  BY <1>1, <1>2, SlotFacts DEF SlotPart
<1>4. Lawful(c) /\ StepOf(c)
  BY <1>2 DEF Lawful, StepOf, SlotInv, TypeOK
<1> QED BY <1>2, <1>3, <1>4, SlotFacts, StepKeeps DEF CommandInv

LEMMA StartDeferredStep == ASSUME SlotInv, NEW c \in Command, StartDeferred(c) PROVE LawfulStep
<1>1. CASE SettleExec(c, [proc[c] EXCEPT !.st = "gone", !.fail = TRUE])
  <2> DEFINE x == [proc[c] EXCEPT !.st = "gone", !.fail = TRUE]
  <2>1. proc[c].st = "waiting" /\ UNCHANGED env
    BY DEF StartDeferred
  <2>2. ~x.settled /\ x.closed \in BOOLEAN /\ x.sig = proc[c].sig /\ x.user = proc[c].user
    BY <2>1, SlotFacts DEF ExecPart, Process
  <2>3. SettleExec(c, x)
    BY <1>1
  <2> HIDE DEF x
  <2> QED BY <2>1, <2>2, <2>3, SettleStep
<1>2. ASSUME NEW x \in Spawned, proc' = [proc EXCEPT ![c] = x], UNCHANGED slot, ~CancelledEarly(c)
      PROVE  LawfulStep
  <2>1. proc[c].st = "waiting" /\ UNCHANGED env
    BY DEF StartDeferred
  <2>2. x \in Process /\ x.st \in {"running", "unborn"} /\ ~x.settled /\ x.next = Off
    BY BirthTypes
  <2>3. proc'[c] = x /\ cmd' = cmd /\ ~cmd[c].sent
    BY <1>2, <2>1, SlotFacts DEF SlotInv, TypeOK, slot, CancelledEarly, ExecPart, SlotPart
  <2>4. ExecPart(c)' /\ DrainPart(c)'
    BY <2>2, <2>3 DEF ExecPart, DrainPart
  <2> QED BY <1>2, <2>1, <2>2, <2>3, <2>4, ProcStep
<1> QED BY <1>1, <1>2 DEF StartDeferred

LEMMA OverSteps ==
  ASSUME SlotInv, NEW c \in Command, SpawnFails(c) \/ Close(c)
  PROVE  LawfulStep
<1>1. CASE SpawnFails(c)
  <2> DEFINE x == [proc[c] EXCEPT !.st = "gone", !.closed = TRUE, !.fail = TRUE]
  <2>1. proc[c].st = "unborn" /\ UNCHANGED env /\ SettleExec(c, x)
    BY <1>1 DEF SpawnFails
  <2>2. ~x.settled /\ x.closed /\ x.sig = proc[c].sig /\ x.user = proc[c].user
    BY <2>1, SlotFacts DEF ExecPart, Process
  <2> HIDE DEF x
  <2> QED BY <2>1, <2>2, SettleStep
<1>2. CASE Close(c)
  <2> DEFINE z == [proc[c] EXCEPT !.st = "gone", !.closed = TRUE]
             y == [z EXCEPT !.esc = Off]
             x == [y EXCEPT !.next = Off, !.until = Off]
  <2>1. proc[c].st = "exited" /\ UNCHANGED env /\ SettleExec(c, x)
    BY <1>2 DEF Close
  <2>2. ~z.settled /\ z.closed /\ z.sig = proc[c].sig /\ z.user = proc[c].user /\ z \in Process
    <3>1. proc[c] \in Process /\ ~proc[c].settled
      BY <2>1, SlotFacts DEF ExecPart
    <3> QED BY <3>1 DEF Process
  <2> HIDE DEF z
  <2>3. ~y.settled /\ y.closed /\ y.sig = z.sig /\ y.user = z.user /\ y \in Process
    BY <2>2 DEF Process, Ticks
  <2> HIDE DEF y
  <2>4. ~x.settled /\ x.closed /\ x.sig = y.sig /\ x.user = y.user
    BY <2>3 DEF Process
  <2> HIDE DEF x
  <2> QED BY <2>1, <2>2, <2>3, <2>4, SettleStep
<1> QED BY <1>1, <1>2

LEMMA DropStep == ASSUME SlotInv, NEW c \in Command, Drop(c) PROVE LawfulStep
<1> DEFINE s == IF DropHolds THEN "running" ELSE "exited"
           u == IF DropHolds THEN identity ELSE "none"
<1>1. PICK x : /\ proc[c].st = "dropping" /\ x = [proc[c] EXCEPT !.st = s, !.user = u]
               /\ proc' = [proc EXCEPT ![c] = x] /\ UNCHANGED <<slot, env>>
  BY DEF Drop
<1>2. s \in {"running", "exited"} /\ u \in {"none", "clean", "absent"}
  BY DEF DropHolds, SlotInv, TypeOK
<1> HIDE DEF s, u
<1>3. x \in Process /\ x.st \in {"running", "exited"} /\ ~x.settled /\ x.next = proc[c].next
  <2>1. proc[c] \in Process /\ ~proc[c].settled
    BY <1>1, SlotFacts DEF ExecPart
  <2> QED BY <1>1, <1>2, <2>1 DEF Process
<1>4. proc'[c] = x /\ cmd' = cmd
  BY <1>1 DEF SlotInv, TypeOK, slot
<1>5. cmd[c].mode = "secure" /\ cmd[c].deadline = Off /\ x.next = Off
  BY <1>1, <1>3, SlotFacts DEF ExecPart, SlotPart
<1>6. ExecPart(c)' /\ DrainPart(c)'
  BY <1>3, <1>4, <1>5 DEF ExecPart, DrainPart
<1> QED BY <1>1, <1>3, <1>6, ProcStep

LEMMA LauncherSteps ==
  ASSUME SlotInv, NEW c \in Command, LauncherAnswers(c) \/ LauncherTimeout(c)
  PROVE  LawfulStep
<1>1. /\ proc[c].st \notin {"none", "gone"} /\ UNCHANGED <<slot, env>>
      /\ \E x \in {[proc[c] EXCEPT !.ready = TRUE, !.hs = Off, !.quietFor = 0],
                   SetupFailed([proc[c] EXCEPT !.quietFor = 0]), SetupFailed([proc[c] EXCEPT !.hs = Off])} :
           proc' = [proc EXCEPT ![c] = x]
  <2>1. CASE LauncherAnswers(c)
    BY <2>1 DEF LauncherAnswers, Listening
  <2>2. CASE LauncherTimeout(c)
    <3>1. proc[c].st \notin {"none", "gone"}
      BY <2>2, SlotFacts DEF LauncherTimeout, ExecPart, Off
    <3> QED BY <2>2, <3>1 DEF LauncherTimeout
  <2> QED BY <2>1, <2>2
<1>2. PICK x : /\ x \in {[proc[c] EXCEPT !.ready = TRUE, !.hs = Off, !.quietFor = 0],
                         SetupFailed([proc[c] EXCEPT !.quietFor = 0]),
                         SetupFailed([proc[c] EXCEPT !.hs = Off])}
               /\ proc' = [proc EXCEPT ![c] = x]
  BY <1>1
<1>3. /\ x \in Process /\ x.st = proc[c].st /\ x.closed = proc[c].closed /\ x.settled = proc[c].settled
      /\ x.next = proc[c].next /\ x.until = proc[c].until /\ x.esc = proc[c].esc
      /\ x.killReq = proc[c].killReq /\ (x.closed => x.sig = proc[c].sig)
  <2>1. CASE x = [proc[c] EXCEPT !.ready = TRUE, !.hs = Off, !.quietFor = 0]
    <3>1. proc[c] \in Process
      BY SlotFacts
    <3> QED BY <2>1, <3>1 DEF Process, Ticks
  <2>2. CASE \E y \in {[proc[c] EXCEPT !.quietFor = 0], [proc[c] EXCEPT !.hs = Off]} : x = SetupFailed(y)
    <3>1. PICK y : x = SetupFailed(y) /\ y \in {[proc[c] EXCEPT !.quietFor = 0], [proc[c] EXCEPT !.hs = Off]}
      BY <2>2
    <3>2. /\ y \in Process /\ y.st = proc[c].st /\ y.closed = proc[c].closed /\ y.settled = proc[c].settled
          /\ y.next = proc[c].next /\ y.until = proc[c].until /\ y.esc = proc[c].esc
          /\ y.killReq = proc[c].killReq /\ y.sig = proc[c].sig
      BY <3>1, SlotFacts DEF Process, Ticks
    <3> QED BY <3>1, <3>2, SetupEffect DEF SameLife
  <2> QED BY <1>2, <2>1, <2>2
<1>4. proc'[c] = x /\ cmd' = cmd
  BY <1>1, <1>2 DEF SlotInv, TypeOK, slot
<1>5. ExecPart(c)' /\ DrainPart(c)'
  BY <1>1, <1>3, <1>4, SlotFacts DEF ExecPart, DrainPart
<1>6. cmd[c].mode = "exec" /\ proc[c].st \in {"exited", "gone"} => x.sig = proc[c].sig
  BY <1>1, <1>3, SlotFacts DEF ExecPart
<1> QED BY <1>1, <1>2, <1>3, <1>5, <1>6, ProcStep

LEMMA EscalateStep == ASSUME SlotInv, NEW c \in Command, Escalate(c) PROVE LawfulStep
<1> DEFINE y == IF proc[c].closed THEN proc[c] ELSE Signal(proc[c], "kill")
           x == [y EXCEPT !.esc = Off]
<1>1. proc[c].esc = 0 /\ proc' = [proc EXCEPT ![c] = x] /\ UNCHANGED <<slot, env>>
  BY DEF Escalate
<1>2. /\ y \in Process /\ SameLife(y, proc[c]) /\ y.killReq = proc[c].killReq /\ y.hs = proc[c].hs
      /\ proc[c].closed => y = proc[c]
  <2>1. CASE proc[c].closed
    BY <2>1, SlotFacts DEF SameLife
  <2>2. CASE ~proc[c].closed
    BY <2>2, SlotFacts, SignalEffect
  <2> QED BY <2>1, <2>2
<1> HIDE DEF y
<1>3. x \in Process /\ SameLife(x, y) /\ x.killReq = y.killReq /\ x.hs = y.hs /\ x.sig = y.sig
  BY <1>2 DEF Process, SameLife, Ticks
<1> HIDE DEF x
<1>4. proc[c].st \notin {"none", "gone"} /\ (cmd[c].mode = "exec" => proc[c].st # "exited")
  BY <1>1, SlotFacts DEF ExecPart, Off
<1>5. proc'[c] = x /\ cmd' = cmd
  BY <1>1 DEF SlotInv, TypeOK, slot
<1>6. ExecPart(c)' /\ DrainPart(c)'
  BY <1>2, <1>3, <1>4, <1>5, SlotFacts DEF ExecPart, DrainPart, SameLife
<1> QED BY <1>1, <1>2, <1>3, <1>4, <1>6, ProcStep DEF SameLife

\* Frames that are not terminal come before the terminal one or not at all.
LEMMA ChatterKeeps ==
  ASSUME SlotInv, NEW c \in Command, NEW f \in {"output", "idle"},
         told' = told \/ (Chatter(c, f) /\ cmd[c].mode \in {"exec", "secure"})
  PROVE  /\ told' = [told EXCEPT ![c] = told'[c]] /\ told'[c] \in Told
         /\ told'[c].replies = told[c].replies
         /\ told'[c].replies # <<>> => told'[c].last = "terminal"
<1>1. CASE told' = told
  BY <1>1, SlotFacts DEF SlotInv, TypeOK, SlotPart
<1>2. CASE told' # told
  <2>1. ~cmd[c].sent /\ told' = [told EXCEPT ![c].last = f] /\ cmd[c].mode \in {"exec", "secure"}
    BY <1>2 DEF Chatter
  <2>2. told'[c] = [told[c] EXCEPT !.last = f] /\ told[c].replies = <<>>
    BY <2>1, SlotFacts DEF SlotInv, TypeOK, SlotPart
  <2> QED BY <2>1, <2>2, SlotFacts DEF SlotInv, TypeOK, Told
<1> QED BY <1>1, <1>2

LEMMA OutputStep == ASSUME SlotInv, NEW c \in Command, Output(c) PROVE LawfulStep
<1> DEFINE x == [proc[c] EXCEPT !.quietFor = 0]
<1>1. /\ proc[c].st \in {"running", "exited"} /\ proc' = [proc EXCEPT ![c] = x]
      /\ UNCHANGED <<activeCommand, cmd, env>> /\ (told' = told \/ Chatter(c, "output"))
  BY DEF Output, Listening
<1>2. /\ x \in Process /\ x.st = proc[c].st /\ x.closed = proc[c].closed /\ x.settled = proc[c].settled
      /\ x.next = proc[c].next /\ x.until = proc[c].until /\ x.esc = proc[c].esc
      /\ x.killReq = proc[c].killReq /\ x.sig = proc[c].sig
  BY SlotFacts DEF Process
<1> HIDE DEF x
<1>3. cmd[c].mode \in {"exec", "secure"}
  BY <1>1, SlotFacts DEF SlotPart, SlotRecord, NoProcess
<1>4. proc'[c] = x
  BY <1>1 DEF SlotInv, TypeOK
<1>5. /\ told' = [told EXCEPT ![c] = told'[c]] /\ told'[c] \in Told
      /\ told'[c].replies = told[c].replies
      /\ told'[c].replies # <<>> => told'[c].last = "terminal"
  BY <1>1, <1>3, ChatterKeeps
<1>6. SlotPart(c)'
  BY <1>1, <1>3, <1>5, SlotFacts DEF SlotPart
<1>7. ExecPart(c)' /\ DrainPart(c)'
  BY <1>1, <1>2, <1>4, SlotFacts DEF ExecPart, DrainPart
<1>8. Lawful(c) /\ StepOf(c)
  BY <1>1, <1>2, <1>4, <1>5 DEF Lawful, StepOf, env, SlotInv, TypeOK
<1> QED BY <1>1, <1>2, <1>4, <1>5, <1>6, <1>7, <1>8, SlotFacts, StepKeeps DEF CommandInv

LEMMA IdleStep == ASSUME SlotInv, NEW c \in Command, IdleNotice(c) PROVE LawfulStep
<1>1. activeCommand = c /\ UNCHANGED <<activeCommand, cmd, proc, env>> /\ Chatter(c, "idle")
  BY DEF IdleNotice
<1>2. cmd[c].mode \in {"exec", "secure"}
  BY <1>1, SlotFacts DEF SlotPart
<1>3. /\ told' = [told EXCEPT ![c] = told'[c]] /\ told'[c] \in Told
      /\ told'[c].replies = told[c].replies
      /\ told'[c].replies # <<>> => told'[c].last = "terminal"
  BY <1>1, <1>2, ChatterKeeps
<1>4. CommandInv(c)'
  BY <1>1, <1>2, <1>3, SlotFacts DEF CommandInv, SlotPart, ExecPart, DrainPart
<1>5. Lawful(c) /\ StepOf(c)
  BY <1>1, <1>3 DEF Lawful, StepOf, env, SlotInv, TypeOK
<1> QED BY <1>1, <1>3, <1>4, <1>5, SlotFacts, StepKeeps

LEMMA SurvivorStep == ASSUME SlotInv, NEW c \in Command, SurvivorEnds(c) PROVE LawfulStep
<1> DEFINE x == [proc[c] EXCEPT !.held = FALSE]
<1>1. proc' = [proc EXCEPT ![c] = x] /\ UNCHANGED <<slot, env>> /\ proc[c].held
  BY DEF SurvivorEnds
<1>2. /\ x \in Process /\ x.st = proc[c].st /\ x.closed = proc[c].closed /\ x.settled = proc[c].settled
      /\ x.next = proc[c].next /\ x.until = proc[c].until /\ x.esc = proc[c].esc /\ x.hs = proc[c].hs
      /\ x.killReq = proc[c].killReq /\ x.sig = proc[c].sig
  <2>1. proc[c] \in Process
    BY SlotFacts
  <2> QED BY <2>1 DEF Process
<1> HIDE DEF x
<1>3. proc'[c] = x /\ cmd' = cmd
  BY <1>1 DEF SlotInv, TypeOK, slot
<1>4. proc[c].st \notin {"none", "gone"}
  BY <1>1, SlotFacts DEF ExecPart
<1>5. ExecPart(c)' /\ DrainPart(c)'
  BY <1>2, <1>3, <1>4, SlotFacts DEF ExecPart, DrainPart
<1> QED BY <1>1, <1>2, <1>4, <1>5, ProcStep

\* The exit event of a do:exec: what the drain is given of the time that is left.
LEMMA DrainIs ==
  ASSUME SlotInv, NEW c \in Command, NEW x \in Process, NEW q \in 0 .. DrainQuiet,
         x.st = "exited", ~x.settled, cmd[c].mode = "exec"
  PROVE  LET y == Drained(c, Reaped(x), q)
         IN /\ y.st = "exited" /\ ~y.settled /\ y.closed /\ y.esc = Off /\ y.sig = x.sig /\ y.user = x.user
            /\ ~(y.until <= 0) => /\ y \in Process /\ y.next # Off /\ y.next <= y.until /\ y.until # Off
                                  /\ cmd[c].deadline # Off /\ y.until + Guard <= cmd[c].deadline
<1> DEFINE r == Reaped(x)
           d == cmd[c].deadline
           budget == IF d = Off THEN 0 ELSE d - Guard
           max == Smaller(DrainMax, budget)
           quiet == Smaller(DrainQuiet, max)
           n == IF max <= 0 THEN Off ELSE quiet
           y1 == [r EXCEPT !.until = max, !.next = n]
           y == [y1 EXCEPT !.quiet = quiet, !.quietFor = q]
<1>1. r \in Process /\ r.st = "exited" /\ ~r.settled /\ r.closed /\ r.esc = Off /\ r.sig = x.sig /\ r.user = x.user
  BY DEF Reaped, Process, Ticks
<1>2. Drained(c, Reaped(x), q) = y
  BY DEF Drained
<1>3. d \in Ticks /\ DrainMax \in Nat \ {0} /\ DrainQuiet \in Nat \ {0} /\ Guard \in Nat \ {0}
  BY SlotFacts, TimeAssumption DEF SlotRecord
<1>4. /\ max \in Int /\ quiet \in Int
      /\ max > 0 => /\ quiet \in Nat \ {0} /\ quiet <= max /\ n = quiet /\ d # Off /\ max + Guard <= d
                    /\ max \in Nat
  BY <1>3 DEF Smaller, Ticks, Off
<1>5. q \in Nat
  BY <1>3
<1> HIDE DEF r, n, max, quiet, d
<1>6. /\ y1.st = "exited" /\ ~y1.settled /\ y1.closed /\ y1.esc = Off /\ y1.sig = r.sig /\ y1.user = r.user
      /\ y1.until = max /\ y1.next = n
      /\ max > 0 => y1 \in Process
  <2>1. max > 0 => max \in Ticks /\ n \in Ticks
    BY <1>4 DEF Ticks
  <2> QED BY <1>1, <2>1 DEF Process
<1>7. DOMAIN y1 = DOMAIN r
  OBVIOUS
<1> HIDE DEF y1
<1>8. /\ y.st = "exited" /\ ~y.settled /\ y.closed /\ y.esc = Off /\ y.sig = r.sig /\ y.user = r.user
      /\ y.until = max /\ y.next = n
      /\ max > 0 => y \in Process
  BY <1>1, <1>4, <1>5, <1>6, <1>7 DEF Process
<1> HIDE DEF y
<1>9. ~(max <= 0) => max > 0 /\ max # Off /\ n # Off /\ n <= max /\ d # Off /\ max + Guard <= d
  BY <1>4 DEF Off
<1> QED BY <1>1, <1>2, <1>8, <1>9 DEF d

LEMMA ExitSteps ==
  ASSUME SlotInv, NEW c \in Command, Exit(c) \/ DrainCheck(c)
  PROVE  LawfulStep
<1>1. CASE Exit(c)
  <2>1. PICK h \in BOOLEAN, l \in BOOLEAN, q \in 0 .. DrainQuiet :
          LET x == [proc[c] EXCEPT !.st = "exited", !.held = h, !.lost = l]
              y == Drained(c, Reaped(x), q)
          IN IF cmd[c].mode = "secure"
             THEN proc' = [proc EXCEPT ![c] = x] /\ UNCHANGED slot
             ELSE IF y.until <= 0 THEN SettleExec(c, y)
             ELSE proc' = [proc EXCEPT ![c] = y] /\ UNCHANGED slot
    BY <1>1, ZenonT(30) DEF Exit
  <2> DEFINE x == [proc[c] EXCEPT !.st = "exited", !.held = h, !.lost = l]
             y == Drained(c, Reaped(x), q)
  <2>2. proc[c].st \in {"running", "dropping"} /\ UNCHANGED env
    BY <1>1 DEF Exit
  <2>3. x \in Process /\ x.st = "exited" /\ ~x.settled /\ x.sig = proc[c].sig /\ x.user = proc[c].user
        /\ x.next = Off
    <3> DEFINE z == [proc[c] EXCEPT !.st = "exited", !.held = h]
    <3>1. z \in Process /\ z.st = "exited" /\ ~z.settled /\ z.sig = proc[c].sig /\ z.user = proc[c].user
          /\ z.next = Off
      <4>1. proc[c] \in Process /\ ~proc[c].settled /\ proc[c].next = Off
        BY <2>2, SlotFacts DEF ExecPart
      <4> QED BY <4>1 DEF Process
    <3>2. x = [z EXCEPT !.lost = l]
      OBVIOUS
    <3> HIDE DEF z, x
    <3> QED BY <3>1, <3>2 DEF Process
  <2>4. IF cmd[c].mode = "secure"
        THEN proc' = [proc EXCEPT ![c] = x] /\ UNCHANGED slot
        ELSE IF y.until <= 0 THEN SettleExec(c, y)
        ELSE proc' = [proc EXCEPT ![c] = y] /\ UNCHANGED slot
    BY <2>1
  <2> HIDE DEF x
  <2>5. cmd[c].mode \in {"exec", "secure"}
    BY <2>2, SlotFacts DEF SlotPart, SlotRecord, NoProcess
  <2>6. CASE cmd[c].mode = "secure"
    <3>1. proc'[c] = x /\ cmd' = cmd /\ cmd[c].deadline = Off
      BY <2>4, <2>6, SlotFacts DEF SlotInv, TypeOK, slot, SlotPart
    <3>2. ExecPart(c)' /\ DrainPart(c)'
      BY <2>3, <2>6, <3>1 DEF ExecPart, DrainPart
    <3> QED BY <2>2, <2>3, <2>4, <2>6, <3>2, ProcStep
  <2>7. CASE cmd[c].mode = "exec"
    <3>1. /\ y.st = "exited" /\ ~y.settled /\ y.closed /\ y.esc = Off /\ y.sig = x.sig /\ y.user = x.user
          /\ ~(y.until <= 0) => /\ y \in Process /\ y.next # Off /\ y.next <= y.until /\ y.until # Off
                                /\ cmd[c].deadline # Off /\ y.until + Guard <= cmd[c].deadline
      BY <2>3, <2>7, DrainIs
    <3>2. IF y.until <= 0 THEN SettleExec(c, y) ELSE proc' = [proc EXCEPT ![c] = y] /\ UNCHANGED slot
      BY <2>4, <2>7
    <3> HIDE DEF y
    <3>3. CASE y.until <= 0
      <4>1. y.closed = TRUE
        BY <2>3 DEF y, Drained, Reaped, Process
      <4> QED BY <2>2, <2>3, <3>1, <3>2, <3>3, <4>1, SettleStep
    <3>4. CASE ~(y.until <= 0)
      <4>1. proc'[c] = y /\ cmd' = cmd
        BY <3>2, <3>4 DEF SlotInv, TypeOK, slot
      <4>2. ExecPart(c)' /\ DrainPart(c)'
        BY <3>1, <3>4, <4>1 DEF ExecPart, DrainPart
      <4> QED BY <2>2, <2>3, <3>1, <3>2, <3>4, <4>2, ProcStep
    <3> QED BY <3>3, <3>4
  <2> QED BY <2>5, <2>6, <2>7
<1>2. CASE DrainCheck(c)
  <2> DEFINE x == proc[c]
             n == Larger(1, Smaller(x.quiet - x.quietFor, x.until))
  <2>1. /\ x.next = 0 /\ x.st = "exited" /\ UNCHANGED env
        /\ x \in Process /\ ~x.settled
    BY <1>2, SlotFacts DEF DrainCheck, ExecPart, Off
  <2>2. CASE SettleExec(c, x)
    <3>1. x.closed \in BOOLEAN
      BY <2>1 DEF Process
    <3> QED BY <2>1, <2>2, <3>1, SettleStep
  <2>3. CASE ~(x.quietFor >= x.quiet \/ x.until <= 0)
    <3>1. proc' = [proc EXCEPT ![c].next = n] /\ UNCHANGED slot
      BY <1>2, <2>3 DEF DrainCheck
    <3>2. n \in Nat \ {0} /\ n <= x.until
      BY <2>1, <2>3 DEF Larger, Smaller, Process, Ticks, Off
    <3> DEFINE y == [x EXCEPT !.next = n]
    <3>3. proc' = [proc EXCEPT ![c] = y]
      BY <3>1 DEF SlotInv, TypeOK
    <3> HIDE DEF n
    <3>4. /\ y \in Process /\ y.st = x.st /\ y.closed = x.closed /\ y.settled = x.settled
          /\ y.next = n /\ y.until = x.until /\ y.esc = x.esc /\ y.hs = x.hs /\ y.held = x.held
          /\ y.killReq = x.killReq /\ y.sig = x.sig
      BY <2>1, <3>2 DEF Process, Ticks
    <3> HIDE DEF y
    <3>5. proc'[c] = y /\ cmd' = cmd
      BY <3>1, <3>3 DEF SlotInv, TypeOK, slot
    <3>6. ExecPart(c)' /\ DrainPart(c)'
      BY <2>1, <3>2, <3>4, <3>5, SlotFacts DEF ExecPart, DrainPart, Off
    <3> QED BY <2>1, <3>1, <3>3, <3>4, <3>6, ProcStep
  <2> QED BY <1>2, <2>2, <2>3 DEF DrainCheck
<1> QED BY <1>1, <1>2

-----------------------------------------------------------------------------
(* Time, and what happens outside the agent.                                  *)

LEMMA AsideStep ==
  ASSUME SlotInv, ProbeSettles \/ EditAccounts \/ UNCHANGED vars
  PROVE  LawfulStep
<1>1. UNCHANGED <<activeCommand, cmd, proc, told, link>> /\ identity' \in {identity, "root"}
  BY DEF ProbeSettles, EditAccounts, vars, slot
<1>2. \A c \in Command : CommandInv(c)' /\ Lawful(c)
  BY <1>1, UntouchedKeeps DEF Untouched, Lawful
<1> QED BY <1>1, <1>2 DEF LawfulStep, SlotInv, TypeOK

\* No timer passes zero, and the ones that are off stay off.
LEMMA LessIs ==
  ASSUME NEW t \in Ticks
  PROVE  Less(t) \in Ticks /\ (Less(t) = Off <=> t = Off) /\ (t # Off /\ t # 0 => Less(t) = t - 1)
         /\ (t = 0 => Less(t) = 0)
BY DEF Less, Ticks, Off

LEMMA TickStep == ASSUME SlotInv, Tick PROVE LawfulStep
<1>1. UNCHANGED <<activeCommand, told, link, identity>>
  BY DEF Tick, env
<1>2. ASSUME NEW c \in Command
      PROVE  /\ cmd'[c] \in SlotRecord /\ cmd'[c].mode = cmd[c].mode /\ cmd'[c].sent = cmd[c].sent
             /\ cmd'[c].settled = cmd[c].settled /\ cmd'[c].kill = cmd[c].kill
             /\ cmd'[c].deadline = Less(cmd[c].deadline) /\ cmd[c].deadline \in Ticks
  <2>1. cmd'[c] = [cmd[c] EXCEPT !.deadline = Less(cmd[c].deadline)]
    BY DEF Tick
  <2>2. cmd[c].deadline \in Ticks /\ Less(cmd[c].deadline) \in Ticks
    BY SlotFacts, LessIs DEF SlotRecord
  <2> QED BY <2>1, <2>2, SlotFacts DEF SlotRecord
<1>3. ASSUME NEW c \in Command
      PROVE  /\ proc'[c] \in Process /\ proc'[c].st = proc[c].st /\ proc'[c].closed = proc[c].closed
             /\ proc'[c].settled = proc[c].settled /\ proc'[c].held = proc[c].held
             /\ proc'[c].killReq = proc[c].killReq /\ proc'[c].sig = proc[c].sig
             /\ proc'[c].esc = Less(proc[c].esc) /\ proc'[c].hs = Less(proc[c].hs)
             /\ proc'[c].next = Less(proc[c].next) /\ proc'[c].until = Less(proc[c].until)
             /\ {proc[c].esc, proc[c].hs, proc[c].next, proc[c].until} \subseteq Ticks
             /\ proc[c] = NoProcess => proc'[c] = NoProcess
  <2> DEFINE x == proc[c]
             qf == IF x.next = Off THEN 0 ELSE Smaller(DrainQuiet, x.quietFor + 1)
             y == [x EXCEPT !.esc = Less(x.esc), !.hs = Less(x.hs)]
             z == [y EXCEPT !.next = Less(x.next), !.until = Less(x.until)]
  <2>1. proc'[c] = [z EXCEPT !.quietFor = qf]
    BY DEF Tick
  <2>2. /\ {x.esc, x.hs, x.next, x.until} \subseteq Ticks /\ x \in Process
        /\ {Less(x.esc), Less(x.hs), Less(x.next), Less(x.until)} \subseteq Ticks
    BY SlotFacts, LessIs DEF Process
  <2>3. qf \in Nat
    BY <2>2, TimeAssumption DEF Process, Smaller
  <2>4. proc[c] = NoProcess => /\ qf = 0 /\ Less(x.esc) = x.esc /\ Less(x.hs) = x.hs /\ Less(x.next) = x.next
                               /\ Less(x.until) = x.until /\ x.quietFor = 0
    BY DEF NoProcess, Less, Off
  <2> HIDE DEF qf
  <2>5. /\ y \in Process /\ y.st = x.st /\ y.closed = x.closed /\ y.settled = x.settled /\ y.held = x.held
        /\ y.killReq = x.killReq /\ y.sig = x.sig /\ y.esc = Less(x.esc) /\ y.hs = Less(x.hs)
        /\ y.next = x.next /\ y.until = x.until /\ y.quietFor = x.quietFor
        /\ x = NoProcess => y = x
    BY <2>2, <2>4 DEF Process
  <2> HIDE DEF y
  <2>6. /\ z \in Process /\ z.st = y.st /\ z.closed = y.closed /\ z.settled = y.settled /\ z.held = y.held
        /\ z.killReq = y.killReq /\ z.sig = y.sig /\ z.esc = y.esc /\ z.hs = y.hs
        /\ z.next = Less(x.next) /\ z.until = Less(x.until) /\ z.quietFor = y.quietFor
        /\ x = NoProcess => z = y
    <3>1. /\ z \in Process /\ z.st = y.st /\ z.closed = y.closed /\ z.settled = y.settled
          /\ z.held = y.held /\ z.killReq = y.killReq /\ z.sig = y.sig
      BY <2>2, <2>5 DEF Process
    <3>2. /\ z.esc = y.esc /\ z.hs = y.hs /\ z.next = Less(x.next) /\ z.until = Less(x.until)
          /\ z.quietFor = y.quietFor
      BY <2>5 DEF Process
    <3>3. ASSUME x = NoProcess PROVE z = y
      <4>1. Less(x.next) = y.next /\ Less(x.until) = y.until
        BY <2>4, <2>5, <3>3
      <4> QED BY <2>5, <4>1 DEF Process
    <3> QED BY <3>1, <3>2, <3>3
  <2> HIDE DEF z
  <2>7. /\ proc'[c] \in Process /\ proc'[c].st = z.st /\ proc'[c].closed = z.closed
        /\ proc'[c].settled = z.settled /\ proc'[c].held = z.held
        /\ proc'[c].killReq = z.killReq /\ proc'[c].sig = z.sig /\ proc'[c].esc = z.esc
        /\ proc'[c].hs = z.hs /\ proc'[c].next = z.next /\ proc'[c].until = z.until
        /\ x = NoProcess => proc'[c] = z
    BY <2>1, <2>3, <2>4, <2>5, <2>6 DEF Process
  <2> QED BY <2>2, <2>5, <2>6, <2>7
<1>4. TypeOK'
  <2>1. cmd' \in [Command -> SlotRecord]
    BY <1>2 DEF Tick
  <2>2. proc' \in [Command -> Process]
    BY <1>3 DEF Tick
  <2> QED BY <1>1, <2>1, <2>2 DEF SlotInv, TypeOK
<1>5. ASSUME NEW c \in Command PROVE CommandInv(c)' /\ Lawful(c)
  <2>1. SlotPart(c)'
    BY <1>1, <1>2, <1>3, SlotFacts, LessIs DEF SlotPart
  <2>2. ExecPart(c)'
    BY <1>2, <1>3, SlotFacts, LessIs DEF ExecPart
  <2>3. DrainPart(c)'
    <3> SUFFICES ASSUME cmd'[c].deadline # Off, proc'[c].st = "exited"
                 PROVE  /\ proc'[c].next # Off /\ proc'[c].until # Off
                        /\ proc'[c].next <= proc'[c].until /\ proc'[c].until + Guard <= cmd'[c].deadline
      BY DEF DrainPart
    <3> DEFINE n == proc[c].next
               u == proc[c].until
               d == cmd[c].deadline
    <3>1. n \in Ticks /\ u \in Ticks /\ d \in Ticks /\ n # Off /\ u # Off /\ n <= u /\ u + Guard <= d /\ d # Off
      BY <1>2, <1>3, SlotFacts, LessIs DEF DrainPart
    <3>2. n # 0 /\ Guard \in Nat \ {0}
      BY TimeAssumption DEF Tick, Timers
    <3>3. Less(n) = n - 1 /\ Less(u) = u - 1 /\ Less(d) = d - 1 /\ n - 1 # Off /\ u - 1 # Off
      BY <3>1, <3>2 DEF Less, Ticks, Off
    <3>4. n - 1 <= u - 1 /\ (u - 1) + Guard <= d - 1
      BY <3>1, <3>2 DEF Ticks, Off
    <3> QED BY <1>2, <1>3, <3>3, <3>4
  <2>4. Lawful(c)
    BY <1>1, <1>3 DEF Lawful
  <2> QED BY <2>1, <2>2, <2>3, <2>4 DEF CommandInv
<1> QED BY <1>4, <1>5 DEF LawfulStep, SlotInv

-----------------------------------------------------------------------------
LEMMA EveryStep == SlotInv /\ [Next]_vars => LawfulStep
<1> SUFFICES ASSUME SlotInv, [Next]_vars PROVE LawfulStep
  OBVIOUS
<1>1. CASE ProbeSettles \/ EditAccounts \/ UNCHANGED vars
  BY <1>1, AsideStep
<1>2. CASE Settle \/ Closed
  BY <1>2, AbortStep
<1>3. CASE Tick
  BY <1>3, TickStep
<1>4. ASSUME NEW c \in Command,
             \/ Busy(c) \/ Exec(c) \/ SecureExec(c) \/ Kill(c)
             \/ StartDeferred(c) \/ SpawnFails(c) \/ Drop(c) \/ Output(c)
             \/ LauncherAnswers(c) \/ LauncherTimeout(c) \/ Exit(c) \/ DrainCheck(c)
             \/ SurvivorEnds(c) \/ Close(c)
             \/ CommandTimeout(c) \/ Escalate(c) \/ IdleNotice(c)
      PROVE  LawfulStep
  BY <1>4, FrameSteps, KillStep, StartDeferredStep, OverSteps, DropStep, OutputStep, LauncherSteps,
     ExitSteps, SurvivorStep, CommandTimeoutStep, EscalateStep, IdleStep
<1> QED BY <1>1, <1>2, <1>3, <1>4 DEF Next

LEMMA SlotInvHolds == Spec => []SlotInv
<1>1. Init => SlotInv
  <2> SUFFICES ASSUME Init PROVE SlotInv
    OBVIOUS
  <2>1. ASSUME NEW c \in Command
        PROVE  /\ cmd[c] = NoCommand /\ proc[c] = NoProcess /\ activeCommand # c
               /\ told[c] = [replies |-> <<>>, last |-> "output"]
    BY <2>1, CommandAssumption DEF Init
  <2>2. ~NoCommand.settled /\ ~NoCommand.sent /\ NoCommand.deadline = Off /\ NoCommand.mode = "none"
        /\ ~NoCommand.kill
    BY DEF NoCommand
  <2>3. /\ NoProcess.st = "none" /\ ~NoProcess.settled /\ NoProcess.next = Off /\ NoProcess.esc = Off
        /\ NoProcess.hs = Off /\ ~NoProcess.held
    BY DEF NoProcess
  <2>4. [replies |-> <<>>, last |-> "output"] \in Told
    BY DEF Told
  <2>5. TypeOK
    <3>1. told \in [Command -> Told]
      <4> DEFINE t == [replies |-> <<>>, last |-> "output"]
      <4>1. told = [c \in Command |-> t] /\ t \in Told
        BY <2>4 DEF Init
      <4> HIDE DEF t
      <4> QED BY <4>1
    <3>2. cmd \in [Command -> SlotRecord] /\ proc \in [Command -> Process]
      BY RecordTypes DEF Init
    <3> QED BY <3>1, <3>2 DEF Init, TypeOK
  <2>6. ASSUME NEW c \in Command PROVE CommandInv(c)
    <3>1. told[c].replies = <<>> /\ Len(told[c].replies) = 0
      BY <2>1
    <3>2. SlotPart(c)
      BY <2>1, <2>2, <3>1 DEF SlotPart
    <3>3. ExecPart(c) /\ DrainPart(c)
      BY <2>1, <2>2, <2>3 DEF ExecPart, DrainPart
    <3> QED BY <3>2, <3>3 DEF CommandInv
  <2> QED BY <2>5, <2>6 DEF SlotInv
<1>2. SlotInv /\ [Next]_vars => SlotInv'
  BY EveryStep DEF LawfulStep
<1> QED BY <1>1, <1>2, PTL DEF Spec

\* The relay gets one terminal frame for a command and nothing after it, from whichever
\* of slot, executor, timer and pipe it comes (connection-commands.ts).
THEOREM OneTerminalFrame == Spec => []TerminalIsLast
<1>1. SlotInv => TerminalIsLast
  BY SlotFacts DEF TerminalIsLast, SlotPart
<1> QED BY <1>1, SlotInvHolds, PTL

\* The target of a sandboxed command never runs with root's groups, whoever edits the
\* accounts after the pre-flight (secure-exec-drop.ts).
THEOREM SandboxIsSafe == Spec => []SandboxHolds
<1>1. SlotInv => SandboxHolds
  BY SlotFacts DEF SandboxHolds, Process
<1> QED BY <1>1, SlotInvHolds, PTL

\* A command whose exit was seen is not reported as timed out: its drain is over
\* before the caller's deadline (scheduleDrainCheck, executor.ts).
THEOREM DrainBeatsDeadline == Spec => NoFalseTimeout
<1>1. LawfulStep => \A c \in Command :
        told'[c].replies # told[c].replies /\ told'[c].replies[Len(told'[c].replies)] = "timeout"
          => proc[c].st \notin {"exited", "gone"}
  BY DEF LawfulStep, Lawful
<1> QED BY <1>1, EveryStep, SlotInvHolds, PTL DEF Spec, NoFalseTimeout

\* do:exec signals nobody after its leader was reaped (terminateTree, executor.ts).
THEOREM ReapedIsLeftAlone == Spec => NoSignalAfterReap
<1>1. LawfulStep => \A c \in Command :
        cmd[c].mode = "exec" /\ proc[c].st \in {"exited", "gone"} => proc'[c].sig = proc[c].sig
  BY DEF LawfulStep, Lawful
<1> QED BY <1>1, EveryStep, SlotInvHolds, PTL DEF Spec, NoSignalAfterReap

\* A start that waited for the PATH probe does not happen once the caller was told
\* that its command is over (startDeferred, executor.ts).
THEOREM WaitingStartIsDropped == Spec => NoLateStart
<1>1. LawfulStep => \A c \in Command :
        proc[c].st = "waiting" /\ proc'[c].st \in {"running", "unborn"} => ~cmd[c].sent
  BY DEF LawfulStep, Lawful
<1> QED BY <1>1, EveryStep, SlotInvHolds, PTL DEF Spec, NoLateStart

-----------------------------------------------------------------------------
(* Nobody is forgotten: a command that nobody can kill any more has been told *)
(* to end, and a slot that is taken has something that will free it.          *)

Going(x) == x.st \in {"waiting", "dropping", "running"}
Ordered(x) == IF x.st = "waiting" THEN x.killReq ELSE x.sig = "kill" \/ x.esc # Off

\* The slot can kill only the command in it.  A process was signalled once and will get
\* SIGKILL, or has it; and what the slot can no longer kill was killed.
OwnerPart(c) ==
  /\ cmd[c].kill => activeCommand = c
  /\ activeCommand = c => proc[c].st # "none"
  /\ proc[c].st \in {"dropping", "running"} => ~proc[c].closed /\ (proc[c].term => Ordered(proc[c]))
  /\ Going(proc[c]) => cmd[c].kill \/ Ordered(proc[c])
  /\ activeCommand = c /\ cmd[c].mode = "exec" =>
       cmd[c].deadline # Off \/ proc[c].st = "unborn" \/ (Going(proc[c]) /\ Ordered(proc[c]))
OwnerInv == (link = "closed" => activeCommand = None) /\ \A c \in Command : OwnerPart(c)

LEMMA OwnerKeeps ==
  ASSUME SlotInv, SlotInv', OwnerInv, NEW c \in Command,
         \A d \in Command \ {c} : /\ cmd'[d] = cmd[d] /\ proc'[d] = proc[d]
                                  /\ activeCommand' = d <=> activeCommand = d,
         link' = "closed" => activeCommand' = None,
         OwnerPart(c)'
  PROVE  OwnerInv'
BY DEF OwnerInv, OwnerPart

\* A command's step that leaves its slot alone, or frees it.
LEMMA OwnStep ==
  ASSUME SlotInv, SlotInv', OwnerInv, NEW c \in Command, UNCHANGED link,
         \A d \in Command \ {c} : cmd'[d] = cmd[d] /\ proc'[d] = proc[d],
         activeCommand' = activeCommand \/ (activeCommand = c /\ activeCommand' = None),
         OwnerPart(c)'
  PROVE  OwnerInv'
<1>1. \A d \in Command \ {c} : activeCommand' = d <=> activeCommand = d
  BY CommandAssumption
<1>2. link' = "closed" => activeCommand' = None
  BY DEF OwnerInv
<1> QED BY <1>1, <1>2, OwnerKeeps

\* A process that is over has let go of its slot.
LEMMA GoneOwnsNothing ==
  ASSUME SlotInv, NEW c \in Command, proc[c].st = "gone"
  PROVE  OwnerPart(c)
BY SlotFacts DEF OwnerPart, SlotPart, ExecPart, Going

\* A process whose life and orders did not change, of a slot that did not.
LEMMA SameOwner ==
  ASSUME SlotInv, NEW c \in Command, OwnerPart(c), cmd'[c] = cmd[c], activeCommand' = activeCommand,
         proc'[c].st = proc[c].st, proc'[c].closed = proc[c].closed,
         Ordered(proc[c]) /\ Going(proc[c]) => Ordered(proc'[c]),
         proc[c].st \in {"dropping", "running"} /\ proc'[c].term => proc[c].term \/ Ordered(proc'[c])
  PROVE  OwnerPart(c)'
BY DEF OwnerPart, Going

LEMMA KilledIsOrdered ==
  ASSUME NEW c \in Command, NEW x \in Process, Going(x),
         x.st # "waiting" => ~x.closed /\ (x.term => Ordered(x))
  PROVE  Ordered(Killed(c, x))
<1>1. CASE x.st = "waiting"
  BY <1>1 DEF Killed, Process, Ordered
<1>2. CASE x.st # "waiting" /\ cmd[c].mode = "exec" /\ x.term
  BY <1>2 DEF Killed, Ordered
<1>3. CASE x.st # "waiting" /\ ~(cmd[c].mode = "exec" /\ x.term)
  <2> DEFINE y == [Signal(x, "term") EXCEPT !.term = TRUE]
  <2>1. Signal(x, "term") \in Process /\ Signal(x, "term").st = x.st
    BY SignalEffect DEF SameLife
  <2>2. y \in Process /\ y.st = x.st
    BY <2>1 DEF Process
  <2>3. Killed(c, x) = [y EXCEPT !.esc = Escalation]
    BY <1>3 DEF Killed
  <2> HIDE DEF y
  <2>4. Killed(c, x).st = x.st /\ Killed(c, x).esc = Escalation /\ Escalation # Off
    BY <2>2, <2>3, TimeAssumption DEF Process, Off
  <2> QED BY <1>3, <2>4 DEF Ordered
<1> QED BY <1>1, <1>2, <1>3

LEMMA SetupIsOrdered ==
  ASSUME NEW x \in Process
  PROVE  /\ Ordered(x) => Ordered(SetupFailed(x))
         /\ SetupFailed(x).term /\ x.st \in {"dropping", "running"} => x.term \/ Ordered(SetupFailed(x))
<1>1. CASE x.settled \/ x.fail
  BY <1>1 DEF SetupFailed
<1>2. CASE ~(x.settled \/ x.fail)
  <2> DEFINE y == [x EXCEPT !.fail = TRUE, !.hs = Off]
             z == Signal(y, "kill")
  <2>1. y \in Process /\ y.st = x.st /\ y.term = x.term /\ y.killReq = x.killReq /\ y.esc = x.esc /\ y.sig = x.sig
    BY DEF Process, Ticks
  <2>2. SetupFailed(x) = IF y.closed \/ y.term THEN y ELSE [z EXCEPT !.term = TRUE]
    BY <1>2 DEF SetupFailed
  <2> HIDE DEF y
  <2>3. /\ z \in Process /\ z.st = y.st /\ z.killReq = y.killReq /\ z.esc = y.esc
        /\ y.sig = "kill" \/ y.st # "unborn" => z.sig = "kill"
    BY <2>1, SignalEffect DEF SameLife, Signal, Process
  <2> HIDE DEF z
  <2>4. CASE y.closed \/ y.term
    BY <2>1, <2>2, <2>4 DEF Ordered
  <2>5. CASE ~(y.closed \/ y.term)
    <3> DEFINE w == [z EXCEPT !.term = TRUE]
    <3>1. w.st = z.st /\ w.killReq = z.killReq /\ w.esc = z.esc /\ w.sig = z.sig
      BY <2>3 DEF Process
    <3>2. SetupFailed(x) = w
      BY <2>2, <2>5
    <3> HIDE DEF w
    <3> QED BY <2>1, <2>3, <3>1, <3>2 DEF Ordered
  <2> QED BY <2>4, <2>5
<1> QED BY <1>1, <1>2

\* Killed by whoever lets go of it.
LEMMA LetGoIsOrdered ==
  ASSUME SlotInv, NEW c \in Command, OwnerPart(c),
         proc'[c] = IF cmd[c].kill THEN Killed(c, proc[c]) ELSE proc[c]
  PROVE  /\ proc'[c].st = proc[c].st /\ proc'[c].closed = proc[c].closed
         /\ Going(proc[c]) => Ordered(proc'[c])
<1>1. proc[c] \in Process /\ SameLife(Killed(c, proc[c]), proc[c])
  BY SlotFacts, KillEffect
<1>2. Going(proc[c]) /\ cmd[c].kill => Ordered(Killed(c, proc[c]))
  BY <1>1, KilledIsOrdered DEF OwnerPart, Going
<1>3. Going(proc[c]) /\ ~cmd[c].kill => Ordered(proc[c])
  BY DEF OwnerPart
<1> QED BY <1>1, <1>2, <1>3 DEF SameLife

-----------------------------------------------------------------------------
(* Step by step.                                                              *)

LEMMA FramesKeepOwner ==
  ASSUME SlotInv, SlotInv', OwnerInv, NEW c \in Command, Busy(c) \/ Exec(c) \/ SecureExec(c)
  PROVE  OwnerInv'
<1>f. Frame(c) /\ proc[c] = NoProcess /\ activeCommand # c /\ NoProcess.st = "none" /\ OwnerPart(c)
  BY Fresh DEF Busy, Exec, SecureExec, Refuse, Accept, OwnerInv, NoProcess
<1>1. CASE Busy(c)
  <2>1. cmd' = [cmd EXCEPT ![c].mode = "refused"] /\ UNCHANGED <<activeCommand, proc, link>>
    BY <1>1 DEF Busy, env
  <2>2. cmd'[c].kill = cmd[c].kill
    BY <2>1, SlotFacts DEF SlotInv, TypeOK, SlotRecord
  <2>3. OwnerPart(c)'
    BY <1>f, <2>1, <2>2 DEF OwnerPart, Going
  <2> QED BY <2>1, <2>3, OwnStep DEF SlotInv, TypeOK
<1>2. ASSUME NEW m \in {"exec", "secure"}, Refuse(c, m) PROVE OwnerInv'
  <2> DEFINE r == [NoCommand EXCEPT !.mode = m, !.sent = TRUE, !.settled = TRUE]
  <2>1. cmd' = [cmd EXCEPT ![c] = r] /\ UNCHANGED <<activeCommand, proc, link>>
    BY <1>2 DEF Refuse, env
  <2>2. ~r.kill
    BY DEF NoCommand
  <2> HIDE DEF r
  <2>3. OwnerPart(c)'
    BY <1>f, <2>1, <2>2 DEF OwnerPart, Going, SlotInv, TypeOK
  <2> QED BY <2>1, <2>3, OwnStep DEF SlotInv, TypeOK
<1>3. ASSUME NEW m \in {"exec", "secure"}, NEW d \in Ticks, NEW x, Accept(c, m, d, x),
             m = "exec" => d # Off, ~x.closed, ~x.term, x.st # "none"
      PROVE  OwnerInv'
  <2> DEFINE r == [NoCommand EXCEPT !.mode = m, !.kill = TRUE, !.deadline = d]
  <2>1. /\ cmd' = [cmd EXCEPT ![c] = r] /\ proc' = [proc EXCEPT ![c] = x]
        /\ activeCommand = None /\ activeCommand' = c /\ UNCHANGED link /\ link # "closed"
    BY <1>3 DEF Accept, env, Frame
  <2>2. r.kill /\ r.mode = m /\ r.deadline = d
    BY DEF NoCommand
  <2> HIDE DEF r
  <2>3. cmd'[c] = r /\ proc'[c] = x
    BY <2>1 DEF SlotInv, TypeOK
  <2>4. OwnerPart(c)'
    BY <1>3, <2>1, <2>2, <2>3 DEF OwnerPart
  <2>5. \A d2 \in Command \ {c} : /\ cmd'[d2] = cmd[d2] /\ proc'[d2] = proc[d2]
                                  /\ activeCommand' = d2 <=> activeCommand = d2
    BY <2>1, CommandAssumption DEF SlotInv, TypeOK
  <2> QED BY <2>1, <2>4, <2>5, OwnerKeeps
<1>4. Timeout \in Ticks /\ Timeout # Off /\ Off \in Ticks
  BY TimeAssumption DEF Ticks, Off
<1>5. CASE Exec(c)
  <2>1. CASE Refuse(c, "exec")
    BY <1>2, <2>1
  <2>2. ASSUME NEW x \in Spawned, Accept(c, "exec", Timeout, x) PROVE OwnerInv'
    <3>1. ~x.closed /\ ~x.term /\ x.st # "none"
      BY DEF Spawned, NoProcess
    <3> QED BY <1>3, <1>4, <2>2, <3>1
  <2>3. CASE Accept(c, "exec", Timeout, [NoProcess EXCEPT !.st = "waiting"])
    <3> DEFINE x == [NoProcess EXCEPT !.st = "waiting"]
    <3>1. ~x.closed /\ ~x.term /\ x.st # "none"
      BY DEF NoProcess
    <3>2. Accept(c, "exec", Timeout, x)
      BY <2>3
    <3> HIDE DEF x
    <3> QED BY <1>3, <1>4, <3>1, <3>2
  <2> QED BY <1>5, <2>1, <2>2, <2>3 DEF Exec
<1>6. CASE SecureExec(c)
  <2>1. CASE Refuse(c, "secure")
    BY <1>2, <2>1
  <2>2. CASE Accept(c, "secure", Off, [NoProcess EXCEPT !.st = "dropping"])
    <3> DEFINE x == [NoProcess EXCEPT !.st = "dropping"]
    <3>1. ~x.closed /\ ~x.term /\ x.st # "none"
      BY DEF NoProcess
    <3>2. Accept(c, "secure", Off, x)
      BY <2>2
    <3> HIDE DEF x
    <3> QED BY <1>3, <1>4, <3>1, <3>2
  <2> QED BY <1>6, <2>1, <2>2 DEF SecureExec
<1> QED BY <1>1, <1>5, <1>6

\* The executor's ways to be over.
LEMMA SettleKeepsOwner ==
  ASSUME SlotInv, SlotInv', OwnerInv, NEW c \in Command, NEW x, SettleExec(c, x), UNCHANGED link
  PROVE  OwnerInv'
<1>1. proc' = [proc EXCEPT ![c] = Settled(x)] /\ Settled(x).st = "gone"
  BY DEF SettleExec, Settled, NoProcess
<1>2. OwnerPart(c)'
  <2>1. proc'[c].st = "gone" /\ cmd' \in [Command -> SlotRecord]
    BY <1>1 DEF SlotInv, TypeOK
  <2>2. SlotPart(c)' /\ ExecPart(c)'
    BY DEF SlotInv, CommandInv
  <2> QED BY <2>1, <2>2 DEF OwnerPart, SlotPart, ExecPart, Going
<1>3. /\ \A d \in Command \ {c} : cmd'[d] = cmd[d]
      /\ activeCommand' = activeCommand \/ (activeCommand = c /\ activeCommand' = None)
  <2>1. UNCHANGED slot \/ SettleSlot(c, Verdict(x))
    BY DEF SettleExec
  <2>2. CASE UNCHANGED slot
    BY <2>2 DEF slot
  <2>3. CASE SettleSlot(c, Verdict(x)) /\ ~cmd[c].settled
    <3>1. cmd' = [cmd EXCEPT ![c].settled = TRUE, ![c].sent = TRUE, ![c].kill = FALSE, ![c].deadline = Off]
          /\ activeCommand' = IF activeCommand = c THEN None ELSE activeCommand
      BY <2>3 DEF SettleSlot
    <3> QED BY <3>1 DEF SlotInv, TypeOK
  <2>4. CASE SettleSlot(c, Verdict(x)) /\ cmd[c].settled
    BY <2>4 DEF SettleSlot, slot
  <2> QED BY <2>1, <2>2, <2>3, <2>4
<1> QED BY <1>1, <1>2, <1>3, OwnStep DEF SlotInv, TypeOK

\* A step of the process alone.
LEMMA ProcKeepsOwner ==
  ASSUME SlotInv, SlotInv', OwnerInv, NEW c \in Command, NEW y, proc' = [proc EXCEPT ![c] = y],
         UNCHANGED <<activeCommand, cmd, link>>, proc'[c] = y => OwnerPart(c)'
  PROVE  OwnerInv'
<1>1. proc'[c] = y /\ \A d \in Command \ {c} : proc'[d] = proc[d]
  BY DEF SlotInv, TypeOK
<1> QED BY <1>1, OwnStep

LEMMA SameProcKeepsOwner ==
  ASSUME SlotInv, SlotInv', OwnerInv, NEW c \in Command, NEW y, proc' = [proc EXCEPT ![c] = y],
         UNCHANGED <<activeCommand, cmd, link>>, y.st = proc[c].st, y.closed = proc[c].closed,
         Ordered(proc[c]) /\ Going(proc[c]) => Ordered(y),
         proc[c].st \in {"dropping", "running"} /\ y.term => proc[c].term \/ Ordered(y)
  PROVE  OwnerInv'
<1>1. proc'[c] = y => OwnerPart(c)'
  <2> SUFFICES ASSUME proc'[c] = y PROVE OwnerPart(c)'
    OBVIOUS
  <2>1. OwnerPart(c)
    BY DEF OwnerInv
  <2> QED BY <2>1, SameOwner
<1> QED BY <1>1, ProcKeepsOwner

LEMMA ProcessKeepsOwner ==
  ASSUME SlotInv, SlotInv', OwnerInv, NEW c \in Command,
         \/ StartDeferred(c) \/ SpawnFails(c) \/ Drop(c) \/ Output(c) \/ LauncherAnswers(c)
         \/ LauncherTimeout(c) \/ SurvivorEnds(c) \/ Close(c) \/ Escalate(c) \/ IdleNotice(c)
  PROVE  OwnerInv'
<1>p. proc[c] \in Process /\ OwnerPart(c) /\ proc'[c] \in Process
  BY SlotFacts DEF OwnerInv, SlotInv, TypeOK
<1>1. CASE SpawnFails(c) \/ Close(c)
  BY <1>1, SettleKeepsOwner DEF SpawnFails, Close, env
<1>2. CASE StartDeferred(c)
  <2>1. CASE SettleExec(c, [proc[c] EXCEPT !.st = "gone", !.fail = TRUE])
    BY <1>2, <2>1, SettleKeepsOwner DEF StartDeferred, env
  <2>2. ASSUME NEW x \in Spawned, proc' = [proc EXCEPT ![c] = x], UNCHANGED slot, ~CancelledEarly(c)
        PROVE  OwnerInv'
    <3>1. proc[c].st = "waiting" /\ ~proc[c].killReq /\ UNCHANGED <<activeCommand, cmd, link>>
      BY <1>2, <2>2 DEF StartDeferred, CancelledEarly, slot, env
    <3>2. x.st \in {"running", "unborn"} /\ ~x.closed /\ ~x.term
      BY DEF Spawned, NoProcess
    <3>3. cmd[c].kill /\ activeCommand = c /\ (cmd[c].mode = "exec" => cmd[c].deadline # Off)
      BY <1>p, <3>1 DEF OwnerPart, Going, Ordered
    <3>4. proc'[c] = x => OwnerPart(c)'
      BY <3>1, <3>2, <3>3 DEF OwnerPart
    <3> QED BY <2>2, <3>1, <3>4, ProcKeepsOwner
  <2> QED BY <1>2, <2>1, <2>2 DEF StartDeferred
<1>3. CASE Drop(c)
  <2> DEFINE s == IF DropHolds THEN "running" ELSE "exited"
             u == IF DropHolds THEN identity ELSE "none"
             x == [proc[c] EXCEPT !.st = s, !.user = u]
  <2>1. proc[c].st = "dropping" /\ proc' = [proc EXCEPT ![c] = x] /\ UNCHANGED <<activeCommand, cmd, link>>
    BY <1>3 DEF Drop, slot, env
  <2>2. s \in {"running", "exited"}
    OBVIOUS
  <2> HIDE DEF s, u
  <2>3. x.st = s /\ x.closed = proc[c].closed /\ x.term = proc[c].term /\ x.sig = proc[c].sig
        /\ x.esc = proc[c].esc
    BY <1>p DEF Process
  <2> HIDE DEF x
  <2>4. cmd[c].mode = "secure"
    BY <2>1, SlotFacts DEF ExecPart
  <2>5. proc'[c] = x => OwnerPart(c)'
    BY <1>p, <2>1, <2>2, <2>3, <2>4 DEF OwnerPart, Going, Ordered
  <2> QED BY <2>1, <2>5, ProcKeepsOwner
<1>4. CASE Output(c)
  <2> DEFINE x == [proc[c] EXCEPT !.quietFor = 0]
  <2>1. proc' = [proc EXCEPT ![c] = x] /\ UNCHANGED <<activeCommand, cmd, link>>
    BY <1>4 DEF Output, env
  <2>2. x.st = proc[c].st /\ x.closed = proc[c].closed /\ x.term = proc[c].term /\ x.sig = proc[c].sig
        /\ x.esc = proc[c].esc /\ x.killReq = proc[c].killReq
    BY <1>p DEF Process
  <2> HIDE DEF x
  <2> QED BY <2>1, <2>2, SameProcKeepsOwner DEF Ordered
<1>5. CASE SurvivorEnds(c)
  <2> DEFINE x == [proc[c] EXCEPT !.held = FALSE]
  <2>1. proc' = [proc EXCEPT ![c] = x] /\ UNCHANGED <<activeCommand, cmd, link>>
    BY <1>5 DEF SurvivorEnds, slot, env
  <2>2. x.st = proc[c].st /\ x.closed = proc[c].closed /\ x.term = proc[c].term /\ x.sig = proc[c].sig
        /\ x.esc = proc[c].esc /\ x.killReq = proc[c].killReq
    BY <1>p DEF Process
  <2> HIDE DEF x
  <2> QED BY <2>1, <2>2, SameProcKeepsOwner DEF Ordered
<1>6. CASE LauncherAnswers(c) \/ LauncherTimeout(c)
  <2>1. UNCHANGED <<activeCommand, cmd, link>>
    BY <1>6 DEF LauncherAnswers, LauncherTimeout, slot, env
  <2>2. \/ proc' = [proc EXCEPT ![c] = [proc[c] EXCEPT !.ready = TRUE, !.hs = Off, !.quietFor = 0]]
        \/ \E z \in {[proc[c] EXCEPT !.quietFor = 0], [proc[c] EXCEPT !.hs = Off]} :
             proc' = [proc EXCEPT ![c] = SetupFailed(z)]
    BY <1>6 DEF LauncherAnswers, LauncherTimeout
  <2>3. CASE proc' = [proc EXCEPT ![c] = [proc[c] EXCEPT !.ready = TRUE, !.hs = Off, !.quietFor = 0]]
    <3> DEFINE y == [proc[c] EXCEPT !.ready = TRUE, !.hs = Off]
               x == [y EXCEPT !.quietFor = 0]
    <3>1. y.st = proc[c].st /\ y.closed = proc[c].closed /\ y.term = proc[c].term /\ y.sig = proc[c].sig
          /\ y.esc = proc[c].esc /\ y.killReq = proc[c].killReq /\ y \in Process
      BY <1>p DEF Process, Ticks
    <3>2. proc' = [proc EXCEPT ![c] = x]
      BY <2>3
    <3> HIDE DEF y
    <3>3. x.st = y.st /\ x.closed = y.closed /\ x.term = y.term /\ x.sig = y.sig
          /\ x.esc = y.esc /\ x.killReq = y.killReq
      BY <3>1 DEF Process
    <3> HIDE DEF x
    <3> QED BY <2>1, <3>1, <3>2, <3>3, SameProcKeepsOwner DEF Ordered
  <2>4. ASSUME NEW z \in {[proc[c] EXCEPT !.quietFor = 0], [proc[c] EXCEPT !.hs = Off]},
               proc' = [proc EXCEPT ![c] = SetupFailed(z)]
        PROVE  OwnerInv'
    <3>1. z.st = proc[c].st /\ z.closed = proc[c].closed /\ z.term = proc[c].term /\ z.sig = proc[c].sig
          /\ z.esc = proc[c].esc /\ z.killReq = proc[c].killReq /\ z \in Process
      BY <1>p DEF Process, Ticks
    <3>2. SetupFailed(z).st = z.st /\ SetupFailed(z).closed = z.closed
      BY <3>1, SetupEffect DEF SameLife
    <3>3. /\ Ordered(z) => Ordered(SetupFailed(z))
          /\ SetupFailed(z).term /\ z.st \in {"dropping", "running"} => z.term \/ Ordered(SetupFailed(z))
      BY <3>1, SetupIsOrdered
    <3>4. Ordered(proc[c]) => Ordered(z)
      BY <3>1 DEF Ordered
    <3> QED BY <2>1, <2>4, <3>1, <3>2, <3>3, <3>4, SameProcKeepsOwner
  <2> QED BY <2>2, <2>3, <2>4
<1>7. CASE Escalate(c)
  <2> DEFINE y == IF proc[c].closed THEN proc[c] ELSE Signal(proc[c], "kill")
             x == [y EXCEPT !.esc = Off]
  <2>1. proc' = [proc EXCEPT ![c] = x] /\ UNCHANGED <<activeCommand, cmd, link>>
    BY <1>7 DEF Escalate, slot, env
  <2>2. /\ y \in Process /\ y.st = proc[c].st /\ y.closed = proc[c].closed /\ y.killReq = proc[c].killReq
        /\ ~proc[c].closed /\ proc[c].st # "unborn" => y.sig = "kill"
    BY <1>p, SignalEffect DEF SameLife, Signal, Process
  <2> HIDE DEF y
  <2>3. x.st = y.st /\ x.closed = y.closed /\ x.killReq = y.killReq /\ x.sig = y.sig
    BY <2>2 DEF Process
  <2> HIDE DEF x
  <2>4. proc[c].st \in {"dropping", "running"} => Ordered(x)
    BY <1>p, <2>2, <2>3 DEF Ordered, OwnerPart
  <2>5. proc[c].st = "waiting" => (Ordered(proc[c]) => Ordered(x))
    BY <2>2, <2>3 DEF Ordered
  <2> QED BY <2>1, <2>2, <2>3, <2>4, <2>5, SameProcKeepsOwner DEF Going
<1>8. CASE IdleNotice(c)
  <2>1. UNCHANGED <<activeCommand, cmd, proc, link>>
    BY <1>8 DEF IdleNotice, env
  <2> QED BY <2>1 DEF OwnerInv, OwnerPart
<1> QED BY <1>1, <1>2, <1>3, <1>4, <1>5, <1>6, <1>7, <1>8

\* A do:exec that has exited still has its deadline, or is over at once.
LEMMA ExitKeepsOwner ==
  ASSUME SlotInv, SlotInv', OwnerInv, NEW c \in Command, Exit(c) \/ DrainCheck(c)
  PROVE  OwnerInv'
<1>p. proc[c] \in Process /\ OwnerPart(c)
  BY SlotFacts DEF OwnerInv
<1>1. CASE \E x : SettleExec(c, x) /\ UNCHANGED env
  BY <1>1, SettleKeepsOwner DEF env
<1>2. CASE DrainCheck(c) /\ ~ \E x : SettleExec(c, x)
  <2> DEFINE n == Larger(1, Smaller(proc[c].quiet - proc[c].quietFor, proc[c].until))
             x == [proc[c] EXCEPT !.next = n]
  <2>1. proc' = [proc EXCEPT ![c] = x] /\ UNCHANGED <<activeCommand, cmd, link>>
    BY <1>2 DEF DrainCheck, slot, env
  <2> HIDE DEF n
  <2>2. x.st = proc[c].st /\ x.closed = proc[c].closed /\ x.term = proc[c].term /\ x.sig = proc[c].sig
        /\ x.esc = proc[c].esc /\ x.killReq = proc[c].killReq
    BY <1>p DEF Process
  <2> HIDE DEF x
  <2> QED BY <2>1, <2>2, SameProcKeepsOwner DEF Ordered
<1>3. CASE Exit(c) /\ ~ \E x : SettleExec(c, x)
  <2>1. PICK h \in BOOLEAN, l \in BOOLEAN, q \in 0 .. DrainQuiet :
          LET x == [proc[c] EXCEPT !.st = "exited", !.held = h, !.lost = l]
              y == Drained(c, Reaped(x), q)
          IN IF cmd[c].mode = "secure"
             THEN proc' = [proc EXCEPT ![c] = x] /\ UNCHANGED slot
             ELSE IF y.until <= 0 THEN SettleExec(c, y)
             ELSE proc' = [proc EXCEPT ![c] = y] /\ UNCHANGED slot
    BY <1>3, ZenonT(30) DEF Exit
  <2> DEFINE x == [proc[c] EXCEPT !.st = "exited", !.held = h, !.lost = l]
             y == Drained(c, Reaped(x), q)
  <2>2. proc[c].st \in {"running", "dropping"} /\ UNCHANGED link
    BY <1>3 DEF Exit, env
  <2>3. x \in Process /\ x.st = "exited" /\ ~x.settled
    <3> DEFINE z == [proc[c] EXCEPT !.st = "exited", !.held = h]
    <3>1. z \in Process /\ z.st = "exited" /\ ~z.settled
      <4>1. ~proc[c].settled
        BY <2>2, SlotFacts DEF ExecPart
      <4> QED BY <1>p, <4>1 DEF Process
    <3>2. x = [z EXCEPT !.lost = l]
      OBVIOUS
    <3> HIDE DEF z, x
    <3> QED BY <3>1, <3>2 DEF Process
  <2>4. IF cmd[c].mode = "secure"
        THEN proc' = [proc EXCEPT ![c] = x] /\ UNCHANGED slot
        ELSE IF y.until <= 0 THEN SettleExec(c, y)
        ELSE proc' = [proc EXCEPT ![c] = y] /\ UNCHANGED slot
    BY <2>1
  <2> HIDE DEF x
  <2>5. cmd[c].mode \in {"exec", "secure"}
    BY <2>2, SlotFacts DEF SlotPart, SlotRecord, NoProcess
  <2>6. cmd[c].mode = "exec" => y.st = "exited" /\ (~(y.until <= 0) => cmd[c].deadline # Off)
    BY <2>3, DrainIs
  <2> HIDE DEF y
  <2>7. PICK w \in {x, y} : /\ proc' = [proc EXCEPT ![c] = w] /\ UNCHANGED slot /\ w.st = "exited"
                            /\ cmd[c].mode = "exec" => cmd[c].deadline # Off
    BY <1>3, <2>3, <2>4, <2>5, <2>6
  <2>8. proc'[c] = w => OwnerPart(c)'
    BY <1>p, <2>7 DEF OwnerPart, Going, slot
  <2> QED BY <2>2, <2>7, <2>8, ProcKeepsOwner DEF slot
<1>4. UNCHANGED env
  BY DEF Exit, DrainCheck
<1> QED BY <1>1, <1>2, <1>3, <1>4

LEMMA KillsKeepOwner ==
  ASSUME SlotInv, SlotInv', OwnerInv, NEW c \in Command, Kill(c) \/ CommandTimeout(c)
  PROVE  OwnerInv'
<1>p. cmd[c] \in SlotRecord /\ OwnerPart(c)
  BY SlotFacts DEF OwnerInv
<1>1. CASE Kill(c)
  <2>1. /\ cmd[c].kill /\ cmd' = [cmd EXCEPT ![c].kill = FALSE]
        /\ proc' = [proc EXCEPT ![c] = Killed(c, proc[c])] /\ UNCHANGED <<activeCommand, link>>
    BY <1>1 DEF Kill, env
  <2>2. proc'[c] = (IF cmd[c].kill THEN Killed(c, proc[c]) ELSE proc[c]) /\ cmd'[c] = [cmd[c] EXCEPT !.kill = FALSE]
    BY <2>1 DEF SlotInv, TypeOK
  <2>3. ~cmd'[c].kill /\ cmd'[c].mode = cmd[c].mode /\ cmd'[c].deadline = cmd[c].deadline
    BY <1>p, <2>2 DEF SlotRecord
  <2>4. proc'[c].st = proc[c].st /\ proc'[c].closed = proc[c].closed /\ (Going(proc[c]) => Ordered(proc'[c]))
    BY <1>p, <2>2, LetGoIsOrdered
  <2>5. OwnerPart(c)'
    BY <1>p, <2>1, <2>3, <2>4 DEF OwnerPart, Going
  <2> QED BY <2>1, <2>5, OwnStep DEF SlotInv, TypeOK
<1>2. CASE CommandTimeout(c)
  <2>1. /\ cmd[c].deadline = 0 /\ UNCHANGED <<activeCommand, link>>
        /\ cmd' = [cmd EXCEPT ![c].deadline = Off, ![c].sent = TRUE, ![c].kill = FALSE]
        /\ proc' = IF cmd[c].kill THEN [proc EXCEPT ![c] = Killed(c, proc[c])] ELSE proc
    BY <1>2 DEF CommandTimeout, env
  <2>2. proc'[c] = IF cmd[c].kill THEN Killed(c, proc[c]) ELSE proc[c]
    BY <2>1 DEF SlotInv, TypeOK
  <2>3. ~cmd'[c].kill /\ cmd'[c].mode = cmd[c].mode
    BY <1>p, <2>1 DEF SlotInv, TypeOK, SlotRecord
  <2>4. proc'[c].st = proc[c].st /\ proc'[c].closed = proc[c].closed /\ (Going(proc[c]) => Ordered(proc'[c]))
    BY <1>p, <2>2, LetGoIsOrdered
  <2>5. proc[c].st \notin {"exited", "gone"}
    <3>1. proc[c].st # "gone"
      BY <2>1, SlotFacts DEF ExecPart, SlotPart, Off
    <3>2. proc[c].st # "exited"
      <4> SUFFICES ASSUME proc[c].st = "exited" PROVE FALSE
        OBVIOUS
      <4>1. proc[c].until \in Nat /\ proc[c].until + Guard <= 0 /\ Guard \in Nat \ {0}
        BY <2>1, SlotFacts, TimeAssumption DEF DrainPart, Process, Ticks, Off
      <4> QED BY <4>1
    <3> QED BY <3>1, <3>2
  <2>6. activeCommand = c => proc[c].st = "unborn" \/ Going(proc[c])
    BY <1>p, <2>5, SlotFacts DEF OwnerPart, Going, Process
  <2>7. OwnerPart(c)'
    BY <1>p, <2>1, <2>3, <2>4, <2>6 DEF OwnerPart, Going
  <2> QED BY <2>1, <2>7, OwnStep DEF SlotInv, TypeOK
<1> QED BY <1>1, <1>2

LEMMA AbortKeepsOwner == ASSUME SlotInv, SlotInv', OwnerInv, Settle \/ Closed PROVE OwnerInv'
<1>1. CASE activeCommand = None
  <2>1. UNCHANGED <<activeCommand, cmd, proc>>
    BY <1>1 DEF Settle, Closed, Abort, slot
  <2> QED BY <1>1, <2>1 DEF OwnerInv, OwnerPart
<1>2. CASE activeCommand # None
  <2>0. PICK c \in Command : c = activeCommand
    BY <1>2 DEF SlotInv, TypeOK
  <2> DEFINE r == [cmd[c] EXCEPT !.sent = TRUE, !.settled = TRUE, !.kill = FALSE, !.deadline = Off]
  <2>1. /\ activeCommand' = None /\ cmd' = [cmd EXCEPT ![c] = r]
        /\ proc' = IF cmd[c].kill THEN [proc EXCEPT ![c] = Killed(c, proc[c])] ELSE proc
    BY <1>2, <2>0 DEF Settle, Closed, Abort
  <2>2. ~r.kill
    BY SlotFacts DEF SlotRecord
  <2> HIDE DEF r
  <2>3. ~cmd'[c].kill /\ proc'[c] = IF cmd[c].kill THEN Killed(c, proc[c]) ELSE proc[c]
    BY <2>1, <2>2 DEF SlotInv, TypeOK
  <2>p. OwnerPart(c)
    BY DEF OwnerInv
  <2>4. proc'[c].st = proc[c].st /\ proc'[c].closed = proc[c].closed /\ (Going(proc[c]) => Ordered(proc'[c]))
    BY <2>3, <2>p, LetGoIsOrdered
  <2>5. OwnerPart(c)'
    BY <2>1, <2>3, <2>4, <2>p, CommandAssumption DEF OwnerPart, Going
  <2>6. \A d \in Command \ {c} : /\ cmd'[d] = cmd[d] /\ proc'[d] = proc[d]
                                 /\ activeCommand' = d <=> activeCommand = d
    BY <2>0, <2>1, CommandAssumption DEF SlotInv, TypeOK
  <2> QED BY <2>1, <2>5, <2>6, OwnerKeeps
<1> QED BY <1>1, <1>2

LEMMA TickKeepsOwner == ASSUME SlotInv, SlotInv', OwnerInv, Tick PROVE OwnerInv'
<1>1. UNCHANGED <<activeCommand, link>>
  BY DEF Tick, env
<1>2. ASSUME NEW c \in Command PROVE OwnerPart(c)'
  <2>1. cmd'[c].kill = cmd[c].kill /\ cmd'[c].mode = cmd[c].mode /\ (cmd[c].deadline # Off => cmd'[c].deadline # Off)
    <3>1. cmd'[c] = [cmd[c] EXCEPT !.deadline = Less(cmd[c].deadline)]
      BY DEF Tick
    <3> QED BY <3>1, SlotFacts, LessIs DEF SlotRecord
  <2> DEFINE x == proc[c]
             qf == IF x.next = Off THEN 0 ELSE Smaller(DrainQuiet, x.quietFor + 1)
             y == [x EXCEPT !.esc = Less(x.esc), !.hs = Less(x.hs)]
             z == [y EXCEPT !.next = Less(x.next), !.until = Less(x.until)]
  <2>2. proc'[c] = [z EXCEPT !.quietFor = qf]
    BY DEF Tick
  <2>3. x \in Process /\ (x.esc # Off => Less(x.esc) # Off)
    BY SlotFacts, LessIs DEF Process
  <2>4. y.st = x.st /\ y.closed = x.closed /\ y.term = x.term /\ y.sig = x.sig /\ y.killReq = x.killReq
        /\ y.esc = Less(x.esc) /\ DOMAIN y = DOMAIN x
    BY <2>3 DEF Process
  <2> HIDE DEF y, qf
  <2>5. z.st = y.st /\ z.closed = y.closed /\ z.term = y.term /\ z.sig = y.sig /\ z.killReq = y.killReq
        /\ z.esc = y.esc /\ DOMAIN z = DOMAIN y
    BY <2>3, <2>4 DEF Process
  <2> HIDE DEF z
  <2>6. /\ proc'[c].st = z.st /\ proc'[c].closed = z.closed /\ proc'[c].term = z.term /\ proc'[c].sig = z.sig
        /\ proc'[c].killReq = z.killReq /\ proc'[c].esc = z.esc
    BY <2>2, <2>3, <2>4, <2>5 DEF Process
  <2>7. Ordered(proc[c]) => Ordered(proc'[c])
    BY <2>3, <2>4, <2>5, <2>6 DEF Ordered
  <2> QED BY <1>1, <2>1, <2>4, <2>5, <2>6, <2>7 DEF OwnerPart, OwnerInv, Going
<1> QED BY <1>1, <1>2 DEF OwnerInv

LEMMA OwnerInvStep == SlotInv /\ OwnerInv /\ [Next]_vars => OwnerInv'
<1> SUFFICES ASSUME SlotInv, OwnerInv, [Next]_vars PROVE OwnerInv'
  OBVIOUS
<1>0. SlotInv'
  BY EveryStep DEF LawfulStep
<1>1. CASE ProbeSettles \/ EditAccounts \/ UNCHANGED vars
  BY <1>1 DEF ProbeSettles, EditAccounts, vars, slot, OwnerInv, OwnerPart
<1>2. CASE Settle \/ Closed
  BY <1>0, <1>2, AbortKeepsOwner
<1>3. CASE Tick
  BY <1>0, <1>3, TickKeepsOwner
<1>4. ASSUME NEW c \in Command,
             \/ Busy(c) \/ Exec(c) \/ SecureExec(c) \/ Kill(c)
             \/ StartDeferred(c) \/ SpawnFails(c) \/ Drop(c) \/ Output(c)
             \/ LauncherAnswers(c) \/ LauncherTimeout(c) \/ Exit(c) \/ DrainCheck(c)
             \/ SurvivorEnds(c) \/ Close(c)
             \/ CommandTimeout(c) \/ Escalate(c) \/ IdleNotice(c)
      PROVE  OwnerInv'
  BY <1>0, <1>4, FramesKeepOwner, ProcessKeepsOwner, ExitKeepsOwner, KillsKeepOwner
<1> QED BY <1>1, <1>2, <1>3, <1>4 DEF Next

\* Once the connection is closed, whatever still runs or waits to run of its commands has
\* SIGKILL, its escalation, or the order not to start: the safety half of LinkEndKills.
\* And the slot of a do:exec is never taken without its deadline, an error on its way, or
\* a process that was told to end: that of SlotReleased (connection-commands.ts).
NobodyForgotten ==
  \A c \in Command :
    /\ link = "closed" /\ Going(proc[c]) => Ordered(proc[c])
    /\ activeCommand = c /\ cmd[c].mode = "exec" =>
         cmd[c].deadline # Off \/ proc[c].st = "unborn" \/ (Going(proc[c]) /\ Ordered(proc[c]))

\* No command outlives its connection unnoticed, and no slot is lost, in whatever order
\* frames, exit, deadline, launcher and disconnect come, for all timer lengths.
THEOREM NobodyIsForgotten == Spec => []NobodyForgotten
<1>1. Init => OwnerInv
  BY CommandAssumption DEF Init, OwnerInv, OwnerPart, Going, NoCommand, NoProcess
<1>2. SlotInv /\ OwnerInv => NobodyForgotten
  BY CommandAssumption DEF OwnerInv, OwnerPart, NobodyForgotten
<1> QED BY <1>1, <1>2, SlotInvHolds, OwnerInvStep, PTL DEF Spec
=============================================================================
