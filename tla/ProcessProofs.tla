---------------------------- MODULE ProcessProofs ----------------------------
(***************************************************************************)
(* Processes that outlive the call that started them: a job's process number, *)
(* its directory and its output, the Windows launcher.  For any number of      *)
(* failed calls and restarts, any output and cap, any streams and exit codes.  *)
(***************************************************************************)
EXTENDS JobTree, JobOutput, WinLauncher, SequenceTheorems, TLAPS

-----------------------------------------------------------------------------
(* A job's process number.                                                   *)

Tree ==
  [leader : {"none", "alive", "hard", "zombie", "over"}, member : {"none", "soft", "hard"},
   away : BOOLEAN, scope : BOOLEAN]
JobRecord ==
  [st : {"none", "open", "run", "over", "gone"}, scope : BOOLEAN, cancel : BOOLEAN,
   retiring : BOOLEAN, id : BOOLEAN]
Memory ==
  [up : BOOLEAN, manager : BOOLEAN, child : BOOLEAN, retires : BOOLEAN, settled : BOOLEAN,
   timer : {"off", "own", "cancel"}, kill : {"no", "sent", "failed"},
   sweep : {"no", "queued", "asked"}]
StartState == {"no", "probe", "write", "verify", "spawn", "spawned", "fails"}

TreeTypeOK ==
  /\ tree \in Tree /\ rec \in JobRecord /\ mem \in Memory /\ start \in StartState

\* A number has a new owner only when its process and its group are no more; what the
\* agent has not reaped it still has, and the process of a start in progress is one.
NumberInv ==
  /\ TreeTypeOK
  /\ stranger \in {"none", "there"}
  /\ stranger = "there" => tree.leader = "over" /\ tree.member = "none"
  /\ tree.leader = "none" => tree.member = "none" /\ ~tree.away
  /\ mem.child => tree.leader \in {"alive", "hard", "zombie"}
  /\ start = "spawned" => mem.child
  /\ rec.st = "none" => tree.leader = "none" /\ start \in {"no", "probe"}
  /\ start = "probe" => rec.st = "none"
  /\ start \in {"write", "verify", "spawn", "fails"} => tree.leader = "none"
  /\ start \in {"write", "verify", "spawn", "fails", "spawned"} => mem.manager /\ rec.st = "open"

-----------------------------------------------------------------------------
(* A job's directory.                                                        *)

FilesTypeOK ==
  /\ io \in [pc : {"off", "mkdir", "temp", "rename", "chmod", "undo", "rmdir"},
             made : BOOLEAN, quit : BOOLEAN]
  /\ dir \in [there : BOOLEAN, temp : BOOLEAN, script : BOOLEAN]
  /\ wipe \in {"no", "list", "rmdir", "over", "gaveup"}
  /\ restarts \in Nat

\* Once the removal has listed the directory, only a write that is about to undo
\* itself has anything in it, and only one that has made it again keeps it.
FilesInv ==
  /\ FilesTypeOK
  /\ io.quit => io.pc # "off"
  /\ io.pc \in {"undo", "rmdir"} => io.quit
  /\ io.pc # "off" => rec.st # "none" /\ (io.quit \/ start = "write")
  /\ wipe # "no" => rec.st = "gone"
  /\ restarts = 0 /\ wipe \in {"rmdir", "over", "gaveup"} =>
       ~dir.script /\ (dir.temp => io.pc = "undo")
  /\ restarts = 0 /\ wipe = "over" =>
       ~dir.temp /\ (dir.there => io.pc \in {"undo", "rmdir"} /\ io.made)

-----------------------------------------------------------------------------
LEMMA TreeFacts ==
  ASSUME NumberInv
  PROVE  /\ tree.leader \in {"none", "alive", "hard", "zombie", "over"}
         /\ tree.member \in {"none", "soft", "hard"} /\ tree.away \in BOOLEAN /\ tree.scope \in BOOLEAN
         /\ tree = [leader |-> tree.leader, member |-> tree.member, away |-> tree.away, scope |-> tree.scope]
         /\ rec.st \in {"none", "open", "run", "over", "gone"}
         /\ start \in StartState
BY DEF NumberInv, TreeTypeOK, Tree, JobRecord

\* What the operating system does to a tree that is signalled: it only loses.
Withered(t) ==
  /\ t \in Tree
  /\ t.leader = tree.leader \/ (tree.leader \in {"alive", "hard"} /\ t.leader = Dead)
  /\ t.member \in {tree.member, "none"}
  /\ t.away => tree.away

LEMMA SignalledWithers ==
  ASSUME NumberInv
  PROVE  Withered(tree) /\ Withered(Termed) /\ Withered(Killed) /\ Withered(TaskKilled)
<1>t. tree \in Tree
  BY DEF NumberInv, TreeTypeOK
<1>1. Dead \in {"zombie", "over"}
  BY DEF Dead
<1>2. ASSUME NEW l,
             l = tree.leader \/ (tree.leader \in {"alive", "hard"} /\ l = Dead),
             NEW m \in {tree.member, "none"}
      PROVE  /\ Withered([tree EXCEPT !.leader = l, !.member = m])
             /\ Withered([tree EXCEPT !.leader = l, !.member = m, !.away = FALSE])
  <2>1. l \in {"none", "alive", "hard", "zombie", "over"} /\ m \in {"none", "soft", "hard"}
    BY <1>1, <1>2, TreeFacts
  <2> QED BY <1>t, <1>2, <2>1 DEF Withered, Tree
<1>5. LeaderDies = tree.leader \/ (tree.leader \in {"alive", "hard"} /\ LeaderDies = Dead)
  BY DEF LeaderDies
<1>6. Withered(tree)
  BY <1>t DEF Withered
<1>7. Withered(Termed)
  <2> DEFINE l == IF tree.leader = "alive" THEN Dead ELSE tree.leader
             m == IF tree.member = "soft" THEN "none" ELSE tree.member
  <2>1. Withered([tree EXCEPT !.leader = l, !.member = m])
    BY <1>2
  <2> QED BY <2>1 DEF Termed
<1>8. Withered(Killed)
  BY <1>2, <1>5 DEF Killed
<1>9. Withered(TaskKilled)
  BY <1>2, <1>5 DEF TaskKilled
<1> QED BY <1>6, <1>7, <1>8, <1>9

\* A signal for a number that is still the job's hits nobody else.
LEMMA SignalReachesOwn ==
  ASSUME NumberInv, NEW after, Sent(after), Withered(after), stranger # "there"
  PROVE  Withered(tree') /\ stranger' = stranger
BY SignalledWithers DEF Sent

\* Steps that leave the start alone: the tree withers, a record that is about a
\* process may say that it is over.
LEMMA WitheringKeeps ==
  ASSUME NumberInv, Withered(tree'), stranger' = stranger, start' = start,
         rec' \in JobRecord, mem' \in Memory,
         mem'.child = mem.child, mem.manager => mem'.manager,
         rec'.st = rec.st \/ (rec.st \in {"open", "run"} /\ start = "no" /\ rec'.st # "none")
  PROVE  NumberInv'
<1>1. Dead \in {"zombie", "over"} /\ (mem.child => Dead = "zombie")
  BY DEF Dead
<1> QED BY <1>1, TreeFacts DEF NumberInv, TreeTypeOK, Withered, StartState

\* A step of the start before there is a process.
LEMMA BeforeProcess ==
  ASSUME NumberInv, tree' = tree, stranger' = stranger, mem'.child = mem.child,
         mem' \in Memory, rec' \in JobRecord, start' \in StartState \ {"spawned"},
         start \in {"no", "probe", "write", "verify", "spawn", "fails"},
         start' = "probe" => rec'.st = "none" /\ start \in {"no", "probe"},
         rec'.st = "none" => rec.st = "none" /\ start' \in {"no", "probe"},
         start' \in {"write", "verify", "spawn", "fails"} =>
            start # "no" /\ mem'.manager /\ rec'.st = "open"
  PROVE  NumberInv'
BY DEF NumberInv, TreeTypeOK, StartState

LEMMA NumberInvInit == Init => NumberInv
BY DEF Init, NumberInv, TreeTypeOK, NoTree, NoRecord, NoMemory, Tree, JobRecord, Memory, StartState

LEMMA FreshTree ==
  ASSUME NEW l \in {"alive", "hard"}, NEW s \in BOOLEAN
  PROVE  /\ [NoTree EXCEPT !.leader = l, !.scope = s] \in Tree
         /\ [NoTree EXCEPT !.leader = l, !.scope = s].leader = l
         /\ [NoTree EXCEPT !.leader = l, !.scope = s].member = "none"
BY DEF NoTree, Tree

\* The record of a process that has just been spawned.
LEMMA StartRecords == ASSUME NumberInv, StartEnds PROVE rec' \in JobRecord /\ rec'.st \in {"open", "run"}
<1>1. tree \in Tree /\ rec \in JobRecord /\ rec.st = "open"
  BY DEF NumberInv, TreeTypeOK, StartEnds
<1>2. Recorded \in JobRecord /\ Recorded.st = "run"
  BY <1>1 DEF Recorded, JobRecord, Tree
<1>3. \A r \in BOOLEAN, i \in BOOLEAN :
        /\ [Recorded EXCEPT !.retiring = r, !.id = i] \in JobRecord
        /\ [Recorded EXCEPT !.retiring = r, !.id = i].st = "run"
  BY <1>2 DEF JobRecord
<1>4. \A i \in BOOLEAN :
        [Recorded EXCEPT !.id = i] \in JobRecord /\ [Recorded EXCEPT !.id = i].st = "run"
  BY <1>2 DEF JobRecord
<1>5. \/ rec' \in {rec, Recorded} \/ rec' = [Recorded EXCEPT !.id = FALSE]
      \/ \E i \in BOOLEAN : rec' = [Recorded EXCEPT !.retiring = TRUE, !.id = i]
  BY DEF StartEnds
<1> QED BY <1>1, <1>2, <1>3, <1>4, <1>5

LEMMA StartsKeepNumber == ASSUME NumberInv, Starts PROVE NumberInv'
<1>t. tree \in Tree /\ rec \in JobRecord /\ mem \in Memory /\ start \in StartState
  BY DEF NumberInv, TreeTypeOK
<1>1. CASE Request
  BY <1>1, <1>t, BeforeProcess DEF Request, StartState, procs
<1>2. CASE Begins
  <2>1. rec' \in JobRecord /\ rec'.st = "open"
    BY <1>2, <1>t DEF Begins, JobRecord
  <2>2. mem' \in Memory /\ mem'.manager /\ mem'.child = mem.child
    BY <1>2, <1>t DEF Begins, Memory
  <2>3. start = "probe" /\ start' \in {"write", "spawn"}
    BY <1>2 DEF Begins
  <2> QED BY <1>2, <2>1, <2>2, <2>3, BeforeProcess DEF Begins, StartState, procs
<1>3. CASE Deadline
  BY <1>3, <1>t, BeforeProcess DEF Deadline, StartState, procs, NumberInv
<1>4. CASE Fails
  <2>1. rec' \in JobRecord /\ rec'.st = "gone"
    BY <1>4, <1>t DEF Fails, JobRecord
  <2> QED BY <1>4, <1>t, <2>1, BeforeProcess DEF Fails, StartState, procs
<1>5. CASE Verifies
  BY <1>5, <1>t, BeforeProcess DEF Verifies, StartState, procs, NumberInv
<1>6. CASE Spawns
  <2>1. PICK l \in {"alive", "hard"} :
          tree' = [NoTree EXCEPT !.leader = l, !.scope = probe.launcher = "scope"]
    BY <1>6 DEF Spawns
  <2>2. tree' \in Tree /\ tree'.leader = l /\ tree'.member = "none"
    BY <2>1, FreshTree
  <2>3. mem' \in Memory /\ mem'.child /\ mem'.manager = mem.manager
    BY <1>6, <1>t DEF Spawns, Memory
  <2>4. tree.leader = "none" /\ mem.manager /\ rec.st = "open" /\ start' = "spawned"
        /\ rec' = rec /\ stranger' = stranger
    BY <1>6 DEF Spawns, NumberInv
  <2> QED BY <2>2, <2>3, <2>4 DEF NumberInv, TreeTypeOK, StartState
<1>7. CASE StartEnds
  <2>1. start = "spawned" /\ start' = "no" /\ mem.child /\ stranger # "there" /\ rec.st = "open"
    BY <1>7 DEF StartEnds, NumberInv
  <2>3. rec' \in JobRecord /\ rec'.st \in {"open", "run"}
    BY <1>7, StartRecords
  <2>4. mem' \in Memory /\ mem'.child = mem.child
    BY <1>7, <1>t DEF StartEnds, Memory
  <2>5. Withered(tree') /\ stranger' = stranger
    <3>1. CASE Unsent
      BY <3>1, SignalledWithers DEF Unsent
    <3>2. CASE Sent(Termed)
      BY <3>2, <2>1, SignalledWithers, SignalReachesOwn
    <3> QED BY <1>7, <3>1, <3>2 DEF StartEnds
  <2>6. Dead \in {"zombie", "over"} /\ (mem.child => Dead = "zombie")
    BY DEF Dead
  <2> QED BY <2>1, <2>3, <2>4, <2>5, <2>6, TreeFacts DEF NumberInv, TreeTypeOK, Withered, StartState
<1> QED BY <1>1, <1>2, <1>3, <1>4, <1>5, <1>6, <1>7 DEF Starts

LEMMA ProcessesKeepNumber == ASSUME NumberInv, Processes PROVE NumberInv'
<1>t. tree \in Tree /\ rec \in JobRecord /\ mem \in Memory /\ start \in StartState
  BY DEF NumberInv, TreeTypeOK
<1>1. CASE LeaderExits
  <2>1. tree' = [leader |-> Dead, member |-> tree.member, away |-> tree.away, scope |-> tree.scope]
        /\ tree.leader \in {"alive", "hard"}
    BY <1>1, TreeFacts DEF LeaderExits
  <2>2. Withered(tree')
    BY <2>1, TreeFacts DEF Withered, Tree, Dead
  <2> QED BY <1>1, <1>t, <2>2, WitheringKeeps DEF LeaderExits
<1>2. CASE Forks
  <2>1. /\ tree' \in Tree /\ tree'.leader = tree.leader /\ tree.leader \in {"alive", "hard"}
    BY <1>2, <1>t DEF Forks, Tree
  <2> QED BY <1>2, <2>1 DEF Forks, NumberInv, TreeTypeOK
<1>3. CASE DescendantEnds
  <2>1. Withered(tree')
    BY <1>3, <1>t DEF DescendantEnds, Withered, Tree
  <2> QED BY <1>3, <1>t, <2>1, WitheringKeeps DEF DescendantEnds
<1>4. CASE NumberReused
  <2>1. /\ tree.leader = "over" /\ tree.member = "none" /\ stranger' \in {"none", "there"}
        /\ UNCHANGED <<tree, rec, mem, start>>
    BY <1>4, TreeFacts DEF NumberReused, GroupThere
  <2> QED BY <2>1 DEF NumberInv, TreeTypeOK
<1> QED BY <1>1, <1>2, <1>3, <1>4 DEF Processes

\* What a look at the job does to its record and to the agent's memory.
LEMMA RefreshedKeeps ==
  ASSUME NumberInv, start = "no", NEW m \in Memory, m.child = mem.child, m.manager, Refreshed(m)
  PROVE  /\ rec' \in JobRecord /\ mem' \in Memory /\ mem'.child = mem.child /\ mem'.manager
         /\ rec'.st = rec.st \/ (rec.st \in {"open", "run"} /\ rec'.st \in {"over", "gone"})
<1>t. rec \in JobRecord
  BY DEF NumberInv, TreeTypeOK
<1>1. CASE ~m.retires /\ (rec.st = "open" \/ (rec.st = "run" /\ (marker \/ Gone)))
  <2>1. rec' \in JobRecord /\ rec'.st \in {"over", "gone"}
    BY <1>1, <1>t DEF Refreshed, JobRecord
  <2>2. \A k \in {"no", "sent", "failed"}, s \in BOOLEAN :
          LET n == [m EXCEPT !.settled = s, !.kill = k]
          IN n \in Memory /\ n.child = m.child /\ n.manager = m.manager
    BY DEF Memory
  <2>3. PICK k \in {"no", "sent", "failed"}, s \in BOOLEAN : mem' = [m EXCEPT !.settled = s, !.kill = k]
    <3>1. /\ mem' = [m EXCEPT !.settled = ~rec.retiring,
                       !.kill = IF rec.scope /\ ~rec.retiring THEN "sent" ELSE m.kill]
          /\ m.kill \in {"no", "sent", "failed"}
      BY <1>1 DEF Refreshed, Memory
    <3> QED BY <3>1
  <2> QED BY <1>1, <2>1, <2>2, <2>3
<1>2. CASE ~(~m.retires /\ (rec.st = "open" \/ (rec.st = "run" /\ (marker \/ Gone))))
  <2>1. rec' = rec
    BY <1>2 DEF Refreshed
  <2>2. \A s \in {"no", "queued", "asked"} :
          LET n == [m EXCEPT !.settled = TRUE, !.sweep = s]
          IN n \in Memory /\ n.child = m.child /\ n.manager = m.manager
    BY DEF Memory
  <2>3. mem' = m \/ \E s \in {"no", "queued", "asked"} : mem' = [m EXCEPT !.settled = TRUE, !.sweep = s]
    <3>1. m.sweep \in {"no", "queued", "asked"}
      BY DEF Memory
    <3> QED BY <1>2, <3>1 DEF Refreshed
  <2> QED BY <1>t, <2>1, <2>2, <2>3
<1> QED BY <1>1, <1>2

LEMMA EndKeepsNumber ==
  ASSUME NumberInv, Reads \/ ReadsWithout \/ Cancel \/ Escalate \/ ScopeKilled \/ Sweeps PROVE NumberInv'
<1>t. rec \in JobRecord /\ mem \in Memory
  BY DEF NumberInv, TreeTypeOK
<1>1. CASE Reads
  <2> DEFINE m == [mem EXCEPT !.manager = TRUE]
  <2>1. m \in Memory /\ m.child = mem.child /\ m.manager
    BY <1>t DEF Memory
  <2>2. start = "no" /\ Refreshed(m)
    BY <1>1 DEF Reads
  <2> HIDE DEF m
  <2>3. /\ rec' \in JobRecord /\ mem' \in Memory /\ mem'.child = mem.child /\ mem'.manager
        /\ rec'.st = rec.st \/ (rec.st \in {"open", "run"} /\ rec'.st \in {"over", "gone"})
    BY <2>1, <2>2, RefreshedKeeps
  <2> QED BY <1>1, <2>2, <2>3, SignalledWithers, WitheringKeeps DEF Reads, procs
<1>2. CASE ReadsWithout
  <2>1. rec' \in JobRecord /\ rec'.st \in {"over", "gone"}
    BY <1>2, <1>t DEF ReadsWithout, JobRecord
  <2>2. start = "no" /\ rec.st \in {"open", "run"}
    BY <1>2 DEF ReadsWithout, Idle, NumberInv, TreeTypeOK, StartState
  <2> QED BY <1>2, <1>t, <2>1, <2>2, SignalledWithers, WitheringKeeps DEF ReadsWithout, procs
<1>3. CASE Cancel
  <2>1. rec' \in JobRecord /\ rec'.st = rec.st
    BY <1>3, <1>t DEF Cancel, JobRecord
  <2>2. mem' \in Memory /\ mem'.child = mem.child /\ mem'.manager
    BY <1>3, <1>t DEF Cancel, Memory
  <2>3. Withered(tree') /\ stranger' = stranger
    <3>1. CASE Unsent
      BY <3>1, SignalledWithers DEF Unsent
    <3>2. CASE Ours /\ Sent(Termed)
      <4>1. stranger # "there"
        BY <3>2 DEF Ours, LeaderThere, NumberInv
      <4> QED BY <3>2, <4>1, SignalledWithers, SignalReachesOwn
    <3> QED BY <1>3, <3>1, <3>2 DEF Cancel
  <2> QED BY <1>3, <2>1, <2>2, <2>3, WitheringKeeps DEF Cancel
<1>4. CASE Escalate
  <2>1. mem' \in Memory /\ mem'.child = mem.child /\ mem'.manager = mem.manager
    BY <1>4, <1>t DEF Escalate, Memory
  <2>2. Withered(tree') /\ stranger' = stranger
    <3>1. CASE Unsent
      BY <3>1, SignalledWithers DEF Unsent
    <3>2. CASE (Ours \/ mem.child) /\ Sent(Killed)
      <4>1. stranger # "there"
        BY <3>2 DEF Ours, LeaderThere, NumberInv
      <4> QED BY <3>2, <4>1, SignalledWithers, SignalReachesOwn
    <3> QED BY <1>4, <3>1, <3>2 DEF Escalate
  <2> QED BY <1>4, <1>t, <2>1, <2>2, WitheringKeeps DEF Escalate
<1>5. CASE ScopeKilled
  <2>1. mem' \in Memory /\ mem'.child = mem.child /\ mem'.manager = mem.manager
    BY <1>5, <1>t DEF ScopeKilled, Memory
  <2>2. Withered(tree')
    BY <1>5, SignalledWithers DEF ScopeKilled
  <2> QED BY <1>5, <1>t, <2>1, <2>2, WitheringKeeps DEF ScopeKilled
<1>6. CASE Sweeps
  <2>1. mem' \in Memory /\ mem'.child = mem.child /\ mem'.manager = mem.manager
    BY <1>6, <1>t DEF Sweeps, Memory
  <2> QED BY <1>6, <1>t, <2>1, SignalledWithers, WitheringKeeps DEF Sweeps, procs
<1> QED BY <1>1, <1>2, <1>3, <1>4, <1>5, <1>6

LEMMA ExitKeepsNumber == ASSUME NumberInv, ExitEvent PROVE NumberInv'
<1>t. tree \in Tree /\ rec \in JobRecord /\ mem \in Memory /\ start \in StartState
  BY DEF NumberInv, TreeTypeOK
<1>1. tree' \in Tree /\ tree'.leader = "over" /\ tree'.member = tree.member
  BY <1>t DEF ExitEvent, Tree
<1>2. /\ tree.leader = "zombie" /\ stranger' = stranger /\ stranger # "there" /\ rec.st # "none"
      /\ start = "no" /\ start' = "no"
  BY <1>t DEF ExitEvent, Idle, NumberInv, StartState
<1>3. rec' \in JobRecord /\ rec'.st # "none"
  BY <1>t, <1>2 DEF ExitEvent, JobRecord
<1>4. mem' \in Memory /\ ~mem'.child
  <2> DEFINE m == [mem EXCEPT !.child = FALSE, !.retires = FALSE]
  <2>1. m \in Memory /\ ~m.child
    BY <1>t DEF Memory
  <2>2. mem' = m \/ \E k \in {"no", "sent", "failed"} : mem' = [m EXCEPT !.settled = TRUE, !.kill = k]
    <3>1. m.kill \in {"no", "sent", "failed"}
      BY <2>1 DEF Memory
    <3> QED BY <3>1 DEF ExitEvent
  <2> HIDE DEF m
  <2>3. \A k \in {"no", "sent", "failed"} :
          LET n == [m EXCEPT !.settled = TRUE, !.kill = k] IN n \in Memory /\ ~n.child
    BY <2>1 DEF Memory
  <2> QED BY <2>1, <2>2, <2>3
<1> QED BY <1>1, <1>2, <1>3, <1>4 DEF NumberInv, TreeTypeOK

LEMMA RestartKeepsNumber == ASSUME NumberInv, AgentEnds PROVE NumberInv'
<1>t. tree \in Tree /\ rec \in JobRecord
  BY DEF NumberInv, TreeTypeOK
<1> DEFINE left == [tree EXCEPT !.leader = IF tree.leader = "zombie" THEN "over" ELSE tree.leader]
<1>1. /\ left \in Tree /\ left.member = tree.member /\ left.away = tree.away
      /\ left.leader = IF tree.leader = "zombie" THEN "over" ELSE tree.leader
  BY <1>t DEF Tree
<1>2. tree' = left
      \/ (Running /\ tree' = [left EXCEPT !.leader = "over", !.member = "none", !.away = FALSE])
  BY DEF AgentEnds
<1> HIDE DEF left
<1>3. LET gone == [left EXCEPT !.leader = "over", !.member = "none", !.away = FALSE]
      IN gone \in Tree /\ gone.leader = "over" /\ gone.member = "none"
  BY <1>1 DEF Tree
<1>4. /\ tree' \in Tree
      /\ tree'.leader = "none" => tree'.member = "none" /\ ~tree'.away
      /\ stranger = "there" => tree'.leader = "over" /\ tree'.member = "none"
      /\ rec.st = "none" => tree'.leader = "none"
  BY <1>1, <1>2, <1>3 DEF NumberInv, Running
<1>5. NoMemory \in Memory /\ ~NoMemory.child
  BY DEF NoMemory, Memory
<1>6. mem' = NoMemory /\ start' = "no" /\ rec' = rec /\ stranger' = stranger
  BY DEF AgentEnds
<1> QED BY <1>t, <1>4, <1>5, <1>6 DEF NumberInv, TreeTypeOK, StartState

\* A write that has not been given up is what its start waits for.
LEMMA WritesKeepNumber == ASSUME NumberInv, FilesInv, Writes PROVE NumberInv'
<1>1. /\ UNCHANGED <<tree, stranger, rec, mem>>
      /\ start' = start \/ (start = "write" /\ start' \in {"verify", "fails"})
  BY DEF Writes, MakesDir, WritesTemp, Renames, Chmods, CallFails, Undoes, WriteOver, procs, FilesInv
<1> QED BY <1>1 DEF NumberInv, TreeTypeOK, StartState

LEMMA NumberInvStep == NumberInv /\ FilesInv /\ [Next]_vars => NumberInv'
<1> SUFFICES ASSUME NumberInv, FilesInv, [Next]_vars PROVE NumberInv'
  OBVIOUS
<1>1. CASE Probes
  BY <1>1 DEF Probes, ProbeStarts, ProbeEnds, FloorOver, procs, NumberInv, TreeTypeOK
<1>2. CASE ScriptTaken \/ Wipes
  BY <1>2 DEF ScriptTaken, Wipes, procs, NumberInv, TreeTypeOK
<1>3. CASE AgentStarts
  <2>1. mem' \in Memory /\ mem'.child = mem.child /\ mem'.manager = mem.manager
    BY <1>3 DEF AgentStarts, Memory, NumberInv, TreeTypeOK
  <2> QED BY <1>3, <2>1 DEF AgentStarts, procs, NumberInv, TreeTypeOK
<1>4. CASE UNCHANGED vars
  BY <1>4 DEF vars, procs, NumberInv, TreeTypeOK
<1> QED BY <1>1, <1>2, <1>3, <1>4, WritesKeepNumber, StartsKeepNumber, ProcessesKeepNumber,
           EndKeepsNumber, ExitKeepsNumber, RestartKeepsNumber DEF Next, Late

-----------------------------------------------------------------------------
\* A record is never unwritten, and one that is gone stays gone.
LEMMA RecordGoesOn ==
  ASSUME NumberInv, [Next]_vars
  PROVE  (rec.st # "none" => rec'.st # "none") /\ (rec.st = "gone" => rec'.st = "gone")
<1>t. rec \in JobRecord
  BY DEF NumberInv, TreeTypeOK
<1>1. CASE Starts
  <2>1. CASE Begins \/ Fails
    BY <2>1, <1>t DEF Begins, Fails, NumberInv, JobRecord
  <2>2. CASE StartEnds
    BY <2>2, StartRecords DEF StartEnds, NumberInv
  <2>3. CASE Request \/ Deadline \/ Verifies \/ Spawns
    BY <2>3 DEF Request, Deadline, Verifies, Spawns
  <2> QED BY <1>1, <2>1, <2>2, <2>3 DEF Starts
<1>2. CASE Reads
  BY <1>2, <1>t DEF Reads, Refreshed, JobRecord
<1>3. CASE ReadsWithout
  BY <1>3, <1>t DEF ReadsWithout, JobRecord
<1>4. CASE Cancel
  BY <1>4, <1>t DEF Cancel, JobRecord
<1>5. CASE ExitEvent
  BY <1>5, <1>t DEF ExitEvent, JobRecord
<1>6. CASE Escalate \/ ScopeKilled \/ Sweeps \/ Processes \/ AgentEnds \/ AgentStarts
  BY <1>6 DEF Escalate, ScopeKilled, Sweeps, Processes, LeaderExits, Forks, DescendantEnds,
              NumberReused, AgentEnds, AgentStarts
<1>7. CASE Probes \/ Writes \/ ScriptTaken \/ Wipes
  BY <1>7 DEF Probes, ProbeStarts, ProbeEnds, FloorOver, Writes, ScriptTaken, Wipes
<1>8. CASE UNCHANGED vars
  BY <1>8 DEF vars
<1> QED BY <1>1, <1>2, <1>3, <1>4, <1>5, <1>6, <1>7, <1>8 DEF Next, Late

\* Steps that touch neither the files nor the write.
LEMMA FilesApart ==
  ASSUME NumberInv, FilesInv, [Next]_vars, UNCHANGED <<files, restarts>>, start' = start \/ start # "write"
  PROVE  FilesInv'
BY RecordGoesOn DEF FilesInv, FilesTypeOK, files

LEMMA FilesInvInit == Init => FilesInv
BY DEF Init, FilesInv, FilesTypeOK, NoIo, NoDir, NoRecord

\* A write that runs beside the removal has been given up.
LEMMA WritesKeepFiles == ASSUME NumberInv, FilesInv, Writes PROVE FilesInv'
<1>t. /\ io \in [pc : {"off", "mkdir", "temp", "rename", "chmod", "undo", "rmdir"},
                 made : BOOLEAN, quit : BOOLEAN]
      /\ dir \in [there : BOOLEAN, temp : BOOLEAN, script : BOOLEAN]
  BY DEF FilesInv, FilesTypeOK
<1>1. wipe' = wipe /\ rec' = rec /\ restarts' = restarts
  BY DEF Writes, procs, MakesDir, WritesTemp, Renames, Chmods, CallFails, Undoes, Fine, Mishap, bounds
<1>2. wipe # "no" /\ io.pc # "off" => io.quit
  BY DEF FilesInv, NumberInv
<1>3. NoIo.pc = "off" /\ ~NoIo.quit /\ NoIo \in [pc : {"off"}, made : BOOLEAN, quit : BOOLEAN]
  BY DEF NoIo
<1>4. CASE MakesDir
  <2>1. /\ io.pc = "mkdir" /\ io'.pc = (IF io.quit THEN "undo" ELSE "temp") /\ io'.made = ~dir.there
        /\ io'.quit = io.quit /\ io' \in [pc : {"undo", "temp"}, made : BOOLEAN, quit : BOOLEAN]
    BY <1>4, <1>t DEF MakesDir
  <2>2. dir' \in [there : BOOLEAN, temp : BOOLEAN, script : BOOLEAN]
        /\ dir'.there /\ dir'.temp = dir.temp /\ dir'.script = dir.script
    BY <1>4, <1>t DEF MakesDir
  <2>3. start' = start
    BY <1>4 DEF MakesDir
  <2> QED BY <1>1, <1>2, <2>1, <2>2, <2>3 DEF FilesInv, FilesTypeOK
<1>5. CASE WritesTemp
  <2>1. /\ io.pc = "temp" /\ io'.pc = (IF io.quit THEN "undo" ELSE "rename") /\ io'.made = io.made
        /\ io'.quit = io.quit /\ io' \in [pc : {"undo", "rename"}, made : BOOLEAN, quit : BOOLEAN]
    BY <1>5, <1>t DEF WritesTemp, NextCall
  <2>2. dir' \in [there : BOOLEAN, temp : BOOLEAN, script : BOOLEAN]
        /\ dir.there /\ dir'.there = dir.there /\ dir'.temp /\ dir'.script = dir.script
    BY <1>5, <1>t DEF WritesTemp
  <2>3. start' = start
    BY <1>5 DEF WritesTemp
  <2> QED BY <1>1, <1>2, <2>1, <2>2, <2>3 DEF FilesInv, FilesTypeOK
<1>6. CASE Renames
  <2>1. /\ io.pc = "rename" /\ io'.pc = (IF io.quit THEN "undo" ELSE "chmod") /\ io'.made = io.made
        /\ io'.quit = io.quit /\ io' \in [pc : {"undo", "chmod"}, made : BOOLEAN, quit : BOOLEAN]
    BY <1>6, <1>t DEF Renames, NextCall
  <2>2. dir' \in [there : BOOLEAN, temp : BOOLEAN, script : BOOLEAN]
        /\ dir.temp /\ dir'.there = dir.there /\ ~dir'.temp
    BY <1>6, <1>t DEF Renames
  <2>3. start' = start
    BY <1>6 DEF Renames
  <2> QED BY <1>1, <1>2, <2>1, <2>2, <2>3 DEF FilesInv, FilesTypeOK
<1>7. CASE Chmods
  BY <1>1, <1>3, <1>7 DEF Chmods, WriteOver, FilesInv, FilesTypeOK
<1>8. CASE CallFails
  <2>1. dir' \in [there : BOOLEAN, temp : BOOLEAN, script : BOOLEAN]
        /\ (dir'.there => dir.there) /\ ~dir'.temp /\ dir'.script = dir.script
    BY <1>8, <1>t DEF CallFails
  <2>2. io.pc \in {"mkdir", "temp", "rename"} /\ io' = NoIo
    BY <1>8 DEF CallFails, WriteOver
  <2> QED BY <1>1, <1>3, <2>1, <2>2 DEF FilesInv, FilesTypeOK
<1>9. CASE Undoes
  <2>1. CASE io.pc = "undo"
    <3>1. /\ io'.pc = "rmdir" /\ io'.made = io.made /\ io'.quit = io.quit
          /\ io' \in [pc : {"rmdir"}, made : BOOLEAN, quit : BOOLEAN]
      BY <1>9, <2>1, <1>t DEF Undoes
    <3>2. dir' \in [there : BOOLEAN, temp : BOOLEAN, script : BOOLEAN]
          /\ dir'.there = dir.there /\ ~dir'.temp /\ ~dir'.script
      BY <1>9, <2>1, <1>t DEF Undoes
    <3> QED BY <1>1, <1>9, <2>1, <3>1, <3>2 DEF FilesInv, FilesTypeOK, Undoes
  <2>2. CASE io.pc = "rmdir"
    <3>1. dir' \in [there : BOOLEAN, temp : BOOLEAN, script : BOOLEAN]
          /\ (dir'.there <=> dir.there /\ ~(io.made /\ ~dir.temp /\ ~dir.script))
          /\ dir'.temp = dir.temp /\ dir'.script = dir.script
      BY <1>9, <2>2, <1>t DEF Undoes
    <3>2. io' = NoIo /\ start' = start
      BY <1>9, <2>2 DEF Undoes
    <3> QED BY <1>1, <1>3, <2>2, <3>1, <3>2 DEF FilesInv, FilesTypeOK
  <2> QED BY <1>9, <2>1, <2>2 DEF Undoes
<1> QED BY <1>4, <1>5, <1>6, <1>7, <1>8, <1>9 DEF Writes

LEMMA FilesInvStep == NumberInv /\ FilesInv /\ [Next]_vars => FilesInv'
<1> SUFFICES ASSUME NumberInv, FilesInv, [Next]_vars PROVE FilesInv'
  OBVIOUS
<1>t. /\ io \in [pc : {"off", "mkdir", "temp", "rename", "chmod", "undo", "rmdir"},
                 made : BOOLEAN, quit : BOOLEAN]
      /\ dir \in [there : BOOLEAN, temp : BOOLEAN, script : BOOLEAN]
      /\ rec \in JobRecord
  BY DEF FilesInv, FilesTypeOK, NumberInv, TreeTypeOK
<1>1. CASE Begins
  <2>1. io.pc = "off" /\ wipe = "no" /\ wipe' = "no" /\ ~io.quit /\ restarts' = restarts
    BY <1>1 DEF Begins, FilesInv, NumberInv, Fine, bounds
  <2>2. rec'.st = "open"
    BY <1>1, <1>t DEF Begins, JobRecord
  <2>3. dir' \in [there : BOOLEAN, temp : BOOLEAN, script : BOOLEAN]
    BY <1>1, <1>t DEF Begins
  <2>4. \/ io' = io
        \/ /\ start' = "write" /\ io'.pc = "mkdir" /\ io'.quit = io.quit
           /\ io' \in [pc : {"mkdir"}, made : BOOLEAN, quit : BOOLEAN]
    BY <1>1, <1>t DEF Begins
  <2> QED BY <2>1, <2>2, <2>3, <2>4 DEF FilesInv, FilesTypeOK
<1>2. CASE Deadline
  <2>1. wipe = "no" /\ UNCHANGED <<wipe, dir, rec, restarts>>
    BY <1>2 DEF Deadline, FilesInv, NumberInv, Fine, bounds, procs
  <2>2. /\ io'.pc = io.pc /\ (io'.quit <=> io.pc # "off")
        /\ io' \in [pc : {"off", "mkdir", "temp", "rename", "chmod", "undo", "rmdir"},
                    made : BOOLEAN, quit : BOOLEAN]
    BY <1>2, <1>t DEF Deadline
  <2> QED BY <2>1, <2>2 DEF FilesInv, FilesTypeOK
<1>3. CASE Fails
  <2>1. rec'.st = "gone" /\ wipe' = "list" /\ UNCHANGED <<io, dir, restarts>> /\ start = "fails"
    BY <1>3, <1>t DEF Fails, Fine, bounds, JobRecord
  <2> QED BY <2>1 DEF FilesInv, FilesTypeOK
<1>4. CASE Request \/ Verifies \/ Spawns \/ StartEnds
  <2>1. UNCHANGED <<files, restarts>> /\ start # "write"
    BY <1>4 DEF Request, Verifies, Spawns, StartEnds, Fine, Mishap, bounds
  <2> QED BY <2>1, FilesApart
<1>5. CASE Wipes
  <2>1. UNCHANGED <<io, rec, start, restarts>>
    BY <1>5 DEF Wipes, procs, Fine, Mishap, bounds
  <2>2. CASE wipe = "list"
    <3>1. /\ wipe' = "rmdir" /\ ~dir'.temp /\ ~dir'.script
          /\ dir' \in [there : BOOLEAN, temp : BOOLEAN, script : BOOLEAN]
      BY <1>5, <2>2, <1>t DEF Wipes
    <3> QED BY <2>1, <2>2, <3>1 DEF FilesInv, FilesTypeOK
  <2>3. CASE wipe = "rmdir" /\ wipe' = "over"
    <3>1. /\ ~dir'.there /\ dir'.temp = dir.temp /\ ~dir'.temp /\ dir'.script = dir.script
          /\ dir' \in [there : BOOLEAN, temp : BOOLEAN, script : BOOLEAN]
      BY <1>5, <2>3, <1>t DEF Wipes
    <3> QED BY <2>1, <2>3, <3>1 DEF FilesInv, FilesTypeOK
  <2>4. CASE wipe = "rmdir" /\ wipe' \in {"list", "gaveup"} /\ dir' = dir
    BY <2>1, <2>4 DEF FilesInv, FilesTypeOK
  <2> QED BY <1>5, <2>2, <2>3, <2>4 DEF Wipes
<1>6. CASE ScriptTaken
  <2>1. /\ dir'.there = dir.there /\ dir'.temp = dir.temp /\ ~dir'.script
        /\ dir' \in [there : BOOLEAN, temp : BOOLEAN, script : BOOLEAN]
    BY <1>6, <1>t DEF ScriptTaken
  <2>2. UNCHANGED <<io, rec, start, wipe, restarts>>
    BY <1>6 DEF ScriptTaken, Mishap, procs
  <2> QED BY <2>1, <2>2 DEF FilesInv, FilesTypeOK
<1>7. CASE AgentEnds
  <2>1. /\ io' = NoIo /\ restarts' = restarts + 1 /\ UNCHANGED <<dir, rec>>
        /\ wipe' = IF wipe \in {"list", "rmdir"} THEN "gaveup" ELSE wipe
    BY <1>7 DEF AgentEnds
  <2>2. restarts' \in Nat /\ restarts' # 0
    BY <2>1 DEF FilesInv, FilesTypeOK
  <2> QED BY <2>1, <2>2 DEF FilesInv, FilesTypeOK, NoIo
<1>8. CASE Probes \/ Processes \/ Reads \/ ReadsWithout \/ Cancel \/ Late \/ AgentStarts
  <2>1. UNCHANGED <<files, restarts, start>>
    <3>1. CASE Probes \/ Processes \/ AgentStarts
      BY <3>1 DEF Probes, ProbeStarts, ProbeEnds, FloorOver, Processes, LeaderExits, Forks,
                  DescendantEnds, NumberReused, AgentStarts, Fine, Mishap, bounds
    <3>2. CASE Reads \/ ReadsWithout \/ Cancel
      BY <3>2 DEF Reads, ReadsWithout, Cancel, Fine, Mishap, bounds
    <3>3. CASE Late
      BY <3>3 DEF Late, Escalate, ScopeKilled, Sweeps, ExitEvent, Fine, Mishap, bounds
    <3> QED BY <1>8, <3>1, <3>2, <3>3
  <2> QED BY <2>1, FilesApart
<1>9. CASE UNCHANGED vars
  BY <1>9, FilesApart DEF vars, bounds
<1> QED BY <1>1, <1>2, <1>3, <1>4, <1>5, <1>6, <1>7, <1>8, <1>9, WritesKeepFiles DEF Next, Starts

\* What comes late finds nothing of others: no signal reaches a process that got the
\* number of one that ended, and a write whose caller has given up leaves no script
\* and no directory where the job's was erased.  For any number of failed calls,
\* files taken away and restarts.
THEOREM LateFindsNothing == Spec => []LateIsHarmless
<1>1. NumberInv /\ FilesInv => LateIsHarmless
  BY DEF NumberInv, FilesInv, LateIsHarmless
<1> QED BY <1>1, NumberInvInit, FilesInvInit, NumberInvStep, FilesInvStep, PTL DEF Spec

-----------------------------------------------------------------------------
(* What is left of a job that is over.                                       *)

\* The end of a scoped job is followed up: an escalation is armed, systemctl has been
\* called, or the sweep of a restarted agent has the scope on its list.
FollowedUp == mem.timer # "off" \/ mem.kill \in {"sent", "failed"} \/ mem.sweep # "no"
LeftoversDue == mem.manager /\ rec.st = "over" /\ rec.scope /\ tree.scope /\ Running => FollowedUp

\* A manager that knows a job to be over has looked at it, in this life of the agent.
LeftInv ==
  /\ mem.child \/ mem.settled => mem.manager
  /\ mem.manager /\ rec.st = "over" => mem.settled
  /\ LeftoversDue

\* A step after which no more of the job runs, and that takes back nothing.
LEMMA FollowUpKeeps ==
  ASSUME LeftInv, rec' = rec \/ rec'.st # "over",
         mem'.manager = mem.manager, mem'.child = mem.child, mem'.settled = mem.settled,
         tree'.scope /\ Running' => tree.scope /\ Running,
         FollowedUp /\ tree'.scope /\ Running' => FollowedUp'
  PROVE  LeftInv'
BY DEF LeftInv, LeftoversDue

LEMMA StartsKeepLeft == ASSUME NumberInv, LeftInv, Starts PROVE LeftInv'
<1>t. rec \in JobRecord /\ mem \in Memory
  BY DEF NumberInv, TreeTypeOK
<1>1. CASE Request \/ Deadline \/ Verifies
  BY <1>1 DEF Request, Deadline, Verifies, procs, LeftInv, LeftoversDue, FollowedUp, Running
<1>2. CASE Begins
  <2>1. mem'.manager /\ rec'.st = "open"
    BY <1>2, <1>t DEF Begins, Memory, JobRecord
  <2> QED BY <2>1 DEF LeftInv, LeftoversDue
<1>3. CASE Fails
  <2>1. mem' = mem /\ rec'.st = "gone"
    BY <1>3, <1>t DEF Fails, JobRecord
  <2> QED BY <2>1 DEF LeftInv, LeftoversDue
<1>4. CASE Spawns
  <2>1. mem.manager /\ rec.st = "open" /\ rec' = rec
    BY <1>4 DEF Spawns, NumberInv
  <2>2. mem'.manager = mem.manager /\ mem'.settled = mem.settled
    BY <1>4, <1>t DEF Spawns, Memory
  <2> QED BY <2>1, <2>2 DEF LeftInv, LeftoversDue
<1>5. CASE StartEnds
  <2>1. rec'.st \in {"open", "run"}
    BY <1>5, StartRecords
  <2>2. mem'.manager = mem.manager /\ mem'.settled = mem.settled /\ mem'.child = mem.child
    BY <1>5, <1>t DEF StartEnds, Memory
  <2> QED BY <2>1, <2>2 DEF LeftInv, LeftoversDue
<1> QED BY <1>1, <1>2, <1>3, <1>4, <1>5 DEF Starts

\* What a look at the job finds over it has settled, or puts on the list.
LEMMA RefreshedFollowsUp ==
  ASSUME NumberInv, LeftInv, NEW m \in Memory, m = [mem EXCEPT !.manager = TRUE], Refreshed(m), tree' = tree
  PROVE  LeftInv'
<1>t. rec \in JobRecord /\ mem \in Memory
  BY DEF NumberInv, TreeTypeOK
<1>m. /\ m.manager /\ m.settled = mem.settled /\ m.child = mem.child
      /\ m.timer = mem.timer /\ m.kill = mem.kill /\ m.sweep = mem.sweep
  BY <1>t DEF Memory
<1>1. CASE ~m.retires /\ (rec.st = "open" \/ (rec.st = "run" /\ (marker \/ Gone)))
  <2>1. /\ mem' = [m EXCEPT !.settled = ~rec.retiring,
                     !.kill = IF rec.scope /\ ~rec.retiring THEN "sent" ELSE m.kill]
        /\ rec' = [rec EXCEPT !.st = IF rec.retiring THEN "gone" ELSE "over"]
    BY <1>1 DEF Refreshed
  <2>2. mem'.manager /\ (mem'.settled <=> ~rec.retiring) /\ (rec.scope /\ ~rec.retiring => mem'.kill = "sent")
    BY <1>m, <2>1 DEF Memory
  <2>3. rec'.scope = rec.scope /\ (rec'.st = "over" => ~rec.retiring)
    BY <1>t, <2>1 DEF JobRecord
  <2> QED BY <2>2, <2>3 DEF LeftInv, LeftoversDue, FollowedUp
<1>2. CASE ~(~m.retires /\ (rec.st = "open" \/ (rec.st = "run" /\ (marker \/ Gone))))
  <2>1. CASE rec.st = "over" /\ ~m.settled
    <3>1. rec' = rec /\ mem' = [m EXCEPT !.settled = TRUE, !.sweep = IF rec.scope THEN "queued" ELSE m.sweep]
      BY <1>2, <2>1 DEF Refreshed
    <3>2. mem'.manager /\ mem'.settled /\ (rec.scope => mem'.sweep = "queued")
      BY <1>m, <3>1 DEF Memory
    <3> QED BY <3>1, <3>2 DEF LeftInv, LeftoversDue, FollowedUp
  <2>2. CASE ~(rec.st = "over" /\ ~m.settled)
    <3>1. rec' = rec /\ mem' = m
      BY <1>2, <2>2 DEF Refreshed
    <3>2. rec.st = "over" => mem.settled /\ mem.manager
      BY <1>m, <2>2 DEF LeftInv
    <3> QED BY <1>m, <3>1, <3>2 DEF LeftInv, LeftoversDue, FollowedUp, Running
  <2> QED BY <2>1, <2>2
<1> QED BY <1>1, <1>2

LEMMA ProcessesKeepLeft == ASSUME NumberInv, LeftInv, Processes PROVE LeftInv'
<1>1. mem' = mem /\ rec' = rec
  BY DEF Processes, LeaderExits, Forks, DescendantEnds, NumberReused
<1>2. tree'.scope /\ Running' => tree.scope /\ Running
  <2>t. tree \in Tree
    BY DEF NumberInv, TreeTypeOK
  <2>1. CASE LeaderExits
    BY <2>1, <2>t DEF LeaderExits, Tree, Running
  <2>2. CASE Forks
    BY <2>2, <2>t DEF Forks, Tree, Running
  <2>3. CASE DescendantEnds
    BY <2>3, <2>t DEF DescendantEnds, Tree, Running
  <2>4. CASE NumberReused
    BY <2>4 DEF NumberReused, Running
  <2> QED BY <2>1, <2>2, <2>3, <2>4 DEF Processes
<1> QED BY <1>1, <1>2, FollowUpKeeps DEF FollowedUp

\* A signal leaves no more of a job than there was.
LEMMA SignalledIsLess ==
  ASSUME NumberInv, NEW after \in {Termed, Killed}, Unsent \/ Sent(after)
  PROVE  tree'.scope = tree.scope /\ (Running' => Running)
<1>t. tree \in Tree
  BY DEF NumberInv, TreeTypeOK
<1>1. tree' \in {tree, Termed, Killed, TaskKilled}
  BY DEF Unsent, Sent
<1>2. Termed.scope = tree.scope /\ Killed.scope = tree.scope /\ TaskKilled.scope = tree.scope
  BY <1>t DEF Termed, Killed, TaskKilled, Tree
<1>3. Withered(tree')
  BY <1>1, SignalledWithers
<1>4. Dead \in {"zombie", "over"}
  BY DEF Dead
<1> QED BY <1>1, <1>2, <1>3, <1>4 DEF Withered, Running

LEMMA EndKeepsLeft ==
  ASSUME NumberInv, LeftInv, Reads \/ ReadsWithout \/ Cancel \/ Escalate \/ ScopeKilled \/ Sweeps
  PROVE  LeftInv'
<1>t. tree \in Tree /\ rec \in JobRecord /\ mem \in Memory
  BY DEF NumberInv, TreeTypeOK
<1>1. CASE Reads
  <2>1. [mem EXCEPT !.manager = TRUE] \in Memory
    BY <1>t DEF Memory
  <2> QED BY <1>1, <2>1, RefreshedFollowsUp DEF Reads, procs
<1>2. CASE ReadsWithout
  <2>1. mem' = mem /\ ~mem.manager
    BY <1>2 DEF ReadsWithout
  <2> QED BY <2>1 DEF LeftInv, LeftoversDue
<1>3. CASE Cancel
  <2>1. mem' = [mem EXCEPT !.manager = TRUE, !.timer = "cancel"] /\ rec.st = "run" /\ rec' = [rec EXCEPT !.cancel = TRUE]
    BY <1>3 DEF Cancel
  <2>2. mem'.manager /\ rec'.st = "run"
    BY <1>t, <2>1 DEF Memory, JobRecord
  <2> QED BY <2>2 DEF LeftInv, LeftoversDue
<1>4. CASE Escalate
  <2>1. /\ mem' = [mem EXCEPT !.timer = "off", !.kill = IF tree.scope THEN "sent" ELSE mem.kill]
        /\ rec' = rec
    BY <1>4 DEF Escalate
  <2>2. tree'.scope = tree.scope /\ (Running' => Running)
    BY <1>4, SignalledIsLess DEF Escalate
  <2>3. /\ mem'.manager = mem.manager /\ mem'.child = mem.child /\ mem'.settled = mem.settled
        /\ tree.scope => mem'.kill = "sent"
    BY <1>t, <2>1 DEF Memory
  <2> QED BY <2>1, <2>2, <2>3, FollowUpKeeps DEF FollowedUp
<1>5. CASE ScopeKilled
  <2>1. CASE tree' = (IF tree.scope THEN TaskKilled ELSE tree) /\ mem' = [mem EXCEPT !.kill = "no"]
    <3>1. tree'.scope => ~Running'
      <4>1. TaskKilled.leader \notin {"alive", "hard"} /\ TaskKilled.member = "none" /\ ~TaskKilled.away
        BY <1>t DEF TaskKilled, LeaderDies, Dead, Tree
      <4> QED BY <2>1, <4>1 DEF Running
    <3>2. mem'.manager = mem.manager /\ mem'.child = mem.child /\ mem'.settled = mem.settled
      BY <1>t, <2>1 DEF Memory
    <3> QED BY <1>5, <3>1, <3>2, FollowUpKeeps DEF ScopeKilled
  <2>2. CASE tree' = tree /\ mem' = [mem EXCEPT !.kill = "failed"]
    <3>1. mem'.manager = mem.manager /\ mem'.child = mem.child /\ mem'.settled = mem.settled /\ mem'.kill = "failed"
      BY <1>t, <2>2 DEF Memory
    <3> QED BY <1>5, <2>2, <3>1, FollowUpKeeps DEF ScopeKilled, FollowedUp, Running
  <2> QED BY <1>5, <2>1, <2>2 DEF ScopeKilled
<1>6. CASE Sweeps
  <2>1. tree' = tree /\ rec' = rec
    BY <1>6 DEF Sweeps, procs
  <2>2. /\ mem'.manager = mem.manager /\ mem'.child = mem.child /\ mem'.settled = mem.settled
        /\ FollowedUp /\ tree.scope /\ Running => FollowedUp'
    BY <1>6, <1>t DEF Sweeps, Memory, FollowedUp
  <2> QED BY <2>1, <2>2, FollowUpKeeps DEF Running
<1> QED BY <1>1, <1>2, <1>3, <1>4, <1>5, <1>6

LEMMA ExitKeepsLeft == ASSUME NumberInv, LeftInv, ExitEvent PROVE LeftInv'
<1>t. tree \in Tree /\ rec \in JobRecord /\ mem \in Memory
  BY DEF NumberInv, TreeTypeOK
<1> DEFINE m == [mem EXCEPT !.child = FALSE, !.retires = FALSE]
<1>1. /\ m \in Memory /\ ~m.child /\ m.manager = mem.manager /\ m.settled = mem.settled
      /\ m.timer = mem.timer /\ m.kill = mem.kill /\ m.sweep = mem.sweep
  BY <1>t DEF Memory
<1>2. mem.manager
  BY DEF ExitEvent, LeftInv
<1>3. tree'.scope = tree.scope /\ (Running' => Running)
  BY <1>t DEF ExitEvent, Tree, Running
<1>4. CASE mem.retires
  <2>1. mem' = m /\ rec' = [rec EXCEPT !.st = "gone"]
    BY <1>4 DEF ExitEvent
  <2>2. rec'.st = "gone"
    BY <1>t, <2>1 DEF JobRecord
  <2> QED BY <1>1, <1>2, <2>1, <2>2 DEF LeftInv, LeftoversDue
<1>5. CASE ~mem.retires /\ rec.st = "run"
  <2>1. /\ mem' = [m EXCEPT !.settled = TRUE, !.kill = IF rec.scope THEN "sent" ELSE m.kill]
        /\ rec' = [rec EXCEPT !.st = "over"]
    BY <1>5 DEF ExitEvent
  <2>2. rec'.scope = rec.scope
    BY <1>t, <2>1 DEF JobRecord
  <2> HIDE DEF m
  <2>3. mem'.manager = m.manager /\ mem'.settled /\ (rec.scope => mem'.kill = "sent")
    BY <1>1, <2>1 DEF Memory
  <2> QED BY <1>1, <1>2, <2>2, <2>3 DEF LeftInv, LeftoversDue, FollowedUp
<1>6. CASE ~mem.retires /\ rec.st # "run"
  <2>1. mem' = m /\ rec' = rec
    BY <1>6 DEF ExitEvent
  <2> HIDE DEF m
  <2> QED BY <1>1, <1>2, <1>3, <2>1 DEF LeftInv, LeftoversDue, FollowedUp
<1> QED BY <1>4, <1>5, <1>6

LEMMA LeftInvStep == NumberInv /\ LeftInv /\ [Next]_vars => LeftInv'
<1> SUFFICES ASSUME NumberInv, LeftInv, [Next]_vars PROVE LeftInv'
  OBVIOUS
<1>1. CASE Probes \/ Writes \/ ScriptTaken \/ Wipes \/ UNCHANGED vars
  <2>1. UNCHANGED <<tree, rec, mem>>
    BY <1>1 DEF Probes, ProbeStarts, ProbeEnds, FloorOver, Writes, ScriptTaken, Wipes, vars, procs
  <2> QED BY <2>1, FollowUpKeeps DEF FollowedUp, Running
<1>2. CASE AgentEnds
  <2>1. mem' = NoMemory
    BY <1>2 DEF AgentEnds
  <2> QED BY <2>1 DEF NoMemory, LeftInv, LeftoversDue
<1>3. CASE AgentStarts
  <2>1. /\ mem'.manager = mem.manager /\ mem'.child = mem.child /\ mem'.settled = mem.settled
        /\ mem'.timer = mem.timer /\ mem'.kill = mem.kill /\ mem'.sweep = mem.sweep
        /\ UNCHANGED <<tree, rec>>
    BY <1>3 DEF AgentStarts, procs, NumberInv, TreeTypeOK, Memory
  <2> QED BY <2>1, FollowUpKeeps DEF FollowedUp, Running
<1> QED BY <1>1, <1>2, <1>3, StartsKeepLeft, ProcessesKeepLeft, EndKeepsLeft, ExitKeepsLeft DEF Next, Late

\* As long as anything of a scoped job runs whose record says it is over, the agent
\* has something under way to end it, or a call of systemctl has failed: the safety
\* half of NothingSurvives, across restarts and whichever of exit event, request and
\* recovery noticed the end.
THEOREM LeftoversAreDue == Spec => []LeftoversDue
<1>1. Init => LeftInv
  BY DEF Init, NoMemory, LeftInv, LeftoversDue
<1>2. LeftInv => LeftoversDue
  BY DEF LeftInv
<1> QED BY <1>1, <1>2, NumberInvInit, FilesInvInit, NumberInvStep, FilesInvStep, LeftInvStep, PTL DEF Spec

-----------------------------------------------------------------------------
(* A job's output, read slice by slice.                                      *)

Optional == {{}} \cup {{n} : n \in Nat}
LogRequest == [offsetBytes : Optional, tailLines : Optional, maxBytes : Optional]

(* A caller that follows a job's output: it has read the first n bytes, and   *)
(* the last request settled the cap.                                          *)
Following(log, truncatedAt, n) ==
  /\ truncatedAt # {} \/ Len(log) < MaxLogBytes
  /\ n <= Served(log, truncatedAt)

LEMMA ServedWithin ==
  ASSUME NEW log \in Seq(Byte), NEW truncatedAt \in Optional
  PROVE  /\ Served(log, truncatedAt) \in Nat
         /\ Served(log, truncatedAt) <= Len(log)
         /\ \A n \in truncatedAt : Served(log, truncatedAt) = Lesser(Len(log), n)
         /\ truncatedAt = {} => Served(log, truncatedAt) = Len(log)
PROOF
<1>1. Len(log) \in Nat
  BY LenProperties
<1>2. CASE truncatedAt = {}
  BY <1>1, <1>2 DEF Served
<1>3. ASSUME NEW n \in Nat, truncatedAt = {n}
      PROVE  Served(log, truncatedAt) = Lesser(Len(log), n)
  <2>1. (CHOOSE k \in truncatedAt : TRUE) = n
    BY <1>3
  <2> QED BY <1>3, <2>1 DEF Served
<1>4. CASE truncatedAt # {}
  <2>1. PICK n \in Nat : truncatedAt = {n}
    BY <1>4 DEF Optional
  <2>2. Lesser(Len(log), n) \in Nat /\ Lesser(Len(log), n) <= Len(log)
    BY <1>1 DEF Lesser
  <2> QED BY <1>3, <1>4, <2>1, <2>2
<1> QED BY <1>1, <1>2, <1>4

LEMMA SliceHasRoom ==
  ASSUME NEW asked \in Optional
  PROVE  clampSliceBytes(asked) \in Nat \ {0}
PROOF
<1>1. MaxSliceBytes \in Nat \ {0}
  BY OutputAssumption
<1>2. CASE \E n \in asked : n >= 1
  <2>1. PICK k \in Nat : asked = {k}
    BY <1>2 DEF Optional
  <2>2. (CHOOSE n \in asked : TRUE) = k /\ k >= 1
    BY <1>2, <2>1
  <2>3. clampSliceBytes(asked) = Lesser(k, MaxSliceBytes)
    BY <1>2, <2>2 DEF clampSliceBytes
  <2> QED BY <1>1, <2>1, <2>2, <2>3 DEF Lesser
<1>3. CASE ~\E n \in asked : n >= 1
  BY <1>1, <1>3 DEF clampSliceBytes
<1> QED BY <1>2, <1>3

(* A slice asked for at an offset within what is served is the file's bytes   *)
(* from there to the next offset, it is not empty before the end unless it     *)
(* could not be read, and it says eof at the end only.                        *)
LEMMA SliceIsExact ==
  ASSUME NEW log \in Seq(Byte), NEW truncatedAt \in Optional,
         NEW n \in Nat, NEW req \in LogRequest, req.offsetBytes = {n},
         NEW reads, n <= Served(log, truncatedAt)
  PROVE  LET slice == readJobLogs(log, truncatedAt, req, reads)
             size == Served(log, truncatedAt)
         IN  /\ slice.offsetBytes = n
             /\ slice.nextOffsetBytes \in n .. size
             /\ slice.chunk = SubSeq(log, n + 1, slice.nextOffsetBytes)
             /\ n < size /\ "chunk" \in reads => n < slice.nextOffsetBytes
             /\ slice.eof <=> slice.nextOffsetBytes = size
PROOF
<1> DEFINE size == Served(log, truncatedAt)
           room == clampSliceBytes(req.maxBytes)
           asked == Lesser(room, size - n)
           readable == "chunk" \in reads
           length == IF readable THEN asked ELSE 0
           slice == readJobLogs(log, truncatedAt, req, reads)
<1>1. size \in Nat /\ size <= Len(log) /\ n <= size /\ Len(log) \in Nat
  BY ServedWithin, LenProperties
<1>2. room \in Nat \ {0}
  BY SliceHasRoom DEF LogRequest
<1>3. (CHOOSE k \in req.offsetBytes : TRUE) = n /\ \E k \in req.offsetBytes : k >= 0
  OBVIOUS
<1> HIDE DEF size, room
<1>4. /\ Lesser(n, size) = n /\ asked \in Nat /\ length \in Nat /\ n + length <= size
      /\ n < size /\ readable => length > 0
  BY <1>1, <1>2 DEF Lesser
<1> DEFINE chunk == readRange(log, n, asked, readable)
<1>5. /\ slice.offsetBytes = n /\ slice.chunk = chunk
      /\ slice.nextOffsetBytes = n + Len(chunk)
      /\ slice.eof <=> n + Len(chunk) >= size
  BY <1>3, <1>4 DEF readJobLogs, size, room
<1> HIDE DEF slice
<1> DEFINE last == n + length
<1>6. chunk = SubSeq(log, n + 1, last)
  <2>1. CASE readable
    BY <1>1, <1>4, <2>1 DEF readRange, Lesser
  <2>2. CASE ~readable
    <3>1. last = n /\ chunk = << >>
      BY <1>1, <2>2 DEF readRange
    <3>2. SubSeq(log, n + 1, n) = << >>
      <4> HIDE DEF last, chunk
      <4>1. n + 1 \in Int /\ n \in Int /\ n + 1 > n
        OBVIOUS
      <4> QED BY <4>1, SubSeqEmpty
    <3> HIDE DEF last, chunk
    <3> QED BY <3>1, <3>2
  <2> QED BY <2>1, <2>2
<1> HIDE DEF length, chunk, readable
<1>7. Len(SubSeq(log, n + 1, last)) = length
  <2>1. n + 1 \in Int /\ last \in Int /\ last <= Len(log)
    BY <1>1, <1>4
  <2>2. \A i \in n + 1 .. last : log[i] \in Byte
    BY <1>1, <2>1, ElementOfSeq
  <2> HIDE DEF last
  <2>3. Len(SubSeq(log, n + 1, last)) = IF n + 1 <= last THEN last - (n + 1) + 1 ELSE 0
    BY <2>1, <2>2, SubSeqProperties
  <2> QED BY <1>4, <2>3 DEF last
<1>8. /\ slice.offsetBytes = n /\ slice.nextOffsetBytes = last
      /\ slice.chunk = SubSeq(log, n + 1, last)
      /\ slice.eof <=> last >= size
  BY <1>5, <1>6, <1>7
<1>9. /\ last \in n .. size /\ (last >= size <=> last = size)
      /\ n < size /\ readable => n < last
  BY <1>1, <1>4
<1> HIDE DEF last
<1>10. /\ slice.offsetBytes = n
       /\ slice.nextOffsetBytes \in n .. size
       /\ slice.chunk = SubSeq(log, n + 1, slice.nextOffsetBytes)
       /\ n < size /\ readable => n < slice.nextOffsetBytes
       /\ slice.eof <=> slice.nextOffsetBytes = size
  BY <1>8, <1>9
<1> QED BY <1>10 DEF size, slice, readable

(* The beginning of a file is not changed by what is appended to it.          *)
LEMMA FrontOfConcat ==
  ASSUME NEW s \in Seq(Byte), NEW t \in Seq(Byte), NEW n \in 0 .. Len(s)
  PROVE  SubSeq(s \o t, 1, n) = SubSeq(s, 1, n)
PROOF
<1>1. CASE n = 0
  BY <1>1, SubSeqEmpty
<1>2. CASE n # 0
  <2>1. n \in 1 .. Len(s) /\ 1 \in 1 .. Len(s)
    BY <1>2, LenProperties
  <2> QED BY <2>1, SubSeqOfConcat1
<1> QED BY <1>1, <1>2

(* The cap cuts nothing off what was already served, whatever the job wrote   *)
(* in between and whether or not the notice could be appended.                *)
LEMMA CapKeepsWhatWasServed ==
  ASSUME NEW log \in Seq(Byte), NEW more \in Seq(Byte),
         NEW truncatedAt \in Optional, NEW lands \in BOOLEAN, NEW n \in Nat,
         Following(log, truncatedAt, n)
  PROVE  LET file == checkLogCap(log \o more, truncatedAt, lands)
         IN  /\ file.log \in Seq(Byte) /\ file.truncatedAt \in Optional
             /\ Following(file.log, file.truncatedAt, n)
             /\ SubSeq(file.log, 1, n) = SubSeq(log, 1, n)
PROOF
<1> DEFINE whole == log \o more
           file == checkLogCap(whole, truncatedAt, lands)
<1>1. /\ whole \in Seq(Byte) /\ Len(whole) = Len(log) + Len(more)
      /\ Len(log) \in Nat /\ Len(more) \in Nat
  BY ConcatProperties, LenProperties
<1>2. /\ MaxLogBytes \in Nat /\ Notice \in Seq(Byte) /\ Len(Notice) \in Nat
  BY LenProperties, OutputAssumption
<1>3. n \in 0 .. Len(log)
  BY ServedWithin DEF Following
<1>4. SubSeq(whole, 1, n) = SubSeq(log, 1, n)
  BY <1>3, FrontOfConcat
<1>5. CASE truncatedAt # {} \/ Len(whole) < MaxLogBytes
  <2>1. file.log = whole /\ file.truncatedAt = truncatedAt
    BY <1>5 DEF checkLogCap
  <2> HIDE DEF file, whole
  <2>2. n <= Served(whole, truncatedAt)
    <3>1. CASE truncatedAt = {}
      <4>1. Served(whole, truncatedAt) = Len(whole)
        BY <1>1, <3>1, ServedWithin
      <4> QED BY <1>1, <1>3, <4>1
    <3>2. CASE truncatedAt # {}
      <4>1. PICK k \in Nat : truncatedAt = {k}
        BY <3>2 DEF Optional
      <4>2. Served(whole, truncatedAt) = Lesser(Len(whole), k)
            /\ Served(log, truncatedAt) = Lesser(Len(log), k)
        BY <1>1, <4>1, ServedWithin
      <4> QED BY <1>1, <4>1, <4>2 DEF Lesser, Following
    <3> QED BY <3>1, <3>2
  <2> QED BY <1>1, <1>4, <1>5, <2>1, <2>2 DEF Following, file, whole
<1>6. CASE ~(truncatedAt # {} \/ Len(whole) < MaxLogBytes)
  <2> DEFINE cut == MaxLogBytes + (IF lands THEN Len(Notice) ELSE 0)
  <2>1. file.log = (IF lands THEN whole \o Notice ELSE whole) /\ file.truncatedAt = {cut}
    BY <1>6 DEF checkLogCap
  <2>2. Len(log) < MaxLogBytes
    BY <1>6 DEF Following
  <2> HIDE DEF whole, file
  <2>3. /\ file.log \in Seq(Byte)
        /\ Len(file.log) = Len(whole) + (IF lands THEN Len(Notice) ELSE 0)
    <3>1. whole \o Notice \in Seq(Byte) /\ Len(whole \o Notice) = Len(whole) + Len(Notice)
      BY <1>1, <1>2, ConcatProperties
    <3>2. CASE lands
      BY <2>1, <3>1, <3>2
    <3>3. CASE ~lands
      BY <1>1, <2>1, <3>3
    <3> QED BY <3>2, <3>3
  <2>4. cut \in Nat /\ file.truncatedAt \in Optional
    BY <1>2, <2>1 DEF Optional
  <2>5. Served(file.log, file.truncatedAt) = Lesser(Len(file.log), cut)
    BY <2>1, <2>3, <2>4, ServedWithin
  <2>6. n <= Served(file.log, file.truncatedAt)
    <3>1. n <= cut
      <4>1. n <= MaxLogBytes
        BY <1>1, <1>2, <1>3, <2>2
      <4>2. CASE lands
        <5>1. cut = MaxLogBytes + Len(Notice)
          BY <4>2
        <5> HIDE DEF cut
        <5> QED BY <1>2, <4>1, <5>1
      <4>3. CASE ~lands
        <5>1. cut = MaxLogBytes
          BY <1>2, <4>3
        <5> QED BY <4>1, <5>1
      <4> QED BY <4>2, <4>3
    <3>2. n <= Len(file.log)
      <4>1. Len(file.log) >= Len(whole)
        <5>1. CASE lands
          BY <1>1, <1>2, <2>3, <5>1
        <5>2. CASE ~lands
          BY <1>1, <1>2, <2>3, <5>2
        <5> QED BY <5>1, <5>2
      <4>2. Len(file.log) \in Nat
        BY <2>3, LenProperties
      <4>3. n <= Len(whole)
        BY <1>1, <1>3
      <4> HIDE DEF cut
      <4> QED BY <1>1, <4>1, <4>2, <4>3
    <3> HIDE DEF cut
    <3> QED BY <2>5, <3>1, <3>2 DEF Lesser
  <2>7. SubSeq(file.log, 1, n) = SubSeq(whole, 1, n)
    <3>1. n \in 0 .. Len(whole)
      BY <1>1, <1>3
    <3>2. CASE lands
      <4>1. file.log = whole \o Notice
        BY <2>1, <3>2
      <4> QED BY <1>1, <1>2, <3>1, <4>1, FrontOfConcat
    <3>3. CASE ~lands
      BY <2>1, <3>3
    <3> QED BY <3>2, <3>3
  <2>8. file.truncatedAt # {}
    BY <2>1
  <2>9. Following(file.log, file.truncatedAt, n)
    BY <2>6, <2>8 DEF Following
  <2> QED BY <1>4, <2>3, <2>4, <2>7, <2>9 DEF file, whole
<1> QED BY <1>5, <1>6

(* Following a job's output from slice to slice reads the file, and nothing   *)
(* twice: whatever was appended since the last slice, and wherever the cap    *)
(* fell, the bytes read so far and the next slice make up the beginning of    *)
(* the file, and the caller is a follower again, also when a read fails. It    *)
(* gets further with every slice that could be read until the end of what is   *)
(* served, and is told of an end there only.                                  *)
THEOREM FollowerReadsTheFile ==
  ASSUME NEW log \in Seq(Byte), NEW more \in Seq(Byte),
         NEW truncatedAt \in Optional, NEW lands \in BOOLEAN, NEW n \in Nat,
         Following(log, truncatedAt, n),
         NEW req \in LogRequest, req.offsetBytes = {n}, NEW reads
  PROVE  LET answer == logs(log \o more, truncatedAt, lands, req, reads)
             next == answer.logs.nextOffsetBytes
             file == answer.file
         IN  /\ SubSeq(log, 1, n) \o answer.logs.chunk = SubSeq(file.log, 1, next)
             /\ Following(file.log, file.truncatedAt, next)
             /\ n = next => answer.logs.eof \/ "chunk" \notin reads
             /\ answer.logs.eof => next = Served(file.log, file.truncatedAt)
PROOF
<1> DEFINE file == checkLogCap(log \o more, truncatedAt, lands)
           slice == readJobLogs(file.log, file.truncatedAt, req, reads)
           answer == logs(log \o more, truncatedAt, lands, req, reads)
           next == slice.nextOffsetBytes
<1>1. answer.file = file /\ answer.logs = slice
  BY DEF logs
<1>2. /\ file.log \in Seq(Byte) /\ file.truncatedAt \in Optional
      /\ Following(file.log, file.truncatedAt, n)
      /\ SubSeq(file.log, 1, n) = SubSeq(log, 1, n)
  BY CapKeepsWhatWasServed
<1> HIDE DEF file
<1> DEFINE bytes == file.log
           cut == file.truncatedAt
           size == Served(bytes, cut)
<1>3. /\ bytes \in Seq(Byte) /\ cut \in Optional /\ n <= size
      /\ slice = readJobLogs(bytes, cut, req, reads)
  BY <1>2 DEF Following
<1> HIDE DEF slice, bytes, cut
<1>4. /\ next \in n .. size
      /\ slice.chunk = SubSeq(bytes, n + 1, next)
      /\ n < size /\ "chunk" \in reads => n < next
      /\ slice.eof <=> next = size
  <2> DEFINE answered == readJobLogs(bytes, cut, req, reads)
  <2>1. /\ answered.nextOffsetBytes \in n .. size
        /\ answered.chunk = SubSeq(bytes, n + 1, answered.nextOffsetBytes)
        /\ n < size /\ "chunk" \in reads => n < answered.nextOffsetBytes
        /\ answered.eof <=> answered.nextOffsetBytes = size
    <3>1. \A l \in Seq(Byte), c \in Optional :
            n <= Served(l, c) =>
              LET r == readJobLogs(l, c, req, reads)
              IN  /\ r.nextOffsetBytes \in n .. Served(l, c)
                  /\ r.chunk = SubSeq(l, n + 1, r.nextOffsetBytes)
                  /\ n < Served(l, c) /\ "chunk" \in reads => n < r.nextOffsetBytes
                  /\ r.eof <=> r.nextOffsetBytes = Served(l, c)
      BY SliceIsExact
    <3> QED BY <1>3, <3>1
  <2> HIDE DEF answered
  <2>2. slice = answered
    BY <1>3 DEF answered
  <2> QED BY <2>1, <2>2
<1>5. size \in Nat /\ size <= Len(bytes) /\ Len(bytes) \in Nat
  BY <1>3, ServedWithin, LenProperties
<1> HIDE DEF size, next
<1>6. SubSeq(bytes, 1, n) \o SubSeq(bytes, n + 1, next) = SubSeq(bytes, 1, next)
  <2>1. /\ n \in 1 - 1 .. Len(bytes) /\ next \in n .. Len(bytes)
        /\ 1 \in 1 .. Len(bytes) + 1
    BY <1>4, <1>5
  <2> QED BY <1>3, <2>1, ConcatAdjacentSubSeq
<1>7. Following(bytes, cut, next)
  BY <1>2, <1>4, <1>5 DEF Following, size, bytes, cut
<1>8. /\ n = next => slice.eof \/ "chunk" \notin reads
      /\ slice.eof => next = size
  BY <1>3, <1>4, <1>5
<1>9. SubSeq(log, 1, n) \o slice.chunk = SubSeq(bytes, 1, next)
  BY <1>2, <1>4, <1>6 DEF bytes
<1> HIDE DEF answer
<1> QED BY <1>1, <1>7, <1>8, <1>9 DEF answer, next, bytes, cut, size

-----------------------------------------------------------------------------
(* What the Windows launcher answers.                                        *)

\* What the command has to say on a stream, and what a pipe or a relay may hold.
Word(s) == IF s = Stderr THEN "marker" ELSE "own"
Said(s) == <<Word(s)>>
Clean(s) == {<< >>, Said(s)}
Chunk(s) == Clean(s) \cup {<<"late">>, <<Word(s), "late">>}
Noticed(s) == {<<"notice">>, <<Word(s), "notice">>}

Before == {"setup", "resumed", "started"}
InProgress == {"waiting", "settling", "reporting", "unsettled"}
ExitSent == {"releasing", "ending", "reaping"}
Live == InProgress \cup ExitSent

\* Where the command's words are: all delivered, all in the relay's hands, or all in
\* the pipe.
Flow(s) ==
  \/ delivered[s] = written[s] /\ Own(held[s]) = << >> /\ Own(pipe[s]) = << >>
  \/ delivered[s] = << >> /\ Own(held[s]) = written[s] /\ Own(pipe[s]) = << >>
  \/ delivered[s] = << >> /\ held[s] = << >> /\ Own(pipe[s]) = written[s]

\* Nothing of what the command wrote is missing without a reason the agent is told.
Complete(s) == capped[s] \/ held[s] # << >> \/ delivered[s] = written[s]

StreamTypeOK(s) ==
  /\ written[s] \in Clean(s) /\ pipe[s] \in Chunk(s) /\ held[s] \in Chunk(s)
  /\ delivered[s] \in Clean(s) \cup Noticed(s)
  /\ delivered[s] \in {<< >>, <<"notice">>} \/ written[s] # << >>
  /\ relay[s] \in {"gated", "look", "peek", "drain", "write", "discard", "gone"}
  /\ capped[s] \in BOOLEAN

\* A relay that still reads has lost nothing; one that has stopped has delivered all,
\* or knows that it has not.
RelayInv(s) ==
  /\ shell # "exited" => pipe[s] \in Clean(s) /\ held[s] \in Clean(s)
  /\ relay[s] = "write" <=> held[s] # << >>
  /\ relay[s] = "drain" => exited
  /\ relay[s] \in {"gated", "look", "peek", "drain", "write"} => ~capped[s] /\ Flow(s)
  /\ stage2 = "gone" => relay[s] = "gone" /\ pipe[s] = << >>
  /\ stage2 \in Before => relay[s] = "gated" /\ delivered[s] = << >>
  /\ stage2 \in Live => relay[s] # "gated"
  /\ stage2 \in Live /\ Stopped(s) =>
       /\ capped[s] \/ (delivered[s] = written[s] /\ shell = "exited")
       /\ shell = "exited" \/ written[s] # << >>
  /\ stage2 \in {"reporting", "releasing"} => Stopped(s)
  /\ stage2 \in Live /\ ~open => Stopped(s)
  /\ stage2 \in ExitSent \cup {"unsettled"} => Complete(s)
  /\ stage1 = "reading" => delivered[s] \in Clean(s)
  /\ delivered[s] \in {<< >>, <<"notice">>} \/ frame = <<"ready">>

\* The records arrive in order, and stage 1 has read the first before the second.
Announced == channel = <<"started">> \/ (channel = << >> /\ started)
Reported == channel = <<"started", "exit">> \/ channel = <<"exit">>

MainTypeOK ==
  /\ stage1 \in {"reading", "exited"} /\ stage2 \in Before \cup Live \cup {"gone"}
  /\ shell \in {"none", "running", "exited"}
  /\ channel \in {<< >>, <<"started">>, <<"started", "exit">>, <<"exit">>}
  /\ frame \in {<< >>, <<"ready">>, <<"error">>, <<"error", "error">>}
  /\ started \in BOOLEAN /\ exited \in BOOLEAN /\ open \in BOOLEAN
  /\ DOMAIN written = Stream /\ DOMAIN pipe = Stream /\ DOMAIN held = Stream
  /\ DOMAIN delivered = Stream /\ DOMAIN relay = Stream /\ DOMAIN capped = Stream

\* Stage 1 answers with the exit of the shell, with the loss of stage 2, or with an
\* error that precedes the command.
ExitAnswered ==
  /\ shell = "exited" /\ status = code /\ stage2 \in ExitSent \cup {"gone"}
  /\ \A s \in Stream : Complete(s) /\ delivered[s] \in Clean(s)
LossAnswered ==
  stage2 = "gone" /\ started /\ status = Unknown /\ delivered[Stderr] \in Noticed(Stderr)
ErrorAnswered == frame \in {<<"error">>, <<"error", "error">>} /\ stage2 = "gone"

MainInv ==
  /\ MainTypeOK
  /\ shell # "exited" => survivor = "none"
  /\ stage2 \in {"setup", "resumed"} => channel = << >> /\ ~started
  /\ stage2 = "setup" <=> shell = "none" /\ stage2 # "gone"
  /\ stage2 \in Before => frame = << >>
  /\ stage2 \in Live => frame = <<"ready">>
  /\ stage2 # "gone" /\ stage2 \notin ExitSent => stage1 = "reading"
  /\ stage2 \in InProgress \cup {"started"} => Announced
  /\ stage2 \in ExitSent => Reported \/ stage1 = "exited"
  /\ exited => shell = "exited" /\ stage2 \in Live \ {"waiting"}
  /\ stage2 \in Live \ {"waiting"} => exited
  /\ stage2 # "gone" /\ stage2 \notin {"ending", "reaping"} => open
  /\ stage1 = "reading" => frame # <<"error", "error">>
  /\ frame = <<"ready">> => started \/ channel = <<"started">> \/ channel = <<"started", "exit">>
  /\ Reported => shell = "exited" /\ \A s \in Stream : Complete(s)
  /\ stage1 = "exited" => channel = << >> /\ (ExitAnswered \/ LossAnswered \/ ErrorAnswered)

LauncherInv == MainInv /\ \A s \in Stream : StreamTypeOK(s) /\ RelayInv(s)

-----------------------------------------------------------------------------
(* What the model's short sequences are.                                     *)

\* Every word of the model.
Words == {"own", "marker", "late", "notice", "started", "exit", "error"}

LEMMA PairAppended == ASSUME NEW v \in Words, NEW w \in Words PROVE Append(<<v>>, w) = <<v, w>>
<1>1. /\ Append(<<v>>, w) \in Seq(Words) /\ Len(Append(<<v>>, w)) = 2
      /\ Append(<<v>>, w)[1] = v /\ Append(<<v>>, w)[2] = w
  OBVIOUS
<1>2. <<v, w>> \in Seq(Words) /\ Len(<<v, w>>) = 2 /\ <<v, w>>[1] = v /\ <<v, w>>[2] = w
  OBVIOUS
<1>3. \A i \in 1 .. Len(Append(<<v>>, w)) : Append(<<v>>, w)[i] = <<v, w>>[i]
  <2>1. \A i \in 1 .. 2 : i = 1 \/ i = 2
    OBVIOUS
  <2> QED BY <1>1, <1>2, <2>1
<1> QED BY <1>1, <1>2, <1>3, SeqEqual

LEMMA OwnOfChunk ==
  ASSUME NEW s
  PROVE  /\ Own(<< >>) = << >> /\ Own(Said(s)) = Said(s)
         /\ Own(<<"late">>) = << >> /\ Own(<<Word(s), "late">>) = Said(s)
<1>1. Word(s) \in {"own", "marker"} /\ Word(s) \in Words
  BY DEF Word, Words
<1>2. Own(<< >>) = << >> /\ Own(Said(s)) = Said(s) /\ Own(<<"late">>) = << >>
  BY <1>1 DEF Own, Said
<1>3. Own(<<Word(s), "late">>) = SubSeq(<<Word(s), "late">>, 1, 1)
  BY DEF Own
<1>4. /\ SubSeq(<<Word(s), "late">>, 1, 1) \in Seq(Words)
      /\ Len(SubSeq(<<Word(s), "late">>, 1, 1)) = 1
      /\ SubSeq(<<Word(s), "late">>, 1, 1)[1] = Word(s)
  <2>1. \A i \in 1 .. 1 : <<Word(s), "late">>[i] \in Words
    BY <1>1
  <2> QED BY <2>1, SubSeqProperties
<1>5. Said(s) \in Seq(Words) /\ Len(Said(s)) = 1 /\ Said(s)[1] = Word(s)
  BY <1>1 DEF Said
<1>6. SubSeq(<<Word(s), "late">>, 1, 1) = Said(s)
  BY <1>4, <1>5, SeqEqual
<1> QED BY <1>2, <1>3, <1>6

LEMMA Chunks ==
  ASSUME NEW s
  PROVE  /\ Said(s) # << >> /\ Append(<< >>, Word(s)) = Said(s)
         /\ Own(<< >>) = << >> /\ << >> \in Clean(s) /\ Said(s) \in Clean(s)
         /\ Clean(s) \subseteq Chunk(s)
         /\ \A c \in Chunk(s) : Own(c) \in Clean(s)
         /\ \A c \in Clean(s) : Own(c) = c /\ << >> \o c = c /\ c \o << >> = c
         /\ \A c \in Clean(s) : Append(c, "late") \in Chunk(s) /\ Own(Append(c, "late")) = c
         /\ \A c \in Chunk(s) : (\A i \in DOMAIN c : c[i] # "late") => c \in Clean(s)
<1>1. Word(s) \in Words /\ "late" \in Words
  BY DEF Word, Words
<1>2. Append(<< >>, "late") = <<"late">> /\ Append(Said(s), "late") = <<Word(s), "late">>
  BY <1>1, PairAppended DEF Said
<1>3. Said(s) # << >> /\ Append(<< >>, Word(s)) = Said(s)
  BY DEF Said
<1>4. << >> \in Clean(s) /\ Said(s) \in Clean(s) /\ Clean(s) \subseteq Chunk(s)
  BY DEF Clean, Chunk
<1>5. \A c \in Clean(s) : << >> \o c = c /\ c \o << >> = c
  BY <1>1 DEF Clean, Said
<1>6. \A c \in Chunk(s) : (\A i \in DOMAIN c : c[i] # "late") => c \in Clean(s)
  <2>1. 1 \in DOMAIN <<"late">> /\ <<"late">>[1] = "late"
    OBVIOUS
  <2>2. 2 \in DOMAIN <<Word(s), "late">> /\ <<Word(s), "late">>[2] = "late"
    OBVIOUS
  <2> QED BY <2>1, <2>2 DEF Chunk
<1>7. \A c \in Chunk(s) : Own(c) \in Clean(s)
  BY OwnOfChunk DEF Chunk, Clean
<1>8. \A c \in Clean(s) : Own(c) = c
  BY OwnOfChunk DEF Clean
<1>9. \A c \in Clean(s) : Append(c, "late") \in Chunk(s) /\ Own(Append(c, "late")) = c
  BY <1>2, OwnOfChunk DEF Clean, Chunk
<1> QED BY <1>3, <1>4, <1>5, <1>6, <1>7, <1>8, <1>9, OwnOfChunk

LEMMA Notices ==
  ASSUME NEW s
  PROVE  /\ \A d \in Clean(s) : Append(d, "notice") \in Noticed(s)
         /\ \A d \in Clean(s) : Append(d, "notice") = <<"notice">> \/ d # << >>
         /\ \A d \in Noticed(s) : \E i \in DOMAIN d : d[i] = "notice"
         /\ \A d \in Clean(s) : (\E i \in DOMAIN d : d[i] \in {"notice", "marker"}) => d = <<"marker">>
<1>1. Word(s) \in {"own", "marker"} /\ Word(s) \in Words /\ "notice" \in Words
  BY DEF Word, Words
<1>2. Append(<< >>, "notice") = <<"notice">> /\ Append(Said(s), "notice") = <<Word(s), "notice">>
  BY <1>1, PairAppended DEF Said
<1>3. \A d \in Noticed(s) : \E i \in DOMAIN d : d[i] = "notice"
  <2>1. 1 \in DOMAIN <<"notice">> /\ <<"notice">>[1] = "notice"
    OBVIOUS
  <2>2. 2 \in DOMAIN <<Word(s), "notice">> /\ <<Word(s), "notice">>[2] = "notice"
    OBVIOUS
  <2> QED BY <2>1, <2>2 DEF Noticed
<1>4. \A d \in Clean(s) : (\E i \in DOMAIN d : d[i] \in {"notice", "marker"}) => d = <<"marker">>
  BY <1>1 DEF Clean, Said
<1> QED BY <1>2, <1>3, <1>4 DEF Clean, Noticed

LEMMA Records ==
  /\ Append(<< >>, "started") = <<"started">> /\ Append(<<"started">>, "exit") = <<"started", "exit">>
  /\ Append(<< >>, "exit") = <<"exit">>
  /\ Head(<<"started">>) = "started" /\ Tail(<<"started">>) = << >>
  /\ Head(<<"started", "exit">>) = "started" /\ Tail(<<"started", "exit">>) = <<"exit">>
  /\ Head(<<"exit">>) = "exit" /\ Tail(<<"exit">>) = << >>
  /\ <<"started">> # << >> /\ <<"exit">> # << >> /\ <<"started", "exit">> # << >>
  /\ <<"started">> # <<"exit">> /\ <<"started">> # <<"started", "exit">> /\ <<"exit">> # <<"started", "exit">>
  /\ Append(<< >>, "ready") = <<"ready">> /\ Append(<< >>, "error") = <<"error">>
  /\ Append(<<"error">>, "error") = <<"error", "error">>
  /\ <<"ready">> # << >> /\ <<"error">> # << >> /\ <<"error", "error">> # << >>
  /\ <<"ready">> # <<"error">> /\ <<"ready">> # <<"error", "error">> /\ <<"error">> # <<"error", "error">>
  /\ <<"ready">>[1] = "ready" /\ <<"error">>[1] = "error" /\ <<"error", "error">>[1] = "error"
<1>1. Append(<<"started">>, "exit") = <<"started", "exit">>
      /\ Append(<<"error">>, "error") = <<"error", "error">>
  BY PairAppended DEF Words
<1>2. Tail(<<"started", "exit">>) = <<"exit">>
  OBVIOUS
<1> QED BY <1>1, <1>2

-----------------------------------------------------------------------------
(* The invariant of the launcher: its steps.                                 *)

LEMMA LauncherFacts ==
  ASSUME LauncherInv, NEW s \in Stream
  PROVE  MainInv /\ MainTypeOK /\ StreamTypeOK(s) /\ RelayInv(s)
BY DEF LauncherInv, MainInv

LEMMA LauncherInvInit == LauncherInit => LauncherInv
<1> SUFFICES ASSUME LauncherInit PROVE LauncherInv
  OBVIOUS
<1>1. MainInv
  BY Records DEF LauncherInit, MainInv, MainTypeOK, Before, Live, InProgress, ExitSent, Announced, Reported
<1>2. ASSUME NEW s \in Stream PROVE StreamTypeOK(s) /\ RelayInv(s)
  BY <1>2, Chunks DEF LauncherInit, StreamTypeOK, RelayInv, Before, Live, InProgress, ExitSent, Flow, Stopped
<1> QED BY <1>1, <1>2 DEF LauncherInv

\* With stage 2 goes all that was on its way, and what is missing is marked.
LEMMA EndsKeepsStream ==
  ASSUME LauncherInv, Ends, NEW s \in Stream, written' = written, delivered' = delivered,
         stage1' = stage1, frame' = frame \/ delivered[s] = << >>
  PROVE  StreamTypeOK(s)' /\ RelayInv(s)' /\ (Complete(s) => Complete(s)')
<1>1. /\ relay'[s] = "gone" /\ held'[s] = << >> /\ pipe'[s] = << >> /\ stage2' = "gone"
      /\ capped'[s] = (capped[s] \/ held[s] # << >>)
  BY DEF Ends
<1>2. StreamTypeOK(s)'
  BY <1>1, LauncherFacts, Chunks DEF StreamTypeOK
<1>3. Complete(s) => Complete(s)'
  BY <1>1 DEF Complete
<1>4. RelayInv(s)'
  BY <1>1, LauncherFacts, Chunks DEF RelayInv, Before, Live, InProgress, ExitSent
<1> QED BY <1>2, <1>3, <1>4

LEMMA EndsIsTyped ==
  ASSUME LauncherInv, Ends
  PROVE  /\ stage2' = "gone" /\ exited' = FALSE /\ open' = FALSE
         /\ DOMAIN pipe' = Stream /\ DOMAIN held' = Stream /\ DOMAIN relay' = Stream /\ DOMAIN capped' = Stream
BY DEF Ends

\* The end of stage 2 when nothing else happens.
LEMMA EndsKeeps ==
  ASSUME LauncherInv, Ends, UNCHANGED <<stageOne, channel, frame, command, delivered, agent>>, stage2 # "setup"
  PROVE  LauncherInv'
<1>1. ASSUME NEW s \in Stream PROVE StreamTypeOK(s)' /\ RelayInv(s)' /\ (Complete(s) => Complete(s)')
  BY <1>1, EndsKeepsStream DEF stageOne, command
<1>2. UNCHANGED <<stage1, status, started, channel, frame, shell, code, written, survivor, delivered>>
  BY DEF stageOne, command
<1>3. stage1 = "exited" /\ ExitAnswered => ExitAnswered'
  BY <1>1, <1>2, EndsIsTyped DEF ExitAnswered
<1>4. (LossAnswered => LossAnswered') /\ (ErrorAnswered => ErrorAnswered') /\ (Reported' <=> Reported)
  BY <1>2, EndsIsTyped DEF LossAnswered, ErrorAnswered, Reported
<1>5. MainTypeOK'
  BY <1>2, EndsIsTyped DEF LauncherInv, MainInv, MainTypeOK
<1>6. MainInv'
  BY <1>1, <1>2, <1>3, <1>4, <1>5, EndsIsTyped
     DEF LauncherInv, MainInv, Before, Live, InProgress, ExitSent
<1> QED BY <1>1, <1>6 DEF LauncherInv

LEMMA StageOneKeeps == ASSUME LauncherInv, StageOne PROVE LauncherInv'
<1>t. stage1 = "reading" /\ MainInv /\ MainTypeOK
  BY DEF StageOne, LauncherInv, MainInv
<1>u. UNCHANGED <<stage2, shell, code, written, survivor, exited, relay, held, pipe, capped, open>>
  BY DEF StageOne, command
<1>1. CASE channel # << >> /\ Head(channel) = "started"
  <2>1. /\ channel' = Tail(channel) /\ started' /\ UNCHANGED <<stage1, status, frame, delivered>>
        /\ started' \in BOOLEAN
    BY <1>1 DEF StageOne
  <2>2. \/ channel = <<"started">> /\ channel' = << >>
        \/ channel = <<"started", "exit">> /\ channel' = <<"exit">>
    BY <1>1, <1>t, <2>1, Records DEF MainTypeOK
  <2>3. MainTypeOK'
    BY <1>t, <1>u, <2>1, <2>2 DEF MainTypeOK
  <2>4. \A s \in Stream : StreamTypeOK(s)' /\ RelayInv(s)' /\ (Complete(s) => Complete(s)')
    BY <1>u, <2>1 DEF LauncherInv, StreamTypeOK, RelayInv, Complete, Flow, Stopped
  <2>5. MainInv'
    BY <1>t, <1>u, <2>1, <2>2, <2>3, <2>4, Records
       DEF MainInv, Announced, Reported, Before, Live, InProgress, ExitSent
  <2> QED BY <2>4, <2>5 DEF LauncherInv
<1>2. CASE channel # << >> /\ Head(channel) # "started"
  <2>1. /\ channel = <<"exit">> /\ channel' = << >> /\ stage1' = "exited" /\ status' = code
        /\ UNCHANGED <<started, frame, delivered>>
    BY <1>2, <1>t, Records DEF StageOne, MainTypeOK
  <2>2. shell = "exited" /\ stage2 \in ExitSent \cup {"gone"} /\ \A s \in Stream : Complete(s)
    BY <1>t, <2>1, Records
       DEF MainInv, MainTypeOK, Announced, Reported, Before, Live, InProgress, ExitSent
  <2>3. \A s \in Stream : StreamTypeOK(s)' /\ RelayInv(s)' /\ (Complete(s) => Complete(s)')
    BY <1>u, <2>1 DEF LauncherInv, StreamTypeOK, RelayInv, Complete, Flow, Stopped
  <2>4. \A s \in Stream : delivered[s] \in Clean(s)
    BY <1>t DEF LauncherInv, RelayInv
  <2>5. ExitAnswered'
    BY <1>u, <2>1, <2>2, <2>3, <2>4 DEF ExitAnswered
  <2>6. MainTypeOK'
    BY <1>t, <1>u, <2>1 DEF MainTypeOK
  <2>7. ~Reported'
    BY <2>1, Records DEF Reported
  <2>8. frame = <<"ready">> => started
    BY <1>t, <2>1, Records DEF MainInv
  <2>9. MainInv'
    BY <1>t, <1>u, <2>1, <2>2, <2>5, <2>6, <2>7, <2>8
       DEF MainInv, Before, Live, InProgress, ExitSent
  <2> QED BY <2>3, <2>9 DEF LauncherInv
<1>3. CASE channel = << >> /\ started
  <2>1. /\ stage1' = "exited" /\ stage2 = "gone" /\ status' = Unknown /\ UNCHANGED <<started, channel, frame>>
        /\ delivered' = [delivered EXCEPT ![Stderr] = Append(delivered[Stderr], "notice")]
    BY <1>3 DEF StageOne
  <2>2. \A s \in Stream : delivered[s] \in Clean(s)
    BY <1>t DEF LauncherInv, RelayInv
  <2>3. Stderr \in Stream
    BY LauncherAssumption
  <2>4. /\ delivered'[Stderr] \in Noticed(Stderr)
        /\ delivered'[Stderr] = <<"notice">> \/ delivered[Stderr] # << >>
        /\ \A s \in Stream \ {Stderr} : delivered'[s] = delivered[s]
        /\ DOMAIN delivered' = Stream
    BY <1>t, <2>1, <2>2, <2>3, Notices DEF MainTypeOK
  <2>5. ~Reported /\ ~Reported'
    BY <1>3, <2>1, Records DEF Reported
  <2>6. ASSUME NEW s \in Stream PROVE StreamTypeOK(s)' /\ RelayInv(s)'
    <3>1. relay[s] = "gone"
      BY <2>1, LauncherFacts DEF RelayInv
    <3>2. delivered[s] # << >> => frame = <<"ready">> /\ written[s] # << >>
      <4>1. delivered[s] # <<"notice">>
        <5>1. Word(s) \in {"own", "marker"}
          BY DEF Word
        <5> QED BY <2>2, <5>1 DEF Clean, Said
      <4> QED BY <4>1, LauncherFacts DEF RelayInv, StreamTypeOK
    <3>3. StreamTypeOK(s)'
      BY <1>u, <2>1, <2>4, <3>2, LauncherFacts DEF StreamTypeOK
    <3> QED BY <1>u, <2>1, <2>4, <3>1, <3>2, <3>3, LauncherFacts
            DEF RelayInv, Before, Live, InProgress, ExitSent
  <2>7. LossAnswered' /\ MainTypeOK'
    BY <1>3, <1>t, <1>u, <2>1, <2>4 DEF LossAnswered, MainTypeOK
  <2>8. MainInv'
    BY <1>3, <1>t, <1>u, <2>1, <2>5, <2>7 DEF MainInv, Before, Live, InProgress, ExitSent
  <2> QED BY <2>6, <2>8 DEF LauncherInv
<1>4. CASE channel = << >> /\ ~started
  <2>1. /\ stage1' = "exited" /\ stage2 = "gone" /\ frame' = Append(frame, "error")
        /\ UNCHANGED <<started, channel, delivered>>
    BY <1>4 DEF StageOne
  <2>2. frame' \in {<<"error">>, <<"error", "error">>} /\ frame # <<"ready">>
    BY <1>4, <1>t, <2>1, Records DEF MainInv, MainTypeOK
  <2>3. ~Reported'
    BY <1>4, <2>1, Records DEF Reported
  <2>4. ASSUME NEW s \in Stream PROVE StreamTypeOK(s)' /\ RelayInv(s)'
    <3>1. StreamTypeOK(s)'
      BY <1>u, <2>1, LauncherFacts DEF StreamTypeOK
    <3> QED BY <1>u, <2>1, <2>2, <3>1, LauncherFacts
            DEF RelayInv, Before, Live, InProgress, ExitSent, Stopped
  <2>5. ErrorAnswered' /\ MainTypeOK'
    BY <1>4, <1>t, <1>u, <2>1, <2>2 DEF ErrorAnswered, MainTypeOK
  <2>6. MainInv'
    BY <1>4, <1>t, <1>u, <2>1, <2>2, <2>3, <2>5, Records DEF MainInv, Before, Live, InProgress, ExitSent
  <2> QED BY <2>4, <2>6 DEF LauncherInv
<1> QED BY <1>1, <1>2, <1>3, <1>4, <1>t DEF MainTypeOK

\* What the main thread does while the relays run on.
LEMMA MainKeepsStreams ==
  ASSUME LauncherInv, UNCHANGED <<relays, pipe, written, shell, stage1>>,
         NEW s \in Stream,
         stage2 \in Live => stage2' \in Live,
         stage2 \notin Live => stage2 \in Before /\ stage2' \in Before,
         stage2' \in {"reporting", "releasing"} => Stopped(s),
         stage2' \in Live /\ ~open' => Stopped(s),
         stage2' \in ExitSent \cup {"unsettled"} => Complete(s),
         frame' = frame
  PROVE  StreamTypeOK(s)' /\ RelayInv(s)' /\ (Complete(s)' <=> Complete(s))
<1>1. UNCHANGED <<exited, capDue, relay, held, delivered, capped, pipe, written, shell, stage1>>
  BY DEF relays
<1>2. StreamTypeOK(s)' /\ (Complete(s)' <=> Complete(s)) /\ (Flow(s)' <=> Flow(s)) /\ (Stopped(s)' <=> Stopped(s))
  BY <1>1, LauncherFacts DEF StreamTypeOK, Complete, Flow, Stopped
<1> QED BY <1>1, <1>2, LauncherFacts DEF RelayInv, Before, Live, InProgress, ExitSent

LEMMA SetupKeeps == ASSUME LauncherInv, SetupFails \/ ResumeShell \/ ReportStarted PROVE LauncherInv'
<1>t. MainInv /\ MainTypeOK
  BY DEF LauncherInv, MainInv
<1>1. CASE SetupFails
  <2>1. /\ stage2 = "setup" /\ Ends /\ frame' = Append(frame, "error")
        /\ UNCHANGED <<stage1, status, started, channel, shell, code, written, survivor, delivered>>
    BY <1>1 DEF SetupFails, stageOne, command
  <2>2. stage1 = "reading" /\ frame' = <<"error">> /\ channel = << >> /\ shell = "none" /\ survivor = "none"
    BY <1>t, <2>1, Records DEF MainInv, Before, ExitSent
  <2>3. ASSUME NEW s \in Stream PROVE StreamTypeOK(s)' /\ RelayInv(s)'
    <3>1. delivered[s] = << >>
      BY <2>1, LauncherFacts DEF RelayInv, Before
    <3> QED BY <2>1, <3>1, EndsKeepsStream
  <2>4. MainTypeOK'
    BY <1>t, <2>1, <2>2, EndsIsTyped DEF MainTypeOK
  <2>5. MainInv'
    BY <2>1, <2>2, <2>4, EndsIsTyped, Records DEF MainInv, Before, Live, InProgress, ExitSent, Reported
  <2> QED BY <2>3, <2>5 DEF LauncherInv
<1>2. CASE ResumeShell
  <2>1. /\ stage2 = "setup" /\ stage2' = "resumed" /\ shell' = "running"
        /\ UNCHANGED <<stage1, status, started, channel, frame, code, written, survivor, exited, capDue,
                       relay, held, delivered, capped, pipe, open>>
    BY <1>2 DEF ResumeShell, Main, stageOne, relays
  <2>2. ASSUME NEW s \in Stream PROVE StreamTypeOK(s)' /\ RelayInv(s)'
    <3>1. relay[s] = "gated" /\ delivered[s] = << >> /\ held[s] = << >> /\ ~capped[s] /\ Flow(s)
      BY <2>1, LauncherFacts DEF RelayInv, Before
    <3>2. shell = "none" /\ pipe[s] \in Clean(s)
      <4>1. shell = "none"
        BY <1>t, <2>1 DEF MainInv
      <4> QED BY <4>1, LauncherFacts DEF RelayInv
    <3>3. StreamTypeOK(s)' /\ Flow(s)'
      BY <2>1, <3>1, LauncherFacts DEF StreamTypeOK, Flow
    <3> QED BY <2>1, <3>1, <3>2, <3>3, LauncherFacts, Chunks
            DEF RelayInv, Before, Live, InProgress, ExitSent, Stopped
  <2>3. MainTypeOK'
    BY <1>t, <2>1 DEF MainTypeOK, Before
  <2>4. MainInv'
    BY <1>t, <2>1, <2>3, Records DEF MainInv, Before, Live, InProgress, ExitSent, Reported
  <2> QED BY <2>2, <2>4 DEF LauncherInv
<1>3. CASE ReportStarted
  <2>1. /\ stage2 = "resumed" /\ stage2' = "started" /\ channel' = Append(channel, "started")
        /\ UNCHANGED <<relays, stage1, status, started, frame, shell, code, written, survivor, exited, pipe, open>>
    BY <1>3 DEF ReportStarted, Main, stageOne, command, relays
  <2>2. channel' = <<"started">> /\ stage1 = "reading" /\ ~started /\ frame = << >>
    BY <1>t, <2>1, Records DEF MainInv, Before, ExitSent
  <2>3. ASSUME NEW s \in Stream PROVE StreamTypeOK(s)' /\ RelayInv(s)'
    BY <2>1, MainKeepsStreams DEF Before, Live, InProgress, ExitSent
  <2>4. MainTypeOK'
    BY <1>t, <2>1, <2>2 DEF MainTypeOK, Before, relays
  <2>5. MainInv'
    BY <1>t, <2>1, <2>2, <2>4, Records
       DEF MainInv, Before, Live, InProgress, ExitSent, Reported, Announced
  <2> QED BY <2>3, <2>5 DEF LauncherInv
<1> QED BY <1>1, <1>2, <1>3

LEMMA ReadyKeeps == ASSUME LauncherInv, Ready PROVE LauncherInv'
<1>t. MainInv /\ MainTypeOK
  BY DEF LauncherInv, MainInv
<1>u. /\ stage2 = "started"
      /\ UNCHANGED <<stage1, status, started, channel, code, written, survivor, delivered>>
  BY DEF Ready, stageOne
<1>v. stage1 = "reading" /\ Announced /\ frame = << >> /\ shell \in {"running", "exited"} /\ open /\ ~exited
  BY <1>t, <1>u DEF MainInv, MainTypeOK, Before, Live, InProgress, ExitSent
<1>w. \A s \in Stream : delivered[s] = << >> /\ relay[s] = "gated"
  BY <1>u, LauncherFacts DEF RelayInv, Before
<1>1. CASE agent # "gone" /\ stage2' = "waiting"
  <2>1. /\ frame' = Append(frame, "ready") /\ relay' = [s \in Stream |-> "look"]
        /\ UNCHANGED <<shell, exited, held, pipe, capped, open>>
    BY <1>1 DEF Ready, Ends
  <2>2. frame' = <<"ready">>
    BY <1>v, <2>1, Records
  <2>3. ASSUME NEW s \in Stream PROVE StreamTypeOK(s)' /\ RelayInv(s)'
    <3>1. ~capped[s] /\ Flow(s) /\ held[s] = << >> /\ relay'[s] = "look"
      BY <1>w, <2>1, LauncherFacts DEF RelayInv
    <3>2. StreamTypeOK(s)' /\ Flow(s)'
      BY <1>u, <2>1, <3>1, LauncherFacts DEF StreamTypeOK, Flow
    <3> QED BY <1>u, <1>v, <1>1, <2>1, <2>2, <3>1, <3>2, LauncherFacts
            DEF RelayInv, Before, Live, InProgress, ExitSent, Stopped
  <2>4. MainTypeOK'
    BY <1>t, <1>u, <1>1, <2>1, <2>2 DEF MainTypeOK, Live, InProgress
  <2>5. MainInv'
    BY <1>t, <1>u, <1>v, <1>1, <2>1, <2>2, <2>4, Records
       DEF MainInv, Before, Live, InProgress, ExitSent, Reported, Announced
  <2> QED BY <2>3, <2>5 DEF LauncherInv
<1>2. CASE Ends /\ shell' = "exited" /\ frame' = frame
  <2>1. ASSUME NEW s \in Stream PROVE StreamTypeOK(s)' /\ RelayInv(s)'
    BY <1>u, <1>2, EndsKeepsStream
  <2>2. MainTypeOK'
    BY <1>t, <1>u, <1>2, EndsIsTyped DEF MainTypeOK
  <2>3. ~Reported'
    BY <1>u, <1>v, Records DEF Reported, Announced
  <2>4. MainInv'
    BY <1>t, <1>u, <1>v, <1>2, <2>2, <2>3, EndsIsTyped, Records
       DEF MainInv, Before, Live, InProgress, ExitSent
  <2> QED BY <2>1, <2>4 DEF LauncherInv
<1> QED BY <1>1, <1>2 DEF Ready

LEMMA SettlingKeeps ==
  ASSUME LauncherInv, ShellEnded \/ RelaysSettled \/ ReportExit \/ Release PROVE LauncherInv'
<1>t. MainInv /\ MainTypeOK
  BY DEF LauncherInv, MainInv
<1>1. CASE ShellEnded
  <2>1. /\ stage2 = "waiting" /\ stage2' = "settling" /\ shell = "exited" /\ exited' = TRUE
        /\ UNCHANGED <<stage1, status, started, channel, frame, shell, code, written, survivor,
                       relay, held, delivered, capped, pipe, open>>
    BY <1>1 DEF ShellEnded, Main, stageOne, command
  <2>2. ASSUME NEW s \in Stream PROVE StreamTypeOK(s)' /\ RelayInv(s)'
    <3>1. StreamTypeOK(s)' /\ (Flow(s)' <=> Flow(s)) /\ (Stopped(s)' <=> Stopped(s))
      BY <2>1, LauncherFacts DEF StreamTypeOK, Flow, Stopped
    <3> QED BY <2>1, <3>1, LauncherFacts DEF RelayInv, Before, Live, InProgress, ExitSent
  <2>3. MainTypeOK'
    BY <1>t, <2>1 DEF MainTypeOK, Live, InProgress
  <2>4. ~Reported /\ ~Reported'
    BY <1>t, <2>1, Records DEF MainInv, InProgress, Reported, Announced
  <2>5. MainInv'
    BY <1>t, <2>1, <2>3, <2>4 DEF MainInv, Before, Live, InProgress, ExitSent, Announced
  <2> QED BY <2>2, <2>5 DEF LauncherInv
<1>2. CASE RelaysSettled
  <2>1. /\ stage2 = "settling" /\ stage2' \in {"reporting", "unsettled"}
        /\ UNCHANGED <<relays, stage1, status, started, channel, frame, shell, code, written, survivor,
                       exited, relay, held, delivered, capped, pipe, open>>
    BY <1>2 DEF RelaysSettled, stageOne, command, relays
  <2>2. ASSUME NEW s \in Stream PROVE StreamTypeOK(s)' /\ RelayInv(s)'
    <3>1. stage2' = "reporting" => Stopped(s)
      BY <1>2 DEF RelaysSettled
    <3>2. Complete(s)
      <4>1. Stopped(s) \/ relay[s] = "write"
        BY <1>2 DEF RelaysSettled
      <4> QED BY <2>1, <4>1, LauncherFacts DEF RelayInv, Complete, Live, InProgress
    <3>3. open
      BY <1>t, <2>1 DEF MainInv
    <3> QED BY <2>1, <3>1, <3>2, <3>3, MainKeepsStreams DEF Before, Live, InProgress, ExitSent
  <2>3. MainTypeOK'
    BY <1>t, <2>1 DEF MainTypeOK, Live, InProgress
  <2>4. ~Reported /\ ~Reported'
    BY <1>t, <2>1, Records DEF MainInv, InProgress, Reported, Announced
  <2>5. MainInv'
    BY <1>t, <2>1, <2>3, <2>4 DEF MainInv, Before, Live, InProgress, ExitSent, Announced
  <2> QED BY <2>2, <2>5 DEF LauncherInv
<1>3. CASE ReportExit
  <2>1. /\ stage2 \in {"reporting", "unsettled"} /\ stage2' \in {"releasing", "ending"}
        /\ stage2' = "releasing" => stage2 = "reporting"
        /\ channel' = Append(channel, "exit")
        /\ UNCHANGED <<relays, stage1, status, started, frame, shell, code, written, survivor,
                       exited, relay, held, delivered, capped, pipe, open>>
    BY <1>3 DEF ReportExit, stageOne, command, relays
  <2>2. stage1 = "reading" /\ shell = "exited" /\ frame = <<"ready">> /\ open /\ exited
    BY <1>t, <2>1 DEF MainInv, Live, InProgress, ExitSent
  <2>3. channel' = <<"started", "exit">> \/ (channel' = <<"exit">> /\ started)
    BY <1>t, <2>1, Records DEF MainInv, InProgress, Announced
  <2>4. ASSUME NEW s \in Stream PROVE StreamTypeOK(s)' /\ RelayInv(s)' /\ Complete(s)'
    <3>1. stage2 = "reporting" => Stopped(s)
      BY LauncherFacts DEF RelayInv
    <3>2. Complete(s)
      BY <2>1, <3>1, LauncherFacts DEF RelayInv, Complete, Live, InProgress
    <3> QED BY <2>1, <2>2, <3>1, <3>2, MainKeepsStreams DEF Before, Live, InProgress, ExitSent
  <2>5. MainTypeOK'
    BY <1>t, <2>1, <2>3 DEF MainTypeOK, Live, ExitSent
  <2>6. MainInv'
    BY <1>t, <2>1, <2>2, <2>3, <2>4, <2>5, Records
       DEF MainInv, Before, Live, InProgress, ExitSent, Reported
  <2> QED BY <2>4, <2>6 DEF LauncherInv
<1>4. CASE Release
  <2>1. /\ stage2 = "releasing" /\ stage2' = "ending" /\ open' = FALSE
        /\ UNCHANGED <<relays, stage1, status, started, channel, frame, shell, code, written, survivor,
                       exited, relay, held, delivered, capped, pipe>>
    BY <1>4 DEF Release, Main, stageOne, command, relays
  <2>2. ASSUME NEW s \in Stream PROVE StreamTypeOK(s)' /\ RelayInv(s)' /\ (Complete(s)' <=> Complete(s))
    <3>1. Stopped(s) /\ Complete(s)
      BY <2>1, LauncherFacts DEF RelayInv, ExitSent
    <3> QED BY <2>1, <3>1, MainKeepsStreams DEF Before, Live, InProgress, ExitSent
  <2>3. MainTypeOK'
    BY <1>t, <2>1 DEF MainTypeOK, Live, ExitSent
  <2>4. (ExitAnswered => ExitAnswered') /\ (Reported' <=> Reported) /\ ~LossAnswered /\ ~ErrorAnswered
    BY <2>1, <2>2 DEF ExitAnswered, LossAnswered, ErrorAnswered, ExitSent, Reported
  <2>5. MainInv'
    BY <1>t, <2>1, <2>2, <2>3, <2>4 DEF MainInv, Before, Live, InProgress, ExitSent
  <2> QED BY <2>2, <2>5 DEF LauncherInv
<1> QED BY <1>1, <1>2, <1>3, <1>4

LEMMA ReapKeeps == ASSUME LauncherInv, Reap \/ ReapingEnds \/ Vanishes PROVE LauncherInv'
<1>t. MainInv /\ MainTypeOK
  BY DEF LauncherInv, MainInv
<1>1. CASE stage2 = "ending" /\ stage2' = "reaping"
           /\ UNCHANGED <<relays, pipe, open, stageOne, channel, frame, command, delivered, agent>>
  <2>1. UNCHANGED <<relays, stage1, status, started, channel, frame, shell, code, written, survivor,
                    exited, relay, held, delivered, capped, pipe, open>>
    BY <1>1 DEF stageOne, command, relays
  <2>2. ASSUME NEW s \in Stream PROVE StreamTypeOK(s)' /\ RelayInv(s)' /\ (Complete(s)' <=> Complete(s))
    <3>1. (~open => Stopped(s)) /\ Complete(s)
      BY <1>1, LauncherFacts DEF RelayInv, ExitSent, Live
    <3> QED BY <1>1, <2>1, <3>1, MainKeepsStreams DEF Before, Live, InProgress, ExitSent
  <2>3. MainTypeOK'
    BY <1>t, <1>1, <2>1 DEF MainTypeOK, Live, ExitSent
  <2>4. (ExitAnswered => ExitAnswered') /\ (Reported' <=> Reported) /\ ~LossAnswered /\ ~ErrorAnswered
    BY <1>1, <2>1, <2>2 DEF ExitAnswered, LossAnswered, ErrorAnswered, ExitSent, Reported
  <2>5. MainInv'
    BY <1>t, <1>1, <2>1, <2>2, <2>3, <2>4 DEF MainInv, Before, Live, InProgress, ExitSent
  <2> QED BY <2>2, <2>5 DEF LauncherInv
<1>2. CASE stage2 \notin {"setup", "gone"} /\ Ends
           /\ UNCHANGED <<stageOne, channel, frame, command, delivered, agent>>
  BY <1>2, EndsKeeps
<1>3. CASE stage2 = "setup" /\ Vanishes
  <2>1. /\ Ends /\ UNCHANGED <<stage1, status, started, channel, frame, shell, code, written, survivor, delivered>>
    BY <1>3 DEF Vanishes, stageOne, command
  <2>2. ASSUME NEW s \in Stream PROVE StreamTypeOK(s)' /\ RelayInv(s)'
    BY <2>1, EndsKeepsStream
  <2>3. MainTypeOK'
    BY <1>t, <2>1, EndsIsTyped DEF MainTypeOK
  <2>4. stage1 = "reading" /\ channel = << >> /\ frame = << >> /\ shell = "none"
    BY <1>t, <1>3 DEF MainInv, Before, ExitSent
  <2>5. MainInv'
    BY <1>t, <2>1, <2>3, <2>4, EndsIsTyped, Records
       DEF MainInv, Before, Live, InProgress, ExitSent, Reported
  <2> QED BY <2>2, <2>5 DEF LauncherInv
<1> QED BY <1>1, <1>2, <1>3 DEF Reap, ReapingEnds, Vanishes

\* What a relay, the command or the survivor does to one stream.
OnlyAt(s) ==
  \A u \in Stream \ {s} :
    UNCHANGED <<relay[u], held[u], pipe[u], written[u], delivered[u], capped[u]>>
SameDomains ==
  /\ DOMAIN relay' = Stream /\ DOMAIN held' = Stream /\ DOMAIN pipe' = Stream
  /\ DOMAIN written' = Stream /\ DOMAIN delivered' = Stream /\ DOMAIN capped' = Stream

LEMMA StreamStep ==
  ASSUME LauncherInv, NEW s \in Stream, OnlyAt(s), SameDomains,
         UNCHANGED <<stageOne, stage2, channel, frame, shell, code, survivor, exited, open>>,
         StreamTypeOK(s)', RelayInv(s)',
         shell = "exited" /\ Complete(s) => Complete(s)',
         delivered'[s] = delivered[s] \/ (stage2 # "gone" /\ delivered'[s] \in Clean(s))
  PROVE  LauncherInv'
<1>1. UNCHANGED <<stage1, status, started, stage2, channel, frame, shell, code, survivor, exited, open>>
  BY DEF stageOne
<1>2. ASSUME NEW u \in Stream, u # s
      PROVE  StreamTypeOK(u)' /\ RelayInv(u)' /\ (Complete(u)' <=> Complete(u)) /\ delivered'[u] = delivered[u]
  <2>1. UNCHANGED <<relay[u], held[u], pipe[u], written[u], delivered[u], capped[u]>>
    BY <1>2 DEF OnlyAt
  <2>2. StreamTypeOK(u)' /\ (Complete(u)' <=> Complete(u)) /\ (Flow(u)' <=> Flow(u)) /\ (Stopped(u)' <=> Stopped(u))
    BY <2>1, LauncherFacts DEF StreamTypeOK, Complete, Flow, Stopped
  <2> QED BY <1>1, <2>1, <2>2, LauncherFacts DEF RelayInv
<1>3. MainTypeOK'
  BY <1>1 DEF SameDomains, LauncherInv, MainInv, MainTypeOK
<1>4. ExitAnswered => ExitAnswered'
  BY <1>1, <1>2 DEF ExitAnswered
<1>5. Stderr \in Stream
  BY LauncherAssumption
<1>6. LossAnswered => LossAnswered'
  BY <1>1, <1>2, <1>5 DEF LossAnswered
<1>7. (ErrorAnswered => ErrorAnswered') /\ (Reported' <=> Reported) /\ (Announced' <=> Announced)
  BY <1>1 DEF ErrorAnswered, Reported, Announced
<1>8. Reported /\ shell = "exited" => \A u \in Stream : Complete(u) => Complete(u)'
  BY <1>2
<1>9. MainInv'
  BY <1>1, <1>3, <1>4, <1>6, <1>7, <1>8 DEF LauncherInv, MainInv
<1> QED BY <1>2, <1>9 DEF LauncherInv

LEMMA LookKeeps == ASSUME LauncherInv, NEW s \in Stream, Look(s) PROVE LauncherInv'
<1>t. MainInv /\ MainTypeOK /\ StreamTypeOK(s) /\ RelayInv(s)
  BY LauncherFacts
<1>1. /\ stage2 # "gone" /\ relay[s] = "look"
      /\ relay' = [relay EXCEPT ![s] = IF ~exited THEN "peek" ELSE IF capDue THEN "discard" ELSE "drain"]
      /\ capped' = [capped EXCEPT ![s] = capped[s] \/ (exited /\ capDue)]
      /\ UNCHANGED <<stageOne, stage2, channel, frame, shell, code, written, survivor, exited, held,
                     pipe, delivered, open>>
  BY DEF Look, At, Move, command
<1>2. stage1' = stage1
  BY <1>1 DEF stageOne
<1>3. OnlyAt(s) /\ SameDomains
  BY <1>t, <1>1 DEF OnlyAt, SameDomains, MainTypeOK
<1>4. ~capped[s] /\ Flow(s) /\ held[s] = << >> /\ stage2 \in Live /\ ~Stopped(s)
  BY <1>t, <1>1 DEF RelayInv, MainTypeOK, Before, Stopped
<1>5. \/ relay'[s] = "peek" /\ ~exited /\ capped'[s] = FALSE
      \/ relay'[s] = "drain" /\ exited /\ capped'[s] = FALSE
      \/ relay'[s] = "discard" /\ exited /\ capped'[s] = TRUE
  BY <1>t, <1>1, <1>4 DEF MainTypeOK
<1>6. StreamTypeOK(s)' /\ (Flow(s)' <=> Flow(s)) /\ (Complete(s) => Complete(s)')
  <2>1. StreamTypeOK(s)'
    BY <1>t, <1>1, <1>5 DEF StreamTypeOK
  <2>2. Flow(s)' <=> Flow(s)
    BY <1>1 DEF Flow, Own
  <2>3. Complete(s) => Complete(s)'
    BY <1>1, <1>4, <1>5 DEF Complete
  <2> QED BY <2>1, <2>2, <2>3
<1>7. exited => shell = "exited"
  BY <1>t DEF MainInv
<1>8. RelayInv(s)'
  BY <1>t, <1>1, <1>2, <1>4, <1>5, <1>6, <1>7
     DEF RelayInv, Stopped, Before, Live, InProgress, ExitSent
<1> QED BY <1>1, <1>3, <1>6, <1>8, StreamStep

LEMMA PeekKeeps == ASSUME LauncherInv, NEW s \in Stream, Peek(s) PROVE LauncherInv'
<1>t. MainInv /\ MainTypeOK /\ StreamTypeOK(s) /\ RelayInv(s)
  BY LauncherFacts
<1>1. /\ stage2 # "gone" /\ relay[s] \in {"peek", "drain"}
      /\ UNCHANGED <<stageOne, stage2, channel, frame, shell, code, written, survivor, exited,
                     delivered, capped, open>>
  BY DEF Peek, At, command
<1>2. stage1' = stage1
  BY <1>1 DEF stageOne
<1>3. ~capped[s] /\ Flow(s) /\ held[s] = << >> /\ stage2 \in Live /\ ~Stopped(s)
  BY <1>t, <1>1 DEF RelayInv, MainTypeOK, Before, Stopped
<1>4. CASE /\ pipe[s] # << >>
           /\ held' = [held EXCEPT ![s] = pipe[s]] /\ pipe' = [pipe EXCEPT ![s] = << >>] /\ Move(s, "write")
  <2>1. OnlyAt(s) /\ SameDomains /\ held'[s] = pipe[s] /\ pipe'[s] = << >> /\ relay'[s] = "write"
    BY <1>t, <1>1, <1>4 DEF OnlyAt, SameDomains, MainTypeOK, Move
  <2>2. StreamTypeOK(s)' /\ Complete(s)'
    BY <1>t, <1>1, <1>4, <2>1, Chunks DEF StreamTypeOK, Complete
  <2>3. Flow(s)'
    BY <1>1, <1>3, <2>1, Chunks DEF Flow
  <2>4. RelayInv(s)'
    BY <1>t, <1>1, <1>2, <1>3, <1>4, <2>1, <2>2, <2>3, Chunks
       DEF RelayInv, Stopped, Before, Live, InProgress, ExitSent
  <2> QED BY <1>1, <2>1, <2>2, <2>4, StreamStep
<1>5. CASE /\ pipe[s] = << >> /\ UNCHANGED <<held, pipe>>
           /\ \/ ~HasWriter /\ Move(s, "gone")
              \/ HasWriter /\ Move(s, "look")
              \/ HasWriter /\ relay[s] = "drain" /\ Move(s, "discard")
  <2>1. OnlyAt(s) /\ SameDomains
    BY <1>t, <1>1, <1>5 DEF OnlyAt, SameDomains, MainTypeOK, Move
  <2>2. \/ relay'[s] = "gone" /\ shell # "running"
        \/ relay'[s] = "look"
        \/ relay'[s] = "discard" /\ exited
    BY <1>t, <1>5 DEF Move, HasWriter, MainTypeOK, RelayInv
  <2>3. delivered[s] = written[s]
    BY <1>3, <1>5, Chunks DEF Flow
  <2>4. relay'[s] \in {"gone", "discard"} => shell = "exited"
    BY <1>t, <1>3, <2>2 DEF MainInv, MainTypeOK, Before, Live, InProgress, ExitSent
  <2>5. StreamTypeOK(s)' /\ (Flow(s)' <=> Flow(s)) /\ (Complete(s) => Complete(s)')
    BY <1>t, <1>1, <1>5, <2>2 DEF StreamTypeOK, Flow, Complete
  <2>6. RelayInv(s)'
    BY <1>t, <1>1, <1>2, <1>3, <1>5, <2>2, <2>3, <2>4, <2>5
       DEF RelayInv, Stopped, Before, Live, InProgress, ExitSent
  <2> QED BY <1>1, <2>1, <2>5, <2>6, StreamStep
<1> QED BY <1>4, <1>5 DEF Peek

LEMMA WriteKeeps == ASSUME LauncherInv, NEW s \in Stream, Write(s) PROVE LauncherInv'
<1>t. MainInv /\ MainTypeOK /\ StreamTypeOK(s) /\ RelayInv(s)
  BY LauncherFacts
<1>1. /\ stage2 # "gone" /\ relay[s] = "write" /\ held' = [held EXCEPT ![s] = << >>]
      /\ UNCHANGED <<stageOne, stage2, channel, frame, shell, code, written, survivor, exited, pipe, open>>
  BY DEF Write, At, command
<1>2. stage1' = stage1
  BY <1>1 DEF stageOne
<1>3. ~capped[s] /\ Flow(s) /\ held[s] # << >> /\ stage2 \in Live /\ ~Stopped(s) /\ open
  BY <1>t, <1>1 DEF RelayInv, MainTypeOK, Before, Stopped
<1>4. Own(pipe[s]) = << >> /\ frame = <<"ready">> /\ Own(held[s]) \in Clean(s)
  BY <1>t, <1>3, Chunks DEF Flow, MainInv, StreamTypeOK
<1>5. CASE /\ Move(s, "look") /\ UNCHANGED capped
           /\ delivered' = [delivered EXCEPT ![s] = delivered[s] \o Own(held[s])]
  <2>1. /\ OnlyAt(s) /\ SameDomains /\ held'[s] = << >> /\ relay'[s] = "look"
        /\ delivered'[s] = delivered[s] \o Own(held[s])
    BY <1>t, <1>1, <1>5 DEF OnlyAt, SameDomains, MainTypeOK, Move
  <2>2. delivered'[s] = written[s]
    BY <1>t, <1>3, <1>4, <2>1, Chunks DEF Flow, StreamTypeOK
  <2>3. StreamTypeOK(s)' /\ Complete(s)' /\ Flow(s)'
    BY <1>t, <1>1, <1>4, <1>5, <2>1, <2>2, Chunks DEF StreamTypeOK, Complete, Flow
  <2>4. RelayInv(s)'
    BY <1>t, <1>1, <1>2, <1>3, <1>4, <1>5, <2>1, <2>2, <2>3, Chunks
       DEF RelayInv, Stopped, Before, Live, InProgress, ExitSent, StreamTypeOK
  <2>5. delivered'[s] \in Clean(s)
    BY <1>t, <2>2 DEF StreamTypeOK
  <2> QED BY <1>1, <2>1, <2>3, <2>4, <2>5, StreamStep
<1>6. CASE Move(s, "discard") /\ capped' = [capped EXCEPT ![s] = TRUE] /\ UNCHANGED delivered
  <2>1. OnlyAt(s) /\ SameDomains /\ held'[s] = << >> /\ relay'[s] = "discard" /\ capped'[s] = TRUE
    BY <1>t, <1>1, <1>6 DEF OnlyAt, SameDomains, MainTypeOK, Move
  <2>2. StreamTypeOK(s)' /\ Complete(s)'
    <3>1. << >> \in Chunk(s)
      BY Chunks
    <3> QED BY <1>t, <1>1, <1>6, <2>1, <3>1 DEF StreamTypeOK, Complete
  <2>3. shell = "exited" \/ written[s] # << >>
    BY <1>t, <1>3, Chunks DEF RelayInv, Flow
  <2>4. RelayInv(s)'
    BY <1>t, <1>1, <1>2, <1>3, <1>6, <2>1, <2>2, <2>3, Chunks
       DEF RelayInv, Stopped, Before, Live, InProgress, ExitSent
  <2> QED BY <1>1, <1>6, <2>1, <2>2, <2>4, StreamStep
<1> QED BY <1>5, <1>6 DEF Write

LEMMA DiscardKeeps == ASSUME LauncherInv, NEW s \in Stream, Discard(s) PROVE LauncherInv'
<1>t. MainInv /\ MainTypeOK /\ StreamTypeOK(s) /\ RelayInv(s)
  BY LauncherFacts
<1>1. /\ stage2 # "gone" /\ relay[s] = "discard"
      /\ UNCHANGED <<stageOne, stage2, channel, frame, shell, code, written, survivor, exited, held,
                     delivered, capped, open>>
  BY DEF Discard, At, command
<1>2. stage1' = stage1
  BY <1>1 DEF stageOne
<1>3. /\ OnlyAt(s) /\ SameDomains /\ pipe'[s] \in {pipe[s], << >>} /\ relay'[s] \in {"discard", "gone"}
  BY <1>t, <1>1 DEF Discard, OnlyAt, SameDomains, MainTypeOK, Move
<1>4. held[s] = << >> /\ stage2 \in Live /\ Stopped(s)
  BY <1>t, <1>1 DEF RelayInv, MainTypeOK, Before, Stopped
<1>5. StreamTypeOK(s)' /\ (Complete(s) => Complete(s)')
  BY <1>t, <1>1, <1>3, Chunks DEF StreamTypeOK, Complete
<1>6. RelayInv(s)'
  BY <1>t, <1>1, <1>2, <1>3, <1>4, <1>5, Chunks DEF RelayInv, Stopped, Before, Live, InProgress, ExitSent
<1> QED BY <1>1, <1>3, <1>5, <1>6, StreamStep

LEMMA CommandWritesKeeps == ASSUME LauncherInv, NEW s \in Stream, CommandWrites(s) PROVE LauncherInv'
<1>t. MainInv /\ MainTypeOK /\ StreamTypeOK(s) /\ RelayInv(s)
  BY LauncherFacts
<1>1. /\ shell = "running" /\ written[s] = << >>
      /\ written' = [written EXCEPT ![s] = Append(written[s], Word(s))]
      /\ pipe' = [pipe EXCEPT ![s] = IF stage2 = "gone" THEN pipe[s] ELSE Append(pipe[s], Word(s))]
      /\ UNCHANGED <<relays, stageOne, stage2, channel, frame, shell, code, survivor, exited, relay, held,
                     delivered, capped, open>>
  BY DEF CommandWrites, relays, Word
<1>2. stage1' = stage1
  BY <1>1 DEF stageOne
<1>3. /\ OnlyAt(s) /\ SameDomains /\ written'[s] = Said(s)
      /\ stage2 = "gone" => pipe'[s] = pipe[s]
      /\ stage2 # "gone" => pipe'[s] = Append(pipe[s], Word(s))
  BY <1>t, <1>1, Chunks DEF OnlyAt, SameDomains, MainTypeOK
<1>4. relay[s] \notin {"discard", "gone"} =>
        /\ pipe[s] = << >> /\ held[s] = << >> /\ delivered[s] = << >>
  <2>1. pipe[s] \in Clean(s) /\ held[s] \in Clean(s)
    BY <1>t, <1>1 DEF RelayInv
  <2> QED BY <1>t, <1>1, <2>1, Chunks DEF RelayInv, Flow, StreamTypeOK
<1>5. CASE stage2 = "gone"
  <2>1. StreamTypeOK(s)'
    BY <1>t, <1>1, <1>3, <1>5, Chunks DEF StreamTypeOK
  <2>2. RelayInv(s)'
    BY <1>t, <1>1, <1>2, <1>3, <1>5, <2>1, Chunks DEF RelayInv, Stopped, Before, Live, InProgress, ExitSent
  <2> QED BY <1>1, <1>3, <2>1, <2>2, StreamStep
<1>6. CASE stage2 # "gone" /\ relay[s] \notin {"discard", "gone"}
  <2>1. pipe'[s] = Said(s)
    BY <1>3, <1>4, <1>6, Chunks
  <2>2. StreamTypeOK(s)' /\ Flow(s)'
    BY <1>t, <1>1, <1>3, <1>4, <1>6, <2>1, Chunks DEF StreamTypeOK, Flow
  <2>3. stage2 \notin ExitSent \cup {"unsettled", "reporting", "releasing"}
    BY <1>t, <1>1 DEF MainInv, Live, InProgress, ExitSent
  <2>4. RelayInv(s)'
    BY <1>t, <1>1, <1>2, <1>3, <1>4, <1>6, <2>1, <2>2, <2>3, Chunks
       DEF RelayInv, Stopped, Before, Live, InProgress, ExitSent
  <2> QED BY <1>1, <1>3, <2>2, <2>4, StreamStep
<1>7. CASE stage2 # "gone" /\ relay[s] \in {"discard", "gone"}
  <2>1. written[s] # << >>
    BY <1>t, <1>1, <1>7 DEF RelayInv, Stopped, MainTypeOK, Before
  <2> QED BY <1>1, <2>1
<1> QED BY <1>5, <1>6, <1>7

LEMMA SurvivesKeeps == ASSUME LauncherInv, NEW s \in Stream, Survives(s) PROVE LauncherInv'
<1>t. MainInv /\ MainTypeOK /\ StreamTypeOK(s) /\ RelayInv(s)
  BY LauncherFacts
<1>1. /\ survivor = "alive" /\ shell = "exited"
      /\ UNCHANGED <<stage1, status, started, stage2, channel, frame, shell, code, written, exited, relay,
                     held, delivered, capped, open>>
  BY <1>t DEF Survives, MainInv, stageOne, relays
<1>2. CASE /\ stage2 # "gone" /\ \A i \in DOMAIN pipe[s] : pipe[s][i] # "late"
           /\ pipe' = [pipe EXCEPT ![s] = Append(pipe[s], "late")] /\ UNCHANGED survivor
  <2>1. pipe[s] \in Clean(s) /\ Own(pipe[s]) = pipe[s]
    BY <1>t, <1>2, Chunks DEF StreamTypeOK
  <2>2. OnlyAt(s) /\ SameDomains /\ pipe'[s] \in Chunk(s) /\ Own(pipe'[s]) = Own(pipe[s])
    BY <1>t, <1>1, <1>2, <2>1, Chunks DEF OnlyAt, SameDomains, MainTypeOK
  <2>3. StreamTypeOK(s)' /\ (Flow(s)' <=> Flow(s)) /\ (Complete(s) => Complete(s)') /\ (Stopped(s)' <=> Stopped(s))
    BY <1>t, <1>1, <2>2 DEF StreamTypeOK, Flow, Complete, Stopped
  <2>4. RelayInv(s)'
    BY <1>t, <1>1, <1>2, <2>3 DEF RelayInv
  <2>5. UNCHANGED <<stageOne, stage2, channel, frame, shell, code, survivor, exited, open>>
    BY <1>1, <1>2 DEF stageOne
  <2> QED BY <1>1, <2>2, <2>3, <2>4, <2>5, StreamStep
<1>3. CASE survivor' = "none" /\ UNCHANGED pipe
  <2>1. MainTypeOK' /\ (ExitAnswered' <=> ExitAnswered) /\ (LossAnswered' <=> LossAnswered)
        /\ (ErrorAnswered' <=> ErrorAnswered) /\ (Reported' <=> Reported) /\ (Announced' <=> Announced)
        /\ \A u \in Stream : Complete(u)' <=> Complete(u)
    BY <1>t, <1>1, <1>3 DEF MainTypeOK, ExitAnswered, LossAnswered, ErrorAnswered, Reported, Announced, Complete
  <2>2. ASSUME NEW u \in Stream PROVE StreamTypeOK(u)' /\ RelayInv(u)'
    BY <1>1, <1>3, LauncherFacts DEF StreamTypeOK, RelayInv, Flow, Complete, Stopped
  <2>3. MainInv'
    BY <1>t, <1>1, <1>3, <2>1 DEF MainInv
  <2> QED BY <2>2, <2>3 DEF LauncherInv
<1> QED BY <1>2, <1>3 DEF Survives

LEMMA ShellExitsKeeps == ASSUME LauncherInv, ShellExits PROVE LauncherInv'
<1>t. MainInv /\ MainTypeOK
  BY DEF LauncherInv, MainInv
<1>1. /\ shell = "running" /\ shell' = "exited"
      /\ UNCHANGED <<stage1, status, started, stage2, channel, frame, written, exited, relay,
                     held, pipe, delivered, capped, open>>
  BY DEF ShellExits, stageOne, relays
<1>2. ~Reported /\ ~ExitAnswered /\ ~Reported'
  BY <1>t, <1>1 DEF MainInv, Reported, ExitAnswered
<1>3. MainTypeOK' /\ (LossAnswered' <=> LossAnswered) /\ (ErrorAnswered' <=> ErrorAnswered)
      /\ (Announced' <=> Announced)
  BY <1>t, <1>1 DEF MainTypeOK, LossAnswered, ErrorAnswered, Announced
<1>4. ASSUME NEW u \in Stream PROVE StreamTypeOK(u)' /\ RelayInv(u)'
  <2>1. StreamTypeOK(u)' /\ (Flow(u)' <=> Flow(u)) /\ (Complete(u)' <=> Complete(u)) /\ (Stopped(u)' <=> Stopped(u))
    BY <1>1, LauncherFacts DEF StreamTypeOK, Flow, Complete, Stopped
  <2> QED BY <1>1, <2>1, LauncherFacts DEF RelayInv
<1>5. MainInv'
  BY <1>t, <1>1, <1>2, <1>3 DEF MainInv, Before
<1> QED BY <1>4, <1>5 DEF LauncherInv

LEMMA OthersKeep == ASSUME LauncherInv, TimePasses \/ Agent \/ UNCHANGED launcherVars PROVE LauncherInv'
<1>1. UNCHANGED <<stage1, status, started, stage2, channel, frame, shell, code, written, survivor, exited,
                  relay, held, pipe, delivered, capped, open>>
  BY DEF TimePasses, Agent, launcherVars, stageOne, command, relays
<1>2. MainTypeOK' /\ (ExitAnswered' <=> ExitAnswered) /\ (LossAnswered' <=> LossAnswered)
      /\ (ErrorAnswered' <=> ErrorAnswered) /\ (Reported' <=> Reported) /\ (Announced' <=> Announced)
      /\ \A u \in Stream : Complete(u)' <=> Complete(u)
  BY <1>1 DEF LauncherInv, MainInv, MainTypeOK, ExitAnswered, LossAnswered, ErrorAnswered, Reported,
              Announced, Complete
<1>3. ASSUME NEW u \in Stream PROVE StreamTypeOK(u)' /\ RelayInv(u)'
  BY <1>1, LauncherFacts DEF StreamTypeOK, RelayInv, Flow, Complete, Stopped
<1>4. MainInv'
  BY <1>1, <1>2 DEF LauncherInv, MainInv
<1> QED BY <1>3, <1>4 DEF LauncherInv

LEMMA LauncherInvStep == LauncherInv /\ [LauncherNext]_launcherVars => LauncherInv'
BY StageOneKeeps, SetupKeeps, ReadyKeeps, SettlingKeeps, ReapKeeps, LookKeeps, PeekKeeps, WriteKeeps,
   DiscardKeeps, CommandWritesKeeps, SurvivesKeeps, ShellExitsKeeps, OthersKeep
   DEF LauncherNext, MainThread, Relay

\* What the agent is told is true: a result is the exit code of a shell that has exited,
\* with everything the command wrote unless a relay ran into the cap or an agent that
\* does not read; an unknown outcome is one nobody reported, or one the command itself
\* imitates.  Nothing of the command precedes the handshake, and no relay writes to a
\* pipe that was released.  For any streams and exit codes.
THEOREM LauncherIsTruthful == LauncherSpec => []AnswerIsTrue
<1>1. ASSUME LauncherInv PROVE AnswerIsTrue
  <2>t. MainInv /\ MainTypeOK /\ Stderr \in Stream /\ StreamTypeOK(Stderr)
    BY <1>1, LauncherAssumption, LauncherFacts
  <2>1. ASSUME stage1 = "exited", ExitAnswered
        PROVE  /\ shell = "exited" /\ status = code /\ \A s \in Stream : Complete(s)
               /\ Answer = "unknown" => code = Unknown /\ written[Stderr] = <<"marker">>
    <3>1. delivered[Stderr] \in Clean(Stderr) /\ written[Stderr] \in Clean(Stderr)
      BY <2>t, <2>1 DEF ExitAnswered, StreamTypeOK
    <3>2. ASSUME Answer = "unknown" PROVE code = Unknown /\ written[Stderr] = <<"marker">>
      <4>1. code = Unknown
        BY <2>1, <3>2 DEF Answer, ExitAnswered
      <4>2. \E i \in DOMAIN delivered[Stderr] : delivered[Stderr][i] \in {"notice", "marker"}
        BY <3>2 DEF Answer
      <4>3. delivered[Stderr] = <<"marker">>
        BY <3>1, <4>2, Notices
      <4>4. written[Stderr] # << >>
        BY <2>t, <4>3 DEF StreamTypeOK
      <4> QED BY <3>1, <4>1, <4>3, <4>4 DEF Clean, Said, Word
    <3> QED BY <2>1, <3>2 DEF ExitAnswered
  <2>2. ASSUME stage1 = "exited", LossAnswered
        PROVE  Answer # "result" /\ stage2 = "gone" /\ started
    <3>1. \E i \in DOMAIN delivered[Stderr] : delivered[Stderr][i] = "notice"
      BY <2>2, Notices DEF LossAnswered
    <3> QED BY <2>2, <3>1 DEF Answer, LossAnswered
  <2>3. stage1 = "exited" /\ ErrorAnswered => Answer = "error"
    BY Records DEF Answer, ErrorAnswered
  <2>4. stage1 # "exited" => Answer = "pending"
    BY DEF Answer
  <2>5. ASSUME NEW s \in Stream
        PROVE  /\ delivered[s] \notin {<< >>, <<"notice">>} => frame = <<"ready">>
               /\ relay[s] = "write" => open
    BY <1>1, <2>5, <2>t, LauncherFacts
       DEF RelayInv, MainInv, MainTypeOK, Stopped, Before, Live, InProgress, ExitSent
  <2>6. stage1 = "exited" => ExitAnswered \/ LossAnswered \/ ErrorAnswered
    BY <2>t DEF MainInv
  <2>7. Answer = "result" =>
          /\ shell = "exited" /\ status = code
          /\ \A s \in Stream : capped[s] \/ held[s] # << >> \/ delivered[s] = written[s]
    BY <2>1, <2>2, <2>3, <2>4, <2>6 DEF Complete
  <2>8. Answer = "unknown" =>
          \/ stage2 = "gone" /\ started
          \/ code = Unknown /\ written[Stderr] = <<"marker">>
    BY <2>1, <2>2, <2>3, <2>4, <2>6
  <2> QED BY <2>5, <2>7, <2>8 DEF AnswerIsTrue
<1> QED BY <1>1, LauncherInvInit, LauncherInvStep, PTL DEF LauncherSpec
=============================================================================
