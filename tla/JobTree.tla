------------------------------- MODULE JobTree -------------------------------
(***************************************************************************)
(* The processes and the directory of one detached job: the launch into a    *)
(* systemd scope of its own (job-scope.ts), the wrapper and the scripts it   *)
(* runs (job-scripts.ts), who a process number belongs to                    *)
(* (proc-identity.ts), signals, their escalation, and what is done late: a   *)
(* timer after the process it is about, a write after its directory, the     *)
(* sweep of scopes after a restart of the agent.                             *)
(*                                                                          *)
(* JobManager has the records, locks and keys; here a record is what decides *)
(* about processes.  The scripts are those of Windows, one file for the pair.*)
(***************************************************************************)
EXTENDS Naturals

CONSTANTS
  MaxMishaps,  \* bound: calls of the system that fail, files taken away
  MaxRestarts  \* bound: ends of the agent's process

ASSUME BoundsAssumption == {MaxMishaps, MaxRestarts} \subseteq Nat

VARIABLES
  host,      \* "service": Linux, root, systemd; "posix" without those; "windows"
  probe,     \* what the agent knows of scopes
  start,     \* the start of the job: what its handler waits for
  io,        \* the write of the scripts, and whether its caller has given up
  dir,       \* the job's directory and what is in it
  wipe,      \* the removal of that directory
  tree,      \* the processes
  stranger,  \* a process of others that got the wrapper's number
  rec,       \* the record
  marker,    \* the exit marker
  mem,       \* the agent's memory
  mishaps, restarts

files == <<io, dir, wipe>>
procs == <<tree, stranger, marker>>
bounds == <<mishaps, restarts>>
vars == <<host, probe, start, files, procs, rec, mem, bounds>>

Mishap == mishaps < MaxMishaps /\ mishaps' = mishaps + 1 /\ UNCHANGED restarts
Fine == UNCHANGED bounds

\* resolveSystemdRun and JobScopeEnv: what the machine offers, as each start asks.
Host == {"service", "posix", "windows"}

NoTree == [leader |-> "none", member |-> "none", away |-> FALSE, scope |-> FALSE]
NoRecord == [st |-> "none", scope |-> FALSE, cancel |-> FALSE, retiring |-> FALSE, id |-> FALSE]
NoMemory == [up |-> FALSE, manager |-> FALSE, child |-> FALSE, retires |-> FALSE,
             settled |-> FALSE, timer |-> "off", kill |-> "no", sweep |-> "no"]
NoProbe == [launcher |-> "unset", flying |-> FALSE, floor |-> FALSE]

-----------------------------------------------------------------------------
(* Processes.                                                               *)

\* On POSIX an ended process keeps its number until its parent has reaped it.
LeaderThere == tree.leader \in {"alive", "hard"} \/ (tree.leader = "zombie" /\ host # "windows")
GroupThere == LeaderThere \/ tree.member # "none"
Running == tree.leader \in {"alive", "hard"} \/ tree.member # "none" \/ tree.away

\* Its parent, the agent that spawned it, has not reaped it yet.
Dead == IF mem.child THEN "zombie" ELSE "over"
LeaderDies == IF tree.leader \in {"alive", "hard"} THEN Dead ELSE tree.leader

\* To the process group; a descendant with a session of its own is not in it.
Termed == [tree EXCEPT !.leader = IF @ = "alive" THEN Dead ELSE @,
                       !.member = IF @ = "soft" THEN "none" ELSE @]
Killed == [tree EXCEPT !.leader = LeaderDies, !.member = "none"]

\* taskkill /T /F starts from the wrapper.
TaskKilled == [tree EXCEPT !.leader = LeaderDies, !.member = "none", !.away = FALSE]

\* signalProcessTree: it goes to whoever has the number now.
Sent(after) ==
  IF GroupThere /\ (host # "windows" \/ LeaderThere)
    THEN tree' = (IF host = "windows" THEN TaskKilled ELSE after) /\ UNCHANGED stranger
    ELSE UNCHANGED tree /\ stranger' = (IF stranger = "there" THEN "hit" ELSE stranger)

Unsent == UNCHANGED <<tree, stranger>>

\* verifyJobProcess: "ours" takes the identity on the record, "gone" no process or
\* one with another identity; what lies between is held.
\* Mutant: whatever answers to the number is the job's.
Ours_ByNumber == LeaderThere \/ stranger # "none"
Ours == LeaderThere /\ rec.id
Gone == ~LeaderThere /\ (stranger = "none" \/ rec.id)

\* The last command of the wrapper's shell, or a signal of others; the trap writes
\* the marker unless the shell is killed.  A shell ended by SIGTERM may write it.
LeaderExits ==
  /\ tree.leader \in {"alive", "hard"}
  /\ tree' = [tree EXCEPT !.leader = Dead]
  /\ marker' \in {TRUE, marker}
  /\ Fine /\ UNCHANGED <<host, probe, start, files, stranger, rec, mem>>

Forks ==
  /\ tree.leader \in {"alive", "hard"}
  /\ \/ tree.member = "none" /\ \E m \in {"soft", "hard"} : tree' = [tree EXCEPT !.member = m]
     \/ ~tree.away /\ tree' = [tree EXCEPT !.away = TRUE]
  /\ Fine /\ UNCHANGED <<host, probe, start, files, stranger, rec, marker, mem>>

DescendantEnds ==
  /\ \/ tree.member # "none" /\ tree' = [tree EXCEPT !.member = "none"]
     \/ tree.away /\ tree' = [tree EXCEPT !.away = FALSE]
  /\ Fine /\ UNCHANGED <<host, probe, start, files, stranger, rec, marker, mem>>

\* A number is free when neither a process nor a group has it.
NumberReused ==
  /\ tree.leader = "over" /\ ~GroupThere /\ stranger \in {"none", "there"}
  /\ stranger' = IF stranger = "none" THEN "there" ELSE "none"
  /\ Fine /\ UNCHANGED <<host, probe, start, files, tree, rec, marker, mem>>

-----------------------------------------------------------------------------
(* The probe for scopes.                                                    *)

Idle == mem.up /\ start # "spawned"

\* startJobScopeProbe: a success is for ever, a failure for five minutes.
Probing(p) ==
  IF host = "service" /\ p.launcher # "scope" /\ ~p.floor THEN [p EXCEPT !.flying = TRUE] ELSE p

ProbeStarts ==
  /\ Idle /\ probe' = Probing(probe) /\ probe' # probe
  /\ Fine /\ UNCHANGED <<host, start, files, procs, rec, mem>>

ProbeEnds ==
  /\ mem.up /\ probe.flying
  /\ \/ Fine /\ probe' = [probe EXCEPT !.flying = FALSE, !.launcher = "scope"]
     \/ Mishap /\ probe' = [probe EXCEPT !.flying = FALSE, !.launcher = "null", !.floor = TRUE]
  /\ UNCHANGED <<host, start, files, procs, rec, mem>>

FloorOver ==
  /\ probe.floor /\ probe' = [probe EXCEPT !.floor = FALSE]
  /\ Fine /\ UNCHANGED <<host, start, files, procs, rec, mem>>

-----------------------------------------------------------------------------
(* The scripts of Windows.                                                  *)

NoIo == [pc |-> "off", made |-> FALSE, quit |-> FALSE]
NoDir == [there |-> FALSE, temp |-> FALSE, script |-> FALSE]

\* atomicWriteUtf8Async looks at the latch after each call.
\* Mutant: it does not look.
Next_NoLatch(pc) == io' = [io EXCEPT !.pc = pc]
NextCall(pc) == io' = [io EXCEPT !.pc = IF io.quit THEN "undo" ELSE pc]

\* The scripts are there, or will not be.
WriteOver(ok) ==
  /\ io' = NoIo
  /\ start' = IF io.quit THEN start ELSE IF ok THEN "verify" ELSE "fails"

MakesDir ==
  /\ io.pc = "mkdir" /\ dir' = [dir EXCEPT !.there = TRUE]
  /\ io' = [io EXCEPT !.pc = IF io.quit THEN "undo" ELSE "temp", !.made = ~dir.there]
  /\ Fine /\ UNCHANGED start

WritesTemp ==
  /\ io.pc = "temp" /\ dir.there /\ dir' = [dir EXCEPT !.temp = TRUE]
  /\ NextCall("rename") /\ Fine /\ UNCHANGED start

Renames ==
  /\ io.pc = "rename" /\ dir.temp /\ dir' = [dir EXCEPT !.temp = FALSE, !.script = TRUE]
  /\ NextCall("chmod") /\ Fine /\ UNCHANGED start

Chmods == io.pc = "chmod" /\ WriteOver(TRUE) /\ Fine /\ UNCHANGED dir

\* A call fails: its file is not there any more, or a scanner denies it.
CallFails ==
  /\ \/ io.pc = "temp" /\ ~dir.there /\ Fine
     \/ io.pc = "rename" /\ ~dir.temp /\ Fine
     \/ io.pc \in {"mkdir", "temp", "rename"} /\ Mishap
  /\ dir' = [dir EXCEPT !.temp = FALSE,
       !.there = @ /\ ~(io.quit /\ io.made /\ ~dir.script)]
  /\ WriteOver(FALSE)

Undoes ==
  /\ \/ io.pc = "undo" /\ io' = [io EXCEPT !.pc = "rmdir"]
        /\ dir' = [dir EXCEPT !.temp = FALSE, !.script = FALSE]
     \/ io.pc = "rmdir" /\ io' = NoIo
        /\ dir' = [dir EXCEPT !.there = @ /\ ~(io.made /\ ~dir.temp /\ ~dir.script)]
  /\ Fine /\ UNCHANGED start

Writes ==
  /\ mem.up /\ (MakesDir \/ WritesTemp \/ Renames \/ Chmods \/ CallFails \/ Undoes)
  /\ UNCHANGED <<host, probe, wipe, procs, rec, mem>>

\* A security scanner takes the script away.
ScriptTaken ==
  /\ dir.script /\ Mishap /\ dir' = [dir EXCEPT !.script = FALSE]
  /\ UNCHANGED <<host, probe, start, io, wipe, procs, rec, mem>>

\* removeJobDirAsync takes what it lists, and starts again when more has come.
Wipes ==
  /\ \/ /\ wipe = "list" /\ wipe' = "rmdir"
        /\ dir' = [dir EXCEPT !.temp = FALSE, !.script = FALSE] /\ Fine
     \/ /\ wipe = "rmdir" /\ ~dir.temp /\ ~dir.script /\ wipe' = "over"
        /\ dir' = [dir EXCEPT !.there = FALSE] /\ Fine
     \/ /\ wipe = "rmdir" /\ (dir.temp \/ dir.script) /\ UNCHANGED dir
        /\ \/ wipe' = "list" /\ Fine
           \/ wipe' = "gaveup" /\ Mishap
  /\ UNCHANGED <<host, probe, start, io, procs, rec, mem>>

-----------------------------------------------------------------------------
(* The start.                                                               *)

\* do:job_start: first of all the probe is awaited.
Request ==
  /\ Idle /\ start = "no" /\ rec.st = "none"
  /\ start' = "probe" /\ probe' = Probing(probe)
  /\ Fine /\ UNCHANGED <<host, files, procs, rec, mem>>

\* The record; then the scripts, or the shell.
Begins ==
  /\ mem.up /\ start = "probe" /\ ~probe.flying
  /\ rec' = [rec EXCEPT !.st = "open"]
  /\ mem' = [mem EXCEPT !.manager = TRUE]
  /\ dir' = [dir EXCEPT !.there = TRUE]
  /\ IF host = "windows"
       THEN start' = "write" /\ io' = [io EXCEPT !.pc = "mkdir"]
       ELSE start' = "spawn" /\ UNCHANGED io
  /\ Fine /\ UNCHANGED <<host, probe, wipe, procs>>

\* JOB_SCRIPT_IO_TIMEOUT_MS; a write goes on by itself.
Deadline ==
  /\ mem.up /\ start \in {"write", "verify"}
  /\ start' = "fails"
  /\ io' = [io EXCEPT !.quit = io.pc # "off"]
  /\ Fine /\ UNCHANGED <<host, probe, dir, wipe, procs, rec, mem>>

\* abandonStartAsync.
Fails ==
  /\ mem.up /\ start = "fails" /\ start' = "no"
  /\ rec' = [rec EXCEPT !.st = "gone"] /\ wipe' = "list"
  /\ Fine /\ UNCHANGED <<host, probe, io, dir, procs, mem>>

\* verifyWindowsJobScripts, the last thing before the spawn.
Verifies ==
  /\ mem.up /\ start = "verify"
  /\ start' = IF dir.script THEN "spawn" ELSE "fails"
  /\ Fine /\ UNCHANGED <<host, probe, files, procs, rec, mem>>

\* spawnJob: the process is up, and only the agent's stack knows.
Spawns ==
  /\ mem.up /\ start = "spawn" /\ start' = "spawned"
  /\ \E l \in {"alive", "hard"} :
       tree' = [NoTree EXCEPT !.leader = l, !.scope = probe.launcher = "scope"]
  /\ mem' = [mem EXCEPT !.child = TRUE]
  /\ Fine /\ UNCHANGED <<host, probe, files, stranger, rec, marker>>

\* Its pid, scope and identity are on disk; Windows may not tell an identity.  If
\* one cannot be written or found: retireStartedProcess, whose record may fail too.
Recorded == [rec EXCEPT !.st = "run", !.scope = tree.scope, !.id = TRUE]

StartEnds ==
  /\ mem.up /\ start = "spawned" /\ start' = "no"
  /\ \/ rec' = Recorded /\ Fine /\ Unsent /\ UNCHANGED mem
     \/ /\ host = "windows" /\ rec' = [Recorded EXCEPT !.id = FALSE]
        /\ Fine /\ Unsent /\ UNCHANGED mem
     \/ /\ Mishap /\ Sent(Termed)
        /\ rec' \in {rec} \cup {[Recorded EXCEPT !.retiring = TRUE, !.id = i] : i \in BOOLEAN}
        /\ mem' = [mem EXCEPT !.retires = TRUE, !.timer = "own"]
  /\ UNCHANGED <<host, probe, files, marker>>

-----------------------------------------------------------------------------
(* The end.                                                                 *)

\* settle of a running record; markSettled of one already over.
\* Mutant: a record that is over is not looked at again.
Refreshed_NoSweep(m) ==
  IF ~m.retires /\ (rec.st = "open" \/ (rec.st = "run" /\ (marker \/ Gone)))
    THEN /\ rec' = [rec EXCEPT !.st = IF rec.retiring THEN "gone" ELSE "over"]
         /\ mem' = [m EXCEPT !.settled = ~rec.retiring,
              !.kill = IF rec.scope /\ ~rec.retiring THEN "sent" ELSE @]
    ELSE UNCHANGED rec /\ mem' = m

Refreshed(m) ==
  IF ~m.retires /\ (rec.st = "open" \/ (rec.st = "run" /\ (marker \/ Gone)))
    THEN /\ rec' = [rec EXCEPT !.st = IF rec.retiring THEN "gone" ELSE "over"]
         /\ mem' = [m EXCEPT !.settled = ~rec.retiring,
              !.kill = IF rec.scope /\ ~rec.retiring THEN "sent" ELSE @]
    ELSE /\ UNCHANGED rec
         /\ mem' = IF rec.st = "over" /\ ~m.settled
                     THEN [m EXCEPT !.settled = TRUE, !.sweep = IF rec.scope THEN "queued" ELSE @]
                     ELSE m

\* Any request that reads the job; with no manager yet, recover.
Reads ==
  /\ Idle /\ start = "no"
  /\ Refreshed([mem EXCEPT !.manager = TRUE])
  /\ <<rec', mem'>> # <<rec, mem>>
  /\ Fine /\ UNCHANGED <<host, probe, start, files, procs>>

\* settleRecordOnDisk, without a manager and without a look at who the process is.
ReadsWithout ==
  /\ Idle /\ ~mem.manager /\ rec.st \in {"open", "run"}
  /\ (marker \/ rec.st = "open" \/ (~LeaderThere /\ stranger = "none"))
  /\ rec' = [rec EXCEPT !.st = IF rec.retiring THEN "gone" ELSE "over"]
  /\ Fine /\ UNCHANGED <<host, probe, start, files, procs, mem>>

\* The exit event of the wrapper, at the agent that spawned it: listeners in turn.
ExitEvent ==
  /\ Idle /\ mem.child /\ tree.leader = "zombie"
  /\ tree' = [tree EXCEPT !.leader = "over"]
  /\ LET m == [mem EXCEPT !.child = FALSE, !.retires = FALSE]
     IN IF mem.retires
          THEN rec' = [rec EXCEPT !.st = "gone"] /\ mem' = m
          ELSE IF rec.st = "run"
          THEN /\ rec' = [rec EXCEPT !.st = "over"]
               /\ mem' = [m EXCEPT !.settled = TRUE, !.kill = IF rec.scope THEN "sent" ELSE @]
          ELSE UNCHANGED rec /\ mem' = m
  /\ Fine /\ UNCHANGED <<host, probe, start, files, stranger, marker>>

\* cancel of a job that a refresh finds running: signalJob.
Cancel ==
  /\ Idle /\ rec.st = "run" /\ ~mem.retires /\ ~marker /\ ~Gone
  /\ rec' = [rec EXCEPT !.cancel = TRUE]
  /\ mem' = [mem EXCEPT !.manager = TRUE, !.timer = "cancel"]
  /\ \/ IF Ours THEN Sent(Termed) /\ Fine ELSE Unsent /\ Fine
     \/ Mishap /\ Unsent
  /\ UNCHANGED <<host, probe, start, files, marker>>

\* KILL_ESCALATION_MS after a cancel the process is verified again; that of a
\* retired start is known to be there as long as its exit has not been seen.
Escalate ==
  /\ Idle /\ mem.timer # "off"
  /\ \/ IF (mem.timer = "cancel" /\ Ours) \/ (mem.timer = "own" /\ mem.child)
          THEN Sent(Killed) /\ Fine ELSE Unsent /\ Fine
     \/ mem.timer = "cancel" /\ Mishap /\ Unsent
  /\ mem' = [mem EXCEPT !.timer = "off", !.kill = IF tree.scope THEN "sent" ELSE @]
  /\ UNCHANGED <<host, probe, start, files, rec, marker>>

\* killJobScope: what it does, nobody asks.
ScopeKilled ==
  /\ mem.kill = "sent"
  /\ \/ /\ tree' = IF tree.scope THEN TaskKilled ELSE tree
        /\ mem' = [mem EXCEPT !.kill = "no"] /\ Fine
     \/ Mishap /\ UNCHANGED tree /\ mem' = [mem EXCEPT !.kill = "failed"]
  /\ UNCHANGED <<host, probe, start, files, stranger, rec, marker>>

\* flushLeftoverJobScopes: only what a list shows is killed.
Sweeps ==
  /\ Idle
  /\ \/ mem.sweep = "queued" /\ mem' = [mem EXCEPT !.sweep = "asked"] /\ Fine
     \/ /\ mem.sweep = "asked" /\ Fine
        /\ mem' = [mem EXCEPT !.sweep = "no", !.kill = IF tree.scope /\ Running THEN "sent" ELSE @]
     \/ mem.sweep = "asked" /\ Mishap /\ mem' = [mem EXCEPT !.sweep = "no", !.kill = "failed"]
  /\ UNCHANGED <<host, probe, start, files, procs, rec>>

\* The agent's process ends; a service takes its control group with it.
AgentEnds ==
  /\ mem.up /\ restarts < MaxRestarts /\ restarts' = restarts + 1
  /\ mem' = NoMemory /\ probe' = NoProbe /\ start' = "no" /\ io' = NoIo
  /\ wipe' = IF wipe \in {"list", "rmdir"} THEN "gaveup" ELSE wipe
  /\ LET left == [tree EXCEPT !.leader = IF @ = "zombie" THEN "over" ELSE @]
     IN tree' = (IF host = "service" /\ ~tree.scope /\ Running
                   THEN [left EXCEPT !.leader = "over", !.member = "none", !.away = FALSE]
                   ELSE left)
  /\ UNCHANGED <<host, dir, stranger, rec, marker, mishaps>>

AgentStarts ==
  /\ ~mem.up /\ mem' = [mem EXCEPT !.up = TRUE] /\ probe' = Probing(probe)
  /\ Fine /\ UNCHANGED <<host, start, files, procs, rec>>

-----------------------------------------------------------------------------
Init ==
  /\ host \in Host
  /\ probe = NoProbe /\ start = "no"
  /\ io = NoIo /\ dir = NoDir /\ wipe = "no"
  /\ tree = NoTree /\ stranger = "none" /\ rec = NoRecord /\ marker = FALSE
  /\ mem = NoMemory
  /\ mishaps = 0 /\ restarts = 0

Starts == Request \/ Begins \/ Deadline \/ Fails \/ Verifies \/ Spawns \/ StartEnds
Probes == ProbeStarts \/ ProbeEnds \/ FloorOver
Processes == LeaderExits \/ Forks \/ DescendantEnds \/ NumberReused
Late == Escalate \/ ScopeKilled \/ Sweeps \/ ExitEvent

Next ==
  \/ Probes \/ Starts \/ Writes \/ ScriptTaken \/ Wipes
  \/ Processes \/ Reads \/ ReadsWithout \/ Cancel \/ Late
  \/ AgentEnds \/ AgentStarts

\* Timers fire, exit events are delivered, what was started answers, and an agent
\* starts again.  Nothing is promised of the job's processes or of requests.
Fairness ==
  /\ WF_vars(Escalate) /\ WF_vars(ScopeKilled) /\ WF_vars(Sweeps) /\ WF_vars(ExitEvent)
  /\ WF_vars(AgentStarts) /\ WF_vars(StartEnds)

Spec == Init /\ [][Next]_vars
FairSpec == Spec /\ Fairness

-----------------------------------------------------------------------------

\* What comes late finds nothing of others: no signal reaches a process that got
\* the number of one that ended, and a write whose caller has given up leaves no
\* script and no directory where the job's was erased.
LateIsHarmless ==
  /\ stranger # "hit"
  /\ rec.st = "gone" /\ io.pc = "off" /\ restarts = 0 =>
       /\ wipe = "over" => ~dir.there
       /\ wipe = "gaveup" => ~dir.temp /\ ~dir.script

\* When a scoped job is over, or a signal for it waits to be followed up, nothing
\* of it is left in the end, with a session of its own or deaf to SIGTERM: unless
\* a call of systemctl failed, or the agent ended before.
NothingSurvives ==
  \A n \in 0..MaxRestarts :
    (/\ tree.scope /\ Running /\ mem.manager /\ restarts = n
     /\ (mem.timer # "off" \/ (rec.st = "over" /\ rec.scope)))
    ~> (~Running \/ mem.kill = "failed" \/ restarts # n)
=============================================================================
