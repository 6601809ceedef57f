------------------------------ MODULE JobManager ------------------------------
(***************************************************************************)
(* The detached-job manager of the agent (packages/agent/src/job-manager.ts *)
(* with job-locks.ts, job-ops.ts, job-process.ts and the store-only path of *)
(* job-ended-settle.ts).                                                    *)
(*                                                                          *)
(* Disk is authoritative: a job is a directory with a record (meta), a      *)
(* create-only exit marker, the lock files that name it and the operation   *)
(* index that points at it.  Memory holds only the windows in which disk    *)
(* must not be believed: a start whose process is not up yet (starting), a  *)
(* process being stopped (retiring, locksHeld, dyingCard).  A crash of the  *)
(* agent loses memory and keeps disk and the processes.                     *)
(*                                                                          *)
(* The manager runs on one event loop.  Handlers without an await are one   *)
(* action; the synchronous stretches of start() are cut at the disk writes  *)
(* so that a crash can fall between them, and loop names the start that     *)
(* owns the event loop meanwhile.                                           *)
(***************************************************************************)
EXTENDS Naturals, FiniteSets

CONSTANTS
  Job,            \* job ids; each start() draws a fresh one
  OpKey,          \* operation keys of idempotent starts
  Lock,           \* named resource locks, numbered in their sorted order
  Gpu,            \* GPU cards, numbered above the named locks
  None,           \* "no job", "no key"
  Garbage,        \* a file created but not yet written when the agent died
  Requests,       \* the start requests callers make, each in Request
  MaxConcurrent,  \* JOB_MAX_CONCURRENT
  RequireIdentity,\* POSIX: a start whose process cannot be identified is retired
  WriteOutcomes,  \* how writes and removals of a record end: {TRUE} or BOOLEAN
  MaxCrashes      \* bound on crashes of the agent process

Resource == Lock \cup Gpu

Request == [op : OpKey \cup {None}, res : SUBSET Resource, webhook : BOOLEAN]

ASSUME JobAssumption == Job \subseteq Nat /\ None \notin Job /\ Garbage \notin Job
ASSUME KeyAssumption == None \notin OpKey /\ None # Garbage
ASSUME ResourceAssumption == Resource \subseteq Nat /\ None \notin Resource
ASSUME RequestAssumption == Requests \subseteq Request
ASSUME BoundAssumption == MaxConcurrent \in Nat /\ MaxCrashes \in Nat
ASSUME OutcomeAssumption ==
  RequireIdentity \in BOOLEAN /\ WriteOutcomes \subseteq BOOLEAN

VARIABLES
  \* disk
  meta,      \* the record of each job directory
  marker,    \* jobs whose exit marker file exists
  opIndex,   \* .ops/<key>: the job a key points at
  lock,      \* lock files: the job a resource's file names
  \* memory of the agent process
  mgr,       \* "none" (agent restarted, no manager yet) or "up"
  starting,  \* startingJobs: the record-to-process windows
  abort,     \* jobs whose start window was cancelled
  lost,      \* jobs whose start's caller lost its connection
  settled,   \* settledJobs
  retiring,  \* retiringJobs
  locksHeld, \* locksHeldUntilExit
  dyingCard, \* cardsHeldByDyingProcess
  cancelled, \* cancelledJobs
  signalled, \* signalledJobs
  pc,        \* where the start() of each job is
  loop,      \* the start whose synchronous stretch owns the event loop
  watch,     \* which exit listeners the child handle carries
  \* the operating system and the callers
  proc,      \* the job's process
  req,       \* the request each start was made with
  \* history
  orphan,    \* live processes a crash left without a pid on disk
  crashes    \* crashes so far

disk == <<meta, marker, opIndex, lock>>
windows == <<starting, abort, lost, retiring>>
reservations == <<locksHeld, dyingCard>>
knowledge == <<settled, cancelled, signalled>>
starts == <<pc, loop, req>>
os == <<proc, watch>>
history == <<orphan, crashes>>
vars == <<disk, mgr, windows, reservations, knowledge, starts, os, history>>

Status == {"none", "dir", "running", "exited", "unknown"}
Reason == {"none", "cancelled", "signal", "vanished"}
Meta == [status : Status, pid : BOOLEAN, retiring : BOOLEAN, cancelReq : BOOLEAN,
         reason : Reason]
NoMeta == [status |-> "none", pid |-> FALSE, retiring |-> FALSE, cancelReq |-> FALSE,
           reason |-> "none"]
NoRequest == [op |-> None, res |-> {}, webhook |-> FALSE]

StartPC == {"idle", "claimed", "dirs", "abandon", "parked", "spawned", "pid",
            "erasing", "answered", "retired", "crashed"}
\* "closing": the command has ended, its wrapper still has to exit.
ProcState == {"none", "alive", "closing", "exited", "killed"}

-----------------------------------------------------------------------------
(* What the records say.                                                    *)

Recorded(j) == meta[j].status \in {"running", "exited", "unknown"}
Running(j) == meta[j].status = "running"
Terminal(j) == meta[j].status \in {"exited", "unknown"}
Dead(j) == proc[j] \in {"exited", "killed"}

\* The job's command is executing; its wrapper process may outlive it a little.
Working(j) == proc[j] = "alive"
Alive(j) == proc[j] \in {"alive", "closing"}

\* Mutant: readers forget the start windows.
InWindow_NoStarts(j) == j \in retiring
InWindow(j) == j \in starting \cup retiring

\* Mutant: an inconclusive probe counts as gone.
MaybeGone_Unproven == {j \in Job : Running(j) /\ meta[j].pid}

\* verifyJobProcess may answer "gone" for these recorded pids, or come back
\* inconclusive all the same (a reused pid, a failing probe).
MaybeGone == {j \in Job : ~Alive(j) /\ Running(j) /\ meta[j].pid}

\* refresh() settles a running record outside every window when its exit
\* marker is there, when it has no pid, or when its process is proven gone.
Ended(S, gone, mk) ==
  {j \in S : Running(j) /\ ~InWindow(j) /\ (j \in mk \/ ~meta[j].pid \/ j \in gone)}

\* settle() of a retiring record discards the job instead of ending it.
Discarded(E) == {j \in E : meta[j].retiring}

\* Mutant: the durable cancel request is not consulted.
CancelWasRequested_Memory(j) == j \in cancelled
CancelWasRequested(j) == meta[j].cancelReq \/ j \in cancelled

\* settleFromExitMarker and classifyVanishedJob.
Outcome(j, mk, sig) ==
  LET how == IF CancelWasRequested(j) THEN "cancelled"
             ELSE IF j \in mk THEN "none"
             ELSE IF j \in sig THEN "signal" ELSE "vanished"
  IN [meta[j] EXCEPT !.status = IF how = "none" THEN "exited" ELSE "unknown",
                     !.reason = how]

\* What settling the set E leaves on disk; ok is the outcome of the record write
\* or of the removal, which settle() ignores.
MetaAfter(E, mk, sig, ok) ==
  [j \in Job |-> IF j \in E /\ ok
                 THEN IF j \in Discarded(E) THEN NoMeta ELSE Outcome(j, mk, sig)
                 ELSE meta[j]]

\* Cards always go back; named locks stay with a process still being stopped.
LockAfter(E) ==
  [r \in Resource |->
     IF lock[r] \in E /\ (r \in Gpu \/ lock[r] \notin locksHeld \/ lock[r] \in Discarded(E))
     THEN None ELSE lock[r]]

\* Mutant: every job that ends gives its key back.
IndexAfter_Ended(E) == [k \in OpKey |-> IF opIndex[k] \in E THEN None ELSE opIndex[k]]
IndexAfter(E) ==
  [k \in OpKey |-> IF opIndex[k] \in Discarded(E) THEN None ELSE opIndex[k]]

\* The in-memory part of refreshing every job of S, of which E ended.
Learn(S, E) ==
  /\ settled' = (settled \cup E \cup {j \in S : Terminal(j) /\ ~InWindow(j)}) \ Discarded(E)
  /\ cancelled' = cancelled \ E
  /\ signalled' = signalled \ E

\* Removal of a job directory takes the record and the marker with it.  A failure
\* is ignored, and leaves both.
RemoveJobDir(j) ==
  \/ meta' = [meta EXCEPT ![j] = NoMeta] /\ marker' = marker \ {j}
  \/ FALSE \in WriteOutcomes /\ UNCHANGED <<meta, marker>>

\* forgetJob, before a removal: the job leaves the three knowledge sets.
Forget(J) ==
  /\ settled' = settled \ J
  /\ cancelled' = cancelled \ J
  /\ signalled' = signalled \ J

ReleaseLocks(J) == [r \in Resource |-> IF lock[r] \in J THEN None ELSE lock[r]]
DropIndex(J) == [k \in OpKey |-> IF opIndex[k] \in J THEN None ELSE opIndex[k]]

Free == mgr = "up" /\ loop = None

-----------------------------------------------------------------------------
Init ==
  /\ meta = [j \in Job |-> NoMeta]
  /\ marker = {}
  /\ opIndex = [k \in OpKey |-> None]
  /\ lock = [r \in Resource |-> None]
  /\ mgr = "none"
  /\ starting = {} /\ abort = {} /\ lost = {} /\ retiring = {}
  /\ settled = {} /\ cancelled = {} /\ signalled = {}
  /\ locksHeld = {}
  /\ dyingCard = [g \in Gpu |-> None]
  /\ pc = [j \in Job |-> "idle"]
  /\ loop = None
  /\ watch = [j \in Job |-> "none"]
  /\ proc = [j \in Job |-> "none"]
  /\ req = [j \in Job |-> NoRequest]
  /\ orphan = {}
  /\ crashes = 0

-----------------------------------------------------------------------------
(* Readers: status, logs, a deduplicated start, list, the webhook scan.      *)

\* Refresh one record: loadForRequest, and existingOperation for a retry.
RefreshOne(j, gone, ok) ==
  LET E == Ended({j}, gone, marker)
  IN /\ Free
     /\ Recorded(j)
     /\ ~InWindow(j)
     /\ meta' = MetaAfter(E, marker, signalled, ok)
     /\ marker' = marker \ Discarded(E)
     /\ lock' = LockAfter(E)
     /\ opIndex' = IndexAfter(E)
     /\ Learn({j}, E)
     /\ UNCHANGED <<mgr, windows, reservations, starts, os, history>>

\* The job_ended scan: a webhook record that is provably over is settled by
\* the cheap evidence alone, never one this process already settled.
WebhookPoll(j, gone, ok) ==
  /\ req[j].webhook
  /\ j \notin settled
  /\ j \in Ended({j}, gone, marker)
  /\ RefreshOne(j, gone, ok)

\* Directories the retention sweep may find expired.  Retention is days, so
\* neither a start still running nor a process still being killed is expired.
Expirable ==
  {j \in Job : /\ Terminal(j) \/ meta[j].status = "dir"
               /\ pc[j] \notin {"parked", "erasing"}
               /\ j \notin locksHeld
               /\ watch[j] # "dying"}

\* pruneExpired of the set old, then refresh() of the records of S.
Sweep(S, old, gone, ok) ==
  LET E == Ended(S \ old, gone, marker)
      after == MetaAfter(E, marker, signalled, ok)
  IN /\ old \subseteq Expirable
     /\ meta' = [j \in Job |-> IF j \in old THEN NoMeta ELSE after[j]]
     /\ marker' = marker \ (old \cup Discarded(E))
     /\ lock' = LockAfter(E)
     /\ settled' = (settled \cup E \cup {j \in S : Terminal(j) /\ ~InWindow(j)})
                     \ (old \cup Discarded(E))
     /\ cancelled' = cancelled \ (E \cup old)
     /\ signalled' = signalled \ (E \cup old)

\* The indexes after that sweep: an unreadable directory leaves its index.
IndexSwept(S, old, gone) ==
  LET E == Ended(S \ old, gone, marker)
  IN [k \in OpKey |-> IF opIndex[k] \in {j \in old : Terminal(j)} THEN None
                       ELSE IndexAfter(E)[k]]

\* list(): the due retention sweep removes the expired set old, then the
\* records of S (limit and filter decide which) are refreshed.
List(S, old, gone, ok) ==
  /\ Free
  /\ Sweep(S, old, gone, ok)
  /\ opIndex' = IndexSwept(S, old, gone)
  /\ UNCHANGED <<mgr, windows, reservations, starts, os, history>>

\* status by operation key: a stale index, with no job behind it, is dropped.
StatusByKey(k) ==
  /\ Free
  /\ opIndex[k] \in Job
  /\ ~InWindow(opIndex[k])
  /\ ~Recorded(opIndex[k])
  /\ opIndex' = [opIndex EXCEPT ![k] = None]
  /\ UNCHANGED <<meta, marker, lock, mgr, windows, reservations, knowledge, starts, os, history>>

-----------------------------------------------------------------------------
(* start(): admission, directories, locks, record.  None of these awaits.     *)

\* Mutant: a key whose job has ended may be used again.
KeyFree_AfterEnd(k, gone) ==
  k \in OpKey /\ opIndex[k] \in Job =>
    ~InWindow(opIndex[k]) /\ (Running(opIndex[k]) => opIndex[k] \in Ended({opIndex[k]}, gone, marker))

\* existingOperation lets the start proceed: there is no index for the key, it
\* is torn, or it is stale (no job behind it, at the latest after refresh).
KeyFree(k, gone) ==
  k \in OpKey /\ opIndex[k] \in Job =>
    /\ ~InWindow(opIndex[k])
    /\ Recorded(opIndex[k]) => opIndex[k] \in Discarded(Ended({opIndex[k]}, gone, marker))

\* Mutant: starts still in their window are not counted.
RunningCount_NoStarts(old, gone) ==
  LET seen == Job \ (settled \cup old)
  IN Cardinality({j \in seen : Running(j) /\ ~InWindow(j)} \ Ended(seen, gone, marker))

\* countRunningJobs after the sweep: settled jobs are not looked at again.
RunningCount(old, gone) ==
  LET seen == Job \ (settled \cup old)
  IN Cardinality({j \in seen : Running(j)} \ Ended(seen, gone, marker))

\* The start passes deduplication, the limit and the GPU check, draws job id j
\* and claims its key.
StartAdmitted(j, r, old, gone, ok) ==
  /\ Free
  /\ pc[j] = "idle"
  /\ \A i \in Job : i < j => pc[i] # "idle"
  /\ KeyFree(r.op, gone)
  /\ RunningCount(old, gone) < MaxConcurrent
  /\ Sweep(Job \ settled, old, gone, ok)
  /\ opIndex' = [k \in OpKey |-> IF k = r.op THEN j
                                 ELSE IndexSwept(Job \ settled, old, gone)[k]]
  /\ pc' = [pc EXCEPT ![j] = "claimed"]
  /\ loop' = j
  /\ req' = [req EXCEPT ![j] = r]
  /\ UNCHANGED <<mgr, windows, reservations, os, history>>

\* The machine is full, the requested card is unknown, or the index cannot be
\* written (torn: the file was created, its content was not).  The sweep and
\* the removal of a stale index have happened all the same.
StartRefused(r, old, gone, ok, torn) ==
  /\ Free
  /\ KeyFree(r.op, gone)
  /\ \/ ~torn /\ RunningCount(old, gone) >= MaxConcurrent
     \/ ~torn /\ r.res \cap Gpu # {}
     \/ torn /\ ~ok /\ r.op # None /\ RunningCount(old, gone) < MaxConcurrent
  /\ Sweep(Job \ settled, old, gone, ok)
  /\ opIndex' = [k \in OpKey |-> IF k = r.op THEN IF torn THEN Garbage ELSE None
                                 ELSE IndexSwept(Job \ settled, old, gone)[k]]
  /\ UNCHANGED <<mgr, windows, reservations, starts, os, history>>

MakeDirs(j) ==
  /\ loop = j
  /\ pc[j] = "claimed"
  /\ meta' = [meta EXCEPT ![j].status = "dir"]
  /\ pc' = [pc EXCEPT ![j] = "dirs"]
  /\ UNCHANGED <<marker, opIndex, lock, mgr, windows, reservations, knowledge, loop, req, os, history>>

\* The next resource of the start: named locks in sorted order, then the card.
Missing(j) == {r \in req[j].res : lock[r] # j}
NextResource(j, r) == r \in Missing(j) /\ \A s \in Missing(j) : r <= s

\* gpuHolderState, which refreshes the holder's record on the way.
HolderEnded(h, gone) ==
  IF h \in Job \ locksHeld THEN Ended({h}, gone, marker) ELSE {}
\* Mutants: a cancelled start's kept locks, or a torn lock file, are misjudged.
HolderGone_NoKeptLocks(h, gone) ==
  h \in {None, Garbage} \/ (h \in Job /\ ~Running(h)) \/ h \in HolderEnded(h, gone)
HolderGone_Torn(h, gone) ==
  h = None \/ (h \in Job \ locksHeld /\ ~Running(h)) \/ h \in HolderEnded(h, gone)
HolderGone(h, gone) ==
  \/ h \in {None, Garbage}
  \/ h \in Job \ locksHeld /\ ~Running(h)
  \/ h \in HolderEnded(h, gone)

\* acquireLockFile succeeds, reaping the file of a holder that is gone; a card
\* also needs the dying process of a cancelled start to be gone.
TakeResource(j, r, gone, ok) ==
  LET h == lock[r]
      E == HolderEnded(h, gone)
  IN /\ loop = j
     /\ pc[j] = "dirs"
     /\ NextResource(j, r)
     /\ r \in Gpu => dyingCard[r] = None
     /\ HolderGone(h, gone)
     /\ lock' = [LockAfter(E) EXCEPT ![r] = j]
     /\ meta' = MetaAfter(E, marker, signalled, ok)
     /\ marker' = marker \ Discarded(E)
     /\ opIndex' = IndexAfter(E)
     /\ Learn({h} \cap (Job \ locksHeld), E)
     /\ UNCHANGED <<mgr, windows, reservations, starts, os, history>>

\* abandonStart: the directory or cwd is unusable, a resource is busy, or a
\* write failed.  The holds go first, then (FinishAbandon) the directory.
AbandonStart(j) ==
  /\ loop = j
  /\ pc[j] \in {"claimed", "dirs"}
  /\ lock' = ReleaseLocks({j})
  /\ opIndex' = DropIndex({j})
  /\ pc' = [pc EXCEPT ![j] = "abandon"]
  /\ UNCHANGED <<meta, marker, mgr, windows, reservations, knowledge, loop, req, os, history>>

FinishAbandon(j) ==
  /\ loop = j
  /\ pc[j] = "abandon"
  /\ RemoveJobDir(j)
  /\ Forget({j})
  /\ pc' = [pc EXCEPT ![j] = "answered"]
  /\ loop' = None
  /\ UNCHANGED <<opIndex, lock, mgr, windows, reservations, req, os, history>>

\* The record precedes the spawn; the window opens and the start awaits.
WriteRecord(j) ==
  /\ loop = j
  /\ pc[j] = "dirs"
  /\ Missing(j) = {}
  /\ meta' = [meta EXCEPT ![j].status = "running"]
  /\ starting' = starting \cup {j}
  /\ pc' = [pc EXCEPT ![j] = "parked"]
  /\ loop' = None
  /\ UNCHANGED <<marker, opIndex, lock, mgr, abort, lost, retiring, reservations, knowledge,
                 req, os, history>>

-----------------------------------------------------------------------------
(* start(): the window between the record and the process.  spawnJob awaits    *)
(* here (the operator name and the scripts on Windows), so a cancel, a lost     *)
(* connection and every other request interleave with a parked start.           *)

\* The start is over: its StartWindow and its caller's signal are nobody's any more.
CloseWindow(j) ==
  /\ starting' = starting \ {j}
  /\ abort' = abort \ {j}
  /\ lost' = lost \ {j}

\* Mutant: the kept locks stay kept.
StartCancelledUnspawned_Keeps(j) ==
  /\ Free
  /\ pc[j] = "parked"
  /\ j \in abort
  /\ CloseWindow(j)
  /\ pc' = [pc EXCEPT ![j] = "answered"]
  /\ UNCHANGED <<disk, mgr, retiring, reservations, knowledge, loop, req, os, history>>

\* spawnJob threw after a cancel: no process came up, so the locks kept for it go.
StartCancelledUnspawned(j) ==
  /\ Free
  /\ pc[j] = "parked"
  /\ j \in abort
  /\ lock' = IF j \in locksHeld
             THEN [r \in Resource |-> IF r \in Lock /\ lock[r] = j THEN None ELSE lock[r]]
             ELSE lock
  /\ locksHeld' = locksHeld \ {j}
  /\ CloseWindow(j)
  /\ pc' = [pc EXCEPT ![j] = "answered"]
  /\ UNCHANGED <<meta, marker, opIndex, mgr, retiring, dyingCard, knowledge, loop, req, os,
                 history>>

\* Mutant: the abort of a lost connection is swallowed.
StartGivenUp_NotLost(j) ==
  /\ Free
  /\ pc[j] = "parked"
  /\ j \notin abort \cup lost
  /\ lock' = ReleaseLocks({j})
  /\ opIndex' = DropIndex({j})
  /\ Forget({j})
  /\ pc' = [pc EXCEPT ![j] = "erasing"]
  /\ UNCHANGED <<meta, marker, mgr, windows, reservations, loop, req, os, history>>

\* spawnJob threw for a lost connection or on its own: the holds go at once, the
\* directory is removed asynchronously while the window answers "erasing".
StartGivenUp(j) ==
  /\ Free
  /\ pc[j] = "parked"
  /\ j \notin abort
  /\ lost' = lost \ {j}
  /\ lock' = ReleaseLocks({j})
  /\ opIndex' = DropIndex({j})
  /\ Forget({j})
  /\ pc' = [pc EXCEPT ![j] = "erasing"]
  /\ UNCHANGED <<meta, marker, mgr, starting, abort, retiring, reservations, loop, req, os, history>>

\* The caller is told that the start failed.
FinishErasing(j) ==
  /\ Free
  /\ pc[j] = "erasing"
  /\ RemoveJobDir(j)
  /\ CloseWindow(j)
  /\ pc' = [pc EXCEPT ![j] = "retired"]
  /\ UNCHANGED <<opIndex, lock, mgr, retiring, reservations, knowledge, loop, req, os, history>>

\* The last look at the abort flags, then spawn; the awaiting start resumes in
\* the same turn of the loop, so only callers already queued in it fall between.
Spawn(j) ==
  /\ Free
  /\ pc[j] = "parked"
  /\ j \notin abort \cup lost
  /\ proc' = [proc EXCEPT ![j] = "alive"]
  /\ watch' = [watch EXCEPT ![j] = "plain"]
  /\ pc' = [pc EXCEPT ![j] = "spawned"]
  /\ loop' = j
  /\ UNCHANGED <<disk, mgr, windows, reservations, knowledge, req, history>>

\* holdCardUntilExit: memory holds the card even if its file cannot be written.
CardsOf(j) == req[j].res \cap Gpu

\* Cancelled while it was being spawned: the process is stopped, and its card and
\* named locks stay held until it is gone.
KillCancelledSpawn(j, ok) ==
  /\ loop = j
  /\ pc[j] = "spawned"
  /\ j \in abort
  /\ CloseWindow(j)
  /\ dyingCard' = [g \in Gpu |-> IF g \in CardsOf(j) THEN j ELSE dyingCard[g]]
  /\ lock' = [r \in Resource |-> IF ok /\ r \in CardsOf(j) /\ lock[r] = None THEN j ELSE lock[r]]
  /\ cancelled' = cancelled \cup {j}
  /\ watch' = [watch EXCEPT ![j] = "dying"]
  /\ pc' = [pc EXCEPT ![j] = "answered"]
  /\ loop' = None
  /\ UNCHANGED <<meta, marker, opIndex, mgr, retiring, locksHeld, settled, signalled, proc, req,
                 history>>

\* retireStartedProcess: stop the process and undo the start when it has exited.
Retire(j, ok) ==
  /\ CloseWindow(j)
  /\ retiring' = retiring \cup {j}
  /\ meta' = IF ok THEN [meta EXCEPT ![j] = [@ EXCEPT !.retiring = TRUE, !.pid = TRUE]] ELSE meta
  /\ watch' = [watch EXCEPT ![j] = "retire"]
  /\ pc' = [pc EXCEPT ![j] = "retired"]
  /\ loop' = None
  /\ UNCHANGED <<marker, opIndex, lock, mgr, reservations, knowledge, proc, req, history>>

RetireLost(j, ok) ==
  /\ loop = j
  /\ pc[j] = "spawned"
  /\ j \in lost \ abort
  /\ Retire(j, ok)

\* Mutant: the record is written whatever happened during the spawn.
WritePid_Unchecked(j) ==
  /\ loop = j
  /\ pc[j] = "spawned"
  /\ meta' = [meta EXCEPT ![j].pid = TRUE]
  /\ pc' = [pc EXCEPT ![j] = "pid"]
  /\ UNCHANGED <<marker, opIndex, lock, mgr, windows, reservations, knowledge, loop, req, os, history>>

\* The pid is recorded before the identity probe.
WritePid(j) ==
  /\ loop = j
  /\ pc[j] = "spawned"
  /\ j \notin lost \cup abort
  /\ meta' = [meta EXCEPT ![j].pid = TRUE]
  /\ pc' = [pc EXCEPT ![j] = "pid"]
  /\ UNCHANGED <<marker, opIndex, lock, mgr, windows, reservations, knowledge, loop, req, os, history>>

\* Either record write failed, or the process cannot be identified where it must.
RetireUnrecorded(j, ok) ==
  /\ loop = j
  /\ \/ pc[j] = "spawned" /\ j \notin lost \cup abort /\ FALSE \in WriteOutcomes
     \/ pc[j] = "pid" /\ FALSE \in WriteOutcomes
     \/ pc[j] = "pid" /\ RequireIdentity
  /\ Retire(j, ok)

StartSucceeds(j) ==
  /\ loop = j
  /\ pc[j] = "pid"
  /\ CloseWindow(j)
  /\ pc' = [pc EXCEPT ![j] = "answered"]
  /\ loop' = None
  /\ UNCHANGED <<disk, mgr, retiring, reservations, knowledge, req, os, history>>

-----------------------------------------------------------------------------
(* cancel(), and the exit callback of a child handle.                          *)

\* A start in its window is settled as cancelled at once; its card goes back and
\* its named locks wait for the process that may still come up.
CancelStarting(j, ok) ==
  /\ mgr = "up"
  /\ j \in starting
  /\ \/ loop = None /\ pc[j] = "parked"
     \/ loop = j /\ pc[j] = "spawned"
  /\ abort' = abort \cup {j}
  /\ locksHeld' = IF req[j].res \cap Lock # {} THEN locksHeld \cup {j} ELSE locksHeld
  /\ starting' = starting \ {j}
  /\ meta' = IF ok THEN [meta EXCEPT ![j] = [@ EXCEPT !.status = "unknown", !.reason = "cancelled"]] ELSE meta
  /\ lock' = [r \in Resource |-> IF r \in Gpu /\ lock[r] = j THEN None ELSE lock[r]]
  /\ settled' = settled \cup {j}
  /\ cancelled' = cancelled \ {j}
  /\ signalled' = signalled \ {j}
  /\ UNCHANGED <<marker, opIndex, mgr, lost, retiring, dyingCard, starts, os, history>>

\* A running job: the request is made durable, then the process is signalled.
CancelRunning(j, gone, ok) ==
  /\ Free
  /\ Running(j) /\ meta[j].pid
  /\ ~InWindow(j)
  /\ j \notin Ended({j}, gone, marker)
  /\ cancelled' = cancelled \cup {j}
  /\ meta' = IF ok THEN [meta EXCEPT ![j].cancelReq = TRUE] ELSE meta
  /\ UNCHANGED <<marker, opIndex, lock, mgr, windows, reservations, settled, signalled, starts,
                 os, history>>

\* handleChildExit: the exit code is recorded unless a cancel outranks it (the
\* marker is create-only), signal evidence is kept, the record is refreshed.
ExitMarker(j) ==
  IF proc[j] = "exited" /\ j \notin cancelled /\ meta[j].status # "none"
  THEN marker \cup {j} ELSE marker
ExitSignal(j) == IF proc[j] = "killed" THEN signalled \cup {j} ELSE signalled

ExitPlain(j, gone, ok) ==
  LET E == Ended({j}, gone, ExitMarker(j))
  IN /\ Free
     /\ Dead(j)
     /\ watch[j] = "plain"
     /\ meta' = MetaAfter(E, ExitMarker(j), ExitSignal(j), ok)
     /\ marker' = ExitMarker(j) \ Discarded(E)
     /\ lock' = LockAfter(E)
     /\ opIndex' = IndexAfter(E)
     /\ settled' = (settled \cup E \cup {i \in {j} : Terminal(i)}) \ Discarded(E)
     /\ cancelled' = cancelled \ E
     /\ signalled' = ExitSignal(j) \ E
     /\ watch' = [watch EXCEPT ![j] = "none"]
     /\ UNCHANGED <<mgr, windows, reservations, starts, proc, history>>

\* A retired start: handleChildExit reads nothing into it, then the start's
\* holds and its directory go.
ExitRetired(j) ==
  /\ Free
  /\ Dead(j)
  /\ watch[j] = "retire"
  /\ retiring' = retiring \ {j}
  /\ lock' = ReleaseLocks({j})
  /\ opIndex' = DropIndex({j})
  /\ RemoveJobDir(j)
  /\ Forget({j})
  /\ watch' = [watch EXCEPT ![j] = "none"]
  /\ UNCHANGED <<mgr, starting, abort, lost, reservations, starts, proc, history>>

\* A start cancelled while spawning: now its card and its named locks go back.
ExitDying(j, gone, ok) ==
  LET E == Ended({j}, gone, ExitMarker(j))
  IN /\ Free
     /\ Dead(j)
     /\ watch[j] = "dying"
     /\ meta' = MetaAfter(E, ExitMarker(j), ExitSignal(j), ok)
     /\ marker' = ExitMarker(j)
     /\ settled' = settled \cup E \cup {i \in {j} : Terminal(i)}
     /\ cancelled' = cancelled \ {j}
     /\ signalled' = ExitSignal(j) \ E
     /\ dyingCard' = [g \in Gpu |-> IF dyingCard[g] = j THEN None ELSE dyingCard[g]]
     /\ lock' = ReleaseLocks({j})
     /\ locksHeld' = locksHeld \ {j}
     /\ watch' = [watch EXCEPT ![j] = "none"]
     /\ UNCHANGED <<opIndex, mgr, windows, starts, proc, history>>

-----------------------------------------------------------------------------
(* The operating system, the relay connection, and crashes of the agent.       *)

\* The command ends; the wrapper records its exit code if it still can.
CommandEnds(j, written) ==
  /\ Working(j)
  /\ proc' = [proc EXCEPT ![j] = "closing"]
  /\ marker' = IF written /\ meta[j].status # "none" THEN marker \cup {j} ELSE marker
  /\ UNCHANGED <<meta, opIndex, lock, mgr, windows, reservations, knowledge, starts, watch, history>>

ProcExits(j) ==
  /\ proc[j] = "closing"
  /\ proc' = [proc EXCEPT ![j] = "exited"]
  /\ UNCHANGED <<disk, mgr, windows, reservations, knowledge, starts, watch, history>>

ProcKilled(j) ==
  /\ Alive(j)
  /\ proc' = [proc EXCEPT ![j] = "killed"]
  /\ UNCHANGED <<disk, mgr, windows, reservations, knowledge, starts, watch, history>>

\* The connection the starts came from is gone: their signal is aborted.
ConnLost ==
  /\ mgr = "up"
  /\ loop = None \/ (loop \in Job /\ pc[loop] = "spawned")
  /\ lost' = lost \cup {j \in Job : pc[j] \in {"parked", "spawned"}}
  /\ UNCHANGED <<disk, mgr, starting, abort, retiring, reservations, knowledge, starts, os, history>>

InFlight(j) == pc[j] \in {"claimed", "dirs", "abandon", "parked", "spawned", "pid", "erasing"}

\* The agent process dies and is started again: memory goes, disk and the job
\* processes stay.
LoseMemory ==
  /\ crashes < MaxCrashes
  /\ crashes' = crashes + 1
  /\ mgr' = "none"
  /\ starting' = {} /\ abort' = {} /\ lost' = {} /\ retiring' = {}
  /\ settled' = {} /\ cancelled' = {} /\ signalled' = {}
  /\ locksHeld' = {}
  /\ dyingCard' = [g \in Gpu |-> None]
  /\ watch' = [j \in Job |-> "none"]
  /\ pc' = [j \in Job |-> IF InFlight(j) THEN "crashed" ELSE pc[j]]
  /\ loop' = None
  /\ orphan' = orphan \cup {j \in Job : Alive(j) /\ ~(Running(j) /\ meta[j].pid)}
  /\ UNCHANGED <<proc, req>>

Crash == LoseMemory /\ UNCHANGED disk

\* Between creating and writing the operation index, or a lock file.
CrashInClaim(j) ==
  /\ loop = j /\ pc[j] = "claimed" /\ req[j].op # None
  /\ opIndex' = [opIndex EXCEPT ![req[j].op] = Garbage]
  /\ LoseMemory
  /\ UNCHANGED <<meta, marker, lock>>

CrashInLock(j, r) ==
  /\ loop = j /\ pc[j] = "dirs" /\ NextResource(j, r) /\ lock[r] = None
  /\ lock' = [lock EXCEPT ![r] = Garbage]
  /\ LoseMemory
  /\ UNCHANGED <<meta, marker, opIndex>>

\* settle() released the locks and died before the terminal record.
CrashInSettle(j, gone) ==
  /\ Free
  /\ j \in Ended({j}, gone, marker) \ Discarded({j})
  /\ lock' = LockAfter({j})
  /\ LoseMemory
  /\ UNCHANGED <<meta, marker, opIndex>>

\* abandonStart of a retired start died before the directory went.
CrashInDiscard(j, gone) ==
  /\ Free
  /\ \/ j \in Discarded(Ended({j}, gone, marker))
     \/ watch[j] = "retire" /\ Dead(j)
  /\ lock' = ReleaseLocks({j})
  /\ opIndex' = DropIndex({j})
  /\ LoseMemory
  /\ UNCHANGED <<meta, marker>>

\* getJobManager: recover() refreshes every record, sweeps, reaps the locks of
\* holders that are gone and the indexes without a job directory.
Recover(old, gone, ok) ==
  LET E == Ended(Job, gone, marker)
      over == E \cup old
  IN /\ mgr = "none"
     /\ mgr' = "up"
     /\ old \subseteq Expirable \cup (E \ Discarded(E))
     /\ meta' = [j \in Job |-> IF j \in old THEN NoMeta
                               ELSE MetaAfter(E, marker, signalled, ok)[j]]
     /\ marker' = marker \ (old \cup Discarded(E))
     /\ lock' = [r \in Resource |-> IF lock[r] \in Job /\ Running(lock[r]) /\ lock[r] \notin over
                                    THEN lock[r] ELSE None]
     /\ opIndex' = [k \in OpKey |-> IF opIndex[k] \in Job /\ meta'[opIndex[k]].status # "none"
                                    THEN opIndex[k] ELSE None]
     /\ settled' = {j \in Job : Terminal(j) \/ j \in E} \ (old \cup Discarded(E))
     /\ UNCHANGED <<windows, reservations, cancelled, signalled, starts, os, history>>

\* The jobs root was unusable when the manager was created: nothing recovered.
RecoverSkipped ==
  /\ mgr = "none"
  /\ mgr' = "up"
  /\ UNCHANGED <<disk, windows, reservations, knowledge, starts, os, history>>

\* Mutant: without a manager, a record without a pid is always a start in flight.
StorePoll_NoPidless(j, gone, ok) ==
  /\ mgr = "none"
  /\ req[j].webhook
  /\ Running(j) /\ meta[j].pid
  /\ j \in marker \/ j \in gone
  /\ meta' = MetaAfter({j}, marker, signalled, ok)
  /\ marker' = marker \ Discarded({j})
  /\ UNCHANGED <<opIndex, lock, mgr, windows, reservations, knowledge, starts, os, history>>

\* The job_ended scan while no manager exists: only the record is touched.  A
\* record without a pid is over once the start grace has passed.
StorePoll(j, gone, ok) ==
  /\ mgr = "none"
  /\ req[j].webhook
  /\ Running(j)
  /\ j \in marker \/ ~meta[j].pid \/ j \in gone
  /\ meta' = MetaAfter({j}, marker, signalled, ok)
  /\ marker' = marker \ Discarded({j})
  /\ UNCHANGED <<opIndex, lock, mgr, windows, reservations, knowledge, starts, os, history>>

-----------------------------------------------------------------------------
StartStep(j) ==
  \/ MakeDirs(j) \/ WriteRecord(j) \/ AbandonStart(j) \/ FinishAbandon(j)
  \/ \E r \in Resource, gone \in SUBSET MaybeGone, ok \in WriteOutcomes : TakeResource(j, r, gone, ok)
  \/ StartCancelledUnspawned(j) \/ StartGivenUp(j) \/ FinishErasing(j)
  \/ Spawn(j) \/ WritePid(j) \/ StartSucceeds(j)
  \/ \E ok \in WriteOutcomes :
       KillCancelledSpawn(j, ok) \/ RetireLost(j, ok) \/ RetireUnrecorded(j, ok)

ExitStep(j) ==
  \/ ExitRetired(j)
  \/ \E gone \in SUBSET MaybeGone, ok \in WriteOutcomes : ExitPlain(j, gone, ok) \/ ExitDying(j, gone, ok)

Cancel(j) ==
  \E gone \in SUBSET MaybeGone, ok \in WriteOutcomes : CancelStarting(j, ok) \/ CancelRunning(j, gone, ok)

WebhookScan(j) ==
  \E gone \in SUBSET MaybeGone, ok \in WriteOutcomes : WebhookPoll(j, gone, ok) \/ StorePoll(j, gone, ok)

Requested ==
  \/ \E k \in OpKey : StatusByKey(k)
  \/ \E gone \in SUBSET MaybeGone, ok \in WriteOutcomes :
       \/ \E j \in Job : RefreshOne(j, gone, ok)
       \/ \E old \in SUBSET Expirable :
            \/ \E S \in SUBSET {j \in Job : Recorded(j)} : List(S, old, gone, ok)
            \/ \E r \in Requests :
                 \/ \E j \in Job : StartAdmitted(j, r, old, gone, ok)
                 \/ \E torn \in BOOLEAN : StartRefused(r, old, gone, ok, torn)

Crashes ==
  \/ Crash
  \/ \E j \in Job : CrashInClaim(j) \/ \E r \in Resource : CrashInLock(j, r)
  \/ \E j \in Job, gone \in SUBSET MaybeGone : CrashInSettle(j, gone) \/ CrashInDiscard(j, gone)

Recovery ==
  \/ RecoverSkipped
  \/ \E old \in SUBSET Job, gone \in SUBSET MaybeGone, ok \in WriteOutcomes : Recover(old, gone, ok)

System(j) ==
  \/ \E written \in BOOLEAN : CommandEnds(j, written)
  \/ ProcExits(j) \/ ProcKilled(j)

Next ==
  \/ Requested \/ Crashes \/ Recovery \/ ConnLost
  \/ \E j \in Job : StartStep(j) \/ ExitStep(j) \/ Cancel(j) \/ WebhookScan(j) \/ System(j)

\* A start that has been called goes on; the event loop delivers exit events; the
\* 30 s timer scans; a process that was sent SIGKILL dies.
Fairness ==
  \A j \in Job :
    /\ WF_vars(StartStep(j))
    /\ WF_vars(ExitStep(j))
    /\ WF_vars(WebhookScan(j))
    /\ WF_vars(watch[j] \in {"retire", "dying"} /\ ProcKilled(j))

Spec == Init /\ [][Next]_vars
FairSpec == Spec /\ Fairness
=============================================================================
