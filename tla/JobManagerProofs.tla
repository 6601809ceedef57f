--------------------------- MODULE JobManagerProofs ---------------------------
(***************************************************************************)
(* Theorems about JobManager, for every set of jobs, keys, locks, cards and  *)
(* requests, any capacity, any number of crashes and failing record writes: a *)
(* key answers for its job as long as the record is there, and starts it at    *)
(* most once; what a job's record says of its end; two running jobs never     *)
(* share a resource, nothing stays held for nobody, no job is reported over    *)
(* while it runs, and the limit holds.                                       *)
(***************************************************************************)
EXTENDS JobProperties, FiniteSetTheorems, TLAPS

-----------------------------------------------------------------------------
(* The shapes of the operators the actions are built from.                    *)

\* Settling any set of jobs leaves well-formed records.
LEMMA MetaAfterType ==
  ASSUME TypeOK, NEW E, NEW mk, NEW sig, NEW ok
  PROVE  MetaAfter(E, mk, sig, ok) \in [Job -> Meta]
<1>1. ASSUME NEW j \in Job PROVE Outcome(j, mk, sig) \in Meta
  <2>1. meta[j] \in Meta
    BY <1>1 DEF TypeOK
  <2>2. ASSUME NEW s \in Status, NEW how \in Reason
        PROVE  [meta[j] EXCEPT !.status = s, !.reason = how] \in Meta
    BY <2>1, <2>2 DEF Meta
  <2>3. /\ "exited" \in Status /\ "unknown" \in Status
        /\ {"none", "cancelled", "signal", "vanished"} \subseteq Reason
    BY DEF Status, Reason
  <2> QED BY <2>2, <2>3 DEF Outcome
<1>2. NoMeta \in Meta
  BY DEF NoMeta, Meta, Status, Reason
<1> QED BY <1>1, <1>2 DEF MetaAfter, TypeOK

\* Releasing locks and dropping indexes only ever writes "nobody".
LEMMA HoldsType ==
  ASSUME TypeOK, NEW E
  PROVE  /\ LockAfter(E) \in [Resource -> Job \cup {None, Garbage}]
         /\ ReleaseLocks(E) \in [Resource -> Job \cup {None, Garbage}]
         /\ IndexAfter(E) \in [OpKey -> Job \cup {None, Garbage}]
         /\ DropIndex(E) \in [OpKey -> Job \cup {None, Garbage}]
BY DEF TypeOK, LockAfter, ReleaseLocks, IndexAfter, DropIndex

LEMMA EndedType == ASSUME NEW S, NEW gone, NEW mk PROVE Ended(S, gone, mk) \subseteq S
BY DEF Ended

\* Removing a job directory takes its record, or nothing.
LEMMA Removal ==
  ASSUME TypeOK, NEW j \in Job, RemoveJobDir(j)
  PROVE  /\ meta' \in [Job -> Meta] /\ marker' \subseteq Job
         /\ meta'[j] \in {meta[j], NoMeta} /\ \A i \in Job : i # j => meta'[i] = meta[i]
         /\ \A i \in Job : i \in marker' => i \in marker
<1>1. NoMeta \in Meta
  BY DEF NoMeta, Meta, Status, Reason
<1>2. CASE meta' = [meta EXCEPT ![j] = NoMeta] /\ marker' = marker \ {j}
  BY <1>1, <1>2 DEF TypeOK
<1>3. CASE UNCHANGED <<meta, marker>>
  BY <1>3 DEF TypeOK
<1> QED BY <1>2, <1>3 DEF RemoveJobDir

LEMMA InitType == Init => TypeOK
<1> SUFFICES ASSUME Init PROVE TypeOK OBVIOUS
<1>1. NoMeta \in Meta
  BY DEF NoMeta, Meta, Status, Reason
<1>2. NoRequest \in Request
  BY DEF NoRequest, Request
<1> QED BY <1>1, <1>2 DEF Init, TypeOK, StartPC, ProcState

\* The sweep before an admission and in list() keeps the shape of all it writes.
LEMMA SweepType ==
  ASSUME TypeOK, NEW S \in SUBSET Job, NEW old, NEW gone, NEW ok, Sweep(S, old, gone, ok)
  PROVE  /\ meta' \in [Job -> Meta]
         /\ marker' \subseteq Job
         /\ lock' \in [Resource -> Job \cup {None, Garbage}]
         /\ settled' \subseteq Job /\ cancelled' \subseteq Job /\ signalled' \subseteq Job
         /\ IndexSwept(S, old, gone) \in [OpKey -> Job \cup {None, Garbage}]
<1>1. NoMeta \in Meta
  BY DEF NoMeta, Meta, Status, Reason
<1>2. Ended(S \ old, gone, marker) \subseteq Job
  BY EndedType
<1>3. meta' \in [Job -> Meta]
  <2>1. MetaAfter(Ended(S \ old, gone, marker), marker, signalled, ok) \in [Job -> Meta]
    BY MetaAfterType
  <2> QED BY <1>1, <2>1 DEF Sweep
<1>4. lock' \in [Resource -> Job \cup {None, Garbage}]
  BY HoldsType DEF Sweep
<1>5. IndexSwept(S, old, gone) \in [OpKey -> Job \cup {None, Garbage}]
  BY HoldsType DEF IndexSwept
<1>6. marker' \subseteq Job /\ settled' \subseteq Job /\ cancelled' \subseteq Job /\ signalled' \subseteq Job
  BY <1>2 DEF Sweep, TypeOK
<1> QED BY <1>3, <1>4, <1>5, <1>6

-----------------------------------------------------------------------------
LEMMA RefreshType ==
  ASSUME TypeOK, NEW j \in Job, NEW gone, NEW ok, RefreshOne(j, gone, ok) PROVE TypeOK'
<1>1. Ended({j}, gone, marker) \subseteq Job
  BY EndedType
<1> QED BY <1>1, MetaAfterType, HoldsType
        DEF RefreshOne, Learn, TypeOK, windows, reservations, starts, os, history

LEMMA RequestedType == TypeOK /\ Requested => TypeOK'
<1> SUFFICES ASSUME TypeOK, Requested PROVE TypeOK' OBVIOUS
<1>1. ASSUME NEW k \in OpKey, StatusByKey(k) PROVE TypeOK'
  BY <1>1 DEF StatusByKey, TypeOK, windows, reservations, knowledge, starts, os, history
<1>2. ASSUME NEW j \in Job, NEW gone, NEW ok, RefreshOne(j, gone, ok) PROVE TypeOK'
  BY <1>2, RefreshType
<1>3. ASSUME NEW S \in SUBSET Job, NEW old, NEW gone, NEW ok, List(S, old, gone, ok) PROVE TypeOK'
  BY <1>3, SweepType DEF List, TypeOK, windows, reservations, starts, os, history
<1>4. ASSUME NEW j \in Job, NEW r \in Requests, NEW old, NEW gone, NEW ok,
             StartAdmitted(j, r, old, gone, ok)
      PROVE TypeOK'
  <2>1. Job \ settled \in SUBSET Job OBVIOUS
  <2>2. Sweep(Job \ settled, old, gone, ok)
    BY <1>4 DEF StartAdmitted
  <2>3. opIndex' \in [OpKey -> Job \cup {None, Garbage}]
    <3>1. IndexSwept(Job \ settled, old, gone) \in [OpKey -> Job \cup {None, Garbage}]
      BY <2>1, <2>2, SweepType
    <3> QED BY <1>4, <3>1 DEF StartAdmitted
  <2>4. pc' \in [Job -> StartPC] /\ loop' \in Job \cup {None} /\ req' \in [Job -> Request]
    BY <1>4, RequestAssumption DEF StartAdmitted, TypeOK, StartPC
  <2>5. UNCHANGED <<mgr, windows, reservations, os, history>>
    BY <1>4 DEF StartAdmitted
  <2> QED BY <2>1, <2>2, <2>3, <2>4, <2>5, SweepType
          DEF TypeOK, windows, reservations, os, history
<1>5. ASSUME NEW r \in Requests, NEW old, NEW gone, NEW ok, NEW torn,
             StartRefused(r, old, gone, ok, torn)
      PROVE TypeOK'
  <2>1. Job \ settled \in SUBSET Job OBVIOUS
  <2>2. Sweep(Job \ settled, old, gone, ok)
    BY <1>5 DEF StartRefused
  <2>3. opIndex' \in [OpKey -> Job \cup {None, Garbage}]
    <3>1. IndexSwept(Job \ settled, old, gone) \in [OpKey -> Job \cup {None, Garbage}]
      BY <2>1, <2>2, SweepType
    <3> QED BY <1>5, <3>1 DEF StartRefused
  <2>4. UNCHANGED <<mgr, windows, reservations, starts, os, history>>
    BY <1>5 DEF StartRefused
  <2> QED BY <2>1, <2>2, <2>3, <2>4, SweepType
          DEF TypeOK, windows, reservations, starts, os, history
<1> QED BY <1>1, <1>2, <1>3, <1>4, <1>5 DEF Requested

LEMMA StartStepType == ASSUME TypeOK, NEW j \in Job, StartStep(j) PROVE TypeOK'
<1>0. NoMeta \in Meta /\ {TRUE, FALSE} \subseteq BOOLEAN
  BY DEF NoMeta, Meta, Status, Reason
<1>1. CASE MakeDirs(j)
  BY <1>1 DEF MakeDirs, TypeOK, Meta, Status, StartPC, windows, reservations, knowledge, os, history
<1>2. CASE WriteRecord(j)
  BY <1>2 DEF WriteRecord, TypeOK, Meta, Status, StartPC, reservations, knowledge, os, history
<1>3. CASE AbandonStart(j)
  BY <1>3, HoldsType
     DEF AbandonStart, TypeOK, StartPC, windows, reservations, knowledge, os, history
<1>4. CASE FinishAbandon(j)
  BY <1>4, Removal DEF FinishAbandon, Forget, TypeOK, StartPC, windows, reservations, os, history
<1>5. ASSUME NEW r \in Resource, NEW gone, NEW ok, TakeResource(j, r, gone, ok) PROVE TypeOK'
  <2>1. HolderEnded(lock[r], gone) \subseteq Job
    BY DEF HolderEnded, Ended
  <2>2. meta' \in [Job -> Meta]
    BY <1>5, MetaAfterType DEF TakeResource
  <2>3. /\ lock' \in [Resource -> Job \cup {None, Garbage}]
        /\ opIndex' \in [OpKey -> Job \cup {None, Garbage}]
    BY <1>5, HoldsType DEF TakeResource
  <2>4. marker' \subseteq Job /\ settled' \subseteq Job /\ cancelled' \subseteq Job /\ signalled' \subseteq Job
    BY <1>5, <2>1 DEF TakeResource, Learn, TypeOK
  <2>5. UNCHANGED <<mgr, windows, reservations, starts, os, history>>
    BY <1>5 DEF TakeResource
  <2> QED BY <2>2, <2>3, <2>4, <2>5 DEF TypeOK, windows, reservations, starts, os, history
<1>6. CASE StartCancelledUnspawned(j)
  BY <1>6 DEF StartCancelledUnspawned, CloseWindow, TypeOK, StartPC, knowledge, os, history
<1>7. CASE StartGivenUp(j)
  BY <1>7, HoldsType DEF StartGivenUp, Forget, TypeOK, StartPC, reservations, os, history
<1>8. CASE FinishErasing(j)
  BY <1>8, Removal DEF FinishErasing, CloseWindow, TypeOK, StartPC, reservations, knowledge, os, history
<1>9. CASE Spawn(j)
  BY <1>9 DEF Spawn, TypeOK, StartPC, ProcState, disk, windows, reservations, knowledge, history
<1>10. CASE WritePid(j)
  <2>1. meta' \in [Job -> Meta]
    <3>1. [meta[j] EXCEPT !.pid = TRUE] \in Meta
      BY DEF TypeOK, Meta
    <3>2. meta' = [meta EXCEPT ![j] = [meta[j] EXCEPT !.pid = TRUE]]
      BY <1>10 DEF WritePid, TypeOK
    <3> QED BY <3>1, <3>2 DEF TypeOK
  <2>2. pc' \in [Job -> StartPC]
    BY <1>10 DEF WritePid, TypeOK, StartPC
  <2> QED BY <1>10, <2>1, <2>2 DEF WritePid, TypeOK, windows, reservations, knowledge, os, history
<1>11. CASE StartSucceeds(j)
  BY <1>11 DEF StartSucceeds, CloseWindow, TypeOK, StartPC, disk, reservations, knowledge, os, history
<1>12. ASSUME NEW ok, KillCancelledSpawn(j, ok) PROVE TypeOK'
  <2>1. dyingCard' \in [Gpu -> Job \cup {None}] /\ lock' \in [Resource -> Job \cup {None, Garbage}]
    BY <1>12 DEF KillCancelledSpawn, TypeOK
  <2>2. /\ starting' \subseteq Job /\ abort' \subseteq Job /\ lost' \subseteq Job /\ cancelled' \subseteq Job
        /\ loop' \in Job \cup {None}
    BY <1>12 DEF KillCancelledSpawn, CloseWindow, TypeOK
  <2>3. watch' \in [Job -> {"none", "plain", "retire", "dying"}] /\ pc' \in [Job -> StartPC]
    BY <1>12 DEF KillCancelledSpawn, TypeOK, StartPC
  <2> QED BY <1>12, <2>1, <2>2, <2>3 DEF KillCancelledSpawn, TypeOK, history
<1>13. ASSUME NEW ok, Retire(j, ok) PROVE TypeOK'
  <2>1. meta' \in [Job -> Meta]
    BY <1>13 DEF Retire, TypeOK, Meta
  <2>2. /\ starting' \subseteq Job /\ abort' \subseteq Job /\ lost' \subseteq Job /\ retiring' \subseteq Job
        /\ loop' \in Job \cup {None}
    BY <1>13 DEF Retire, CloseWindow, TypeOK
  <2>3. watch' \in [Job -> {"none", "plain", "retire", "dying"}] /\ pc' \in [Job -> StartPC]
    BY <1>13 DEF Retire, TypeOK, StartPC
  <2> QED BY <1>13, <2>1, <2>2, <2>3 DEF Retire, TypeOK, reservations, knowledge, history
<1>14. ASSUME NEW ok, RetireLost(j, ok) \/ RetireUnrecorded(j, ok) PROVE TypeOK'
  BY <1>13, <1>14 DEF RetireLost, RetireUnrecorded
<1> QED BY <1>1, <1>2, <1>3, <1>4, <1>5, <1>6, <1>7, <1>8, <1>9, <1>10, <1>11, <1>12, <1>14
        DEF StartStep

LEMMA ExitStepType == ASSUME TypeOK, NEW j \in Job, ExitStep(j) PROVE TypeOK'
<1>1. CASE ExitRetired(j)
  BY <1>1, HoldsType, Removal DEF ExitRetired, Forget, TypeOK, reservations, starts, history
<1>2. ASSUME NEW gone, NEW ok, ExitPlain(j, gone, ok) PROVE TypeOK'
  <2>1. Ended({j}, gone, ExitMarker(j)) \subseteq Job
    BY EndedType
  <2>2. meta' \in [Job -> Meta]
    BY <1>2, MetaAfterType DEF ExitPlain
  <2>3. /\ lock' \in [Resource -> Job \cup {None, Garbage}]
        /\ opIndex' \in [OpKey -> Job \cup {None, Garbage}]
    BY <1>2, HoldsType DEF ExitPlain
  <2>4. marker' \subseteq Job /\ settled' \subseteq Job /\ cancelled' \subseteq Job /\ signalled' \subseteq Job
    BY <1>2, <2>1 DEF ExitPlain, ExitMarker, ExitSignal, TypeOK
  <2>5. watch' \in [Job -> {"none", "plain", "retire", "dying"}]
    BY <1>2 DEF ExitPlain, TypeOK
  <2>6. UNCHANGED <<mgr, windows, reservations, starts, proc, history>>
    BY <1>2 DEF ExitPlain
  <2> QED BY <2>2, <2>3, <2>4, <2>5, <2>6 DEF TypeOK, windows, reservations, starts, history
<1>3. ASSUME NEW gone, NEW ok, ExitDying(j, gone, ok) PROVE TypeOK'
  <2>1. Ended({j}, gone, ExitMarker(j)) \subseteq Job
    BY EndedType
  <2>2. meta' \in [Job -> Meta]
    BY <1>3, MetaAfterType DEF ExitDying
  <2>3. lock' \in [Resource -> Job \cup {None, Garbage}] /\ dyingCard' \in [Gpu -> Job \cup {None}]
    BY <1>3, HoldsType DEF ExitDying, TypeOK
  <2>4. /\ marker' \subseteq Job /\ settled' \subseteq Job /\ cancelled' \subseteq Job
        /\ signalled' \subseteq Job /\ locksHeld' \subseteq Job
    BY <1>3, <2>1 DEF ExitDying, ExitMarker, ExitSignal, TypeOK
  <2>5. watch' \in [Job -> {"none", "plain", "retire", "dying"}]
    BY <1>3 DEF ExitDying, TypeOK
  <2>6. UNCHANGED <<opIndex, mgr, windows, starts, proc, history>>
    BY <1>3 DEF ExitDying
  <2> QED BY <2>2, <2>3, <2>4, <2>5, <2>6 DEF TypeOK, windows, starts, history
<1> QED BY <1>1, <1>2, <1>3 DEF ExitStep
LEMMA CancelType == ASSUME TypeOK, NEW j \in Job, Cancel(j) PROVE TypeOK'
<1>1. ASSUME NEW ok, CancelStarting(j, ok) PROVE TypeOK'
  <2>1. meta' \in [Job -> Meta]
    BY <1>1 DEF CancelStarting, TypeOK, Meta, Status, Reason
  <2>2. lock' \in [Resource -> Job \cup {None, Garbage}]
    BY <1>1 DEF CancelStarting, TypeOK
  <2>3. /\ abort' \subseteq Job /\ locksHeld' \subseteq Job /\ starting' \subseteq Job
        /\ settled' \subseteq Job /\ cancelled' \subseteq Job /\ signalled' \subseteq Job
    BY <1>1 DEF CancelStarting, TypeOK
  <2> QED BY <1>1, <2>1, <2>2, <2>3 DEF CancelStarting, TypeOK, starts, os, history
<1>2. ASSUME NEW gone, NEW ok, CancelRunning(j, gone, ok) PROVE TypeOK'
  BY <1>2 DEF CancelRunning, TypeOK, Meta, windows, reservations, starts, os, history
<1> QED BY <1>1, <1>2 DEF Cancel

LEMMA WebhookScanType == ASSUME TypeOK, NEW j \in Job, WebhookScan(j) PROVE TypeOK'
<1>1. ASSUME NEW gone, NEW ok, RefreshOne(j, gone, ok) PROVE TypeOK'
  BY <1>1, RefreshType
<1>2. ASSUME NEW gone, NEW ok, StorePoll(j, gone, ok) PROVE TypeOK'
  BY <1>2, MetaAfterType
     DEF StorePoll, TypeOK, windows, reservations, knowledge, starts, os, history
<1> QED BY <1>1, <1>2 DEF WebhookScan, WebhookPoll

LEMMA SystemType == ASSUME TypeOK, NEW j \in Job, System(j) PROVE TypeOK'
<1>1. ASSUME NEW written, CommandEnds(j, written) PROVE TypeOK'
  BY <1>1 DEF CommandEnds, TypeOK, ProcState, windows, reservations, knowledge, starts, history
<1>2. CASE ProcExits(j)
  BY <1>2 DEF ProcExits, TypeOK, ProcState, disk, windows, reservations, knowledge, starts, history
<1>3. CASE ProcKilled(j)
  BY <1>3 DEF ProcKilled, TypeOK, ProcState, disk, windows, reservations, knowledge, starts, history
<1> QED BY <1>1, <1>2, <1>3 DEF System

LEMMA ConnLostType == TypeOK /\ ConnLost => TypeOK'
BY DEF ConnLost, TypeOK, disk, reservations, knowledge, starts, os, history

\* Whatever a crash leaves on disk, the memory it clears has the initial shape.
LEMMA LoseMemoryType ==
  ASSUME TypeOK, LoseMemory, UNCHANGED <<meta, marker>>,
         opIndex' \in [OpKey -> Job \cup {None, Garbage}],
         lock' \in [Resource -> Job \cup {None, Garbage}]
  PROVE  TypeOK'
<1>1. dyingCard' \in [Gpu -> Job \cup {None}] /\ loop' \in Job \cup {None}
  BY DEF LoseMemory
<1>2. watch' \in [Job -> {"none", "plain", "retire", "dying"}] /\ pc' \in [Job -> StartPC]
  BY DEF LoseMemory, TypeOK, StartPC
<1>3. orphan' \subseteq Job /\ crashes' \in Nat
  BY DEF LoseMemory, TypeOK
<1> QED BY <1>1, <1>2, <1>3 DEF LoseMemory, TypeOK

LEMMA CrashesType == TypeOK /\ Crashes => TypeOK'
<1> SUFFICES ASSUME TypeOK, Crashes PROVE TypeOK' OBVIOUS
<1>1. CASE Crash
  BY <1>1, LoseMemoryType DEF Crash, TypeOK, disk
<1>2. ASSUME NEW j \in Job, CrashInClaim(j) PROVE TypeOK'
  BY <1>2, LoseMemoryType DEF CrashInClaim, TypeOK
<1>3. ASSUME NEW j \in Job, NEW r \in Resource, CrashInLock(j, r) PROVE TypeOK'
  BY <1>3, LoseMemoryType DEF CrashInLock, TypeOK
<1>4. ASSUME NEW j \in Job, NEW gone, CrashInSettle(j, gone) PROVE TypeOK'
  BY <1>4, LoseMemoryType, HoldsType DEF CrashInSettle, TypeOK
<1>5. ASSUME NEW j \in Job, NEW gone, CrashInDiscard(j, gone) PROVE TypeOK'
  BY <1>5, LoseMemoryType, HoldsType DEF CrashInDiscard, TypeOK
<1> QED BY <1>1, <1>2, <1>3, <1>4, <1>5 DEF Crashes

LEMMA RecoveryType == TypeOK /\ Recovery => TypeOK'
<1> SUFFICES ASSUME TypeOK, Recovery PROVE TypeOK' OBVIOUS
<1>1. CASE RecoverSkipped
  BY <1>1 DEF RecoverSkipped, TypeOK, disk, windows, reservations, knowledge, starts, os, history
<1>2. ASSUME NEW old, NEW gone, NEW ok, Recover(old, gone, ok) PROVE TypeOK'
  <2>1. MetaAfter(Ended(Job, gone, marker), marker, signalled, ok) \in [Job -> Meta] /\ NoMeta \in Meta
    BY MetaAfterType DEF NoMeta, Meta, Status, Reason
  <2>2. meta' \in [Job -> Meta]
    BY <1>2, <2>1 DEF Recover
  <2>3. lock' \in [Resource -> Job \cup {None, Garbage}]
    BY <1>2 DEF Recover
  <2>4. opIndex' \in [OpKey -> Job \cup {None, Garbage}]
    BY <1>2 DEF Recover
  <2>5. marker' \subseteq Job /\ settled' \subseteq Job /\ mgr' \in {"none", "up"}
    BY <1>2 DEF Recover, TypeOK
  <2>6. UNCHANGED <<windows, reservations, cancelled, signalled, starts, os, history>>
    BY <1>2 DEF Recover
  <2> QED BY <2>2, <2>3, <2>4, <2>5, <2>6 DEF TypeOK, windows, reservations, starts, os, history
<1> QED BY <1>1, <1>2 DEF Recovery

\* The records, files and in-memory sets of the job manager keep their shape.
THEOREM TypeCorrect == Spec => []TypeOK
<1>1. Init => TypeOK
  BY InitType
<1>2. TypeOK /\ [Next]_vars => TypeOK'
  <2> SUFFICES ASSUME TypeOK, [Next]_vars PROVE TypeOK' OBVIOUS
  <2>1. CASE Next
    BY <2>1, RequestedType, CrashesType, RecoveryType, ConnLostType, StartStepType, ExitStepType,
       CancelType, WebhookScanType, SystemType DEF Next
  <2>2. CASE UNCHANGED vars
    BY <2>2 DEF TypeOK, vars, disk, windows, reservations, knowledge, starts, os, history
  <2> QED BY <2>1, <2>2
<1> QED BY <1>1, <1>2, PTL DEF Spec

-----------------------------------------------------------------------------
(* The inductive invariant, job by job.  A job's process comes after its        *)
(* record, its record after its claim, and its exit marker after its process.    *)

\* Between two writes of its start a job owns the event loop.
Writing == {"claimed", "dirs", "abandon", "spawned", "pid"}
LoopOwned(j) == pc[j] \in Writing => loop = j

\* No start outlives the agent process it was called in.
NoManagerNoStart(j) == mgr = "none" => ~InFlight(j)

\* Before the spawn, and once it has failed, there is no process.
NoProcess(j) ==
  pc[j] \in {"idle", "claimed", "dirs", "abandon", "parked", "erasing"} => proc[j] = "none"

\* The exit marker says that the command has ended.
MarkerMeansEnded(j) == j \in marker => proc[j] \notin {"none", "alive"}

\* The record is the last write before the start awaits, and stays while it does.
RecordedInTime(j) ==
  /\ pc[j] \in {"idle", "claimed", "dirs", "abandon"} => ~Recorded(j)
  /\ pc[j] \in {"parked", "spawned", "pid"} => Recorded(j)

\* Only a start whose caller was told it failed is retired.
RetiringFailed(j) ==
  /\ meta[j].retiring => pc[j] = "retired" /\ meta[j].pid
  /\ watch[j] = "retire" => pc[j] = "retired"

\* The key is claimed before anything else exists, and answers for the record.
KeyClaimed(j) == pc[j] \in {"claimed", "dirs"} /\ req[j].op # None => opIndex[req[j].op] = j
KeyAnswers(j) == Recorded(j) /\ req[j].op # None /\ ~Undone(j) => opIndex[req[j].op] = j

JobInv(j) ==
  /\ LoopOwned(j) /\ NoManagerNoStart(j) /\ NoProcess(j) /\ MarkerMeansEnded(j)
  /\ RecordedInTime(j) /\ RetiringFailed(j) /\ KeyClaimed(j) /\ KeyAnswers(j)

KeyInv == TypeOK /\ \A j \in Job : JobInv(j)

-----------------------------------------------------------------------------
(* What a step that is not about the start of i does to i.                     *)

\* The start does not move; its process may only end.
Still(i) ==
  /\ pc'[i] = pc[i] /\ req'[i] = req[i]
  /\ proc'[i] = proc[i] \/ (proc[i] # "none" /\ proc'[i] \notin {"none", "alive"})
  /\ loop' = loop \/ pc[i] \notin Writing
  /\ mgr' \in {mgr, "up"}
  /\ i \in orphan => i \in orphan'
  /\ watch'[i] = "retire" => watch[i] = "retire"
  /\ i \in marker' => i \in marker \/ proc'[i] \notin {"none", "alive"}

\* The record does not appear, does not vanish under a start that awaits, and keeps
\* its key as long as it is there.
RecordKept(i) ==
  /\ Recorded(i)' => Recorded(i)
  /\ pc[i] \in {"parked", "spawned", "pid"} => (Recorded(i) => Recorded(i)')
  /\ meta'[i].retiring => meta[i].retiring /\ meta'[i].pid

KeyKept(i) ==
  Recorded(i)' \/ pc[i] \in {"claimed", "dirs"} =>
    \A k \in OpKey : opIndex[k] = i => opIndex'[k] = i \/ (pc[i] = "retired" /\ Undone(i))

Quiet(i) == Still(i) /\ RecordKept(i) /\ KeyKept(i)

\* A failed start stays failed.
LEMMA UndoneStays == ASSUME NEW i \in Job, TypeOK, Still(i), Undone(i) PROVE Undone(i)'
BY DEF Undone, Still, Working, TypeOK

\* The key of a request that has one is a key.
LEMMA KeyType == ASSUME TypeOK, NEW i \in Job, req[i].op # None PROVE req[i].op \in OpKey
BY DEF TypeOK, Request

LEMMA QuietKeeps == ASSUME KeyInv, NEW i \in Job, Quiet(i) PROVE JobInv(i)'
<1>1. JobInv(i) /\ TypeOK
  BY DEF KeyInv
<1>2. LoopOwned(i)' /\ NoManagerNoStart(i)'
  BY <1>1 DEF JobInv, LoopOwned, NoManagerNoStart, InFlight, Quiet, Still
<1>3. NoProcess(i)' /\ MarkerMeansEnded(i)'
  BY <1>1 DEF JobInv, NoProcess, MarkerMeansEnded, Quiet, Still
<1>4. RecordedInTime(i)'
  BY <1>1 DEF JobInv, RecordedInTime, Quiet, Still, RecordKept
<1>5. RetiringFailed(i)'
  BY <1>1 DEF JobInv, RetiringFailed, Quiet, Still, RecordKept
<1>6. KeyClaimed(i)'
  BY <1>1, KeyType DEF JobInv, KeyClaimed, Quiet, Still, KeyKept
<1>7. KeyAnswers(i)'
  BY <1>1, KeyType, UndoneStays DEF JobInv, KeyAnswers, Quiet, Still, RecordKept, KeyKept
<1> QED BY <1>2, <1>3, <1>4, <1>5, <1>6, <1>7 DEF JobInv

-----------------------------------------------------------------------------
(* Settling.                                                                  *)

\* What a reader takes for ended: no running command of a recorded pid.
Over(e) == e \in Job /\ Running(e) /\ (~Working(e) \/ ~meta[e].pid)

LEMMA EndedOver ==
  ASSUME NEW S \in SUBSET Job, NEW gone \in SUBSET MaybeGone, NEW mk, \A m \in mk : ~Working(m)
  PROVE  \A e \in Ended(S, gone, mk) : Over(e)
BY DEF Ended, Over, MaybeGone, Alive, Working

LEMMA MarkerOver == ASSUME KeyInv PROVE \A m \in marker : ~Working(m)
BY DEF KeyInv, TypeOK, JobInv, MarkerMeansEnded, Working

\* The record of a job that is settled, of the set E of running records or not.
LEMMA SettledRecord ==
  ASSUME KeyInv, NEW E, \A e \in E : Over(e), NEW mk, NEW sig, NEW ok, NEW i \in Job,
         meta'[i] = MetaAfter(E, mk, sig, ok)[i]
  PROVE  RecordKept(i)
<1>1. meta[i] \in Meta /\ RetiringFailed(i)
  BY DEF KeyInv, JobInv, TypeOK
<1>2. i \in Discarded(E) => i \in E /\ pc[i] = "retired"
  BY <1>1 DEF Discarded, RetiringFailed
<1>3. CASE i \in Discarded(E) /\ ok
  <2>1. meta'[i] = NoMeta
    BY <1>2, <1>3 DEF MetaAfter
  <2>2. ~Recorded(i)' /\ ~meta'[i].retiring
    BY <2>1 DEF NoMeta, Recorded
  <2> QED BY <1>2, <1>3, <2>2 DEF RecordKept
<1>4. CASE i \notin Discarded(E) /\ i \in E /\ ok
  <2>1. meta'[i] = Outcome(i, mk, sig)
    BY <1>4 DEF MetaAfter
  <2>2. PICK s \in {"exited", "unknown"}, how \in Reason : meta'[i] = [meta[i] EXCEPT !.status = s, !.reason = how]
    BY <2>1 DEF Outcome, Reason
  <2>3. meta'[i].status = s /\ meta'[i].retiring = meta[i].retiring /\ meta'[i].pid = meta[i].pid
    BY <1>1, <2>2 DEF Meta
  <2> QED BY <1>1, <1>4, <2>3 DEF RecordKept, Recorded, Running, RetiringFailed, Over
<1>5. CASE ~(i \in E /\ ok)
  <2>1. meta'[i] = meta[i]
    BY <1>5 DEF MetaAfter
  <2> QED BY <1>1, <1>2, <2>1 DEF RecordKept, Recorded, RetiringFailed
<1> QED BY <1>2, <1>3, <1>4, <1>5

\* What is discarded was told to have failed, and has ended.
LEMMA DiscardedUndone ==
  ASSUME KeyInv, NEW E, \A e \in E : Over(e), NEW i \in Discarded(E)
  PROVE  pc[i] = "retired" /\ Undone(i)
<1>1. i \in Job /\ Over(i) /\ meta[i].retiring
  BY DEF Discarded, Over
<1>2. pc[i] = "retired" /\ meta[i].pid
  BY <1>1 DEF KeyInv, JobInv, RetiringFailed
<1> QED BY <1>1, <1>2 DEF Over, Undone

LEMMA SettledKey ==
  ASSUME KeyInv, NEW E, \A e \in E : Over(e), NEW i \in Job,
         \A k \in OpKey : opIndex'[k] = opIndex[k] \/ opIndex'[k] = IndexAfter(E)[k]
  PROVE  KeyKept(i)
BY DiscardedUndone DEF IndexAfter, KeyKept

\* Refreshing a set of jobs disturbs none of their starts.
LEMMA SettleQuiet ==
  ASSUME KeyInv, NEW E, \A e \in E : Over(e), NEW mk, NEW sig, NEW ok,
         meta' = MetaAfter(E, mk, sig, ok),
         \A k \in OpKey : opIndex'[k] = opIndex[k] \/ opIndex'[k] = IndexAfter(E)[k],
         NEW i \in Job, Still(i)
  PROVE  Quiet(i)
BY SettledRecord, SettledKey DEF Quiet

LEMMA RefreshKeeps ==
  ASSUME KeyInv, NEW j \in Job, NEW gone \in SUBSET MaybeGone, NEW ok, RefreshOne(j, gone, ok), NEW i \in Job
  PROVE  JobInv(i)'
<1> DEFINE E == Ended({j}, gone, marker)
<1>1. \A e \in E : Over(e)
  BY EndedOver, MarkerOver
<1>2. Still(i)
  BY DEF RefreshOne, Still, windows, reservations, starts, os, history
<1>3. meta' = MetaAfter(E, marker, signalled, ok)
  BY DEF RefreshOne
<1>4. \A k \in OpKey : opIndex'[k] = IndexAfter(E)[k]
  BY DEF RefreshOne
<1> HIDE DEF E
<1>5. Quiet(i)
  BY <1>1, <1>2, <1>3, <1>4, SettleQuiet
<1> QED BY <1>5, QuietKeeps

\* The sweep takes no directory of a start that awaits.
LEMMA SweepQuiet ==
  ASSUME KeyInv, Free, NEW S \in SUBSET Job, NEW old, NEW gone \in SUBSET MaybeGone, NEW ok, Sweep(S, old, gone, ok),
         NEW i \in Job
  PROVE  /\ RecordKept(i)
         /\ i \in marker' => i \in marker
         /\ Recorded(i)' => \A k \in OpKey : opIndex[k] = i =>
              IndexSwept(S, old, gone)[k] = i \/ (pc[i] = "retired" /\ Undone(i))
<1> DEFINE E == Ended(S \ old, gone, marker)
           after == MetaAfter(E, marker, signalled, ok)
<1>1. \A e \in E : Over(e)
  <2>1. S \ old \in SUBSET Job
    OBVIOUS
  <2> QED BY <2>1, EndedOver, MarkerOver
<1>2. JobInv(i) /\ TypeOK
  BY DEF KeyInv
<1>3. marker' = marker \ (old \cup Discarded(E))
  BY DEF Sweep
<1>4. CASE i \in old
  <2>1. meta'[i] = NoMeta
    BY <1>4 DEF Sweep
  <2>2. pc[i] \notin {"parked", "spawned", "pid"}
    BY <1>2, <1>4, JobAssumption
       DEF Sweep, Expirable, Free, JobInv, LoopOwned, Writing
  <2> QED BY <1>3, <2>1, <2>2 DEF NoMeta, RecordKept, Recorded
<1>5. CASE i \notin old
  <2>1. meta'[i] = after[i]
    BY <1>5 DEF Sweep
  <2>2. RecordKept(i) /\ (i \in Discarded(E) => pc[i] = "retired" /\ Undone(i))
    <3> HIDE DEF E
    <3> QED BY <1>1, <2>1, SettledRecord, DiscardedUndone
  <2>3. i \notin Discarded(E) => \A k \in OpKey : opIndex[k] = i => IndexSwept(S, old, gone)[k] = i
    BY <1>5 DEF IndexSwept, IndexAfter
  <2> QED BY <1>3, <2>2, <2>3
<1> QED BY <1>4, <1>5

LEMMA ListKeeps ==
  ASSUME KeyInv, NEW S \in SUBSET Job, NEW old, NEW gone \in SUBSET MaybeGone, NEW ok,
         List(S, old, gone, ok), NEW i \in Job
  PROVE  JobInv(i)'
<1>1. JobInv(i) /\ Free /\ Sweep(S, old, gone, ok)
  BY DEF KeyInv, List
<1>2. RecordKept(i) /\ (i \in marker' => i \in marker)
      /\ (Recorded(i)' => \A k \in OpKey : opIndex[k] = i =>
            opIndex'[k] = i \/ (pc[i] = "retired" /\ Undone(i)))
  BY <1>1, SweepQuiet DEF List
<1>3. Still(i)
  BY <1>2 DEF List, Still, windows, reservations, starts, os, history
<1>4. pc[i] \notin {"claimed", "dirs"}
  BY <1>1, JobAssumption DEF Free, JobInv, LoopOwned, Writing
<1>5. Quiet(i)
  BY <1>2, <1>3, <1>4 DEF Quiet, KeyKept
<1> QED BY <1>5, QuietKeeps

\* What a new start may take over: nothing, or the key of a start that has failed.
LEMMA FreeKeyFailed ==
  ASSUME KeyInv, NEW k \in OpKey, NEW gone \in SUBSET MaybeGone, KeyFree(k, gone),
         NEW i \in Job, opIndex[k] = i, Recorded(i)
  PROVE  pc[i] = "retired" /\ Undone(i)
<1>1. i \in Ended({i}, gone, marker) /\ meta[i].retiring
  BY DEF KeyFree, Discarded
<1>2. pc[i] = "retired" /\ meta[i].pid /\ MarkerMeansEnded(i)
  BY <1>1 DEF KeyInv, JobInv, RetiringFailed
<1>3. ~Working(i)
  BY <1>1, <1>2 DEF Ended, MarkerMeansEnded, MaybeGone, Alive, Working
<1> QED BY <1>2, <1>3 DEF Undone

LEMMA AdmittedKeeps ==
  ASSUME KeyInv, NEW j \in Job, NEW r \in Requests, NEW old, NEW gone \in SUBSET MaybeGone, NEW ok,
         StartAdmitted(j, r, old, gone, ok), NEW i \in Job
  PROVE  JobInv(i)'
<1>1. /\ Free /\ Sweep(Job \ settled, old, gone, ok) /\ KeyFree(r.op, gone)
      /\ pc' = [pc EXCEPT ![j] = "claimed"] /\ loop' = j /\ req' = [req EXCEPT ![j] = r]
      /\ UNCHANGED <<mgr, windows, reservations, os, history>>
      /\ pc[j] = "idle" /\ mgr = "up" /\ loop = None
  BY DEF StartAdmitted, Free
<1>2. JobInv(i) /\ JobInv(j) /\ TypeOK
  BY DEF KeyInv
<1>3. opIndex' = [k \in OpKey |-> IF k = r.op THEN j ELSE IndexSwept(Job \ settled, old, gone)[k]]
  BY DEF StartAdmitted
<1>4. /\ RecordKept(i) /\ (i \in marker' => i \in marker)
      /\ Recorded(i)' => \A k \in OpKey : opIndex[k] = i =>
           IndexSwept(Job \ settled, old, gone)[k] = i \/ (pc[i] = "retired" /\ Undone(i))
  <2> DEFINE S == Job \ settled
  <2>1. S \in SUBSET Job
    OBVIOUS
  <2>2. Free /\ Sweep(S, old, gone, ok)
    BY <1>1
  <2> HIDE DEF S
  <2>3. /\ RecordKept(i) /\ (i \in marker' => i \in marker)
        /\ Recorded(i)' => \A k \in OpKey : opIndex[k] = i =>
             IndexSwept(S, old, gone)[k] = i \/ (pc[i] = "retired" /\ Undone(i))
    BY <2>1, <2>2, SweepQuiet
  <2> QED BY <2>3 DEF S
<1>5. CASE i = j
  <2>1. pc'[j] = "claimed" /\ req'[j] = r /\ proc'[j] = proc[j] /\ watch'[j] = watch[j] /\ loop' = j /\ mgr' = "up"
    BY <1>1, <1>2 DEF TypeOK, os
  <2>2. ~Recorded(j)' /\ proc[j] = "none" /\ j \notin marker' /\ ~meta'[j].retiring /\ watch[j] # "retire"
    BY <1>1, <1>2, <1>4, <1>5
       DEF JobInv, NoProcess, MarkerMeansEnded, RecordedInTime, RetiringFailed, RecordKept
  <2>3. r.op # None => opIndex'[r.op] = j
    BY <1>3, RequestAssumption DEF Request
  <2> QED BY <1>5, <2>1, <2>2, <2>3
          DEF JobInv, LoopOwned, NoManagerNoStart, NoProcess, MarkerMeansEnded, RecordedInTime,
              RetiringFailed, KeyClaimed, KeyAnswers
<1>6. CASE i # j
  <2>1. pc[i] \notin Writing
    BY <1>1, <1>2, JobAssumption DEF JobInv, LoopOwned
  <2>2. Still(i)
    BY <1>1, <1>2, <1>4, <1>6, <2>1 DEF Still, TypeOK, os, history
  <2>3. ASSUME Recorded(i)', NEW k \in OpKey, opIndex[k] = i
        PROVE  opIndex'[k] = i \/ (pc[i] = "retired" /\ Undone(i))
    <3>1. CASE k = r.op
      BY <1>1, <1>4, <2>3, <3>1, FreeKeyFailed DEF RecordKept
    <3>2. CASE k # r.op
      BY <1>3, <1>4, <2>3, <3>2
    <3> QED BY <3>1, <3>2
  <2>4. Quiet(i)
    BY <1>4, <2>1, <2>2, <2>3 DEF Quiet, KeyKept, Writing
  <2> QED BY <2>4, QuietKeeps
<1> QED BY <1>5, <1>6

LEMMA RefusedKeeps ==
  ASSUME KeyInv, NEW r \in Requests, NEW old, NEW gone \in SUBSET MaybeGone, NEW ok, NEW torn,
         StartRefused(r, old, gone, ok, torn), NEW i \in Job
  PROVE  JobInv(i)'
<1>1. /\ Free /\ Sweep(Job \ settled, old, gone, ok) /\ KeyFree(r.op, gone)
      /\ UNCHANGED <<mgr, windows, reservations, starts, os, history>>
  BY DEF StartRefused
<1>2. JobInv(i)
  BY DEF KeyInv
<1>3. \A k \in OpKey : k # r.op => opIndex'[k] = IndexSwept(Job \ settled, old, gone)[k]
  BY DEF StartRefused
<1>4. /\ RecordKept(i) /\ (i \in marker' => i \in marker)
      /\ Recorded(i)' => \A k \in OpKey : opIndex[k] = i =>
           IndexSwept(Job \ settled, old, gone)[k] = i \/ (pc[i] = "retired" /\ Undone(i))
  BY <1>1, SweepQuiet
<1>5. pc[i] \notin Writing
  BY <1>1, <1>2, JobAssumption DEF Free, JobInv, LoopOwned
<1>6. Still(i)
  BY <1>1, <1>4 DEF Still, starts, os, history
<1>7. ASSUME Recorded(i)', NEW k \in OpKey, opIndex[k] = i
      PROVE  opIndex'[k] = i \/ (pc[i] = "retired" /\ Undone(i))
  <2>1. CASE k = r.op
    BY <1>1, <1>4, <1>7, <2>1, FreeKeyFailed DEF RecordKept
  <2>2. CASE k # r.op
    BY <1>3, <1>4, <1>7, <2>2
  <2> QED BY <2>1, <2>2
<1>8. Quiet(i)
  BY <1>4, <1>5, <1>6, <1>7 DEF Quiet, KeyKept, Writing
<1> QED BY <1>8, QuietKeeps

LEMMA StatusByKeyKeeps ==
  ASSUME KeyInv, NEW k \in OpKey, StatusByKey(k), NEW i \in Job PROVE JobInv(i)'
<1>1. JobInv(i) /\ TypeOK
  BY DEF KeyInv
<1>2. RecordKept(i) /\ Still(i)
  BY <1>1 DEF StatusByKey, RecordKept, Recorded, Still, starts, os, history, JobInv, RetiringFailed
<1>3. pc[i] \notin {"claimed", "dirs"}
  BY <1>1, JobAssumption DEF StatusByKey, Free, JobInv, LoopOwned, Writing
<1>4. KeyKept(i)
  BY <1>1, <1>2, <1>3 DEF StatusByKey, KeyKept, RecordKept, TypeOK
<1> QED BY <1>2, <1>4, QuietKeeps DEF Quiet

LEMMA RequestedKeeps == ASSUME KeyInv, Requested, NEW i \in Job PROVE JobInv(i)'
<1>1. ASSUME NEW S \in SUBSET {j \in Job : Recorded(j)} PROVE S \in SUBSET Job
  OBVIOUS
<1> QED BY <1>1, RefreshKeeps, ListKeeps, AdmittedKeeps, RefusedKeeps, StatusByKeyKeeps DEF Requested
-----------------------------------------------------------------------------
(* The steps of a start, for its own job and for the others.                   *)

\* While j owns the event loop, or nobody does, no other start is between two writes.
LEMMA OthersWait ==
  ASSUME KeyInv, NEW i \in Job, NEW j, i # j, loop \in {j, None}
  PROVE  pc[i] \notin Writing
BY JobAssumption DEF KeyInv, JobInv, LoopOwned

\* A step that moves the start of j, and touches j's record, marker and key at most,
\* leaves every other start alone.
LEMMA OthersKeep ==
  ASSUME KeyInv, NEW j \in Job, loop \in {j, None}, mgr' = mgr, UNCHANGED <<req, orphan>>,
         NEW i \in Job, i # j, pc'[i] = pc[i], proc'[i] = proc[i], meta'[i] = meta[i],
         watch'[i] = watch[i], i \in marker' => i \in marker,
         opIndex' \in {opIndex, DropIndex({j})}
  PROVE  JobInv(i)'
<1>1. JobInv(i) /\ TypeOK
  BY DEF KeyInv
<1>2. pc[i] \notin Writing
  BY OthersWait
<1>3. Still(i)
  BY <1>2 DEF Still
<1>4. RecordKept(i)
  BY <1>1 DEF RecordKept, Recorded, JobInv, RetiringFailed
<1>5. KeyKept(i)
  BY DEF KeyKept, DropIndex
<1> QED BY <1>3, <1>4, <1>5, QuietKeeps DEF Quiet

LEMMA UpToTheRecord ==
  ASSUME KeyInv, NEW j \in Job, NEW i \in Job,
         MakeDirs(j) \/ WriteRecord(j) \/ AbandonStart(j) \/ FinishAbandon(j)
  PROVE  JobInv(i)'
<1>1. JobInv(i) /\ JobInv(j) /\ TypeOK /\ loop = j /\ meta[j] \in Meta
  BY DEF KeyInv, TypeOK, MakeDirs, WriteRecord, AbandonStart, FinishAbandon
<1>2. mgr = "up" /\ mgr' = mgr
  BY <1>1 DEF MakeDirs, WriteRecord, AbandonStart, FinishAbandon, JobInv, NoManagerNoStart, InFlight,
              TypeOK
<1>3. CASE i # j
  <2>1. /\ UNCHANGED <<req, orphan>> /\ pc'[i] = pc[i] /\ proc'[i] = proc[i] /\ meta'[i] = meta[i]
        /\ watch'[i] = watch[i] /\ (i \in marker' => i \in marker)
        /\ opIndex' \in {opIndex, DropIndex({j})}
    BY <1>1, <1>3
       DEF MakeDirs, WriteRecord, AbandonStart, FinishAbandon, RemoveJobDir, TypeOK, os, history
  <2> QED BY <1>1, <1>2, <1>3, <2>1, OthersKeep
<1>4. CASE i = j
  <2>1. CASE MakeDirs(j)
    <3>1. /\ pc[j] = "claimed" /\ pc'[j] = "dirs" /\ meta'[j] = [meta[j] EXCEPT !.status = "dir"]
          /\ UNCHANGED <<loop, mgr, proc, marker, watch, opIndex, req>>
      BY <1>1, <2>1 DEF MakeDirs, TypeOK, os
    <3>2. meta'[j].status = "dir" /\ meta'[j].retiring = meta[j].retiring
      BY <1>1, <3>1 DEF Meta
    <3> QED BY <1>1, <1>2, <1>4, <3>1, <3>2
            DEF JobInv, LoopOwned, NoManagerNoStart, NoProcess, MarkerMeansEnded, RecordedInTime,
                RetiringFailed, KeyClaimed, KeyAnswers, Recorded
  <2>2. CASE WriteRecord(j)
    <3>1. /\ pc[j] = "dirs" /\ pc'[j] = "parked" /\ meta'[j] = [meta[j] EXCEPT !.status = "running"]
          /\ UNCHANGED <<mgr, proc, marker, watch, opIndex, req>>
      BY <1>1, <2>2 DEF WriteRecord, TypeOK, os
    <3>2. meta'[j].status = "running" /\ meta'[j].retiring = meta[j].retiring
      BY <1>1, <3>1 DEF Meta
    <3> QED BY <1>1, <1>2, <1>4, <3>1, <3>2
            DEF JobInv, LoopOwned, NoManagerNoStart, NoProcess, MarkerMeansEnded, RecordedInTime,
                RetiringFailed, KeyClaimed, KeyAnswers, Recorded, Writing
  <2>3. CASE AbandonStart(j)
    <3>1. /\ pc[j] \in {"claimed", "dirs"} /\ pc'[j] = "abandon"
          /\ UNCHANGED <<loop, mgr, proc, meta, marker, watch, req>>
      BY <1>1, <2>3 DEF AbandonStart, TypeOK, os
    <3> QED BY <1>1, <1>2, <1>4, <3>1
            DEF JobInv, LoopOwned, NoManagerNoStart, NoProcess, MarkerMeansEnded, RecordedInTime,
                RetiringFailed, KeyClaimed, KeyAnswers, Recorded
  <2>4. CASE FinishAbandon(j)
    <3>1. /\ pc[j] = "abandon" /\ pc'[j] = "answered" /\ meta'[j] \in {NoMeta, meta[j]}
          /\ (j \in marker' => j \in marker) /\ UNCHANGED <<mgr, proc, watch, req>>
      BY <1>1, <2>4 DEF FinishAbandon, RemoveJobDir, TypeOK, os
    <3>2. ~Recorded(j)' /\ ~meta'[j].retiring
      BY <1>1, <3>1 DEF NoMeta, Recorded, JobInv, RecordedInTime, RetiringFailed
    <3> QED BY <1>1, <1>2, <1>4, <3>1, <3>2
            DEF JobInv, LoopOwned, NoManagerNoStart, NoProcess, MarkerMeansEnded, RecordedInTime,
                RetiringFailed, KeyClaimed, KeyAnswers, Writing
  <2> QED BY <2>1, <2>2, <2>3, <2>4
<1> QED BY <1>3, <1>4

LEMMA TakeResourceKeeps ==
  ASSUME KeyInv, NEW j \in Job, NEW r, NEW gone \in SUBSET MaybeGone, NEW ok,
         TakeResource(j, r, gone, ok), NEW i \in Job
  PROVE  JobInv(i)'
<1> DEFINE E == HolderEnded(lock[r], gone)
<1>1. \A e \in E : Over(e)
  <2>1. CASE lock[r] \in Job
    BY <2>1, EndedOver, MarkerOver DEF HolderEnded
  <2>2. CASE lock[r] \notin Job
    BY <2>2 DEF HolderEnded
  <2> QED BY <2>1, <2>2
<1>2. /\ meta' = MetaAfter(E, marker, signalled, ok) /\ marker' = marker \ Discarded(E)
      /\ opIndex' = IndexAfter(E) /\ UNCHANGED <<mgr, windows, reservations, starts, os, history>>
  BY DEF TakeResource
<1> HIDE DEF E
<1>3. Still(i)
  BY <1>2 DEF Still, starts, os, history
<1>4. Quiet(i)
  BY <1>1, <1>2, <1>3, SettleQuiet
<1> QED BY <1>4, QuietKeeps

\* The start awaits, and ends before a process came up.
LEMMA WithoutProcess ==
  ASSUME KeyInv, NEW j \in Job, NEW i \in Job,
         StartCancelledUnspawned(j) \/ StartGivenUp(j) \/ FinishErasing(j)
  PROVE  JobInv(i)'
<1>1. JobInv(i) /\ JobInv(j) /\ TypeOK /\ mgr = "up" /\ loop = None
  BY DEF KeyInv, StartCancelledUnspawned, StartGivenUp, FinishErasing, Free
<1>2. /\ mgr' = mgr /\ loop' = loop /\ UNCHANGED <<req, orphan, proc, watch>>
      /\ opIndex' \in {opIndex, DropIndex({j})}
  BY DEF StartCancelledUnspawned, StartGivenUp, FinishErasing, os, history
<1>3. CASE i # j
  <2>1. pc'[i] = pc[i] /\ meta'[i] = meta[i] /\ (i \in marker' => i \in marker)
    BY <1>1, <1>3 DEF StartCancelledUnspawned, StartGivenUp, FinishErasing, RemoveJobDir, TypeOK
  <2> QED BY <1>1, <1>2, <1>3, <2>1, OthersKeep
<1>4. CASE i = j
  <2>1. CASE StartCancelledUnspawned(j)
    <3>1. /\ pc[j] = "parked" /\ pc'[j] = "answered" /\ UNCHANGED <<meta, marker, opIndex>>
      BY <1>1, <2>1 DEF StartCancelledUnspawned, TypeOK
    <3>2. ~Undone(j)
      BY <3>1 DEF Undone
    <3> QED BY <1>1, <1>2, <1>4, <3>1, <3>2
            DEF JobInv, LoopOwned, NoManagerNoStart, NoProcess, MarkerMeansEnded, RecordedInTime,
                RetiringFailed, KeyClaimed, KeyAnswers, Recorded, Writing
  <2>2. CASE StartGivenUp(j)
    <3>1. pc[j] = "parked" /\ pc'[j] = "erasing" /\ UNCHANGED <<meta, marker>>
      BY <1>1, <2>2 DEF StartGivenUp, TypeOK
    <3>2. Undone(j)'
      BY <3>1 DEF Undone
    <3> QED BY <1>1, <1>2, <1>4, <3>1, <3>2
            DEF JobInv, LoopOwned, NoManagerNoStart, NoProcess, MarkerMeansEnded, RecordedInTime,
                RetiringFailed, KeyClaimed, KeyAnswers, Recorded, Writing
  <2>3. CASE FinishErasing(j)
    <3>1. /\ pc[j] = "erasing" /\ pc'[j] = "retired" /\ (j \in marker' => j \in marker)
          /\ meta'[j] \in {NoMeta, meta[j]}
      BY <1>1, <2>3 DEF FinishErasing, RemoveJobDir, TypeOK
    <3>2. Undone(j)' /\ ~meta'[j].retiring
      BY <1>1, <1>2, <3>1 DEF NoMeta, JobInv, NoProcess, RetiringFailed, Undone, Working
    <3> QED BY <1>1, <1>2, <1>4, <3>1, <3>2
            DEF JobInv, LoopOwned, NoManagerNoStart, NoProcess, MarkerMeansEnded, RecordedInTime,
                RetiringFailed, KeyClaimed, KeyAnswers, Writing
  <2> QED BY <2>1, <2>2, <2>3
<1> QED BY <1>3, <1>4

\* The process is up, and the start is answered, retired or killed.
LEMMA WithProcess ==
  ASSUME KeyInv, NEW j \in Job, NEW ok, NEW i \in Job,
         \/ Spawn(j) \/ WritePid(j) \/ StartSucceeds(j) \/ KillCancelledSpawn(j, ok)
         \/ RetireLost(j, ok) \/ RetireUnrecorded(j, ok)
  PROVE  JobInv(i)'
<1>1. JobInv(i) /\ JobInv(j) /\ TypeOK /\ meta[j] \in Meta
  BY DEF KeyInv, TypeOK
<1>2. /\ mgr = "up" /\ mgr' = mgr /\ loop \in {j, None} /\ UNCHANGED <<req, orphan, marker, opIndex>>
  BY <1>1 DEF Spawn, WritePid, StartSucceeds, KillCancelledSpawn, RetireLost, RetireUnrecorded, Retire,
              Free, disk, os, history, JobInv, NoManagerNoStart, InFlight, TypeOK
<1>3. CASE i # j
  <2>1. pc'[i] = pc[i] /\ meta'[i] = meta[i] /\ proc'[i] = proc[i] /\ watch'[i] = watch[i]
    BY <1>1, <1>3 DEF Spawn, WritePid, StartSucceeds, KillCancelledSpawn, RetireLost, RetireUnrecorded,
                      Retire, disk, os, TypeOK
  <2> QED BY <1>1, <1>2, <1>3, <2>1, OthersKeep
<1>4. CASE i = j
  <2>1. CASE Spawn(j)
    <3>1. /\ pc[j] = "parked" /\ pc'[j] = "spawned" /\ proc'[j] = "alive" /\ watch'[j] = "plain"
          /\ meta' = meta /\ loop' = j
      BY <1>1, <2>1 DEF Spawn, TypeOK, disk
    <3>2. j \notin marker /\ ~Undone(j)
      BY <1>1, <3>1 DEF JobInv, NoProcess, MarkerMeansEnded, Undone
    <3> QED BY <1>1, <1>2, <1>4, <3>1, <3>2
            DEF JobInv, LoopOwned, NoManagerNoStart, NoProcess, MarkerMeansEnded, RecordedInTime,
                RetiringFailed, KeyClaimed, KeyAnswers, Recorded
  <2>2. CASE WritePid(j)
    <3>1. /\ pc[j] = "spawned" /\ pc'[j] = "pid" /\ meta'[j] = [meta[j] EXCEPT !.pid = TRUE]
          /\ UNCHANGED <<loop, proc, watch>>
      BY <1>1, <2>2 DEF WritePid, TypeOK, os
    <3>2. meta'[j].status = meta[j].status /\ meta'[j].retiring = meta[j].retiring
      BY <1>1, <3>1 DEF Meta
    <3>3. ~Undone(j) /\ pc[j] = "spawned" /\ pc'[j] = "pid" /\ UNCHANGED <<loop, proc, watch>>
      BY <3>1 DEF Undone
    <3>4. LoopOwned(j)' /\ NoManagerNoStart(j)' /\ NoProcess(j)' /\ MarkerMeansEnded(j)'
      BY <1>1, <1>2, <3>3 DEF JobInv, LoopOwned, NoManagerNoStart, NoProcess, MarkerMeansEnded, Writing
    <3>5. RecordedInTime(j)' /\ RetiringFailed(j)'
      BY <1>1, <3>2, <3>3 DEF JobInv, RecordedInTime, RetiringFailed, Recorded
    <3>6. KeyClaimed(j)' /\ KeyAnswers(j)'
      BY <1>1, <1>2, <3>2, <3>3 DEF JobInv, KeyClaimed, KeyAnswers, Recorded
    <3> QED BY <1>4, <3>4, <3>5, <3>6 DEF JobInv
  <2>3. CASE StartSucceeds(j) \/ KillCancelledSpawn(j, ok)
    <3>1. /\ pc[j] \in {"spawned", "pid"} /\ pc'[j] = "answered" /\ UNCHANGED <<meta, proc>>
          /\ watch'[j] = watch[j] \/ watch'[j] = "dying"
      BY <1>1, <2>3 DEF StartSucceeds, KillCancelledSpawn, TypeOK, disk, os
    <3>2. ~Undone(j)
      BY <3>1 DEF Undone
    <3> QED BY <1>1, <1>2, <1>4, <3>1, <3>2
            DEF JobInv, LoopOwned, NoManagerNoStart, NoProcess, MarkerMeansEnded, RecordedInTime,
                RetiringFailed, KeyClaimed, KeyAnswers, Recorded, Writing
  <2>4. CASE RetireLost(j, ok) \/ RetireUnrecorded(j, ok)
    <3>1. /\ pc[j] \in {"spawned", "pid"} /\ pc'[j] = "retired" /\ proc' = proc
          /\ \/ meta'[j] = meta[j]
             \/ meta'[j] = [meta[j] EXCEPT !.retiring = TRUE, !.pid = TRUE]
      <4>1. Retire(j, ok) /\ pc[j] \in {"spawned", "pid"}
        BY <2>4 DEF RetireLost, RetireUnrecorded
      <4>2. meta' = IF ok THEN [meta EXCEPT ![j] = [meta[j] EXCEPT !.retiring = TRUE, !.pid = TRUE]]
                    ELSE meta
        BY <4>1 DEF Retire
      <4>3. pc'[j] = "retired" /\ proc' = proc
        BY <1>1, <4>1 DEF Retire, TypeOK
      <4> QED BY <1>1, <4>1, <4>2, <4>3 DEF TypeOK
    <3>2. /\ meta'[j].status = meta[j].status /\ ~Undone(j)
          /\ meta'[j].retiring => meta[j].retiring \/ meta'[j].pid
          /\ ~meta[j].retiring
      BY <1>1, <3>1 DEF Meta, Undone, JobInv, RetiringFailed
    <3> QED BY <1>1, <1>2, <1>4, <3>1, <3>2
            DEF JobInv, LoopOwned, NoManagerNoStart, NoProcess, MarkerMeansEnded, RecordedInTime,
                RetiringFailed, KeyClaimed, KeyAnswers, Recorded, Writing
  <2> QED BY <2>1, <2>2, <2>3, <2>4
<1> QED BY <1>3, <1>4

LEMMA StartStepKeeps == ASSUME KeyInv, NEW j \in Job, StartStep(j), NEW i \in Job PROVE JobInv(i)'
BY UpToTheRecord, TakeResourceKeeps, WithoutProcess, WithProcess DEF StartStep
-----------------------------------------------------------------------------
(* Exits, cancels, scans, the operating system, the connection.                *)

LEMMA ExitStepKeeps == ASSUME KeyInv, NEW j \in Job, ExitStep(j), NEW i \in Job PROVE JobInv(i)'
<1>1. JobInv(i) /\ JobInv(j) /\ TypeOK
  BY DEF KeyInv
<1>2. ASSUME NEW gone \in SUBSET MaybeGone, NEW ok, ExitPlain(j, gone, ok) \/ ExitDying(j, gone, ok)
      PROVE  JobInv(i)'
  <2> DEFINE E == Ended({j}, gone, ExitMarker(j))
  <2>1. \A e \in E : Over(e)
    <3>1. \A m \in ExitMarker(j) : ~Working(m)
      BY <1>2, MarkerOver DEF ExitPlain, ExitDying, ExitMarker, Dead, Working
    <3> QED BY <3>1, EndedOver
  <2>2. /\ meta' = MetaAfter(E, ExitMarker(j), ExitSignal(j), ok) /\ marker' \subseteq ExitMarker(j)
        /\ opIndex' \in {opIndex, IndexAfter(E)} /\ watch' = [watch EXCEPT ![j] = "none"]
        /\ UNCHANGED <<mgr, windows, starts, proc, history>>
    BY <1>2 DEF ExitPlain, ExitDying
  <2> HIDE DEF E
  <2>3. i \in marker' => i \in marker \/ proc[i] \notin {"none", "alive"}
    BY <2>2 DEF ExitMarker
  <2>4. Still(i)
    BY <1>1, <2>2, <2>3 DEF Still, starts, history, TypeOK
  <2>5. Quiet(i)
    BY <2>1, <2>2, <2>4, SettleQuiet
  <2> QED BY <2>5, QuietKeeps
<1>3. CASE ExitRetired(j)
  <2>1. /\ pc[j] = "retired" /\ ~Working(j) /\ meta' \in {meta, [meta EXCEPT ![j] = NoMeta]}
        /\ (i \in marker' => i \in marker)
        /\ opIndex' = DropIndex({j}) /\ watch' = [watch EXCEPT ![j] = "none"]
        /\ UNCHANGED <<mgr, starts, proc, history>>
    BY <1>1, <1>3 DEF ExitRetired, RemoveJobDir, JobInv, RetiringFailed, Dead, Working
  <2>2. Still(i)
    BY <1>1, <2>1 DEF Still, starts, history, TypeOK
  <2>3. meta'[i] \in {meta[i], NoMeta} /\ (i # j => meta'[i] = meta[i])
    BY <1>1, <2>1 DEF TypeOK
  <2>4. RecordKept(i)
    BY <1>1, <2>1, <2>3 DEF RecordKept, Recorded, NoMeta, JobInv, RetiringFailed
  <2>5. Undone(j)
    BY <2>1 DEF Undone
  <2>6. KeyKept(i)
    BY <2>1, <2>5 DEF KeyKept, DropIndex
  <2> QED BY <2>2, <2>4, <2>6, QuietKeeps DEF Quiet
<1> QED BY <1>2, <1>3 DEF ExitStep

\* A step that rewrites the record of j, as recorded and as retiring as it was, and
\* nothing else of a start.
LEMMA RewriteKeeps ==
  ASSUME KeyInv, NEW j \in Job, Recorded(j), UNCHANGED <<starts, os, mgr, history, marker, opIndex>>,
         NEW m, meta' = [meta EXCEPT ![j] = m], m.status \in {"running", "exited", "unknown"},
         m.retiring = meta[j].retiring, m.pid = meta[j].pid,
         NEW i \in Job
  PROVE  JobInv(i)'
<1>1. JobInv(i) /\ TypeOK
  BY DEF KeyInv
<1>2. Still(i)
  BY DEF Still, starts, os, history
<1>3. RecordKept(i)
  BY <1>1 DEF RecordKept, Recorded, JobInv, RetiringFailed, TypeOK
<1>4. KeyKept(i)
  BY DEF KeyKept
<1> QED BY <1>2, <1>3, <1>4, QuietKeeps DEF Quiet

\* A step that touches neither records nor keys nor starts.
LEMMA AsideKeeps ==
  ASSUME KeyInv, UNCHANGED <<meta, opIndex>>, NEW i \in Job, Still(i) PROVE JobInv(i)'
<1>1. RecordKept(i)
  BY DEF RecordKept, Recorded, KeyInv, JobInv, RetiringFailed
<1>2. KeyKept(i)
  BY DEF KeyKept
<1> QED BY <1>1, <1>2, QuietKeeps DEF Quiet

LEMMA CancelKeeps == ASSUME KeyInv, NEW j \in Job, Cancel(j), NEW i \in Job PROVE JobInv(i)'
<1>1. JobInv(j) /\ TypeOK /\ meta[j] \in Meta
  BY DEF KeyInv, TypeOK
<1>2. ASSUME NEW ok, CancelStarting(j, ok) PROVE JobInv(i)'
  <2>1. Recorded(j)
    BY <1>1, <1>2 DEF CancelStarting, JobInv, RecordedInTime
  <2>2. UNCHANGED <<starts, os, mgr, history, marker, opIndex>>
    BY <1>2 DEF CancelStarting
  <2>3. CASE ok
    <3> DEFINE m == [meta[j] EXCEPT !.status = "unknown", !.reason = "cancelled"]
    <3>1. meta' = [meta EXCEPT ![j] = m]
      BY <1>2, <2>3 DEF CancelStarting
    <3>2. m.status = "unknown" /\ m.retiring = meta[j].retiring /\ m.pid = meta[j].pid
      BY <1>1 DEF Meta
    <3> HIDE DEF m
    <3> QED BY <2>1, <2>2, <3>1, <3>2, RewriteKeeps
  <2>4. CASE ~ok
    <3>1. UNCHANGED meta /\ Still(i)
      BY <1>2, <2>2, <2>4 DEF CancelStarting, Still, starts, os, history
    <3> QED BY <2>2, <3>1, AsideKeeps
  <2> QED BY <2>3, <2>4
<1>3. ASSUME NEW gone, NEW ok, CancelRunning(j, gone, ok) PROVE JobInv(i)'
  <2>1. Recorded(j) /\ UNCHANGED <<starts, os, mgr, history, marker, opIndex>>
    BY <1>3 DEF CancelRunning, Running, Recorded
  <2>2. CASE ok
    <3> DEFINE m == [meta[j] EXCEPT !.cancelReq = TRUE]
    <3>1. meta' = [meta EXCEPT ![j] = m]
      BY <1>1, <1>3, <2>2 DEF CancelRunning, TypeOK
    <3>2. m.status = meta[j].status /\ m.retiring = meta[j].retiring /\ m.pid = meta[j].pid
      BY <1>1 DEF Meta
    <3> HIDE DEF m
    <3> QED BY <2>1, <3>1, <3>2, RewriteKeeps DEF Recorded
  <2>3. CASE ~ok
    <3>1. UNCHANGED meta /\ Still(i)
      BY <1>3, <2>1, <2>3 DEF CancelRunning, Still, starts, os, history
    <3> QED BY <2>1, <3>1, AsideKeeps
  <2> QED BY <2>2, <2>3
<1> QED BY <1>2, <1>3 DEF Cancel

LEMMA WebhookScanKeeps == ASSUME KeyInv, NEW j \in Job, WebhookScan(j), NEW i \in Job PROVE JobInv(i)'
<1>1. ASSUME NEW gone \in SUBSET MaybeGone, NEW ok, StorePoll(j, gone, ok) PROVE JobInv(i)'
  <2>1. /\ Running(j) /\ meta' = MetaAfter({j}, marker, signalled, ok)
        /\ marker' = marker \ Discarded({j}) /\ UNCHANGED <<opIndex, mgr, starts, os, history>>
    BY <1>1 DEF StorePoll
  <2>2. Still(i)
    BY <2>1 DEF Still, starts, os, history
  <2>3. \A e \in {j} : Over(e)
    BY <1>1, MarkerOver DEF StorePoll, Over, MaybeGone, Alive, Working
  <2>4. Quiet(i)
    BY <2>1, <2>2, <2>3, SettleQuiet
  <2> QED BY <2>4, QuietKeeps
<1> QED BY <1>1, RefreshKeeps DEF WebhookScan, WebhookPoll

LEMMA SystemKeeps == ASSUME KeyInv, NEW j \in Job, System(j), NEW i \in Job PROVE JobInv(i)'
<1>1. TypeOK
  BY DEF KeyInv
<1>2. UNCHANGED <<meta, opIndex, mgr, starts, watch, history>>
  BY DEF System, CommandEnds, ProcExits, ProcKilled, disk
<1>3. /\ proc'[i] = proc[i] \/ (proc[i] # "none" /\ proc'[i] \notin {"none", "alive"})
      /\ i \in marker' => i \in marker \/ proc'[i] \notin {"none", "alive"}
  BY <1>1 DEF System, CommandEnds, ProcExits, ProcKilled, disk, Working, Alive, TypeOK
<1>4. Still(i)
  BY <1>2, <1>3 DEF Still, starts, history
<1> QED BY <1>2, <1>4, AsideKeeps

LEMMA ConnLostKeeps == ASSUME KeyInv, ConnLost, NEW i \in Job PROVE JobInv(i)'
<1>1. UNCHANGED <<meta, opIndex>> /\ Still(i)
  BY DEF ConnLost, Still, disk, starts, os, history
<1> QED BY <1>1, AsideKeeps

-----------------------------------------------------------------------------
(* Crashes and recovery.                                                      *)

\* A crash keeps records, markers and processes, and every key but those of failed
\* starts and of the claim it tore.
LEMMA CrashKeeps ==
  ASSUME KeyInv, LoseMemory, UNCHANGED <<meta, marker>>, NEW i \in Job,
         \A k \in OpKey : opIndex[k] = i => opIndex'[k] = i \/ ~Recorded(i) \/ (pc[i] = "retired" /\ Undone(i))
  PROVE  JobInv(i)'
<1>1. JobInv(i) /\ TypeOK
  BY DEF KeyInv
<1>2. /\ pc'[i] = IF InFlight(i) THEN "crashed" ELSE pc[i]
      /\ UNCHANGED <<proc, req>> /\ loop' = None /\ watch'[i] = "none" /\ (i \in orphan => i \in orphan')
  BY DEF LoseMemory
<1>3. ~InFlight(i)' /\ pc'[i] \notin Writing
  BY <1>2 DEF InFlight, Writing
<1>4. LoopOwned(i)' /\ NoManagerNoStart(i)' /\ KeyClaimed(i)'
  BY <1>3 DEF LoopOwned, NoManagerNoStart, KeyClaimed, Writing
<1>5. NoProcess(i)' /\ MarkerMeansEnded(i)'
  BY <1>1, <1>2 DEF JobInv, NoProcess, MarkerMeansEnded, InFlight
<1>6. RecordedInTime(i)' /\ RetiringFailed(i)'
  BY <1>1, <1>2 DEF JobInv, RecordedInTime, RetiringFailed, InFlight, Recorded
<1>7. Undone(i) => Undone(i)'
  BY <1>1, <1>2 DEF Undone, JobInv, NoProcess, InFlight, Working
<1>8. KeyAnswers(i)'
  BY <1>1, <1>2, <1>7, KeyType DEF JobInv, KeyAnswers, Recorded
<1> QED BY <1>4, <1>5, <1>6, <1>8 DEF JobInv

LEMMA CrashesKeep == ASSUME KeyInv, Crashes, NEW i \in Job PROVE JobInv(i)'
<1>1. CASE Crash
  BY <1>1, CrashKeeps DEF Crash, disk
<1>2. ASSUME NEW j \in Job, CrashInClaim(j) PROVE JobInv(i)'
  <2>1. /\ JobInv(j) /\ pc[j] = "claimed" /\ req[j].op # None
        /\ opIndex' = [opIndex EXCEPT ![req[j].op] = Garbage] /\ TypeOK
    BY <1>2 DEF CrashInClaim, KeyInv
  <2>2. opIndex[req[j].op] = j /\ ~Recorded(j)
    BY <2>1 DEF JobInv, KeyClaimed, RecordedInTime
  <2>3. \A k \in OpKey : opIndex[k] = i => opIndex'[k] = i \/ ~Recorded(i)
    BY <2>1, <2>2 DEF TypeOK
  <2> QED BY <1>2, <2>3, CrashKeeps DEF CrashInClaim
<1>3. ASSUME NEW j \in Job, NEW r \in Resource, CrashInLock(j, r) PROVE JobInv(i)'
  BY <1>3, CrashKeeps DEF CrashInLock
<1>4. ASSUME NEW j \in Job, NEW gone, CrashInSettle(j, gone) PROVE JobInv(i)'
  BY <1>4, CrashKeeps DEF CrashInSettle
<1>5. ASSUME NEW j \in Job, NEW gone \in SUBSET MaybeGone, CrashInDiscard(j, gone) PROVE JobInv(i)'
  <2>1. JobInv(j)
    BY DEF KeyInv
  <2>2. CASE j \in Discarded(Ended({j}, gone, marker))
    <3>1. j \in Ended({j}, gone, marker) /\ pc[j] = "retired" /\ meta[j].pid
      BY <2>1, <2>2 DEF Discarded, JobInv, RetiringFailed
    <3>2. ~Working(j)
      BY <2>1, <3>1 DEF Ended, MaybeGone, Alive, Working, JobInv, MarkerMeansEnded
    <3>3. pc[j] = "retired" /\ Undone(j)
      BY <3>1, <3>2 DEF Undone
    <3> QED BY <1>5, <3>3, CrashKeeps DEF CrashInDiscard, DropIndex
  <2>3. CASE watch[j] = "retire" /\ Dead(j)
    <3>1. pc[j] = "retired" /\ Undone(j)
      BY <2>1, <2>3 DEF JobInv, RetiringFailed, Undone, Dead, Working
    <3> QED BY <1>5, <3>1, CrashKeeps DEF CrashInDiscard, DropIndex
  <2> QED BY <1>5, <2>2, <2>3 DEF CrashInDiscard
<1> QED BY <1>1, <1>2, <1>3, <1>4, <1>5 DEF Crashes

LEMMA RecoveryKeeps == ASSUME KeyInv, Recovery, NEW i \in Job PROVE JobInv(i)'
<1>1. JobInv(i) /\ TypeOK
  BY DEF KeyInv
<1>2. CASE RecoverSkipped
  <2>1. UNCHANGED <<meta, opIndex>> /\ Still(i)
    BY <1>2 DEF RecoverSkipped, Still, disk, starts, os, history
  <2> QED BY <2>1, AsideKeeps
<1>3. ASSUME NEW old, NEW gone \in SUBSET MaybeGone, NEW ok, Recover(old, gone, ok) PROVE JobInv(i)'
  <2> DEFINE E == Ended(Job, gone, marker)
  <2>1. \A e \in E : Over(e)
    BY EndedOver, MarkerOver
  <2>2. /\ mgr = "none" /\ mgr' = "up" /\ marker' = marker \ (old \cup Discarded(E))
        /\ meta'[i] = IF i \in old THEN NoMeta ELSE MetaAfter(E, marker, signalled, ok)[i]
        /\ UNCHANGED <<starts, os, history>>
    BY <1>3 DEF Recover
  <2>3. \A k \in OpKey : opIndex[k] = i /\ meta'[i].status # "none" => opIndex'[k] = i
    BY <1>3 DEF Recover
  <2> HIDE DEF E
  <2>4. ~InFlight(i)
    BY <1>1, <2>2 DEF JobInv, NoManagerNoStart
  <2>5. Still(i)
    BY <2>2 DEF Still, starts, os, history
  <2>6. RecordKept(i)
    <3>1. CASE i \in old
      BY <2>2, <2>4, <3>1 DEF RecordKept, Recorded, NoMeta, InFlight
    <3>2. CASE i \notin old
      BY <2>1, <2>2, <3>2, SettledRecord
    <3> QED BY <3>1, <3>2
  <2>7. KeyKept(i)
    BY <2>3, <2>4 DEF KeyKept, Recorded, InFlight
  <2> QED BY <2>5, <2>6, <2>7, QuietKeeps DEF Quiet
<1> QED BY <1>2, <1>3 DEF Recovery

-----------------------------------------------------------------------------
LEMMA KeyInvHolds == Spec => []KeyInv
<1>1. Init => KeyInv
  <2> SUFFICES ASSUME Init PROVE KeyInv OBVIOUS
  <2>1. TypeOK
    BY InitType
  <2>2. ASSUME NEW j \in Job PROVE JobInv(j)
    BY <2>2 DEF Init, NoMeta, JobInv, LoopOwned, NoManagerNoStart, NoProcess, MarkerMeansEnded,
                RecordedInTime, RetiringFailed, KeyClaimed, KeyAnswers, Recorded, Writing, InFlight
  <2> QED BY <2>1, <2>2 DEF KeyInv
<1>2. KeyInv /\ TypeOK' /\ [Next]_vars => KeyInv'
  <2> SUFFICES ASSUME KeyInv, TypeOK', [Next]_vars, NEW i \in Job PROVE JobInv(i)'
    BY DEF KeyInv
  <2>1. CASE Next
    BY <2>1, RequestedKeeps, CrashesKeep, RecoveryKeeps, ConnLostKeeps, StartStepKeeps, ExitStepKeeps,
       CancelKeeps, WebhookScanKeeps, SystemKeeps DEF Next
  <2>2. CASE UNCHANGED vars
    <3>1. UNCHANGED <<meta, opIndex>> /\ Still(i)
      BY <2>2 DEF Still, vars, disk, starts, os, history
    <3> QED BY <3>1, AsideKeeps
  <2> QED BY <2>1, <2>2
<1> QED BY <1>1, <1>2, TypeCorrect, PTL DEF Spec

\* As long as a job's record exists and its start did not fail, its operation key
\* points at it (claimOperation, existingOperation, abandonStart, recover).
THEOREM KeyAnswersAlways == Spec => []KeyAnswersForItsJob
<1>1. KeyInv => KeyAnswersForItsJob
  BY DEF KeyInv, JobInv, KeyAnswers, KeyAnswersForItsJob
<1> QED BY <1>1, KeyInvHolds, PTL

\* Of two recorded jobs with one key at most one was started for good: the key would
\* have to answer for both, and its index file (claimOperation) names one job.
THEOREM StartedAtMostOnce == Spec => []AtMostOnce
<1>1. KeyInv => AtMostOnce
  BY DEF KeyInv, JobInv, KeyAnswers, AtMostOnce
<1> QED BY <1>1, KeyInvHolds, PTL

-----------------------------------------------------------------------------
(* The outcome of a job: a terminal record never changes again, a record is     *)
(* not ended under a start in its window except by the cancel of that start,    *)
(* and a cancel on disk outranks the exit code.                                *)

\* The window of a start is open from its record to its answer, unless a cancel has
\* closed it; while it is open and the directory stays, the record says running.
Window(j) ==
  /\ j \in starting => pc[j] \in {"parked", "spawned", "pid", "erasing"} /\ j \notin abort
  /\ j \in abort => pc[j] \in {"parked", "spawned"}
  /\ pc[j] \in {"parked", "spawned", "pid"} => j \in starting \cup abort
  /\ j \in starting /\ pc[j] # "erasing" => Running(j)

CancelCounts(j) == meta[j].cancelReq => meta[j].status # "exited"

OutcomeInv == KeyInv /\ \A j \in Job : Window(j) /\ CancelCounts(j)

\* What every step does to every job.
Finality(j) == Terminal(j) => meta'[j] \in {meta[j], NoMeta}
CancelOnly(j) == j \in starting /\ Running(j) /\ Terminal(j)' => j \in abort'

Sound(j) == Finality(j) /\ CancelOnly(j) /\ Window(j)' /\ CancelCounts(j)'

LEMMA OutcomeFacts ==
  ASSUME OutcomeInv, NEW i \in Job
  PROVE  /\ KeyInv /\ TypeOK /\ JobInv(i) /\ Window(i) /\ CancelCounts(i)
         /\ meta[i] \in Meta
         /\ Terminal(i) => ~Running(i)
BY DEF OutcomeInv, KeyInv, TypeOK, Terminal, Running

\* The start and its window stay as they are.
Apart(i) == pc'[i] = pc[i] /\ (i \in starting' <=> i \in starting) /\ (i \in abort' <=> i \in abort)

LEMMA UntouchedSound ==
  ASSUME OutcomeInv, NEW i \in Job, Apart(i), meta'[i] = meta[i] PROVE Sound(i)
BY OutcomeFacts DEF Apart, Sound, Finality, CancelOnly, Window, CancelCounts, Running, Terminal

LEMMA RemovedSound ==
  ASSUME OutcomeInv, NEW i \in Job, Apart(i), meta'[i] = NoMeta, i \notin starting \/ pc[i] = "erasing"
  PROVE  Sound(i)
BY OutcomeFacts
   DEF Apart, Sound, Finality, CancelOnly, Window, CancelCounts, Running, Terminal, NoMeta

LEMMA SettledSound ==
  ASSUME OutcomeInv, NEW i \in Job, Apart(i), NEW E, i \in E => Running(i) /\ i \notin starting,
         NEW mk, NEW sig, NEW ok, meta'[i] = MetaAfter(E, mk, sig, ok)[i]
  PROVE  Sound(i)
<1>1. CASE i \in Discarded(E) /\ ok
  BY <1>1, RemovedSound DEF MetaAfter, Discarded
<1>2. CASE i \notin Discarded(E) /\ i \in E /\ ok
  <2>1. meta'[i] = Outcome(i, mk, sig)
    BY <1>2 DEF MetaAfter
  <2>2. /\ meta'[i].cancelReq = meta[i].cancelReq
        /\ meta'[i].cancelReq => meta'[i].status = "unknown"
    BY <2>1, OutcomeFacts DEF Outcome, CancelWasRequested, Meta
  <2>3. ~Terminal(i) /\ i \notin starting /\ i \notin starting'
    BY <1>2, OutcomeFacts DEF Apart
  <2>4. Window(i)'
    BY <2>3, OutcomeFacts DEF Apart, Window
  <2> QED BY <2>2, <2>3, <2>4 DEF Sound, Finality, CancelOnly, CancelCounts
<1>3. CASE ~(i \in E /\ ok)
  BY <1>3, UntouchedSound DEF MetaAfter
<1> QED BY <1>1, <1>2, <1>3 DEF Discarded

\* No reader settles a record in its window.
LEMMA EndedOutside ==
  ASSUME NEW S, NEW gone, NEW mk, NEW i \in Ended(S, gone, mk) PROVE Running(i) /\ i \notin starting
BY DEF Ended, InWindow

-----------------------------------------------------------------------------
LEMMA SweepSound ==
  ASSUME OutcomeInv, Free, NEW S \in SUBSET Job, NEW old, NEW gone, NEW ok, Sweep(S, old, gone, ok),
         NEW i \in Job, Apart(i)
  PROVE  Sound(i)
<1> DEFINE E == Ended(S \ old, gone, marker)
<1>1. CASE i \in old
  <2>1. meta'[i] = NoMeta /\ i \in Expirable
    BY <1>1 DEF Sweep
  <2>2. i \notin starting
    BY <2>1, OutcomeFacts, JobAssumption
       DEF Expirable, Free, Window, JobInv, LoopOwned, Writing
  <2> QED BY <2>1, <2>2, RemovedSound
<1>2. CASE i \notin old
  <2>1. meta'[i] = MetaAfter(E, marker, signalled, ok)[i]
    BY <1>2 DEF Sweep
  <2>2. i \in E => Running(i) /\ i \notin starting
    BY EndedOutside
  <2> HIDE DEF E
  <2> QED BY <2>1, <2>2, SettledSound
<1> QED BY <1>1, <1>2

LEMMA RefreshSound ==
  ASSUME OutcomeInv, NEW j \in Job, NEW gone, NEW ok, RefreshOne(j, gone, ok), NEW i \in Job
  PROVE  Sound(i)
<1>1. meta'[i] = MetaAfter(Ended({j}, gone, marker), marker, signalled, ok)[i] /\ Apart(i)
  BY DEF RefreshOne, Apart, windows, starts
<1> QED BY <1>1, EndedOutside, SettledSound

LEMMA RequestedSound == ASSUME OutcomeInv, Requested, NEW i \in Job PROVE Sound(i)
<1>1. ASSUME NEW k \in OpKey, StatusByKey(k) PROVE Sound(i)
  BY <1>1, UntouchedSound DEF StatusByKey, Apart, windows, starts
<1>2. ASSUME NEW S \in SUBSET Job, NEW old, NEW gone, NEW ok, List(S, old, gone, ok) PROVE Sound(i)
  BY <1>2, SweepSound DEF List, Apart, windows, starts
<1>3. ASSUME NEW r \in Requests, NEW old, NEW gone, NEW ok, NEW torn, StartRefused(r, old, gone, ok, torn)
      PROVE  Sound(i)
  <2>1. Free /\ Sweep(Job \ settled, old, gone, ok) /\ Apart(i)
    BY <1>3 DEF StartRefused, Apart, windows, starts
  <2> QED BY <2>1, SweepSound
<1>4. ASSUME NEW j \in Job, NEW r \in Requests, NEW old, NEW gone \in SUBSET MaybeGone, NEW ok,
             StartAdmitted(j, r, old, gone, ok)
      PROVE  Sound(i)
  <2>1. /\ Free /\ Sweep(Job \ settled, old, gone, ok) /\ UNCHANGED <<starting, abort>>
        /\ pc[j] = "idle" /\ pc' = [pc EXCEPT ![j] = "claimed"]
    BY <1>4 DEF StartAdmitted, windows
  <2>2. CASE i # j
    <3>1. Apart(i)
      BY <2>1, <2>2, OutcomeFacts DEF Apart, TypeOK
    <3> QED BY <2>1, <3>1, SweepSound
  <2>3. CASE i = j
    <3>1. pc'[i] = "claimed" /\ i \notin starting' /\ i \notin abort'
      BY <2>1, <2>3, OutcomeFacts DEF Window, TypeOK
    <3>2. ~Recorded(i)' /\ ~Recorded(i)
      <4>1. RecordKept(i)
        <5>1. Job \ settled \in SUBSET Job
          OBVIOUS
        <5> QED BY <2>1, <5>1, OutcomeFacts, SweepQuiet
      <4> QED BY <2>1, <2>3, <4>1, OutcomeFacts DEF RecordKept, JobInv, RecordedInTime
    <3> QED BY <3>1, <3>2
            DEF Sound, Finality, CancelOnly, Window, CancelCounts, Recorded, Running, Terminal
  <2> QED BY <2>2, <2>3
<1>5. ASSUME NEW S \in SUBSET {j \in Job : Recorded(j)} PROVE S \in SUBSET Job
  OBVIOUS
<1> QED BY <1>1, <1>2, <1>3, <1>4, <1>5, RefreshSound DEF Requested

-----------------------------------------------------------------------------
LEMMA UpToTheRecordSound ==
  ASSUME OutcomeInv, NEW j \in Job, NEW i \in Job,
         MakeDirs(j) \/ WriteRecord(j) \/ AbandonStart(j) \/ FinishAbandon(j)
  PROVE  Sound(i)
<1>1. TypeOK /\ JobInv(j) /\ Window(j) /\ meta[j] \in Meta
  BY OutcomeFacts
<1>2. CASE i # j
  <2>1. Apart(i) /\ meta'[i] = meta[i]
    BY <1>1, <1>2 DEF MakeDirs, WriteRecord, AbandonStart, FinishAbandon, RemoveJobDir, Apart,
       TypeOK, windows
  <2> QED BY <2>1, UntouchedSound
<1>3. CASE i = j
  <2>1. /\ ~Recorded(j) /\ j \notin starting /\ j \notin abort
    BY <1>1 DEF MakeDirs, WriteRecord, AbandonStart, FinishAbandon, JobInv, RecordedInTime, Window
  <2>2. CASE WriteRecord(j)
    <3>1. pc'[j] = "parked" /\ starting' = starting \cup {j} /\ abort' = abort /\ meta'[j].status = "running"
      BY <1>1, <2>2 DEF WriteRecord, TypeOK, Meta
    <3> QED BY <1>3, <2>1, <3>1
            DEF Sound, Finality, CancelOnly, Window, CancelCounts, Recorded, Running, Terminal
  <2>3. CASE MakeDirs(j) \/ AbandonStart(j) \/ FinishAbandon(j)
    <3>1. /\ pc'[j] \in {"dirs", "abandon", "answered"} /\ UNCHANGED <<starting, abort>>
          /\ meta'[j].status \in {meta[j].status, "dir", "none"}
      <4>1. CASE FinishAbandon(j)
        BY <1>1, <4>1, Removal DEF FinishAbandon, TypeOK, NoMeta, windows
      <4>2. CASE MakeDirs(j) \/ AbandonStart(j)
        BY <1>1, <4>2 DEF MakeDirs, AbandonStart, TypeOK, Meta, windows
      <4> QED BY <2>3, <4>1, <4>2
    <3> QED BY <1>3, <2>1, <3>1
            DEF Sound, Finality, CancelOnly, Window, CancelCounts, Recorded, Running, Terminal
  <2> QED BY <2>2, <2>3
<1> QED BY <1>2, <1>3

LEMMA TakeResourceSound ==
  ASSUME OutcomeInv, NEW j \in Job, NEW r, NEW gone, NEW ok, TakeResource(j, r, gone, ok), NEW i \in Job
  PROVE  Sound(i)
<1> DEFINE E == HolderEnded(lock[r], gone)
<1>1. meta'[i] = MetaAfter(E, marker, signalled, ok)[i] /\ Apart(i)
  BY DEF TakeResource, Apart, windows, starts
<1>2. i \in E => Running(i) /\ i \notin starting
  BY EndedOutside DEF HolderEnded
<1> HIDE DEF E
<1> QED BY <1>1, <1>2, SettledSound

LEMMA WithoutProcessSound ==
  ASSUME OutcomeInv, NEW j \in Job, NEW i \in Job,
         StartCancelledUnspawned(j) \/ StartGivenUp(j) \/ FinishErasing(j)
  PROVE  Sound(i)
<1>1. TypeOK /\ JobInv(j) /\ Window(j)
  BY OutcomeFacts
<1>2. CASE i # j
  <2>1. Apart(i) /\ meta'[i] = meta[i]
    BY <1>1, <1>2
       DEF StartCancelledUnspawned, StartGivenUp, FinishErasing, RemoveJobDir, CloseWindow, Apart, TypeOK
  <2> QED BY <2>1, UntouchedSound
<1>3. CASE i = j /\ StartCancelledUnspawned(j)
  BY <1>1, <1>3, OutcomeFacts DEF StartCancelledUnspawned, CloseWindow, TypeOK,
     Sound, Finality, CancelOnly, Window, CancelCounts, Running, Terminal
<1>4. CASE i = j /\ StartGivenUp(j)
  BY <1>1, <1>4, OutcomeFacts DEF StartGivenUp, TypeOK,
     Sound, Finality, CancelOnly, Window, CancelCounts, Running, Terminal
<1>5. CASE i = j /\ FinishErasing(j)
  <2>1. /\ meta'[i] \in {meta[i], NoMeta} /\ pc'[i] = "retired" /\ i \notin starting' /\ i \notin abort'
        /\ pc[i] = "erasing"
    BY <1>1, <1>5, Removal DEF FinishErasing, CloseWindow, TypeOK, Window
  <2> QED BY <2>1, OutcomeFacts
          DEF NoMeta, Sound, Finality, CancelOnly, Window, CancelCounts, Running, Terminal
<1> QED BY <1>2, <1>3, <1>4, <1>5

LEMMA WithProcessSound ==
  ASSUME OutcomeInv, NEW j \in Job, NEW ok, NEW i \in Job,
         \/ Spawn(j) \/ WritePid(j) \/ StartSucceeds(j) \/ KillCancelledSpawn(j, ok)
         \/ RetireLost(j, ok) \/ RetireUnrecorded(j, ok)
  PROVE  Sound(i)
<1>1. TypeOK /\ Window(j) /\ CancelCounts(j) /\ meta[j] \in Meta
  BY OutcomeFacts
<1>2. CASE i # j
  <2>1. Apart(i) /\ meta'[i] = meta[i]
    BY <1>1, <1>2 DEF Spawn, WritePid, StartSucceeds, KillCancelledSpawn, RetireLost, RetireUnrecorded,
                      Retire, CloseWindow, Apart, TypeOK, disk, windows
  <2> QED BY <2>1, UntouchedSound
<1>3. CASE i = j
  <2>1. CASE Spawn(j)
    BY <1>1, <1>3, <2>1, OutcomeFacts DEF Spawn, TypeOK, disk, windows,
       Sound, Finality, CancelOnly, Window, CancelCounts, Running, Terminal
  <2>2. CASE WritePid(j)
    <3>1. /\ pc[j] = "spawned" /\ j \notin abort /\ pc'[j] = "pid" /\ UNCHANGED <<starting, abort>>
          /\ meta'[j] = [meta[j] EXCEPT !.pid = TRUE]
      BY <1>1, <2>2 DEF WritePid, TypeOK, windows
    <3>2. meta'[j].status = meta[j].status /\ meta'[j].cancelReq = meta[j].cancelReq
      BY <1>1, <3>1 DEF Meta
    <3>3. Running(j) /\ j \in starting
      BY <1>1, <3>1 DEF Window
    <3>4. pc[j] = "spawned" /\ j \notin abort /\ pc'[j] = "pid" /\ UNCHANGED <<starting, abort>>
      BY <3>1
    <3> QED BY <1>1, <1>3, <3>2, <3>3, <3>4
            DEF Sound, Finality, CancelOnly, Window, CancelCounts, Running, Terminal
  <2>3. CASE StartSucceeds(j) \/ KillCancelledSpawn(j, ok)
    <3>1. pc'[j] = "answered" /\ meta' = meta /\ j \notin starting' /\ j \notin abort'
      BY <1>1, <2>3 DEF StartSucceeds, KillCancelledSpawn, CloseWindow, TypeOK, disk
    <3> QED BY <1>1, <1>3, <3>1, OutcomeFacts
            DEF Sound, Finality, CancelOnly, Window, CancelCounts, Running, Terminal
  <2>4. CASE RetireLost(j, ok) \/ RetireUnrecorded(j, ok)
    <3>1. /\ Retire(j, ok) /\ pc[j] \in {"spawned", "pid"} /\ j \notin abort
      BY <1>1, <2>4 DEF RetireLost, RetireUnrecorded, Window
    <3>2. Running(j)
      BY <1>1, <3>1 DEF Window
    <3>3. pc'[j] = "retired" /\ j \notin starting' /\ j \notin abort'
      BY <1>1, <3>1 DEF Retire, CloseWindow, TypeOK
    <3>4. meta'[j].status = meta[j].status /\ meta'[j].cancelReq = meta[j].cancelReq
      BY <1>1, <3>1 DEF Retire, TypeOK, Meta
    <3> QED BY <1>1, <1>3, <3>2, <3>3, <3>4
            DEF Sound, Finality, CancelOnly, Window, CancelCounts, Running, Terminal
  <2> QED BY <2>1, <2>2, <2>3, <2>4
<1> QED BY <1>2, <1>3

LEMMA StartStepSound == ASSUME OutcomeInv, NEW j \in Job, StartStep(j), NEW i \in Job PROVE Sound(i)
BY UpToTheRecordSound, TakeResourceSound, WithoutProcessSound, WithProcessSound DEF StartStep

-----------------------------------------------------------------------------
LEMMA ExitStepSound == ASSUME OutcomeInv, NEW j \in Job, ExitStep(j), NEW i \in Job PROVE Sound(i)
<1>1. ASSUME NEW gone, NEW ok, ExitPlain(j, gone, ok) \/ ExitDying(j, gone, ok) PROVE Sound(i)
  <2>1. /\ meta'[i] = MetaAfter(Ended({j}, gone, ExitMarker(j)), ExitMarker(j), ExitSignal(j), ok)[i]
        /\ Apart(i)
    BY <1>1 DEF ExitPlain, ExitDying, Apart, windows, starts
  <2> QED BY <2>1, EndedOutside, SettledSound
<1>2. CASE ExitRetired(j)
  <2>1. pc[j] = "retired" /\ meta'[i] \in {meta[i], NoMeta} /\ (i # j => meta'[i] = meta[i]) /\ Apart(i)
    BY <1>2, OutcomeFacts DEF ExitRetired, RemoveJobDir, JobInv, RetiringFailed, TypeOK, Apart, starts
  <2>2. i = j => i \notin starting
    BY <2>1, OutcomeFacts DEF Window
  <2> QED BY <2>1, <2>2, UntouchedSound, RemovedSound
<1> QED BY <1>1, <1>2 DEF ExitStep

LEMMA CancelSound == ASSUME OutcomeInv, NEW j \in Job, Cancel(j), NEW i \in Job PROVE Sound(i)
<1>1. TypeOK /\ Window(j) /\ CancelCounts(j) /\ meta[j] \in Meta /\ meta[i] \in Meta
  BY OutcomeFacts
<1>2. ASSUME NEW ok, CancelStarting(j, ok) PROVE Sound(i)
  <2>1. CASE i # j
    BY <1>1, <1>2, <2>1, UntouchedSound DEF CancelStarting, Apart, TypeOK, starts
  <2>2. CASE i = j
    <3>1. /\ pc'[j] = pc[j] /\ pc[j] \in {"parked", "spawned"} /\ j \in starting
          /\ j \notin starting' /\ j \in abort'
      BY <1>1, <1>2 DEF CancelStarting, starts
    <3>2. Running(j)
      BY <1>1, <3>1 DEF Window
    <3>3. meta'[j] = meta[j] \/ meta'[j].status = "unknown"
      BY <1>1, <1>2 DEF CancelStarting, TypeOK, Meta
    <3> QED BY <1>1, <2>2, <3>1, <3>2, <3>3
            DEF Sound, Finality, CancelOnly, Window, CancelCounts, Running, Terminal
  <2> QED BY <2>1, <2>2
<1>3. ASSUME NEW gone, NEW ok, CancelRunning(j, gone, ok) PROVE Sound(i)
  <2>1. CASE i # j
    BY <1>1, <1>3, <2>1, UntouchedSound DEF CancelRunning, Apart, TypeOK, windows, starts
  <2>2. CASE i = j
    <3>1. Apart(j) /\ meta[j].status = "running" /\ meta'[j].status = "running"
      BY <1>1, <1>3 DEF CancelRunning, Running, Apart, TypeOK, Meta, windows, starts
    <3> QED BY <1>1, <2>2, <3>1
            DEF Apart, Sound, Finality, CancelOnly, Window, CancelCounts, Running, Terminal
  <2> QED BY <2>1, <2>2
<1> QED BY <1>2, <1>3 DEF Cancel

\* Without a manager no start is in its window.
LEMMA NoManagerNoWindow == ASSUME OutcomeInv, mgr = "none", NEW i \in Job PROVE i \notin starting
BY OutcomeFacts DEF Window, JobInv, NoManagerNoStart, InFlight

LEMMA WebhookScanSound == ASSUME OutcomeInv, NEW j \in Job, WebhookScan(j), NEW i \in Job PROVE Sound(i)
<1>1. ASSUME NEW gone, NEW ok, StorePoll(j, gone, ok) PROVE Sound(i)
  <2>1. /\ Running(j) /\ meta'[i] = MetaAfter({j}, marker, signalled, ok)[i] /\ mgr = "none" /\ Apart(i)
    BY <1>1 DEF StorePoll, Apart, windows, starts
  <2>2. i \in {j} => Running(i) /\ i \notin starting
    BY <2>1, NoManagerNoWindow
  <2> QED BY <2>1, <2>2, SettledSound
<1> QED BY <1>1, RefreshSound DEF WebhookScan, WebhookPoll

LEMMA AsideSound ==
  ASSUME OutcomeInv, NEW i \in Job, ConnLost \/ RecoverSkipped \/ UNCHANGED vars \/ \E j \in Job : System(j)
  PROVE  Sound(i)
<1>1. Apart(i) /\ meta'[i] = meta[i]
  BY DEF ConnLost, RecoverSkipped, System, CommandEnds, ProcExits, ProcKilled, Apart, vars, disk,
         windows, starts
<1> QED BY <1>1, UntouchedSound

LEMMA CrashesSound == ASSUME OutcomeInv, Crashes, NEW i \in Job PROVE Sound(i)
<1>1. LoseMemory /\ meta' = meta
  BY DEF Crashes, Crash, CrashInClaim, CrashInLock, CrashInSettle, CrashInDiscard, disk
<1>2. pc'[i] \notin {"parked", "spawned", "pid"} /\ i \notin starting' /\ i \notin abort'
  BY <1>1 DEF LoseMemory, InFlight
<1> QED BY <1>1, <1>2, OutcomeFacts
        DEF Sound, Finality, CancelOnly, Window, CancelCounts, Running, Terminal

LEMMA RecoverSound ==
  ASSUME OutcomeInv, NEW old, NEW gone, NEW ok, Recover(old, gone, ok), NEW i \in Job PROVE Sound(i)
<1> DEFINE E == Ended(Job, gone, marker)
<1>1. /\ mgr = "none" /\ Apart(i)
      /\ meta'[i] = IF i \in old THEN NoMeta ELSE MetaAfter(E, marker, signalled, ok)[i]
  BY DEF Recover, Apart, windows, starts
<1>2. i \notin starting
  BY <1>1, NoManagerNoWindow
<1>3. i \in E => Running(i) /\ i \notin starting
  BY EndedOutside
<1> HIDE DEF E
<1>4. CASE i \in old
  BY <1>1, <1>2, <1>4, RemovedSound
<1>5. CASE i \notin old
  BY <1>1, <1>3, <1>5, SettledSound
<1> QED BY <1>4, <1>5

LEMMA StepSound == ASSUME OutcomeInv, [Next]_vars, NEW i \in Job PROVE Sound(i)
<1>1. CASE Next
  BY <1>1, RequestedSound, CrashesSound, RecoverSound, StartStepSound, ExitStepSound, CancelSound,
     WebhookScanSound, AsideSound DEF Next, Recovery
<1>2. CASE UNCHANGED vars
  BY <1>2, AsideSound
<1> QED BY <1>1, <1>2

LEMMA OutcomeInvHolds == Spec => []OutcomeInv
<1>1. Init => \A j \in Job : Window(j) /\ CancelCounts(j)
  BY DEF Init, NoMeta, Window, CancelCounts
<1>2. OutcomeInv /\ KeyInv' /\ [Next]_vars => OutcomeInv'
  BY StepSound DEF OutcomeInv, Sound
<1>3. KeyInv /\ (\A j \in Job : Window(j) /\ CancelCounts(j)) <=> OutcomeInv
  BY DEF OutcomeInv
<1> QED BY <1>1, <1>2, <1>3, KeyInvHolds, PTL DEF Spec

\* A terminal record is final: whatever start, cancel, exit callback, scan or recovery
\* comes after it (settle, refresh, writeMeta), it is only ever removed.
THEOREM OutcomeIsFinal == Spec => OutcomeFinal
<1>1. OutcomeInv /\ [Next]_vars => [\A j \in Job : Terminal(j) => meta'[j] \in {meta[j], NoMeta}]_vars
  BY StepSound DEF Sound, Finality
<1> QED BY <1>1, OutcomeInvHolds, PTL DEF Spec, OutcomeFinal

\* While a start is in its window only its own cancel may end its record: no reader,
\* scan, count, sweep or recovery does (isStarting, startingJobs).
THEOREM OnlyCancelEndsAStart == Spec => WindowEndsOnlyByCancel
<1>1. OutcomeInv /\ [Next]_vars =>
        [\A j \in starting : Running(j) /\ Terminal(j)' => j \in abort']_vars
  <2> SUFFICES ASSUME OutcomeInv, [Next]_vars, NEW j \in starting
               PROVE  Running(j) /\ Terminal(j)' => j \in abort'
    OBVIOUS
  <2>1. j \in Job
    BY OutcomeFacts DEF OutcomeInv, KeyInv, TypeOK
  <2> QED BY <2>1, StepSound DEF Sound, CancelOnly
<1> QED BY <1>1, OutcomeInvHolds, PTL DEF Spec, WindowEndsOnlyByCancel

\* A record whose cancel is on disk is never a normal exit (cancelWasRequested).
THEOREM CancelBeatsExit == Spec => []CancelOutranksExit
<1>1. OutcomeInv => CancelOutranksExit
  BY DEF OutcomeInv, CancelCounts, CancelOutranksExit
<1> QED BY <1>1, OutcomeInvHolds, PTL

-----------------------------------------------------------------------------
(* The inductive invariant, job by job and card by card.                      *)

\* Cancelled while it was being spawned: first in the start's own stretch of the
\* event loop, then as a process that has been told to die.
Gap(j) == pc[j] = "spawned" /\ j \in abort
Dying(j) == watch[j] = "dying"

\* Memory is about a manager, a start that failed, a process that is dying.
MemoryOf(j) ==
  /\ mgr = "none" => watch[j] = "none"
  /\ Dying(j) => pc[j] = "answered"
  /\ j \in retiring => watch[j] = "retire"
  /\ j \in locksHeld => Dying(j) \/ j \in abort

\* The pid is written after the last look at the abort flag, or not at all.
PidInTime(j) ==
  /\ pc[j] \in {"idle", "claimed", "dirs", "abandon", "parked", "erasing", "spawned"} \/ Dying(j)
       => ~meta[j].pid
  /\ pc[j] = "pid" => meta[j].pid

\* A command that runs is known: its record says so and says how to tell, or the
\* manager holds its handle.
Live(j) == Running(j) /\ (meta[j].pid \/ j \in retiring)
Known(j) ==
  Working(j) /\ j \notin orphan => pc[j] \in {"spawned", "pid"} \/ Dying(j) \/ Live(j)

\* What is being erased has given its locks back.
Erased(j) == pc[j] = "erasing" => \A r \in Resource : lock[r] # j

\* The starts that may run, or still run, a command.
Claims(j) ==
  \/ pc[j] = "parked" /\ j \notin abort
  \/ pc[j] \in {"spawned", "pid"}
  \/ Dying(j)
  \/ Working(j) /\ j \notin orphan

\* They hold what they asked for: in the lock file, for a dying process' card in
\* memory, and between the cancel and the kill by owning the event loop.
HoldsName(j, r) == lock[r] = j /\ (Gap(j) \/ Dying(j) => j \in locksHeld)
HoldsCard(j, g) ==
  /\ Dying(j) => dyingCard[g] = j
  /\ Gap(j) => lock[g] = None /\ dyingCard[g] = None
  /\ ~Dying(j) /\ ~Gap(j) => lock[g] = j
Held(j) ==
  Claims(j) => \A r \in req[j].res : (r \in Gpu => HoldsCard(j, r)) /\ (r \notin Gpu => HoldsName(j, r))

\* A card a dying process holds is in nobody else's file.
CardSafe(g) == dyingCard[g] # None => Dying(dyingCard[g]) /\ lock[g] \in {None, dyingCard[g]}

JobLock(j) == MemoryOf(j) /\ PidInTime(j) /\ Known(j) /\ Erased(j) /\ Held(j)
LockPart == (\A j \in Job : JobLock(j)) /\ (\A g \in Gpu : CardSafe(g))
LockInv == OutcomeInv /\ LockPart

LEMMA LockFacts ==
  ASSUME LockInv, NEW i \in Job
  PROVE  /\ OutcomeInv /\ KeyInv /\ TypeOK /\ JobInv(i) /\ Window(i)
         /\ MemoryOf(i) /\ PidInTime(i) /\ Known(i) /\ Erased(i) /\ Held(i)
         /\ meta[i] \in Meta /\ req[i].res \subseteq Resource /\ i # None
         /\ \A g \in Gpu : CardSafe(g)
BY OutcomeFacts, JobAssumption DEF LockInv, LockPart, JobLock, TypeOK, Request

-----------------------------------------------------------------------------
(* A step that is about another job.                                          *)

Apiece(i) ==
  /\ pc'[i] = pc[i] /\ req'[i] = req[i] /\ (Working(i)' => Working(i))
  /\ (i \in orphan => i \in orphan') /\ mgr' \in {mgr, "up"} /\ watch'[i] = watch[i]
  /\ (i \in abort' <=> i \in abort) /\ (i \in retiring' <=> i \in retiring)
  /\ (i \in locksHeld' <=> i \in locksHeld)

\* The record of a running job stays, a pid is only lost with the directory.
RecordCalm(i) ==
  /\ meta'[i].pid = meta[i].pid \/ (~meta'[i].pid /\ pc[i] # "pid")
  /\ Live(i) /\ Working(i) => Running(i)' /\ meta'[i].pid = meta[i].pid

\* No lock is taken from those who hold it, or given to those who gave it up.
LocksCalm(i) ==
  \A r \in Resource :
    /\ lock'[r] = i => lock[r] = i
    /\ lock[r] = i /\ r \in req[i].res /\ Claims(i) /\ (r \in Gpu => ~Dying(i) /\ ~Gap(i))
         => lock'[r] = i
    /\ Gap(i) => lock'[r] = lock[r]
    /\ r \in Gpu /\ (dyingCard[r] = i \/ Gap(i)) => dyingCard'[r] = dyingCard[r]

Calm(i) == Apiece(i) /\ RecordCalm(i) /\ LocksCalm(i)

LEMMA CalmKeeps == ASSUME LockInv, NEW i \in Job, Calm(i) PROVE JobLock(i)'
<1>1. MemoryOf(i)' /\ PidInTime(i)' /\ Erased(i)'
  BY LockFacts DEF Calm, Apiece, RecordCalm, LocksCalm, MemoryOf, PidInTime, Erased, Dying
<1>2. Known(i)'
  BY LockFacts DEF Calm, Apiece, RecordCalm, Known, Live, Dying
<1>3. (Claims(i)' => Claims(i)) /\ (Dying(i)' <=> Dying(i)) /\ (Gap(i)' <=> Gap(i))
  BY DEF Calm, Apiece, Claims, Dying, Gap
<1>4. Held(i)'
  <2> SUFFICES ASSUME Claims(i)', NEW r \in req'[i].res
               PROVE  (r \in Gpu => HoldsCard(i, r)') /\ (r \notin Gpu => HoldsName(i, r)')
    BY DEF Held
  <2>1. Claims(i) /\ r \in req[i].res /\ r \in Resource
    BY <1>3, LockFacts DEF Calm, Apiece
  <2>2. (r \in Gpu => HoldsCard(i, r)) /\ (r \notin Gpu => HoldsName(i, r))
    BY <2>1, LockFacts DEF Held
  <2>3. CASE r \in Gpu
    BY <1>3, <2>1, <2>2, <2>3 DEF HoldsCard, Calm, LocksCalm
  <2>4. CASE r \notin Gpu
    BY <1>3, <2>1, <2>2, <2>4 DEF HoldsName, Calm, LocksCalm, Apiece
  <2> QED BY <2>3, <2>4
<1> QED BY <1>1, <1>2, <1>4 DEF JobLock

\* Cards stay safe while locks only go.
LEMMA CardsKept ==
  ASSUME LockInv, UNCHANGED dyingCard, NEW g \in Gpu, lock'[g] \in {lock[g], None},
         \A j \in Job : Dying(j) => Dying(j)'
  PROVE  CardSafe(g)'
<1>1. CardSafe(g) /\ dyingCard[g] \in Job \cup {None}
  BY DEF LockInv, LockPart, OutcomeInv, KeyInv, TypeOK
<1> QED BY <1>1 DEF CardSafe, Dying

\* Those who wait for the event loop are between no two writes of their start.
LEMMA Waiting ==
  ASSUME LockInv, NEW i \in Job, loop # i
  PROVE  pc[i] \notin Writing /\ ~Gap(i)
BY LockFacts DEF JobInv, LoopOwned, Writing, Gap

-----------------------------------------------------------------------------
(* Settling.                                                                  *)

\* A record a reader may settle: outside every window, and no running command of a
\* recorded pid.
Finished(e) == e \in Job /\ Running(e) /\ ~InWindow(e) /\ (~Working(e) \/ ~meta[e].pid)

LEMMA EndedFinished ==
  ASSUME LockInv, NEW S \in SUBSET Job, NEW gone \in SUBSET MaybeGone, NEW mk,
         \A m \in mk : ~Working(m)
  PROVE  \A e \in Ended(S, gone, mk) : Finished(e)
BY DEF Ended, Finished, MaybeGone, Alive, Working

LEMMA MarkerEnded == ASSUME LockInv PROVE \A m \in marker : ~Working(m)
<1>1. marker \subseteq Job
  BY DEF LockInv, OutcomeInv, KeyInv, TypeOK
<1> QED BY <1>1, LockFacts DEF JobInv, MarkerMeansEnded, Working

\* Of those who may run a command only a dying process may be settled.
LEMMA FinishedClaims ==
  ASSUME LockInv, NEW i \in Job, Finished(i), pc[i] \notin Writing
  PROVE  /\ Claims(i) => Dying(i)
         /\ ~(Live(i) /\ Working(i))
<1>1. pc[i] \notin {"spawned", "pid"} /\ Known(i) /\ Window(i)
  BY LockFacts DEF Writing
<1>2. ~(Live(i) /\ Working(i))
  BY DEF Finished, Live, InWindow
<1>3. ~(pc[i] = "parked" /\ i \notin abort)
  BY <1>1 DEF Window, Finished, InWindow
<1> QED BY <1>1, <1>2, <1>3 DEF Claims, Known

LEMMA SettleRecord ==
  ASSUME LockInv, NEW E, \A e \in E : Finished(e), NEW i \in Job, pc[i] \notin Writing,
         NEW mk, NEW sig, NEW ok, meta'[i] = MetaAfter(E, mk, sig, ok)[i]
  PROVE  RecordCalm(i)
<1>1. pc[i] # "pid" /\ meta[i] \in Meta
  BY LockFacts DEF Writing
<1>2. CASE ~(i \in E /\ ok)
  <2>1. meta'[i] = meta[i]
    BY <1>2 DEF MetaAfter
  <2> QED BY <2>1 DEF RecordCalm, Running, Live
<1>3. CASE i \in Discarded(E) /\ ok
  <2>1. meta'[i] = NoMeta /\ ~(Live(i) /\ Working(i))
    BY <1>3, FinishedClaims DEF MetaAfter, Discarded
  <2>2. ~meta'[i].pid
    BY <2>1 DEF NoMeta
  <2> QED BY <1>1, <2>1, <2>2 DEF RecordCalm
<1>4. CASE i \in E /\ i \notin Discarded(E)
  <2>1. meta'[i].pid = meta[i].pid
    <3>1. meta'[i] \in {meta[i], Outcome(i, mk, sig)}
      BY <1>4 DEF MetaAfter
    <3> QED BY <1>1, <3>1 DEF Outcome, Meta
  <2> QED BY <1>4, <2>1, FinishedClaims DEF RecordCalm
<1> QED BY <1>2, <1>3, <1>4 DEF Discarded

LEMMA SettleLock ==
  ASSUME LockInv, NEW E, \A e \in E : Finished(e), NEW i \in Job, loop # i, NEW r \in Resource
  PROVE  /\ LockAfter(E)[r] = i => lock[r] = i
         /\ lock[r] = i /\ r \in req[i].res /\ Claims(i) /\ (r \in Gpu => ~Dying(i))
              => LockAfter(E)[r] = i
<1>1. LockAfter(E)[r] = IF lock[r] \in E /\ (r \in Gpu \/ lock[r] \notin locksHeld \/ lock[r] \in Discarded(E))
                        THEN None ELSE lock[r]
  BY DEF LockAfter
<1>2. ASSUME lock[r] = i, r \in req[i].res, Claims(i), r \in Gpu => ~Dying(i), i \in E
      PROVE  LockAfter(E)[r] = i
  <2>1. Dying(i) /\ r \notin Gpu
    BY <1>2, FinishedClaims, Waiting
  <2>2. i \notin Discarded(E)
    BY <2>1, LockFacts DEF Discarded, JobInv, RetiringFailed, MemoryOf
  <2>3. i \in locksHeld
    BY <1>2, <2>1, LockFacts DEF Held, HoldsName
  <2> QED BY <1>1, <1>2, <2>1, <2>2, <2>3
<1> QED BY <1>1, <1>2, LockFacts

LEMMA SettleCalm ==
  ASSUME LockInv, NEW E, \A e \in E : Finished(e), NEW i \in Job, loop # i, Apiece(i),
         NEW mk, NEW sig, NEW ok, meta'[i] = MetaAfter(E, mk, sig, ok)[i],
         \A r \in Resource : lock'[r] = LockAfter(E)[r], UNCHANGED dyingCard
  PROVE  Calm(i)
<1>1. RecordCalm(i)
  BY SettleRecord, Waiting
<1>2. LocksCalm(i)
  BY SettleLock, Waiting DEF LocksCalm
<1> QED BY <1>1, <1>2 DEF Calm

-----------------------------------------------------------------------------
(* Requests.                                                                  *)

LEMMA FreeLoop == ASSUME LockInv, Free, NEW i \in Job PROVE loop # i
BY JobAssumption DEF Free

\* The sweep takes no directory, and settles no record, of a command that runs.
LEMMA SweepCalm ==
  ASSUME LockInv, Free, NEW S \in SUBSET Job, NEW old, NEW gone \in SUBSET MaybeGone, NEW ok,
         Sweep(S, old, gone, ok), UNCHANGED dyingCard, NEW i \in Job, Apiece(i)
  PROVE  Calm(i)
<1> DEFINE E == Ended(S \ old, gone, marker)
<1>1. \A e \in E : Finished(e)
  <2>1. S \ old \in SUBSET Job
    OBVIOUS
  <2> QED BY <2>1, EndedFinished, MarkerEnded
<1>2. \A r \in Resource : lock'[r] = LockAfter(E)[r]
  BY DEF Sweep
<1>3. loop # i
  BY FreeLoop
<1>4. CASE i \notin old
  <2>1. meta'[i] = MetaAfter(E, marker, signalled, ok)[i]
    BY <1>4 DEF Sweep
  <2> HIDE DEF E
  <2> QED BY <1>1, <1>2, <1>3, <2>1, SettleCalm
<1>5. CASE i \in old
  <2>1. meta'[i] = NoMeta /\ ~Running(i) /\ pc[i] # "pid"
    BY <1>3, <1>5, Waiting DEF Sweep, Expirable, Terminal, Running, Writing
  <2>2. RecordCalm(i)
    <3>1. ~meta'[i].pid
      BY <2>1 DEF NoMeta
    <3> QED BY <2>1, <3>1 DEF RecordCalm, Live
  <2>3. i \notin E /\ ~Gap(i)
    BY <1>3, <1>5, Waiting DEF Ended
  <2>4. LocksCalm(i)
    <3> HIDE DEF E
    <3>1. \A r \in Resource : (lock'[r] = i => lock[r] = i) /\ (lock[r] = i => lock'[r] = i)
      BY <1>2, <2>3, LockFacts DEF LockAfter
    <3> QED BY <2>3, <3>1 DEF LocksCalm
  <2> QED BY <2>2, <2>4 DEF Calm
<1> QED BY <1>4, <1>5

LEMMA SweepCards ==
  ASSUME LockInv, NEW S, NEW old, NEW gone, NEW ok, Sweep(S, old, gone, ok),
         UNCHANGED <<dyingCard, watch>>, NEW g \in Gpu
  PROVE  CardSafe(g)'
<1>1. lock'[g] \in {lock[g], None}
  BY DEF Sweep, LockAfter, Resource
<1> QED BY <1>1, CardsKept DEF Dying

LEMMA RefreshLocks ==
  ASSUME LockInv, NEW j \in Job, NEW gone \in SUBSET MaybeGone, NEW ok, RefreshOne(j, gone, ok)
  PROVE  LockPart'
<1> DEFINE E == Ended({j}, gone, marker)
<1>1. \A e \in E : Finished(e)
  BY EndedFinished, MarkerEnded
<1>2. /\ Free /\ meta' = MetaAfter(E, marker, signalled, ok) /\ lock' = LockAfter(E)
      /\ UNCHANGED <<mgr, windows, reservations, starts, os, history>>
  BY DEF RefreshOne
<1> HIDE DEF E
<1>3. ASSUME NEW i \in Job PROVE JobLock(i)'
  <2>1. Apiece(i)
    BY <1>2 DEF Apiece, windows, reservations, starts, os, history, Working
  <2> QED BY <1>1, <1>2, <2>1, FreeLoop, SettleCalm, CalmKeeps DEF reservations
<1>4. ASSUME NEW g \in Gpu PROVE CardSafe(g)'
  <2>1. lock'[g] \in {lock[g], None}
    BY <1>2 DEF LockAfter, Resource
  <2> QED BY <1>2, <2>1, CardsKept DEF Dying, os, reservations
<1> QED BY <1>3, <1>4 DEF LockPart

LEMMA AdmittedLocks ==
  ASSUME LockInv, OutcomeInv', NEW j \in Job, NEW r \in Requests, NEW old,
         NEW gone \in SUBSET MaybeGone, NEW ok, StartAdmitted(j, r, old, gone, ok)
  PROVE  LockPart'
<1>1. /\ Free /\ Sweep(Job \ settled, old, gone, ok) /\ pc[j] = "idle"
      /\ pc' = [pc EXCEPT ![j] = "claimed"] /\ req' = [req EXCEPT ![j] = r]
      /\ UNCHANGED <<mgr, windows, reservations, os, history>>
  BY DEF StartAdmitted
<1>2. ASSUME NEW i \in Job, i # j PROVE JobLock(i)'
  <2>1. Apiece(i)
    BY <1>1, <1>2, LockFacts DEF Apiece, windows, reservations, os, history, Working, TypeOK
  <2> QED BY <1>1, <2>1, SweepCalm, CalmKeeps DEF reservations
<1>3. JobLock(j)'
  <2>1. pc'[j] = "claimed" /\ ~meta[j].pid /\ watch'[j] = watch[j] /\ ~Dying(j) /\ proc'[j] = "none"
    BY <1>1, LockFacts DEF TypeOK, PidInTime, MemoryOf, os, JobInv, NoProcess
  <2>2. ~meta'[j].pid
    <3> DEFINE E == Ended((Job \ settled) \ old, gone, marker)
    <3>1. j \notin E
      BY <1>1, LockFacts DEF Ended, JobInv, RecordedInTime, Recorded, Running
    <3>2. meta'[j] \in {NoMeta, MetaAfter(E, marker, signalled, ok)[j]}
      BY <1>1 DEF Sweep
    <3> HIDE DEF E
    <3>3. meta'[j] \in {NoMeta, meta[j]}
      BY <3>1, <3>2 DEF MetaAfter, Discarded
    <3> QED BY <2>1, <3>3 DEF NoMeta
  <2>3. MemoryOf(j)' /\ PidInTime(j)' /\ Known(j)' /\ Erased(j)'
    BY <1>1, <2>1, <2>2, LockFacts DEF MemoryOf, PidInTime, Known, Erased, Dying, Working, Free,
       windows, reservations
  <2>4. ~Claims(j)'
    BY <2>1 DEF Claims, Dying, Working
  <2> QED BY <2>3, <2>4 DEF JobLock, Held
<1>4. ASSUME NEW g \in Gpu PROVE CardSafe(g)'
  BY <1>1, SweepCards DEF reservations, os
<1> QED BY <1>2, <1>3, <1>4 DEF LockPart

LEMMA SweepLocks ==
  ASSUME LockInv, Free, NEW S \in SUBSET Job, NEW old, NEW gone \in SUBSET MaybeGone, NEW ok,
         Sweep(S, old, gone, ok), UNCHANGED <<mgr, windows, reservations, starts, os, history>>
  PROVE  LockPart'
<1>1. ASSUME NEW i \in Job PROVE JobLock(i)'
  <2>1. Apiece(i)
    BY DEF Apiece, windows, reservations, starts, os, history, Working
  <2> QED BY <2>1, SweepCalm, CalmKeeps DEF reservations
<1>2. ASSUME NEW g \in Gpu PROVE CardSafe(g)'
  BY SweepCards DEF reservations, os
<1> QED BY <1>1, <1>2 DEF LockPart

\* A step that touches no record and no lock.
LEMMA AsideLocks ==
  ASSUME LockInv, UNCHANGED <<meta, lock, dyingCard>>, \A i \in Job : Apiece(i) PROVE LockPart'
<1>1. ASSUME NEW i \in Job PROVE JobLock(i)'
  <2>1. RecordCalm(i) /\ LocksCalm(i)
    BY LockFacts DEF RecordCalm, LocksCalm, Live, Running
  <2> QED BY <2>1, CalmKeeps DEF Calm
<1>2. ASSUME NEW g \in Gpu PROVE CardSafe(g)'
  BY CardsKept DEF Dying, Apiece
<1> QED BY <1>1, <1>2 DEF LockPart

LEMMA RequestedLocks == ASSUME LockInv, OutcomeInv', Requested PROVE LockPart'
<1>1. ASSUME NEW k \in OpKey, StatusByKey(k) PROVE LockPart'
  <2>1. UNCHANGED <<meta, lock, dyingCard>> /\ \A i \in Job : Apiece(i)
    BY <1>1 DEF StatusByKey, Apiece, windows, reservations, starts, os, history, Working
  <2> QED BY <2>1, AsideLocks
<1>2. ASSUME NEW S \in SUBSET Job, NEW old, NEW gone \in SUBSET MaybeGone, NEW ok, List(S, old, gone, ok)
      PROVE  LockPart'
  BY <1>2, SweepLocks DEF List
<1>3. ASSUME NEW r \in Requests, NEW old, NEW gone \in SUBSET MaybeGone, NEW ok, NEW torn,
             StartRefused(r, old, gone, ok, torn)
      PROVE  LockPart'
  BY <1>3, SweepLocks DEF StartRefused
<1>4. ASSUME NEW S \in SUBSET {j \in Job : Recorded(j)} PROVE S \in SUBSET Job
  OBVIOUS
<1> QED BY <1>1, <1>2, <1>3, <1>4, RefreshLocks, AdmittedLocks DEF Requested

-----------------------------------------------------------------------------
(* The steps of a start.                                                      *)

\* Another job keeps what it has when its record and its holds are not touched.
LEMMA OthersHold ==
  ASSUME LockInv, NEW i \in Job, loop # i, Apiece(i), meta'[i] = meta[i],
         \A r \in Resource : (lock'[r] = i) <=> (lock[r] = i),
         \A g \in Gpu : dyingCard[g] = i => dyingCard'[g] = i
  PROVE  JobLock(i)'
<1>1. RecordCalm(i)
  BY DEF RecordCalm, Live, Running
<1>2. LocksCalm(i)
  BY Waiting DEF LocksCalm
<1> QED BY <1>1, <1>2, CalmKeeps DEF Calm

\* A job without a command and without a record of a pid holds nothing.
LEMMA NoCommand ==
  ASSUME NEW j \in Job, ~Claims(j)', pc'[j] \notin {"erasing", "pid"}, ~meta'[j].pid, j \notin retiring',
         j \notin locksHeld' \/ j \in abort', mgr' = "none" => watch'[j] = "none"
  PROVE  JobLock(j)'
<1>1. ~Dying(j)'
  BY DEF Claims
<1> QED BY <1>1 DEF JobLock, MemoryOf, PidInTime, Known, Erased, Held, Claims

LEMMA UpToTheRecordLocks ==
  ASSUME LockInv, OutcomeInv', NEW j \in Job,
         MakeDirs(j) \/ WriteRecord(j) \/ AbandonStart(j) \/ FinishAbandon(j)
  PROVE  LockPart'
<1>1. /\ loop = j /\ pc[j] \in {"claimed", "dirs", "abandon"} /\ UNCHANGED <<reservations, os, history, mgr, req>>
      /\ UNCHANGED <<abort, lost, retiring>>
  BY DEF MakeDirs, WriteRecord, AbandonStart, FinishAbandon, windows
<1>2. /\ ~meta[j].pid /\ ~Dying(j) /\ proc[j] = "none" /\ j \notin retiring /\ j \notin locksHeld
      /\ mgr # "none" /\ j \notin abort /\ j \notin abort'
  BY <1>1, LockFacts
     DEF PidInTime, MemoryOf, JobInv, NoProcess, NoManagerNoStart, InFlight, RetiringFailed, Window
<1>3. \A r \in Resource : lock'[r] = lock[r] \/ (lock[r] = j /\ lock'[r] = None)
  BY DEF MakeDirs, WriteRecord, AbandonStart, FinishAbandon, ReleaseLocks
<1>4. ASSUME NEW i \in Job, i # j PROVE JobLock(i)'
  <2>1. Apiece(i) /\ meta'[i] = meta[i]
    BY <1>1, <1>4, LockFacts DEF Apiece, MakeDirs, WriteRecord, AbandonStart, FinishAbandon,
       RemoveJobDir, TypeOK, reservations, os, history, Working
  <2>2. \A r \in Resource : (lock'[r] = i) <=> (lock[r] = i)
    BY <1>3, <1>4, LockFacts
  <2> QED BY <1>1, <1>4, <2>1, <2>2, OthersHold DEF reservations
<1>5. ~meta'[j].pid
  <2>1. CASE FinishAbandon(j)
    <3>1. meta'[j] \in {meta[j], NoMeta}
      BY <2>1, LockFacts, Removal DEF FinishAbandon
    <3> QED BY <1>2, <3>1 DEF NoMeta
  <2>2. CASE MakeDirs(j)
    BY <1>2, <2>2, LockFacts DEF MakeDirs, TypeOK, Meta
  <2>3. CASE WriteRecord(j)
    BY <1>2, <2>3, LockFacts DEF WriteRecord, TypeOK, Meta
  <2>4. CASE AbandonStart(j)
    BY <1>2, <2>4 DEF AbandonStart
  <2> QED BY <2>1, <2>2, <2>3, <2>4
<1>6. JobLock(j)'
  <2>1. CASE WriteRecord(j)
    <3>1. pc'[j] = "parked" /\ lock' = lock /\ \A r \in req[j].res : lock[r] = j
      BY <2>1, LockFacts DEF WriteRecord, TypeOK, Missing
    <3>2. MemoryOf(j)' /\ PidInTime(j)' /\ Known(j)' /\ Erased(j)'
      BY <1>1, <1>2, <1>5, <3>1 DEF MemoryOf, PidInTime, Known, Erased, Dying, Working, os, reservations
    <3>3. Held(j)'
      BY <1>1, <1>2, <3>1 DEF Held, HoldsName, HoldsCard, Gap, Dying, os
    <3> QED BY <3>2, <3>3 DEF JobLock
  <2>2. CASE MakeDirs(j) \/ AbandonStart(j) \/ FinishAbandon(j)
    <3>1. pc'[j] \in {"dirs", "abandon", "answered"}
      BY <2>2, LockFacts DEF MakeDirs, AbandonStart, FinishAbandon, TypeOK
    <3>2. ~Claims(j)'
      BY <1>1, <1>2, <3>1 DEF Claims, Dying, Working, os
    <3> QED BY <1>1, <1>2, <1>5, <3>1, <3>2, NoCommand DEF reservations
  <2> QED BY <2>1, <2>2
<1>7. ASSUME NEW g \in Gpu PROVE CardSafe(g)'
  BY <1>1, <1>3, CardsKept DEF Dying, os, reservations, Resource
<1> QED BY <1>4, <1>6, <1>7 DEF LockPart

\* Who holds a resource, in a window or by a running command, is not gone.
LEMMA HolderStays ==
  ASSUME LockInv, NEW i \in Job, loop # i, NEW r \in req[i].res, lock[r] = i, Claims(i),
         r \in Gpu => ~Dying(i), NEW gone \in SUBSET MaybeGone
  PROVE  ~HolderGone(i, gone)
<1>1. Dying(i) => i \in locksHeld
  BY LockFacts DEF Held, HoldsName
<1>2. ~Dying(i) => Running(i)
  BY LockFacts, Waiting DEF Claims, Known, Live, Window, Writing
<1>3. i \in HolderEnded(i, gone) => i \notin locksHeld /\ Finished(i)
  <2> SUFFICES ASSUME i \in HolderEnded(i, gone) PROVE i \notin locksHeld /\ Finished(i)
    OBVIOUS
  <2>1. i \notin locksHeld /\ i \in Ended({i}, gone, marker)
    BY DEF HolderEnded
  <2> QED BY <2>1, EndedFinished, MarkerEnded
<1> QED BY <1>1, <1>2, <1>3, FinishedClaims, Waiting, JobAssumption DEF HolderGone

LEMMA TakeResourceLocks ==
  ASSUME LockInv, OutcomeInv', NEW j \in Job, NEW r \in Resource, NEW gone \in SUBSET MaybeGone, NEW ok,
         TakeResource(j, r, gone, ok)
  PROVE  LockPart'
<1> DEFINE h == lock[r]
           E == HolderEnded(h, gone)
<1>1. /\ loop = j /\ pc[j] = "dirs" /\ HolderGone(h, gone) /\ (r \in Gpu => dyingCard[r] = None)
      /\ lock' = [LockAfter(E) EXCEPT ![r] = j] /\ meta' = MetaAfter(E, marker, signalled, ok)
      /\ UNCHANGED <<mgr, windows, reservations, starts, os, history>>
  BY DEF TakeResource
<1>2. \A e \in E : Finished(e)
  <2>1. CASE h \in Job
    BY <2>1, EndedFinished, MarkerEnded DEF HolderEnded
  <2>2. CASE h \notin Job
    BY <2>2 DEF HolderEnded
  <2> QED BY <2>1, <2>2
<1> HIDE DEF E
<1>3. \A q \in Resource : lock'[q] = IF q = r THEN j ELSE LockAfter(E)[q]
  BY <1>1 DEF LockAfter
<1>4. ASSUME NEW i \in Job, i # j PROVE JobLock(i)'
  <2>1. Apiece(i) /\ UNCHANGED dyingCard
    BY <1>1 DEF Apiece, windows, reservations, starts, os, history, Working
  <2>2. RecordCalm(i)
    BY <1>1, <1>2, <1>4, SettleRecord, Waiting
  <2>3. LocksCalm(i)
    <3>1. ~(h = i /\ r \in req[i].res /\ Claims(i) /\ (r \in Gpu => ~Dying(i)))
      BY <1>1, <1>4, HolderStays
    <3> QED BY <1>1, <1>2, <1>3, <1>4, <2>1, <3>1, SettleLock, Waiting DEF LocksCalm
  <2> QED BY <2>1, <2>2, <2>3, CalmKeeps DEF Calm
<1>5. JobLock(j)'
  <2>1. /\ ~meta[j].pid /\ ~Dying(j) /\ proc[j] = "none" /\ j \notin retiring /\ j \notin locksHeld
        /\ mgr # "none"
    BY <1>1, LockFacts
       DEF PidInTime, MemoryOf, JobInv, NoProcess, NoManagerNoStart, InFlight, RetiringFailed, Window
  <2>2. j \notin E
    BY <1>1, <1>2, LockFacts DEF Finished, JobInv, RecordedInTime, Recorded, Running
  <2>3. meta'[j] = meta[j]
    BY <1>1, <2>2 DEF MetaAfter, Discarded
  <2>4. ~Claims(j)'
    BY <1>1, <2>1 DEF Claims, Dying, Working, os, starts
  <2> QED BY <1>1, <2>1, <2>3, <2>4, NoCommand DEF windows, reservations, starts, os
<1>6. ASSUME NEW g \in Gpu PROVE CardSafe(g)'
  <2>1. CASE g = r
    BY <1>1, <2>1 DEF CardSafe, reservations
  <2>2. CASE g # r
    BY <1>1, <1>3, <2>2, CardsKept DEF LockAfter, Resource, Dying, os, reservations
  <2> QED BY <2>1, <2>2
<1> QED BY <1>4, <1>5, <1>6 DEF LockPart

LEMMA WithoutProcessLocks ==
  ASSUME LockInv, OutcomeInv', NEW j \in Job,
         StartCancelledUnspawned(j) \/ StartGivenUp(j) \/ FinishErasing(j)
  PROVE  LockPart'
<1>1. /\ Free /\ pc[j] \in {"parked", "erasing"} /\ UNCHANGED <<mgr, retiring, dyingCard, req, os, history>>
      /\ \A i \in Job : i # j => pc'[i] = pc[i] /\ (i \in abort' <=> i \in abort)
      /\ \A i \in Job : i # j => (i \in locksHeld' <=> i \in locksHeld)
      /\ \A i \in Job : i # j => meta'[i] = meta[i]
      /\ \A r \in Resource : lock'[r] = lock[r] \/ (lock[r] = j /\ lock'[r] = None)
  <2>1. CASE FinishErasing(j)
    BY <2>1, LockFacts, Removal DEF FinishErasing, CloseWindow, reservations, TypeOK
  <2>2. CASE StartCancelledUnspawned(j) \/ StartGivenUp(j)
    BY <2>2, LockFacts DEF StartCancelledUnspawned, StartGivenUp, CloseWindow, ReleaseLocks,
       reservations, TypeOK
  <2> QED BY <2>1, <2>2
<1>2. ASSUME NEW i \in Job, i # j PROVE JobLock(i)'
  <2>1. Apiece(i) /\ meta'[i] = meta[i] /\ UNCHANGED dyingCard
    BY <1>1, <1>2 DEF Apiece, os, history, Working
  <2>2. \A r \in Resource : lock'[r] = i <=> lock[r] = i
    BY <1>1, <1>2, LockFacts
  <2> QED BY <1>1, <2>1, <2>2, FreeLoop, OthersHold
<1>3. JobLock(j)'
  <2>1. /\ proc[j] = "none" /\ ~Dying(j) /\ j \notin retiring /\ mgr' # "none"
        /\ ~meta[j].pid
        /\ j \in locksHeld => j \in abort
    BY <1>1, LockFacts
       DEF JobInv, NoProcess, MemoryOf, RetiringFailed, NoManagerNoStart, InFlight, PidInTime
  <2>2. ~Working(j)' /\ ~Dying(j)'
    BY <1>1, <2>1 DEF Working, Dying, os
  <2>3. CASE StartGivenUp(j)
    <3>1. /\ pc'[j] = "erasing" /\ pc[j] = "parked" /\ j \notin abort /\ j \notin locksHeld'
          /\ UNCHANGED <<meta, retiring>> /\ \A r \in Resource : lock'[r] # j
      BY <2>1, <2>3, LockFacts DEF StartGivenUp, TypeOK, ReleaseLocks, reservations
    <3> QED BY <2>1, <2>2, <3>1
            DEF JobLock, MemoryOf, PidInTime, Known, Erased, Held, Claims
  <2>4. CASE StartCancelledUnspawned(j) \/ FinishErasing(j)
    <3>1. pc'[j] \in {"answered", "retired"} /\ j \notin locksHeld' /\ ~meta'[j].pid
      <4>1. CASE StartCancelledUnspawned(j)
        BY <2>1, <4>1, LockFacts DEF StartCancelledUnspawned, TypeOK
      <4>2. CASE FinishErasing(j)
        <5>1. /\ meta'[j] \in {NoMeta, meta[j]} /\ pc[j] = "erasing" /\ pc'[j] = "retired"
              /\ UNCHANGED locksHeld
          BY <4>2, LockFacts DEF FinishErasing, RemoveJobDir, TypeOK, reservations
        <5> QED BY <2>1, <5>1, LockFacts DEF NoMeta, Window
      <4> QED BY <2>4, <4>1, <4>2
    <3>2. ~Claims(j)'
      BY <2>2, <3>1 DEF Claims
    <3> QED BY <1>1, <2>1, <3>1, <3>2, NoCommand
  <2> QED BY <2>3, <2>4
<1>4. ASSUME NEW g \in Gpu PROVE CardSafe(g)'
  BY <1>1, CardsKept DEF Dying, os, Resource
<1> QED BY <1>2, <1>3, <1>4 DEF LockPart

\* A start with an open window, or whose process is just up, has all it asked for.
LEMMA StartHolds ==
  ASSUME LockInv, NEW j \in Job, pc[j] \in {"parked", "spawned", "pid"}, j \notin abort
  PROVE  /\ \A r \in req[j].res : r \in Resource /\ lock[r] = j
         /\ Running(j) /\ ~Dying(j) /\ j \notin retiring /\ j \notin locksHeld /\ mgr # "none"
         /\ watch[j] # "retire"
<1>1. ~Dying(j) /\ ~Gap(j) /\ Claims(j)
  BY LockFacts DEF MemoryOf, Gap, Claims
<1>2. \A r \in req[j].res : r \in Resource /\ lock[r] = j
  BY <1>1, LockFacts DEF Held, HoldsName, HoldsCard
<1>3. Running(j) /\ j \notin retiring /\ mgr # "none" /\ watch[j] # "retire"
  BY LockFacts DEF Window, MemoryOf, JobInv, RetiringFailed, NoManagerNoStart, InFlight
<1> QED BY <1>1, <1>2, <1>3, LockFacts DEF MemoryOf

LEMMA WithProcessLocks ==
  ASSUME LockInv, OutcomeInv', NEW j \in Job, NEW ok,
         Spawn(j) \/ WritePid(j) \/ StartSucceeds(j) \/ RetireLost(j, ok) \/ RetireUnrecorded(j, ok)
  PROVE  LockPart'
<1>1. /\ pc[j] \in {"parked", "spawned", "pid"} /\ j \notin abort /\ (Free \/ loop = j)
      /\ UNCHANGED <<lock, mgr, reservations, req, history>>
      /\ abort' = abort \ {j} \/ abort' = abort
      /\ \A i \in Job : i # j => /\ pc'[i] = pc[i] /\ proc'[i] = proc[i] /\ watch'[i] = watch[i]
                                 /\ meta'[i] = meta[i] /\ (i \in retiring' <=> i \in retiring)
  BY LockFacts DEF Spawn, WritePid, StartSucceeds, RetireLost, RetireUnrecorded, Retire, CloseWindow,
     TypeOK, disk, windows, os, Window
<1>2. ASSUME NEW i \in Job, i # j PROVE JobLock(i)'
  <2>1. Apiece(i) /\ meta'[i] = meta[i] /\ UNCHANGED <<lock, dyingCard>> /\ loop # i
    BY <1>1, <1>2, FreeLoop DEF Apiece, reservations, history, Working
  <2> QED BY <2>1, OthersHold
<1>3. /\ \A r \in req'[j].res : lock'[r] = j
      /\ Running(j) /\ ~Dying(j) /\ j \notin retiring /\ j \notin locksHeld' /\ mgr' # "none"
      /\ watch[j] # "retire" /\ meta[j] \in Meta /\ j \notin abort'
      /\ pc[j] # "pid" => ~meta[j].pid
      /\ pc[j] = "pid" => meta[j].pid
  BY <1>1, StartHolds, LockFacts DEF reservations, PidInTime
<1>4. JobLock(j)'
  <2>1. CASE Spawn(j)
    <3>1. /\ pc'[j] = "spawned" /\ pc[j] = "parked" /\ ~Dying(j)' /\ UNCHANGED <<meta, retiring>>
      BY <2>1, LockFacts DEF Spawn, TypeOK, Dying, disk, windows
    <3> QED BY <1>3, <3>1
            DEF JobLock, MemoryOf, PidInTime, Known, Erased, Held, HoldsName, HoldsCard, Gap
  <2>2. CASE WritePid(j)
    <3>1. pc'[j] = "pid" /\ UNCHANGED <<watch, retiring>>
      BY <2>2, LockFacts DEF WritePid, TypeOK, os, windows
    <3>2. meta'[j].pid
      <4>1. meta'[j] = [meta[j] EXCEPT !.pid = TRUE]
        BY <2>2, LockFacts DEF WritePid, TypeOK
      <4> QED BY <1>3, <4>1 DEF Meta
    <3> QED BY <1>3, <3>1, <3>2
            DEF JobLock, MemoryOf, PidInTime, Known, Erased, Held, HoldsName, HoldsCard, Gap, Dying
  <2>3. CASE StartSucceeds(j)
    <3>1. pc'[j] = "answered" /\ UNCHANGED <<watch, retiring, meta>> /\ meta[j].pid
      BY <1>3, <2>3, LockFacts DEF StartSucceeds, TypeOK, os, disk
    <3> QED BY <1>3, <3>1
            DEF JobLock, MemoryOf, PidInTime, Known, Erased, Held, HoldsName, HoldsCard, Gap, Dying,
                Live, Running
  <2>4. CASE RetireLost(j, ok) \/ RetireUnrecorded(j, ok)
    <3>1. pc'[j] = "retired" /\ watch'[j] = "retire" /\ j \in retiring'
      BY <2>4, LockFacts DEF RetireLost, RetireUnrecorded, Retire, TypeOK
    <3>2. Running(j)'
      <4>1. meta'[j] \in {meta[j], [meta[j] EXCEPT !.retiring = TRUE, !.pid = TRUE]}
        BY <2>4, LockFacts DEF RetireLost, RetireUnrecorded, Retire, TypeOK
      <4> QED BY <1>3, <4>1 DEF Meta, Running
    <3> QED BY <1>3, <3>1, <3>2
            DEF JobLock, MemoryOf, PidInTime, Known, Erased, Held, HoldsName, HoldsCard, Gap, Dying, Live
  <2> QED BY <2>1, <2>2, <2>3, <2>4
<1>5. ASSUME NEW g \in Gpu PROVE CardSafe(g)'
  <2>1. \A i \in Job : Dying(i) => Dying(i)'
    BY <1>1, <1>3 DEF Dying
  <2> QED BY <1>1, <2>1, CardsKept DEF reservations
<1> QED BY <1>2, <1>4, <1>5 DEF LockPart

\* The kill of a start cancelled while it was being spawned closes the gap: memory
\* takes over its cards before the event loop lets anybody else in.
LEMMA KillLocks ==
  ASSUME LockInv, OutcomeInv', NEW j \in Job, NEW ok, KillCancelledSpawn(j, ok)
  PROVE  LockPart'
<1>1. /\ loop = j /\ Gap(j) /\ Claims(j) /\ ~Dying(j) /\ ~meta[j].pid /\ j \notin retiring /\ mgr # "none"
  BY LockFacts
     DEF KillCancelledSpawn, Gap, Claims, MemoryOf, PidInTime, JobInv, RetiringFailed,
         NoManagerNoStart, InFlight
<1>2. /\ UNCHANGED <<meta, mgr, retiring, locksHeld, proc, req, history>>
      /\ abort' = abort \ {j} /\ pc' = [pc EXCEPT ![j] = "answered"] /\ watch' = [watch EXCEPT ![j] = "dying"]
      /\ dyingCard' = [g \in Gpu |-> IF g \in CardsOf(j) THEN j ELSE dyingCard[g]]
      /\ lock' = [r \in Resource |-> IF ok /\ r \in CardsOf(j) /\ lock[r] = None THEN j ELSE lock[r]]
  BY DEF KillCancelledSpawn, CloseWindow
<1>3. \A g \in CardsOf(j) : g \in Gpu /\ lock[g] = None /\ dyingCard[g] = None
  BY <1>1, LockFacts DEF CardsOf, Held, HoldsCard
<1>4. ASSUME NEW i \in Job, i # j PROVE JobLock(i)'
  <2>1. Apiece(i) /\ meta'[i] = meta[i] /\ loop # i
    BY <1>1, <1>2, <1>4, LockFacts DEF Apiece, TypeOK, history, Working
  <2>2. \A r \in Resource : lock'[r] = i <=> lock[r] = i
    BY <1>2, <1>4, LockFacts
  <2>3. \A g \in Gpu : dyingCard[g] = i => dyingCard'[g] = i
    BY <1>2, <1>3, LockFacts
  <2> QED BY <2>1, <2>2, <2>3, OthersHold
<1>5. JobLock(j)'
  <2>1. pc'[j] = "answered" /\ Dying(j)' /\ ~Gap(j)'
    BY <1>2, LockFacts DEF Dying, Gap, TypeOK
  <2>2. Held(j)'
    <3>1. ASSUME NEW r \in req[j].res, r \in Gpu PROVE HoldsCard(j, r)'
      BY <1>2, <2>1, <3>1 DEF HoldsCard, CardsOf
    <3>2. ASSUME NEW r \in req[j].res, r \notin Gpu PROVE HoldsName(j, r)'
      <4>1. lock[r] = j /\ j \in locksHeld /\ r \in Resource
        BY <1>1, <3>2, LockFacts DEF Held, HoldsName
      <4> QED BY <1>2, <3>2, <4>1 DEF HoldsName, CardsOf
    <3> QED BY <1>2, <3>1, <3>2 DEF Held
  <2> QED BY <1>1, <1>2, <2>1, <2>2 DEF JobLock, MemoryOf, PidInTime, Known, Erased
<1>6. ASSUME NEW g \in Gpu PROVE CardSafe(g)'
  <2>1. CardSafe(g) /\ dyingCard[g] \in Job \cup {None} /\ g \in Resource
    BY LockFacts DEF TypeOK, LockInv, LockPart, OutcomeInv, KeyInv, Resource
  <2>2. \A i \in Job : Dying(i) => Dying(i)'
    BY <1>2, LockFacts DEF Dying, TypeOK
  <2>3. Dying(j)'
    BY <1>2, LockFacts DEF Dying, TypeOK
  <2>4. CASE g \in CardsOf(j)
    BY <1>2, <1>3, <2>1, <2>3, <2>4 DEF CardSafe
  <2>5. CASE g \notin CardsOf(j)
    BY <1>2, <2>1, <2>2, <2>5 DEF CardSafe
  <2> QED BY <2>4, <2>5
<1> QED BY <1>4, <1>5, <1>6 DEF LockPart

LEMMA StartStepLocks == ASSUME LockInv, OutcomeInv', NEW j \in Job, StartStep(j) PROVE LockPart'
BY UpToTheRecordLocks, TakeResourceLocks, WithoutProcessLocks, WithProcessLocks, KillLocks DEF StartStep

-----------------------------------------------------------------------------
(* Exits and cancels.                                                        *)

\* A start that is over, of a command that is: it holds nothing.
LEMMA NothingLeft ==
  ASSUME NEW j \in Job, ~Claims(j)', pc'[j] \in {"answered", "retired", "crashed"},
         j \notin retiring', j \notin locksHeld', mgr' = "none" => watch'[j] = "none"
  PROVE  JobLock(j)'
<1>1. ~Dying(j)'
  BY DEF Claims
<1> QED BY <1>1 DEF JobLock, MemoryOf, PidInTime, Known, Erased, Held, Claims

LEMMA ExitPlainLocks ==
  ASSUME LockInv, OutcomeInv', NEW j \in Job, NEW gone \in SUBSET MaybeGone, NEW ok,
         ExitPlain(j, gone, ok)
  PROVE  LockPart'
<1> DEFINE E == Ended({j}, gone, ExitMarker(j))
<1>1. /\ Free /\ Dead(j) /\ watch[j] = "plain" /\ lock' = LockAfter(E)
      /\ meta' = MetaAfter(E, ExitMarker(j), ExitSignal(j), ok) /\ watch' = [watch EXCEPT ![j] = "none"]
      /\ UNCHANGED <<mgr, windows, reservations, starts, proc, history>>
  BY DEF ExitPlain
<1>2. \A e \in E : Finished(e)
  <2>1. \A m \in ExitMarker(j) : ~Working(m)
    BY <1>1, MarkerEnded DEF ExitMarker, Dead, Working
  <2> QED BY <2>1, EndedFinished
<1> HIDE DEF E
<1>3. ASSUME NEW i \in Job, i # j PROVE JobLock(i)'
  <2>1. Apiece(i)
    BY <1>1, <1>3, LockFacts DEF Apiece, windows, reservations, starts, history, Working, TypeOK
  <2> QED BY <1>1, <1>2, <2>1, FreeLoop, SettleCalm, CalmKeeps DEF reservations
<1>4. JobLock(j)'
  <2>1. pc[j] \notin Writing /\ pc[j] \in {"answered", "retired", "crashed"}
    BY <1>1, FreeLoop, Waiting, LockFacts DEF Dead, JobInv, NoProcess, TypeOK, StartPC, Writing
  <2>2. ~Dying(j) /\ j \notin retiring /\ j \notin locksHeld
    BY <1>1, <2>1, LockFacts DEF Dying, MemoryOf, Window
  <2>3. watch'[j] = "none"
    BY <1>1, LockFacts DEF TypeOK
  <2>4. ~Claims(j)'
    BY <1>1, <2>1, <2>3 DEF Claims, Dying, Working, Dead, starts
  <2> QED BY <1>1, <2>1, <2>2, <2>3, <2>4, NothingLeft DEF windows, reservations, starts
<1>5. ASSUME NEW g \in Gpu PROVE CardSafe(g)'
  <2>1. lock'[g] \in {lock[g], None} /\ \A i \in Job : Dying(i) => Dying(i)'
    BY <1>1, LockFacts DEF LockAfter, Resource, Dying, TypeOK
  <2> QED BY <1>1, <2>1, CardsKept DEF reservations
<1> QED BY <1>3, <1>4, <1>5 DEF LockPart

LEMMA ExitHolderLocks ==
  ASSUME LockInv, OutcomeInv', NEW j \in Job, NEW gone, NEW ok, ExitRetired(j) \/ ExitDying(j, gone, ok)
  PROVE  LockPart'
<1>1. /\ Free /\ Dead(j) /\ watch[j] \in {"retire", "dying"} /\ watch' = [watch EXCEPT ![j] = "none"]
      /\ UNCHANGED <<mgr, starting, abort, lost, starts, proc, history>> /\ lock' = ReleaseLocks({j})
      /\ \A i \in Job : i # j => (i \in retiring' <=> i \in retiring) /\ (i \in locksHeld' <=> i \in locksHeld)
      /\ dyingCard' \in {dyingCard, [g \in Gpu |-> IF dyingCard[g] = j THEN None ELSE dyingCard[g]]}
      /\ watch[j] = "dying" => /\ dyingCard' = [g \in Gpu |-> IF dyingCard[g] = j THEN None ELSE dyingCard[g]]
                               /\ retiring' = retiring /\ j \notin locksHeld'
      /\ watch[j] = "retire" => j \notin retiring' /\ locksHeld' = locksHeld
  BY DEF ExitRetired, ExitDying, windows, reservations
<1>2. ASSUME NEW i \in Job, i # j PROVE JobLock(i)'
  <2>1. Apiece(i)
    BY <1>1, <1>2, LockFacts DEF Apiece, starts, history, Working, TypeOK
  <2>2. meta'[i] = meta[i]
    <3>1. CASE ExitRetired(j)
      BY <1>2, <3>1, LockFacts DEF ExitRetired, RemoveJobDir, TypeOK
    <3>2. CASE ExitDying(j, gone, ok)
      BY <1>2, <3>2 DEF ExitDying, MetaAfter, Discarded, Ended
    <3> QED BY <3>1, <3>2
  <2>3. \A r \in Resource : lock'[r] = i <=> lock[r] = i
    BY <1>1, <1>2, LockFacts DEF ReleaseLocks
  <2>4. \A g \in Gpu : dyingCard[g] = i => dyingCard'[g] = i
    BY <1>1, <1>2
  <2> QED BY <1>1, <2>1, <2>2, <2>3, <2>4, FreeLoop, OthersHold
<1>3. JobLock(j)'
  <2>1. pc[j] \in {"answered", "retired"}
    BY <1>1, LockFacts DEF MemoryOf, Dying, JobInv, RetiringFailed
  <2>2. j \notin retiring' /\ j \notin locksHeld'
    BY <1>1, <2>1, LockFacts DEF MemoryOf, Dying, Window
  <2>3. watch'[j] = "none"
    BY <1>1, LockFacts DEF TypeOK
  <2>4. ~Claims(j)'
    BY <1>1, <2>1, <2>3 DEF Claims, Dying, Working, Dead, starts
  <2> QED BY <1>1, <2>1, <2>2, <2>3, <2>4, NothingLeft DEF starts
<1>4. ASSUME NEW g \in Gpu PROVE CardSafe(g)'
  <2>1. CardSafe(g) /\ dyingCard[g] \in Job \cup {None} /\ g \in Resource /\ lock'[g] \in {lock[g], None}
    BY <1>1, LockFacts DEF LockInv, LockPart, OutcomeInv, KeyInv, TypeOK, Resource, ReleaseLocks
  <2>2. \A i \in Job : i # j /\ Dying(i) => Dying(i)'
    BY <1>1, LockFacts DEF Dying, TypeOK
  <2>3. dyingCard'[g] # j /\ dyingCard'[g] \in {None, dyingCard[g]}
    BY <1>1, <2>1, LockFacts DEF CardSafe, Dying
  <2> QED BY <2>1, <2>2, <2>3 DEF CardSafe
<1> QED BY <1>2, <1>3, <1>4 DEF LockPart

LEMMA ExitStepLocks == ASSUME LockInv, OutcomeInv', NEW j \in Job, ExitStep(j) PROVE LockPart'
BY ExitPlainLocks, ExitHolderLocks DEF ExitStep

\* The cancel of a start in its window: while it is being spawned, its cards are
\* free on disk, in nobody's memory, and out of reach until the kill.
LEMMA CancelStartingLocks ==
  ASSUME LockInv, OutcomeInv', NEW j \in Job, NEW ok, CancelStarting(j, ok)
  PROVE  LockPart'
<1>1. /\ (loop = None /\ pc[j] = "parked") \/ (loop = j /\ pc[j] = "spawned")
      /\ abort' = abort \cup {j} /\ UNCHANGED <<mgr, retiring, dyingCard, starts, os, history>>
      /\ locksHeld' = IF req[j].res \cap Lock # {} THEN locksHeld \cup {j} ELSE locksHeld
      /\ lock' = [r \in Resource |-> IF r \in Gpu /\ lock[r] = j THEN None ELSE lock[r]]
      /\ j \notin abort
  BY LockFacts DEF CancelStarting, Window
<1>2. /\ \A r \in req[j].res : r \in Resource /\ lock[r] = j
      /\ ~Dying(j) /\ j \notin retiring /\ j \notin locksHeld /\ mgr # "none" /\ ~meta[j].pid
  BY <1>1, StartHolds, LockFacts DEF PidInTime
<1>3. ASSUME NEW i \in Job, i # j PROVE JobLock(i)'
  <2>1. Apiece(i) /\ loop # i
    BY <1>1, <1>3, JobAssumption DEF Apiece, starts, os, history, Working
  <2>2. meta'[i] = meta[i]
    BY <1>3, LockFacts DEF CancelStarting, TypeOK
  <2>3. \A r \in Resource : lock'[r] = i <=> lock[r] = i
    BY <1>1, <1>3, LockFacts
  <2> QED BY <1>1, <2>1, <2>2, <2>3, OthersHold
<1>4. JobLock(j)'
  <2>1. ~meta'[j].pid
    <3>1. meta'[j] \in {meta[j], [meta[j] EXCEPT !.status = "unknown", !.reason = "cancelled"]}
      BY LockFacts DEF CancelStarting, TypeOK
    <3> QED BY <1>2, <3>1, LockFacts DEF Meta
  <2>2. pc' = pc /\ ~Dying(j)' /\ j \in abort' /\ j \notin retiring' /\ req' = req /\ proc' = proc
    BY <1>1, <1>2 DEF Dying, os, starts
  <2>3. CASE pc[j] = "parked"
    <3>1. ~Claims(j)'
      BY <2>2, <2>3, LockFacts DEF Claims, Working, JobInv, NoProcess
    <3> QED BY <1>1, <1>2, <2>1, <2>2, <2>3, <3>1, NoCommand
  <2>4. CASE pc[j] = "spawned"
    <3>1. ASSUME NEW g \in Gpu, g \in req[j].res PROVE HoldsCard(j, g)'
      <4>1. lock[g] = j /\ g \in Resource /\ CardSafe(g)
        BY <1>2, <3>1, LockFacts
      <4>2. dyingCard[g] = None
        BY <1>2, <4>1, LockFacts DEF CardSafe
      <4>3. lock'[g] = None /\ dyingCard'[g] = None
        BY <1>1, <3>1, <4>1, <4>2
      <4>4. Gap(j)'
        BY <2>2, <2>4 DEF Gap
      <4> QED BY <2>2, <4>3, <4>4 DEF HoldsCard
    <3>2. ASSUME NEW r \in req[j].res, r \notin Gpu PROVE HoldsName(j, r)'
      BY <1>1, <1>2, <3>2 DEF HoldsName, Resource
    <3>3. Held(j)'
      BY <2>2, <3>1, <3>2 DEF Held
    <3> QED BY <1>1, <1>2, <2>1, <2>2, <2>4, <3>3
            DEF JobLock, MemoryOf, PidInTime, Known, Erased
  <2> QED BY <1>1, <2>3, <2>4
<1>5. ASSUME NEW g \in Gpu PROVE CardSafe(g)'
  BY <1>1, CardsKept DEF Dying, os, Resource
<1> QED BY <1>3, <1>4, <1>5 DEF LockPart

LEMMA CancelLocks == ASSUME LockInv, OutcomeInv', NEW j \in Job, Cancel(j) PROVE LockPart'
<1>1. ASSUME NEW gone, NEW ok, CancelRunning(j, gone, ok) PROVE LockPart'
  <2>1. UNCHANGED <<lock, mgr, windows, reservations, starts, os, history>>
    BY <1>1 DEF CancelRunning
  <2>2. ASSUME NEW i \in Job PROVE JobLock(i)'
    <3>1. Apiece(i)
      BY <2>1 DEF Apiece, windows, reservations, starts, os, history, Working
    <3>2. meta'[i].pid = meta[i].pid /\ meta'[i].status = meta[i].status
      <4>1. meta'[i] \in {meta[i], [meta[i] EXCEPT !.cancelReq = TRUE]}
        BY <1>1, LockFacts DEF CancelRunning, TypeOK
      <4> QED BY <4>1, LockFacts DEF Meta
    <3>3. RecordCalm(i) /\ LocksCalm(i)
      BY <2>1, <3>2, LockFacts DEF RecordCalm, LocksCalm, Live, Running, reservations
    <3> QED BY <3>1, <3>3, CalmKeeps DEF Calm
  <2>3. ASSUME NEW g \in Gpu PROVE CardSafe(g)'
    BY <2>1, CardsKept DEF Dying, os, reservations
  <2> QED BY <2>2, <2>3 DEF LockPart
<1> QED BY <1>1, CancelStartingLocks DEF Cancel

-----------------------------------------------------------------------------
(* Scans, the operating system, the connection, crashes and recovery.          *)

\* Without a manager no start waits, nothing dies, no window is open.
LEMMA NoManager ==
  ASSUME LockInv, mgr = "none", NEW i \in Job
  PROVE  /\ ~InFlight(i) /\ pc[i] \notin Writing /\ ~Dying(i) /\ ~Gap(i) /\ ~InWindow(i)
         /\ Claims(i) => Running(i) /\ meta[i].pid /\ Working(i)
<1>1. ~InFlight(i) /\ ~Dying(i) /\ watch[i] = "none" /\ Known(i) /\ Window(i)
  BY LockFacts DEF JobInv, NoManagerNoStart, MemoryOf, Dying
<1>2. ~InWindow(i)
  BY <1>1, LockFacts DEF InFlight, InWindow, Window, MemoryOf
<1> QED BY <1>1, <1>2 DEF InFlight, Writing, Gap, Claims, Known, Live, InWindow

LEMMA WebhookScanLocks == ASSUME LockInv, OutcomeInv', NEW j \in Job, WebhookScan(j) PROVE LockPart'
<1>1. ASSUME NEW gone \in SUBSET MaybeGone, NEW ok, StorePoll(j, gone, ok) PROVE LockPart'
  <2>1. /\ mgr = "none" /\ Running(j) /\ (j \in marker \/ ~meta[j].pid \/ j \in gone)
        /\ meta' = MetaAfter({j}, marker, signalled, ok)
        /\ UNCHANGED <<lock, mgr, windows, reservations, starts, os, history>>
    BY <1>1 DEF StorePoll
  <2>2. \A e \in {j} : Finished(e)
    BY <2>1, NoManager, MarkerEnded DEF Finished, MaybeGone, Alive, Working
  <2>3. ASSUME NEW i \in Job PROVE JobLock(i)'
    <3>1. Apiece(i)
      BY <2>1 DEF Apiece, windows, reservations, starts, os, history, Working
    <3>2. RecordCalm(i)
      BY <2>1, <2>2, NoManager, SettleRecord
    <3>3. LocksCalm(i)
      BY <2>1 DEF LocksCalm, reservations
    <3> QED BY <3>1, <3>2, <3>3, CalmKeeps DEF Calm
  <2>4. ASSUME NEW g \in Gpu PROVE CardSafe(g)'
    BY <2>1, CardsKept DEF Dying, os, reservations
  <2> QED BY <2>3, <2>4 DEF LockPart
<1> QED BY <1>1, RefreshLocks DEF WebhookScan, WebhookPoll

LEMMA NeitherLocks ==
  ASSUME LockInv, ConnLost \/ RecoverSkipped \/ UNCHANGED vars \/ \E j \in Job : System(j)
  PROVE  LockPart'
<1>1. UNCHANGED <<meta, lock, dyingCard>>
  BY DEF ConnLost, RecoverSkipped, vars, System, CommandEnds, ProcExits, ProcKilled, disk, reservations
<1>2. ASSUME NEW i \in Job PROVE Apiece(i)
  <2>1. CASE ConnLost \/ RecoverSkipped \/ UNCHANGED vars
    BY <2>1 DEF ConnLost, RecoverSkipped, vars, Apiece, windows, reservations, starts, os, history, Working
  <2>2. CASE \E j \in Job : System(j)
    BY <2>2, LockFacts DEF System, CommandEnds, ProcExits, ProcKilled, Apiece, windows, reservations,
       starts, history, Working, Alive, TypeOK
  <2> QED BY <2>1, <2>2
<1> QED BY <1>1, <1>2, AsideLocks

\* After a crash only commands with a pid on disk still claim what they hold.
LEMMA CrashLocks ==
  ASSUME LockInv, LoseMemory, UNCHANGED meta,
         \A i \in Job : \A r \in req[i].res :
           lock[r] = i /\ Working(i) /\ Running(i) /\ meta[i].pid => lock'[r] = i
  PROVE  LockPart'
<1>1. ASSUME NEW i \in Job PROVE JobLock(i)'
  <2>1. /\ pc'[i] = (IF InFlight(i) THEN "crashed" ELSE pc[i]) /\ watch'[i] = "none" /\ ~Dying(i)'
        /\ i \notin abort' /\ i \notin retiring' /\ i \notin locksHeld' /\ UNCHANGED <<proc, req>>
        /\ orphan' = orphan \cup {j \in Job : Alive(j) /\ ~(Running(j) /\ meta[j].pid)}
    BY DEF LoseMemory, Dying
  <2>2. pc'[i] \notin {"claimed", "dirs", "abandon", "parked", "spawned", "pid", "erasing"}
    BY <2>1 DEF InFlight
  <2>3. MemoryOf(i)' /\ Erased(i)'
    BY <2>1, <2>2 DEF MemoryOf, Erased
  <2>4. PidInTime(i)'
    BY <2>1, <2>2, LockFacts DEF PidInTime
  <2>5. Working(i)' /\ i \notin orphan' => Working(i) /\ Running(i) /\ meta[i].pid /\ i \notin orphan
    BY <2>1 DEF Working, Alive
  <2>6. Known(i)'
    BY <2>5 DEF Known, Live, Running
  <2>7. Held(i)'
    <3> SUFFICES ASSUME Claims(i)', NEW r \in req[i].res PROVE lock'[r] = i
      BY <2>1, <2>2 DEF Held, HoldsName, HoldsCard, Gap
    <3>1. Working(i) /\ Running(i) /\ meta[i].pid /\ i \notin orphan
      BY <2>1, <2>2, <2>5 DEF Claims
    <3>2. Claims(i) /\ ~Dying(i) /\ ~Gap(i)
      BY <3>1, LockFacts DEF Claims, PidInTime, Gap
    <3>3. lock[r] = i
      BY <3>2, LockFacts DEF Held, HoldsName, HoldsCard
    <3> QED BY <3>1, <3>3
  <2> QED BY <2>3, <2>4, <2>6, <2>7 DEF JobLock
<1>2. ASSUME NEW g \in Gpu PROVE CardSafe(g)'
  BY DEF LoseMemory, CardSafe
<1> QED BY <1>1, <1>2 DEF LockPart

LEMMA CrashesLocks == ASSUME LockInv, Crashes PROVE LockPart'
<1>1. CASE Crash
  BY <1>1, CrashLocks DEF Crash, disk
<1>2. ASSUME NEW j \in Job, CrashInClaim(j) PROVE LockPart'
  BY <1>2, CrashLocks DEF CrashInClaim
<1>3. ASSUME NEW j \in Job, NEW r \in Resource, CrashInLock(j, r) PROVE LockPart'
  <2>1. \A i \in Job : \A q \in req[i].res : lock[q] = i => lock'[q] = i
    BY <1>3, LockFacts DEF CrashInLock, TypeOK
  <2> QED BY <1>3, <2>1, CrashLocks DEF CrashInLock
<1>4. ASSUME NEW j \in Job, NEW gone \in SUBSET MaybeGone, CrashInSettle(j, gone) PROVE LockPart'
  <2>1. LoseMemory /\ UNCHANGED meta /\ lock' = LockAfter({j}) /\ j \in Ended({j}, gone, marker)
    BY <1>4 DEF CrashInSettle
  <2>2. Finished(j)
    BY <2>1, EndedFinished, MarkerEnded
  <2>3. ASSUME NEW i \in Job, NEW q \in req[i].res, lock[q] = i, Working(i), meta[i].pid PROVE lock'[q] = i
    BY <2>1, <2>2, <2>3, LockFacts DEF LockAfter, Finished
  <2> QED BY <2>1, <2>3, CrashLocks
<1>5. ASSUME NEW j \in Job, NEW gone \in SUBSET MaybeGone, CrashInDiscard(j, gone) PROVE LockPart'
  <2>1. LoseMemory /\ UNCHANGED meta /\ lock' = ReleaseLocks({j})
    BY <1>5 DEF CrashInDiscard
  <2>2. ~Working(j) \/ ~meta[j].pid
    <3>1. CASE j \in Ended({j}, gone, marker)
      BY <3>1, EndedFinished, MarkerEnded DEF Finished
    <3>2. CASE Dead(j)
      BY <3>2 DEF Dead, Working
    <3> QED BY <1>5, <3>1, <3>2 DEF CrashInDiscard, Discarded
  <2>3. ASSUME NEW i \in Job, NEW q \in req[i].res, lock[q] = i, Working(i), meta[i].pid PROVE lock'[q] = i
    BY <2>1, <2>2, <2>3, LockFacts DEF ReleaseLocks
  <2> QED BY <2>1, <2>3, CrashLocks
<1> QED BY <1>1, <1>2, <1>3, <1>4, <1>5 DEF Crashes

LEMMA RecoveryLocks == ASSUME LockInv, OutcomeInv', Recovery PROVE LockPart'
<1>1. ASSUME NEW old, NEW gone \in SUBSET MaybeGone, NEW ok, Recover(old, gone, ok) PROVE LockPart'
  <2> DEFINE E == Ended(Job, gone, marker)
  <2>1. \A e \in E : Finished(e)
    BY EndedFinished, MarkerEnded
  <2>2. /\ mgr = "none" /\ mgr' = "up" /\ old \subseteq Expirable \cup E
        /\ UNCHANGED <<windows, reservations, starts, os, history>>
        /\ lock' = [r \in Resource |-> IF lock[r] \in Job /\ Running(lock[r]) /\ lock[r] \notin E \cup old
                                       THEN lock[r] ELSE None]
        /\ meta' = [j \in Job |-> IF j \in old THEN NoMeta ELSE MetaAfter(E, marker, signalled, ok)[j]]
    BY <1>1 DEF Recover
  <2> HIDE DEF E
  <2>3. ASSUME NEW i \in Job PROVE JobLock(i)'
    <3>1. Apiece(i)
      BY <2>2 DEF Apiece, windows, reservations, starts, os, history, Working
    <3>2. ~(i \in E \cup old /\ Live(i) /\ Working(i))
      BY <2>1, <2>2, NoManager, FinishedClaims DEF Expirable, Live, Running, Terminal
    <3>3. RecordCalm(i)
      <4>1. CASE i \in old
        <5>1. meta'[i] = NoMeta /\ pc[i] # "pid"
          BY <2>2, <4>1, NoManager DEF Writing
        <5>2. ~meta'[i].pid
          BY <5>1 DEF NoMeta
        <5> QED BY <3>2, <4>1, <5>1, <5>2 DEF RecordCalm
      <4>2. CASE i \notin old
        BY <2>1, <2>2, <4>2, NoManager, SettleRecord
      <4> QED BY <4>1, <4>2
    <3>4. LocksCalm(i)
      <4>1. ASSUME NEW r \in Resource, lock[r] = i, Claims(i) PROVE lock'[r] = i
        BY <2>2, <3>2, <4>1, NoManager DEF Live
      <4>2. ASSUME NEW r \in Resource, lock'[r] = i PROVE lock[r] = i
        BY <2>2, <4>2, LockFacts
      <4> QED BY <2>2, <4>1, <4>2, NoManager DEF LocksCalm, reservations
    <3> QED BY <3>1, <3>3, <3>4, CalmKeeps DEF Calm
  <2>4. ASSUME NEW g \in Gpu PROVE CardSafe(g)'
    BY <2>2, CardsKept DEF Dying, os, reservations, Resource
  <2> QED BY <2>3, <2>4 DEF LockPart
<1> QED BY <1>1, NeitherLocks DEF Recovery

-----------------------------------------------------------------------------
LEMMA LockInvHolds == Spec => []LockInv
<1>1. Init => LockPart
  <2> SUFFICES ASSUME Init PROVE LockPart OBVIOUS
  <2>1. ASSUME NEW j \in Job PROVE JobLock(j)
    BY DEF Init, NoMeta, JobLock, MemoryOf, PidInTime, Known, Erased, Held, Claims, Dying, Working
  <2>2. ASSUME NEW g \in Gpu PROVE CardSafe(g)
    BY DEF Init, CardSafe
  <2> QED BY <2>1, <2>2 DEF LockPart
<1>2. LockInv /\ OutcomeInv' /\ [Next]_vars => LockPart'
  <2> SUFFICES ASSUME LockInv, OutcomeInv', [Next]_vars PROVE LockPart'
    OBVIOUS
  <2>1. CASE Next
    BY <2>1, RequestedLocks, CrashesLocks, RecoveryLocks, NeitherLocks, StartStepLocks, ExitStepLocks,
       CancelLocks, WebhookScanLocks DEF Next
  <2>2. CASE UNCHANGED vars
    BY <2>2, NeitherLocks
  <2> QED BY <2>1, <2>2
<1> QED BY <1>1, <1>2, OutcomeInvHolds, PTL DEF Spec, LockInv

\* Two jobs that run at the same time share no named lock and no card (acquireLockFile,
\* gpuHolderState, holdCardUntilExit, releaseLocks, recover).
THEOREM LocksExclude == Spec => []LockExclusion
<1>1. ASSUME LockInv PROVE LockExclusion
  <2> SUFFICES ASSUME NEW i \in Job \ orphan, NEW j \in Job \ orphan, i # j, Working(i), Working(j),
                      NEW r \in req[i].res, r \in req[j].res
               PROVE  FALSE
    BY DEF LockExclusion
  <2>1. Claims(i) /\ Claims(j)
    BY DEF Claims
  <2>2. CASE r \notin Gpu
    BY <1>1, <2>1, <2>2, LockFacts DEF Held, HoldsName
  <2>3. CASE r \in Gpu
    <3>1. HoldsCard(i, r) /\ HoldsCard(j, r) /\ CardSafe(r)
      BY <1>1, <2>1, <2>3, LockFacts DEF Held
    <3>2. ~(Gap(i) /\ Gap(j))
      BY <1>1, LockFacts DEF Gap, JobInv, LoopOwned, Writing
    <3> QED BY <1>1, <3>1, <3>2, LockFacts DEF HoldsCard, CardSafe
  <2> QED BY <2>2, <2>3
<1> QED BY <1>1, LockInvHolds, PTL

\* A record that says a job is over belongs to no running command, but one being killed
\* for a cancel that came while it was being spawned, or an orphan (settle, refresh).
THEOREM OverIsOver == Spec => []ReportedOverIsOver
<1>1. ASSUME LockInv PROVE ReportedOverIsOver
  <2> SUFFICES ASSUME NEW j \in Job \ orphan, Terminal(j), Working(j), watch[j] # "dying"
               PROVE  loop = j
    BY DEF ReportedOverIsOver
  <2>1. pc[j] \in {"spawned", "pid"}
    BY <1>1, LockFacts DEF Known, Live, Dying, Terminal, Running
  <2> QED BY <1>1, <2>1, LockFacts DEF JobInv, LoopOwned, Writing
<1> QED BY <1>1, LockInvHolds, PTL

\* Whatever is refused to a start is in the way of somebody who is still there: no lock
\* file and no hold in memory outlives its start, its process and its exit callback.
THEOREM NothingLeaks == Spec => []NoLeakedResource
<1>1. ASSUME LockInv PROVE NoLeakedResource
  <2>1. ASSUME NEW j \in locksHeld PROVE Letting(j)
    <3>1. j \in Job
      BY <1>1 DEF LockInv, OutcomeInv, KeyInv, TypeOK
    <3> QED BY <1>1, <3>1, LockFacts DEF MemoryOf, Dying, Window, Letting
  <2>2. ASSUME NEW g \in Gpu, dyingCard[g] # None PROVE Letting(dyingCard[g])
    <3>1. dyingCard[g] \in Job /\ Dying(dyingCard[g])
      BY <1>1, <2>2 DEF LockInv, LockPart, OutcomeInv, KeyInv, TypeOK, CardSafe
    <3> QED BY <3>1 DEF Dying, Letting
  <2>3. ASSUME NEW r \in Resource, ~HolderGone(lock[r], MaybeGone) PROVE Letting(lock[r])
    <3> DEFINE h == lock[r]
    <3>1. h \in Job
      BY <1>1, <2>3 DEF LockInv, OutcomeInv, KeyInv, TypeOK, HolderGone
    <3>2. CASE h \in locksHeld
      BY <2>1, <3>2
    <3>3. CASE h \notin locksHeld
      <4>1. Running(h) /\ h \notin Ended({h}, MaybeGone, marker)
        BY <2>3, <3>1, <3>3 DEF HolderGone, HolderEnded
      <4>2. InWindow(h) \/ Alive(h)
        BY <3>1, <4>1 DEF Ended, MaybeGone
      <4>3. h \in starting => pc[h] \in {"parked", "spawned", "pid"}
        BY <1>1, <3>1, LockFacts DEF Window, Erased
      <4>4. h \in retiring => watch[h] = "retire"
        BY <1>1, <3>1, LockFacts DEF MemoryOf
      <4> QED BY <3>1, <4>2, <4>3, <4>4 DEF InWindow, Letting
    <3> QED BY <3>2, <3>3
  <2> QED BY <2>1, <2>2, <2>3 DEF NoLeakedResource
<1> QED BY <1>1, LockInvHolds, PTL

-----------------------------------------------------------------------------
(* The limit.  A job that was settled is in nobody's way again, so the count   *)
(* that admission makes of the others covers every place that is taken.        *)

InPlay(j) ==
  j \notin orphan /\ j \notin abort /\ (pc[j] = "parked" \/ (Working(j) /\ ~Dying(j)))
Active == {j \in Job : InPlay(j)}
Started == {j \in Job : pc[j] # "idle"}
Early(j) == pc[j] \in {"idle", "claimed", "dirs", "abandon"}
Admitted == {j \in Job : pc[j] \in {"claimed", "dirs"}}

\* From its admission to its record a start has a place that nobody takes.
PlacePart ==
  /\ \A j \in Job : j \in settled => ~Early(j) /\ ~InPlay(j)
  /\ IsFiniteSet(Started)
  /\ Cardinality(Active) <= MaxConcurrent
  /\ Admitted # {} => Cardinality(Active) < MaxConcurrent

PlaceInv == LockInv /\ PlacePart

\* What all steps but an admission and the write of a record do to every job.
Tame(i) ==
  /\ InPlay(i)' => InPlay(i)
  /\ pc'[i] # "idle" => pc[i] # "idle"
  /\ pc'[i] \in {"claimed", "dirs"} => pc[i] \in {"claimed", "dirs"}
  /\ Early(i)' => Early(i)
  /\ i \in settled' => i \in settled \/ (~Early(i) /\ ~InPlay(i)')

\* A set inside a finite one is finite and no larger.
LEMMA Smaller ==
  ASSUME NEW S, NEW T \in SUBSET S, IsFiniteSet(S)
  PROVE  IsFiniteSet(T) /\ Cardinality(T) \in Nat /\ Cardinality(S) \in Nat /\ Cardinality(T) <= Cardinality(S)
BY FS_Subset, FS_CardinalityType

LEMMA ActiveStarted == ASSUME LockInv PROVE Active \subseteq Started
<1> SUFFICES ASSUME NEW i \in Job, InPlay(i), pc[i] = "idle" PROVE FALSE
  BY DEF Active, Started
<1> QED BY LockFacts DEF InPlay, Working, JobInv, NoProcess

LEMMA ActiveFinite ==
  ASSUME PlaceInv
  PROVE  IsFiniteSet(Active) /\ Cardinality(Active) \in Nat
BY ActiveStarted, Smaller DEF PlaceInv, PlacePart

LEMMA TameKeeps == ASSUME PlaceInv, \A i \in Job : Tame(i) PROVE PlacePart'
<1>1. Active' \subseteq Active /\ Started' \subseteq Started /\ Admitted' \subseteq Admitted
  BY DEF Tame, Active, Started, Admitted
<1>2. IsFiniteSet(Started')
  BY <1>1, Smaller DEF PlaceInv, PlacePart
<1>3. Cardinality(Active') \in Nat /\ Cardinality(Active) \in Nat /\ Cardinality(Active') <= Cardinality(Active)
  BY <1>1, ActiveFinite, Smaller
<1>4. \A j \in Job : j \in settled' => ~Early(j)' /\ ~InPlay(j)'
  BY DEF PlaceInv, PlacePart, Tame
<1> QED BY <1>1, <1>2, <1>3, <1>4, BoundAssumption DEF PlaceInv, PlacePart

\* A job whose start and process are left alone, and that is not settled.
LEMMA ApieceTame ==
  ASSUME LockInv, NEW i \in Job, Apiece(i), i \in settled' => i \in settled \/ (~Early(i) /\ ~InPlay(i))
  PROVE  Tame(i)
BY DEF Tame, Apiece, InPlay, Dying, Early

LEMMA FinishedOut ==
  ASSUME LockInv, NEW i \in Job, pc[i] \notin Writing, Finished(i) \/ Terminal(i)
  PROVE  ~Early(i) /\ ~InPlay(i)
<1>1. ~Early(i)
  BY LockFacts DEF Finished, Running, Terminal, JobInv, RecordedInTime, Recorded, Early
<1>2. ~(pc[i] = "parked" /\ i \notin abort)
  BY LockFacts DEF Window, Finished, InWindow, Terminal, Running
<1>3. Working(i) /\ i \notin orphan => Dying(i)
  BY LockFacts, FinishedClaims DEF Known, Live, Writing, Terminal, Running
<1> QED BY <1>1, <1>2, <1>3 DEF InPlay

\* What readers add to settledJobs.
LEMMA LearnTame ==
  ASSUME LockInv, NEW i \in Job, loop # i, Apiece(i), NEW E, \A e \in E : Finished(e),
         i \in settled' => i \in settled \/ i \in E \/ Terminal(i)
  PROVE  Tame(i)
BY ApieceTame, FinishedOut, Waiting

LEMMA SweepTame ==
  ASSUME LockInv, Free, NEW S \in SUBSET Job, NEW old, NEW gone \in SUBSET MaybeGone, NEW ok,
         Sweep(S, old, gone, ok), NEW i \in Job, Apiece(i)
  PROVE  Tame(i)
<1> DEFINE E == Ended(S \ old, gone, marker)
<1>1. \A e \in E : Finished(e)
  <2>1. S \ old \in SUBSET Job
    OBVIOUS
  <2> QED BY <2>1, EndedFinished, MarkerEnded
<1>2. i \in settled' => i \in settled \/ i \in E \/ Terminal(i)
  BY DEF Sweep
<1> HIDE DEF E
<1> QED BY <1>1, <1>2, FreeLoop, LearnTame

LEMMA RefreshTame ==
  ASSUME LockInv, NEW j \in Job, NEW gone \in SUBSET MaybeGone, NEW ok, RefreshOne(j, gone, ok), NEW i \in Job
  PROVE  Tame(i)
<1> DEFINE E == Ended({j}, gone, marker)
<1>1. \A e \in E : Finished(e)
  BY EndedFinished, MarkerEnded
<1>2. i \in settled' => i \in settled \/ i \in E \/ Terminal(i)
  BY DEF RefreshOne, Learn
<1>3. Apiece(i) /\ Free
  BY DEF RefreshOne, Apiece, windows, reservations, starts, os, history, Working
<1> HIDE DEF E
<1> QED BY <1>1, <1>2, <1>3, FreeLoop, LearnTame

\* countRunningJobs sees every place that is taken: its job is recorded as running,
\* was never settled, and no refresh of this count would end it.
LEMMA CountCovers ==
  ASSUME PlaceInv, Free, NEW old \in SUBSET Expirable, NEW gone \in SUBSET MaybeGone
  PROVE  Cardinality(Active) <= RunningCount(old, gone)
<1> DEFINE seen == Job \ (settled \cup old)
           X == {j \in seen : Running(j)} \ Ended(seen, gone, marker)
<1>1. LockInv
  BY DEF PlaceInv
<1>2. \A e \in Ended(seen, gone, marker) : Finished(e)
  BY <1>1, EndedFinished, MarkerEnded
<1>3. Active \subseteq X
  <2> SUFFICES ASSUME NEW i \in Job, InPlay(i) PROVE i \in X
    BY DEF Active
  <2>1. pc[i] \notin Writing
    BY <1>1, FreeLoop, Waiting
  <2>2. i \notin settled /\ ~Finished(i) /\ ~Terminal(i)
    BY <1>1, <2>1, FinishedOut DEF PlaceInv, PlacePart
  <2>3. Running(i)
    BY <1>1, <2>1, LockFacts DEF InPlay, Window, Known, Live, Writing
  <2>4. i \notin old
    BY <2>2, <2>3 DEF Expirable, Running, Terminal
  <2> QED BY <1>2, <2>2, <2>3, <2>4
<1>4. X \subseteq Started
  BY <1>1, LockFacts DEF Started, Running, JobInv, RecordedInTime, Recorded
<1>5. IsFiniteSet(X)
  BY <1>4, Smaller DEF PlaceInv, PlacePart
<1>6. RunningCount(old, gone) = Cardinality(X)
  BY DEF RunningCount
<1> QED BY <1>3, <1>5, <1>6, Smaller

LEMMA AdmittedPlace ==
  ASSUME PlaceInv, NEW j \in Job, NEW r \in Requests, NEW old \in SUBSET Expirable,
         NEW gone \in SUBSET MaybeGone, NEW ok, StartAdmitted(j, r, old, gone, ok)
  PROVE  PlacePart'
<1>1. /\ LockInv /\ Free /\ Sweep(Job \ settled, old, gone, ok) /\ pc[j] = "idle"
      /\ pc' = [pc EXCEPT ![j] = "claimed"] /\ RunningCount(old, gone) < MaxConcurrent
      /\ UNCHANGED <<mgr, windows, reservations, os, history>>
      /\ \A i \in Job : i # j => req'[i] = req[i]
  BY LockFacts DEF StartAdmitted, PlaceInv, TypeOK
<1>2. ASSUME NEW i \in Job, i # j PROVE Tame(i)
  <2>1. Apiece(i)
    BY <1>1, <1>2, LockFacts DEF Apiece, windows, reservations, os, history, Working, TypeOK
  <2> QED BY <1>1, <2>1, SweepTame
<1>3. /\ pc'[j] = "claimed" /\ ~InPlay(j)' /\ j \notin settled'
  <2>1. pc'[j] = "claimed" /\ proc'[j] = "none"
    BY <1>1, LockFacts DEF TypeOK, JobInv, NoProcess, os
  <2>2. j \notin settled /\ ~Recorded(j)
    BY <1>1, LockFacts DEF PlaceInv, PlacePart, Early, JobInv, RecordedInTime
  <2>3. j \notin settled'
    BY <1>1, <2>2 DEF Sweep, Ended, Recorded, Running, Terminal
  <2> QED BY <2>1, <2>3 DEF InPlay, Working
<1>4. Active' \subseteq Active /\ Started' \subseteq Started \cup {j}
  BY <1>2, <1>3 DEF Active, Started, Tame
<1>5. IsFiniteSet(Started')
  <2>1. IsFiniteSet(Started \cup {j})
    BY FS_AddElement DEF PlaceInv, PlacePart
  <2> QED BY <1>4, <2>1, Smaller
<1>6. Cardinality(Active') \in Nat /\ Cardinality(Active) \in Nat /\ Cardinality(Active') <= Cardinality(Active)
  BY <1>4, ActiveFinite, Smaller
<1>7. Cardinality(Active) <= RunningCount(old, gone)
  BY <1>1, CountCovers
<1>8. Cardinality(Active') < MaxConcurrent
  <2>1. RunningCount(old, gone) \in Nat
    <3>1. Job \ (settled \cup old) \subseteq Job /\ {i \in Job : Running(i)} \subseteq Started
      BY <1>1, LockFacts DEF Started, Running, JobInv, RecordedInTime, Recorded
    <3> DEFINE X == {i \in Job \ (settled \cup old) : Running(i)} \ Ended(Job \ (settled \cup old), gone, marker)
    <3>2. X \subseteq Started
      BY <3>1
    <3>3. Cardinality(X) \in Nat
      BY <3>2, Smaller DEF PlaceInv, PlacePart
    <3> QED BY <3>3 DEF RunningCount
  <2> QED BY <1>1, <1>6, <1>7, <2>1, BoundAssumption
<1>9. \A i \in Job : i \in settled' => ~Early(i)' /\ ~InPlay(i)'
  BY <1>2, <1>3 DEF PlaceInv, PlacePart, Tame
<1> QED BY <1>5, <1>6, <1>8, <1>9, BoundAssumption DEF PlacePart

\* The place that was counted at the admission is the one the record takes.
LEMMA RecordPlace == ASSUME PlaceInv, NEW j \in Job, WriteRecord(j) PROVE PlacePart'
<1>1. /\ LockInv /\ loop = j /\ pc[j] = "dirs" /\ pc' = [pc EXCEPT ![j] = "parked"]
      /\ UNCHANGED <<settled, abort, orphan, proc, watch>>
  BY DEF WriteRecord, PlaceInv, knowledge, os, history
<1>2. ASSUME NEW i \in Job, i # j PROVE pc'[i] = pc[i] /\ pc[i] \notin Writing /\ (InPlay(i)' <=> InPlay(i))
  BY <1>1, <1>2, Waiting, LockFacts DEF TypeOK, InPlay, Working, Dying
<1>3. pc'[j] = "parked" /\ j \notin settled
  BY <1>1, LockFacts DEF TypeOK, PlaceInv, PlacePart, Early
<1>4. Admitted' = {}
  BY <1>2, <1>3 DEF Admitted, Writing
<1>5. Started' \subseteq Started /\ Active' \subseteq Active \cup {j} /\ j \in Admitted
  BY <1>1, <1>2 DEF Started, Active, Admitted
<1>6. IsFiniteSet(Active \cup {j}) /\ Cardinality(Active \cup {j}) <= Cardinality(Active) + 1
  BY ActiveFinite, FS_AddElement
<1>7. Cardinality(Active) + 1 <= MaxConcurrent
  BY <1>5, ActiveFinite, BoundAssumption DEF PlaceInv, PlacePart
<1>8. Cardinality(Active') <= MaxConcurrent
  <2>1. Cardinality(Active') \in Nat /\ Cardinality(Active \cup {j}) \in Nat
        /\ Cardinality(Active') <= Cardinality(Active \cup {j})
    BY <1>5, <1>6, Smaller
  <2> QED BY <1>6, <1>7, <2>1, ActiveFinite, BoundAssumption
<1>9. IsFiniteSet(Started')
  BY <1>5, Smaller DEF PlaceInv, PlacePart
<1>10. \A i \in Job : i \in settled' => ~Early(i)' /\ ~InPlay(i)'
  BY <1>1, <1>2, <1>3 DEF PlaceInv, PlacePart, Early
<1> QED BY <1>4, <1>8, <1>9, <1>10 DEF PlacePart

LEMMA RequestedPlace == ASSUME PlaceInv, Requested PROVE PlacePart'
<1>0. LockInv
  BY DEF PlaceInv
<1>1. ASSUME NEW k \in OpKey, StatusByKey(k) PROVE PlacePart'
  <2>1. ASSUME NEW i \in Job PROVE Tame(i)
    BY <1>0, <1>1, ApieceTame
       DEF StatusByKey, Apiece, windows, reservations, knowledge, starts, os, history, Working
  <2> QED BY <2>1, TameKeeps
<1>2. ASSUME NEW j \in Job, NEW gone \in SUBSET MaybeGone, NEW ok, RefreshOne(j, gone, ok) PROVE PlacePart'
  BY <1>0, <1>2, RefreshTame, TameKeeps
<1>3. ASSUME Free, NEW S \in SUBSET Job, NEW old, NEW gone \in SUBSET MaybeGone, NEW ok,
             Sweep(S, old, gone, ok), UNCHANGED <<mgr, windows, reservations, starts, os, history>>
      PROVE  PlacePart'
  <2>1. ASSUME NEW i \in Job PROVE Apiece(i)
    BY <1>3 DEF Apiece, windows, reservations, starts, os, history, Working
  <2> QED BY <1>0, <1>3, <2>1, SweepTame, TameKeeps
<1>4. ASSUME NEW S \in SUBSET Job, NEW old, NEW gone \in SUBSET MaybeGone, NEW ok, List(S, old, gone, ok)
      PROVE  PlacePart'
  BY <1>3, <1>4 DEF List
<1>5. ASSUME NEW r \in Requests, NEW old, NEW gone \in SUBSET MaybeGone, NEW ok, NEW torn,
             StartRefused(r, old, gone, ok, torn)
      PROVE  PlacePart'
  BY <1>3, <1>5 DEF StartRefused
<1>6. ASSUME NEW S \in SUBSET {j \in Job : Recorded(j)} PROVE S \in SUBSET Job
  OBVIOUS
<1> QED BY <1>1, <1>2, <1>4, <1>5, <1>6, AdmittedPlace DEF Requested

\* A step of the start of j takes no place but with its record.
LEMMA StartStepPlace == ASSUME PlaceInv, NEW j \in Job, StartStep(j) PROVE PlacePart'
<1>0. LockInv /\ TypeOK
  BY DEF PlaceInv, LockInv, OutcomeInv, KeyInv
<1>1. CASE WriteRecord(j)
  BY <1>1, RecordPlace
<1>2. ASSUME MakeDirs(j) \/ AbandonStart(j) \/ FinishAbandon(j) \/ StartCancelledUnspawned(j)
             \/ StartGivenUp(j) \/ FinishErasing(j)
      PROVE  PlacePart'
  <2>1. /\ proc[j] = "none" /\ UNCHANGED <<proc, watch, orphan>> /\ settled' \subseteq settled
        /\ pc[j] # "idle" /\ \A i \in Job : i # j => pc'[i] = pc[i] /\ (i \in abort' <=> i \in abort)
        /\ pc'[j] \in {"dirs", "abandon", "answered", "erasing", "retired"}
        /\ pc'[j] \in {"dirs", "abandon"} => pc[j] \in {"claimed", "dirs"}
    BY <1>0, <1>2, LockFacts
       DEF MakeDirs, AbandonStart, FinishAbandon, StartCancelledUnspawned, StartGivenUp, FinishErasing,
           CloseWindow, Forget, TypeOK, JobInv, NoProcess, os, history, knowledge, windows
  <2>2. ASSUME NEW i \in Job PROVE Tame(i)
    BY <2>1 DEF Tame, InPlay, Working, Dying, Early
  <2> QED BY <2>2, TameKeeps
<1>3. ASSUME NEW ok, Spawn(j) \/ WritePid(j) \/ StartSucceeds(j) \/ RetireLost(j, ok)
             \/ RetireUnrecorded(j, ok) \/ KillCancelledSpawn(j, ok)
      PROVE  PlacePart'
  <2>1. /\ pc[j] \in {"parked", "spawned", "pid"} /\ pc'[j] \in {"spawned", "pid", "answered", "retired"}
        /\ UNCHANGED <<settled, orphan>>
        /\ \A i \in Job : i # j => /\ pc'[i] = pc[i] /\ proc'[i] = proc[i] /\ watch'[i] = watch[i]
                                   /\ (i \in abort' <=> i \in abort)
    BY <1>0, <1>3
       DEF Spawn, WritePid, StartSucceeds, RetireLost, RetireUnrecorded, Retire, KillCancelledSpawn,
           CloseWindow, TypeOK, os, history, knowledge, windows
  <2>2. InPlay(j)' => InPlay(j)
    <3>1. CASE KillCancelledSpawn(j, ok)
      BY <1>0, <2>1, <3>1 DEF KillCancelledSpawn, InPlay, Dying, TypeOK
    <3>2. CASE Spawn(j)
      BY <1>0, <3>2, LockFacts DEF Spawn, InPlay, windows, history
    <3>3. CASE WritePid(j) \/ StartSucceeds(j) \/ RetireLost(j, ok) \/ RetireUnrecorded(j, ok)
      <4>1. j \notin abort /\ ~Dying(j) /\ proc' = proc
        BY <1>0, <2>1, <3>3, LockFacts
           DEF WritePid, StartSucceeds, RetireLost, RetireUnrecorded, Retire, Window, MemoryOf, os
      <4> QED BY <2>1, <4>1 DEF InPlay, Working
    <3> QED BY <1>3, <3>1, <3>2, <3>3
  <2>3. ASSUME NEW i \in Job PROVE Tame(i)
    BY <2>1, <2>2 DEF Tame, InPlay, Working, Dying, Early
  <2> QED BY <2>3, TameKeeps
<1>4. ASSUME NEW r \in Resource, NEW gone \in SUBSET MaybeGone, NEW ok, TakeResource(j, r, gone, ok)
      PROVE  PlacePart'
  <2> DEFINE h == lock[r]
             E == HolderEnded(h, gone)
  <2>1. \A e \in E : Finished(e)
    <3>1. CASE h \in Job
      BY <1>0, <3>1, EndedFinished, MarkerEnded DEF HolderEnded
    <3>2. CASE h \notin Job
      BY <3>2 DEF HolderEnded
    <3> QED BY <3>1, <3>2
  <2>2. ASSUME NEW i \in Job PROVE Tame(i)
    <3>1. Apiece(i) /\ loop = j /\ pc[j] = "dirs"
      BY <1>4 DEF TakeResource, Apiece, windows, reservations, starts, os, history, Working
    <3>2. i \in settled' => i \in settled \/ i \in E \/ Terminal(i)
      BY <1>4 DEF TakeResource, Learn
    <3>3. CASE i # j
      <4> HIDE DEF E
      <4> QED BY <1>0, <2>1, <3>1, <3>2, <3>3, LearnTame
    <3>4. CASE i = j
      <4>1. ~Recorded(j)
        BY <1>0, <3>1, LockFacts DEF JobInv, RecordedInTime
      <4>2. i \in settled' => i \in settled
        <5> HIDE DEF E
        <5> QED BY <2>1, <3>2, <3>4, <4>1 DEF Finished, Recorded, Running, Terminal
      <4> QED BY <1>0, <3>1, <4>2, ApieceTame
    <3> QED BY <3>3, <3>4
  <2> QED BY <2>2, TameKeeps
<1> QED BY <1>1, <1>2, <1>3, <1>4 DEF StartStep

\* Exit callbacks, cancels, scans, crashes and recoveries only give places back.
LEMMA ExitStepPlace == ASSUME PlaceInv, NEW j \in Job, ExitStep(j) PROVE PlacePart'
<1>0. LockInv
  BY DEF PlaceInv
<1>1. ASSUME Free, Dead(j), watch' = [watch EXCEPT ![j] = "none"], UNCHANGED <<starts, proc, history>>,
             \A i \in Job : i # j => Apiece(i),
             UNCHANGED abort, NEW E, \A e \in E : Finished(e),
             \A i \in settled' : i \in settled \/ i \in E \/ Terminal(i)
      PROVE  PlacePart'
  <2>1. Tame(j)
    <3>1. ~Early(j) /\ ~Working(j) /\ pc[j] # "parked"
      BY <1>0, <1>1, LockFacts DEF Dead, Early, Working, JobInv, NoProcess
    <3> QED BY <1>1, <3>1 DEF Tame, InPlay, Working, Early, starts, history
  <2>2. ASSUME NEW i \in Job, i # j PROVE Tame(i)
    BY <1>0, <1>1, <2>2, FreeLoop, LearnTame
  <2> QED BY <2>1, <2>2, TameKeeps
<1>2. ASSUME \A i \in Job : i # j => (i \in retiring' <=> i \in retiring) /\ (i \in locksHeld' <=> i \in locksHeld),
             watch' = [watch EXCEPT ![j] = "none"], UNCHANGED <<mgr, abort, starts, proc, history>>
      PROVE  \A i \in Job : i # j => Apiece(i)
  BY <1>0, <1>2, LockFacts DEF Apiece, starts, history, Working, TypeOK
<1>3. CASE ExitRetired(j)
  <2>1. \A i \in settled' : i \in settled
    BY <1>3 DEF ExitRetired, Forget
  <2>2. /\ Free /\ Dead(j) /\ watch' = [watch EXCEPT ![j] = "none"]
        /\ UNCHANGED <<mgr, abort, locksHeld, starts, proc, history>> /\ retiring' = retiring \ {j}
    BY <1>3 DEF ExitRetired, reservations
  <2>3. \A i \in Job : i # j => Apiece(i)
    BY <1>2, <2>2
  <2> DEFINE E == {}
  <2>4. \A e \in E : Finished(e)
    OBVIOUS
  <2> HIDE DEF E
  <2> QED BY <1>1, <2>1, <2>2, <2>3, <2>4
<1>4. ASSUME NEW gone \in SUBSET MaybeGone, NEW ok, ExitPlain(j, gone, ok) \/ ExitDying(j, gone, ok)
      PROVE  PlacePart'
  <2> DEFINE E == Ended({j}, gone, ExitMarker(j))
  <2>1. Dead(j)
    BY <1>4 DEF ExitPlain, ExitDying
  <2>2. \A e \in E : Finished(e)
    <3>1. \A m \in ExitMarker(j) : ~Working(m)
      BY <1>0, <2>1, MarkerEnded DEF ExitMarker, Dead, Working
    <3> QED BY <1>0, <3>1, EndedFinished
  <2>3. \A i \in settled' : i \in settled \/ i \in E \/ Terminal(i)
    BY <1>4 DEF ExitPlain, ExitDying
  <2> HIDE DEF E
  <2>4. /\ Free /\ watch' = [watch EXCEPT ![j] = "none"] /\ UNCHANGED <<mgr, windows, starts, proc, history>>
        /\ \A i \in Job : i # j => (i \in locksHeld' <=> i \in locksHeld)
    BY <1>4 DEF ExitPlain, ExitDying, reservations
  <2> QED BY <1>1, <1>2, <2>1, <2>2, <2>3, <2>4 DEF windows
<1> QED BY <1>3, <1>4 DEF ExitStep

LEMMA CancelPlace == ASSUME PlaceInv, NEW j \in Job, Cancel(j) PROVE PlacePart'
<1>0. LockInv
  BY DEF PlaceInv
<1>1. ASSUME NEW gone, NEW ok, CancelRunning(j, gone, ok) PROVE PlacePart'
  <2>1. ASSUME NEW i \in Job PROVE Tame(i)
    BY <1>0, <1>1, ApieceTame
       DEF CancelRunning, Apiece, windows, reservations, starts, os, history, Working
  <2> QED BY <2>1, TameKeeps
<1>2. ASSUME NEW ok, CancelStarting(j, ok) PROVE PlacePart'
  <2>1. /\ pc[j] \in {"parked", "spawned"} /\ abort' = abort \cup {j} /\ settled' = settled \cup {j}
        /\ locksHeld' \in {locksHeld, locksHeld \cup {j}}
        /\ UNCHANGED <<mgr, retiring, starts, os, history>>
    BY <1>2 DEF CancelStarting
  <2>2. Tame(j)
    BY <2>1 DEF Tame, InPlay, Early, starts
  <2>3. ASSUME NEW i \in Job, i # j PROVE Tame(i)
    BY <1>0, <2>1, <2>3, ApieceTame DEF Apiece, starts, os, history, Working
  <2> QED BY <2>2, <2>3, TameKeeps
<1> QED BY <1>1, <1>2 DEF Cancel

LEMMA WebhookScanPlace == ASSUME PlaceInv, NEW j \in Job, WebhookScan(j) PROVE PlacePart'
<1>0. LockInv
  BY DEF PlaceInv
<1>1. ASSUME NEW gone, NEW ok, StorePoll(j, gone, ok) PROVE PlacePart'
  <2>1. ASSUME NEW i \in Job PROVE Tame(i)
    BY <1>0, <1>1, ApieceTame
       DEF StorePoll, Apiece, windows, reservations, knowledge, starts, os, history, Working
  <2> QED BY <2>1, TameKeeps
<1>2. ASSUME NEW gone \in SUBSET MaybeGone, NEW ok, WebhookPoll(j, gone, ok) PROVE PlacePart'
  BY <1>0, <1>2, RefreshTame, TameKeeps DEF WebhookPoll
<1> QED BY <1>1, <1>2 DEF WebhookScan

LEMMA NeitherPlace ==
  ASSUME PlaceInv, ConnLost \/ RecoverSkipped \/ UNCHANGED vars \/ \E j \in Job : System(j)
  PROVE  PlacePart'
<1>0. LockInv
  BY DEF PlaceInv
<1>1. ASSUME NEW i \in Job PROVE Apiece(i) /\ settled' = settled
  <2>1. CASE ConnLost \/ RecoverSkipped \/ UNCHANGED vars
    BY <2>1 DEF ConnLost, RecoverSkipped, vars, Apiece, windows, reservations, knowledge, starts, os,
       history, Working
  <2>2. CASE \E j \in Job : System(j)
    BY <1>0, <2>2, LockFacts DEF System, CommandEnds, ProcExits, ProcKilled, Apiece, windows,
       reservations, knowledge, starts, history, Working, Alive, TypeOK
  <2> QED BY <2>1, <2>2
<1> QED BY <1>0, <1>1, ApieceTame, TameKeeps

LEMMA CrashesPlace == ASSUME PlaceInv, Crashes PROVE PlacePart'
<1>0. LockInv /\ LoseMemory
  BY DEF PlaceInv, Crashes, Crash, CrashInClaim, CrashInLock, CrashInSettle, CrashInDiscard
<1>1. ASSUME NEW i \in Job PROVE Tame(i)
  <2>1. /\ pc'[i] = (IF InFlight(i) THEN "crashed" ELSE pc[i]) /\ settled' = {} /\ UNCHANGED proc
        /\ orphan' = orphan \cup {j \in Job : Alive(j) /\ ~(Running(j) /\ meta[j].pid)}
    BY <1>0 DEF LoseMemory
  <2>2. InPlay(i)' => Working(i) /\ i \notin orphan /\ meta[i].pid
    BY <2>1 DEF InPlay, Working, Alive, InFlight
  <2>3. meta[i].pid => i \notin abort /\ ~Dying(i)
    BY <1>0, LockFacts DEF PidInTime, Window
  <2> QED BY <2>1, <2>2, <2>3 DEF Tame, InPlay, InFlight, Early
<1> QED BY <1>1, TameKeeps

LEMMA RecoveryPlace == ASSUME PlaceInv, Recovery PROVE PlacePart'
<1>0. LockInv
  BY DEF PlaceInv
<1>1. ASSUME NEW old, NEW gone \in SUBSET MaybeGone, NEW ok, Recover(old, gone, ok) PROVE PlacePart'
  <2> DEFINE E == Ended(Job, gone, marker)
  <2>1. \A e \in E : Finished(e)
    BY <1>0, EndedFinished, MarkerEnded
  <2>2. /\ mgr = "none" /\ mgr' = "up" /\ \A i \in settled' : Terminal(i) \/ i \in E
        /\ UNCHANGED <<windows, reservations, starts, os, history>>
    BY <1>1 DEF Recover
  <2> HIDE DEF E
  <2>3. ASSUME NEW i \in Job PROVE Tame(i)
    <3>1. Apiece(i)
      BY <2>2 DEF Apiece, windows, reservations, starts, os, history, Working
    <3>2. i \in settled' => ~Early(i) /\ ~InPlay(i)
      BY <1>0, <2>1, <2>2, NoManager, FinishedOut
    <3> QED BY <1>0, <3>1, <3>2, ApieceTame
  <2> QED BY <2>3, TameKeeps
<1> QED BY <1>1, NeitherPlace DEF Recovery

LEMMA PlaceInvHolds == Spec => []PlaceInv
<1>1. Init /\ LockInv => PlacePart
  <2> SUFFICES ASSUME Init, LockInv PROVE PlacePart OBVIOUS
  <2>1. Active = {} /\ Started = {} /\ Admitted = {}
    BY DEF Init, Active, Started, Admitted, InPlay, Working
  <2>2. IsFiniteSet({}) /\ Cardinality({}) = 0
    BY FS_EmptySet
  <2> QED BY <2>1, <2>2, BoundAssumption DEF PlacePart, Init
<1>2. PlaceInv /\ [Next]_vars => PlacePart'
  <2> SUFFICES ASSUME PlaceInv, [Next]_vars PROVE PlacePart'
    OBVIOUS
  <2>1. CASE Next
    BY <2>1, RequestedPlace, CrashesPlace, RecoveryPlace, NeitherPlace, StartStepPlace, ExitStepPlace,
       CancelPlace, WebhookScanPlace DEF Next
  <2>2. CASE UNCHANGED vars
    BY <2>2, NeitherPlace
  <2> QED BY <2>1, <2>2
<1> QED BY <1>1, <1>2, LockInvHolds, PTL DEF Spec, PlaceInv

\* No more than JOB_MAX_CONCURRENT commands run or are about to (countRunningJobs at the
\* admission), whatever cancels, failed writes, crashes and recoveries come in between.
THEOREM PlacesHold == Spec => []CapacityHeld
<1>1. PlaceInv => CapacityHeld
  <2>1. Active = {j \in Job \ (orphan \cup abort) :
                    pc[j] = "parked" \/ (Working(j) /\ watch[j] # "dying")}
    BY DEF Active, InPlay, Dying
  <2> QED BY <2>1 DEF PlaceInv, PlacePart, CapacityHeld
<1> QED BY <1>1, PlaceInvHolds, PTL
=============================================================================
