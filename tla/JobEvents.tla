------------------------------- MODULE JobEvents -------------------------------
(***************************************************************************)
(* The job_ended events of webhook jobs: the flag endedUnacked that          *)
(* settle() writes with the terminal record, the reporter of one connection *)
(* (packages/agent/src/job-ended-reporter.ts), the scan it shares with the   *)
(* manager (job-ended-settle.ts) and the acknowledgement of the relay.       *)
(*                                                                          *)
(* What JobManager models of a job in full is here its outline: a start      *)
(* window, a process, and the evidence that it is over.  All jobs here carry *)
(* a webhook id, which is the job id itself.                                 *)
(***************************************************************************)
EXTENDS Naturals, FiniteSets

CONSTANTS
  Job,           \* webhook jobs
  ReplayMax,     \* JOB_ENDED_REPLAY_MAX
  EndedAt,       \* the endedAt the record of each job gets when it is settled
  SettleWrites,  \* outcomes of the record writes of starts and settles
  MarkWrites,    \* outcomes of the record writes that clear endedUnacked
  MaxDrops,      \* bound on connections that end
  MaxCrashes     \* bound on crashes of the agent process

ASSUME ReplayAssumption == ReplayMax \in Nat \ {0}
ASSUME JobAssumption == IsFiniteSet(Job) /\ EndedAt \in [Job -> Nat]
ASSUME WriteAssumption ==
  SettleWrites \in {{TRUE}, BOOLEAN} /\ MarkWrites \in {{TRUE}, BOOLEAN}
ASSUME BoundAssumption == MaxDrops \in Nat /\ MaxCrashes \in Nat

VARIABLES
  \* disk
  rec,       \* the record: its status, and why there is none any more
  unacked,   \* records that carry endedUnacked
  pidless,   \* running records without a pid
  undoing,   \* records that carry retiring
  \* memory of the agent
  manager,   \* whether a JobManager exists
  starting,  \* startingJobs
  retiring,  \* retiringJobs
  settled,   \* settledJobs
  child,     \* jobs with a child handle whose exit event is still to come
  \* the connection and its reporter
  link,      \* "up" from the first agent:register to the end of the connection
  attached,  \* the reporter hears the manager's settles
  sent,      \* events sent on this connection
  owed,      \* events of the last scan, by which an ack is recognised
  pending,   \* mayHavePending: "yes", "no" or "unknown"
  timer,     \* the replay timer is armed
  flush,     \* the flush of a settle is scheduled
  \* wire and relay
  events,    \* agent:job_ended frames under way
  acks,      \* do:job_ended_ack frames under way
  known,     \* events the relay has recorded
  \* processes, and bounds
  proc,      \* "none", "alive" or "over"
  drops, crashes

disk == <<rec, unacked, pidless, undoing>>
memory == <<manager, starting, retiring, settled, child>>
reporter == <<attached, sent, owed, pending, timer, flush>>
wire == <<link, events, acks>>
bounds == <<drops, crashes>>
vars == <<disk, memory, reporter, wire, known, proc, bounds>>

-----------------------------------------------------------------------------
Init ==
  /\ rec = [j \in Job |-> "new"]
  /\ unacked = {} /\ pidless = {} /\ undoing = {}
  /\ manager = FALSE
  /\ starting = {} /\ retiring = {} /\ settled = {} /\ child = {}
  /\ link = "down"
  /\ attached = FALSE /\ sent = {} /\ owed = {} /\ pending = "unknown"
  /\ timer = FALSE /\ flush = FALSE
  /\ events = {} /\ acks = {} /\ known = {}
  /\ proc = [j \in Job |-> "none"]
  /\ drops = 0 /\ crashes = 0

Running == {j \in Job : rec[j] = "running"}
Live == starting \cup retiring

\* Running records outside every window for which there is evidence of an end: an
\* exit marker or a pid that is gone, or no pid at all.
Over == {j \in Running \ Live : proc[j] = "over" \/ j \in pidless}

\* Of the records of S that are to be written, those that may be.
Written(S, outcomes) == IF FALSE \in outcomes THEN SUBSET S ELSE {S}

\* onSettled: the reporter that hears of a settle schedules a flush.
Notified == attached /\ pending' = "yes" /\ flush' = TRUE
Unnoticed == ~attached /\ UNCHANGED <<pending, flush>>

\* settle() of one job by the manager.  A record on its way out is removed; the
\* others get their terminal status and endedUnacked in one write.
Settle(j, ok) ==
  /\ IF j \in undoing
     THEN /\ rec' = [rec EXCEPT ![j] = "undone"]
          /\ undoing' = undoing \ {j}
          /\ pidless' = pidless \ {j}
          /\ UNCHANGED <<unacked, settled, pending, flush>>
     ELSE /\ rec' = IF ok THEN [rec EXCEPT ![j] = "ended"] ELSE rec
          /\ unacked' = IF ok THEN unacked \cup {j} ELSE unacked
          /\ pidless' = IF ok THEN pidless \ {j} ELSE pidless
          /\ settled' = settled \cup {j}
          /\ Notified \/ Unnoticed
          /\ UNCHANGED undoing
  /\ UNCHANGED <<attached, sent, owed, timer>>

-----------------------------------------------------------------------------
(* Jobs.                                                                      *)

\* do:job_start up to the record; the reporter is told before (noteWebhookJob).
StartJob(j) ==
  /\ link = "up" /\ manager
  /\ rec[j] = "new"
  /\ rec' = [rec EXCEPT ![j] = "running"]
  /\ pidless' = pidless \cup {j}
  /\ starting' = starting \cup {j}
  /\ pending' = "yes"
  /\ UNCHANGED <<unacked, undoing, manager, retiring, settled, child, attached, sent, owed,
                 timer, flush, wire, known, proc, bounds>>

\* The process is up and its pid recorded.
StartSucceeds(j) ==
  /\ j \in starting
  /\ starting' = starting \ {j}
  /\ pidless' = pidless \ {j}
  /\ child' = child \cup {j}
  /\ proc' = [proc EXCEPT ![j] = "alive"]
  /\ UNCHANGED <<rec, unacked, undoing, manager, retiring, settled, reporter, wire, known, bounds>>

\* No process came up: the record goes.
StartGivenUp(j) ==
  /\ j \in starting
  /\ starting' = starting \ {j}
  /\ rec' = [rec EXCEPT ![j] = "undone"]
  /\ pidless' = pidless \ {j}
  /\ UNCHANGED <<unacked, undoing, manager, retiring, settled, child, reporter, wire, known, proc,
                 bounds>>

\* retireStartedProcess: the caller has been told the start failed.  The pid may
\* have reached the disk before.
StartRetired(j, ok) ==
  /\ j \in starting
  /\ starting' = starting \ {j}
  /\ retiring' = retiring \cup {j}
  /\ undoing' = IF ok THEN undoing \cup {j} ELSE undoing
  /\ pidless' \in IF ok THEN {pidless \ {j}} ELSE {pidless, pidless \ {j}}
  /\ child' = child \cup {j}
  /\ proc' = [proc EXCEPT ![j] = "alive"]
  /\ UNCHANGED <<rec, unacked, manager, settled, reporter, wire, known, bounds>>

\* do:job_cancel of a start in its window settles it on the spot; its process may
\* just have come up, and is then killed.
CancelStarting(j, spawned, ok) ==
  /\ link = "up"
  /\ j \in starting
  /\ starting' = starting \ {j}
  /\ Settle(j, ok)
  /\ child' = IF spawned THEN child \cup {j} ELSE child
  /\ proc' = [proc EXCEPT ![j] = IF spawned THEN "alive" ELSE @]
  /\ UNCHANGED <<manager, retiring, wire, known, bounds>>

ProcEnds(j) ==
  /\ proc[j] = "alive"
  /\ proc' = [proc EXCEPT ![j] = "over"]
  /\ UNCHANGED <<disk, memory, reporter, wire, known, bounds>>

\* The exit event of a child: a retired start is undone, any other job settled,
\* unless a scan or a request has done so before.
ExitEvent(j, ok) ==
  /\ j \in child
  /\ proc[j] = "over"
  /\ child' = child \ {j}
  /\ \/ /\ j \in retiring
        /\ retiring' = retiring \ {j}
        /\ rec' = [rec EXCEPT ![j] = "undone"]
        /\ undoing' = undoing \ {j}
        /\ pidless' = pidless \ {j}
        /\ UNCHANGED <<unacked, settled, reporter>>
     \/ /\ j \in Over
        /\ Settle(j, ok)
        /\ UNCHANGED retiring
     \/ /\ j \notin retiring \cup Over
        /\ UNCHANGED <<disk, settled, retiring, reporter>>
  /\ UNCHANGED <<manager, starting, wire, known, proc, bounds>>

\* A job RPC refreshes the record and finds the job over.
Refresh(j, ok) ==
  /\ link = "up" /\ manager
  /\ j \in Over
  /\ Settle(j, ok)
  /\ UNCHANGED <<manager, starting, retiring, child, wire, known, proc, bounds>>

\* The retention sweep of a job RPC.
Prune(old) ==
  /\ link = "up" /\ manager
  /\ old # {}
  /\ \A j \in old : rec[j] = "ended"
  /\ rec' = [j \in Job |-> IF j \in old THEN "expired" ELSE rec[j]]
  /\ unacked' = unacked \ old
  /\ settled' = settled \ old
  /\ UNCHANGED <<pidless, undoing, manager, starting, retiring, child, reporter, wire, known, proc,
                 bounds>>

\* getJobManager: by the controller before any connection, or by the first job
\* RPC.  recover() settles what it can prove over (wrote: of E, the records it
\* could write) and sweeps; no reporter hears of it.
CreateManager(E, wrote, old) ==
  /\ ~manager
  /\ manager' = TRUE
  /\ attached' = (link = "up")
  /\ pidless \subseteq E /\ E \subseteq Over
  /\ rec' = [j \in Job |-> IF j \in E \cap undoing THEN "undone"
                           ELSE IF j \in old THEN "expired"
                           ELSE IF j \in wrote THEN "ended" ELSE rec[j]]
  /\ \A j \in old : rec[j] = "ended" \/ j \in wrote
  /\ unacked' = (unacked \cup wrote) \ old
  /\ pidless' = pidless \ (wrote \cup undoing)
  /\ undoing' = undoing \ E
  /\ settled' = E \ (undoing \cup old)
  /\ UNCHANGED <<starting, retiring, child, sent, owed, pending, timer, flush, wire, known,
                 proc, bounds>>

-----------------------------------------------------------------------------
(* The reporter.                                                              *)

\* What a scan settles: with a manager what that has not settled yet, without one
\* every record but those that may be a start still in flight elsewhere (young).
Settleable(young) == IF manager THEN Over \ settled ELSE Over \ young

\* Mutant: the scan settles undone starts like any other job.
Discarded_None(E) == {}
\* The records on their way out among those a scan settles.
Discarded(E) == E \cap undoing

\* The events a scan finds owed: those on disk, and those it has just settled
\* whether or not their record could be written.
Unacked(E) == {j \in unacked : rec[j] = "ended"} \cup (E \ Discarded(E))

\* Mutant: the newest event is dropped.
Newest_Oldest(U) ==
  {K \in SUBSET U :
     /\ Cardinality(K) = IF Cardinality(U) <= ReplayMax THEN Cardinality(U) ELSE ReplayMax
     /\ \A i \in K, j \in U \ K : EndedAt[i] <= EndedAt[j]}
\* What a scan may keep of the events U: the newest ReplayMax, ties in any order.
Newest(U) ==
  {K \in SUBSET U :
     /\ Cardinality(K) = IF Cardinality(U) <= ReplayMax THEN Cardinality(U) ELSE ReplayMax
     /\ \A i \in K, j \in U \ K : EndedAt[i] >= EndedAt[j]}

\* Mutant: a job still running is nothing to wait for.
StillPending_UnackedOnly(E, K) == K # {}
\* Whether a scan leaves anything to come back for.
StillPending(E, K) == Running \ E # {} \/ K # {}

\* settleAndScan and the bookkeeping of cycle(): E is settled, the events of K are
\* kept, wrote and marked are the records whose terminal write and whose
\* un-flagging succeeded; resend are the events sent again on this connection,
\* flushing whether a flush was due already.
CycleOf(E, K, wrote, marked, resend, flushing) ==
  LET ended == E \ Discarded(E)
      batch == K \ (sent \ resend)
  IN /\ rec' = [j \in Job |-> IF j \in Discarded(E) THEN "undone"
                              ELSE IF j \in wrote \cup marked THEN "ended" ELSE rec[j]]
     /\ unacked' = (unacked \cup wrote) \ marked
     /\ pidless' = pidless \ (wrote \cup marked \cup Discarded(E))
     /\ undoing' = undoing \ Discarded(E)
     /\ settled' = IF manager THEN settled \cup ended ELSE settled
     /\ attached' = (attached \/ manager)
     /\ owed' = K
     /\ sent' = sent \cup batch
     /\ events' = events \cup batch
     /\ pending' = IF StillPending(E, K) THEN "yes" ELSE "no"
     /\ timer' = StillPending(E, K)
     /\ flush' = (flushing \/ (manager /\ ended # {}))
     /\ UNCHANGED <<manager, starting, retiring, child, acks, known, proc, bounds>>

Cycle(young, resend, flushing) ==
  LET E == Settleable(young)
  IN \E K \in Newest(Unacked(E)) :
       \E wrote \in Written(E \ Discarded(E), SettleWrites),
          marked \in Written(Unacked(E) \ K, MarkWrites) :
         CycleOf(E, K, wrote, marked, resend, flushing)

\* "open" of the socket: a new reporter, and its start() after the register.
Open(young) ==
  /\ link = "down"
  /\ link' = "up"
  /\ Cycle(young, {}, FALSE)

FlushFires(young) ==
  /\ flush
  /\ Cycle(young, {}, FALSE)
  /\ UNCHANGED link

\* The recount of running jobs.
Poke(young) ==
  /\ link = "up"
  /\ pending # "no"
  /\ Cycle(young, {}, flush)
  /\ UNCHANGED link

\* The backoff replay sends again whatever is not acknowledged.
TimerFires(young) ==
  /\ timer
  /\ Cycle(young, Job, flush)
  /\ UNCHANGED link

\* do:job_ended_ack: only an event of the last scan is looked up, and its record
\* rewritten without the flag.
Ack(j, ok) ==
  /\ j \in acks
  /\ acks' = acks \ {j}
  /\ owed' = owed \ {j}
  /\ sent' = IF j \in owed THEN sent \ {j} ELSE sent
  /\ unacked' = IF j \in owed /\ rec[j] = "ended" /\ ok THEN unacked \ {j} ELSE unacked
  /\ UNCHANGED <<rec, pidless, undoing, memory, attached, pending, timer, flush, link, events, known,
                 proc, bounds>>

-----------------------------------------------------------------------------
(* The relay, the connection, crashes.                                         *)

RelayRecords(j) ==
  /\ j \in events
  /\ events' = events \ {j}
  /\ known' = known \cup {j}
  /\ acks' = acks \cup {j}
  /\ UNCHANGED <<disk, memory, reporter, link, proc, bounds>>

RelayIgnores(j) ==
  /\ j \in events
  /\ events' = events \ {j}
  /\ UNCHANGED <<disk, memory, reporter, link, acks, known, proc, bounds>>

\* The connection ends: frames under way are lost, the reporter is stopped, and
\* the next connection gets one of its own.
Disconnect ==
  /\ link' = "down"
  /\ events' = {} /\ acks' = {}
  /\ attached' = FALSE /\ sent' = {} /\ owed' = {} /\ pending' = "unknown"
  /\ timer' = FALSE /\ flush' = FALSE

Drop ==
  /\ link = "up"
  /\ drops < MaxDrops
  /\ drops' = drops + 1
  /\ Disconnect
  /\ UNCHANGED <<disk, memory, known, proc, crashes>>

\* The agent dies; spawned are the starts whose process was just up.
Crash(spawned) ==
  /\ crashes < MaxCrashes
  /\ crashes' = crashes + 1
  /\ spawned \subseteq starting
  /\ proc' = [j \in Job |-> IF j \in spawned THEN "alive" ELSE proc[j]]
  /\ Disconnect
  /\ manager' = FALSE
  /\ starting' = {} /\ retiring' = {} /\ settled' = {} /\ child' = {}
  /\ UNCHANGED <<disk, known, drops>>

-----------------------------------------------------------------------------
JobStep(j) ==
  \/ StartJob(j) \/ StartSucceeds(j) \/ StartGivenUp(j) \/ ProcEnds(j)
  \/ \E ok \in SettleWrites :
       \/ StartRetired(j, ok) \/ ExitEvent(j, ok) \/ Refresh(j, ok)
       \/ \E spawned \in BOOLEAN : CancelStarting(j, spawned, ok)

\* Only without a manager may a record without a pid be too young to be settled.
ReporterStep ==
  \E young \in IF manager THEN {{}} ELSE SUBSET pidless :
    Open(young) \/ FlushFires(young) \/ Poke(young) \/ TimerFires(young)

Next ==
  \/ \E j \in Job : JobStep(j) \/ RelayRecords(j) \/ RelayIgnores(j) \/ \E ok \in MarkWrites : Ack(j, ok)
  \/ \E old \in SUBSET {j \in Job : rec[j] = "ended"} : Prune(old)
  \/ \E E \in SUBSET Over, old \in SUBSET Job :
       \E wrote \in Written(E \ undoing, SettleWrites) : CreateManager(E, wrote, old)
  \/ ReporterStep
  \/ Drop
  \/ \E spawned \in SUBSET starting : Crash(spawned)

\* The loop of connections goes on, timers fire, exit events are delivered, a frame
\* on a connection that stays up arrives, and a relay that is sent an event again
\* and again records it some day.  A replay comes at least BASE after a crash, when
\* a record without a pid is no longer young.
Fairness ==
  /\ WF_vars(Open({}))
  /\ WF_vars(FlushFires({}))
  /\ WF_vars(TimerFires({}))
  /\ \A j \in Job :
       /\ WF_vars(\E ok \in SettleWrites : ExitEvent(j, ok))
       /\ WF_vars(\E ok \in MarkWrites : Ack(j, ok))
       /\ SF_vars(RelayRecords(j))

Spec == Init /\ [][Next]_vars
FairSpec == Spec /\ Fairness

-----------------------------------------------------------------------------
(* What it all is for.                                                         *)

\* The end of each job as the abstract specification sees it.  A start is undone as
\* soon as its record says so: its caller has been told that it failed.
Event ==
  [j \in Job |->
     IF j \in known THEN "delivered"
     ELSE IF rec[j] \in {"undone", "expired"} THEN rec[j]
     ELSE IF j \in undoing THEN "undone"
     ELSE IF rec[j] # "ended" THEN "none"
     ELSE IF j \in unacked THEN "owed" ELSE "dropped"]

Delivery == INSTANCE EventDelivery WITH event <- Event

\* The state has its declared shape, and the reporter's memory stays bounded: it
\* recognises the acks of at most JOB_ENDED_REPLAY_MAX events.
TypeOK ==
  /\ rec \in [Job -> {"new", "running", "ended", "undone", "expired"}]
  /\ unacked \subseteq Job /\ pidless \subseteq Job /\ undoing \subseteq Job
  /\ manager \in BOOLEAN
  /\ starting \subseteq Job /\ retiring \subseteq Job /\ settled \subseteq Job /\ child \subseteq Job
  /\ link \in {"down", "up"}
  /\ attached \in BOOLEAN /\ timer \in BOOLEAN /\ flush \in BOOLEAN
  /\ sent \subseteq Job
  /\ owed \subseteq Job /\ Cardinality(owed) <= ReplayMax
  /\ pending \in {"yes", "no", "unknown"}
  /\ events \subseteq Job /\ acks \subseteq Job /\ known \subseteq Job
  /\ proc \in [Job -> {"none", "alive", "over"}]
  /\ drops \in Nat /\ crashes \in Nat

\* Reporting implements the promise of EventDelivery: through lost frames, lost
\* acks, reconnects and restarts no end is forgotten before the relay has it,
\* except for age or for ReplayMax newer ones, and no undone start is reported.
DeliveryPromise == Delivery!Spec

\* While a connection is up nothing that is owed, or will only be noticed by a
\* scan, waits for something that may never happen: a timer or a flush is due.
SomethingIsDue ==
  link = "up" =>
    \A j \in Job :
      j \in unacked \/ (j \in Running /\ j \notin Live \cup child) => timer \/ flush

\* The end of a webhook job reaches the relay, without any job RPC, unless its
\* record is removed or its event dropped for newer ones; and the relay is not told
\* for ever: what it has recorded is acknowledged on disk.
EndIsReported ==
  \A j \in Job : (j \in Over) ~>
    /\ Event[j] \in {"delivered", "dropped", "expired", "undone"}
    /\ j \in known => j \notin unacked

\* "Sends agent:job_ended for jobs started with a relay webhookId, and replays it
\* until the relay answers do:job_ended_ack" (job-ended-reporter.ts:1-2).
ReplayedUntilAcked ==
  \A j \in Job : (j \in sent) ~> (Event[j] \in {"delivered", "dropped", "expired", "undone"})
=============================================================================
