---------------------------- MODULE JobProperties ----------------------------
(***************************************************************************)
(* What the job manager promises, over the state of JobManager.             *)
(***************************************************************************)
EXTENDS JobManager

\* The state has its declared shape (JobMeta, the in-memory sets and maps of
\* JobManager, the lock and index files).
TypeOK ==
  /\ meta \in [Job -> Meta]
  /\ marker \subseteq Job
  /\ opIndex \in [OpKey -> Job \cup {None, Garbage}]
  /\ lock \in [Resource -> Job \cup {None, Garbage}]
  /\ mgr \in {"none", "up"}
  /\ starting \subseteq Job /\ abort \subseteq Job /\ lost \subseteq Job /\ retiring \subseteq Job
  /\ settled \subseteq Job /\ cancelled \subseteq Job /\ signalled \subseteq Job
  /\ locksHeld \subseteq Job
  /\ dyingCard \in [Gpu -> Job \cup {None}]
  /\ pc \in [Job -> StartPC]
  /\ loop \in Job \cup {None}
  /\ watch \in [Job -> {"none", "plain", "retire", "dying"}]
  /\ proc \in [Job -> ProcState]
  /\ req \in [Job -> Request]
  /\ orphan \subseteq Job
  /\ crashes \in Nat

-----------------------------------------------------------------------------
(* Resources.                                                                 *)

\* Two jobs that run at the same time never share a named lock or a GPU card,
\* through cancels, failed starts, recoveries and record writes that fail.  Only
\* a process whose pid a crash kept off the disk is beyond the agent's control.
LockExclusion ==
  \A i, j \in Job \ orphan :
    i # j /\ Working(i) /\ Working(j) => req[i].res \cap req[j].res = {}

\* A resource that would be refused to a start now is really in somebody's way: a
\* start in its window, a process that is still there, or one whose exit callback
\* is still to come.  No file and no in-memory hold outlives that.
Letting(j) ==
  /\ j \in Job
  /\ \/ pc[j] \in {"claimed", "dirs", "abandon", "parked", "spawned", "pid"}
     \/ Alive(j)
     \/ watch[j] \in {"retire", "dying"}

NoLeakedResource ==
  mgr = "up" =>
    /\ \A r \in Resource : ~HolderGone(lock[r], MaybeGone) => Letting(lock[r])
    /\ \A g \in Gpu : dyingCard[g] # None => Letting(dyingCard[g])
    /\ \A j \in locksHeld : Letting(j)

-----------------------------------------------------------------------------
(* Idempotent starts.                                                         *)

\* The start behind a record failed: its caller was told so, and its command does
\* not run, unless a crash orphaned the process before it was killed.
Undone(j) ==
  \/ pc[j] = "erasing"
  \/ pc[j] = "retired" /\ (~Working(j) \/ j \in orphan)
  \/ pc[j] = "crashed" /\ proc[j] = "none"

\* As long as a job's record exists, its operation key points at it, so a retry of
\* the start is answered with that job.
KeyAnswersForItsJob ==
  \A j \in Job : Recorded(j) /\ req[j].op # None /\ ~Undone(j) => opIndex[req[j].op] = j

\* "an agent that never starts it twice while the job record exists"
\* (protocol/src/mcp-tool-descriptions.ts): of two jobs on disk with one key, at
\* most one was ever given a process that its caller was not told is stopped.
AtMostOnce ==
  \A i, j \in Job :
    i # j /\ Recorded(i) /\ Recorded(j) /\ req[i].op = req[j].op /\ req[i].op # None
      => Undone(i) \/ Undone(j)

-----------------------------------------------------------------------------
(* Outcomes.                                                                  *)

\* No more than JOB_MAX_CONCURRENT commands run or are about to, counting those
\* found again after a crash, not those already being killed for a cancel.
CapacityHeld ==
  Cardinality({j \in Job \ (orphan \cup abort) :
                 pc[j] = "parked" \/ (Working(j) /\ watch[j] # "dying")}) <= MaxConcurrent

\* A job reported as over is over: its command does not run any more, unless it
\* is being killed after a cancel that came during the spawn, or is an orphan.
ReportedOverIsOver ==
  \A j \in Job \ orphan : Terminal(j) /\ Working(j) => watch[j] = "dying" \/ loop = j

\* An outcome is final: whatever start, cancel, exit callback, scan or recovery
\* comes after it, a terminal record is only ever removed.
OutcomeFinal ==
  [][\A j \in Job : Terminal(j) => meta'[j] \in {meta[j], NoMeta}]_vars

\* A record whose cancel is on disk is never reported as a normal exit, whatever
\* exit code the command had, and however often the agent restarted in between.
CancelOutranksExit ==
  \A j \in Job : meta[j].cancelReq => meta[j].status # "exited"

\* While a start is in its window only the cancel of that start may end its record.
WindowEndsOnlyByCancel ==
  [][\A j \in starting : Running(j) /\ Terminal(j)' => j \in abort']_vars

-----------------------------------------------------------------------------
(* Progress.                                                                  *)

\* Every job_start that was called is answered, or its agent died.
StartsAnswer ==
  \A j \in Job : (pc[j] = "claimed") ~> (pc[j] \in {"answered", "retired", "crashed"})

\* A job with a webhook that is over gets its terminal record (and so its
\* job_ended event) without any job request, manager or no manager.
WebhookJobSettles ==
  \A j \in Job :
    (/\ req[j].webhook /\ Running(j)
     /\ Dead(j) \/ (pc[j] = "crashed" /\ proc[j] = "none")) ~> ~Running(j)

\* What a start cancelled in its window still holds (its named locks, its card)
\* can be had by another start in the end.
HoldsNothing(j) ==
  /\ \A r \in Resource : lock[r] = j => HolderGone(j, MaybeGone)
  /\ \A g \in Gpu : dyingCard[g] # j

CancelledStartLetsGo ==
  \A j \in Job : (j \in locksHeld \/ watch[j] = "dying") ~> HoldsNothing(j)
=============================================================================
