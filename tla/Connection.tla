------------------------------ MODULE Connection ------------------------------
(***************************************************************************)
(* One agent's connections, one after another: connection.ts, with what each   *)
(* starts and must stop: heartbeat (app-heartbeat.ts), job count               *)
(* (job-state-reporter.ts), file transfers (file-transfer.ts), the command.    *)
(*                                                                          *)
(* The socket delivers messages until it reports its end, also after close()  *)
(* and terminate(): it is "closing", or "cut" when the connection is settled   *)
(* by then.  A transfer runs detached and may still be winding up on the next  *)
(* connection.                                                              *)
(***************************************************************************)
EXTENDS Integers, FiniteSets

CONSTANTS
  Transfer,  \* places for transfers
  MaxJobs    \* bound: running jobs

ASSUME JobsAssumption == MaxJobs \in Nat

VARIABLES
  link,      \* the socket and the connection's promise
  work,      \* what runs for it: timers and listeners, a command, the transfers
  disk,      \* whether an aborted push replaced a file; a part file nobody writes
  revoked,   \* the signal of the run: the user disabled the agent
  jobs,      \* running jobs, and whether this connection has asked for them
  report     \* the job count: as reported, as the relay shows it, and not to be had

vars == <<link, work, disk, revoked, jobs, report>>

None == [pc |-> "none", aborted |-> FALSE]
Unknown == -1
NoWork == [armed |-> {}, command |-> FALSE, xfer |-> [t \in Transfer |-> None]]
\* The fields of JobStateReporter before its first report.
Unreported == [last |-> Unknown, stopped |-> TRUE, missed |-> FALSE, shown |-> Unknown]

-----------------------------------------------------------------------------
(* The end of a connection.                                                 *)

\* abortActiveCommand kills the command and frees its slot; abortTransfers.
Aborted(w) == [t \in Transfer |-> [w.xfer[t] EXCEPT !.aborted = w.xfer[t].pc # "none"]]

\* doResolve and doReject.
Settled(w) ==
  [armed |-> w.armed \cap {"screen"}, command |-> FALSE, xfer |-> Aborted(w)]

\* The handlers of "close" and "error" stop again what a late message started.
\* Mutant: a settled connection has nothing left to stop.
Stopped_Once(w) ==
  IF link.settled THEN w
  ELSE [armed |-> w.armed \cap {"reauth", "reconcile"}, command |-> FALSE, xfer |-> Aborted(w)]
Stopped(w) ==
  [armed |-> w.armed \cap {"reauth", "reconcile"}, command |-> FALSE, xfer |-> Aborted(w)]

\* JobStateReporter.stop: no more counts, so none that failed.
ReportStopped == [report EXCEPT !.stopped = TRUE, !.missed = FALSE]

\* In flight is what is not aborted: abortTransfers empties the set.
Busy ==
  \/ work.command
  \/ \E t \in Transfer : work.xfer[t].pc # "none" /\ ~work.xfer[t].aborted

Receiving == link.pc \in {"open", "closing", "cut"}

-----------------------------------------------------------------------------
(* The socket.                                                              *)

\* The GPU probe, the ticket, the socket.
Connect ==
  /\ link.pc = "down" /\ ~revoked
  /\ link' = [pc |-> "connecting", settled |-> FALSE]
  /\ jobs' = [jobs EXCEPT !.asked = FALSE]
  /\ report' = [report EXCEPT !.last = Unknown, !.stopped = FALSE, !.missed = FALSE]
  /\ UNCHANGED <<work, disk, revoked>>

ConnectFails ==
  /\ link.pc = "connecting"
  /\ link' = [link EXCEPT !.pc = "down", !.settled = TRUE]
  /\ UNCHANGED <<work, disk, revoked, jobs, report>>

\* The first register makes the relay forget the count it had.
Open(gpu) ==
  /\ link.pc = "connecting" /\ ~revoked
  /\ link' = [link EXCEPT !.pc = "open"]
  /\ work' = [work EXCEPT !.armed =
       {"dead", "reauth", "debounce", "reconcile", "screen"} \cup (IF gpu THEN {"gpu"} ELSE {})]
  /\ report' = [report EXCEPT !.shown = Unknown]
  /\ UNCHANGED <<disk, revoked, jobs>>

\* The link-dead timer terminates the socket and rejects.
LinkDead ==
  /\ "dead" \in work.armed
  /\ IF link.settled
     THEN /\ work' = [work EXCEPT !.armed = @ \ {"dead"}]
          /\ UNCHANGED <<link, report>>
     ELSE /\ link' = [link EXCEPT !.pc = "cut", !.settled = TRUE]
          /\ work' = Settled(work)
          /\ report' = ReportStopped
  /\ UNCHANGED <<disk, revoked, jobs>>

SocketError ==
  /\ link.pc \in {"open", "closing"}
  /\ link' = [link EXCEPT !.pc = "cut", !.settled = TRUE]
  /\ work' = Settled(Stopped(work))
  /\ report' = ReportStopped
  /\ UNCHANGED <<disk, revoked, jobs>>

Closed ==
  /\ Receiving
  /\ link' = [link EXCEPT !.pc = "down", !.settled = TRUE]
  /\ work' = IF link.settled THEN Stopped(work) ELSE Settled(Stopped(work))
  /\ report' = ReportStopped
  /\ UNCHANGED <<disk, revoked, jobs>>

\* The token is changed while nothing runs; else the timer starts again.
ReauthDue ==
  /\ "reauth" \in work.armed /\ ~Busy
  /\ work' = [work EXCEPT !.armed = @ \ {"reauth"}]
  /\ link' = [link EXCEPT !.pc = IF @ = "open" THEN "closing" ELSE @]
  /\ UNCHANGED <<disk, revoked, jobs, report>>

\* The agent is disabled, or its run replaced; and a new run begins.
Disable ==
  /\ ~revoked
  /\ revoked' = TRUE
  /\ work' = IF link.pc \in {"open", "closing", "cut"} THEN [work EXCEPT !.xfer = Aborted(work)] ELSE work
  /\ link' = [link EXCEPT !.pc = IF @ = "open" THEN "closing" ELSE @]
  /\ UNCHANGED <<disk, jobs, report>>

Enable ==
  /\ revoked /\ link.pc = "down"
  /\ revoked' = FALSE
  /\ UNCHANGED <<link, work, disk, jobs, report>>

-----------------------------------------------------------------------------
(* Messages.                                                                *)

\* A pong, or a ping of the relay, which may ask for our own pings.
Beat(app) ==
  /\ Receiving
  /\ work' = [work EXCEPT !.armed = @ \cup {"dead"} \cup (IF app THEN {"app"} ELSE {})]
  /\ UNCHANGED <<link, disk, revoked, jobs, report>>

Exec ==
  /\ Receiving /\ ~work.command
  /\ work' = [work EXCEPT !.command = TRUE]
  /\ UNCHANGED <<link, disk, revoked, jobs, report>>

CommandEnds ==
  /\ work.command
  /\ work' = [work EXCEPT !.command = FALSE]
  /\ UNCHANGED <<link, disk, revoked, jobs, report>>

\* The first job call of a connection subscribes to the manager's changes.
JobCall ==
  /\ Receiving /\ ~jobs.asked
  /\ jobs' = [jobs EXCEPT !.asked = TRUE]
  /\ work' = [work EXCEPT !.armed = @ \cup (IF link.settled THEN {} ELSE {"jobs"})]
  /\ UNCHANGED <<link, disk, revoked, report>>

-----------------------------------------------------------------------------
(* The number of running jobs.                                              *)

\* schedule(), when the connection listens.
Scheduled(told) ==
  IF told /\ "jobs" \in work.armed /\ ~report.stopped
  THEN [work EXCEPT !.armed = @ \cup {"debounce"}] ELSE work

JobStarts ==
  /\ Receiving /\ jobs.asked /\ jobs.running < MaxJobs
  /\ jobs' = [jobs EXCEPT !.running = @ + 1]
  /\ work' = Scheduled(TRUE)
  /\ UNCHANGED <<link, disk, revoked, report>>

\* The manager sees the end of its own children, not of jobs it took over.
JobEnds(told) ==
  /\ jobs.running > 0
  /\ jobs' = [jobs EXCEPT !.running = @ - 1]
  /\ work' = Scheduled(told)
  /\ UNCHANGED <<link, disk, revoked, report>>

\* Mutant: what is subscribed will be told.
Polls_Never(n) == FALSE
Polls(n) == n > 0

\* report(), for the debounce or the poll, with a count.
Recount(timer) ==
  /\ timer \in work.armed
  /\ work' = [work EXCEPT !.armed = (@ \ {"debounce", "poll"})
       \cup (IF timer = "poll" /\ "debounce" \in work.armed THEN {"debounce"} ELSE {})
       \cup (IF Polls(jobs.running) THEN {"poll"} ELSE {})]
  /\ report' = [report EXCEPT
       !.last = jobs.running, !.missed = FALSE,
       !.shown = IF link.pc = "open" /\ jobs.running # report.last THEN jobs.running ELSE @]
  /\ UNCHANGED <<link, disk, revoked, jobs>>

\* And without one: nothing is sent and no timer is armed; a poll goes on.
CannotCount(timer) ==
  /\ timer \in work.armed
  /\ work' = [work EXCEPT !.armed = @ \ ({timer} \ {"poll"})]
  /\ report' = [report EXCEPT !.missed = TRUE]
  /\ UNCHANGED <<link, disk, revoked, jobs>>

-----------------------------------------------------------------------------
(* File transfers.                                                          *)

Step(t, next) == work' = [work EXCEPT !.xfer[t] = next]

\* pushFileFromRelay sweeps old part files nobody writes before it starts.
TransferStarts(t, kind) ==
  /\ Receiving /\ work.xfer[t].pc = "none"
  /\ Step(t, [pc |-> IF kind = "pull" THEN "sending" ELSE "fetching", aborted |-> FALSE])
  /\ \E stays \in {disk.part, disk.part /\ kind = "pull"} : disk' = [disk EXCEPT !.part = stays]
  /\ UNCHANGED <<link, revoked, jobs, report>>

\* Refused, sent, failed, or stopped by its signal.
TransferEnds(t) ==
  /\ work.xfer[t].pc \in {"sending", "fetching", "writing", "dressing"}
  /\ Step(t, None)
  /\ UNCHANGED <<link, disk, revoked, jobs, report>>

\* The download has an answer, and the part file is made.
Fetched(t) ==
  /\ work.xfer[t].pc = "fetching" /\ ~work.xfer[t].aborted
  /\ Step(t, [work.xfer[t] EXCEPT !.pc = "writing"])
  /\ UNCHANGED <<link, disk, revoked, jobs, report>>

\* Every byte is written, no more and no less, and the first look at the signal.
Written(t) ==
  /\ work.xfer[t].pc = "writing" /\ ~work.xfer[t].aborted
  /\ Step(t, [work.xfer[t] EXCEPT !.pc = "dressing"])
  /\ UNCHANGED <<link, disk, revoked, jobs, report>>

\* Owner, mode and close are done: the signal again, and the rename.
Withdrawn(t) == work.xfer[t].aborted

Replace(t) ==
  /\ work.xfer[t].pc = "dressing" /\ ~Withdrawn(t)
  /\ Step(t, None)
  /\ disk' = [disk EXCEPT !.replaced = @ \/ work.xfer[t].aborted]
  /\ UNCHANGED <<link, revoked, jobs, report>>

\* The process dies and comes again.
Restart ==
  /\ disk' = [disk EXCEPT !.part = @ \/ \E t \in Transfer : work.xfer[t].pc \in {"writing", "dressing"}]
  /\ link' = [pc |-> "down", settled |-> TRUE]
  /\ work' = NoWork
  /\ revoked' = FALSE
  /\ UNCHANGED <<jobs, report>>

-----------------------------------------------------------------------------
Init ==
  /\ link = [pc |-> "down", settled |-> TRUE]
  /\ work = NoWork
  /\ disk = [replaced |-> FALSE, part |-> FALSE]
  /\ revoked = FALSE
  /\ jobs = [running |-> 0, asked |-> FALSE]
  /\ report = Unreported

Recounts == \E timer \in {"debounce", "poll"} : Recount(timer) \/ CannotCount(timer)

Next ==
  \/ Connect \/ ConnectFails \/ LinkDead \/ SocketError \/ Closed \/ ReauthDue
  \/ Disable \/ Enable \/ Exec \/ CommandEnds \/ JobCall \/ JobStarts \/ Recounts \/ Restart
  \/ \E b \in BOOLEAN : Open(b) \/ Beat(b) \/ JobEnds(b)
  \/ \E t \in Transfer :
       \/ \E kind \in {"pull", "push"} : TransferStarts(t, kind)
       \/ TransferEnds(t) \/ Fetched(t) \/ Written(t) \/ Replace(t)

Spec == Init /\ [][Next]_vars

\* Timers fire, and a poll that goes on does not fail to count for ever.
Fairness == WF_vars(Recount("debounce")) /\ WF_vars(Recount("poll"))

FairSpec == Spec /\ Fairness

-----------------------------------------------------------------------------
\* Whatever ended a connection, and whatever message came too late: nothing of it
\* is armed, listening or running when its socket is gone, and no transfer it
\* ordered replaces a file once it was stopped.
NothingOutlivesTheLink ==
  /\ ~disk.replaced
  /\ link.pc = "down" =>
       /\ work.armed = {}
       /\ ~work.command
       /\ \A t \in Transfer : work.xfer[t].pc # "none" => work.xfer[t].aborted

\* While a connection stays open the relay comes to show the true number of
\* running jobs, also when nobody is told of a job's end and when counts fail in
\* between.  The last count must not be one that failed: without a poll nothing
\* repeats it.
CountConverges ==
  \A n \in 0..MaxJobs :
    <>[](link.pc = "open" /\ jobs.running = n) /\ []<>~report.missed => <>[](report.shown = n)
=============================================================================
