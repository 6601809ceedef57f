# Verification of the AICommander agent

TLA+ models of the agent of AICommander (`src/packages/agent`, with
`packages/priv-helper` and `packages/protocol`), TLC configurations that check
them, and TLAPS proofs about them. The agent keeps a WebSocket to a relay, runs
commands and detached jobs on request, transfers files, captures the screen, and
updates itself. Jobs outlive the connection, the caller and the agent process;
commands must not; privileged commands must not outlive what authorised them.

All source paths below are relative to `src/packages/agent/src/` unless they
start with `packages/`.

## 1. Inventory

| component | state | operations | what is hard | correct when | module |
|---|---|---|---|---|---|
| Job manager (`job-manager.ts`, `job-locks.ts`, `job-ops.ts`, `job-store.ts`) | on disk: record, exit marker, lock files, operation index; in memory: start windows, retiring jobs, kept locks and cards, settled/cancelled/signalled sets | start, status, list, logs, cancel, exit callback, recover, retention sweep | a start awaits between its record and its process; cancel, connection loss, retries, crashes and failing writes fall into that window | resources are exclusive and never leak; a key starts a job once; outcomes are true and final | `JobManager` |
| Job process (`job-process.ts`, `job-scope.ts`, `job-scripts.ts`, `proc-identity.ts`, `atomic-file.ts`) | process tree, systemd scope, scripts, probe | spawn, verify, signal, escalate, sweep | pids are reused; descendants leave the group; writes come late | nobody else is signalled; nothing of a scoped job is left | `JobTree` |
| job_ended settle and reporter (`job-ended-settle.ts`, `job-ended-reporter.ts`) | `endedUnacked` in the record; per connection: sent, owed, replay timer, flush | scan, start, poke, onSettled, ack, stop | lost events and acks, reconnects, restarts, a cap on what is replayed | every end of a webhook job is reported until acknowledged | `EventDelivery`, `JobEvents` |
| Job output (`job-output.ts`) | the log file and its cap | slices by offset and tail, list pages | the notice is appended while the job writes | a follower reads the file once | `JobOutput` |
| Connection (`connection.ts`, `app-heartbeat.ts`, `job-state-reporter.ts`) | socket, timers, transfers, job count | connect, register, dispatch, token change, teardown | messages arrive after the close; several causes end a connection | teardown is complete; the count converges | `Connection` |
| File transfer (`file-transfer.ts`) | transfers, part files | push, pull, abort, sweep | abort while writing | a stopped transfer replaces nothing | `Connection` |
| Session (`agent-controller.ts`, `session-store.ts`, `device.ts`, `register.ts`) | session file, rotate marker, device identity, register loops | start, stop, restart, changeCode, register, reauth | overlapping loops, late answers, partial saves, crashes | a replaced code never returns; the agent comes online | `Session` |
| Command execution (`connection-commands.ts`, `executor.ts`, `secure-executor.ts`, `login-shell-path.ts`) | the slot, the process, timers | exec, secure exec, kill, timeout, drain | kill, exit, deadline and disconnect in any order | one answer, the true one; nothing left behind | `CommandSlot` |
| Stderr of PowerShell (`powershell-clixml.ts`) | a decoder | push, flush | input is cut anywhere | nothing of the command is lost | `Clixml` |
| Windows launcher (`packages/agent/native/win-exec-launcher`) | two stages, two relay threads, pipes | handshake, relay, drain, report | survivors hold the pipes; the agent may not read | the exit code and the output are true; the call ends | `WinLauncher` |
| Elevated path (`elevated-*.ts`, `packages/priv-helper/src`) | advertised boot, local connections, leases, replay guard | probe, register, verify, run, release, drain | the helper restarts; verification awaits | only authorised commands run; none outlives its connection | `Elevated` |
| Watchdog (`packages/priv-helper/src/win-watchdog*.ts`) | backoff and flap counters per user, log throttle | tick: probe, decide, launch | partial probes, consent, installs, crash loops | trays come back, and never in a storm | `Watchdog` |
| Lifecycle (`supervisor.ts`, `run.ts`, `heartbeat.ts`, `live-agent.ts`, `self-update.ts`, `ctl/`) | processes, heartbeat file, update lock and backup | gate, respawn, stall watchdog, update, rollback, uninstall | every look at the processes is old when it is used | one agent serves; the machine comes back | `Service` |
| Screen capture (`screenshot.ts`) | display lists | list, select, capture | lists and pictures disagree | a label names the display shown | `Screenshot` |
| Diagnostics (`diag-log.ts`) | queue, live file, generations | diag, flush, rotate, exit | any file operation may be refused | the log is served, and never emptied as a whole | `DiagLog` |
| Doctor, GPU vendor tools, wire validation | none | – | parsing and I/O | – | – |

How they interact: the controller creates the manager (`getJobManager`, which
runs `recover()`) before the first connection and hands it to the connection
loop; a connection creates a manager lazily when the controller could not. Job
requests of a connection call the manager; a start carries the connection's
abort signal. The manager calls back when the number of running jobs changes and
when a webhook job settles; the reporters of the current connection listen. A
connection owns one command slot; the slot owns an executor, which on Windows
talks to the launcher and for elevated commands to the helper. The supervisor
restarts the worker in which all of this runs. Everything in one agent shares
one event loop; disk is shared with the processes and with the agent's next run.

`PROJECT.json` lists every component with its status, and under "hazards" each
place where this code can go wrong in a way tests hardly reach, with the
properties that would show it.

## 2. Plan

| order | modules | what | state |
|---|---|---|---|
| 1 | `JobManager`, `JobProperties`, `JobManagerProofs` | the life of a job on disk, in memory and as a process | checked, all safety proved |
| 2 | `EventDelivery`, `JobEvents`, `JobEventsProofs` | the promise of job_ended, and the reporter that implements it | checked, refinement proved |
| 3 | `CommandSlot`, `CommandSlotProofs`, `Clixml`; `Elevated`, `ElevatedProofs` | commands, sandboxed and elevated | checked, safety of both proved |
| 4 | `Session`, `SessionProofs`; `Connection`, `DiagLog`, `Screenshot`, `ConnectionProofs` | the code and its token; one connection after another, the agent's own log, the labels of pictures | checked, safety proved |
| 5 | `Watchdog`, `Service`, `SupervisionProofs` | what keeps trays and agents running | checked, safety proved |
| 6 | `JobTree`, `WinLauncher`, `JobOutput`, `ProcessProofs` | processes that outlive the call that started them, and what they wrote | checked, safety proved |

Left of the plan: an abstract table of locks (`ResourceLocks`: a holder per resource, taken at once, given back at once) that `JobManager` would implement, for which
`LockInv` has what is needed; the safety half of `Online` (what a run that is not online is waiting for), as `NobodyIsForgotten`, `LeftoversAreDue`, `CutOffIsKilled` and `WrongCountIsDue`
are for other liveness properties; and the honesty of the labels of `Screenshot` on the platforms that are only enumerated.

## 3. The modules

### JobManager

One job is one directory. Its state on disk is `meta` (the record: status, pid
written or not, the `retiring` flag, a durable cancel request, the reason),
`marker` (the create-only exit marker), `lock` (which job each lock or card file
names; `Garbage` is a file created and not yet written) and `opIndex` (the
operation index). Names of the remaining variables are the fields of the class.
What a job is called, what it prints, and when exactly it ended are left out.

`pc` is where the `start()` of a job is:

    idle -> claimed -> dirs -> parked -> spawned -> pid -> answered
              |         |        |  \         \       \
              +---------+--> abandon +-> erasing -------+-> retired

`start()` is synchronous up to its `await` (`parked`) and again from the moment
its process is up. `loop` names the start that owns the event loop in those
stretches: nothing else of the agent runs, but the agent can die between any two
disk writes, and the operating system goes on. Between `spawned` and the resume of
the start, one callback can still run (a cancel or the loss of the connection that
was already queued), so `CancelStarting` and `ConnLost` are enabled there. All
other handlers have no `await` and are one action each. A handler that refreshes
many records (list, the running count, recover) takes the set of pids proven gone
(`gone`) and the outcome of its record writes (`ok`) as inputs.

| actions | code |
|---|---|
| `StartAdmitted`, `StartRefused`, `MakeDirs`, `TakeResource`, `AbandonStart`, `WriteRecord` | `start` up to its await, `existingOperation`, `countRunningJobs`, `acquireNamedLocks`, `acquireGpuLock` |
| `StartCancelledUnspawned`, `StartGivenUp`, `FinishErasing` | the catch of `spawnJob` |
| `Spawn`, `KillCancelledSpawn`, `RetireLost`, `WritePid`, `RetireUnrecorded`, `StartSucceeds` | the rest of `start` |
| `CancelStarting`, `CancelRunning` | `cancel`, `signalJob` |
| `RefreshOne`, `List`, `StatusByKey`, `WebhookPoll` | the readers, which settle what they find over |
| `ExitPlain`, `ExitRetired`, `ExitDying` | the exit listeners of a child |
| `Recover`, `RecoverSkipped`, `StorePoll` | `getJobManager`/`recover`, and the scan without a manager |
| `Crash`, `CrashIn...` | the agent dies, at a quiet moment or between two writes of one handler |
| `CommandEnds`, `ProcExits`, `ProcKilled`, `ConnLost` | processes and the connection |

Abstractions to know about. A pid is never reused, so `verifyJobProcess` errs only
towards "not gone" (`gone` is any subset of the processes that are gone). Retention
is days: the sweep may remove any ended record at any time, except in the seconds
during which its start or the kill of its process is still going on. `meta.pid`
covers the pid and its identity. A record the agent may not read (EACCES) does not
occur. `ok` is one choice per handler, not per write. A removal of a job's directory whose failure the code swallows
(`RemoveJobDir`, `job-store.ts:170` and `:184`) may leave record and marker, where a start is undone and where a retired one
ends; in a settle the marker goes in any case. A start that has been undone is `retired`, as its caller was told that it failed.
The removals of the retention sweep and of `recover` succeed, see section 7.

### JobEvents and EventDelivery

`EventDelivery` is the promise per webhook job: its end becomes *owed* when its
record turns terminal and stays so until the relay has it, unless the record
expires or `JOB_ENDED_REPLAY_MAX` ends at least as recent are known or owed as well
(*dropped*); a start that was undone never has an end. `JobEvents` models how that is
kept: the flag on disk, the scan, the per-connection reporter (sent, owed, pending,
replay timer, flush), the wire, an unreliable relay, lost connections and restarts.
Jobs are outlined: a start window, a process, and evidence of an end, as far as the
scan can tell them apart; `JobManager` has the detail. `Event` maps its state to
`EventDelivery`; `DeliveryPromise` is the abstract specification, checked as a
property. The webhook id of a job is the job id. Which of `cycle()`'s callers ran
is four actions: `Open` (the reporter's start), `FlushFires`, `Poke`, `TimerFires`.

### CommandSlot and Clixml

A command lives twice: as the slot's record `cmd` (what the relay is told) and as the
executor's record `proc` (which owns the process); callbacks tie the two.

| actions | code |
|---|---|
| `Busy`, `Refuse`, `Exec`, `SecureExec`, `Kill` | the frames of the relay, `beginCommand` |
| `ProbeSettles`, `StartDeferred`, `SpawnFails` | the start that waits for the login-shell probe (macOS) |
| `Drop` | the sandboxed child changes its user; `EditAccounts` may change the accounts between check and drop |
| `Output`, `LauncherAnswers`, `LauncherTimeout` | pipes and handshake of the Windows launcher |
| `Exit`, `DrainCheck`, `SurvivorEnds`, `Close` | exit, the bounded reading on after it, close |
| `CommandTimeout`, `Escalate`, `IdleNotice` | timers |
| `Abort`, `Settle`, `Closed` | the end of the connection |

`Clixml` is the decoder as a function of its state and a piece of input. A text is a
sequence of symbols, not characters, cut anywhere between symbols. What comes out does
not depend on the cuts only as long as the decoder holds less than its cap. The code
forwards the opening tag when raw text precedes the first record although `</Objs>` is
dropped, and an `<Obj>` that is never closed holds back all later stderr until the cap or
the end; both are in the model. Its operators are RECURSIVE, so there is no proof.
The hazard (`powershell-clixml.ts:371`: a chunk cut, a lost word) is covered by the
assumptions of `ClixmlChecks`, which TLC evaluates in run `commands`.

### Elevated

Both ends: the agent's reconcile (`ReconcileStart`, `Probe`, `ReconcileDecide`, with
the epoch as `stale`), `Connect`, kills and disconnects; the helper's `ExecFrame`,
`KillFrame`, `HandleExec` after the awaited verification, `ConnClosed`, the executor's
`CommandFails`, `Escalate`, `ProcessEnds`, and `Stop`, `DrainEnds`, `HelperCrash`,
`HelperStart`. `cap` is the boot one capability is bound to; the relay mints one, so
every second use of it is a replay. Signatures hold; expiry is a choice.

### Session

A loop is one run of `_runLoop`; `stop()` only aborts it, so its register may be answered
after the next loop's. `disk`, `relay`, `loop` and `ctl` are the files, the relay's record, each run
and the run that is not aborted. Assumptions: the relay evicts the record only while the
agent is off and nothing is in flight; clearing the session and writing the marker or the device
succeed; there is one configuration directory. `MaxStarts` bounds the runs.
`TokenLost` names a state the code does not leave: a reauth whose reply or strict save is lost
(or the late register of a superseded loop) ends the token the agent holds, and nothing registers again when the
ticket is answered 401, although the comment at `connection.ts:180` has the loop in mind;
`Online` excludes it. Two more consequences are visible in the model: a late forced register of an
aborted loop may replace a code after a newer loop stored the old one; and the rotate
marker is consumed before the register that uses it (`agent-controller.ts:183`), so a crash in between loses the order.

### Connection

`link` is the socket (`down`, `connecting`, `open`, `closing`, `cut`), `work` everything a connection arms or
starts, `report` the job count. A settled socket still delivers messages until its
close event: the guards of the handlers decide what they may still start, and teardown
happens twice (`Settled`, `Stopped`). Transfers run detached and wind up on a later
connection. Assumption: the next connection begins after the old socket's close. A count may fail (`CannotCount`): nothing
is sent, a poll goes on, a debounce is not repeated; `report.missed` says that the last one failed, and `CountConverges` is about
connections on which it does not stay so. Commands and transfers that arrive between `Disable`
and the close do run until the close (comment at `connection.ts:802`). The
lengths of the reconnect delays are left out.

### Watchdog

Time is counted in ticks of the watchdog. A tick reads tray owners first and sessions and the
installation later, and triggers after that, while users, trays and installers go on. `mem` is
the entry per user (misses, attempts, flaps, the ticks still to wait, healthy ticks), `log` the
throttle. A probe may fail or miss users (`Decide` takes the set it delivered). A number of attempts beyond `Worst` is counted as
`Worst`: a bound, and without loss since the delay has reached the ceiling by then (`WorstAssumption`).

### Service

Supervisor and worker of the unit and of an agent somebody started by hand, the gate that both pass, the
heartbeat stamp, systemd as the unit file configures it, the update with its readings of MainPID and its way
back, and uninstall. Assumptions: no update during an uninstall and no start by hand after the uninstall's look at the
processes; no `--force`; a supervisor that cannot run ends within `STABILITY_MS`; a worker stamps within
`WATCHDOG_STALL_MS`; hand-run agents end some day. The installer is external: it may be cut short, fail, end well without replacing anything, or
leave a version that gives no answer to `--version`. `ComesBack` names what the code
does not recover from: a worker that hangs before its first stamp (`supervisor.ts:121`); a version that does not
run when its update was cut short by a reboot or its rollback threw; and one whose verdict was fooled by a restart
of others between the reading of MainPID and the swap (`self-update.ts:236`). Observed and not claimed as defects: MainPID is
the supervisor's, so a new version whose worker crash-loops is accepted; removing the RuntimeDirectory removes the
heartbeat of a hand-run agent; the supervisor's timers are unref'd. The length of the backoff, the `--version` process and the
change-code marker are left out.

### JobTree

One job's leader, members of its group and descendants away from it, the scope, the record as far as it decides
about processes, the scripts with their deadline (`io`, `dir`, `wipe`) and the process that gets a freed number
(`stranger`), on three kinds of `host`. Verification and signal are one step; `systemctl kill` is atomic; the pair of Windows
scripts is one file. Known limits of the code, in the model and excluded by the properties' words: without a scope, a member of the group that
ignores SIGTERM survives a cancel, because the escalation finds the leader gone (`job-manager.ts:689`); an escalation is lost with a restart;
a crash between spawn and record leaves a scope nobody knows; discarding a retired start after a restart erases its record without killing
its scope; a directory may stay, empty, when all retries of its removal fail.

### WinLauncher

Stage 1, stage 2 and one relay thread per stream as program counters; `pipe`, `held`, `delivered` are what a
stream's writes went through. The 25 ms of silence may pass at any look at an empty pipe and the cap at any time after the exit, so
every schedule of the drain is covered. A relay inside a write that the agent does not read can outlast the wait; a command that prints the marker and exits with
the sentinel is misread, as the source acknowledges (`main.cpp:730`). A crash of stage 1, the kill of the tree and the
number of reaper slots are left out.

### Screenshot, JobOutput

Pure operators: from a list of displays and a request to the picture and its label; from a file, a cap and a request to a
slice. `ScreenshotChecks` and `JobOutputChecks` state what they should do over all small inputs as named assumptions, which TLC evaluates
in the runs `connection` and `processes`. `ScaledMayMislead` is a checked example of what the label theorem's
hypothesis excludes: with a list that does not tell the sizes of the pictures, a label can name the wrong display. In `JobOutput` the
notice is served only if the file was exactly at the cap when it was noticed. Each of the two reads of a slice may fail and is then
empty (`reads`, `job-output.ts:157`); `UnreadSaysNothing` states that such a slice claims no end of the file and moves no offset.

### DiagLog

`diag` (a line, or a drop when the queue is full), `flush`, the writes (`Rotate`, `AppendBatch`, `AppendFails`), the bounded rounds before an
exit, `NextProcess` and `Quarantine`. Every file operation of a rotation may be refused; a refused append may leave a part. A rotation is one
step. The queue may hold `MaxQueue + 1` lines (a confession of dropped lines is added to it), and the confession itself may be lost with the next failing write (comment at `diag-log.ts:517`).
If even truncation is refused the file is unbounded (comment at `diag-log.ts:80`).

## 4. What the runs check

| run | instance | shows |
|---|---|---|
| `job_writes` | 2 jobs, one key, one lock, one card, capacity 1: a keyed start with both and a plain one; every record write may fail; no crash | `ReportedOverIsOver`, `CapacityHeld`, `OutcomeFinal`, `WindowEndsOnlyByCancel` |
| `job_crash` | the same with capacity 2, the plain start wants the lock as well; writes succeed, one crash, fairness | `LockExclusion`, `NoLeakedResource`, `KeyAnswersForItsJob`, `AtMostOnce`, `CancelOutranksExit`, `StartsAnswer`, `WebhookJobSettles`, `CancelledStartLetsGo` |
| `job_events` | 2 jobs, replay cap 1, one lost connection, one crash, fairness | `DeliveryPromise` (refinement), `EndIsReported` |
| `job_events_lost` | 1 job whose terminal record may fail to be written, fairness | `ReplayedUntilAcked` is violated: section 6 |
| `commands` | 2 frames for one slot, three platforms, deadline 2 ticks, the drain as long | `TerminalIsLast`, `SandboxHolds`, `NoFalseTimeout`, `NoSignalAfterReap`, `NoLateStart`, `LinkEndKills`, `SlotReleased` |
| `elevated` | 2 connections, 1 capability, 2 boots, 2 endpoints, soft grace longer than the drain | `DrainReachesAll`, `AdvertisedNeverOlder`, `AdvertisesHelper`, `StartIsAuthorized`, `EndsWithItsConnection` |
| `elevated_orphan` | 1 command, a helper that is stopped, a tick of 50 ms | `NoOrphan` is violated: section 6 |
| `watchdog` | 1 user, ceiling 4 (so `Worst` 2), quiet stretch 3 | `NoRelaunchStorm`, `Recovers`, `LogRate` |
| `session` | 2 overlapping loops, 8 codes, failing saves, crashes | `ResetIsFinal`, `Online` |
| `connection` | 2 transfers, 2 jobs, any number of connections; or a log of 2 generations | `NothingOutlivesTheLink`, `CountConverges`; `EvidenceKept` |
| `service` | 2 mishaps, 1 command, 1 update, good or bad version | `ClearMeansAlone`, `ComesBack` |
| `processes` | 1 job per kind of host, 2 mishaps, 2 restarts; or one command under the launcher | `LateIsHarmless`, `NothingSurvives`; `AnswerIsTrue`, `CallSettles` |

`MCConnection` and `MCProcesses` check two systems that share nothing: a behaviour is one of the first or one of
the second, fixed from its first state, and the fairness of one half says nothing of the other.

Bounds. Two jobs are enough for every conflict the properties speak of: they are
all about a pair (two holders, two jobs of a key) or one job, and the second start
meets every state the first one can leave. A job id is drawn once, in increasing
order, which loses nothing: ids are random and never compared. `MaxConcurrent` 1 (or 2
where the limit must not hide conflicts), one key, one lock and one card make every
refusal and every hold reachable. One crash is enough because recovery leaves no
memory behind: a second crash starts from a disk state that the first leaves as well.
Two larger instances were explored once with the same result: crash and write failures
together (856 000 states) and three retries of one key (464 000 states).
In `JobEvents` two ends with a replay cap of 1 make the cap bite; the `endedAt` of the
two jobs differ and are in neither start nor settle order, as the marker, the log or the clock give them.
Times are a few ticks, in the order the code's constants have where a property depends on it: the drain is as long as the deadline,
so the clamp decides; the soft grace outlasts the helper's drain; backoffs of 2, 4 and 4 ticks reach the ceiling; a grace of 8 and a drain of 14 ticks are
400 and 700 ms. A second frame makes every refusal by the slot and every late callback of the first reachable; a second
connection to the helper is the second use of a capability; a second transfer winds up while the first one of the next connection runs. Users of the watchdog meet only in
the installation and in partial ticks, so one is enough. The log is followed up to five lines (`Disk`), two files and a half.

Deadlock is checked for the run `job_crash`, where a crash, a retry or a reader is always
possible. The other systems may stop: all jobs over and acknowledged, frames and starts used up, budgets spent; hence
`CHECK_DEADLOCK FALSE`.

Fairness. `JobManager`: a started `start()` goes on (promises resolve), Node delivers
exit events, the 30 s job-state timer runs the webhook scan whether or not a manager
exists, and a process that gets SIGKILL (the escalation timers of `cancel` and
`retireStartedProcess`) dies. Nothing is assumed of callers, connections, crashes or of
commands ending by themselves. `JobEvents`: the connect loop opens the next connection,
timers fire, exit events are delivered, frames on a connection that stays up arrive
and are handled, and a relay that is sent an event again and again records it some day
(strong fairness; it may ignore any finite number). `Open` and `TimerFires` are fair
with the 60 s start grace over: a record without a pid stops being young. The number
of lost connections and crashes is bounded, so they stop; without that no liveness can hold.
`CommandSlot`: the clock goes on, started calls come back, a process that was sent SIGKILL ends; not that a command ends. `Elevated`: the
reconcile runs every minute, sockets deliver, timers fire. `Watchdog`: the tick is re-armed, and among
infinitely many ticks some succeed, reach each user and launch (strong fairness: the start of the session loop is random). `Session`: neither the network nor
the disk fails for ever (strong fairness of the relay's answer and of a register saved well). `Connection`: the debounce and poll timers fire, and a poll
that goes on does not fail to count for ever.
`Service`: what processes, timers and systemd do by themselves, and an agent run by hand ends. `JobTree`: timers, exit
events and the agent's restart. `WinLauncher`: threads run and time passes.
Each justification stands above the `Fairness` of its module.

Every property has at least one mutant in `PROJECT.json`: a definition of the model changed
the way a plausible bug would change the code, under which the same run finds the property
violated.

## 5. What is proved

Every theorem holds for all values of the constants that satisfy the named assumptions
of its module (`JobAssumption`, `KeyAssumption`, ... in `JobManager`; `TimeAssumption` in `CommandSlot`; ...), so for any number of jobs, commands,
connections, loops, users, streams, failures and crashes. Every invariant and every action property that a passing run checks is
stated by a theorem; the runs show them, with the liveness properties, on small instances. The proofs have one pattern: an inductive invariant, what
it says record by record, a lemma that a step about one record leaves the others alone, one lemma per action or group of actions,
and the temporal theorem from the three facts. The invariants are

| invariant | property it is for | why the property alone is not inductive |
|---|---|---|
| `KeyInv`, `OutcomeInv`, `LockInv`, `PlaceInv` (`JobManagerProofs`) | all of `JobProperties` | see below |
| `Tied`, `DueInv` (`JobEventsProofs`) | `DeliveryPromise`, `SomethingIsDue` | see below |
| `SlotInv`, `OwnerInv` (`CommandSlotProofs`) | `TerminalIsLast`, `NobodyForgotten` and three action properties | the slot's record and the executor's must not drift apart |
| `ElevatedInv` (`ElevatedProofs`) | `DrainReachesAll`, `AdvertisedNeverOlder`, `StartIsAuthorized` | a process is the helper's only as long as its connection is of this boot |
| `SessionInv` (`SessionProofs`) | `ResetIsFinal` | a code may come back from the disk, a run, or an answer on its way |
| `LinkInv`, `CountInv`, `DiagInv` (`ConnectionProofs`) | `NothingOutlivesTheLink`, `CountIsDue`, `EvidenceKept` | the settled socket still delivers; sizes add up |
| `WatchInv`, `ServiceInv` (`SupervisionProofs`) | `NoRelaunchStorm`, `LogRate`, `ClearMeansAlone` | backoff and time since the last relaunch must be related |
| `NumberInv`, `FilesInv`, `LeftInv`, `LauncherInv` (`ProcessProofs`) | `LateIsHarmless`, `LeftoversDue`, `AnswerIsTrue` | who still has the number, and where each word of the command is |

`JobManagerProofs`, in four layers. *Types and keys.* `TypeCorrect`; `KeyAnswersAlways` and `StartedAtMostOnce` for `KeyAnswersForItsJob` and
`AtMostOnce`. Neither is inductive: whether a sweep, a recovery or a torn index may drop
a key depends on how far its start is. `KeyInv` adds, per job (`JobInv`): a start between
two writes owns the event loop; no start is on its way without a manager; before
the spawn there is no process; the exit marker means that the command has ended; there is no record before
the last write that precedes the `await`, and there is one while the start awaits; `retiring` is only on the record of a start
that failed and whose pid is on disk; a claimed key points at its claimant. A step that is
not about the start of a job is shown to be `Quiet` for it, and `QuietKeeps` does the
rest; the steps of the start itself and the crashes are done one by one. `AtMostOnce`
follows because one index file names one job.

*Outcomes.* `OutcomeIsFinal` and `OnlyCancelEndsAStart` are action properties,
`CancelBeatsExit` an invariant. `OutcomeInv` adds to `KeyInv` what a start window is: it is
open from the record to the answer unless its cancel has closed it, and as long as it is open
the record says running. `StepSound` shows for every step and every job that a terminal record is kept
or removed, that a record in its window is ended by its cancel only, and that
the addition is preserved.

*Locks.* `LocksExclude`, `OverIsOver` and `NothingLeaks`. `LockInv` adds to `OutcomeInv` that a start which may run a command (`Claims`) holds
every resource it asked for (`Held`): in its lock file; for a process that was cancelled during its spawn in `locksHeld` and `dyingCard` as well; and in the
one gap between that cancel and the kill by owning the event loop, in which nobody else can take the card (`HoldsCard`). The rest says that
a command that runs is known: its record is running and has a pid, or the manager holds its handle (`Known`); that the pid is written after the last look at the abort
flag (`PidInTime`); and that what is erased has given its locks back. `CalmKeeps` carries a job through the steps of others; what a settle, a sweep, a
recovery and an acquisition release or take are lemmas of their own.

*The limit.* `PlacesHold` for `CapacityHeld`. `PlaceInv` adds to `LockInv` that the starts being admitted and the jobs in play together are within the limit; that a settled job is not in play is what lets
the count that admission makes on disk stand for the processes.

`JobEventsProofs`. `EventsTypeCorrect`: `Spec => []TypeOK`, with the bound on what a connection
owes. `EventsDelivered`: `Spec => DeliveryPromise` when terminal records can be
written (`SettleWrites = {TRUE}`; section 6 shows why that is needed). The refinement mapping is `Event`; the
invariant it needs, `Tied`, says that only running records are in a window or on
their way out, that an event on the wire or known to the relay belongs to a record that has
ended, and that acknowledgements are of known events. Each action is a step of
`EventDelivery` or a stutter; the scan needs that what the cap leaves out is covered by at
least `ReplayMax` ends as recent (`NewestKeeps`). `NothingWaitsForNothing`:
`Spec => []SomethingIsDue`, also when record writes fail, from `DueInv`: windows and children belong to a manager; the
reporter of a live connection listens to the manager if there is one; only ended records carry the flag.

`CommandSlotProofs`. `OneTerminalFrame`, `DrainBeatsDeadline`, `ReapedIsLeftAlone`, `WaitingStartIsDropped` and `SandboxIsSafe`. `SlotInv` says, command by command, what the slot's record and
the executor's have to do with each other: a terminal frame was sent only with `cmd.sent`, after which no timer of the slot is armed; a process that is gone has settled its slot;
a waiting start has a kill callback or has been told; and while the exit of a `do:exec` has been seen, the drain's next look and its last one lie `Guard` before the deadline (`DrainPart`,
for any lengths of the two).

`NobodyIsForgotten` is the safety half of `LinkEndKills` and `SlotReleased`. `OwnerInv` adds to `SlotInv` that the handle that kills a command is there only as long as the command has the slot; that a process
signalled once has SIGKILL or a timer for it; and that whatever waits or runs can still be killed by its slot, or was. Hence: once the connection is closed, every start and every process of its commands has
its order to end; and the slot of a `do:exec` is never taken without a deadline, an error on its way, or a process that was told to end. The runs add that the order is carried out.

`ElevatedProofs`. `ElevatedIsInvariant` is `Spec => []ElevatedInv`; from it `DrainKills`, `AdvertisedIsMonotone` and `StartsAreAuthorized`. Per connection (`ConnOK`): a process of this boot took its one capability and is leased until it
ends; while the helper drains, and once the connection is gone, it is dead or due for SIGKILL within `HardGrace` (`Doomed`). The latter is `CutOffIsKilled`, the safety half of `EndsWithItsConnection`. And a probe that nothing has overtaken saw no boot older than the advertised one (`AdvertiseInv`).

`SessionProofs`. `SessionIsInvariant` and `ReplacedCodeIsGone`. `OutOfUse(c)` is what keeps a code from coming back: it is not on disk, not with the run in charge, and an aborted register
that still names it will be answered with another code or refused. It holds of a code that was replaced, and of the one to be replaced as long as the order to do so is on disk or with a run (`Pending`).
`RunsInv` says what an aborted run may still do, and how the new identity of a device follows the refusal of the old one. `CodesAssumption` (more codes than places for one) is the model's way to say
that the relay's codes are fresh; eight codes for two loops in the run are its least instance.

`ConnectionProofs`. `LinkLeavesNothing` from `LinkInv`: a socket that is down or cut has been settled, and whenever no message can arrive nothing is armed and every transfer has been told to stop.
`WrongCountIsDue` is the safety half of `CountConverges`: a relay that shows a wrong number of jobs is due for a report, unless the last count failed (`CountInv`: an open connection shows what it reported last,
listens to a manager it has called, and has a timer while jobs run).
`DiagTypeCorrect`, `QueueAlwaysServed` (a line in the queue has a timer, a write or an exit to take it) and
`EvidenceIsKept` (`DiagSpec => EvidenceKept`), for any sizes with `MaxQueue < MaxFile`: a full queue with its confession fits a file. (The code's
constants satisfy this for lines as they are; 500 lines of the longest form would not fit.) `DiagInv` adds to the types: a generation that exists is not empty, a write has a batch of at least one line and no more than the queue may
hold, and a rotation begins on a live file that is not empty. `InPlaceOutcome` and `ShiftedKeeps` say what the way out
without a rename and the shift of generations may leave.
`MacLabelIsHonest`: for every list of displays that tells the truth about its machine
(`Truthful`), every request and every picture, a macOS reply that states a display carries its pixels. `PrimaryIsMain` is the lemma about the order of the list.
Lists that have gone stale are outside it.

`SupervisionProofs`. `RelaunchesSlowDown` and `LogHasARate`. `WatchInv` relates what is left of a user's backoff, the ticks since its last relaunch and the relaunches since the last quiet stretch (`EntryOK`); the tick in progress counts once
(`Begun`), because time has passed for it and the backoff has not been reduced yet. The powers of two of the backoff are needed only as a value that grows up to the ceiling.
`LookMeansAlone` (`ServiceIsInvariant`): one agent serves at most; no update and uninstall at a time; and once an uninstall has removed the program, what still starts does not run.

`ProcessProofs`. `LateFindsNothing`: `NumberInv` says that a number has a new owner only when its process and group are gone and that the agent's own child still has its number; so a verified signal, an escalation of a retired start
and the signal of a failing start all reach the job or nothing. `FilesInv` says that, once a removal has listed the directory, only a write that is about to undo itself has anything in it.
`LeftoversAreDue` is the safety half of `NothingSurvives`: a manager that knows a job to be over has looked at it in this life of the agent (`LeftInv`), and whatever is left of a scoped job that is over
has an escalation, a call of `systemctl` or the sweep of a restart to follow it up.

`FollowerReadsTheFile`: a caller that asks from `nextOffsetBytes` on reads the file once and without a gap, whatever was
appended and wherever the cap fell, and gets further with every slice whose read succeeds. `CapKeepsWhatWasServed` is the lemma about the notice. A crash between the notice and
the record of it writes a second notice, which the theorem allows (the file only grows).
`LauncherIsTruthful`: `LauncherInv` follows the command's words of a stream through pipe, relay and agent (`Flow`), says what a relay that has stopped knows (`RelayInv`), and what each answer of
stage 1 means (`ExitAnswered`, `LossAnswered`, `ErrorAnswered`). Any number of streams, any exit codes.

Only model-checked. Liveness (fairness and ENABLED are out of the
prover's reach; of some the safety half is proved, see above): `StartsAnswer`, `WebhookJobSettles`, `CancelledStartLetsGo`, `EndIsReported`, `LinkEndKills`, `SlotReleased`, `AdvertisesHelper`, `EndsWithItsConnection`, `Recovers`, `Online`, `CountConverges`,
`ComesBack`, `NothingSurvives`, `CallSettles`. `Clixml`, whose operators are recursive. The screen capture of the other platforms (`BackendLabelled`, `NoSeam`) and the assumptions of
`JobOutputChecks` that the theorem does not cover: enumerations over small inputs.


## 6. Where code and documentation disagree

`ReplayedUntilAcked` (run `job_events_lost`). The header of `job-ended-reporter.ts` says the
event of a webhook job is replayed until the relay acknowledges it. `settle()` ignores the result of
`writeMeta` and counts the job as settled in any case. When the write fails, the record on
disk stays *running* without `endedUnacked`; the scan skips the job because it is in
`settledJobs`, so the event, sent once from the record in memory, is not sent again on this
or any later connection until a job request refreshes the record or the agent restarts.
If the relay misses that one frame the end goes unreported although nothing crashed. The other event
runs therefore let terminal writes succeed (`SettleWrites = {TRUE}`).

`NoOrphan` (run `elevated_orphan`). `packages/priv-helper/src/helper.ts:17` says that a SIGTERM-ignoring child is dead before the helper
exits: SIGKILL comes `HARD_KILL_GRACE_MS` (400 ms) after `killAll({ hard: true })`, and the drain lasts 700 ms. But
`killTree(hard)` clears a pending escalation and arms a new one of full length (`packages/priv-helper/src/executor.ts:331`), also when the pending one was hard. An agent that hangs up
300 to 400 ms into the drain (`releaseAll` with `hard`) moves SIGKILL past its end, the helper exits, and the privileged process stays. The run finds it with one command.

Smaller observations are in section 3 (`Session`, `Service`, `JobTree`); three about jobs are not claimed as disagreements: after a crash `list()` shows jobs that were
retiring (`job-manager.ts:593`), the cheap settle waits while another process has a job's pid (`job-ended-settle.ts:103`), and
`recover()` removes expired records before their ends are reported (`job-manager.ts:220`).

## 7. What is not modelled, and why

- Doctor: read-only diagnosis, one call, no concurrency. GPU vendor tools: I/O; the admission decision is in `JobManager`.
- Wire validation (`packages/protocol`): pure parsing; its limits are the constants of the models.
- Native screen capture, encoding and their time limits; redaction and formatting of diagnostics; which directory is used.
- The Windows update task, `--force`, the daily release check; `status` and the list of admins of the command line; Windows install scan.
- Device-admin calls and the fallback and inherited configuration directories of the headless agent.
- Script text, quoting, environment and shell plans: data without a state of their own.
- In `JobManager` process identities are abstracted to "the verdict may be inconclusive"; reuse of a number is in `JobTree`. Job events and
  `JobManager` abstract from scopes; `JobTree` from locks and keys.
- Failing file operations that are assumed to succeed: the removals of the retention sweep and of `recover` (an expired record that cannot be removed loses its
  index all the same, `job-manager.ts:236`, so a retry of its key, days later, starts again while the old record is still listed: `KeyAnswersForItsJob` and
  `AtMostOnce` are about directories that can be removed); the clearing of a session (`session-store.ts:230`); the launcher's write of a result
  (`main.cpp:1028`, `:1064`), after which the agent sees an end without an answer; the `stat` of a job's log (`job-output.ts:38`), whose failure would read as an empty log.
- Refusals that only refuse: a request id that differs from the signed one (`packages/priv-helper/src/helper.ts:234`), the handshake between an agent and a helper of different versions.
- Steps taken as one: the last look at the abort signal and the rename of a pushed file (`file-transfer.ts:554`), so a transfer aborted during the rename itself counts as ended before it;
  disabling the unit, removing it and removing the program, in an uninstall; the verification of a process and its signal (on Windows `taskkill` is started and not awaited);
  a spawn of the sandboxed child that fails at once and one that fails a moment later.
- One of a kind: of the six conditions whose logging the watchdog throttles, `log` is one (sessions skipped); the six share the mechanism and no state.
- Detached screen captures: they hold no state of the connection, and what they send goes to the socket they were asked on, which may be gone.
