----------------------------- MODULE MCProcesses -----------------------------
(* Processes that outlive the call that started them: a small instance of     *)
(* JobTree and one of WinLauncher.  They share nothing, so a behaviour is one *)
(* of a job, with no launcher, or one of the launcher, with no job.  TLC also *)
(* evaluates the checks of JobOutput.                                         *)
EXTENDS JobTree, JobOutputChecks, WinLauncher

NoLauncher == stage1 = "absent"

MCInit == Init /\ (Absent \/ (host = "windows" /\ LauncherInit))

MCNext ==
  \/ NoLauncher /\ Next /\ UNCHANGED launcherVars
  \/ ~NoLauncher /\ LauncherNext /\ UNCHANGED vars

\* Each half has its own fairness.
MCSpec ==
  /\ MCInit /\ [][MCNext]_<<vars, launcherVars>>
  /\ WF_vars(NoLauncher /\ Escalate) /\ WF_vars(NoLauncher /\ ScopeKilled)
  /\ WF_vars(NoLauncher /\ Sweeps) /\ WF_vars(NoLauncher /\ ExitEvent)
  /\ WF_vars(NoLauncher /\ AgentStarts) /\ WF_vars(NoLauncher /\ StartEnds)
  /\ LauncherFairness
=============================================================================
