----------------------------- MODULE WinLauncher -----------------------------
(***************************************************************************)
(* The native launcher that runs a command on Windows                       *)
(* (packages/agent/native/win-exec-launcher/main.cpp), between the agent    *)
(* and cmd.exe.  Stage 1 is the process the agent waits for.  Stage 2 owns  *)
(* the shell and its pipes: its main thread reports to stage 1 over a       *)
(* private channel, and one relay thread per stream copies the shell's      *)
(* output to the agent.  A process the command left running (the survivor)  *)
(* holds the streams for as long as it likes.                               *)
(*                                                                          *)
(* A stream is the sequence of the writes in its pipe, each by the command  *)
(* ("own", or "marker" when it is the launcher's own words) or by the       *)
(* survivor ("late").  The 25 ms of silence may pass at any look at an      *)
(* empty pipe, the 250 ms of the cap at any time after the shell's exit.    *)
(***************************************************************************)
EXTENDS Integers, Sequences

CONSTANTS
  Stream,    \* stdout and stderr
  Stderr,    \* the one stage 1 writes its notice to
  Code,      \* the exit codes of the shell
  Unknown    \* kUnknownOutcomeExitCode, which a command may return as well

ASSUME LauncherAssumption == Stderr \in Stream /\ Unknown \in Code

VARIABLES
  stage1,    \* absent (no launcher), reading, exited
  status,    \* what stage 1 exited with
  started,   \* stage 1 read kResultStarted
  stage2,    \* the main thread: setup, resumed, started, waiting, settling, reporting or
             \* unsettled, releasing, ending, reaping; or gone
  channel,   \* the records on their way to stage 1
  frame,     \* the handshake frames the agent got
  shell,     \* none, running, exited
  code,      \* the shell's exit code
  exited,    \* DrainClock.exited_
  capDue,    \* kExitDrainMaxMs have passed since
  relay,     \* gated, look, peek (at a pipe of a running shell), drain (of one that
             \* has exited), write, discard, gone
  held,      \* the chunk a relay is writing
  pipe,      \* what nobody has read yet
  written,   \* what the command itself wrote, ever
  delivered, \* what the agent got of it
  capped,    \* the relay stopped at the cap, or could not finish a write
  survivor,  \* none, alive
  open,      \* stage 2's ends of the agent's pipes
  agent      \* reads, stalled, gone

stageOne == <<stage1, status, started>>
command == <<shell, code, written, survivor>>
relays == <<exited, capDue, relay, held, delivered, capped>>
launcherVars == <<stage1, status, started, stage2, channel, frame, shell, code, exited, capDue,
          relay, held, pipe, written, delivered, capped, survivor, open, agent>>

\* What the survivor wrote comes last: it is alone when the shell is gone, and a pipe
\* holds one write of its.
Own(s) == IF s # << >> /\ s[Len(s)] = "late" THEN SubSeq(s, 1, Len(s) - 1) ELSE s

-----------------------------------------------------------------------------
(* Stage 1.                                                                 *)

\* It reads records until the exit, or until stage 2 is gone.  Only an exit
\* record is a status: what stage 2 itself exited with is not.
\* Mutant: the end of the channel falls back to stage 2's exit code.
StageOne_FallsBack ==
  /\ stage1 = "reading"
  /\ \/ /\ channel # << >> /\ channel' = Tail(channel)
        /\ IF Head(channel) = "started"
             THEN started' = TRUE /\ UNCHANGED <<stage1, status>>
             ELSE stage1' = "exited" /\ status' = code /\ UNCHANGED started
        /\ UNCHANGED <<frame, delivered>>
     \/ /\ channel = << >> /\ stage2 = "gone"
        /\ stage1' = "exited" /\ status' = 0
        /\ UNCHANGED <<started, channel, frame, delivered>>
  /\ UNCHANGED <<stage2, command, exited, capDue, relay, held, pipe, capped, open, agent>>
StageOne ==
  /\ stage1 = "reading"
  /\ \/ /\ channel # << >> /\ channel' = Tail(channel)
        /\ IF Head(channel) = "started"
             THEN started' = TRUE /\ UNCHANGED <<stage1, status>>
             ELSE stage1' = "exited" /\ status' = code /\ UNCHANGED started
        /\ UNCHANGED <<frame, delivered>>
     \/ /\ channel = << >> /\ stage2 = "gone"
        /\ stage1' = "exited"
        /\ IF started
             THEN /\ agent # "stalled" /\ status' = Unknown
                  /\ delivered' = [delivered EXCEPT ![Stderr] = Append(@, "notice")]
                  /\ UNCHANGED frame
             ELSE /\ status' = 1 /\ frame' = Append(frame, "error")
                  /\ UNCHANGED delivered
        /\ UNCHANGED <<started, channel>>
  /\ UNCHANGED <<stage2, command, exited, capDue, relay, held, pipe, capped, open, agent>>

-----------------------------------------------------------------------------
(* Stage 2, main thread.                                                    *)

Main(from, to) == stage2 = from /\ stage2' = to

\* With the process go its ends of the pipes and both relays, a write they are
\* in the middle of included.
Ends ==
  /\ stage2' = "gone"
  /\ relay' = [s \in Stream |-> "gone"]
  /\ held' = [s \in Stream |-> << >>] /\ pipe' = held'
  /\ exited' = FALSE /\ capDue' = FALSE
  /\ capped' = [s \in Stream |-> capped[s] \/ held[s] # << >>]
  /\ open' = FALSE

\* A request that is not valid, a console that cannot be made, a pipe, a
\* thread or a shell that cannot be created or resumed: one error frame.
SetupFails ==
  /\ stage2 = "setup" /\ Ends
  /\ frame' = Append(frame, "error")
  /\ UNCHANGED <<stageOne, channel, command, delivered, agent>>

\* Both relays wait behind the gate when the shell is resumed.
ResumeShell ==
  /\ Main("setup", "resumed")
  /\ shell' = "running"
  /\ UNCHANGED <<stageOne, channel, frame, code, written, survivor, relays, pipe, open, agent>>

ReportStarted ==
  /\ Main("resumed", "started")
  /\ channel' = Append(channel, "started")
  /\ UNCHANGED <<stageOne, frame, command, relays, pipe, open, agent>>

\* The handshake, the first bytes in the agent's pipe, opens the gate.  Nobody
\* to tell means nobody to run the command for.
Ready ==
  /\ stage2 = "started"
  /\ \/ /\ agent # "gone" /\ stage2' = "waiting"
        /\ frame' = Append(frame, "ready")
        /\ relay' = [s \in Stream |-> "look"]
        /\ UNCHANGED <<shell, exited, capDue, held, pipe, capped, open>>
     \/ /\ agent = "gone" /\ Ends
        /\ shell' = "exited"
        /\ UNCHANGED frame
  /\ UNCHANGED <<stageOne, channel, code, written, survivor, delivered, agent>>

\* The shell's exit, not the end of its pipes, settles the call.
ShellEnded ==
  /\ Main("waiting", "settling") /\ shell = "exited"
  /\ exited' = TRUE
  /\ UNCHANGED <<stageOne, channel, frame, command, capDue, relay, held, pipe, delivered,
                 capped, open, agent>>

\* Both relays have stopped; or the wait for them ran out, which takes a write
\* to an agent that does not read: anything else ends within the cap.
\* Mutant: a relay has stopped when its pipe is at its end.
Stopped_AtEnd(s) == relay[s] = "gone"
Stopped(s) == relay[s] \in {"discard", "gone"}
RelaysSettled ==
  /\ stage2 = "settling"
  /\ \/ (\A s \in Stream : Stopped(s)) /\ stage2' = "reporting"
     \/ /\ capDue /\ \A s \in Stream : Stopped(s) \/ relay[s] = "write"
        /\ stage2' = "unsettled"
  /\ UNCHANGED <<stageOne, channel, frame, command, relays, pipe, open, agent>>

\* The exit record, and then the agent's pipes, unless a relay may be inside a
\* write to them.
\* Mutant: they are closed in any case.
ReportExit_Closes ==
  /\ stage2 \in {"reporting", "unsettled"} /\ stage2' = "releasing"
  /\ channel' = Append(channel, "exit")
  /\ UNCHANGED <<stageOne, frame, command, relays, pipe, open, agent>>
ReportExit ==
  /\ stage2 \in {"reporting", "unsettled"}
  /\ stage2' = IF stage2 = "reporting" THEN "releasing" ELSE "ending"
  /\ channel' = Append(channel, "exit")
  /\ UNCHANGED <<stageOne, frame, command, relays, pipe, open, agent>>
Release ==
  /\ Main("releasing", "ending")
  /\ open' = FALSE
  /\ UNCHANGED <<stageOne, channel, frame, command, relays, pipe, agent>>

\* With a survivor and one of the reaper slots of the session, stage 2 stays to
\* read and drop, until the streams end or kReaperMaxLifetimeMs are over.
Reap ==
  /\ stage2 = "ending"
  /\ \/ Ends
     \/ /\ \E s \in Stream : relay[s] # "gone"
        /\ stage2' = "reaping"
        /\ UNCHANGED <<relays, pipe, open>>
  /\ UNCHANGED <<stageOne, channel, frame, command, delivered, agent>>
ReapingEnds ==
  /\ stage2 = "reaping" /\ Ends
  /\ UNCHANGED <<stageOne, channel, frame, command, delivered, agent>>

\* Stage 2 crashes, or the installer kills it.
Vanishes ==
  /\ stage2 # "gone" /\ Ends
  /\ UNCHANGED <<stageOne, channel, frame, command, delivered, agent>>

-----------------------------------------------------------------------------
(* Stage 2, the relay of stream s.                                          *)

At(s, from) == stage2 # "gone" /\ relay[s] \in from
Move(s, to) == relay' = [relay EXCEPT ![s] = to]

\* Somebody else holds the other end of the pipe.
HasWriter == shell = "running" \/ survivor = "alive"

\* The top of the loop: is the shell gone, and for how long?
Look(s) ==
  /\ At(s, {"look"})
  /\ Move(s, IF ~exited THEN "peek" ELSE IF capDue THEN "discard" ELSE "drain")
  /\ capped' = [capped EXCEPT ![s] = @ \/ (exited /\ capDue)]
  /\ UNCHANGED <<stageOne, stage2, channel, frame, command, exited, capDue, held, pipe,
                 delivered, open, agent>>

\* What is in the pipe is read.  Nothing in it is the end when nobody writes
\* any more; after the shell's exit it may be silence; else it is another look.
\* Mutant: the silence is that of a look made before.
Peek_Stale(s) ==
  /\ At(s, {"peek", "drain"})
  /\ \/ /\ pipe[s] # << >>
        /\ held' = [held EXCEPT ![s] = pipe[s]] /\ pipe' = [pipe EXCEPT ![s] = << >>]
        /\ Move(s, "write")
     \/ /\ pipe[s] = << >> \/ exited
        /\ \/ ~HasWriter /\ Move(s, "gone")
           \/ HasWriter /\ Move(s, "look")
           \/ exited /\ Move(s, "discard")
        /\ UNCHANGED <<held, pipe>>
  /\ UNCHANGED <<stageOne, stage2, channel, frame, command, exited, capDue, delivered,
                 capped, open, agent>>
Peek(s) ==
  /\ At(s, {"peek", "drain"})
  /\ \/ /\ pipe[s] # << >>
        /\ held' = [held EXCEPT ![s] = pipe[s]] /\ pipe' = [pipe EXCEPT ![s] = << >>]
        /\ Move(s, "write")
     \/ /\ pipe[s] = << >>
        /\ \/ ~HasWriter /\ Move(s, "gone")
           \/ HasWriter /\ Move(s, "look")
           \/ HasWriter /\ relay[s] = "drain" /\ Move(s, "discard")
        /\ UNCHANGED <<held, pipe>>
  /\ UNCHANGED <<stageOne, stage2, channel, frame, command, exited, capDue, delivered,
                 capped, open, agent>>

\* A whole chunk, or none of it when the agent is gone.
Write(s) ==
  /\ At(s, {"write"}) /\ agent # "stalled"
  /\ held' = [held EXCEPT ![s] = << >>]
  /\ \/ /\ agent = "reads" /\ Move(s, "look")
        /\ delivered' = [delivered EXCEPT ![s] = @ \o Own(held[s])]
        /\ UNCHANGED capped
     \/ /\ agent = "gone" /\ Move(s, "discard")
        /\ capped' = [capped EXCEPT ![s] = TRUE]
        /\ UNCHANGED delivered
  /\ UNCHANGED <<stageOne, stage2, channel, frame, command, exited, capDue, pipe, open,
                 agent>>

\* Reading goes on so that the survivor neither blocks nor breaks.
Discard(s) ==
  /\ At(s, {"discard"})
  /\ \/ /\ pipe[s] # << >> /\ pipe' = [pipe EXCEPT ![s] = << >>] /\ UNCHANGED relay
     \/ /\ pipe[s] = << >> /\ ~HasWriter /\ Move(s, "gone") /\ UNCHANGED pipe
  /\ UNCHANGED <<stageOne, stage2, channel, frame, command, exited, capDue, held,
                 delivered, capped, open, agent>>

-----------------------------------------------------------------------------
(* The command, time and the others.                                        *)

\* The command's writes: at most one to each stream, and what it has to say on
\* stderr happens to begin like the notice.
CommandWrites(s) ==
  /\ shell = "running" /\ written[s] = << >>
  /\ LET b == IF s = Stderr THEN "marker" ELSE "own"
     IN  /\ written' = [written EXCEPT ![s] = Append(@, b)]
         /\ pipe' = [pipe EXCEPT ![s] = IF stage2 = "gone" THEN @ ELSE Append(@, b)]
  /\ UNCHANGED <<stageOne, stage2, channel, frame, shell, code, survivor, relays, open, agent>>

\* It leaves a process behind, or none.
ShellExits ==
  /\ shell = "running"
  /\ shell' = "exited" /\ code' \in Code
  /\ survivor' \in {"none", "alive"}
  /\ UNCHANGED <<stageOne, stage2, channel, frame, written, relays, pipe, open, agent>>

\* The survivor writes for ever (a pipe holds one write of its), or ends.
Survives(s) ==
  /\ survivor = "alive"
  /\ \/ /\ stage2 # "gone" /\ \A i \in DOMAIN pipe[s] : pipe[s][i] # "late"
        /\ pipe' = [pipe EXCEPT ![s] = Append(@, "late")] /\ UNCHANGED survivor
     \/ survivor' = "none" /\ UNCHANGED pipe
  /\ UNCHANGED <<stageOne, stage2, channel, frame, shell, code, written, relays, open, agent>>

TimePasses ==
  /\ exited /\ ~capDue /\ capDue' = TRUE
  /\ UNCHANGED <<stageOne, stage2, channel, frame, command, exited, relay, held, pipe,
                 delivered, capped, open, agent>>

\* The agent stops reading, for a while, or ends.
Agent ==
  /\ agent # "gone" /\ agent' \in {"reads", "stalled", "gone"} \ {agent}
  /\ UNCHANGED <<stageOne, stage2, channel, frame, command, relays, pipe, open>>

-----------------------------------------------------------------------------
Absent ==
  /\ stage1 = "absent" /\ status = 0 /\ started = FALSE
  /\ stage2 = "gone" /\ channel = << >> /\ frame = << >>
  /\ shell = "none" /\ code = 0 /\ exited = FALSE /\ capDue = FALSE
  /\ relay = [s \in Stream |-> "gone"]
  /\ held = [s \in Stream |-> << >>] /\ pipe = held /\ written = held /\ delivered = held
  /\ capped = [s \in Stream |-> FALSE] /\ survivor = "none" /\ open = FALSE /\ agent = "reads"

\* Stage 1 fails before there is a stage 2, or reads its channel.
LauncherInit ==
  /\ stage1 = "reading" /\ status = 0 /\ started = FALSE
  /\ stage2 \in {"setup", "gone"} /\ channel = << >> /\ frame = << >>
  /\ shell = "none" /\ code = 0 /\ exited = FALSE /\ capDue = FALSE
  /\ relay = [s \in Stream |-> IF stage2 = "gone" THEN "gone" ELSE "gated"]
  /\ held = [s \in Stream |-> << >>] /\ pipe = held /\ written = held /\ delivered = held
  /\ capped = [s \in Stream |-> FALSE] /\ survivor = "none" /\ open = (stage2 = "setup")
  /\ agent = "reads"

MainThread ==
  \/ SetupFails \/ ResumeShell \/ ReportStarted \/ Ready \/ ShellEnded
  \/ RelaysSettled \/ ReportExit \/ Release \/ Reap \/ ReapingEnds
Relay(s) == Look(s) \/ Peek(s) \/ Write(s) \/ Discard(s)

LauncherNext ==
  \/ StageOne \/ MainThread \/ Vanishes \/ TimePasses \/ ShellExits \/ Agent
  \/ \E s \in Stream : Relay(s) \/ CommandWrites(s) \/ Survives(s)

LauncherSpec == LauncherInit /\ [][LauncherNext]_launcherVars

\* Threads run and time passes.
LauncherFairness ==
  /\ WF_launcherVars(StageOne) /\ WF_launcherVars(MainThread) /\ WF_launcherVars(TimePasses)
  /\ \A s \in Stream : WF_launcherVars(Relay(s))
LauncherFairSpec == LauncherSpec /\ LauncherFairness

-----------------------------------------------------------------------------
\* What the agent makes of it (executor.ts): no ready frame first, or the two
\* halves of the unknown-outcome signal, is an error.
\* Mutant: the status alone tells.
Answer_ByStatus ==
  IF stage1 # "exited" THEN "pending"
  ELSE IF frame = << >> \/ frame[1] # "ready" THEN "error"
  ELSE IF status = Unknown THEN "unknown"
  ELSE "result"
Answer ==
  IF stage1 # "exited" THEN "pending"
  ELSE IF frame = << >> \/ frame[1] # "ready" THEN "error"
  ELSE IF status = Unknown /\ \E i \in DOMAIN delivered[Stderr] : delivered[Stderr][i] \in {"notice", "marker"}
    THEN "unknown"
  ELSE "result"

\* A result is the exit code of a shell that has exited, with everything the
\* command wrote unless a relay ran into the cap or an agent that does not
\* read; an unknown outcome is one nobody reported, or a command that imitates
\* both halves of the signal.  No byte of the command precedes the handshake,
\* and no relay writes to a pipe that was released.
AnswerIsTrue ==
  /\ Answer = "result" =>
       /\ shell = "exited" /\ status = code
       /\ \A s \in Stream : capped[s] \/ held[s] # << >> \/ delivered[s] = written[s]
  /\ Answer = "unknown" =>
       \/ stage2 = "gone" /\ started
       \/ code = Unknown /\ written[Stderr] = <<"marker">>
  /\ (\E s \in Stream : delivered[s] \notin {<< >>, <<"notice">>}) => frame = <<"ready">>
  /\ \A s \in Stream : relay[s] = "write" => open

\* The shell's exit settles the call whatever the command left behind and
\* whether or not the agent reads, and stage 2 does not stay for ever.
CallSettles ==
  /\ shell = "exited" ~> stage1 = "exited" \/ (stage2 = "gone" /\ agent = "stalled")
  /\ stage1 = "exited" ~> stage2 = "gone"
=============================================================================
