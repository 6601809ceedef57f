-------------------------------- MODULE Session --------------------------------
(***************************************************************************)
(* The desktop agent's session: agent-controller.ts with session-store.ts,    *)
(* device.ts, register.ts and the reauth of connection.ts's loop.             *)
(*                                                                          *)
(* A loop is one run of _runLoop.  stop() only aborts it: a register that has *)
(* been sent is answered later, perhaps after the next loop's.  The relay     *)
(* keeps one code and one valid token for the device: held says that the run  *)
(* that is not aborted has it.  A connection is up or not.                    *)
(***************************************************************************)
EXTENDS Integers, FiniteSets

CONSTANTS
  Loop,         \* places for runs of _runLoop; a place is used again
  Code,         \* session codes
  None,
  SaveOutcomes, \* what a write of the credentials may do
  MaxStarts     \* bound: how often the user starts the agent or changes the code

ASSUME NoneAssumption == None \notin Loop /\ None \notin Code
ASSUME StartsAssumption == MaxStarts \in Nat
ASSUME SaveAssumption == SaveOutcomes \subseteq {"ok", "swallowed", "throws"}
\* More codes than places that may hold one: the relay never runs out of new ones.
ASSUME CodesAssumption ==
  /\ IsFiniteSet(Loop) /\ IsFiniteSet(Code)
  /\ Cardinality(Code) > 2 * Cardinality(Loop) + 3

VARIABLES
  disk,    \* session.json, session.token, the rotate marker and device.json
  relay,   \* the relay's record of the device
  loop,    \* the runs of _runLoop
  ctl,     \* abortController: the run that is not aborted
  history  \* for the properties: the code that is to be replaced, one that was; a bound

vars == <<disk, relay, loop, ctl, history>>

Over == [pc |-> "over", force |-> FALSE, cur |-> None, code |-> None, dev |-> 1,
         reset |-> FALSE, re |-> FALSE, up |-> FALSE]

-----------------------------------------------------------------------------
(* Stored state.                                                            *)

\* A directory before any order to change its code: a valid session, or none.
Stored(code) == [code |-> code, marker |-> FALSE, device |-> 1]

\* loadSession: session.json with its token file; one of them alone is no session.
Loaded(d) == d.code

\* What saveSession may leave behind.  A write fails with an exception, or
\* without one when storage is not strict; perhaps between its two files, and
\* then an earlier token makes the new code a session.
Saved(code, how) ==
  IF how = "ok" THEN {[disk EXCEPT !.code = code]}
  ELSE {disk, [disk EXCEPT !.code = IF @ = None THEN None ELSE code]}

Cleared(d) == [d EXCEPT !.code = None]

\* The rotate marker; it counts also when it cannot be removed.
Marked(d) == [d EXCEPT !.marker = TRUE]
Consumed(d) == {[d EXCEPT !.marker = stays] : stays \in {FALSE, d.marker}}

\* regenerateDevice().
NewDevice(d) == [d EXCEPT !.device = 2]

-----------------------------------------------------------------------------
(* register().                                                              *)

\* The loop l sends its register: the stored code, or the demand for a new one.
Asking(l, r, stored) ==
  [r EXCEPT !.pc = "asked", !.re = FALSE, !.up = FALSE, !.cur = IF r.force THEN None ELSE stored]

Fresh ==
  CHOOSE c \in Code :
    /\ c \notin {relay.code, disk.code, history.old}
    /\ \A l \in Loop : c \notin {loop[l].code, loop[l].cur}

\* The relay restores the code it is told when it has lost its record, and
\* issues a token that ends every earlier one.  A code that is out of use
\* everywhere stands for a new one.
RelayHandles(l) ==
  LET r == loop[l]
      code == IF r.force THEN Fresh
              ELSE IF relay.code # None THEN relay.code
              ELSE IF r.cur # None THEN r.cur ELSE Fresh
  IN /\ r.pc = "asked"
     /\ IF relay.refused /\ r.dev = 1
        THEN /\ loop' = [loop EXCEPT ![l].pc = "refused", ![l].cur = None]
             /\ UNCHANGED <<relay, history>>
        ELSE /\ loop' = [loop EXCEPT ![l].pc = "answered", ![l].cur = code]
             /\ relay' = [relay EXCEPT !.code = code, !.held = l = ctl]
             /\ history' = [history EXCEPT !.gone = IF code = @ /\ code \notin {relay.code, r.cur} THEN None ELSE @]
     /\ UNCHANGED <<disk, ctl>>

\* No answer, an error of the relay, or an answer that gets lost.
RegisterFails(l) ==
  /\ loop[l].pc \in {"asked", "answered"}
  /\ loop' = [loop EXCEPT ![l].pc = "failed", ![l].cur = None]
  /\ relay' = [relay EXCEPT !.held = @ /\ ~(l = ctl /\ loop[l].pc = "answered")]
  /\ UNCHANGED <<disk, ctl, history>>

-----------------------------------------------------------------------------
(* _runLoop.                                                                *)

\* Mutant: the loop does not look whether it was aborted while it waited.
Superseded_Unchecked(l) == FALSE
Superseded(l) == ctl # l

\* After the abort the loop ends with what it was waiting for, and its answer
\* is dropped.
LateAnswer(l) ==
  /\ loop[l].pc \in {"answered", "refused", "failed"} /\ Superseded(l)
  /\ loop' = [loop EXCEPT ![l] = Over]
  /\ UNCHANGED <<disk, relay, ctl, history>>

\* register() has answered: save, then run the connections.
Registered(l, how) ==
  /\ loop[l].pc = "answered" /\ ~loop[l].re /\ ~Superseded(l)
  /\ disk' \in Saved(loop[l].cur, how)
  /\ loop' = [loop EXCEPT ![l] =
       IF how = "throws" THEN [@ EXCEPT !.pc = "backoff", !.cur = None]
       ELSE [@ EXCEPT !.pc = "serving", !.force = FALSE, !.code = loop[l].cur,
                      !.cur = None]]
  /\ history' = IF loop[l].force /\ how # "throws" /\ history.gone = None
                 THEN [history EXCEPT !.gone = history.old, !.old = None] ELSE history
  /\ UNCHANGED <<relay, ctl>>

\* A refusal of the identity, once: a new device, and no stored session.
\* Mutant: the identity is never made anew.
Regenerates_Never(r) == FALSE
Regenerates(r) == r.pc = "refused" /\ ~r.reset

DeviceRefused(l) ==
  /\ ~loop[l].re /\ ~Superseded(l) /\ Regenerates(loop[l])
  /\ disk' = Cleared(NewDevice(disk))
  /\ loop' = [loop EXCEPT ![l] =
       Asking(l, [@ EXCEPT !.reset = TRUE, !.dev = 2, !.force = FALSE], None)]
  /\ UNCHANGED <<relay, ctl, history>>

RegisterFailed(l) ==
  /\ ~loop[l].re /\ ~Superseded(l)
  /\ loop[l].pc \in {"refused", "failed"} /\ ~Regenerates(loop[l])
  /\ loop' = [loop EXCEPT ![l].pc = "backoff"]
  /\ UNCHANGED <<disk, relay, ctl, history>>

Retry(l) ==
  /\ loop[l].pc = "backoff"
  /\ loop' = [loop EXCEPT ![l] = Asking(l, @, Loaded(disk))]
  /\ UNCHANGED <<disk, relay, ctl, history>>

-----------------------------------------------------------------------------
(* The connections of the run.                                              *)

\* The ticket is given for the code and the token the relay issued last.
TokenHeld(l) == relay.held /\ relay.code = loop[l].code

Connect(l) ==
  /\ loop[l].pc = "serving" /\ ~loop[l].up /\ TokenHeld(l)
  /\ loop' = [loop EXCEPT ![l].up = TRUE]
  /\ UNCHANGED <<disk, relay, ctl, history>>

Drop(l) ==
  /\ loop[l].up
  /\ loop' = [loop EXCEPT ![l].up = FALSE]
  /\ UNCHANGED <<disk, relay, ctl, history>>

\* Every six hours an idle connection is closed to change the token.
Reauth(l) ==
  /\ loop[l].pc = "serving" /\ loop[l].up
  /\ loop' = [loop EXCEPT ![l] = [Asking(l, @, @.code) EXCEPT !.re = TRUE]]
  /\ UNCHANGED <<disk, relay, ctl, history>>

\* The new token is saved and used; on any failure the old one is kept, which
\* is dead when the relay has issued another.
Reauthed(l, how) ==
  /\ loop[l].re /\ ~Superseded(l)
  /\ \/ /\ loop[l].pc = "answered"
        /\ disk' \in Saved(loop[l].cur, how)
        /\ relay' = [relay EXCEPT !.held = @ /\ how # "throws"]
     \/ /\ loop[l].pc \in {"refused", "failed"}
        /\ UNCHANGED <<disk, relay>>
  /\ loop' = [loop EXCEPT ![l].pc = "serving", ![l].re = FALSE, ![l].cur = None]
  /\ UNCHANGED <<ctl, history>>

-----------------------------------------------------------------------------
(* The calls of the user interface.                                         *)

\* stop(): of a loop that waits for the relay its request is left, the others end.
Stopped ==
  [l \in Loop |-> LET r == loop[l] IN
     IF r.pc \in {"asked", "answered"}
     THEN [Over EXCEPT !.pc = r.pc, !.cur = r.cur, !.force = r.force, !.dev = r.dev]
     ELSE Over]

\* start(): the marker is consumed before the first register is sent.
Started(l, d, loops, old) ==
  /\ loops[l] = Over /\ \A m \in Loop : loops[m] = Over => l <= m
  /\ history.starts < MaxStarts
  /\ history' = [history EXCEPT !.starts = @ + 1, !.old = old]
  /\ ctl' = l
  /\ loop' = [loops EXCEPT ![l] =
       Asking(l, [Over EXCEPT !.force = d.marker, !.dev = d.device], Loaded(d))]
  /\ disk' \in Consumed(d)
  /\ relay' = [relay EXCEPT !.held = FALSE]

Start(l) ==
  /\ ctl = None
  /\ Started(l, disk, loop, history.old)

Stop ==
  /\ ctl # None
  /\ ctl' = None /\ loop' = Stopped
  /\ relay' = [relay EXCEPT !.held = FALSE]
  /\ UNCHANGED <<disk, history>>

Restart(l) ==
  /\ ctl # None
  /\ Started(l, disk, Stopped, history.old)

\* changeCode(): the stored session goes, the marker comes, and the agent restarts.
\* Bound: not again when the code it replaced is followed.
ChangeCode(l) ==
  /\ history.gone = None
  /\ Started(l, Marked(Cleared(disk)), Stopped, relay.code)

\* The process dies, perhaps while it saves.  Registers that were sent reach the
\* relay all the same.
Died == [l \in Loop |-> IF loop[l].pc = "asked" THEN Stopped[l] ELSE Over]

Crash ==
  /\ ctl # None
  /\ ctl' = None /\ loop' = Died
  /\ relay' = [relay EXCEPT !.held = FALSE]
  /\ \/ UNCHANGED disk
     \/ loop[ctl].pc = "answered" /\ disk' \in Saved(loop[ctl].cur, "throws")
  /\ UNCHANGED history

-----------------------------------------------------------------------------
(* The relay.                                                               *)

\* The record of an agent that is off is evicted.
Evict ==
  /\ relay.code # None /\ ctl = None /\ \A l \in Loop : loop[l] = Over
  /\ relay' = [relay EXCEPT !.code = None]
  /\ UNCHANGED <<disk, loop, ctl, history>>

\* The identity of the device is not accepted any more.
Refuse ==
  /\ ~relay.refused /\ disk.device = 1
  /\ relay' = [code |-> None, held |-> FALSE, refused |-> TRUE]
  /\ UNCHANGED <<disk, loop, ctl, history>>

-----------------------------------------------------------------------------
\* A new machine, or one that is known to the relay.
Init ==
  /\ \E code \in {None, CHOOSE c \in Code : TRUE} :
       /\ disk = Stored(code)
       /\ relay = [code |-> code, held |-> FALSE, refused |-> FALSE]
  /\ loop = [l \in Loop |-> Over]
  /\ ctl = None
  /\ history = [gone |-> None, old |-> None, starts |-> 0]

Next ==
  \/ Stop \/ Crash \/ Evict \/ Refuse
  \/ \E l \in Loop :
       \/ Start(l) \/ Restart(l) \/ ChangeCode(l)
       \/ RelayHandles(l) \/ RegisterFails(l) \/ LateAnswer(l)
       \/ DeviceRefused(l) \/ RegisterFailed(l) \/ Retry(l)
       \/ Connect(l) \/ Drop(l) \/ Reauth(l)
       \/ \E how \in SaveOutcomes : Registered(l, how) \/ Reauthed(l, how)

Spec == Init /\ [][Next]_vars

\* Timers fire and answers are looked at; registers are not lost for ever, nor
\* does the disk fail for ever.
Fairness ==
  \A l \in Loop :
    /\ WF_vars(LateAnswer(l) \/ DeviceRefused(l) \/ RegisterFailed(l) \/ Retry(l))
    /\ WF_vars(Connect(l))
    /\ WF_vars(\E how \in SaveOutcomes : Reauthed(l, how))
    /\ SF_vars(RelayHandles(l))
    /\ SF_vars(Registered(l, "ok"))

FairSpec == Spec /\ Fairness

-----------------------------------------------------------------------------
\* A code the user had replaced never comes back once the agent has its new one:
\* no stored copy or late answer makes the relay take it again, and no run
\* serves it.  Aborted loops, failed saves, retries, a
\* crash and an evicted record included.
ResetIsFinal ==
  history.gone # None =>
    /\ relay.code # history.gone
    /\ \A l \in Loop : loop[l].pc = "serving" => loop[l].code # history.gone

\* The relay has issued a token that this run does not hold, and answers nobody
\* with another: nothing in the connection loop registers again.
TokenLost ==
  /\ ctl # None /\ loop[ctl].pc = "serving" /\ ~TokenHeld(ctl)

\* An agent that stays switched on gets its connection again, over refused
\* identities and failed registers, as long as its token is not lost.
Online == <>[](ctl # None) => []<>(ctl # None /\ (loop[ctl].up \/ TokenLost))
=============================================================================
