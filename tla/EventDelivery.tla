----------------------------- MODULE EventDelivery -----------------------------
(***************************************************************************)
(* What the job_ended reporting promises about each webhook job, whatever   *)
(* connections, crashes and restarts lie in between: the end of a job is    *)
(* owed to the relay until the relay has it, unless its record outlives the *)
(* retention period or ReplayMax ends at least as recent are owed as well;  *)
(* and no end is ever told of a start that was undone.                      *)
(***************************************************************************)
EXTENDS Naturals, FiniteSets

CONSTANTS Job, ReplayMax, EndedAt

VARIABLE event   \* what became of the end of each job

Init == event = [j \in Job |-> "none"]

\* One pass may settle a job and drop or expire its event at once; an event that
\* was given up may still be under way to the relay.
Moves ==
  [none |-> {"owed", "dropped", "expired", "undone"},
   owed |-> {"delivered", "dropped", "expired"},
   dropped |-> {"delivered", "expired"},
   expired |-> {"delivered"},
   delivered |-> {},
   undone |-> {}]

\* Ends at least as recent as j's that the relay has or is owed.
Rivals(e, j) == {i \in Job \ {j} : e[i] \in {"owed", "delivered"} /\ EndedAt[i] >= EndedAt[j]}

Next ==
  /\ DOMAIN event' = Job
  /\ \A j \in Job : event'[j] # event[j] =>
       /\ event'[j] \in Moves[event[j]]
       /\ event'[j] = "dropped" => Cardinality(Rivals(event', j)) >= ReplayMax

Spec == Init /\ [][Next]_event
=============================================================================
