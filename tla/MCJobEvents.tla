----------------------------- MODULE MCJobEvents -----------------------------
(* Small instances of JobEvents for TLC.                                      *)
EXTENDS JobEvents

\* The endedAt of a job owes nothing to the order of starts or settles: the exit
\* marker, the log or the clock give it.
MCEndedAt == [j \in Job |-> IF j = 1 THEN 2 ELSE 1]
=============================================================================
