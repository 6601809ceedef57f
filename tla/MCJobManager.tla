---------------------------- MODULE MCJobManager ----------------------------
(* Small instances of JobManager for TLC.                                    *)
EXTENDS JobProperties

CONSTANT k

\* A start with every hold it can have: a key, a named lock and the card.
MCKeyed == {[op |-> k, res |-> Lock \cup Gpu, webhook |-> TRUE]}

\* And a plain start that fights for the same named lock without a key.
MCHolds == MCKeyed \cup {[op |-> None, res |-> Lock, webhook |-> FALSE]}

\* A start that fights for nothing but a place.
MCPlaces == MCKeyed \cup {[op |-> None, res |-> {}, webhook |-> FALSE]}
=============================================================================
