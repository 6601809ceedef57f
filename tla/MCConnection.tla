---------------------------- MODULE MCConnection ----------------------------
(* A small instance of Connection for TLC, and one of DiagLog, the log the     *)
(* agent keeps of its connections.  They share nothing, so a behaviour is one  *)
(* of the connection or one of the log.  TLC also evaluates the checks of      *)
(* Screenshot.                                                                *)
EXTENDS Connection, DiagLog, ScreenshotChecks

VARIABLE part

OfLink == part = "link"

MCInit == part \in {"link", "log"} /\ Init /\ DiagInit

MCNext ==
  /\ UNCHANGED part
  /\ \/ OfLink /\ Next /\ UNCHANGED diagVars
     \/ ~OfLink /\ DiagNext /\ UNCHANGED vars

\* The fairness of the connection; the log has none.
MCSpec ==
  /\ MCInit /\ [][MCNext]_<<vars, diagVars, part>>
  /\ WF_vars(OfLink /\ Recount("debounce")) /\ WF_vars(OfLink /\ Recount("poll"))
=============================================================================
