----------------------------- MODULE MCElevated -----------------------------
(* Small instances of Elevated for TLC.                                     *)
EXTENDS Elevated
=============================================================================
