--------------------------- MODULE MCCommandSlot ---------------------------
(* A small instance of CommandSlot for TLC, which also evaluates the checks *)
(* of Clixml, the decoder on a command's stderr.                            *)
EXTENDS CommandSlot, ClixmlChecks
=============================================================================
