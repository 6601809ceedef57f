\* Two frames for one slot on every platform; the drain is as long as half the
\* time a command has, the guard and the quiet time are one tick.
\* The decoder gives up past sixteen symbols.
CONSTANTS
  Command = {c1, c2}
  None = None
  Timeout = 2
  Escalation = 1
  DrainQuiet = 1
  DrainMax = 2
  Guard = 1
  Handshake = 1
  MaxPending = 16
  Platform = {"darwin", "linux", "win32"}
SPECIFICATION FairSpec
INVARIANTS TerminalIsLast SandboxHolds
PROPERTIES NoFalseTimeout NoSignalAfterReap NoLateStart LinkEndKills SlotReleased
CHECK_DEADLOCK FALSE
