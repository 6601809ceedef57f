\* Two overlapping runs of the register loop, crashes, one refused identity.
CONSTANTS
  Loop = {1, 2}
  Code = {c1, c2, c3, c4, c5, c6, c7, c8}
  None = None
  SaveOutcomes = {"ok", "swallowed", "throws"}
  MaxStarts = 3
SPECIFICATION FairSpec
INVARIANTS ResetIsFinal
PROPERTIES Online
CHECK_DEADLOCK FALSE
