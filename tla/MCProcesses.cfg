\* One job on each kind of machine, two restarts of the agent, two failed calls.
\* Files of up to five bytes of a cap of three, slices of up to three. One command
\* under the launcher, which may end with the launcher's own sentinel (9).
CONSTANTS
  MaxMishaps = 2
  MaxRestarts = 2
  Byte = {byte, newline}
  Newline = newline
  Notice <- MCNotice
  MaxLogBytes = 3
  MaxSliceBytes = 3
  DefaultTailLines = 2
  DefaultEntries = 1
  MaxEntries = 2
  Stream = {"out", "err"}
  Stderr = "err"
  Code = {0, 9}
  Unknown = 9
SPECIFICATION MCSpec
INVARIANTS LateIsHarmless AnswerIsTrue
PROPERTIES NothingSurvives CallSettles
CHECK_DEADLOCK FALSE
