\* A keyed start that wants a lock and a card and a plain one fighting for one place;
\* every record write may fail.
CONSTANTS
  Job = {1, 2}
  OpKey = {k}
  Lock = {1}
  Gpu = {2}
  None = None
  Garbage = Garbage
  k = k
  Requests <- MCPlaces
  MaxConcurrent = 1
  RequireIdentity = TRUE
  WriteOutcomes = {TRUE, FALSE}
  MaxCrashes = 0
SPECIFICATION Spec
INVARIANTS ReportedOverIsOver CapacityHeld
PROPERTIES OutcomeFinal WindowEndsOnlyByCancel
CHECK_DEADLOCK FALSE
