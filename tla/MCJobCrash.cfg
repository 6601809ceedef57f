\* Two starts fighting for a lock and a card; the agent crashes once.
CONSTANTS
  Job = {1, 2}
  OpKey = {k}
  Lock = {1}
  Gpu = {2}
  None = None
  Garbage = Garbage
  k = k
  Requests <- MCHolds
  MaxConcurrent = 2
  RequireIdentity = TRUE
  WriteOutcomes = {TRUE}
  MaxCrashes = 1
SPECIFICATION FairSpec
INVARIANTS LockExclusion NoLeakedResource KeyAnswersForItsJob AtMostOnce CancelOutranksExit
PROPERTIES StartsAnswer WebhookJobSettles CancelledStartLetsGo
