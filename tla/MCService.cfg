\* Two mishaps, one command or agent started by hand, one update; a version good or bad.
CONSTANTS
  MaxMishaps = 2
  MaxOrders = 1
  MaxUpdates = 1
SPECIFICATION FairSpec
PROPERTIES ClearMeansAlone ComesBack
CHECK_DEADLOCK FALSE
