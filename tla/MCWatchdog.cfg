\* Users only meet in the installation and in partial ticks, so one is enough;
\* backoffs of 2, 4 and again 4 ticks, a quiet stretch of 3.
CONSTANTS
  User = {u}
  Misses = 2
  Ceiling = 4
  Quiet = 3
  Settle = 1
  Every = 3
  Worst = 2
SPECIFICATION FairWatchSpec
PROPERTIES NoRelaunchStorm Recovers LogRate
CHECK_DEADLOCK FALSE
