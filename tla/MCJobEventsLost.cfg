\* One job whose terminal record may fail to be written.
CONSTANTS
  Job = {1}
  ReplayMax = 1
  EndedAt <- MCEndedAt
  SettleWrites = {TRUE, FALSE}
  MarkWrites = {TRUE}
  MaxDrops = 0
  MaxCrashes = 0
SPECIFICATION FairSpec
PROPERTIES ReplayedUntilAcked
CHECK_DEADLOCK FALSE
