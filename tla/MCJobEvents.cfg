\* Two ends and room to remember one, a lost frame or ack, a restart of the agent.
CONSTANTS
  Job = {1, 2}
  ReplayMax = 1
  EndedAt <- MCEndedAt
  SettleWrites = {TRUE}
  MarkWrites = {TRUE}
  MaxDrops = 1
  MaxCrashes = 1
SPECIFICATION FairSpec
PROPERTIES DeliveryPromise EndIsReported
CHECK_DEADLOCK FALSE
