\* One command and one helper that is stopped; a tick is 50 ms.
CONSTANTS
  MaxConn = 1
  MaxBoot = 1
  Endpoints = 1
  Attempts = 1
  HardGrace = 8
  SoftGrace = 100
  Drain = 14
SPECIFICATION Spec
INVARIANTS NoOrphan
CHECK_DEADLOCK FALSE
