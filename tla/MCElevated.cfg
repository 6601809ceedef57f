\* Two connections for one capability, one restart of the helper between two
\* endpoints of a discovery, and a soft grace longer than the drain.
CONSTANTS
  MaxConn = 2
  MaxBoot = 2
  Endpoints = 2
  Attempts = 1
  HardGrace = 1
  SoftGrace = 3
  Drain = 2
SPECIFICATION FairSpec
INVARIANTS DrainReachesAll
PROPERTIES AdvertisedNeverOlder AdvertisesHelper StartIsAuthorized EndsWithItsConnection
CHECK_DEADLOCK FALSE
