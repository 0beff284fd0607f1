SPECIFICATION MCSpec
CONSTANTS
  A = A  X = X  B = B
  ForeignKeys <- TwoKeys
  Asserted <- Inside
  MaxQueue = 1
  Device = {Me}
  NoDevice = NoDevice
  Me = Me
  Wanted <- Specs
  None = None
  LeasePrefix <- TwoPrefixes
  Ttl = {1, 2}
  Stamp = {}
  MaxNow = 3
  MaxLeaseId = 2
  Margin = 1
  MaxWall = 3
  MaxLineage = 2
  MaxHighWater = 2
  MaxMailbox = 1
  WallRegresses = TRUE
  PullCap = 2
  MaxAdmitted = 4
  MaxPulledVer = 2
  NoPull = NoPull
  Parts = {"leases", "asserts", "pull"}
CHECK_DEADLOCK FALSE
INVARIANT LocalAuthorityUnlessRevived
INVARIANT AppliedIsServerPrefix
INVARIANT PullReachesItsStart
INVARIANT CheckedAssertsHold
PROPERTY StampsRecordedFirst
