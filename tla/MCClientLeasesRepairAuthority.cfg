SPECIFICATION MCSpec
CONSTANTS
  A = A  X = X  B = B
  ForeignKeys <- TwoKeys
  Asserted <- Inside
  MaxQueue = 1
  Device = {Me}
  NoDevice = NoDevice
  Me = Me
  Wanted <- LongWrite
  None = None
  LeasePrefix <- TwoPrefixes
  Ttl = {2}
  Stamp = {}
  MaxNow = 5
  MaxLeaseId = 2
  Margin = 1
  MaxWall = 5
  MaxLineage = 2
  MaxHighWater = 0
  MaxMailbox = 1
  WallRegresses = TRUE
  PullCap = 2
  MaxAdmitted = 0
  MaxPulledVer = 0
  NoPull = NoPull
  Parts = {"leases"}
CHECK_DEADLOCK FALSE
INVARIANT LocalAuthorityIsServerAuthority
