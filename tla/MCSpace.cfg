SPECIFICATION MCSpec
CONSTANTS
  A = A  X = X
  Vers = {1, 2, 3}
  Device = {d1, d2, d3}
  Writers = {d1, d2}
  Register = {r1, r2}
  MaxObserved = 4
  NoDevice = NoDevice
  None = None
  Key <- TwoKeys
  LeasePrefix <- LeasePrefixes
  Ttl = {2}
  Stamp = {0}
  MaxNow = 3
  MaxLeaseId = 2
  Batch <- DataBatches
  MaxRequest = 2
  MaxLog = 3
  MaxDeviceSeq = 3
SYMMETRY WriterSymmetry
CHECK_DEADLOCK FALSE
INVARIANT LeaseExclusion
INVARIANT ReservedSinceBarrier
INVARIANT HistoryIsExact
INVARIANT AssertsHoldInLog
INVARIANT ReadsAreReplay
INVARIANT LogIsOrdered
INVARIANT HeadsExact
PROPERTY ImplementsMap
