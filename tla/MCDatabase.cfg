SPECIFICATION MCSpec
CONSTANTS
  Row <- Rows
  Writer = {w1, w2}
  Update <- Updates
  ForeignWrites <- ForeignRows
  Remote = FALSE
  GroupCapacity = 2
  PullCap = 1
  MaxUpdates = 2
  MaxForeign = 1
  MaxIdlePull = 1
  None = None
  Replicas = {r1, r2}
  Devices = {1, 2}
  NoDevice = 0
  SuffixRange = 2
  SlotCapacity = 3
  LeaseSize = 2
  TagOf <- MCTag
  FileDevices = {"d1", "d2"}
  DatabaseIds = {"x", "y"}
  NoId = "none"
  InitialFiles <- Files
  StoreKeys = {1, 2, 3}
  StoreValues = {"a", "b"}
  NoValue = "none"
  MaxPuts = 2
  MaxBinds = 3
  StoreBatches <- Batches
  MaxKept = 2
  MaxFrames = 2
SYMMETRY WriterSymmetry
CHECK_DEADLOCK FALSE
INVARIANT ImageAndJournal
INVARIANT AdmittedSawItsPlace
INVARIANT RowidsUnique
INVARIANT OpensWholeOrNot
INVARIANT StoreContract
