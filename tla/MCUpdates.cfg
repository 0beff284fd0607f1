SPECIFICATION MCSpec
CONSTANTS
  Writers = {w1, w2}
  Base <- MCBase
  Menus <- MCMenus
  Levels = {"Snapshot", "Serializable"}
  MaxStatements = 2
  MaxCapturedChanges = 2
  BranchSlots = {b1}
  ViewSlots = {v1}
  Pages = 1
  MaxPages = 2
  PageLists <- SmallPageLists
  MaxWritten = 4
  MaxIdle = 2
  MaxAttempts = 2
  SoftFrames = 1
  HardFrames = 3
  RetryGrowth = 1
  MemoryLimit = 1
  MaxBranchWrites = 2
  MaxEffort = 4
SYMMETRY WriterSymmetry
CONSTRAINT Effort
CHECK_DEADLOCK FALSE
INVARIANT CheckSuffices
INVARIANT RecordingIsExact
INVARIANT SnapshotsAreExact
INVARIANT BlockedOnlyByLive
