SPECIFICATION CancelSpec
CONSTANTS
  Row <- Rows
  Writer = {w1, w2}
  Update <- Updates
  ForeignWrites <- ForeignRows
  Remote = FALSE
  GroupCapacity = 2
  PullCap = 1
  MaxUpdates = 2
  MaxForeign = 1
  MaxIdlePull = 1
  None = None
SYMMETRY WriterSymmetry
INVARIANT AdmittedSawItsPlace
CHECK_DEADLOCK FALSE
