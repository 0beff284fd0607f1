SPECIFICATION PolicySpec
CONSTANTS
  c1 = c1
  c2 = c2
  CallOps <- MCCallOps
  Calls = {c1, c2}
  Policies <- EveryPolicy
  MaxNow = 1
  MaxRemote = 1
  MaxWrites = 2
  MaxFaults = 1
  InitialRetry = 1
  MaxRetry = 2
CHECK_DEADLOCK FALSE
INVARIANT FreshReads
INVARIANT PushDiscipline
PROPERTY ComesToRest
