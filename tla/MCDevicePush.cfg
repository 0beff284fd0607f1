SPECIFICATION MCSpec
CONSTANTS
  p1 = p1
  p2 = p2
  Payload = {p1, p2}
  Size <- Sizes
  PushCap = 2
  MaxSeq = 3
  MaxVer = 3
  MaxMailbox = 2
  None = None
  SpaceId = {s1, s2}
  Caller = {c1, c2, c3}
CHECK_DEADLOCK FALSE
INVARIANT Certified
INVARIANT ExactlyOnceInOrder
INVARIANT NeverForks
INVARIANT OneWorkflowPerSpace
PROPERTY VersionsOnlyGrow
PROPERTY PushReturns
PROPERTY WaitersAreServed
