SPECIFICATION Spec
CONSTANTS
  Devices = {d1, d2}
  Base <- MCBase
  Menus <- MCMenus
  MaxPending = 2
SYMMETRY DeviceSymmetry
CHECK_DEADLOCK FALSE
INVARIANT ReplicasAgree
INVARIANT OnlyNamedFailures
INVARIANT StaysUsable
PROPERTY RejectionRestores
