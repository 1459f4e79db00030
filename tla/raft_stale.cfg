SPECIFICATION Spec
CONSTANTS
  v1 = v1
  v2 = v2
  n = 2
  MaxInstances = 2
  Values = {v1, v2}
  Kinds <- SnapKinds
  Quiet = FALSE
  SnapShotInterval = 2
  Nil = Nil
  MaxIndex = 2
  Calling <- SnapKinds
  Delivered <- Commands
INVARIANTS
  NoFalseAlarm
SYMMETRY Symmetry
CHECK_DEADLOCK FALSE
