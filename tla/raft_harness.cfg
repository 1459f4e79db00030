SPECIFICATION Spec
CONSTANTS
  v1 = v1
  v2 = v2
  n = 2
  MaxInstances = 2
  Values = {v1, v2}
  Kinds <- AllKinds
  Quiet = TRUE
  SnapShotInterval = 1
  Nil = Nil
  MaxIndex = 2
  Calling <- Answered
  Delivered <- Commands
INVARIANTS
  EndsMatchConnected
  OldEndsSilent
  NoFalseAlarm
  LogsAgree
  OneIsAgreed
  SnapshotsComplete
SYMMETRY Symmetry
CHECK_DEADLOCK FALSE
