SPECIFICATION FairSpec
CONSTANTS
  c1 = c1
  c2 = c2
  Clerks = {c1, c2}
  Keys <- OneKey
  Gids = {1, 2}
  Configs <- ThereAndBack
  Last = 3
  NShards = 10
  Script <- WriterAndReader
  MaxFaults = 1
INVARIANTS
  TypeOK
  UpdatesOnceInOrder
  AckedIsStored
  GetSeesAcked
PROPERTIES
  OperationsReturn
CHECK_DEADLOCK FALSE
