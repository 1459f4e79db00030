SPECIFICATION Spec
CONSTANTS
  peer = peer
  clerk = clerk
  k1 = k1
  k2 = k2
  server = server
  Ends = {peer, clerk}
  PeerEnds = {peer}
  Names = {server}
  Server = server
  Objects <- Instances
  MaxInstances = 2
  Calls = {k1, k2}
  Nil = Nil
INVARIANTS
  TypeOK
  AckedSurvives
  SavedInSync
  NewestOwnsSaved
SYMMETRY Symmetry
CHECK_DEADLOCK FALSE
