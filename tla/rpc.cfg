SPECIFICATION Spec
CONSTANTS
  o1 = o1
  o2 = o2
  k1 = k1
  k2 = k2
  g1 = g1
  g2 = g2
  e1 = e1
  n1 = n1
  Ends = {e1}
  Names = {n1}
  Objects = {o1, o2}
  Calls = {k1, k2}
  Nil = Nil
  Goroutines = {g1, g2}
  Types <- GobSent
  Parts <- GobParts
  Targets <- GobTargets
  MaxOps = 2
INVARIANTS
  RPCTypeOK
  TrueMeansExecuted
  WalkedOnce
  ComplainedOnce
PROPERTIES
  CallReturns
  ImplementsContract
  ChecksEnd
CHECK_DEADLOCK FALSE
