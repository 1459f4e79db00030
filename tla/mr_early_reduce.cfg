SPECIFICATION Spec
CONSTANTS
  w1 = w1
  w2 = w2
  Workers = {w1, w2}
  Nil = Nil
  Full = Full
  NMap = 2
  NReduce = 1
  Patience = {FALSE}
  MaxRedo <- RedoBound
  MaxCrashes <- CrashBound
INVARIANTS
  ReduceAfterAllMaps
SYMMETRY Symmetry
CHECK_DEADLOCK FALSE
