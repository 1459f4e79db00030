SPECIFICATION FairSpec
CONSTANTS
  w1 = w1
  w2 = w2
  Workers = {w1, w2}
  Nil = Nil
  Full = Full
  NMap = 2
  NReduce = 2
  Patience = {TRUE, FALSE}
  MaxRedo <- RedoBound
  MaxCrashes <- CrashBound
INVARIANTS
  TypeOK
  GivenOnce
  UnfinishedIsWatched
  CountExact
  CountNotBehind
  PatientReduceAfterAllMaps
  OutputCorrect
PROPERTIES
  NeverHangs
CHECK_DEADLOCK FALSE
