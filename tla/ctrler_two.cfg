SPECIFICATION Spec
CONSTANTS
  s1 = s1
  s2 = s2
  c1 = c1
  c2 = c2
  Nil = Nil
  Servers <- TwoServers
  Clerks = {c1, c2}
  Script <- MoveBesideQuery
  Handles <- HandlesOfClerks
  ClockSteps <- Advancing
  MaxCalls = 1
  MaxStamp = 3
  MaxLog = 4
  MaxTerm = 2
  MaxFaults = 1
INVARIANTS
  QueryReflectsAcked
  FixedStampOnce
  HandledIsEffective
CHECK_DEADLOCK FALSE
