SPECIFICATION Spec
CONSTANTS
  s1 = s1
  s2 = s2
  c1 = c1
  c2 = c2
  Nil = Nil
  Servers <- TwoServers
  Clerks = {c1}
  Script <- OneJoin
  Handles <- HandlesOfClerks
  ClockSteps <- Advancing
  MaxCalls = 2
  MaxStamp = 4
  MaxLog = 4
  MaxTerm = 1
  MaxFaults = 1
INVARIANTS
  AtMostOnce
CHECK_DEADLOCK FALSE
