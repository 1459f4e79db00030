SPECIFICATION Spec
CONSTANTS
  s1 = s1
  s2 = s2
  c1 = c1
  c2 = c2
  Nil = Nil
  Servers <- TwoServers
  Clerks = {c1}
  Script <- OneQuery
  Handles <- HandlesOfClerks
  ClockSteps <- Advancing
  MaxCalls = 2
  MaxStamp = 2
  MaxLog = 4
  MaxTerm = 1
  MaxFaults = 1
INVARIANTS
  QueryHasReply
CHECK_DEADLOCK FALSE
