SPECIFICATION FairSpec
CONSTANTS
  s1 = s1
  s2 = s2
  c1 = c1
  c2 = c2
  Nil = Nil
  Servers <- TwoServers
  Clerks = {c1}
  Script <- MoveThenQuery
  Handles <- HandlesOfClerks
  ClockSteps <- Advancing
  MaxCalls = 2
  MaxStamp = 3
  MaxLog = 6
  MaxTerm = 2
  MaxFaults = 1
PROPERTIES
  ClerksFinish
  ImplementsService
CHECK_DEADLOCK FALSE
