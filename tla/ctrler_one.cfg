SPECIFICATION Spec
CONSTANTS
  s1 = s1
  s2 = s2
  c1 = c1
  c2 = c2
  Nil = Nil
  Servers <- TwoServers
  Clerks = {c1}
  Script <- JoinLeaveQuery
  Handles <- HandlesOfClerks
  ClockSteps <- Advancing
  MaxCalls = 2
  MaxStamp = 5
  MaxLog = 5
  MaxTerm = 2
  MaxFaults = 2
INVARIANTS
  TypeOK
  OldNeverAfterNew
  AckedIsHandled
  ApplierNeverBlocks
  ReplicasAgree
CHECK_DEADLOCK FALSE
