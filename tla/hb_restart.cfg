SPECIFICATION FairSpec
CONSTANTS
  a = a
  b = b
  Node = {a}
  Priority <- MCPriority
  Ip <- MCIp
  HeartbeatInterval = 1
  TimeoutThreshold = 1
  ElectionWait = 1
  FreshWindow = 2
  Faults = {"stop","foreign","socket"}
  MaxFaults = 3
  MaxCopies = 1
  Timely = TRUE
  ForcedRoles = {"Primary","Standby"}
PROPERTIES
  StopReturns

