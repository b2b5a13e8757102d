SPECIFICATION FairSpec
CONSTANTS
  a = a
  b = b
  Node = {a, b}
  Priority <- MCPriority
  Ip <- MCIp
  HeartbeatInterval = 3
  TimeoutThreshold = 9
  ElectionWait = 2
  FreshWindow = 5
  Faults = {"crash", "link","foreign"}
  MaxFaults = 1
  MaxCopies = 1
  Timely = TRUE
  ForcedRoles = {}
PROPERTIES
  Converges
  Failover
  NoFalseFailover

