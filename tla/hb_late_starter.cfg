SPECIFICATION Spec
CONSTANTS
  a = a
  b = b
  Node = {a, b}
  Priority <- MCPriority
  Ip <- MCIp
  HeartbeatInterval = 1
  TimeoutThreshold = 2
  ElectionWait = 1
  FreshWindow = 2
  Faults = {}
  MaxFaults = 0
  MaxCopies = 1
  Timely = TRUE
  ForcedRoles = {}
PROPERTIES
  LateStarterStandsBy

