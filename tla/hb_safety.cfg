SPECIFICATION Spec
CONSTANTS
  a = a
  b = b
  Node = {a, b}
  Priority <- MCPriority
  Ip <- MCIp
  HeartbeatInterval = 1
  TimeoutThreshold = 1
  ElectionWait = 0
  FreshWindow = 1
  Faults = {"crash"}
  MaxFaults = 1
  MaxCopies = 1
  Timely = FALSE
  ForcedRoles = {}
INVARIANTS
  TypeOK
  TopServes
  PrimaryBeats
  StandbyHasHeard
  ServiceContinues
PROPERTIES
  ImplementsPrimaryStandby
