SPECIFICATION Spec
CONSTANTS
  a = a
  b = b
  L1 = L1
  L2 = L2
  Node = {a, b}
  Priority <- MCPriority
  Ip <- MCIp
  Label = {L1, L2}
  None = None
  MaxRequests = 3
  Disturbances = {"leave", "lost", "fail", "stopFail", "cliStop"}
  MaxFaults = 2
INVARIANTS
  StopReaches
PROPERTIES
  StopStops
  QueryTruthful
SYMMETRY MCSymmetry
