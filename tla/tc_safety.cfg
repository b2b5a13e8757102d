SPECIFICATION Spec
CONSTANTS
  a = a
  b = b
  L1 = L1
  L2 = L2
  Node = {a, b}
  Priority <- MCPriority
  Ip <- MCIp
  Label = {L1, L2}
  None = None
  MaxRequests = 2
  Disturbances = {"leave", "handover", "lost", "timeout", "damaged", "fail", "partial",
                  "stopFail", "cliStop"}
  MaxFaults = 2
INVARIANTS
  TypeOK
PROPERTIES
  NoFalseSuccess
SYMMETRY MCSymmetry
