SPECIFICATION Spec
CONSTANTS
  a = a
  b = b
  L1 = L1
  L2 = L2
  Node = {a, b}
  Priority <- MCPriority
  Ip <- MCIp
  Label = {L1, L2}
  None = None
  MaxRequests = 3
  Disturbances = {"handover"}
  MaxFaults = 0
INVARIANTS
  LabelIsCurrent
SYMMETRY MCSymmetry
