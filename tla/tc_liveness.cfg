SPECIFICATION FairSpec
CONSTANTS
  a = a
  b = b
  L1 = L1
  L2 = L2
  Node = {a, b}
  Priority <- MCPriority
  Ip <- MCIp
  Label = {L1}
  None = None
  MaxRequests = 2
  Disturbances = {"handover", "timeout", "cliDeploy"}
  MaxFaults = 1
PROPERTIES
  RequestsHandled
