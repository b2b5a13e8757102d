SPECIFICATION Spec
CONSTANTS
  NumChassis = 2
  NumSlots = 3
  MaxRequests = 1
  Commands = {"reset"}
  FlagSets <- MCAllFlags
INVARIANTS
  ResetReported
