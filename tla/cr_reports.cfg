SPECIFICATION FairSpec
CONSTANTS
  NumChassis = 2
  NumSlots = 3
  MaxRequests = 2
  Commands = {"reset", "check"}
  FlagSets <- MCFlagSets
INVARIANTS
  TypeOK
  OnlyFlagged
  NeverMoreThanReset
  PrefixReported
  TotalsHonest
PROPERTIES
  RequestsReported
