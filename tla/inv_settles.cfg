SPECIFICATION FairSpec
CONSTANTS
  Slots = {1, 5, 6}
  Home <- MCHome
  Reports = {0, 1, 2, 4}
  Timeout = 2
  h1 = h1
  h2 = h2
  Handlers = {h1, h2}
  Alerts <- MCAlerts
  MaxDisturbances = 2
INVARIANTS
  TypeOK
PROPERTIES
  StoreSettles
  NormalExpires
  UnplugShown
  QueriesSettle
  OnlyMisdirection
  NumbersLostForGood
  ImplementsStackMirror
