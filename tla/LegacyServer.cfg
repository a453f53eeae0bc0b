SPECIFICATION Spec
CONSTANTS
  c1 = c1
  c2 = c2
  c3 = c3
  NoClient = NoClient
  Clients <- MCClients
  PoolSize = 2
  Scenarios <- MCScenarios
  Times = {1, 2}
  Sizes = {1, 3}
  BufSize = 2
  MaxChanges = 1
INVARIANTS
  LogTruthful
  EofAfterClose
  ChildrenBounded
  StatsHonest
  FramingUnlessResized
PROPERTIES
  ConnectionEnds
  BacklogAccepted
