SPECIFICATION SafeSpec
CONSTANTS
  Clients = {c1, c2, c3}
  Workers = {w1, w2}
  Acceptor = main
  Requesters = {t1, t2}
  Capacity = 1
  Reasons = {"peer_closes", "explicit_closes"}
  Results <- MCResults
  MaxSignals = 1
  NoClient = NoClient
SYMMETRY Symmetry
INVARIANTS
  CountersConserved
  EveryDescriptorOwned
  DrainedBeforeExit
  ReportExact
  RefusalMeansShutdown
  StopsAccepting
  NoStrayWriteOnNormalExit
