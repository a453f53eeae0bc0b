SPECIFICATION Spec
CONSTANTS
  Clients = {c1, c2, c3}
  Workers = {w1}
  Acceptor = main
  Requesters = {t1}
  Capacity = 1
  Reasons = {"peer_closes", "explicit_closes"}
  Results <- MCOneResult
  MaxSignals = 1
  NoClient = NoClient
PROPERTIES
  AcceptedIsClosed
  ShutdownCompletes
  ImplementsService
