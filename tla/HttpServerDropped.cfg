SPECIFICATION SafeSpec
CONSTANTS
  Clients = {c1}
  Workers = {w1}
  Acceptor = main
  Requesters = {t1}
  Capacity = 1
  Reasons = {"peer_closes", "explicit_closes"}
  Results <- MCOneResult
  MaxSignals = 0
  NoClient = NoClient
INVARIANT
  AcceptedIsServed
