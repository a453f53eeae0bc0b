SPECIFICATION SafeSpec
CONSTANTS
  Clients = {c1}
  Workers = {w1}
  Acceptor = main
  Requesters = {}
  Capacity = 1
  Reasons = {"peer_closes", "explicit_closes"}
  Results <- MCOneResult
  MaxSignals = 1
  NoClient = NoClient
INVARIANT
  NoStrayWrite
