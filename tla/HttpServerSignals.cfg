SPECIFICATION SafeSpec
CONSTANTS
  Clients = {c1, c2, c3, c4, c5}
  Workers = {w1, w2}
  Acceptor = main
  Requesters = {}
  Capacity = 1
  Reasons = {"peer_closes", "explicit_closes"}
  Results <- MCResults
  MaxSignals = 1
  NoClient = NoClient
SYMMETRY Symmetry
INVARIANTS
  DescriptorBound
  AcceptedIsServed
  EndIsCounted
