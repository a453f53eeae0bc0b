SPECIFICATION Spec
CONSTANTS
  ReadTimeout = 2
  KeepAliveTimeout = 2
  WriteTimeout = 2
  TicksPerUs = 2
  MaxRequests = 3
  MaxParts = 2
  ReadSize = 2
  MaxResponse = 2
  Requests <- AllRequests
INVARIANTS
  WireInOrder
  AnswersMatchRequests
  BufferedRequestNeverWaits
  EndReasonTruthful
  BlockedTimeBounded
PROPERTIES
  Terminates
