SPECIFICATION Spec
CONSTANTS
  MaxHeader = 10
  MaxBody = 2
  ReadSize = 8
  MaxMessages = 2
  Messages <- MCMessages
INVARIANTS
  FramingExact
  BufferBounded
