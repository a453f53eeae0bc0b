SPECIFICATION Spec
CONSTANTS
  MaxHeader = 4
  MaxBody = 0
  ReadSize = 8
  MaxMessages = 1
  Messages <- LongestMessage
INVARIANT
  FragmentationIndependent
