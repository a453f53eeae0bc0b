SPECIFICATION SafeSpec
CONSTANTS
  Methods = {"GET", "HEAD", "POST"}
  Targets <- MCTargets
  Objects <- MCObjects
  Root <- MCRoot
  MaxFileBytes = 4
  ReadSize = 2
  MaxChanges = 2
INVARIANTS
  FramingExact
  BodyBounded
  BodyIsOneVersion
  AnswerWasTrue
  QuietAnswerExact
  EscapingInvisible
