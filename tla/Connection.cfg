CONSTANTS
  QueueLimit = 3
  MaxRequests = 6
  MaxMessages = 2
  Paths <- AllPaths
SPECIFICATION ConnectionFairSpec
INVARIANTS
  ConnectionTypeOK
  OneWriter
  QueueBounded
  AnsweredInOrder
  HandOverLeavesNoReader
  OneReaderOfStream
  EchoesAreFaithful
  SegmentsAreTheNames
  HeadMatchesGet
PROPERTIES
  ResponsesAreSent
  NothingWrittenAfterClose
  EveryMessageIsEchoed
