SPECIFICATION FairSpec
CONSTANTS
  Gui = Gui
  Reader = Reader
  Nobody = Nobody
  NoValue = NoValue
  MaxQueue = 1
  MaxChunks = 5
  MaxSends = 2
INVARIANTS
  TypeOK
  QueueBounded
  LinesInOrder
  UsernameFirst
  ReaderGivesUp
PROPERTIES
  QueueProtocol
  EventuallyShown
CHECK_DEADLOCK FALSE
