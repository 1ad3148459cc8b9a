SPECIFICATION FairSpec
CONSTANTS
  p1 = p1
  p2 = p2
  v1 = v1
  v2 = v2
  Consumer = Consumer
  Nobody = Nobody
  NoValue = NoValue
  Producers = {p1, p2}
  Values = {v1, v2}
  MaxLen = 3
INVARIANTS
  TypeOK
  MutualExclusion
  NeverEmptyPop
PROPERTIES
  DequeImplemented
  QueueReleased
  PushWakes
