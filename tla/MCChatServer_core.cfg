SPECIFICATION Spec
CONSTANTS
  c1 = c1
  c2 = c2
  c3 = c3
  k1 = k1
  alice = alice
  bob = bob
  NoConn = NoConn
  NoName = NoName
  Io = Io
  Nobody = Nobody
  Conns = {c1, c2, c3}
  Names = {alice, bob}
  UserOf <- SharedName
  Callers = {}
  MaxClients = 2
  Inputs <- TextOnly
  MayLeave = {c2}
  Faults = {}
  SendBuf = 1
  Pipeline = 1
  MaxSends = 4
  MaxCalls = 0
INVARIANTS
  TypeOK
  
  RegistryMatchesSockets
  FanOut
  SessionStory
  FailedWriteHoldsMutex
PROPERTIES
  RoomImplemented
CHECK_DEADLOCK FALSE
