SPECIFICATION Spec
CONSTANTS
  c1 = c1
  c2 = c2
  c3 = c3
  k1 = k1
  alice = alice
  bob = bob
  NoConn = NoConn
  NoName = NoName
  Io = Io
  Nobody = Nobody
  Conns = {c1, c2}
  Names = {alice, bob}
  UserOf <- SharedName
  Callers = {k1}
  MaxClients = 2
  Inputs <- TextAndDirect
  MayLeave = {}
  Faults = {}
  SendBuf = 1
  Pipeline = 1
  MaxSends = 2
  MaxCalls = 2
INVARIANTS
  MutexHeldInScope
  RegistryMatchesSockets
  IteratorsValid
  TotalOrder
  LateSessions
PROPERTIES
  
  RoomImplemented
CHECK_DEADLOCK FALSE
