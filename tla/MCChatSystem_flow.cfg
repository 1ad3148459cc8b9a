SPECIFICATION FairSpec
CONSTANTS
  c1 = c1
  c2 = c2
  c3 = c3
  alice = alice
  bob = bob
  NoConn = NoConn
  NoName = NoName
  Io = Io
  Nobody = Nobody
  Conns = {c1}
  Names = {alice, bob}
  UserOf <- OwnName
  Callers = {}
  MaxClients = 2
  Inputs <- TextAndOwn
  MayLeave = {}
  Faults = {}
  SendBuf = 1
  Pipeline = 1
  MaxSends = 6
  MaxCalls = 0
  MaxQueue = 0
  MayFail = {}
PROPERTIES
  WritesReturn
  EventuallyInWindow
CHECK_DEADLOCK FALSE
