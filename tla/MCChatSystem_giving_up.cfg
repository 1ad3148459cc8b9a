SPECIFICATION FairSpec
CONSTANTS
  c1 = c1
  c2 = c2
  c3 = c3
  alice = alice
  bob = bob
  NoConn = NoConn
  NoName = NoName
  Io = Io
  Nobody = Nobody
  Conns = {c1, c2}
  Names = {alice, bob}
  UserOf <- OwnName
  Callers = {}
  MaxClients = 2
  Inputs <- TextOnly
  MayLeave = {c1}
  Faults = {}
  SendBuf = 1
  Pipeline = 1
  MaxSends = 2
  MaxCalls = 0
  MaxQueue = 0
  MayFail = {c2}
PROPERTY
  WaitsForGivenUp
CHECK_DEADLOCK FALSE
