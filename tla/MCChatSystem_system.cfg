SPECIFICATION Spec
CONSTANTS
  c1 = c1
  c2 = c2
  c3 = c3
  alice = alice
  bob = bob
  NoConn = NoConn
  NoName = NoName
  Io = Io
  Nobody = Nobody
  Conns = {c1, c2}
  Names = {alice, bob}
  UserOf <- OwnName
  Callers = {}
  MaxClients = 2
  Inputs <- TextOnly
  MayLeave = {c2}
  Faults = {}
  SendBuf = 2
  Pipeline = 1
  MaxSends = 3
  MaxCalls = 0
  MaxQueue = 1
  MayFail = {}
INVARIANTS
  WindowsAgree
CHECK_DEADLOCK FALSE
