SPECIFICATION Spec
CONSTANTS
  c1 = c1
  c2 = c2
  c3 = c3
  k1 = k1
  alice = alice
  bob = bob
  NoConn = NoConn
  NoName = NoName
  Io = Io
  Nobody = Nobody
  Conns = {c1, c2}
  Names = {alice, bob}
  UserOf <- EmptyName
  Callers = {}
  MaxClients = 2
  Inputs <- AnyOfThem
  MayLeave = {c1}
  Faults = {"accept", "split"}
  SendBuf = 1
  Pipeline = 2
  MaxSends = 3
  MaxCalls = 0
INVARIANTS
  NoLostSession
  NoEarlyReturn
CHECK_DEADLOCK FALSE
