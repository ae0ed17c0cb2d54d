CONSTANTS
  s1 = s1
  s2 = s2
  h1 = h1
  h2 = h2
  t1 = t1
  u1 = u1
  Session <- MCSession
  Handler <- MCHandler
  Monitor = monitor
  Acceptor = acceptor
  TcpManager = {t1}
  UdpManager = {u1}
  UdpGroups <- MCUdpGroups
  PoolOrder <- MCPoolOrder
  None = None
  MaxStarts = 5
  Stages = {"fresh", "loggedIn", "ringing", "talking"}
SPECIFICATION MCSpec
INVARIANTS TypeOK PoolConservation AllocatedIsReapable RegistrationTracked NoSelfCall
CHECK_DEADLOCK FALSE
