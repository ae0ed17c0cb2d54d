CONSTANTS
  s1 = s1
  s2 = s2
  h1 = h1
  h2 = h2
  t1 = t1
  u1 = u1
  Session <- MCSession
  Handler <- MCHandler
  Monitor = monitor
  Acceptor = acceptor
  TcpManager = {}
  UdpManager = {}
  UdpGroups <- MCNoUdpGroups
  PoolOrder <- MCPoolOrder
  None = None
  MaxStarts = 5
  Stages = {"ringing"}
SPECIFICATION MCFairSpec
PROPERTIES InvalidSessionsDeleted
CHECK_DEADLOCK FALSE
