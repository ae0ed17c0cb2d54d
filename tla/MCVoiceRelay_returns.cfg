CONSTANTS
  alice = alice
  bob = bob
  tcp = tcp
  udp = udp
  udp2 = udp2
  c1 = c1
  b1 = b1
  b2 = b2
  b3 = b3
  b4 = b4
  Buffer <- MCFour
  Session <- MCSession
  TcpManager = {tcp}
  UdpManager = {udp}
  Connection = {c1}
  managerOf <- MCManagerOf
  SeqNumber = {1}
  LIST_SIZE = 1
  SEND_LIMIT = 1
  MAX_PACKETS = 2
  ERROR_COUNT_MAXIMUM = 1
  WARNING = 1
  ERROR = 1
  SEVERE = 2
  None = None
SPECIFICATION TalkingSpec
INVARIANTS TypeOK LeftoverBounded
PROPERTIES ReadReturns
CHECK_DEADLOCK FALSE
