CONSTANTS
  alice = alice
  bob = bob
  tcp = tcp
  udp = udp
  udp2 = udp2
  c1 = c1
  b1 = b1
  b2 = b2
  b3 = b3
  b4 = b4
  Buffer <- MCThree
  Session <- MCSession
  TcpManager = {}
  UdpManager = {udp, udp2}
  Connection = {}
  managerOf <- MCNoManagerOf
  SeqNumber = {1, 2}
  LIST_SIZE = 1
  SEND_LIMIT = 1
  MAX_PACKETS = 1
  ERROR_COUNT_MAXIMUM = 0
  WARNING = 1
  ERROR = 1
  SEVERE = 1
  None = None
SPECIFICATION RegisteredSpec
INVARIANTS NoRepeats BufferOwnership
PROPERTIES Relays
SYMMETRY MCSymmetry
VIEW MCView
CHECK_DEADLOCK FALSE
