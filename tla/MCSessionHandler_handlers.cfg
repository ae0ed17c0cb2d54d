CONSTANTS
  Session = {s1, s2}
  Handler = {h1, h2}
  Monitor = monitor
  Reader = reader
  Channel = {c1, c2}
  None = None
  MaxReads = 2
  MaxMessages = 2
  MaxCloses = 1
SPECIFICATION MCSpec
INVARIANTS TypeOK DiesOfSharing SessionConfined WorkCovered WrittenInOrder
SYMMETRY Symmetric
CHECK_DEADLOCK FALSE
