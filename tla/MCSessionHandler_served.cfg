CONSTANTS
  Session = {s1}
  Handler = {h1, h2}
  Monitor = monitor
  Reader = reader
  Channel = {c1, c2}
  None = None
  MaxReads = 2
  MaxMessages = 2
  MaxCloses = 1
SPECIFICATION MCFairSpec
PROPERTIES WorkServed
CHECK_DEADLOCK FALSE
