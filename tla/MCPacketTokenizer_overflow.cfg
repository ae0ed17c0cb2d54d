CONSTANTS
  Byte = {0, 1}
  EOF_VALUE <- MCEof
  CAPACITY = 6
  VOICE_DATA_SIZE = 2
  Chunk <- MCChunk
  MaxBytes = 12
  MaxChunk = 4
SPECIFICATION MCSpec
INVARIANTS NothingLeftUnfound
CHECK_DEADLOCK FALSE
