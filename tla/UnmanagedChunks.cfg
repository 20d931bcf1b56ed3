SPECIFICATION SafeSpec
CONSTANTS
  Streams = {0}
  Managed = {}
  NUM_BUFFERS = 1
  CAPACITY = 2
  MAX_CAPACITY = 2
  BufferIds = {1, 2, 3, 4}
  MAX_HANDLES = 2
  Lengths = {0, 3}
  Sizes = {3}
  CALLBACK = "none"
INVARIANTS
  HandleGetsItsOutput
CHECK_DEADLOCK FALSE
