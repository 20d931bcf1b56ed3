SPECIFICATION Spec
CONSTANTS
  Streams = {0, 1, 2}
  Managed = {0, 1}
  NUM_BUFFERS = 1
  CAPACITY = 2
  MAX_CAPACITY = 2
  BufferIds = {1}
  MAX_HANDLES = 3
  Lengths = {0, 3}
  Sizes = {2}
  CALLBACK = "read"
INVARIANTS
  HandleGetsItsOutput
PROPERTIES
  HandlesEnd
CHECK_DEADLOCK FALSE
