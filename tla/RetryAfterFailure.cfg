SPECIFICATION Spec
CONSTANTS
  Streams = {0, 1}
  Managed = {0, 1}
  NUM_BUFFERS = 1
  CAPACITY = 2
  MAX_CAPACITY = 2
  BufferIds = {1}
  MAX_HANDLES = 2
  Lengths = {1, 2}
  Sizes = {1}
  CALLBACK = "none"
PROPERTIES
  EveryHandleEnds
CHECK_DEADLOCK FALSE
