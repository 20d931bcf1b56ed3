SPECIFICATION Spec
CONSTANTS
  Streams = {0, 1}
  Managed = {0, 1}
  NUM_BUFFERS = 1
  CAPACITY = 2
  MAX_CAPACITY = 2
  BufferIds = {1, 2, 3}
  MAX_HANDLES = 2
  Lengths = {1}
  Sizes = {1}
  CALLBACK = "acquire"
PROPERTIES
  HandlesEnd
CHECK_DEADLOCK FALSE
