SPECIFICATION SafeSpec
CONSTANTS
  Streams = {0, 1, 2}
  Managed = {0, 1}
  NUM_BUFFERS = 1
  CAPACITY = 2
  MAX_CAPACITY = 2
  BufferIds = {1, 2, 3}
  MAX_HANDLES = 2
  Lengths = {0, 3}
  Sizes = {2}
  CALLBACK = "acquire"
INVARIANTS
  TypeOK
  BuffersAccounted
  FpgaAgrees
  InterruptHasHandle
  HandleGetsItsOutput
CHECK_DEADLOCK FALSE
