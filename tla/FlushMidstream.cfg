SPECIFICATION SafeSpec
CONSTANTS
  BEAT = 2
  TRANSFER = 4
  LEN_FIFO_DEPTH = 2
  PENDING_NOTIFY_DEPTH = 2
  SQ_DEPTH = 2
  BufferIds = {1, 2, 3}
  BufferSizes = {1, 2}
  MAX_ENQUEUED = 2
  MAX_BEATS = 4
  MAX_FLUSHES = 1
  FLUSH_MIDSTREAM = TRUE
INVARIANTS
  NotifyAfterCompletion
CHECK_DEADLOCK FALSE
