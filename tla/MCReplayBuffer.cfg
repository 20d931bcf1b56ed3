SPECIFICATION Spec
CONSTANTS
  BEAT = 2
  TRANSFER = 4
  MAX_TRANSFERS_PER_READ = 1
  MAX_WAITING_EXTENTS = 2
  MAX_OUTSTANDING_READS = 2
  MAX_PENDING = 2
  Rings <- SmallRings
  Streams <- Workloads
  MAX_STREAMS = 3
  MAX_BYTES = 18
  Lengths = {0, 3, 9, 15}
  NumReads = {1, 2}
INVARIANTS
  TypeOK
  OutputIsReplayed
  NoMemoryLeaks
  TwoSegments
PROPERTIES
  AllStreamsRead
CHECK_DEADLOCK FALSE
