SPECIFICATION Spec
CONSTANTS
  NUM_STREAMS = 2
  PORTS_PER_STREAM <- TwoPortsAndOne
  DATA_ORDER_DEPTH = 2
  CQ_ORDER_DEPTH = 2
  SKID_DEPTH = 1
  SQ_DEPTH = 2
  Workloads <- Jobs
  MAX_FOREIGN = 1
INVARIANTS
  TypeOK
  DataFollowsRequests
  CompletionsRouted
  BoundedWait
PROPERTIES
  AllNotified
CHECK_DEADLOCK FALSE
