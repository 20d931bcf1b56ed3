SPECIFICATION Spec
CONSTANTS
  CAPACITY = 8
  DEFAULT_ALIGNMENT = 2
  PAGE_SIZE = 2
  ExtentSizes = {2, 4}
  Threads = {t1, t2}
  MAX_OBJECTS = 2
  Kinds = {"huge", "simple"}
  Sizes = {0, 1, 3}
  Alignments = {4}
  Capacities = {3}
  MAX_TRANSFER_SIZE = 2
  MAX_REQUESTS = 4
SYMMETRY ThreadSymmetry
INVARIANTS
  TypeOK
  DataIntact
  MappedForFpga
  CountersExact
PROPERTIES
  ImplementsPool
CHECK_DEADLOCK FALSE
