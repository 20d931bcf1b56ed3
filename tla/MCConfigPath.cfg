SPECIFICATION Spec
CONSTANTS
  DEPTH = 4
  Design <- MCDesign
  SYSTEM_ID = 0
  EMPTY_STREAM_CONSUMES_BUFFER = 1
  TRANSFER_SIZE = 4
  VADDR_BITS = 4
  BUFFER_SIZE_BITS = 2
  Threads = {app, irq}
  App = app
  BYTES_PER_FPGA_TRANSFER = 4
  MEMORY_ALIGNMENT_BYTES = 2
  VAddrs = {6}
  Sizes = {8}
  MAX_CALLS = 6
  READ_CALLS = 3
  MAX_REGISTERS = 2
INVARIANTS
  CommandsArrive
  ReadsAnswered
PROPERTIES
  ImplementsFifo
CHECK_DEADLOCK FALSE
