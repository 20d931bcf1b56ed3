SPECIFICATION Spec
CONSTANTS
  Streams = {s1, s2}
  Callers = {c1, c2}
  MAX_OUTPUT = 2
INVARIANTS
  TypeOK
  NoLostWakeup
  TakenOnce
PROPERTIES
  EndIsFinal
  ImplementsContract
  CallsReturn
CHECK_DEADLOCK FALSE
