SPECIFICATION BypassSpec
CONSTANTS
  Proc = {p1, p2, p3}
  NoProc = NoProc
  MAX_PRIO = 3
  MAX_QUEUE_SIZE = 3
  CPU = {c1, c2}
INVARIANTS
  TypeOK
  OneHolder
  NoProcessLost
  BoundedBypass
PROPERTIES
  FIFOWithinLevel
  PriorityRespected
  WorkConserving
  NoStarvation
