SPECIFICATION Spec
CONSTANTS
  Proc = {1}
  NoProc = NoProc
  MAX_PRIO = 1
  MAX_QUEUE_SIZE = 2
  CPU = {c1, c2}
  Loader = ld
  TimeSlots = {2}
  StartTimes = {0}
  CodeSizes = {3}
PROPERTY ProgramEnds
