SPECIFICATION Spec
CONSTANTS
  Proc = {1, 2, 3, 4, 5, 6, 7, 8, 9, 10, 11, 12}
  NoProc = NoProc
  MAX_PRIO = 1
  MAX_QUEUE_SIZE = 10
  CPU = {c1}
  Loader = ld
  TimeSlots = {2}
  StartTimes = {0}
  CodeSizes = {20}
INVARIANT AddedIsKept
