SPECIFICATION Spec
CONSTANTS
  Proc = {1, 2, 3}
  NoProc = NoProc
  MAX_PRIO = 1
  MAX_QUEUE_SIZE = 3
  CPU = {c1, c2}
  Loader = ld
  TimeSlots = {0, 1, 2}
  StartTimes = {0, 1}
  CodeSizes = {1, 3}
INVARIANTS
  TypeOK
  SliceExact
  SlotZeroWaits
  NoAbandonedWork
PROPERTIES
  FullSliceBeforePreemption
  AddedOnTime
  ImplementsDispatcher
  OneInstructionPerSlot
  EveryProcessFinishes
