SPECIFICATION Spec
CONSTANTS
  N = 3
  MaxSlots = 2
INVARIANTS
  TypeOK
  Lockstep
  NoLostWakeup
  TimerExitsLast
PROPERTIES
  ClockStable
  EverySlotEnds
  Shutdown
  ImplementsBarrier
