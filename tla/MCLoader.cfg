SPECIFICATION Spec
CONSTANT NumProcesses = 3
INVARIANTS
  TakenAreLoaded
  PidsCounted
PROPERTY LoadingEnds
