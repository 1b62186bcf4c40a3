SPECIFICATION Spec
CHECK_DEADLOCK FALSE
SYMMETRY Symmetry
CONSTANTS
  Proc = {p1, p2}
  RamFrames = 2
  SwapFrames = 4
  MaxPgn = 3
  MaxReq = 2
INVARIANTS
  FrameOwnedOnce
  SwapOwnedOnce
  NoFrameVanishes
  UsedAreTaken
  SwappingKeepsData
