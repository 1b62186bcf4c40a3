SPECIFICATION Spec
CHECK_DEADLOCK FALSE
SYMMETRY Symmetry
CONSTANTS
  Reg = {r1, r2, r3}
  PAGESZ = 2
  Sizes = {1, 2, 3}
  MaxSz = 3
  MaxSbrk = 6
INVARIANTS
  BytesOwnedOnce
  NoByteLost
  Coalesced
  Backed
