SPECIFICATION Spec
SYMMETRY Symmetry
CONSTANTS
  Reg = {r1, r2, r3}
  PAGESZ = 2
  Sizes = {1, 2, 3}
  MaxSz = 3
  MaxSbrk = 6
INVARIANT RegionsNeverOverlap
