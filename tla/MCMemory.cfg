SPECIFICATION MemorySpec
CHECK_DEADLOCK FALSE
CONSTANTS
  Self = self
  Proc = {self, other}
  RamFrames = 3
  SwapFrames = 2
  MaxPgn = 5
  MaxReq = 2
  Reg = {r1, r2}
  Watched = r1
  PAGESZ = 2
  OtherPages = 2
  Offsets = {0, 5, 7}
  Sizes = {1, 8}
INVARIANT BytesKept
PROPERTY ImplementsRegions
VIEW MemoryView
