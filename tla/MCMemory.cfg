SPECIFICATION MemSpec
CONSTANTS
  NFrames = 2
  NPages = 3
  TABLE_ENTRIES = 2
  STACK_PAGES = 2
  Dir = {d1, d2}
  MaxLen = 1
  MaxRegions = 1
SYMMETRY DirSymmetry
INVARIANTS MemTypeOK FrameAccounting Isolation TablesCoverPages
PROPERTIES DestroyLeaksNoFrame
CHECK_DEADLOCK FALSE
