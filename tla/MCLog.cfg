SPECIFICATION Spec
CONSTANTS
  p1 = p1
  p2 = p2
  p3 = p3
  b1 = b1
  b2 = b2
  b3 = b3
  b4 = b4
  Proc = {p1, p2}
  Block = {b1, b2, b3}
  Val = {0, 1}
  v0 = 0
  MAXOPBLOCKS = 3
  LOGSIZE = 6
  OpBlocks = 2
PROPERTY CrashAtomic
