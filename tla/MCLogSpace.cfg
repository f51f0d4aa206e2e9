SPECIFICATION FairSpec
CONSTANTS
  p1 = p1
  p2 = p2
  p3 = p3
  b1 = b1
  b2 = b2
  b3 = b3
  b4 = b4
  Proc = {p1, p2, p3}
  Block = {b1, b2, b3, b4}
  Val = {0}
  v0 = 0
  MAXOPBLOCKS = 2
  LOGSIZE = 4
  OpBlocks = 1
INVARIANT LogFits
PROPERTY SleepersWoken
