CHECK_DEADLOCK FALSE
SPECIFICATION Spec
CONSTANTS
  p1 = p1
  p2 = p2
  x1 = x1
  x2 = x2
  Proc = {p1, p2}
  Buf = {x1, x2}
  Block = {1, 2, 3}
  NoProc = noproc
  NoBuf = nobuf
  NoBlock = noblock
  InitialLru <- MCLru
  Changed = {1}
  Faulty = {2}
  MaxVersion = 1
  MaxPinned = 1
INVARIANTS Coherent NoLostWakeup NoBuffersLeft
PROPERTY RequestsEnd
