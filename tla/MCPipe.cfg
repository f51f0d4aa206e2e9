SPECIFICATION Spec
CONSTANTS
  a = a
  b = b
  c = c
  Proc = {a, b, c}
  Byte = {0, 1}
  PIPESIZE = 2
  M = 4
  MaxN = 2
  MaxForks = 1
  Starts <- OneEach
INVARIANTS NoLostWakeup FreedUnused
PROPERTY InOrder
\* Both ends may be closed for good.
CHECK_DEADLOCK FALSE
