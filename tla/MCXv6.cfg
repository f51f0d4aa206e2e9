SPECIFICATION XSpec
CONSTANTS
  CPU = {c0, c1}
  NoCpu = none
  NLOCK = 2
  NPAGES = 12
  NPROC = 3
  PGSIZE = 2
  NKTAB = 1
  NPDE = 2
  NPTE = 2
  Reader = {p1, p2}
  NoReader = none
  INPUT_BUF = 4
  UINT = 8
  Char = {x, nl, eof}
  Newline = nl
  Eof = eof
  Sizes = {2}
  ROWS = 3
  COLS = 2
  SIZEOF = 2
  NALLOC = 4
  Limit = 14
  Bytes = {1, 3, 7}
  Gaps = {1}
  MAXARGS = 3
  MaxLine = 5
INVARIANTS
  LockInv
  PagesOwned SizeMapped
  NoMissedInput
  HeapTiled 
  AcceptsGrammar RunsAsWritten
PROPERTY
  ImplementsInputLine
