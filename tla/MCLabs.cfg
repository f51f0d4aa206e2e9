SPECIFICATION LSpec
CONSTANTS
  size = 3
  items = 8
  MAX_THREAD = 6
  NumThreads = {0, 1, 2, 3, 4, 5}
  NumExecs = {0, 1, 2, 3}
  Writers = {w1, w2}
  Readers = {r1, r2}
  Printers = {p1}
  Creators = {c1}
  Deleters = {d1}
  Word = {"a", "b"}
  ITEMS = 2
  MaxObj = 1
  Pid = {1, 2}
  NUM_PAGES = 2
  NUM_FRAMES = 3
  NUM_STORAGE_PAGES = 6
  Algorithm = {"f", "l"}
  BSIZE = 3
  NDIRECT = 2
  NINDIRECT = 2
  NMETA = 2
  FSSIZE = 24
  NINODES = 5
  MAXARGS = 3
  MaxLine = 6
CHECK_DEADLOCK FALSE
INVARIANTS
  BufferInv
  FairTurns
  TablesAgree 
  ReadsBack 
PROPERTIES
  BufferEnds ThreadsEnd  
