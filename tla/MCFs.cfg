SPECIFICATION Spec
CONSTANTS
  p1 = p1
  p2 = p2
  Proc = {p1, p2}
  NoProc = noproc
  Name = {"a", "d"}
  NINODES = 3
  NINODE = 3
  NBLOCKS = 4
  NDIRECT = 1
  MAXFILE = 2
  NFILE = 1
  NOFILE = 2
  Calls <- MCCalls
CHECK_DEADLOCK FALSE
INVARIANTS RefsCounted  BlocksOwned LinksCounted
