SPECIFICATION Spec
CONSTANTS
  NPROC = 3
  c0 = c0
  c1 = c1
  none = none
  CPU = {c0, c1}
  cpu0 = c0
  NoCpu = none
  MaxPid = 3
  Syscalls = {"fork", "wait", "kill", "sleep"}
  KillArgs = {1, 2}
INVARIANTS
  StackInv
  ParentsLive
  NoMissedExit
  NoMissedTick
