SPECIFICATION FairSpec
CONSTANTS
  NPROC = 3
  c0 = c0
  c1 = c1
  none = none
  CPU = {c0}
  cpu0 = c0
  NoCpu = none
  MaxPid = 3
  Syscalls = {"fork", "exit", "wait", "kill", "getppid"}
  KillArgs = {2}
PROPERTIES
  RunnableRuns
  
  KilledDies
