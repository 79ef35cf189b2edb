CONSTANTS
  hi = hi
  mid1 = mid1
  mid2 = mid2
  idle = idle
  tick = tick
  s1 = s1
  none = none
  Task <- MCTask
  Idle = idle
  TickTask = tick
  PrioMax = 2
  Obj = {s1}
  NoObj = none
  MaxDly = 1
  InitPrio <- MCInitPrio
  Uses = {"suspend", "chprio", "dly", "lock", "set"}
  CallOpts <- NoOpts
  MaxNest = 1
  MaxLock = 1
  MaxSusp = 1
  InitCtr <- MCInitCtr
  MaxCtr = 1
SPECIFICATION Spec
SYMMETRY Mids
INVARIANTS
  ListsAgree
  WaitersByPriority
  RunningIsReady
  HighestRuns
