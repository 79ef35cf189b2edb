CONSTANTS
  hi = hi
  mid = mid
  low = low
  idle = idle
  tick = tick
  m1 = m1
  m2 = m2
  none = none
  nobody = nobody
  Task <- MCTask
  Idle = idle
  TickTask = tick
  PrioMax = 3
  Obj = {m1, m2}
  NoObj = none
  MaxDly = 1
  InitPrio <- MCInitPrio
  Uses = {"del", "dly"}
  CallOpts <- NoOpts
  MaxNest = 0
  MaxLock = 0
  MaxSusp = 1
  NoTask = nobody
  MaxOwn = 1
  NestMod = 2
  MaxHeld = 1
  Careless = {}
  Renewed = {}
SPECIFICATION DelSpec
SYMMETRY Symmetric
INVARIANTS
  ListsAgree
  WaitersByPriority
CHECK_DEADLOCK FALSE
