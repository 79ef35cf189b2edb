CONSTANTS
  hi = hi
  mid = mid
  low = low
  idle = idle
  tick = tick
  m1 = m1
  m2 = m2
  none = none
  nobody = nobody
  Task <- MCTask
  Idle = idle
  TickTask = tick
  PrioMax = 3
  Obj = {m1}
  NoObj = none
  MaxDly = 2
  InitPrio <- MCInitPrio
  Uses = {"del", "dly"}
  CallOpts <- NoOpts
  MaxNest = 1
  MaxLock = 0
  MaxSusp = 1
  NoTask = nobody
  MaxOwn = 1
  NestMod = 2
  MaxHeld = 0
  Careless = {}
  Renewed = {m1}
SPECIFICATION FairDelSpec
INVARIANTS
  OwnerInherits
  OwnPrioAfterPost
PROPERTIES
  WaitersAreTold
  TopTaskGetsMutex
