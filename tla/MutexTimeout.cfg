CONSTANTS
  hi = hi
  mid = mid
  low = low
  idle = idle
  tick = tick
  m1 = m1
  m2 = m2
  none = none
  nobody = nobody
  Task <- MCTask
  Idle = idle
  TickTask = tick
  PrioMax = 3
  Obj = {m1}
  NoObj = none
  MaxDly = 1
  InitPrio <- MCInitPrio
  Uses = {"dly", "timeout", "abort"}
  CallOpts <- NoOpts
  MaxNest = 1
  MaxLock = 0
  MaxSusp = 0
  NoTask = nobody
  MaxOwn = 2
  NestMod = 3
  MaxHeld = 0
SPECIFICATION Spec
INVARIANTS
  PrioCurIsCurrent
  OwnersAgree
