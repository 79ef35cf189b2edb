CONSTANTS
  hi = hi
  mid = mid
  idle = idle
  tick = tick
  s1 = s1
  none = none
  ma = ma
  mb = mb
  nothing = nothing
  Task <- MCTask
  Idle = idle
  TickTask = tick
  PrioMax = 2
  Obj = {s1}
  NoObj = none
  MaxDly = 1
  InitPrio <- MCInitPrio
  Uses = {}
  CallOpts <- NoOpts
  MaxNest = 1
  MaxLock = 0
  MaxSusp = 1
  InitCtr <- OneCtr
  MaxCtr = 1
  Sync = {"sem", "semabort"}
  SetCounts = {0}
  Msg = {ma}
  NoMsg = nothing
  QSize <- MCQSize
  NoTask = none
SPECIFICATION SyncSpec
INVARIANTS
  OwnPendsAgree
