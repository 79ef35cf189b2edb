CONSTANTS
  hi = hi
  mid = mid
  idle = idle
  tick = tick
  s1 = s1
  none = none
  ma = ma
  mb = mb
  nothing = nothing
  Task <- MCTask
  Idle = idle
  TickTask = tick
  PrioMax = 2
  Obj = {}
  NoObj = none
  MaxDly = 1
  InitPrio <- MCInitPrio
  Uses = {"timeout", "suspend", "lock"}
  CallOpts <- OneOpts
  MaxNest = 1
  MaxLock = 1
  MaxSusp = 1
  InitCtr <- NoCtr
  MaxCtr = 1
  Sync = {"sem", "q", "semabort", "qabort"}
  SetCounts = {0}
  Msg = {ma}
  NoMsg = nothing
  QSize <- MCQSize
  NoTask = none
SPECIFICATION FairSyncSpec
INVARIANTS
  NothingLeftBehind
PROPERTIES
  EndedWaitStands
  TimeoutEnds
  TopTaskRuns
