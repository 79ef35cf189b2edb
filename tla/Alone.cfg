CONSTANTS
  c1 = c1
  c2 = c2
  t1 = t1
  t2 = t2
  once = once
  each = each
  both = both
  none = none
  qa = qa
  qb = qb
  va = va
  vb = vb
  nothing = nothing
  ta = ta
  tb = tb
  oa = oa
  ob = ob
  Client = {c1, c2}
  NbrBlks = 4
  Task = {ta, tb}
  Obj = {oa, ob}
  PrioMax = 1
  Val = {va}
  NoVal = nothing
  Tables <- MCTables
  InitPrio <- MCInitPrio
  Limit = 1
  Uses = {"abort", "timeout", "chprio", "del"}
  Careless = FALSE
  Tmr = {once, each, both}
  NoTmr = none
  Config <- MCConfig
  Wrap = 8
  TickValues = 1048576
  Rates = {60, 100, 250, 300, 1000}
  Hours = {0}
  Minutes = {0, 30}
  Seconds = {0, 59}
  Millis = {0, 1, 2, 4, 5, 6, 499, 500, 501, 995, 999}
  WheelSize = 2
  UpdateCnt = 1
  MaxOwed = 1
  Careful = TRUE
SPECIFICATION AloneSpec
SYMMETRY Symmetric
INVARIANTS
  LinksAgree
  FreeListIsRest
  RoundedDelay
  NobodyWaitsInVain
  OneReason
PROPERTIES
  WakesOnTime
  ExpiresOnTime
  QueuesKeepOrder
  NothingLost
