---------------------------- MODULE OSMutexProof ----------------------------
(***************************************************************************)
(* Theorems about mutexes: who owns one is beyond doubt, the kernel's      *)
(* tables survive priority inheritance and deletion, and the owner has at  *)
(* least the priority of its waiters, for every set of tasks and mutexes.  *)
(***************************************************************************)
EXTENDS OSMutexDel, OSKernelProof

(* No task acquires a mutex it has more often than OwnerNestingCtr counts; *)
(* OSMutexPend() does not look.                                            *)
NoWrap == MaxOwn \in 1..NestMod - 1

(* A task in a pend knows which mutex it asked for.  It is in the pend list*)
(* of that one, which another task owns, or it was readied, and may be told*)
(* that it has the mutex without exceeding its bound.                      *)
ArgKnown ==
  \A t \in Task :
    /\ arg[t] # NoObj <=> InPend(t)
    /\ os.pendObj[t] # NoObj =>
         InPend(t) /\ os.pendObj[t] = arg[t] /\ owner[arg[t]] \in Task \ {t}
    /\ InPend(t) /\ (os.pendObj[t] # NoObj \/ os.pendStatus[t] = "OK") =>
         holds[t][arg[t]] < MaxOwn

(* t was handed m and has yet to read PendStatus.                          *)
IsHeir(t, m) ==
  /\ InPend(t) /\ arg[t] = m /\ own[m] = 1
  /\ os.pendObj[t] = NoObj /\ os.pendStatus[t] = "OK"

(* A mutex is free or counted, and its owner believes to have it at least  *)
(* as often as it is counted.  More often after the mutex was deleted      *)
(* between a hand-over and the moment the heir read PendStatus.            *)
OwnerSound(m) ==
  /\ owner[m] = NoTask <=> own[m] = 0
  /\ owner[m] # Idle
  /\ \A t \in Task : owner[m] = t => IsHeir(t, m) \/ own[m] =< holds[t][m]

(* What holds whether or not mutexes are deleted.                          *)
Base ==
  /\ KInv /\ Places
  /\ TypeOK
  /\ crit.op # "post"
  /\ ArgKnown
  /\ \A m \in Obj : OwnerSound(m)

(* Where no mutex is deleted, who reads PendStatus = OK owns the mutex,    *)
(* and who believes to have a mutex is its owner and knows the count.      *)
ArgAgrees ==
  \A t \in Task :
    InPend(t) /\ os.pendObj[t] = NoObj /\ os.pendStatus[t] = "OK" =>
      owner[arg[t]] = t /\ holds[t][arg[t]] = 0

OwnerTold(m) ==
  /\ \A t \in Task : holds[t][m] > 0 => owner[m] = t /\ own[m] = holds[t][m]
  /\ \A t \in Task : owner[m] = t /\ holds[t][m] = 0 => IsHeir(t, m)

MInv == Base /\ ArgAgrees /\ \A m \in Obj : OwnerTold(m)

LEMMA Types ==
  ASSUME Base
  PROVE  /\ owner \in [Obj -> Task \cup {NoTask}] /\ own \in [Obj -> 0..NestMod - 1]
         /\ orig \in [Obj -> Prio] /\ arg \in [Task -> Obj \cup {NoObj}]
         /\ holds \in [Task -> [Obj -> 0..MaxOwn]]
         /\ os.prio \in [Task -> Prio] /\ os.pendObj \in [Task -> Obj \cup {NoObj}]
         /\ os.pendStatus \in [Task -> Status] /\ pc \in [Task -> Where]
         /\ NestMod \in Nat \ {0, 1} /\ MaxOwn \in Nat
         /\ NoTask \notin Task /\ NoObj \notin Obj
  BY MutexAssumption, CoreAssumption DEF Base, TypeOK, KTypeOK, TCBTables

(* The running task is outside any wait and knows what it owns.            *)
LEMMA RunningOwner ==
  ASSUME Base, NEW t \in Task, Running(t)
  PROVE  /\ os.cur = t /\ t # Idle /\ os.state[t] = {} /\ os.pendObj[t] = NoObj
         /\ ~InPend(t) /\ pc[t] = "run" /\ crit = Free /\ crit.op = "none"
         /\ \A m \in Obj : owner[m] = t => 0 < own[m] /\ own[m] =< holds[t][m]
<1>1. os.cur = t /\ os.state[t] = {} /\ t # Idle
  BY RunningReady DEF Base
<1>2. os.pendObj[t] = NoObj
  BY <1>1 DEF Base, KInv, Good, PendAgrees
<1>3. ~InPend(t) /\ pc[t] = "run" /\ crit = Free /\ crit.op = "none"
  BY DEF Running, InPend, Free
<1>4. ASSUME NEW m \in Obj, owner[m] = t PROVE 0 < own[m] /\ own[m] =< holds[t][m]
  BY <1>3, <1>4, Types DEF Base, OwnerSound, IsHeir
<1> QED BY <1>1, <1>2, <1>3, <1>4

LEMMA RunningCounts ==
  ASSUME MInv, NEW t \in Task, Running(t)
  PROVE  \A m \in Obj : owner[m] = t => own[m] = holds[t][m]
<1> SUFFICES ASSUME NEW m \in Obj, owner[m] = t PROVE own[m] = holds[t][m]
  OBVIOUS
<1>1. 0 < own[m] /\ own[m] =< holds[t][m]
  BY RunningOwner DEF MInv
<1>2. own[m] \in Nat /\ holds[t][m] \in Nat
  BY Types DEF MInv
<1>3. holds[t][m] > 0
  BY <1>1, <1>2
<1> QED BY <1>3 DEF MInv, OwnerTold

-----------------------------------------------------------------------------
(* What inheritance and its end do to the tables.                          *)

LEMMA InheritGood ==
  ASSUME NEW o, Good(o), NEW u \in Task \ {Idle}, NEW p \in Prio
  PROVE  LET new == Inherit(o, u, p)
         IN  /\ Good(new)
             /\ new.prio = IF o.prio[u] =< p THEN o.prio ELSE [o.prio EXCEPT ![u] = p]
             /\ new.state = o.state
             /\ new.cur = o.cur /\ new.prioCur = o.prioCur
             /\ new.pendObj = o.pendObj /\ new.pendStatus = o.pendStatus
<1>1. CASE o.prio[u] =< p
  BY <1>1 DEF Inherit
<1>2. CASE ~(o.prio[u] =< p)
  <2> DEFINE new == ChangePrio(o, u, p, TRUE)
  <2>1. Inherit(o, u, p) = new
    BY <1>2 DEF Inherit, ChangePrio
  <2>2. /\ Good(new)
        /\ new.prio = [o.prio EXCEPT ![u] = p]
        /\ new.state = o.state
        /\ new.cur = o.cur /\ new.prioCur = o.prioCur
        /\ new.pendObj = o.pendObj /\ new.pendStatus = o.pendStatus
    <3>1. \A self \in BOOLEAN :
            LET any == ChangePrio(o, u, p, self)
            IN  /\ Good(any)
                /\ any.prio = [o.prio EXCEPT ![u] = p]
                /\ any.state = o.state
                /\ any.cur = o.cur /\ any.prioCur = o.prioCur
                /\ any.pendObj = o.pendObj /\ any.pendStatus = o.pendStatus
      BY ChangePrioGood
    <3> QED BY <3>1, Zenon
  <2> HIDE DEF new
  <2> QED BY <1>2, <2>1, <2>2
<1> QED BY <1>1, <1>2

(* OSPrioCur occurs in no other table's meaning.                           *)
LEMMA SetPrioCurGood ==
  ASSUME NEW o, Good(o), NEW p \in Prio
  PROVE  LET new == [o EXCEPT !.prioCur = p]
         IN  /\ Good(new) /\ new.prioCur = p
             /\ new.prio = o.prio /\ new.state = o.state /\ new.cur = o.cur
             /\ new.pendObj = o.pendObj /\ new.pendStatus = o.pendStatus
             /\ new.pend = o.pend
<1> DEFINE new == [o EXCEPT !.prioCur = p]
<1>1. /\ new \in TCBTables /\ new.prioCur = p
      /\ new.prio = o.prio /\ new.state = o.state /\ new.pendOn = o.pendOn
      /\ new.pendObj = o.pendObj /\ new.pendStatus = o.pendStatus
      /\ new.tick = o.tick /\ new.susp = o.susp /\ new.rdy = o.rdy
      /\ new.pend = o.pend /\ new.cur = o.cur
  BY DEF Good, TCBTables
<1> HIDE DEF new
<1>2. Good(new)
  BY <1>1 DEF Good, ReadyAgrees, PendAgrees, BitsAgree, TicksAgree, Sorted, IdleReady
<1> QED BY <1>1, <1>2 DEF new

LEMMA RestoreGood ==
  ASSUME NEW o, Good(o), NEW t \in Task \ {Idle}, o.state[t] = {}, NEW p \in Prio
  PROVE  LET new == Restore(o, t, p)
         IN  /\ Good(new)
             /\ new.prio = [o.prio EXCEPT ![t] = p]
             /\ new.state = o.state /\ new.cur = o.cur
             /\ new.pendObj = o.pendObj /\ new.pendStatus = o.pendStatus
             /\ new.pend = o.pend
             /\ o.prioCur = o.prio[t] => new.prioCur = p
<1>1. o.prio \in [Task -> Prio]
  BY DEF Good, TCBTables
<1>2. CASE o.prio[t] = p
  <2>1. [o.prio EXCEPT ![t] = p] = o.prio
    BY <1>1, <1>2
  <2> QED BY <1>2, <2>1 DEF Restore
<1>3. CASE o.prio[t] # p
  <2> DEFINE moved == [OS_RdyListRemove(o, t) EXCEPT !.prio[t] = p]
             last  == IF FALSE THEN OS_RdyListInsertHead(moved, t)
                      ELSE OS_RdyListInsertTail(moved, t)
             new   == [last EXCEPT !.prioCur = p]
  <2>1. Restore(o, t, p) = new
    BY <1>3 DEF Restore
  <2>2. /\ Good(last)
        /\ last.prio = [o.prio EXCEPT ![t] = p]
        /\ last.state = o.state
        /\ last.cur = o.cur /\ last.prioCur = o.prioCur
        /\ last.pendObj = o.pendObj /\ last.pendStatus = o.pendStatus
        /\ last.pend = o.pend
    <3>1. FALSE \in BOOLEAN
      OBVIOUS
    <3> QED BY <3>1, MoveReadyGood, ZenonT(60)
  <2> HIDE DEF last
  <2>3. /\ Good(new) /\ new.prioCur = p
        /\ new.prio = last.prio /\ new.state = last.state /\ new.cur = last.cur
        /\ new.pendObj = last.pendObj /\ new.pendStatus = last.pendStatus
        /\ new.pend = last.pend
    BY <2>2, SetPrioCurGood
  <2> HIDE DEF new
  <2> QED BY <2>1, <2>2, <2>3
<1> QED BY <1>2, <1>3

(* OwnerNestingCtr neither wraps nor goes below zero.                      *)
LEMMA Counting ==
  ASSUME NEW n \in 1..NestMod - 1
  PROVE  /\ (n + NestMod - 1) % NestMod = n - 1
         /\ n + 1 < NestMod => (n + 1) % NestMod = n + 1
<1>1. NestMod \in Nat \ {0, 1}
  BY MutexAssumption
<1>2. (n + NestMod - 1) % NestMod = n - 1
  BY <1>1, Z3
<1>3. n + 1 < NestMod => (n + 1) % NestMod = n + 1
  BY <1>1, Z3
<1> QED BY <1>2, <1>3

-----------------------------------------------------------------------------
(* The invariant.                                                          *)

LEMMA InitInv == NoWrap /\ Init => MInv
<1> SUFFICES ASSUME NoWrap, Init PROVE MInv
  OBVIOUS
<1>1. KInv /\ Places /\ crit.op # "post"
  BY KInitInv, KInitPlaces DEF Init, KInit, Free
<1>2. TypeOK
  <2>1. NestMod \in Nat \ {0, 1} /\ MaxOwn \in Nat /\ PrioMax \in Nat
    BY MutexAssumption, CoreAssumption
  <2>2. 0 \in 0..NestMod - 1 /\ 0 \in 0..MaxOwn /\ PrioMax \in Prio
    BY <2>1 DEF Prio
  <2> QED BY <1>1, <2>2 DEF Init, TypeOK, KInv
<1>3. \A t \in Task : ~InPend(t) /\ os.pendObj[t] = NoObj
  BY <1>1 DEF Init, KInit, InPend, Places
<1>4. ArgKnown /\ ArgAgrees
  BY <1>3, CoreAssumption DEF Init, ArgKnown, ArgAgrees
<1>5. \A m \in Obj : OwnerSound(m) /\ OwnerTold(m)
  BY MutexAssumption, CoreAssumption DEF Init, OwnerSound, OwnerTold
<1> QED BY <1>1, <1>2, <1>4, <1>5 DEF MInv, Base

(* A step that changes nothing of the kernel.                              *)
LEMMA KernelIdle ==
  ASSUME Base, UNCHANGED kvars
  PROVE  /\ KInv' /\ Places' /\ crit'.op # "post"
         /\ \A t \in Task : InPend(t)' <=> InPend(t)
  BY DEF Base, kvars, KInv, KTypeOK, TickTaskRuns, RunningIsReady, LockedIsReady,
         LoopsEnd, Places, InPend

(* A step of the kernel ends no wait with OK.                              *)
LEMMA KernelStepInv ==
  ASSUME Base, KNext, UNCHANGED mvars PROVE Base' /\ (MInv => MInv')
<1>1. KInv' /\ Places' /\ WaitsEffect
  BY KNextInv, KNextWaits DEF Base
<1>2. TypeOK'
  BY <1>1 DEF Base, TypeOK, mvars, KInv
<1>3. /\ os.pendObj \in [Task -> Obj \cup {NoObj}]
      /\ os.pendStatus \in [Task -> Status]
  BY Types
<1>4. NoPost
  BY <1>1 DEF Base, WaitsEffect
<1>5. ASSUME NEW t \in Task
      PROVE  /\ InPend(t)' <=> InPend(t)
             /\ \/ /\ os'.pendObj[t] = os.pendObj[t]
                   /\ os'.pendStatus[t] = os.pendStatus[t]
                \/ /\ os.pendObj[t] # NoObj /\ os'.pendObj[t] = NoObj
                   /\ os'.pendStatus[t] # "OK"
  <2>1. CASE WaitsStay
    BY <2>1 DEF WaitsStay, SamePlaces
  <2>2. ASSUME NEW u \in Task, NEW status \in {"TIMEOUT", "ABORT"},
               WaitEnds(u, status)
        PROVE  /\ InPend(t)' <=> InPend(t)
               /\ \/ /\ os'.pendObj[t] = os.pendObj[t]
                     /\ os'.pendStatus[t] = os.pendStatus[t]
                  \/ /\ os.pendObj[t] # NoObj /\ os'.pendObj[t] = NoObj
                     /\ os'.pendStatus[t] # "OK"
    <3>1. InPend(t)' <=> InPend(t)
      BY <2>2 DEF WaitEnds, SamePlaces
    <3>2. CASE t = u
      BY <1>3, <2>2, <3>1, <3>2 DEF WaitEnds
    <3>3. CASE t # u
      BY <1>3, <2>2, <3>1, <3>3 DEF WaitEnds
    <3> QED BY <3>2, <3>3
  <2> QED BY <1>1, <1>4, <2>1, <2>2 DEF WaitsEffect, NoPost
<1>6. ArgKnown'
  BY <1>5 DEF Base, ArgKnown, mvars
<1>7. ASSUME NEW m \in Obj, NEW t \in Task, IsHeir(t, m) PROVE IsHeir(t, m)'
  BY <1>5, <1>7 DEF IsHeir, mvars
<1>8. ASSUME NEW m \in Obj PROVE OwnerSound(m)'
  BY <1>7 DEF Base, OwnerSound, mvars
<1>9. Base'
  BY <1>1, <1>2, <1>4, <1>6, <1>8 DEF Base, NoPost
<1>10. ASSUME MInv PROVE ArgAgrees' /\ \A m \in Obj : OwnerTold(m)'
  BY <1>5, <1>7, <1>10 DEF MInv, ArgAgrees, OwnerTold, mvars
<1> QED BY <1>9, <1>10 DEF MInv

LEMMA AcquireInv ==
  ASSUME NoWrap, Base, NEW t \in Task, NEW m \in Obj, Running(t), Acquire(t, m),
         holds[t][m] < MaxOwn, UNCHANGED <<nest, lock, crit>>
  PROVE  Base' /\ (MInv => MInv')
<1>1. UNCHANGED kvars /\ UNCHANGED arg /\ own[m] = 0
      /\ owner' = [owner EXCEPT ![m] = t] /\ orig' = [orig EXCEPT ![m] = os.prio[t]]
      /\ own' = [own EXCEPT ![m] = 1] /\ holds' = [holds EXCEPT ![t][m] = @ + 1]
  BY DEF Acquire, kvars
<1>2. /\ owner \in [Obj -> Task \cup {NoTask}] /\ own \in [Obj -> 0..NestMod - 1]
      /\ orig \in [Obj -> Prio] /\ arg \in [Task -> Obj \cup {NoObj}]
      /\ holds \in [Task -> [Obj -> 0..MaxOwn]] /\ os.prio \in [Task -> Prio]
      /\ NestMod \in Nat \ {0, 1} /\ MaxOwn \in Nat
      /\ NoTask \notin Task /\ NoObj \notin Obj
  BY Types
<1>3. owner[m] = NoTask
  BY <1>1 DEF Base, OwnerSound
<1>4. KInv' /\ Places' /\ crit'.op # "post" /\ \A u \in Task : InPend(u)' <=> InPend(u)
  BY <1>1, KernelIdle
<1>5. /\ holds'[t][m] = holds[t][m] + 1 /\ holds'[t][m] >= 1
      /\ \A u \in Task, n \in Obj : u # t \/ n # m => holds'[u][n] = holds[u][n]
      /\ owner'[m] = t /\ own'[m] = 1
      /\ \A n \in Obj \ {m} : owner'[n] = owner[n] /\ own'[n] = own[n]
  BY <1>1, <1>2
<1>6. TypeOK'
  <2>1. holds[t][m] + 1 \in 0..MaxOwn
    BY <1>2
  <2>2. holds' \in [Task -> [Obj -> 0..MaxOwn]]
    BY <1>1, <1>2, <2>1
  <2> QED BY <1>1, <1>2, <1>4, <2>2 DEF TypeOK, KInv
<1>7. ~InPend(t) /\ t # Idle
  BY RunningOwner
<1>8. ArgKnown'
  <2>1. ASSUME NEW u \in Task, InPend(u) PROVE arg[u] \in Obj /\ holds'[u][arg[u]] = holds[u][arg[u]]
    BY <1>2, <1>5, <1>7, <2>1 DEF Base, ArgKnown
  <2>2. ASSUME NEW u \in Task, os.pendObj[u] # NoObj
        PROVE  owner'[arg[u]] = owner[arg[u]]
    BY <1>2, <1>3, <1>5, <2>2 DEF Base, ArgKnown
  <2> QED BY <1>1, <1>4, <2>1, <2>2 DEF Base, ArgKnown, kvars
<1>9. ASSUME NEW n \in Obj \ {m}, NEW u \in Task, IsHeir(u, n) PROVE IsHeir(u, n)'
  BY <1>1, <1>4, <1>5, <1>9 DEF IsHeir, kvars
<1>10. ASSUME NEW n \in Obj PROVE OwnerSound(n)'
  <2>1. CASE n = m
    BY <1>2, <1>5, <1>7, <2>1 DEF OwnerSound
  <2>2. CASE n # m
    BY <1>5, <1>9, <2>2 DEF Base, OwnerSound
  <2> QED BY <2>1, <2>2
<1>11. Base'
  BY <1>4, <1>6, <1>8, <1>10 DEF Base
<1>12. ASSUME MInv PROVE ArgAgrees' /\ \A n \in Obj : OwnerTold(n)'
  <2>1. \A u \in Task : holds[u][m] = 0
    BY <1>2, <1>3, <1>12 DEF MInv, OwnerTold
  <2>2. ArgAgrees'
    <3>1. ASSUME NEW u \in Task, InPend(u), os.pendObj[u] = NoObj, os.pendStatus[u] = "OK"
          PROVE  arg[u] \in Obj \ {m} /\ owner[arg[u]] = u /\ holds[u][arg[u]] = 0
      BY <1>2, <1>3, <1>12, <3>1 DEF MInv, Base, ArgKnown, ArgAgrees
    <3> QED BY <1>1, <1>4, <1>5, <3>1 DEF ArgAgrees, kvars
  <2>3. ASSUME NEW n \in Obj PROVE OwnerTold(n)'
    <3>1. CASE n = m
      BY <1>5, <2>1, <3>1 DEF OwnerTold
    <3>2. CASE n # m
      BY <1>5, <1>9, <1>12, <3>2 DEF MInv, OwnerTold
    <3> QED BY <3>1, <3>2
  <2> QED BY <2>2, <2>3
<1> QED BY <1>11, <1>12 DEF MInv

LEMMA ReacquireInv ==
  ASSUME NoWrap, Base, NEW t \in Task, NEW m \in Obj, Running(t), Reacquire(t, m),
         UNCHANGED <<nest, lock, crit>>
  PROVE  Base' /\ (MInv => MInv')
<1>1. UNCHANGED kvars /\ UNCHANGED <<owner, orig, arg>> /\ owner[m] = t
      /\ own' = [own EXCEPT ![m] = (@ + 1) % NestMod]
      /\ holds' = [holds EXCEPT ![t][m] = @ + 1] /\ holds[t][m] < MaxOwn
  BY DEF Reacquire, kvars
<1>2. /\ owner \in [Obj -> Task \cup {NoTask}] /\ own \in [Obj -> 0..NestMod - 1]
      /\ orig \in [Obj -> Prio] /\ arg \in [Task -> Obj \cup {NoObj}]
      /\ holds \in [Task -> [Obj -> 0..MaxOwn]]
      /\ NestMod \in Nat \ {0, 1} /\ MaxOwn \in 1..NestMod - 1 /\ NoTask \notin Task
  BY Types DEF NoWrap
<1>3. 0 < own[m] /\ own[m] =< holds[t][m] /\ ~InPend(t)
  BY <1>1, RunningOwner
<1>4. KInv' /\ Places' /\ crit'.op # "post" /\ \A u \in Task : InPend(u)' <=> InPend(u)
  BY <1>1, KernelIdle
<1>5. (own[m] + 1) % NestMod = own[m] + 1
  <2>1. own[m] \in 1..NestMod - 1 /\ own[m] + 1 < NestMod
    BY <1>1, <1>2, <1>3
  <2> QED BY <2>1, Counting
<1>6. /\ own'[m] = own[m] + 1 /\ holds'[t][m] = holds[t][m] + 1
      /\ own'[m] =< holds'[t][m]
      /\ \A n \in Obj \ {m} : own'[n] = own[n]
      /\ \A u \in Task, n \in Obj : u # t \/ n # m => holds'[u][n] = holds[u][n]
  BY <1>1, <1>2, <1>3, <1>5
<1>7. TypeOK'
  <2>1. holds[t][m] + 1 \in 0..MaxOwn /\ own[m] + 1 \in 0..NestMod - 1
    BY <1>1, <1>2, <1>3
  <2>2. holds' \in [Task -> [Obj -> 0..MaxOwn]] /\ own' \in [Obj -> 0..NestMod - 1]
    BY <1>1, <1>2, <1>5, <2>1
  <2> QED BY <1>1, <1>2, <1>4, <2>2 DEF Base, TypeOK, KInv
<1>8. ASSUME NEW u \in Task, InPend(u)
      PROVE  arg[u] \in Obj /\ holds'[u][arg[u]] = holds[u][arg[u]]
  BY <1>2, <1>3, <1>6, <1>8 DEF Base, ArgKnown
<1>9. ArgKnown'
  BY <1>1, <1>4, <1>8 DEF Base, ArgKnown, kvars
<1>10. ASSUME NEW n \in Obj \ {m}, NEW u \in Task, IsHeir(u, n) PROVE IsHeir(u, n)'
  BY <1>1, <1>4, <1>6, <1>10 DEF IsHeir, kvars
<1>11. ASSUME NEW n \in Obj PROVE OwnerSound(n)'
  <2>1. CASE n = m
    <3>1. own'[m] # 0 /\ owner'[m] = t /\ owner[m] # Idle
      BY <1>1, <1>2, <1>6 DEF Base, OwnerSound
    <3> QED BY <1>1, <1>2, <1>6, <2>1, <3>1 DEF OwnerSound
  <2>2. CASE n # m
    BY <1>1, <1>6, <1>10, <2>2 DEF Base, OwnerSound
  <2> QED BY <2>1, <2>2
<1>12. Base'
  BY <1>4, <1>7, <1>9, <1>11 DEF Base
<1>13. ASSUME MInv PROVE ArgAgrees' /\ \A n \in Obj : OwnerTold(n)'
  <2>1. ArgAgrees'
    BY <1>1, <1>4, <1>8, <1>13 DEF MInv, ArgAgrees, kvars
  <2>2. own[m] = holds[t][m]
    BY <1>1, <1>13, RunningCounts
  <2>3. ASSUME NEW n \in Obj PROVE OwnerTold(n)'
    <3>1. CASE n = m
      BY <1>1, <1>2, <1>6, <1>13, <2>2, <3>1 DEF MInv, OwnerTold
    <3>2. CASE n # m
      BY <1>1, <1>6, <1>10, <1>13, <3>2 DEF MInv, OwnerTold
    <3> QED BY <3>1, <3>2
  <2> QED BY <2>1, <2>3
<1> QED BY <1>12, <1>13 DEF MInv

(* What a pend that blocks does to the tables.                             *)
LEMMA BlockDoes ==
  ASSUME Base, NEW t \in Task, NEW m \in Obj, NEW timeout \in Timeouts,
         Running(t), Block(t, m, timeout)
  PROVE  /\ owner[m] \in Task \ {Idle, t}
         /\ Good(os') /\ os'.cur = os.cur /\ os'.prioCur = os.prioCur
         /\ \A v \in Task : os'.prio[v] = IF v = owner[m] /\ os.prio[t] < os.prio[v]
                                         THEN os.prio[t] ELSE os.prio[v]
         /\ os'.pendObj[t] = m
         /\ os'.state = [os.state EXCEPT ![t] = IF timeout > 0 THEN {"DLY", "PEND"}
                                                ELSE {"PEND"}]
         /\ \A v \in Task \ {t} : /\ os'.pendObj[v] = os.pendObj[v]
                                  /\ os'.pendStatus[v] = os.pendStatus[v]
<1> DEFINE u   == owner[m]
           mid == Inherit(os, u, os.prio[t])
           new == OS_Pend(mid, m, "MUTEX", timeout)
<1>1. os.cur = t /\ t # Idle /\ os.state[t] = {} /\ Good(os)
  BY RunningOwner DEF Base, KInv
<1>2. own[m] > 0 /\ u # t /\ os' = new
  BY DEF Block
<1>3. u \in Task \ {Idle}
  <2>1. u \in Task \cup {NoTask} /\ u # NoTask
    BY <1>2 DEF Base, TypeOK, OwnerSound
  <2> QED BY <2>1 DEF Base, OwnerSound
<1>4. os.prio[t] \in Prio /\ timeout \in 0..MaxDly /\ "MUTEX" \in PendKind \ {"NOTHING"}
  BY <1>1, CoreAssumption DEF Good, TCBTables, Timeouts, PendKind
<1> HIDE DEF u
<1>5. /\ Good(mid)
      /\ mid.prio = IF os.prio[u] =< os.prio[t] THEN os.prio
                    ELSE [os.prio EXCEPT ![u] = os.prio[t]]
      /\ mid.state = os.state /\ mid.cur = os.cur /\ mid.prioCur = os.prioCur
      /\ mid.pendObj = os.pendObj /\ mid.pendStatus = os.pendStatus
  BY <1>1, <1>3, <1>4, InheritGood
<1> HIDE DEF mid
<1>6. mid.cur \in Task \ {Idle} /\ mid.state[mid.cur] = {} /\ mid.cur = t
  BY <1>1, <1>5
<1>7. /\ Good(new)
      /\ Blocks(mid, new, mid.cur, IF timeout > 0 THEN {"DLY", "PEND"} ELSE {"PEND"})
      /\ new.pendObj = [mid.pendObj EXCEPT ![mid.cur] = m]
      /\ new.pendStatus = [mid.pendStatus EXCEPT ![mid.cur] = "OK"]
  BY <1>4, <1>5, <1>6, PendBlocks
<1>8. new.prio = mid.prio /\ new.cur = mid.cur /\ new.prioCur = mid.prioCur
  BY <1>7 DEF Blocks
<1> HIDE DEF new
<1>9. os'.pendObj[t] = m
      /\ \A v \in Task \ {t} : /\ os'.pendObj[v] = os.pendObj[v]
                               /\ os'.pendStatus[v] = os.pendStatus[v]
  <2>1. /\ os.pendObj \in [Task -> Obj \cup {NoObj}]
        /\ os.pendStatus \in [Task -> Status]
    BY <1>1 DEF Good, TCBTables
  <2> QED BY <1>2, <1>5, <1>6, <1>7, <2>1
<1>10. ASSUME NEW v \in Task
       PROVE  os'.prio[v] = IF v = u /\ os.prio[t] < os.prio[v]
                            THEN os.prio[t] ELSE os.prio[v]
  <2>1. os.prio \in [Task -> Nat]
    BY <1>1, CoreAssumption DEF Good, TCBTables, Prio
  <2>2. os'.prio = mid.prio
    BY <1>2, <1>8
  <2>3. CASE os.prio[u] =< os.prio[t]
    <3>1. mid.prio = os.prio
      BY <1>5, <2>3
    <3> QED BY <2>1, <2>2, <2>3, <3>1
  <2>4. CASE ~(os.prio[u] =< os.prio[t])
    <3>1. mid.prio = [os.prio EXCEPT ![u] = os.prio[t]]
      BY <1>5, <2>4
    <3> QED BY <1>3, <2>1, <2>2, <2>4, <3>1
  <2> QED BY <2>3, <2>4
<1>11. Good(os') /\ os'.cur = os.cur /\ os'.prioCur = os.prioCur
  BY <1>2, <1>5, <1>7, <1>8
<1>12. os'.state = [os.state EXCEPT ![t] = IF timeout > 0 THEN {"DLY", "PEND"}
                                          ELSE {"PEND"}]
  BY <1>2, <1>5, <1>6, <1>7 DEF Blocks
<1> QED BY <1>2, <1>3, <1>9, <1>10, <1>11, <1>12 DEF u

LEMMA BlockInv ==
  ASSUME Base, NEW t \in Task, NEW m \in Obj, NEW timeout \in Timeouts,
         Running(t), Block(t, m, timeout), holds[t][m] < MaxOwn,
         UNCHANGED <<nest, lock, crit>>
  PROVE  Base' /\ (MInv => MInv')
<1>1. /\ owner[m] \in Task \ {Idle, t} /\ Good(os') /\ os'.cur = os.cur
      /\ os'.pendObj[t] = m
      /\ \A v \in Task \ {t} : /\ os'.pendObj[v] = os.pendObj[v]
                               /\ os'.pendStatus[v] = os.pendStatus[v]
  BY BlockDoes
<1>2. /\ lock = 0 /\ Goto(t, "pend") /\ pc' = [pc EXCEPT ![t] = "pend"]
      /\ arg' = [arg EXCEPT ![t] = m] /\ UNCHANGED <<owner, own, orig, holds>>
  BY DEF Block, Goto
<1>3. pc \in [Task -> Where] /\ arg \in [Task -> Obj \cup {NoObj}]
  BY Types
<1>4. KInv'
  BY <1>1, <1>2, CallInv DEF Base
<1>5. ~InPend(t) /\ crit'.op = "none"
  BY RunningOwner
<1>6. InPend(t)' /\ \A u \in Task \ {t} :
        /\ InPend(u)' <=> InPend(u)
        /\ os'.pendObj[u] = os.pendObj[u] /\ os'.pendStatus[u] = os.pendStatus[u]
        /\ arg'[u] = arg[u]
  BY <1>1, <1>2, <1>3 DEF InPend
<1>7. arg'[t] = m
  BY <1>2, <1>3
<1>8. Places'
  BY <1>5, <1>6 DEF Base, Places
<1>9. TypeOK'
  BY <1>2, <1>3, <1>4 DEF Base, TypeOK, KInv
<1>10. ArgKnown'
  BY <1>1, <1>2, <1>6, <1>7, CoreAssumption DEF Base, ArgKnown
<1>11. ASSUME NEW n \in Obj, NEW u \in Task, IsHeir(u, n) PROVE IsHeir(u, n)'
  BY <1>2, <1>5, <1>6, <1>11 DEF IsHeir
<1>12. ASSUME NEW n \in Obj PROVE OwnerSound(n)'
  BY <1>2, <1>11 DEF Base, OwnerSound
<1>13. Base'
  BY <1>4, <1>5, <1>8, <1>9, <1>10, <1>12 DEF Base
<1>14. ASSUME MInv PROVE ArgAgrees' /\ \A n \in Obj : OwnerTold(n)'
  <2>1. ArgAgrees'
    BY <1>1, <1>2, <1>6, <1>14, CoreAssumption DEF MInv, ArgAgrees
  <2>2. \A n \in Obj : OwnerTold(n)'
    BY <1>2, <1>11, <1>14 DEF MInv, OwnerTold
  <2> QED BY <2>1, <2>2
<1> QED BY <1>13, <1>14 DEF MInv

LEMMA PendReturnInv ==
  ASSUME NoWrap, Base, NEW t \in Task, OSMutexPendReturn(t)
  PROVE  Base' /\ (MInv => MInv')
<1>1. /\ os.cur = t /\ pc[t] = "wake" /\ crit = Free
      /\ pc' = [pc EXCEPT ![t] = "run"] /\ arg' = [arg EXCEPT ![t] = NoObj]
      /\ UNCHANGED <<os, nest, lock, crit, owner, own, orig>>
      /\ holds' = IF os.pendStatus[t] = "OK"
                  THEN [holds EXCEPT ![t][arg[t]] = @ + 1] ELSE holds
  BY DEF OSMutexPendReturn, Goto
<1>2. /\ pc \in [Task -> Where] /\ arg \in [Task -> Obj \cup {NoObj}]
      /\ holds \in [Task -> [Obj -> 0..MaxOwn]] /\ MaxOwn \in Nat
      /\ own \in [Obj -> 0..NestMod - 1] /\ NestMod \in Nat /\ NoObj \notin Obj
  BY Types
<1>3. InPend(t) /\ arg[t] \in Obj
  BY <1>1, <1>2 DEF InPend, Base, ArgKnown
<1>4. os.pendObj[t] = NoObj
  BY <1>1 DEF Base, KInv, RunningIsReady, Good, PendAgrees
<1>5. /\ ~InPend(t)' /\ arg'[t] = NoObj
      /\ \A u \in Task \ {t} : (InPend(u)' <=> InPend(u)) /\ arg'[u] = arg[u]
  BY <1>1, <1>2 DEF InPend
<1>6. KInv'
  <2>1. KTypeOK'
    BY <1>1, <1>2 DEF Base, KInv, KTypeOK, Where
  <2>2. TickTaskRuns' /\ RunningIsReady' /\ LockedIsReady' /\ LoopsEnd'
    BY <1>1 DEF Base, KInv, TickTaskRuns, RunningIsReady, LockedIsReady, LoopsEnd
  <2> QED BY <1>1, <2>1, <2>2 DEF Base, KInv
<1>7. Places' /\ crit'.op = "none"
  BY <1>1, <1>4, <1>5 DEF Base, Places, Free
<1>8. \A u \in Task, n \in Obj : u # t \/ n # arg[t] => holds'[u][n] = holds[u][n]
  BY <1>1, <1>2
<1>9. /\ holds' \in [Task -> [Obj -> 0..MaxOwn]]
      /\ holds'[t][arg[t]] >= holds[t][arg[t]]
      /\ os.pendStatus[t] = "OK" => holds'[t][arg[t]] = holds[t][arg[t]] + 1
  <2>1. CASE os.pendStatus[t] = "OK"
    <3>1. holds[t][arg[t]] + 1 \in 0..MaxOwn
      BY <1>2, <1>3, <2>1 DEF Base, ArgKnown
    <3> QED BY <1>1, <1>2, <1>3, <2>1, <3>1
  <2>2. CASE os.pendStatus[t] # "OK"
    BY <1>1, <1>2, <1>3, <2>2
  <2> QED BY <2>1, <2>2
<1>10. TypeOK'
  BY <1>1, <1>2, <1>6, <1>9 DEF Base, TypeOK, KInv
<1>11. ASSUME NEW u \in Task \ {t}, InPend(u)
       PROVE  arg[u] \in Obj /\ holds'[u][arg[u]] = holds[u][arg[u]]
  BY <1>2, <1>8, <1>11 DEF Base, ArgKnown
<1>12. ArgKnown'
  BY <1>1, <1>4, <1>5, <1>11 DEF Base, ArgKnown
<1>13. ASSUME NEW n \in Obj, NEW u \in Task \ {t}, IsHeir(u, n) PROVE IsHeir(u, n)'
  BY <1>1, <1>5, <1>13 DEF IsHeir
<1>14. ASSUME NEW n \in Obj PROVE OwnerSound(n)'
  <2>1. ASSUME NEW u \in Task, owner[n] = u PROVE IsHeir(u, n)' \/ own[n] =< holds'[u][n]
    <3>1. CASE u # t
      BY <1>8, <1>13, <2>1, <3>1 DEF Base, OwnerSound
    <3>2. CASE u = t /\ n # arg[t]
      BY <1>8, <2>1, <3>2 DEF Base, OwnerSound, IsHeir
    <3>3. CASE u = t /\ n = arg[t] /\ os.pendStatus[t] = "OK"
      <4>1. own[n] = 1 \/ own[n] =< holds[t][n]
        BY <2>1, <3>3 DEF Base, OwnerSound, IsHeir
      <4>2. holds'[t][n] = holds[t][n] + 1 /\ holds[t][n] \in Nat /\ own[n] \in Nat
        BY <1>2, <1>9, <3>3
      <4> QED BY <3>3, <4>1, <4>2
    <3>4. CASE u = t /\ n = arg[t] /\ os.pendStatus[t] # "OK"
      BY <1>1, <2>1, <3>4 DEF Base, OwnerSound, IsHeir
    <3> QED BY <3>1, <3>2, <3>3, <3>4
  <2> QED BY <1>1, <2>1 DEF Base, OwnerSound
<1>15. Base'
  BY <1>6, <1>7, <1>10, <1>12, <1>14 DEF Base
<1>16. ASSUME MInv PROVE ArgAgrees' /\ \A n \in Obj : OwnerTold(n)'
  <2>1. ArgAgrees'
    BY <1>1, <1>5, <1>11, <1>16 DEF MInv, ArgAgrees
  <2>2. ASSUME NEW n \in Obj PROVE OwnerTold(n)'
    <3>1. CASE n = arg[t] /\ os.pendStatus[t] = "OK"
      <4>1. owner[n] = t /\ holds[t][n] = 0 /\ own[n] = 1
        BY <1>3, <1>4, <1>16, <3>1 DEF MInv, ArgAgrees, OwnerTold, IsHeir
      <4>2. holds'[t][n] = 1
        BY <1>9, <3>1, <4>1
      <4> QED BY <1>1, <1>2, <1>8, <1>16, <3>1, <4>1, <4>2 DEF MInv, OwnerTold
    <3>2. CASE n # arg[t] \/ os.pendStatus[t] # "OK"
      <4>1. \A u \in Task : holds'[u][n] = holds[u][n]
        BY <1>1, <1>8, <3>2
      <4>2. ASSUME NEW u \in Task, IsHeir(u, n) PROVE u # t
        BY <3>2, <4>2 DEF IsHeir
      <4> QED BY <1>1, <1>13, <1>16, <4>1, <4>2 DEF MInv, OwnerTold
    <3> QED BY <3>1, <3>2
  <2> QED BY <2>1, <2>2
<1> QED BY <1>15, <1>16 DEF MInv

(* Giving back, once or for good.                                          *)
LEMMA PostCounts ==
  ASSUME NoWrap, Base, NEW t \in Task, NEW m \in Obj, NEW opt \in Options,
         OSMutexPost(t, m, opt)
  PROVE  /\ Running(t) /\ owner[m] = t /\ UNCHANGED <<nest, lock, crit, arg>>
         /\ own[m] > 0 /\ own[m] =< holds[t][m] /\ Less(m) = own[m] - 1
         /\ Less(m) \in 0..NestMod - 1
         /\ holds' \in [Task -> [Obj -> 0..MaxOwn]]
         /\ holds'[t][m] = holds[t][m] - 1
         /\ \A u \in Task, n \in Obj : u # t \/ n # m => holds'[u][n] = holds[u][n]
         /\ \A u \in Task : InPend(u) =>
              arg[u] \in Obj /\ holds'[u][arg[u]] = holds[u][arg[u]]
<1>1. /\ own \in [Obj -> 0..NestMod - 1] /\ NestMod \in Nat \ {0, 1}
      /\ holds \in [Task -> [Obj -> 0..MaxOwn]] /\ MaxOwn \in Nat
      /\ arg \in [Task -> Obj \cup {NoObj}]
  BY Types
<1>2. /\ Running(t) /\ owner[m] = t /\ UNCHANGED <<nest, lock, crit, arg>>
      /\ holds' = [holds EXCEPT ![t][m] = @ - 1]
  BY DEF OSMutexPost
<1>3. own[m] > 0 /\ own[m] =< holds[t][m] /\ ~InPend(t)
  BY <1>2, RunningOwner
<1>4. Less(m) = own[m] - 1 /\ Less(m) \in 0..NestMod - 1
  <2>1. own[m] \in 1..NestMod - 1
    BY <1>1, <1>3
  <2>2. (own[m] + NestMod - 1) % NestMod = own[m] - 1
    BY <2>1, Counting
  <2> QED BY <1>1, <2>1, <2>2 DEF Less
<1>5. holds[t][m] - 1 \in 0..MaxOwn
  BY <1>1, <1>3
<1>6. /\ holds' \in [Task -> [Obj -> 0..MaxOwn]] /\ holds'[t][m] = holds[t][m] - 1
      /\ \A u \in Task, n \in Obj : u # t \/ n # m => holds'[u][n] = holds[u][n]
  BY <1>1, <1>2, <1>5
<1>7. ASSUME NEW u \in Task, InPend(u)
      PROVE  arg[u] \in Obj /\ holds'[u][arg[u]] = holds[u][arg[u]]
  BY <1>1, <1>3, <1>6, <1>7 DEF Base, ArgKnown
<1> QED BY <1>2, <1>3, <1>4, <1>6, <1>7

LEMMA UnnestInv ==
  ASSUME NoWrap, Base, NEW t \in Task, NEW m \in Obj, NEW opt \in Options,
         OSMutexPost(t, m, opt), Unnest(t, m)
  PROVE  Base' /\ (MInv => MInv')
<1>1. /\ Running(t) /\ owner[m] = t /\ UNCHANGED <<nest, lock, crit, arg>>
      /\ own[m] > 0 /\ own[m] =< holds[t][m] /\ Less(m) = own[m] - 1
      /\ Less(m) \in 0..NestMod - 1
      /\ holds' \in [Task -> [Obj -> 0..MaxOwn]]
      /\ holds'[t][m] = holds[t][m] - 1
      /\ \A u \in Task, n \in Obj : u # t \/ n # m => holds'[u][n] = holds[u][n]
      /\ \A u \in Task : InPend(u) =>
           arg[u] \in Obj /\ holds'[u][arg[u]] = holds[u][arg[u]]
  BY PostCounts
<1>2. UNCHANGED kvars /\ UNCHANGED <<owner, orig, arg>> /\ Less(m) > 0
      /\ own' = [own EXCEPT ![m] = Less(m)]
  BY <1>1 DEF Unnest, kvars
<1>3. KInv' /\ Places' /\ crit'.op # "post" /\ \A u \in Task : InPend(u)' <=> InPend(u)
  BY <1>2, KernelIdle
<1>4. /\ own \in [Obj -> 0..NestMod - 1] /\ NoTask \notin Task
      /\ holds \in [Task -> [Obj -> 0..MaxOwn]]
  BY Types
<1>5. TypeOK'
  BY <1>1, <1>2, <1>3, <1>4 DEF Base, TypeOK, KInv
<1>6. ArgKnown'
  BY <1>1, <1>2, <1>3 DEF Base, ArgKnown, kvars
<1>7. /\ own'[m] = own[m] - 1 /\ own'[m] > 0 /\ own'[m] =< holds'[t][m]
      /\ \A n \in Obj \ {m} : own'[n] = own[n]
  BY <1>1, <1>2, <1>4
<1>8. ASSUME NEW n \in Obj \ {m}, NEW u \in Task, IsHeir(u, n) PROVE IsHeir(u, n)'
  BY <1>2, <1>3, <1>7, <1>8 DEF IsHeir, kvars
<1>9. ASSUME NEW n \in Obj PROVE OwnerSound(n)'
  <2>1. CASE n = m
    <3>1. owner'[m] = t /\ t # Idle /\ own'[m] # 0
      BY <1>1, <1>2, <1>7, RunningOwner
    <3> QED BY <1>4, <1>7, <2>1, <3>1 DEF OwnerSound
  <2>2. CASE n # m
    BY <1>1, <1>2, <1>7, <1>8, <2>2 DEF Base, OwnerSound
  <2> QED BY <2>1, <2>2
<1>10. Base'
  BY <1>3, <1>5, <1>6, <1>9 DEF Base
<1>11. ASSUME MInv PROVE ArgAgrees' /\ \A n \in Obj : OwnerTold(n)'
  <2>1. ArgAgrees'
    BY <1>1, <1>2, <1>3, <1>11 DEF MInv, ArgAgrees, kvars
  <2>2. ASSUME NEW n \in Obj PROVE OwnerTold(n)'
    <3>1. CASE n = m
      <4>1. holds'[t][m] = own'[m] /\ holds'[t][m] # 0
        BY <1>1, <1>7, <1>11, RunningCounts
      <4>2. ASSUME NEW u \in Task \ {t} PROVE holds'[u][m] = 0
        BY <1>1, <1>4, <1>11 DEF MInv, OwnerTold
      <4> QED BY <1>1, <1>2, <3>1, <4>1, <4>2 DEF OwnerTold
    <3>2. CASE n # m
      BY <1>1, <1>2, <1>7, <1>8, <1>11, <3>2 DEF MInv, OwnerTold
    <3> QED BY <3>1, <3>2
  <2> QED BY <2>1, <2>2
<1> QED BY <1>10, <1>11 DEF MInv

(* Nobody waits for a mutex whose pend list is empty.                      *)
LEMMA NobodyWaits ==
  ASSUME Base, NEW m \in Obj, os.pend[m] = << >>
  PROVE  \A u \in Task : os.pendObj[u] # m
<1>1. ListOf(os.pend[m], Waiters(os, m))
  BY PendAgreesLists DEF Base, KInv, Good
<1>2. Waiters(os, m) = {}
  BY <1>1, ListOfNone
<1> QED BY <1>2 DEF Waiters

LEMMA ReleaseInv ==
  ASSUME NoWrap, Base, NEW t \in Task, NEW m \in Obj, NEW opt \in Options,
         OSMutexPost(t, m, opt), Release(t, m)
  PROVE  Base' /\ (MInv => MInv')
<1>1. /\ Running(t) /\ owner[m] = t /\ UNCHANGED <<nest, lock, crit, arg>>
      /\ own[m] > 0 /\ own[m] =< holds[t][m] /\ Less(m) = own[m] - 1
      /\ holds' \in [Task -> [Obj -> 0..MaxOwn]]
      /\ holds'[t][m] = holds[t][m] - 1
      /\ \A u \in Task, n \in Obj : u # t \/ n # m => holds'[u][n] = holds[u][n]
      /\ \A u \in Task : InPend(u) =>
           arg[u] \in Obj /\ holds'[u][arg[u]] = holds[u][arg[u]]
  BY PostCounts
<1>2. UNCHANGED kvars /\ UNCHANGED <<orig, arg>> /\ Less(m) = 0 /\ os.pend[m] = << >>
      /\ owner' = [owner EXCEPT ![m] = NoTask] /\ own' = [own EXCEPT ![m] = 0]
  BY <1>1 DEF Release, kvars
<1>3. KInv' /\ Places' /\ crit'.op # "post" /\ \A u \in Task : InPend(u)' <=> InPend(u)
  BY <1>2, KernelIdle
<1>4. /\ owner \in [Obj -> Task \cup {NoTask}] /\ own \in [Obj -> 0..NestMod - 1]
      /\ holds \in [Task -> [Obj -> 0..MaxOwn]] /\ NoTask \notin Task
      /\ NestMod \in Nat \ {0, 1} /\ NoTask # Idle
  BY Types, CoreAssumption
<1>5. TypeOK'
  BY <1>1, <1>2, <1>3, <1>4 DEF Base, TypeOK, KInv
<1>6. /\ owner'[m] = NoTask /\ own'[m] = 0
      /\ \A n \in Obj \ {m} : owner'[n] = owner[n] /\ own'[n] = own[n]
  BY <1>2, <1>4
<1>7. ArgKnown'
  <2>1. ASSUME NEW u \in Task, os.pendObj[u] # NoObj
        PROVE  arg[u] \in Obj /\ owner'[arg[u]] = owner[arg[u]]
    <3>1. \A v \in Task : os.pendObj[v] # m
      BY <1>2, NobodyWaits
    <3>2. os.pendObj[u] = arg[u] /\ arg[u] \in Obj
      BY <1>1, <2>1 DEF Base, ArgKnown
    <3> QED BY <1>6, <3>1, <3>2
  <2>2. ASSUME NEW u \in Task
        PROVE  /\ arg'[u] # NoObj <=> InPend(u)'
               /\ os'.pendObj[u] # NoObj =>
                    /\ InPend(u)' /\ os'.pendObj[u] = arg'[u]
                    /\ owner'[arg'[u]] \in Task \ {u}
               /\ InPend(u)' /\ (os'.pendObj[u] # NoObj \/ os'.pendStatus[u] = "OK") =>
                    holds'[u][arg'[u]] < MaxOwn
    <3>1. /\ os' = os /\ arg' = arg /\ (InPend(u)' <=> InPend(u))
          /\ InPend(u) => holds'[u][arg[u]] = holds[u][arg[u]]
      BY <1>1, <1>2, <1>3 DEF kvars
    <3> QED BY <2>1, <3>1 DEF Base, ArgKnown
  <2> QED BY <2>2 DEF ArgKnown
<1>8. ASSUME NEW n \in Obj \ {m}, NEW u \in Task, IsHeir(u, n) PROVE IsHeir(u, n)'
  BY <1>2, <1>3, <1>6, <1>8 DEF IsHeir, kvars
<1>9. ASSUME NEW n \in Obj PROVE OwnerSound(n)'
  <2>1. CASE n = m
    BY <1>4, <1>6, <2>1 DEF OwnerSound
  <2>2. CASE n # m
    BY <1>1, <1>6, <1>8, <2>2 DEF Base, OwnerSound
  <2> QED BY <2>1, <2>2
<1>10. Base'
  BY <1>3, <1>5, <1>7, <1>9 DEF Base
<1>11. ASSUME MInv PROVE ArgAgrees' /\ \A n \in Obj : OwnerTold(n)'
  <2>1. ArgAgrees'
    <3>1. ASSUME NEW u \in Task, InPend(u), os.pendObj[u] = NoObj, os.pendStatus[u] = "OK"
          PROVE  /\ arg[u] \in Obj \ {m} /\ owner[arg[u]] = u
                 /\ holds'[u][arg[u]] = 0
      BY <1>1, <1>11, <3>1, RunningOwner DEF MInv, ArgAgrees
    <3> QED BY <1>2, <1>3, <1>6, <3>1 DEF ArgAgrees, kvars
  <2>2. ASSUME NEW n \in Obj PROVE OwnerTold(n)'
    <3>1. CASE n = m
      <4>1. holds'[t][m] = 0
        BY <1>1, <1>2, <1>4, <1>11, RunningCounts
      <4>2. ASSUME NEW u \in Task \ {t} PROVE holds'[u][m] = 0
        BY <1>1, <1>4, <1>11 DEF MInv, OwnerTold
      <4> QED BY <1>4, <1>6, <3>1, <4>1, <4>2 DEF OwnerTold
    <3>2. CASE n # m
      BY <1>1, <1>6, <1>8, <1>11, <3>2 DEF MInv, OwnerTold
    <3> QED BY <3>1, <3>2
  <2> QED BY <2>1, <2>2
<1> QED BY <1>10, <1>11 DEF MInv

(* EndPend tells the task that waited, and nobody else.                    *)
LEMMA EndPendTells ==
  ASSUME NEW o, Good(o), NEW t \in Task, "PEND" \in o.state[t], NEW status \in Status,
         NEW new, new = EndPend(o, t, status)
  PROVE  /\ new.pendStatus[t] = status
         /\ \A v \in Task \ {t} : new.pendStatus[v] = o.pendStatus[v]
<1> DEFINE end == EndPend(o, t, status)
<1>1. /\ Good(end) /\ Wakes(o, end, t)
      /\ end.pendStatus = [o.pendStatus EXCEPT ![t] = status]
      /\ end.pend = [o.pend EXCEPT ![o.pendObj[t]] = Without(@, t)]
  BY EndPendWakes
<1>2. o.pendStatus \in [Task -> Status]
  BY DEF Good, TCBTables
<1> QED BY <1>1, <1>2

(* The first waiter becomes the owner, and its predecessor loses what it   *)
(* inherited.                                                              *)
LEMMA HandOverDoes ==
  ASSUME Base, NEW t \in Task, NEW m \in Obj, NEW opt \in Options,
         Running(t), owner[m] = t, HandOver(t, m, opt)
  PROVE  LET heir == Head(os.pend[m])
         IN  /\ heir \in Task \ {Idle, t} /\ os.pendObj[heir] = m
             /\ Good(os') /\ os'.cur = os.cur /\ os'.state[t] = {}
             /\ os'.prio[t] = orig[m]
             /\ os.prioCur = os.prio[t] => os'.prioCur = orig[m]
             /\ os'.pendObj[heir] = NoObj /\ os'.pendStatus[heir] = "OK"
             /\ \A v \in Task \ {heir} : /\ os'.pendObj[v] = os.pendObj[v]
                                         /\ os'.pendStatus[v] = os.pendStatus[v]
             /\ \A v \in Task \ {t} : os'.prio[v] = os.prio[v]
             /\ \A v \in Task : os'.state[v] \subseteq os.state[v]
<1> DEFINE heir == Head(os.pend[m])
           mid  == Restore(os, t, orig[m])
           told == "OK"
<1>1. /\ os.cur = t /\ t # Idle /\ os.state[t] = {} /\ Good(os) /\ orig[m] \in Prio
      /\ os.pendObj[t] = NoObj
  BY RunningOwner DEF Base, KInv, TypeOK
<1>2. os.pend[m] # << >> /\ os' = EndPend(mid, heir, told)
  BY DEF HandOver, OS_Post
<1>3. heir \in Task /\ os.pendObj[heir] = m /\ "PEND" \in os.state[heir]
  <2>1. ListOf(os.pend[m], Waiters(os, m))
    BY <1>1, PendAgreesLists DEF Good
  <2>2. heir \in Waiters(os, m)
    BY <1>2, <2>1, ListOfHead
  <2> QED BY <1>1, <2>2, CoreAssumption DEF Waiters, Good, PendAgrees
<1> HIDE DEF heir
<1>4. heir # t /\ heir # Idle
  BY <1>1, <1>3 DEF Good, IdleReady
<1>5. /\ Good(mid) /\ mid.prio = [os.prio EXCEPT ![t] = orig[m]]
      /\ mid.state = os.state /\ mid.cur = os.cur
      /\ mid.pendObj = os.pendObj /\ mid.pendStatus = os.pendStatus
      /\ os.prioCur = os.prio[t] => mid.prioCur = orig[m]
  BY <1>1, RestoreGood
<1> HIDE DEF mid
<1>6. "PEND" \in mid.state[heir] /\ told \in Status
  BY <1>3, <1>5 DEF Status
<1> HIDE DEF told
<1>7. Good(os') /\ Wakes(mid, os', heir)
  BY <1>2, <1>3, <1>5, <1>6, EndPendWakes
<1>8. /\ os'.state = [os.state EXCEPT ![heir] = @ \ {"DLY", "PEND"}]
      /\ os'.pendObj = [os.pendObj EXCEPT ![heir] = NoObj]
      /\ os'.prio = [os.prio EXCEPT ![t] = orig[m]]
      /\ os'.cur = os.cur /\ os'.prioCur = mid.prioCur
  BY <1>5, <1>7 DEF Wakes
<1>9. /\ os.state \in [Task -> TaskStates] /\ os.prio \in [Task -> Prio]
      /\ os.pendObj \in [Task -> Obj \cup {NoObj}]
      /\ os.pendStatus \in [Task -> Status]
  BY <1>1 DEF Good, TCBTables
<1>10. os'.state[t] = {} /\ os'.prio[t] = orig[m]
       /\ \A v \in Task \ {t} : os'.prio[v] = os.prio[v]
  BY <1>1, <1>4, <1>8, <1>9
<1>11. os'.pendObj[heir] = NoObj
       /\ \A v \in Task \ {heir} : os'.pendObj[v] = os.pendObj[v]
  BY <1>3, <1>8, <1>9
<1>12. os'.pendStatus[heir] = "OK"
       /\ \A v \in Task \ {heir} : os'.pendStatus[v] = os.pendStatus[v]
  <2>1. os'.pendStatus[heir] = told
        /\ \A v \in Task \ {heir} : os'.pendStatus[v] = mid.pendStatus[v]
    BY <1>2, <1>3, <1>5, <1>6, EndPendTells
  <2> QED BY <1>5, <2>1 DEF told
<1>13. \A v \in Task : os'.state[v] \subseteq os.state[v]
  BY <1>3, <1>8, <1>9
<1> QED BY <1>3, <1>4, <1>5, <1>7, <1>8, <1>10, <1>11, <1>12, <1>13 DEF heir

LEMMA HandOverInv ==
  ASSUME NoWrap, Base, NEW t \in Task, NEW m \in Obj, NEW opt \in Options,
         OSMutexPost(t, m, opt), HandOver(t, m, opt)
  PROVE  Base' /\ (MInv => MInv')
<1>1. /\ Running(t) /\ owner[m] = t /\ UNCHANGED <<nest, lock, crit, arg, own>>
      /\ Less(m) = 0 /\ Return(opt)
  BY DEF OSMutexPost, HandOver
<1> DEFINE first == Head(os.pend[m])
<1>a. /\ first \in Task \ {Idle, t} /\ os.pendObj[first] = m
      /\ Good(os') /\ os'.cur = os.cur /\ os'.state[t] = {}
      /\ os'.pendObj[first] = NoObj /\ os'.pendStatus[first] = "OK"
      /\ \A v \in Task \ {first} : /\ os'.pendObj[v] = os.pendObj[v]
                                   /\ os'.pendStatus[v] = os.pendStatus[v]
  BY <1>1, HandOverDoes DEF OSMutexPost
<1>b. owner' = [owner EXCEPT ![m] = first] /\ orig' = [orig EXCEPT ![m] = os.prio[first]]
  BY DEF HandOver
<1> HIDE DEF first
<1>2. PICK heir \in Task \ {Idle, t} :
        /\ os.pendObj[heir] = m
        /\ owner' = [owner EXCEPT ![m] = heir]
        /\ orig' = [orig EXCEPT ![m] = os.prio[heir]]
        /\ Good(os') /\ os'.cur = os.cur /\ os'.state[t] = {}
        /\ os'.pendObj[heir] = NoObj /\ os'.pendStatus[heir] = "OK"
        /\ \A v \in Task \ {heir} : /\ os'.pendObj[v] = os.pendObj[v]
                                    /\ os'.pendStatus[v] = os.pendStatus[v]
  BY <1>a, <1>b
<1>3. os.cur = t /\ pc[t] = "run" /\ ~InPend(t) /\ crit.op = "none"
  BY <1>1, RunningOwner
<1>4. UNCHANGED pc \/ Goto(t, "sched")
  BY <1>1, <1>3 DEF Return
<1>5. KInv'
  BY <1>1, <1>2, <1>4, CallInv DEF Base
<1>6. \A u \in Task : InPend(u)' <=> InPend(u)
  BY <1>3, <1>4, CallStays DEF Base, SamePlaces
<1>7. Places' /\ crit'.op = "none"
  <2>1. \A u \in Task : os.pendObj[u] = NoObj => os'.pendObj[u] = NoObj
    BY <1>2
  <2> QED BY <1>1, <1>3, <1>6, <2>1, PlacesKept DEF Base, SamePlaces
<1>8. /\ own[m] > 0 /\ own[m] =< holds[t][m] /\ Less(m) = own[m] - 1
      /\ holds' \in [Task -> [Obj -> 0..MaxOwn]]
      /\ holds'[t][m] = holds[t][m] - 1
      /\ \A u \in Task, n \in Obj : u # t \/ n # m => holds'[u][n] = holds[u][n]
      /\ \A u \in Task : InPend(u) =>
           arg[u] \in Obj /\ holds'[u][arg[u]] = holds[u][arg[u]]
  BY PostCounts
<1>9. /\ owner \in [Obj -> Task \cup {NoTask}] /\ own \in [Obj -> 0..NestMod - 1]
      /\ orig \in [Obj -> Prio] /\ os.prio \in [Task -> Prio]
      /\ holds \in [Task -> [Obj -> 0..MaxOwn]] /\ NoTask \notin Task
      /\ arg \in [Task -> Obj \cup {NoObj}] /\ NoObj \notin Obj
      /\ NestMod \in Nat
  BY Types
<1>10. TypeOK'
  <2>1. os.prio[heir] \in Prio
    BY <1>2, <1>9
  <2> QED BY <1>1, <1>2, <1>5, <1>8, <1>9, <2>1 DEF TypeOK, KInv
<1>11. /\ own[m] = 1 /\ owner'[m] = heir
       /\ \A n \in Obj \ {m} : owner'[n] = owner[n]
  BY <1>1, <1>2, <1>8, <1>9
<1>12. InPend(heir) /\ arg[heir] = m /\ holds[heir][m] < MaxOwn
  BY <1>2, <1>9 DEF Base, ArgKnown
<1>13. IsHeir(heir, m)'
  BY <1>1, <1>2, <1>6, <1>11, <1>12 DEF IsHeir
<1>14. ArgKnown'
  <2>1. ASSUME NEW u \in Task \ {heir}, os.pendObj[u] # NoObj
        PROVE  arg[u] \in Obj /\ owner'[arg[u]] \in Task \ {u}
    BY <1>2, <1>11, <2>1, <1>8 DEF Base, ArgKnown
  <2>2. ASSUME NEW u \in Task
        PROVE  /\ arg'[u] # NoObj <=> InPend(u)'
               /\ os'.pendObj[u] # NoObj =>
                    /\ InPend(u)' /\ os'.pendObj[u] = arg'[u]
                    /\ owner'[arg'[u]] \in Task \ {u}
               /\ InPend(u)' /\ (os'.pendObj[u] # NoObj \/ os'.pendStatus[u] = "OK") =>
                    holds'[u][arg'[u]] < MaxOwn
    <3>1. CASE u = heir
      BY <1>1, <1>2, <1>6, <1>8, <1>9, <1>12, <3>1
    <3>2. CASE u # heir
      BY <1>1, <1>2, <1>6, <1>8, <2>1, <3>2 DEF Base, ArgKnown
    <3> QED BY <3>1, <3>2
  <2> QED BY <2>2 DEF ArgKnown
<1>15. ASSUME NEW n \in Obj \ {m}, NEW u \in Task, IsHeir(u, n)
       PROVE  u # heir /\ IsHeir(u, n)'
  BY <1>1, <1>2, <1>6, <1>9, <1>15 DEF IsHeir
<1>16. ASSUME NEW n \in Obj PROVE OwnerSound(n)'
  <2>1. CASE n = m
    <3>1. heir # NoTask /\ own'[m] # 0
      BY <1>1, <1>2, <1>9, <1>11
    <3> QED BY <1>2, <1>11, <1>13, <2>1, <3>1 DEF OwnerSound
  <2>2. CASE n # m
    BY <1>1, <1>8, <1>11, <1>15, <2>2 DEF Base, OwnerSound
  <2> QED BY <2>1, <2>2
<1>17. Base'
  BY <1>5, <1>7, <1>10, <1>14, <1>16 DEF Base
<1>18. ASSUME MInv PROVE ArgAgrees' /\ \A n \in Obj : OwnerTold(n)'
  <2>1. \A u \in Task : holds'[u][m] = 0
    <3>1. holds'[t][m] = 0
      BY <1>1, <1>8, <1>11, <1>18, RunningCounts
    <3>2. ASSUME NEW u \in Task \ {t} PROVE holds[u][m] = 0
      BY <1>1, <1>9, <1>18 DEF MInv, OwnerTold
    <3> QED BY <1>8, <3>1, <3>2
  <2>2. ASSUME NEW u \in Task \ {heir}, InPend(u), os.pendObj[u] = NoObj,
               os.pendStatus[u] = "OK"
        PROVE  owner'[arg[u]] = u /\ holds'[u][arg[u]] = 0
    <3>1. owner[arg[u]] = u /\ holds[u][arg[u]] = 0 /\ arg[u] \in Obj
      BY <1>8, <1>18, <2>2 DEF MInv, ArgAgrees
    <3>2. arg[u] # m
      BY <1>1, <1>3, <2>2, <3>1
    <3> QED BY <1>8, <1>11, <2>2, <3>1, <3>2
  <2>3. ArgAgrees'
    BY <1>1, <1>2, <1>6, <1>11, <1>12, <2>1, <2>2 DEF ArgAgrees
  <2>4. ASSUME NEW n \in Obj PROVE OwnerTold(n)'
    <3>1. CASE n = m
      BY <1>11, <1>13, <2>1, <3>1 DEF OwnerTold
    <3>2. CASE n # m
      <4>1. \A u \in Task : holds'[u][n] = holds[u][n]
        BY <1>8, <3>2
      <4> QED BY <1>1, <1>11, <1>15, <1>18, <3>2, <4>1 DEF MInv, OwnerTold
    <3> QED BY <3>1, <3>2
  <2> QED BY <2>3, <2>4
<1> QED BY <1>17, <1>18 DEF MInv

LEMMA StutterBase == Base /\ UNCHANGED vars => Base'
<1> SUFFICES ASSUME Base, UNCHANGED vars PROVE Base'
  OBVIOUS
<1>1. UNCHANGED kvars /\ UNCHANGED mvars
  BY DEF vars
<1>2. KInv' /\ Places' /\ crit'.op # "post" /\ \A t \in Task : InPend(t)' <=> InPend(t)
  BY <1>1, KernelIdle
<1>3. TypeOK'
  BY <1>1, <1>2 DEF Base, TypeOK, KInv, mvars
<1>4. \A t \in Task, m \in Obj : IsHeir(t, m)' <=> IsHeir(t, m)
  BY <1>1, <1>2 DEF IsHeir, mvars, kvars
<1>5. ArgKnown' /\ \A m \in Obj : OwnerSound(m)'
  BY <1>1, <1>2, <1>4 DEF Base, ArgKnown, OwnerSound, mvars, kvars
<1> QED BY <1>2, <1>3, <1>5 DEF Base

LEMMA NextInv == NoWrap /\ MInv /\ [Next]_vars => MInv'
<1> SUFFICES ASSUME NoWrap, MInv, [Next]_vars PROVE MInv'
  OBVIOUS
<1>0. Base
  BY DEF MInv
<1>1. CASE KNext /\ UNCHANGED mvars
  BY <1>0, <1>1, KernelStepInv
<1>2. ASSUME NEW t \in Task, OSMutexPendReturn(t) PROVE MInv'
  BY <1>0, <1>2, PendReturnInv
<1>3. ASSUME NEW t \in Task, NEW m \in Obj, NEW timeout \in Timeouts,
             OSMutexPend(t, m, timeout)
      PROVE  MInv'
  <2>1. /\ Running(t) /\ UNCHANGED <<nest, lock, crit>>
        /\ Acquire(t, m) \/ Reacquire(t, m) \/ Block(t, m, timeout)
    BY <1>3 DEF OSMutexPend
  <2>2. ASSUME owner[m] # t PROVE holds[t][m] < MaxOwn
    <3>1. ~(holds[t][m] > 0)
      BY <2>2 DEF MInv, OwnerTold
    <3> QED BY <1>0, <3>1, Types DEF NoWrap
  <2>3. own[m] = 0 => owner[m] # t
    BY <1>0, Types DEF Base, OwnerSound
  <2>4. CASE Acquire(t, m)
    BY <1>0, <2>1, <2>2, <2>3, <2>4, AcquireInv DEF Acquire
  <2>5. CASE Block(t, m, timeout)
    BY <1>0, <2>1, <2>2, <2>5, BlockInv DEF Block
  <2> QED BY <1>0, <2>1, <2>4, <2>5, ReacquireInv
<1>4. ASSUME NEW t \in Task, NEW m \in Obj, NEW opt \in Options,
             OSMutexPost(t, m, opt)
      PROVE  MInv'
  BY <1>0, <1>4, UnnestInv, ReleaseInv, HandOverInv DEF OSMutexPost
<1>5. CASE UNCHANGED vars
  <2>1. UNCHANGED os /\ UNCHANGED pc /\ UNCHANGED mvars
    BY <1>5 DEF vars, kvars
  <2>2. \A t \in Task, m \in Obj : IsHeir(t, m) => IsHeir(t, m)'
    BY <2>1 DEF IsHeir, InPend, mvars
  <2>3. ArgAgrees' /\ \A m \in Obj : OwnerTold(m)'
    BY <2>1, <2>2 DEF MInv, ArgAgrees, OwnerTold, InPend, mvars
  <2> QED BY <1>0, <1>5, <2>3, StutterBase DEF MInv
<1> QED BY <1>1, <1>2, <1>3, <1>4, <1>5 DEF Next

LEMMA Invariance == ASSUME NoWrap PROVE Spec => []MInv
<1>1. Init => MInv
  BY InitInv
<1>2. MInv /\ [Next]_vars => MInv'
  BY NextInv
<1> QED BY <1>1, <1>2, PTL DEF Spec

-----------------------------------------------------------------------------
(* Which task runs, and OSPrioCur.                                         *)

LEMMA NextDispatched ==
  ASSUME Base, AlwaysSched, Dispatched, [Next]_vars PROVE Dispatched'
<1>1. CASE KNext /\ UNCHANGED mvars
  BY <1>1, KNextDispatched DEF Base
<1>2. ASSUME NEW t \in Task, OSMutexPendReturn(t) PROVE Dispatched'
  BY <1>2 DEF OSMutexPendReturn, Goto, Dispatched
<1>3. ASSUME UNCHANGED kvars PROVE Dispatched'
  BY <1>3 DEF kvars, Dispatched
<1>4. ASSUME NEW t \in Task, NEW m \in Obj, NEW timeout \in Timeouts,
             OSMutexPend(t, m, timeout)
      PROVE  Dispatched'
  <2>1. Running(t) /\ UNCHANGED <<nest, lock, crit>>
    BY <1>4 DEF OSMutexPend
  <2>2. CASE Acquire(t, m) \/ Reacquire(t, m)
    BY <1>3, <2>1, <2>2 DEF Acquire, Reacquire, kvars
  <2>3. CASE Block(t, m, timeout)
    <3>1. os'.cur = t /\ Goto(t, "pend")
      BY <2>1, <2>3, BlockDoes, RunningOwner DEF Block
    <3> QED BY <3>1, OnTheWay DEF Base
  <2> QED BY <1>4, <2>2, <2>3 DEF OSMutexPend
<1>5. ASSUME NEW t \in Task, NEW m \in Obj, NEW opt \in Options,
             OSMutexPost(t, m, opt)
      PROVE  Dispatched'
  <2>1. /\ Running(t) /\ UNCHANGED <<nest, lock, crit>> /\ owner[m] = t
        /\ opt \in CallOpts
    BY <1>5 DEF OSMutexPost
  <2>2. CASE Unnest(t, m) \/ Release(t, m)
    BY <1>3, <2>1, <2>2 DEF Unnest, Release, kvars
  <2>3. CASE HandOver(t, m, opt)
    <3>1. os'.cur = os.cur /\ os.cur \in Task /\ Return(opt)
      BY <2>1, <2>3, HandOverDoes, RunningOwner DEF HandOver
    <3> QED BY <2>1, <3>1, ReturnDispatched DEF Base
  <2> QED BY <1>5, <2>2, <2>3 DEF OSMutexPost
<1>6. CASE UNCHANGED vars
  BY <1>3, <1>6 DEF vars
<1> QED BY <1>1, <1>2, <1>4, <1>5, <1>6 DEF Next

(* Restore() sets OSPrioCur with the priority of the owner, which runs.    *)
LEMMA NextCurPrio ==
  ASSUME Base, "chprio" \notin Uses, CurPrio, [Next]_vars PROVE CurPrio'
<1>1. CASE KNext /\ UNCHANGED mvars
  BY <1>1, KNextPrios DEF Base
<1>2. ASSUME UNCHANGED os PROVE CurPrio'
  BY <1>2 DEF CurPrio
<1>3. ASSUME NEW t \in Task, OSMutexPendReturn(t) PROVE CurPrio'
  BY <1>2, <1>3 DEF OSMutexPendReturn
<1>4. ASSUME NEW t \in Task, NEW m \in Obj, NEW timeout \in Timeouts,
             OSMutexPend(t, m, timeout)
      PROVE  CurPrio'
  <2>1. CASE Acquire(t, m) \/ Reacquire(t, m)
    BY <1>2, <2>1 DEF Acquire, Reacquire
  <2>2. CASE Block(t, m, timeout)
    <3>1. Running(t)
      BY <1>4 DEF OSMutexPend
    <3>2. /\ owner[m] \in Task \ {Idle, t}
          /\ os'.cur = os.cur /\ os'.prioCur = os.prioCur
          /\ \A v \in Task : os'.prio[v] = IF v = owner[m] /\ os.prio[t] < os.prio[v]
                                          THEN os.prio[t] ELSE os.prio[v]
      BY <2>2, <3>1, BlockDoes
    <3>3. os.cur = t /\ os'.prio[t] = os.prio[t]
      BY <3>1, <3>2, RunningOwner
    <3> QED BY <3>2, <3>3 DEF CurPrio
  <2> QED BY <1>4, <2>1, <2>2 DEF OSMutexPend
<1>5. ASSUME NEW t \in Task, NEW m \in Obj, NEW opt \in Options,
             OSMutexPost(t, m, opt)
      PROVE  CurPrio'
  <2>1. CASE Unnest(t, m) \/ Release(t, m)
    BY <1>2, <2>1 DEF Unnest, Release
  <2>2. CASE HandOver(t, m, opt)
    <3>1. /\ os.cur = t /\ os'.cur = os.cur /\ os'.prio[t] = orig[m]
          /\ os.prioCur = os.prio[t] => os'.prioCur = orig[m]
      BY <1>5, <2>2, HandOverDoes, RunningOwner DEF OSMutexPost
    <3> QED BY <3>1 DEF CurPrio
  <2> QED BY <1>5, <2>1, <2>2 DEF OSMutexPost
<1>6. CASE UNCHANGED vars
  BY <1>2, <1>6 DEF vars, kvars
<1> QED BY <1>1, <1>3, <1>4, <1>5, <1>6 DEF Next

-----------------------------------------------------------------------------
(* Priority inheritance, for tasks that own one mutex at a time and keep   *)
(* their priority.  A waiter then owns nothing and nobody waits for it: no *)
(* inheritance has to be passed on.                                        *)

WaitersOwnNothing ==
  \A t \in Task : os.pendObj[t] # NoObj => \A m \in Obj : owner[m] # t

OwnOne ==
  \A m, n \in Obj : owner[m] \in Task /\ owner[m] = owner[n] => m = n

Boosted ==
  \A t \in Task : os.pendObj[t] # NoObj =>
    os.prio[owner[os.pendObj[t]]] =< os.prio[t]

OneAtATime == MaxHeld = 0 /\ "chprio" \notin Uses

BInv == WaitersOwnNothing /\ OwnOne /\ Boosted

(* A task that may acquire a mutex owns none but that one.                 *)
LEMMA OwnsNoOther ==
  ASSUME MaxHeld = 0, Base, BInv, NEW t \in Task, NEW m \in Obj,
         NEW timeout \in Timeouts, OSMutexPend(t, m, timeout)
  PROVE  \A n \in Obj \ {m} : owner[n] # t
<1> SUFFICES ASSUME NEW n \in Obj \ {m}, owner[n] = t PROVE FALSE
  OBVIOUS
<1>1. Owned(t) \ {m} = {n}
  BY DEF Owned, BInv, OwnOne
<1>2. IsFiniteSet({n}) /\ Cardinality({n}) = 1
  BY FS_Singleton
<1>3. Cardinality(Owned(t) \ {m}) =< MaxHeld
  BY DEF OSMutexPend
<1> QED BY <1>1, <1>2, <1>3

(* Who waits, waits for a mutex that has an owner.                         *)
LEMMA WaitedIsOwned ==
  ASSUME Base, NEW u \in Task, os.pendObj[u] # NoObj
  PROVE  /\ os.pendObj[u] \in Obj /\ owner[os.pendObj[u]] \in Task \ {u}
         /\ \A m \in Obj : owner[m] = NoTask => os.pendObj[u] # m
<1>1. os.pendObj[u] \in Obj
  BY DEF Base, KInv, KTypeOK, TCBTables
<1>2. owner[os.pendObj[u]] \in Task \ {u}
  BY DEF Base, ArgKnown
<1> QED BY <1>1, <1>2, MutexAssumption

(* The first waiter has the highest priority of all.                       *)
LEMMA HeadFirst ==
  ASSUME KInv, NEW m \in Obj, NEW u \in Task, os.pendObj[u] = m
  PROVE  os.prio[Head(os.pend[m])] =< os.prio[u]
<1>1. ListOf(os.pend[m], Waiters(os, m)) /\ SortedByPrio(os.pend[m], os.prio)
  BY PendAgreesLists DEF KInv, Good, Sorted
<1>2. /\ os.pend[m] \in Seq(Task) /\ Len(os.pend[m]) \in Nat
      /\ DOMAIN os.pend[m] = 1..Len(os.pend[m])
  BY <1>1, LenProperties DEF ListOf
<1>3. PICK i \in 1..Len(os.pend[m]) : os.pend[m][i] = u
  <2>1. \A x \in Waiters(os, m) : \E j \in 1..Len(os.pend[m]) : os.pend[m][j] = x
    BY <1>1, <1>2, ListOfElements
  <2>2. u \in Waiters(os, m)
    BY DEF Waiters
  <2> QED BY <2>1, <2>2
<1>4. Head(os.pend[m]) = os.pend[m][1]
  BY <1>2, <1>3
<1>5. os.prio[u] \in Nat
  BY CoreAssumption DEF KInv, KTypeOK, TCBTables, Prio
<1>6. CASE i = 1
  BY <1>3, <1>4, <1>5, <1>6
<1>7. CASE 1 < i
  BY <1>1, <1>2, <1>3, <1>4, <1>7 DEF SortedByPrio
<1> QED BY <1>6, <1>7

LEMMA AcquireBoosted ==
  ASSUME OneAtATime, Base, BInv, NEW t \in Task, NEW m \in Obj,
         NEW timeout \in Timeouts, OSMutexPend(t, m, timeout), Acquire(t, m)
  PROVE  BInv'
<1>1. UNCHANGED os /\ owner' = [owner EXCEPT ![m] = t] /\ own[m] = 0
  BY DEF Acquire
<1>2. owner \in [Obj -> Task \cup {NoTask}] /\ owner[m] = NoTask
  BY <1>1 DEF Base, TypeOK, OwnerSound
<1>3. os.pendObj[t] = NoObj /\ \A n \in Obj \ {m} : owner[n] # t
  BY OwnsNoOther, RunningOwner DEF OSMutexPend, OneAtATime
<1>4. owner'[m] = t /\ \A n \in Obj \ {m} : owner'[n] = owner[n]
  BY <1>1, <1>2
<1>5. WaitersOwnNothing'
  BY <1>1, <1>3, <1>4 DEF BInv, WaitersOwnNothing
<1>6. OwnOne'
  BY <1>3, <1>4 DEF BInv, OwnOne
<1>7. Boosted'
  BY <1>1, <1>2, <1>4, WaitedIsOwned DEF BInv, Boosted
<1> QED BY <1>5, <1>6, <1>7 DEF BInv

LEMMA BlockBoosted ==
  ASSUME OneAtATime, Base, BInv, NEW t \in Task, NEW m \in Obj,
         NEW timeout \in Timeouts, OSMutexPend(t, m, timeout), Block(t, m, timeout)
  PROVE  BInv'
<1>1. /\ owner[m] \in Task \ {Idle, t}
      /\ \A v \in Task : os'.prio[v] = IF v = owner[m] /\ os.prio[t] < os.prio[v]
                                      THEN os.prio[t] ELSE os.prio[v]
      /\ os'.pendObj[t] = m
      /\ \A v \in Task \ {t} : os'.pendObj[v] = os.pendObj[v]
  BY BlockDoes DEF OSMutexPend
<1>2. UNCHANGED owner /\ \A n \in Obj : owner[n] # t
  BY <1>1, OwnsNoOther DEF Block, OneAtATime
<1>3. os.prio \in [Task -> Nat]
  BY CoreAssumption DEF Base, KInv, KTypeOK, TCBTables, Prio
<1>4. WaitersOwnNothing' /\ OwnOne'
  BY <1>1, <1>2 DEF BInv, WaitersOwnNothing, OwnOne
<1>5. ASSUME NEW u \in Task, os'.pendObj[u] # NoObj
      PROVE  os'.prio[owner[os'.pendObj[u]]] =< os'.prio[u]
  <2>1. CASE u = t
    BY <1>1, <1>3, <2>1
  <2>2. CASE u # t
    <3>1. /\ os'.pendObj[u] = os.pendObj[u] /\ os.pendObj[u] \in Obj
          /\ owner[os.pendObj[u]] \in Task
      BY <1>1, <1>5, <2>2, WaitedIsOwned
    <3>2. os'.prio[owner[os.pendObj[u]]] =< os.prio[owner[os.pendObj[u]]]
      BY <1>1, <1>3, <3>1
    <3>3. u # owner[m]
      BY <1>5, <3>1 DEF BInv, WaitersOwnNothing
    <3>4. os'.prio[u] = os.prio[u]
      BY <1>1, <3>3
    <3>5. os.prio[owner[os.pendObj[u]]] =< os.prio[u]
      BY <1>5, <3>1 DEF BInv, Boosted
    <3>6. os'.prio[owner[os.pendObj[u]]] \in Nat
      BY <1>1, <1>3, <3>1
    <3> QED BY <1>3, <3>1, <3>2, <3>4, <3>5, <3>6
  <2> QED BY <2>1, <2>2
<1> QED BY <1>2, <1>4, <1>5 DEF BInv, Boosted

LEMMA ReleaseBoosted ==
  ASSUME Base, BInv, NEW t \in Task, NEW m \in Obj, Release(t, m)
  PROVE  BInv'
<1>1. UNCHANGED os /\ owner' = [owner EXCEPT ![m] = NoTask] /\ os.pend[m] = << >>
  BY DEF Release
<1>2. owner \in [Obj -> Task \cup {NoTask}] /\ NoTask \notin Task
  BY MutexAssumption DEF Base, TypeOK
<1>3. owner'[m] = NoTask /\ \A n \in Obj \ {m} : owner'[n] = owner[n]
  BY <1>1, <1>2
<1>4. \A u \in Task : os.pendObj[u] # m
  <2>1. ListOf(os.pend[m], Waiters(os, m))
    BY PendAgreesLists DEF Base, KInv, Good
  <2>2. Waiters(os, m) = {}
    BY <1>1, <2>1, ListOfNone
  <2> QED BY <2>2 DEF Waiters
<1>5. WaitersOwnNothing'
  BY <1>1, <1>2, <1>3 DEF BInv, WaitersOwnNothing
<1>6. OwnOne'
  BY <1>2, <1>3 DEF BInv, OwnOne
<1>7. Boosted'
  BY <1>1, <1>3, <1>4, WaitedIsOwned DEF BInv, Boosted
<1> QED BY <1>5, <1>6, <1>7 DEF BInv

(* The heir is the first waiter, and the owner before owns nothing now.    *)
LEMMA HandOverBoosted ==
  ASSUME Base, BInv, NEW t \in Task, NEW m \in Obj, NEW opt \in Options,
         OSMutexPost(t, m, opt), HandOver(t, m, opt)
  PROVE  BInv'
<1> DEFINE heir == Head(os.pend[m])
<1>1. Running(t) /\ owner[m] = t /\ owner' = [owner EXCEPT ![m] = heir]
  BY DEF OSMutexPost, HandOver
<1>2. /\ heir \in Task \ {Idle, t} /\ os.pendObj[heir] = m
      /\ os'.pendObj[heir] = NoObj
      /\ \A v \in Task \ {heir} : os'.pendObj[v] = os.pendObj[v]
      /\ \A v \in Task \ {t} : os'.prio[v] = os.prio[v]
  BY <1>1, HandOverDoes
<1>3. ASSUME NEW u \in Task, os.pendObj[u] = m PROVE os.prio[heir] =< os.prio[u]
  BY <1>3, HeadFirst DEF Base
<1> HIDE DEF heir
<1>4. owner \in [Obj -> Task \cup {NoTask}] /\ os.pendObj[t] = NoObj
  BY <1>1, RunningOwner DEF Base, TypeOK
<1>5. owner'[m] = heir /\ \A n \in Obj \ {m} : owner'[n] = owner[n] /\ owner[n] # t
  BY <1>1, <1>4 DEF BInv, OwnOne
<1>6. \A n \in Obj : owner[n] # heir
  BY <1>2, CoreAssumption DEF BInv, WaitersOwnNothing
<1>7. WaitersOwnNothing'
  BY <1>2, <1>5 DEF BInv, WaitersOwnNothing
<1>8. OwnOne'
  BY <1>5, <1>6 DEF BInv, OwnOne
<1>9. ASSUME NEW u \in Task, os'.pendObj[u] # NoObj
      PROVE  os'.prio[owner'[os'.pendObj[u]]] =< os'.prio[u]
  <2>1. u # heir /\ os'.pendObj[u] = os.pendObj[u] /\ u # t
    BY <1>2, <1>4, <1>9
  <2>2. /\ os.pendObj[u] \in Obj /\ owner[os.pendObj[u]] \in Task
        /\ os'.prio[u] = os.prio[u]
    BY <1>2, <1>9, <2>1, WaitedIsOwned
  <2>3. CASE os.pendObj[u] = m
    BY <1>2, <1>3, <1>5, <2>1, <2>2, <2>3
  <2>4. CASE os.pendObj[u] # m
    <3>1. owner'[os.pendObj[u]] = owner[os.pendObj[u]] /\ owner[os.pendObj[u]] # t
      BY <1>5, <2>2, <2>4
    <3>2. os.prio[owner[os.pendObj[u]]] =< os.prio[u]
      BY <1>9, <2>1 DEF BInv, Boosted
    <3> QED BY <1>2, <2>1, <2>2, <3>1, <3>2
  <2> QED BY <2>3, <2>4
<1> QED BY <1>7, <1>8, <1>9 DEF BInv, Boosted

LEMMA NextBoosted ==
  ASSUME OneAtATime, Base, BInv, [Next]_vars PROVE BInv'
<1>1. ASSUME UNCHANGED <<os, owner>> PROVE BInv'
  BY <1>1 DEF BInv, WaitersOwnNothing, OwnOne, Boosted
<1>2. CASE KNext /\ UNCHANGED mvars
  <2>1. os'.prio = os.prio /\ UNCHANGED owner
    BY <1>2, KNextPrios DEF Base, OneAtATime, mvars
  <2>2. WaitsEffect /\ os.pendObj \in [Task -> Obj \cup {NoObj}]
    BY <1>2, KNextWaits DEF Base, TypeOK, KTypeOK, TCBTables
  <2>3. \A u \in Task : os'.pendObj[u] \in {NoObj, os.pendObj[u]}
    BY <2>2 DEF WaitsEffect, WaitsStay, WaitEnds
  <2> QED BY <2>1, <2>3 DEF BInv, WaitersOwnNothing, OwnOne, Boosted
<1>3. ASSUME NEW t \in Task, OSMutexPendReturn(t) PROVE BInv'
  BY <1>1, <1>3 DEF OSMutexPendReturn
<1>4. ASSUME NEW t \in Task, NEW m \in Obj, NEW timeout \in Timeouts,
             OSMutexPend(t, m, timeout)
      PROVE  BInv'
  <2>1. CASE Reacquire(t, m)
    BY <1>1, <2>1 DEF Reacquire
  <2> QED BY <1>4, <2>1, AcquireBoosted, BlockBoosted DEF OSMutexPend
<1>5. ASSUME NEW t \in Task, NEW m \in Obj, NEW opt \in Options,
             OSMutexPost(t, m, opt)
      PROVE  BInv'
  <2>1. CASE Unnest(t, m)
    BY <1>1, <2>1 DEF Unnest
  <2> QED BY <1>5, <2>1, ReleaseBoosted, HandOverBoosted DEF OSMutexPost
<1>6. CASE UNCHANGED vars
  BY <1>1, <1>6 DEF vars, kvars, mvars
<1> QED BY <1>2, <1>3, <1>4, <1>5, <1>6 DEF Next

LEMMA BoostedInherits == Base /\ BInv => OwnerInherits
<1> SUFFICES ASSUME Base, BInv, NEW m \in Obj, NEW t \in Range(os.pend[m])
             PROVE  os.prio[owner[m]] =< os.prio[t]
  BY DEF OwnerInherits
<1>1. ListOf(os.pend[m], Waiters(os, m))
  BY PendAgreesLists DEF Base, KInv, Good
<1>2. t \in Task /\ os.pendObj[t] = m
  BY <1>1 DEF ListOf, Waiters
<1> QED BY <1>2, CoreAssumption DEF BInv, Boosted

LEMMA InitBoosted == ASSUME NoWrap PROVE Init => BInv
<1> SUFFICES ASSUME Init PROVE BInv
  OBVIOUS
<1>1. MInv
  BY InitInv
<1>2. \A t \in Task : os.pendObj[t] = NoObj
  BY <1>1 DEF Init, KInit, InPend, MInv, Base, Places
<1> QED BY <1>2, MutexAssumption DEF Init, BInv, WaitersOwnNothing, OwnOne, Boosted

-----------------------------------------------------------------------------
(* Deletion.  Base holds with deletions, too; a mutex that was deleted, and*)
(* that nobody is in a call on, has no owner, hence nobody waits for it.   *)

LostIsFree == \A m \in Lost : owner[m] = NoTask

DInv == Base /\ CallsAgree /\ LostIsFree

(* A waiter that moves in its pend list moves in no other.                 *)
LEMMA ChangePrioOthers ==
  ASSUME NEW ks \in TCBTables, NEW u \in Task, NEW p \in Prio,
         NEW q \in Obj, ks.pendObj[u] # q
  PROVE  OS_PendListChangePrio(ks, u, p).pend[q] = ks.pend[q]
<1> DEFINE o     == ks.pendObj[u]
           set   == [ks EXCEPT !.prio[u] = p]
           moved == [set EXCEPT !.pend[o] = Without(@, u)]
           back  == OS_PendListInsertPrio(moved, o, u)
<1>1. OS_PendListChangePrio(ks, u, p) =
        IF o = NoObj THEN set ELSE IF Len(ks.pend[o]) > 1 THEN back ELSE set
  BY DEF OS_PendListChangePrio
<1>2. set.pend = ks.pend
  BY DEF TCBTables
<1>3. moved.pend[q] = ks.pend[q]
  BY <1>2 DEF TCBTables
<1>4. back.pend[q] = moved.pend[q]
  BY DEF TCBTables, OS_PendListInsertPrio
<1> HIDE DEF o, set, moved, back
<1> QED BY <1>1, <1>2, <1>3, <1>4

LEMMA RestoreOwnerGood ==
  ASSUME Base, NEW m \in Obj
  PROVE  LET new == RestoreOwner(os, m)
         IN  /\ Good(new) /\ new.state = os.state
             /\ new.cur = os.cur
             /\ new.pendObj = os.pendObj /\ new.pendStatus = os.pendStatus
             /\ new.pend[m] = os.pend[m]
             /\ \A v \in Task :
                  new.prio[v] = IF v = owner[m] THEN orig[m] ELSE os.prio[v]
<1> DEFINE u   == owner[m]
           new == RestoreOwner(os, m)
           any == ChangePrio(os, u, orig[m], FALSE)
<1>1. /\ Good(os) /\ orig[m] \in Prio /\ u \in Task \cup {NoTask} /\ u # Idle
      /\ os \in TCBTables /\ os.prio \in [Task -> Prio]
  BY Types DEF Base, KInv, Good, OwnerSound
<1>2. CASE u = NoTask \/ os.prio[u] = orig[m]
  <2>1. new = os
    BY <1>2 DEF RestoreOwner
  <2>2. \A v \in Task : v = u => os.prio[v] = orig[m]
    BY <1>2, MutexAssumption
  <2> QED BY <1>1, <2>1, <2>2
<1>3. CASE u # NoTask /\ os.prio[u] # orig[m]
  <2>1. new = any
    BY <1>3 DEF RestoreOwner, ChangePrio
  <2>2. u \in Task \ {Idle}
    BY <1>1, <1>3
  <2>3. \A self \in BOOLEAN :
          LET moved == ChangePrio(os, u, orig[m], self)
          IN  /\ Good(moved) /\ moved.prio = [os.prio EXCEPT ![u] = orig[m]]
              /\ moved.state = os.state /\ moved.cur = os.cur
              /\ moved.pendObj = os.pendObj /\ moved.pendStatus = os.pendStatus
    BY <1>1, <2>2, ChangePrioGood
  <2>4. /\ Good(any) /\ any.prio = [os.prio EXCEPT ![u] = orig[m]]
        /\ any.state = os.state /\ any.cur = os.cur
        /\ any.pendObj = os.pendObj /\ any.pendStatus = os.pendStatus
    BY <2>3, Zenon
  <2>5. new.pend[m] = os.pend[m]
    <3>1. os.pendObj[u] # m
      BY <1>1, <2>2, CoreAssumption DEF Base, ArgKnown
    <3>2. CASE os.state[u] = {}
      <4>1. new = OS_RdyListInsertTail([OS_RdyListRemove(os, u) EXCEPT !.prio[u] = orig[m]], u)
        BY <1>3, <3>2 DEF RestoreOwner
      <4> QED BY <1>1, <4>1 DEF OS_RdyListInsertTail, OS_RdyListRemove, TCBTables
    <3>3. CASE os.state[u] # {} /\ "PEND" \in os.state[u]
      <4>1. new = OS_PendListChangePrio(os, u, orig[m])
        BY <1>3, <3>3 DEF RestoreOwner
      <4> QED BY <1>1, <2>2, <3>1, <4>1, ChangePrioOthers
    <3>4. CASE os.state[u] # {} /\ "PEND" \notin os.state[u]
      <4>1. new = [os EXCEPT !.prio[u] = orig[m]]
        BY <1>3, <3>4 DEF RestoreOwner
      <4> QED BY <1>1, <4>1 DEF TCBTables
    <3> QED BY <3>2, <3>3, <3>4
  <2> HIDE DEF new, any, u
  <2>6. \A v \in Task : new.prio[v] = IF v = u THEN orig[m] ELSE os.prio[v]
    BY <1>1, <2>1, <2>2, <2>4
  <2> QED BY <2>1, <2>4, <2>5, <2>6 DEF new, u
<1> QED BY <1>2, <1>3

(* What a deletion leaves of the mutex m.                                  *)
LEMMA MutexClr ==
  ASSUME DInv, NEW m \in Obj, OS_MutexClr(m), Lost' \subseteq Lost \cup {m}
  PROVE  /\ owner' \in [Obj -> Task \cup {NoTask}] /\ own' \in [Obj -> 0..NestMod - 1]
         /\ orig' \in [Obj -> Prio] /\ holds' \in [Task -> [Obj -> 0..MaxOwn]]
         /\ owner'[m] = NoTask /\ own'[m] = 0
         /\ \A n \in Obj \ {m} : owner'[n] = owner[n] /\ own'[n] = own[n]
                                 /\ orig'[n] = orig[n]
         /\ \A t \in Task, n \in Obj : holds'[t][n] = IF n = m THEN 0 ELSE holds[t][n]
         /\ LostIsFree'
<1>1. /\ owner \in [Obj -> Task \cup {NoTask}] /\ own \in [Obj -> 0..NestMod - 1]
      /\ orig \in [Obj -> Prio] /\ holds \in [Task -> [Obj -> 0..MaxOwn]]
      /\ NestMod \in Nat \ {0, 1} /\ MaxOwn \in Nat /\ PrioMax \in Nat
  BY Types, CoreAssumption DEF DInv
<1>2. /\ owner' = [owner EXCEPT ![m] = NoTask] /\ own' = [own EXCEPT ![m] = 0]
      /\ orig' = [orig EXCEPT ![m] = PrioMax]
      /\ holds' = [t \in Task |-> [holds[t] EXCEPT ![m] = 0]]
  BY DEF OS_MutexClr
<1>3. PrioMax \in Prio
  BY <1>1 DEF Prio
<1>4. /\ owner' \in [Obj -> Task \cup {NoTask}] /\ own' \in [Obj -> 0..NestMod - 1]
      /\ orig' \in [Obj -> Prio]
      /\ owner'[m] = NoTask /\ own'[m] = 0
      /\ \A n \in Obj \ {m} : owner'[n] = owner[n] /\ own'[n] = own[n]
                              /\ orig'[n] = orig[n]
  BY <1>1, <1>2, <1>3
<1>5. holds' \in [Task -> [Obj -> 0..MaxOwn]]
      /\ \A t \in Task, n \in Obj : holds'[t][n] = IF n = m THEN 0 ELSE holds[t][n]
  BY <1>1, <1>2
<1>6. LostIsFree'
  <2>1. Lost \subseteq Obj
    BY DEF DInv, CallsAgree, CallTypeOK, Lost
  <2> QED BY <1>4, <2>1 DEF DInv, LostIsFree
<1> QED BY <1>4, <1>5, <1>6

(* Base after a deletion of m of which only the tasks that wait for m, all *)
(* of them told, know.                                                     *)
LEMMA ClearedBase ==
  ASSUME DInv, NEW c \in Task, NEW m \in Obj, Delete(c, m), OS_MutexClr(m), UNCHANGED arg,
         KInv', Places', crit'.op # "post",
         \A t \in Task : InPend(t)' <=> InPend(t),
         \A t \in Task : \/ /\ os.pendObj[t] # m /\ os'.pendObj[t] = os.pendObj[t]
                            /\ os'.pendStatus[t] = os.pendStatus[t]
                         \/ /\ os.pendObj[t] = m /\ os'.pendObj[t] = NoObj
                            /\ os'.pendStatus[t] # "OK"
  PROVE  DInv'
<1>1. /\ owner' \in [Obj -> Task \cup {NoTask}] /\ own' \in [Obj -> 0..NestMod - 1]
      /\ orig' \in [Obj -> Prio] /\ holds' \in [Task -> [Obj -> 0..MaxOwn]]
      /\ owner'[m] = NoTask /\ own'[m] = 0
      /\ \A n \in Obj \ {m} : owner'[n] = owner[n] /\ own'[n] = own[n]
      /\ \A t \in Task, n \in Obj : holds'[t][n] = IF n = m THEN 0 ELSE holds[t][n]
      /\ LostIsFree' /\ CallsAgree'
  BY MutexClr, DeleteCalls DEF DInv
<1>2. /\ arg \in [Task -> Obj \cup {NoObj}] /\ holds \in [Task -> [Obj -> 0..MaxOwn]]
      /\ MaxOwn \in Nat /\ NoTask \notin Task /\ NoObj \notin Obj /\ NoTask # Idle
  BY Types, CoreAssumption DEF DInv
<1>3. TypeOK'
  BY <1>1, <1>2 DEF TypeOK, KInv
<1>4. ASSUME NEW t \in Task
      PROVE  /\ arg'[t] # NoObj <=> InPend(t)'
             /\ os'.pendObj[t] # NoObj =>
                  /\ InPend(t)' /\ os'.pendObj[t] = arg'[t]
                  /\ owner'[arg'[t]] \in Task \ {t}
             /\ InPend(t)' /\ (os'.pendObj[t] # NoObj \/ os'.pendStatus[t] = "OK") =>
                  holds'[t][arg'[t]] < MaxOwn
  <2>1. /\ arg[t] # NoObj <=> InPend(t)
        /\ os.pendObj[t] # NoObj =>
             InPend(t) /\ os.pendObj[t] = arg[t] /\ owner[arg[t]] \in Task \ {t}
        /\ InPend(t) /\ (os.pendObj[t] # NoObj \/ os.pendStatus[t] = "OK") =>
             holds[t][arg[t]] < MaxOwn
    BY DEF DInv, Base, ArgKnown
  <2>2. InPend(t) => arg[t] \in Obj
    BY <1>2, <2>1
  <2>3. CASE os.pendObj[t] = m /\ os'.pendObj[t] = NoObj /\ os'.pendStatus[t] # "OK"
    BY <2>1, <2>3
  <2>4. CASE /\ os.pendObj[t] # m /\ os'.pendObj[t] = os.pendObj[t]
             /\ os'.pendStatus[t] = os.pendStatus[t]
    <3>1. os.pendObj[t] # NoObj => owner'[arg[t]] = owner[arg[t]]
      BY <1>1, <2>1, <2>2, <2>4
    <3>2. ASSUME InPend(t), holds[t][arg[t]] < MaxOwn PROVE holds'[t][arg[t]] < MaxOwn
      BY <1>1, <1>2, <2>2, <3>2
    <3> QED BY <2>1, <2>4, <3>1, <3>2
  <2> QED BY <2>3, <2>4
<1>5. ArgKnown'
  BY <1>4 DEF ArgKnown
<1>6. ASSUME NEW n \in Obj PROVE OwnerSound(n)'
  <2>1. CASE n = m
    BY <1>1, <1>2, <2>1 DEF OwnerSound
  <2>2. CASE n # m
    <3>1. ASSUME NEW t \in Task, IsHeir(t, n) PROVE IsHeir(t, n)'
      BY <1>1, <1>2, <2>2, <3>1 DEF IsHeir
    <3> QED BY <1>1, <2>2, <3>1 DEF DInv, Base, OwnerSound
  <2> QED BY <2>1, <2>2
<1> QED BY <1>1, <1>3, <1>5, <1>6 DEF DInv, Base

LEMMA MutexDelNoPendInv ==
  ASSUME DInv, NEW t \in Task, NEW m \in Obj, OSMutexDelNoPend(t, m)
  PROVE  DInv'
<1>1. /\ os.pend[m] = << >> /\ OS_MutexClr(m) /\ UNCHANGED kvars /\ UNCHANGED arg
      /\ Delete(t, m)
  BY DEF OSMutexDelNoPend
<1>2. KInv' /\ Places' /\ crit'.op # "post" /\ \A u \in Task : InPend(u)' <=> InPend(u)
  BY <1>1, KernelIdle DEF DInv
<1>3. \A u \in Task : os.pendObj[u] # m /\ os' = os
  BY <1>1, NobodyWaits DEF DInv, kvars
<1> QED BY <1>1, <1>2, <1>3, ClearedBase

(* The owner falls back to its own priority, then the waiters are told.    *)
LEMMA MutexDelAlwaysDoes ==
  ASSUME DInv, NEW t \in Task, NEW m \in Obj, OSMutexDelAlways(t, m)
  PROVE  /\ Running(t) /\ Good(os') /\ os'.cur = os.cur
         /\ \A u \in Task : os.pendObj[u] = m =>
              /\ os'.pendObj[u] = NoObj /\ os'.pendStatus[u] = "DEL"
              /\ os'.state[u] = os.state[u] \ {"DLY", "PEND"}
         /\ \A u \in Task : os.pendObj[u] # m =>
              /\ os'.pendObj[u] = os.pendObj[u]
              /\ os'.pendStatus[u] = os.pendStatus[u]
              /\ os'.state[u] = os.state[u]
         /\ \A u \in Task :
              os'.prio[u] = IF u = owner[m] THEN orig[m] ELSE os.prio[u]
<1> DEFINE mid == RestoreOwner(os, m)
           end == FoldLeft(OS_PendObjDel, mid, mid.pend[m])
<1>1. Running(t) /\ os' = FoldLeft(OS_PendObjDel, mid, os.pend[m])
  BY DEF OSMutexDelAlways, Delete, Within
<1>2. /\ Good(mid) /\ mid.state = os.state /\ mid.cur = os.cur
      /\ mid.pendObj = os.pendObj /\ mid.pendStatus = os.pendStatus
      /\ mid.pend[m] = os.pend[m]
      /\ \A u \in Task : mid.prio[u] = IF u = owner[m] THEN orig[m] ELSE os.prio[u]
  BY RestoreOwnerGood DEF DInv
<1> HIDE DEF mid
<1>3. Told(mid, end, "DEL", m, Waiters(mid, m))
  BY <1>2, AllAreTold
<1>4. os' = end
  BY <1>1, <1>2
<1> HIDE DEF end
<1>5. /\ Good(os') /\ os'.cur = mid.cur /\ os'.prio = mid.prio
      /\ \A u \in Waiters(mid, m) :
           /\ os'.pendObj[u] = NoObj /\ os'.pendStatus[u] = "DEL"
           /\ os'.state[u] = mid.state[u] \ {"DLY", "PEND"}
      /\ \A u \in Task \ Waiters(mid, m) :
           /\ os'.pendObj[u] = mid.pendObj[u]
           /\ os'.pendStatus[u] = mid.pendStatus[u]
           /\ os'.state[u] = mid.state[u]
  BY <1>3, <1>4 DEF Told
<1>6. \A u \in Task : u \in Waiters(mid, m) <=> os.pendObj[u] = m
  BY <1>2 DEF Waiters
<1> QED BY <1>1, <1>2, <1>5, <1>6

LEMMA MutexDelAlwaysInv ==
  ASSUME DInv, NEW t \in Task, NEW m \in Obj, OSMutexDelAlways(t, m)
  PROVE  DInv'
<1>1. /\ OS_MutexClr(m) /\ Goto(t, "sched") /\ UNCHANGED <<nest, lock, crit, arg>>
      /\ Delete(t, m)
  BY DEF OSMutexDelAlways
<1>2. /\ Running(t) /\ Good(os') /\ os'.cur = os.cur
      /\ \A u \in Task : os.pendObj[u] = m =>
           os'.pendObj[u] = NoObj /\ os'.pendStatus[u] = "DEL"
      /\ \A u \in Task : os.pendObj[u] # m =>
           /\ os'.pendObj[u] = os.pendObj[u]
           /\ os'.pendStatus[u] = os.pendStatus[u]
           /\ os'.state[u] = os.state[u]
  BY MutexDelAlwaysDoes
<1>3. /\ os.cur = t /\ os.state[t] = {} /\ os.pendObj[t] = NoObj /\ ~InPend(t)
      /\ pc[t] = "run" /\ crit.op = "none" /\ KInv /\ Places
  BY <1>2, RunningOwner DEF DInv, Base
<1>4. os'.state[t] = {}
  BY <1>2, <1>3, CoreAssumption
<1>5. KInv'
  BY <1>1, <1>2, <1>3, <1>4, CallInv
<1>6. \A u \in Task : InPend(u)' <=> InPend(u)
  BY <1>1, <1>3, CallStays DEF SamePlaces
<1>7. Places' /\ crit'.op # "post"
  <2>1. \A u \in Task : os.pendObj[u] = NoObj => os'.pendObj[u] = NoObj
    BY <1>2, CoreAssumption
  <2> QED BY <1>1, <1>3, <1>6, <2>1, PlacesKept DEF SamePlaces
<1>8. ASSUME NEW u \in Task
      PROVE  \/ /\ os.pendObj[u] # m /\ os'.pendObj[u] = os.pendObj[u]
                /\ os'.pendStatus[u] = os.pendStatus[u]
             \/ /\ os.pendObj[u] = m /\ os'.pendObj[u] = NoObj
                /\ os'.pendStatus[u] # "OK"
  BY <1>2
<1> QED BY <1>1, <1>5, <1>6, <1>7, <1>8, ClearedBase

LEMMA MutexCreateInv ==
  ASSUME DInv, Orderly, NEW t \in Task, NEW m \in Obj, OSMutexCreate(t, m)
  PROVE  DInv' /\ UNCHANGED <<os, owner, orig>> /\ UNCHANGED kvars
<1>1. /\ m \in Lost /\ Lost' = Lost \ {m} /\ os' = [os EXCEPT !.pend[m] = << >>]
      /\ UNCHANGED <<pc, nest, lock, crit>> /\ UNCHANGED mvars /\ CallsAgree'
  BY CreateCalls DEF OSMutexCreate, Create, DInv
<1>2. os.pend[m] = << >>
  <2>1. ListOf(os.pend[m], Waiters(os, m))
    BY PendAgreesLists DEF DInv, Base, KInv, Good
  <2>2. \A u \in Task : os.pendObj[u] # m
    BY <1>1, MutexAssumption, CoreAssumption DEF DInv, LostIsFree, Base, ArgKnown
  <2>3. Waiters(os, m) = {}
    BY <2>2 DEF Waiters
  <2> QED BY <2>1, <2>3, ListOfNone
<1>3. os' = os
  <2>1. os \in TCBTables
    BY DEF DInv, Base, KInv, Good
  <2> QED BY <1>1, <1>2, <2>1 DEF TCBTables
<1>4. UNCHANGED vars
  BY <1>1, <1>3 DEF vars, kvars
<1>5. Base'
  BY <1>4, StutterBase DEF DInv
<1> QED BY <1>1, <1>3, <1>4, <1>5 DEF DInv, LostIsFree, mvars, vars

(* A step that gives nobody a mutex that is gone.                          *)
LEMMA OthersFree ==
  ASSUME DInv, Base', CallsAgree', UNCHANGED gone, NEW m \in Obj \ Lost,
         \A n \in Obj \ {m} : owner'[n] = owner[n]
  PROVE  DInv'
<1>1. Lost' = Lost /\ Lost \subseteq Obj \ {m}
  BY DEF DInv, CallsAgree, CallTypeOK, Lost
<1> QED BY <1>1 DEF DInv, LostIsFree

LEMMA OwnersStay ==
  ASSUME DInv, Base', CallsAgree', UNCHANGED gone, UNCHANGED owner PROVE DInv'
  BY DEF DInv, LostIsFree, Lost

LEMMA OnMutexesInv == ASSUME NoWrap, DInv, OnMutexes PROVE DInv'
<1>0. Base /\ CallsAgree
  BY DEF DInv
<1>1. CASE CNext /\ UNCHANGED mvars
  <2>1. CallsAgree' /\ UNCHANGED gone /\ (KNext \/ UNCHANGED kvars)
    BY <1>0, <1>1, CNextCalls
  <2>2. Base'
    BY <1>0, <1>1, <2>1, KernelStepInv, StutterBase DEF vars
  <2> QED BY <1>1, <2>1, <2>2, OwnersStay DEF mvars
<1>2. ASSUME NEW t \in Task, OSMutexPendReturn(t), UNCHANGED callvars PROVE DInv'
  <2>1. CallsAgree' /\ UNCHANGED gone
    BY <1>0, <1>2, CallsStutter
  <2> QED BY <1>0, <1>2, <2>1, PendReturnInv, OwnersStay DEF OSMutexPendReturn
<1>3. ASSUME NEW t \in Task, NEW m \in Obj, Passed(m), NEW timeout \in Timeouts,
             holds[t][m] < MaxOwn, OSMutexPend(t, m, timeout)
      PROVE  DInv'
  <2>1. CallsAgree' /\ UNCHANGED gone /\ m \in Obj \ Lost
    BY <1>0, <1>3, PassedCalls
  <2>2. Base'
    BY <1>0, <1>3, AcquireInv, ReacquireInv, BlockInv DEF OSMutexPend
  <2>3. \A n \in Obj \ {m} : owner'[n] = owner[n]
    BY <1>0, <1>3, Types DEF OSMutexPend, Acquire, Reacquire, Block
  <2> QED BY <2>1, <2>2, <2>3, OthersFree
<1>4. ASSUME NEW t \in Task, NEW m \in Obj, Passed(m), NEW opt \in Options,
             OSMutexPost(t, m, opt)
      PROVE  DInv'
  <2>1. CallsAgree' /\ UNCHANGED gone /\ m \in Obj \ Lost
    BY <1>0, <1>4, PassedCalls
  <2>2. Base'
    BY <1>0, <1>4, UnnestInv, ReleaseInv, HandOverInv DEF OSMutexPost
  <2>3. \A n \in Obj \ {m} : owner'[n] = owner[n]
    BY <1>0, <1>4, Types DEF OSMutexPost, Unnest, Release, HandOver
  <2> QED BY <2>1, <2>2, <2>3, OthersFree
<1> QED BY <1>1, <1>2, <1>3, <1>4 DEF OnMutexes

LEMMA NextDel == NoWrap /\ Orderly /\ DInv /\ [DelNext]_allvars => DInv'
<1> SUFFICES ASSUME NoWrap, Orderly, DInv, [DelNext]_allvars PROVE DInv'
  OBVIOUS
<1>0. Base
  BY DEF DInv
<1>1. CASE OnMutexes
  BY <1>1, OnMutexesInv
<1>2. ASSUME NEW t \in Task, NEW m \in Obj,
             OSMutexDelNoPend(t, m) \/ OSMutexDelAlways(t, m) \/ OSMutexCreate(t, m)
      PROVE  DInv'
  BY <1>2, MutexDelNoPendInv, MutexDelAlwaysInv, MutexCreateInv
<1>3. CASE UNCHANGED allvars
  <2>1. CallsAgree' /\ UNCHANGED gone /\ UNCHANGED owner /\ UNCHANGED vars
    BY <1>3, CallsStutter DEF DInv, allvars, vars, mvars
  <2> QED BY <1>0, <2>1, StutterBase, OwnersStay
<1> QED BY <1>1, <1>2, <1>3 DEF DelNext

LEMMA InitDel == ASSUME NoWrap, DelInit PROVE DInv
<1>1. CallsAgree /\ Lost = {}
  BY InitCalls DEF DelInit, CallInit, Lost
<1> QED BY <1>1, InitInv DEF DelInit, DInv, LostIsFree, MInv

LEMMA DelInvariance == ASSUME NoWrap, Orderly PROVE DelSpec => []DInv
<1>1. DelInit => DInv
  BY InitDel
<1>2. DInv /\ [DelNext]_allvars => DInv'
  BY NextDel
<1> QED BY <1>1, <1>2, PTL DEF DelSpec

(* With deletions, the calls that do not delete are those of OSMutex.      *)
LEMMA OnMutexesNext == ASSUME CallsAgree, OnMutexes PROVE [Next]_vars
<1>1. CASE CNext /\ UNCHANGED mvars
  BY <1>1, CNextCalls DEF Next, vars
<1>2. CASE ~CNext
  BY <1>2 DEF OnMutexes, Next
<1> QED BY <1>1, <1>2 DEF OnMutexes, Next

LEMMA OnMutexesDeleteNothing == ASSUME CallsAgree, OnMutexes PROVE UNCHANGED gone
<1>1. CASE CNext
  BY <1>1, CNextCalls
<1>2. CASE ~CNext
  BY <1>2, CallsStutter, PassedCalls DEF OnMutexes
<1> QED BY <1>1, <1>2

(* OSMutexDel() may leave its caller with a lower priority than it had:    *)
(* the caller goes on only after OSSched().                                *)
LEMMA NextDelDispatched ==
  ASSUME DInv, Orderly, AlwaysSched, Dispatched, [DelNext]_allvars PROVE Dispatched'
<1>1. CASE OnMutexes
  <2>1. [Next]_vars
    BY <1>1, OnMutexesNext DEF DInv
  <2> QED BY <2>1, NextDispatched DEF DInv
<1>2. ASSUME NEW t \in Task, NEW m \in Obj, OSMutexDelAlways(t, m) PROVE Dispatched'
  <2>1. Goto(t, "sched") /\ Running(t) /\ os'.cur = os.cur
    BY <1>2, MutexDelAlwaysDoes DEF OSMutexDelAlways
  <2> QED BY <2>1, OnTheWay DEF Running, DInv, Base
<1>3. ASSUME NEW t \in Task, NEW m \in Obj, OSMutexDelNoPend(t, m) PROVE Dispatched'
  BY <1>3 DEF OSMutexDelNoPend, kvars, Dispatched
<1>4. ASSUME NEW t \in Task, NEW m \in Obj, OSMutexCreate(t, m) PROVE Dispatched'
  BY <1>4, MutexCreateInv DEF kvars, Dispatched
<1>5. CASE UNCHANGED allvars
  BY <1>5 DEF allvars, vars, kvars, Dispatched
<1> QED BY <1>1, <1>2, <1>3, <1>4, <1>5 DEF DelNext

(* A deletion takes the mutex from its owner, who keeps no priority it     *)
(* inherited through it, and nobody waits for it any more.                 *)
LEMMA DeletionDoes ==
  ASSUME DInv, NEW t \in Task, NEW m \in Obj,
         OSMutexDelNoPend(t, m) \/ OSMutexDelAlways(t, m)
  PROVE  /\ owner'[m] = NoTask
         /\ \A n \in Obj \ {m} : owner'[n] = owner[n] /\ orig'[n] = orig[n]
         /\ \A u \in Task : /\ os.pendObj[u] = m => os'.pendObj[u] = NoObj
                            /\ os.pendObj[u] # m => os'.pendObj[u] = os.pendObj[u]
                            /\ os'.state[u] \subseteq os.state[u]
         /\ gone' \subseteq gone \cup {m} /\ UNCHANGED crit
<1>1. OS_MutexClr(m) /\ UNCHANGED crit
  BY DEF OSMutexDelNoPend, OSMutexDelAlways, kvars
<1>2. /\ owner'[m] = NoTask /\ gone' = gone \cup {m}
      /\ \A n \in Obj \ {m} : owner'[n] = owner[n] /\ orig'[n] = orig[n]
  <2>1. Delete(t, m)
    BY DEF OSMutexDelNoPend, OSMutexDelAlways
  <2> QED BY <1>1, <2>1, MutexClr, DeleteCalls DEF DInv
<1>3. CASE OSMutexDelNoPend(t, m)
  <2>1. UNCHANGED os /\ \A u \in Task : os.pendObj[u] # m
    BY <1>3, NobodyWaits DEF OSMutexDelNoPend, kvars, DInv
  <2> QED BY <1>1, <1>2, <2>1
<1>4. CASE OSMutexDelAlways(t, m)
  <2>1. \A u \in Task : /\ os.pendObj[u] = m => os'.pendObj[u] = NoObj
                        /\ os.pendObj[u] # m => os'.pendObj[u] = os.pendObj[u]
                        /\ os'.state[u] \subseteq os.state[u]
    BY <1>4, MutexDelAlwaysDoes
  <2> QED BY <1>1, <1>2, <2>1
<1> QED BY <1>3, <1>4

(* ... and the owner has the priority it had when it acquired the mutex.   *)
LEMMA DeletionPrios ==
  ASSUME DInv, NEW t \in Task, NEW m \in Obj
  PROVE  /\ OSMutexDelNoPend(t, m) => os'.prio = os.prio /\ \A u \in Task : os.pendObj[u] # m
         /\ OSMutexDelAlways(t, m) =>
              \A u \in Task : os'.prio[u] = IF u = owner[m] THEN orig[m] ELSE os.prio[u]
<1>1. OSMutexDelNoPend(t, m) => os'.prio = os.prio /\ \A u \in Task : os.pendObj[u] # m
  BY NobodyWaits DEF OSMutexDelNoPend, kvars, DInv
<1>2. OSMutexDelAlways(t, m) =>
        \A u \in Task : os'.prio[u] = IF u = owner[m] THEN orig[m] ELSE os.prio[u]
  BY MutexDelAlwaysDoes
<1> QED BY <1>1, <1>2

LEMMA DeletionBoosted ==
  ASSUME DInv, BInv, NEW t \in Task, NEW m \in Obj,
         OSMutexDelNoPend(t, m) \/ OSMutexDelAlways(t, m)
  PROVE  BInv'
<1>1. /\ owner'[m] = NoTask
      /\ \A n \in Obj \ {m} : owner'[n] = owner[n] /\ orig'[n] = orig[n]
      /\ \A u \in Task : /\ os.pendObj[u] = m => os'.pendObj[u] = NoObj
                         /\ os.pendObj[u] # m => os'.pendObj[u] = os.pendObj[u]
  BY DeletionDoes
<1>2. WaitersOwnNothing'
  BY <1>1, MutexAssumption, CoreAssumption DEF BInv, WaitersOwnNothing
<1>3. OwnOne'
  BY <1>1, MutexAssumption DEF BInv, OwnOne
<1>4. ASSUME NEW u \in Task, os'.pendObj[u] # NoObj
      PROVE  os'.prio[owner'[os'.pendObj[u]]] =< os'.prio[u]
  <2>1. os'.pendObj[u] = os.pendObj[u] /\ os.pendObj[u] # m
    BY <1>1, <1>4
  <2>2. os.pendObj[u] \in Obj /\ owner[os.pendObj[u]] \in Task
    BY <1>4, <2>1, WaitedIsOwned DEF DInv
  <2>3. owner'[os.pendObj[u]] = owner[os.pendObj[u]]
    BY <1>1, <2>1, <2>2
  <2>4. os.prio[owner[os.pendObj[u]]] =< os.prio[u]
    BY <1>4, <2>1 DEF BInv, Boosted
  <2>5. owner[os.pendObj[u]] # owner[m] /\ u # owner[m]
    BY <1>4, <2>1, <2>2 DEF BInv, OwnOne, WaitersOwnNothing
  <2>6. \A v \in Task \ {owner[m]} : os'.prio[v] = os.prio[v]
    BY DeletionPrios
  <2> QED BY <2>1, <2>2, <2>3, <2>4, <2>5, <2>6
<1> QED BY <1>2, <1>3, <1>4 DEF BInv, Boosted

LEMMA NextDelBoosted ==
  ASSUME OneAtATime, Orderly, DInv, BInv, [DelNext]_allvars PROVE BInv'
<1>1. CASE OnMutexes
  BY <1>1, OnMutexesNext, NextBoosted DEF DInv
<1>2. ASSUME NEW t \in Task, NEW m \in Obj, OSMutexCreate(t, m) PROVE BInv'
  <2>1. UNCHANGED <<os, owner>>
    BY <1>2, MutexCreateInv
  <2> QED BY <2>1 DEF BInv, WaitersOwnNothing, OwnOne, Boosted
<1>3. CASE UNCHANGED allvars
  BY <1>3, NextBoosted DEF DInv, allvars
<1> QED BY <1>1, <1>2, <1>3, DeletionBoosted DEF DelNext

-----------------------------------------------------------------------------
(* The priority a task has of its own, where each wait for a mutex ends    *)
(* with the mutex or its deletion: no timeouts, no aborts, and, as above,  *)
(* one mutex at a time and no priority changed by the application.  The    *)
(* owner then has an inherited priority only while somebody waits, so that *)
(* whatever takes the mutex from it finds whose priority to give back.     *)

WaitsEndWithMutex == OneAtATime /\ Uses \cap {"timeout", "abort"} = {}

Waited(m) == \E u \in Task : os.pendObj[u] = m

OwnPrios ==
  \A t \in Task : (\A m \in Obj : owner[m] # t) => os.prio[t] = InitPrio[t]

BoostIsWaited ==
  \A m \in Obj : owner[m] \in Task =>
    /\ orig[m] = InitPrio[owner[m]]
    /\ os.prio[owner[m]] # InitPrio[owner[m]] => Waited(m)

PInv == NoTimedWait /\ crit.op # "abort" /\ OwnPrios /\ BoostIsWaited

LEMMA InitOwnPrios == DelInit => PInv
<1> SUFFICES ASSUME DelInit PROVE PInv
  OBVIOUS
<1>1. crit.op # "abort" /\ \A m \in Obj : owner[m] = NoTask
  BY DEF DelInit, Init, KInit, Free
<1>2. PICK lists : os = OS_TASK_SW(InitTables(lists))
  BY DEF DelInit, Init, KInit
<1>3. os.prio = InitPrio /\ os.state = [t \in Task |-> {}]
  BY <1>2 DEF OS_TASK_SW, InitTables
<1> QED BY <1>1, <1>3, MutexAssumption DEF PInv, NoTimedWait, OwnPrios, BoostIsWaited

LEMMA KernelOwnPrios ==
  ASSUME WaitsEndWithMutex, Base, PInv, KNext, UNCHANGED mvars PROVE PInv'
<1>1. os'.pendObj = os.pendObj /\ NoTimedWait' /\ crit'.op # "abort"
  BY KNextKeepsWaits DEF WaitsEndWithMutex, OneAtATime, Base, PInv
<1>2. os'.prio = os.prio /\ UNCHANGED <<owner, orig>>
  BY KNextPrios DEF WaitsEndWithMutex, OneAtATime, Base, mvars
<1> QED BY <1>1, <1>2 DEF PInv, OwnPrios, BoostIsWaited, Waited

LEMMA PendOwnPrios ==
  ASSUME WaitsEndWithMutex, Base, BInv, PInv, NEW t \in Task, NEW m \in Obj,
         NEW timeout \in Timeouts, OSMutexPend(t, m, timeout)
  PROVE  PInv'
<1>1. /\ os.pendObj[t] = NoObj /\ os.state[t] = {} /\ UNCHANGED crit
      /\ \A n \in Obj \ {m} : owner[n] # t
  BY RunningOwner, OwnsNoOther DEF OSMutexPend, WaitsEndWithMutex, OneAtATime
<1>2. /\ owner \in [Obj -> Task \cup {NoTask}] /\ NoTask \notin Task
      /\ orig \in [Obj -> Prio]
  BY Types
<1>3. CASE Acquire(t, m)
  <2>1. /\ UNCHANGED os /\ owner[m] = NoTask
        /\ owner' = [owner EXCEPT ![m] = t] /\ orig' = [orig EXCEPT ![m] = os.prio[t]]
    BY <1>3 DEF Acquire, Base, OwnerSound
  <2>2. owner'[m] = t /\ orig'[m] = os.prio[t]
        /\ \A n \in Obj \ {m} : owner'[n] = owner[n] /\ orig'[n] = orig[n]
    BY <1>2, <2>1
  <2>3. os.prio[t] = InitPrio[t]
    BY <1>1, <1>2, <2>1 DEF PInv, OwnPrios
  <2>4. OwnPrios'
    BY <1>2, <2>1, <2>2 DEF PInv, OwnPrios
  <2>5. BoostIsWaited'
    BY <2>1, <2>2, <2>3 DEF PInv, BoostIsWaited, Waited
  <2> QED BY <1>1, <2>1, <2>4, <2>5 DEF PInv, NoTimedWait
<1>4. CASE Reacquire(t, m)
  BY <1>1, <1>4 DEF Reacquire, PInv, NoTimedWait, OwnPrios, BoostIsWaited, Waited
<1>5. CASE Block(t, m, timeout)
  <2>1. /\ owner[m] \in Task \ {Idle, t}
        /\ \A v \in Task : os'.prio[v] = IF v = owner[m] /\ os.prio[t] < os.prio[v]
                                        THEN os.prio[t] ELSE os.prio[v]
        /\ os'.pendObj[t] = m
        /\ os'.state = [os.state EXCEPT ![t] = IF timeout > 0 THEN {"DLY", "PEND"}
                                               ELSE {"PEND"}]
        /\ \A v \in Task \ {t} : os'.pendObj[v] = os.pendObj[v]
    BY <1>5, BlockDoes DEF OSMutexPend
  <2>2. UNCHANGED <<owner, orig>> /\ ~(timeout > 0)
    BY <1>5 DEF Block, Timeouts, WaitsEndWithMutex
  <2>3. NoTimedWait'
    BY <2>1, <2>2 DEF PInv, NoTimedWait, Base, KInv, KTypeOK, TCBTables
  <2>4. OwnPrios'
    BY <2>1, <2>2 DEF PInv, OwnPrios
  <2>5. ASSUME NEW n \in Obj, owner[n] \in Task
        PROVE  /\ orig'[n] = InitPrio[owner[n]]
               /\ os'.prio[owner[n]] # InitPrio[owner[n]] => Waited(n)'
    <3>1. orig[n] = InitPrio[owner[n]]
          /\ (os.prio[owner[n]] # InitPrio[owner[n]] => Waited(n))
      BY <2>5 DEF PInv, BoostIsWaited
    <3>2. Waited(n) => Waited(n)'
      BY <1>1, <2>1, CoreAssumption DEF Waited
    <3>3. CASE n = m
      BY <2>1, <2>2, <3>1, <3>3 DEF Waited
    <3>4. CASE n # m
      <4>1. owner[n] # owner[m]
        BY <2>5, <3>4 DEF BInv, OwnOne
      <4>2. os'.prio[owner[n]] = os.prio[owner[n]]
        BY <2>1, <2>5, <4>1
      <4> QED BY <2>2, <3>1, <3>2, <4>2
    <3> QED BY <3>3, <3>4
  <2> QED BY <1>1, <2>2, <2>3, <2>4, <2>5 DEF PInv, BoostIsWaited
<1> QED BY <1>3, <1>4, <1>5 DEF OSMutexPend

(* Whoever loses m has its own priority then: nobody waits for m or the    *)
(* priority it had when it acquired m is given back to it.                 *)
LEMMA LosesOwnPrios ==
  ASSUME Base, BInv, PInv, NEW m \in Obj,
         NEW heir \in Task \cup {NoTask}, owner'[m] = heir,
         heir \in Task => /\ \A n \in Obj : owner[n] # heir
                          /\ orig'[m] = os.prio[heir]
                          /\ os'.prio[heir] = os.prio[heir],
         \A n \in Obj \ {m} : owner'[n] = owner[n] /\ orig'[n] = orig[n],
         \A v \in Task : os'.prio[v] = IF v = owner[m] THEN InitPrio[v] ELSE os.prio[v],
         \A v \in Task, n \in Obj \ {m} : os.pendObj[v] = n => os'.pendObj[v] = n
  PROVE  OwnPrios' /\ BoostIsWaited'
<1>1. ASSUME NEW v \in Task, \A n \in Obj : owner'[n] # v PROVE os'.prio[v] = InitPrio[v]
  <2>1. \A n \in Obj \ {m} : owner[n] # v
    BY <1>1
  <2> QED BY <2>1 DEF PInv, OwnPrios
<1>2. ASSUME NEW n \in Obj, owner'[n] \in Task
      PROVE  /\ orig'[n] = InitPrio[owner'[n]]
             /\ os'.prio[owner'[n]] # InitPrio[owner'[n]] => Waited(n)'
  <2>1. CASE n = m
    <3>1. heir \in Task /\ os.prio[heir] = InitPrio[heir]
      BY <1>2, <2>1 DEF PInv, OwnPrios
    <3> QED BY <2>1, <3>1
  <2>2. CASE n # m
    <3>1. owner'[n] = owner[n] /\ orig'[n] = orig[n] /\ owner[n] \in Task
      BY <1>2, <2>2
    <3>2. owner[n] # owner[m]
      BY <2>2, <3>1 DEF BInv, OwnOne
    <3>3. os'.prio[owner[n]] = os.prio[owner[n]]
      BY <3>1, <3>2
    <3>4. Waited(n) => Waited(n)'
      BY <2>2 DEF Waited
    <3> QED BY <3>1, <3>3, <3>4 DEF PInv, BoostIsWaited
  <2> QED BY <2>1, <2>2
<1> QED BY <1>1, <1>2 DEF OwnPrios, BoostIsWaited

(* An owner nobody waits for has its own priority.                         *)
LEMMA UnwaitedOwnPrio ==
  ASSUME PInv, NEW m \in Obj, \A u \in Task : os.pendObj[u] # m, UNCHANGED os
  PROVE  \A v \in Task : os'.prio[v] = IF v = owner[m] THEN InitPrio[v] ELSE os.prio[v]
BY DEF PInv, BoostIsWaited, Waited

LEMMA PostOwnPrios ==
  ASSUME Base, BInv, PInv, NEW t \in Task, NEW m \in Obj, NEW opt \in Options,
         OSMutexPost(t, m, opt)
  PROVE  PInv'
<1>1. Running(t) /\ owner[m] = t /\ UNCHANGED crit
  BY DEF OSMutexPost
<1>2. /\ owner \in [Obj -> Task \cup {NoTask}] /\ orig \in [Obj -> Prio]
      /\ NoTask \notin Task
  BY Types
<1>3. CASE Unnest(t, m)
  BY <1>1, <1>3 DEF Unnest, PInv, NoTimedWait, OwnPrios, BoostIsWaited, Waited
<1>4. CASE Release(t, m)
  <2>1. /\ UNCHANGED <<os, orig>> /\ owner'[m] = NoTask
        /\ \A n \in Obj \ {m} : owner'[n] = owner[n]
        /\ \A u \in Task : os.pendObj[u] # m
    BY <1>2, <1>4, NobodyWaits DEF Release
  <2>2. \A v \in Task : os'.prio[v] = IF v = owner[m] THEN InitPrio[v] ELSE os.prio[v]
    BY <2>1, UnwaitedOwnPrio
  <2>3. OwnPrios' /\ BoostIsWaited'
    BY <1>2, <2>1, <2>2, LosesOwnPrios
  <2> QED BY <1>1, <2>1, <2>3 DEF PInv, NoTimedWait
<1>5. CASE HandOver(t, m, opt)
  <2> DEFINE heir == Head(os.pend[m])
  <2>1. /\ heir \in Task \ {Idle, t} /\ os.pendObj[heir] = m
        /\ os'.prio[t] = orig[m]
        /\ \A v \in Task \ {heir} : os'.pendObj[v] = os.pendObj[v]
        /\ \A v \in Task \ {t} : os'.prio[v] = os.prio[v]
        /\ \A v \in Task : os'.state[v] \subseteq os.state[v]
    BY <1>1, <1>5, HandOverDoes
  <2>2. owner' = [owner EXCEPT ![m] = heir] /\ orig' = [orig EXCEPT ![m] = os.prio[heir]]
    BY <1>5 DEF HandOver
  <2> HIDE DEF heir
  <2>3. /\ owner'[m] = heir /\ orig'[m] = os.prio[heir]
        /\ \A n \in Obj \ {m} : owner'[n] = owner[n] /\ orig'[n] = orig[n]
    BY <1>2, <2>2
  <2>4. \A n \in Obj : owner[n] # heir
    BY <2>1, CoreAssumption DEF BInv, WaitersOwnNothing
  <2>5. orig[m] = InitPrio[t]
    BY <1>1 DEF PInv, BoostIsWaited
  <2>6. \A v \in Task : os'.prio[v] = IF v = owner[m] THEN InitPrio[v] ELSE os.prio[v]
    BY <1>1, <2>1, <2>5
  <2>7. \A v \in Task, n \in Obj \ {m} : os.pendObj[v] = n => os'.pendObj[v] = n
    BY <2>1
  <2>8. OwnPrios' /\ BoostIsWaited'
    BY <2>1, <2>3, <2>4, <2>6, <2>7, LosesOwnPrios
  <2> QED BY <1>1, <2>1, <2>8, FewerReasons DEF PInv
<1> QED BY <1>3, <1>4, <1>5 DEF OSMutexPost

LEMMA DeletionOwnPrios ==
  ASSUME DInv, BInv, PInv, NEW t \in Task, NEW m \in Obj,
         OSMutexDelNoPend(t, m) \/ OSMutexDelAlways(t, m)
  PROVE  PInv'
<1>1. /\ owner'[m] = NoTask /\ UNCHANGED crit
      /\ \A n \in Obj \ {m} : owner'[n] = owner[n] /\ orig'[n] = orig[n]
      /\ \A u \in Task : /\ os.pendObj[u] # m => os'.pendObj[u] = os.pendObj[u]
                         /\ os'.state[u] \subseteq os.state[u]
  BY DeletionDoes
<1>2. \A v \in Task : os'.prio[v] = IF v = owner[m] THEN InitPrio[v] ELSE os.prio[v]
  <2>1. CASE OSMutexDelNoPend(t, m)
    <3>1. UNCHANGED os /\ \A u \in Task : os.pendObj[u] # m
      BY <2>1, DeletionPrios DEF OSMutexDelNoPend, kvars
    <3> QED BY <3>1, UnwaitedOwnPrio
  <2>2. CASE OSMutexDelAlways(t, m)
    <3>1. \A v \in Task : os'.prio[v] = IF v = owner[m] THEN orig[m] ELSE os.prio[v]
      BY <2>2, DeletionPrios
    <3> QED BY <3>1 DEF PInv, BoostIsWaited
  <2> QED BY <2>1, <2>2
<1>3. OwnPrios' /\ BoostIsWaited'
  BY <1>1, <1>2, MutexAssumption, LosesOwnPrios DEF DInv
<1> QED BY <1>1, <1>3, FewerReasons DEF PInv

LEMMA NextOwnPrios ==
  ASSUME WaitsEndWithMutex, Orderly, DInv, BInv, PInv, [DelNext]_allvars PROVE PInv'
<1>1. ASSUME UNCHANGED <<os, crit, owner, orig>> PROVE PInv'
  BY <1>1 DEF PInv, NoTimedWait, OwnPrios, BoostIsWaited, Waited
<1>2. ASSUME Next PROVE PInv'
  <2>1. ASSUME NEW t \in Task, OSMutexPendReturn(t) PROVE PInv'
    BY <1>1, <2>1 DEF OSMutexPendReturn
  <2> QED BY <1>2, <2>1, KernelOwnPrios, PendOwnPrios, PostOwnPrios DEF Next, DInv
<1>3. ASSUME NEW t \in Task, NEW m \in Obj, OSMutexCreate(t, m) PROVE PInv'
  BY <1>1, <1>3, MutexCreateInv DEF kvars
<1>4. ASSUME UNCHANGED vars PROVE PInv'
  BY <1>1, <1>4 DEF vars, kvars, mvars
<1>5. CASE OnMutexes
  BY <1>2, <1>4, <1>5, OnMutexesNext DEF DInv
<1> QED BY <1>3, <1>4, <1>5, DeletionOwnPrios DEF DelNext, allvars

-----------------------------------------------------------------------------
(* The theorems.                                                           *)

(* The mutexes and the kernel's tables keep their types under priority     *)
(* inheritance: OwnerNestingCtr stays in its eight bits, and no priority   *)
(* that is inherited or given back leaves the range of OSRdyList.          *)
THEOREM TypeCorrect == ASSUME NoWrap PROVE Spec => []TypeOK
<1>1. MInv => TypeOK
  BY DEF MInv, Base
<1> QED BY <1>1, Invariance, PTL

(* OSMutexPend() and OSMutexPost() change the priority of a task that is in*)
(* a ready list, in a pend list, or in none, and leave every list in       *)
(* agreement with the states of the tasks.                                 *)
THEOREM TablesAgree == ASSUME NoWrap PROVE Spec => []ListsAgree
<1>1. MInv => ListsAgree
  BY KInvTables DEF MInv, Base, ListsAgree
<1> QED BY <1>1, Invariance, PTL

(* A waiter that inherits a priority, as the owner of another mutex, moves *)
(* to its place in the list it waits in: waiters are served by priority.   *)
THEOREM ServedByPriority == ASSUME NoWrap PROVE Spec => []WaitersByPriority
<1>1. MInv => WaitersByPriority
  BY KInvTables DEF MInv, Base
<1> QED BY <1>1, Invariance, PTL

(* The owner that hands its mutex over leaves the ready list of the        *)
(* priority it inherited and still runs only while it is ready.            *)
THEOREM OnlyReadyRuns == ASSUME NoWrap PROVE Spec => []RunningIsReady
<1>1. MInv => RunningIsReady
  BY DEF MInv, Base, KInv
<1> QED BY <1>1, Invariance, PTL

(* The owner that falls back to its own priority gives way before it goes  *)
(* on, to the heir or to whatever else waited for that: the scheduler is   *)
(* called after every hand-over that does not ask for NO_SCHED.            *)
THEOREM HighestPriorityRuns ==
  ASSUME NoWrap, AlwaysSched PROVE Spec => []HighestRuns
<1>1. Init => MInv /\ Dispatched
  BY InitInv, KInitInv DEF Init
<1>2. MInv /\ Dispatched /\ [Next]_vars => MInv' /\ Dispatched'
  BY NextInv, NextDispatched DEF MInv
<1>3. Dispatched => HighestRuns
  BY DispatchedHighest
<1> QED BY <1>1, <1>2, <1>3, PTL DEF Spec

(* Exactly one task is told that it has a mutex, and the count of its      *)
(* acquisitions is the kernel's, however posts, timeouts, aborts and       *)
(* interrupts fall between the hand-over and the moment the heir reads     *)
(* PendStatus; nobody waits for a mutex that is free or for its own.       *)
THEOREM OwnersBeyondDoubt == ASSUME NoWrap PROVE Spec => []OwnersAgree
<1>1. ASSUME MInv PROVE OwnersAgree
  <2>1. OwnerKnows
    <3>1. ASSUME NEW t \in Task, os.pendObj[t] = NoObj PROVE "PEND" \notin os.state[t]
      BY <1>1, <3>1 DEF MInv, Base, KInv, Good, PendAgrees
    <3> QED BY <1>1, <3>1 DEF MInv, OwnerTold, IsHeir, OwnerKnows, InPend
  <2>2. ASSUME NEW m \in Obj, os.pend[m] # << >>
        PROVE  owner[m] \in Task \ Range(os.pend[m])
    <3>1. ListOf(os.pend[m], Waiters(os, m))
      BY <1>1, PendAgreesLists DEF MInv, Base, KInv, Good
    <3>2. Range(os.pend[m]) = Waiters(os, m) /\ Waiters(os, m) # {}
      BY <2>2, <3>1, ListOfNone DEF ListOf
    <3>3. ASSUME NEW u \in Task, os.pendObj[u] = m PROVE owner[m] \in Task \ {u}
      BY <1>1, <3>3, CoreAssumption DEF MInv, Base, ArgKnown
    <3> QED BY <3>2, <3>3 DEF Waiters
  <2>3. \A m \in Obj : owner[m] = NoTask <=> own[m] = 0
    BY <1>1 DEF MInv, Base, OwnerSound
  <2> QED BY <2>1, <2>2, <2>3 DEF OwnersAgree, WaitersHaveOwner
<1> QED BY <1>1, Invariance, PTL

(* OSPrioCur follows the priority the running task inherits or gives back: *)
(* OSMutexPost() sets both, and a task that inherits does not run.         *)
(* OSTaskChangePrio() is left out because it sets only one of them.        *)
THEOREM PrioCurFollows ==
  ASSUME NoWrap, "chprio" \notin Uses PROVE Spec => []PrioCurIsCurrent
<1>1. Init => MInv /\ CurPrio
  BY InitInv, KInitInv DEF Init
<1>2. MInv /\ CurPrio /\ [Next]_vars => MInv' /\ CurPrio'
  BY NextInv, NextCurPrio DEF MInv
<1>3. CurPrio => PrioCurIsCurrent
  BY DEF CurPrio, PrioCurIsCurrent, Running
<1> QED BY <1>1, <1>2, <1>3, PTL DEF Spec

(* The owner of a mutex has at least the priority of every task that waits *)
(* for it, from the pend that blocks to the hand-over to the first waiter, *)
(* so that no task of a priority in between delays them, as long as tasks  *)
(* own one mutex at a time and keep their priority.                        *)
THEOREM OwnersInherit ==
  ASSUME NoWrap, OneAtATime PROVE Spec => []OwnerInherits
<1>1. Init => MInv /\ BInv
  BY InitInv, InitBoosted
<1>2. MInv /\ BInv /\ [Next]_vars => MInv' /\ BInv'
  BY NextInv, NextBoosted DEF MInv
<1>3. MInv /\ BInv => OwnerInherits
  BY BoostedInherits DEF MInv
<1> QED BY <1>1, <1>2, <1>3, PTL DEF Spec
-----------------------------------------------------------------------------
(* The theorems of the mutexes with deletions.                             *)

(* As TablesAgree: OSMutexDel() changes the priority of an owner in any    *)
(* list, before it takes every waiter off the pend list.  It takes an      *)
(* orderly application here and below: OSMutexCreate() empties the list of *)
(* a mutex whose last call began before its deletion.                      *)
THEOREM DelTablesAgree == ASSUME NoWrap, Orderly PROVE DelSpec => []ListsAgree
<1>1. DInv => ListsAgree
  BY KInvTables DEF DInv, Base, ListsAgree
<1> QED BY <1>1, DelInvariance, PTL

(* As ServedByPriority: a blocked owner that OSMutexDel() gives its own    *)
(* priority back moves to its place among the waiters of another mutex.    *)
THEOREM DelServedByPriority == ASSUME NoWrap, Orderly PROVE DelSpec => []WaitersByPriority
<1>1. DInv => WaitersByPriority
  BY KInvTables DEF DInv, Base
<1> QED BY <1>1, DelInvariance, PTL

(* As HighestPriorityRuns: an owner that OSMutexDel() gives its own        *)
(* priority back, itself perhaps, gives way to what is ready above it, and *)
(* so does the caller to the waiters it readies.                           *)
THEOREM DelHighestPriorityRuns ==
  ASSUME NoWrap, Orderly, AlwaysSched PROVE DelSpec => []HighestRuns
<1>1. DelInit => DInv /\ Dispatched
  BY InitDel, KInitInv DEF DelInit, Init
<1>2. DInv /\ Dispatched /\ [DelNext]_allvars => DInv' /\ Dispatched'
  BY NextDel, NextDelDispatched
<1>3. Dispatched => HighestRuns
  BY DispatchedHighest
<1> QED BY <1>1, <1>2, <1>3, PTL DEF DelSpec

(* Every task that waits when OSMutexDel() deletes its mutex is taken off  *)
(* the pend list and finds OS_STATUS_PEND_DEL; and OS_OPT_DEL_NO_PEND      *)
(* deletes no mutex that anybody waits for.                                *)
THEOREM WaitersLearn == ASSUME NoWrap, Orderly PROVE DelSpec => WaitersAreTold
<1> DEFINE Told1 == \A t \in Task :
                      os.pendObj[t] \in gone' \ gone =>
                        "PEND" \notin os'.state[t] /\ os'.pendStatus[t] = "DEL"
<1>1. ASSUME DInv, DelNext, NEW t \in Task, os.pendObj[t] \in gone' \ gone
      PROVE  "PEND" \notin os'.state[t] /\ os'.pendStatus[t] = "DEL"
  <2>1. PICK u \in Task, m \in Obj : OSMutexDelNoPend(u, m) \/ OSMutexDelAlways(u, m)
    <3>1. CASE OnMutexes
      <4>1. UNCHANGED gone
        BY <1>1, <3>1, OnMutexesDeleteNothing DEF DInv
      <4> QED BY <1>1, <4>1
    <3> QED BY <1>1, <3>1 DEF DelNext, OSMutexCreate, Create
  <2>2. os.pendObj[t] = m
    BY <1>1, <2>1, DeletionDoes
  <2>3. OSMutexDelAlways(u, m)
    BY <1>1, <2>1, <2>2, DeletionPrios
  <2> QED BY <1>1, <2>2, <2>3, MutexDelAlwaysDoes
<1>2. DInv /\ [DelNext]_allvars => [Told1]_allvars
  BY <1>1
<1>3. DelSpec => [][Told1]_allvars
  BY <1>2, DelInvariance, PTL DEF DelSpec
<1>4. [][Told1]_allvars => WaitersAreTold
  BY DEF WaitersAreTold
<1> QED BY <1>3, <1>4, PTL

(* As OwnersInherit: a deletion takes nothing from the owner of another    *)
(* mutex.                                                                  *)
THEOREM DelOwnersInherit ==
  ASSUME NoWrap, Orderly, OneAtATime PROVE DelSpec => []OwnerInherits
<1>1. DelInit => DInv /\ BInv
  BY InitDel, InitBoosted DEF DelInit
<1>2. DInv /\ BInv /\ [DelNext]_allvars => DInv' /\ BInv'
  BY NextDel, NextDelBoosted
<1>3. DInv /\ BInv => OwnerInherits
  BY BoostedInherits DEF DInv
<1> QED BY <1>1, <1>2, <1>3, PTL DEF DelSpec

(* A task that owns no mutex has its own priority: what it inherited went  *)
(* with the mutex, by OSMutexPost() to the first waiter or by OSMutexDel().*)
(* Holds where no wait for a mutex ends without it, and fails otherwise:   *)
(* see the run MutexBoost.                                                 *)
THEOREM OwnPrioComesBack ==
  ASSUME NoWrap, Orderly, WaitsEndWithMutex PROVE DelSpec => []OwnPrioAfterPost
<1>1. DelInit => DInv /\ BInv /\ PInv
  BY InitDel, InitBoosted, InitOwnPrios DEF DelInit
<1>2. DInv /\ BInv /\ PInv /\ [DelNext]_allvars => DInv' /\ BInv' /\ PInv'
  BY NextDel, NextDelBoosted, NextOwnPrios DEF WaitsEndWithMutex
<1>3. PInv => OwnPrioAfterPost
  BY DEF PInv, OwnPrios, OwnPrioAfterPost, Owned
<1> QED BY <1>1, <1>2, <1>3, PTL DEF DelSpec
=============================================================================
