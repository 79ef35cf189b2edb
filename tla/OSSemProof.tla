----------------------------- MODULE OSSemProof -----------------------------
(***************************************************************************)
(* Theorems about semaphores: the invariants of OSSem hold for every set   *)
(* of tasks and semaphores and every bound.  The inductive invariant is    *)
(* the kernel's, KInv, with the two facts about the counts.                *)
(*                                                                         *)
(* The second part is about deletion and creation: what holds of           *)
(* semaphores that exist goes on to hold when tasks and semaphores come    *)
(* and go, and who waited for what was deleted is told so.  Applications   *)
(* do not lock the scheduler there: with it locked, a task that deletes    *)
(* itself goes on running; and they are orderly: they create nothing anew  *)
(* that they deleted carelessly (see README.md).                           *)
(*                                                                         *)
(* The last part is about the semaphore and the queue of each task,        *)
(* OSTaskSync.                                                             *)
(***************************************************************************)
EXTENDS OSDel, OSTaskSync, OSKernelProof

IInv == KInv /\ TypeOK /\ NoLostSignal

LEMMA InitInv == Init => IInv
<1> SUFFICES ASSUME Init PROVE IInv
  OBVIOUS
<1>1. KInv
  BY KInitInv DEF Init
<1>2. TypeOK
  BY <1>1, SemAssumption DEF Init, TypeOK, KInv
<1>3. NoLostSignal
  <2>1. PICK tables : os = OS_TASK_SW(InitTables(tables))
    BY DEF Init, KInit
  <2>2. os.pend = [o \in Obj |-> << >>]
    BY <2>1 DEF OS_TASK_SW, InitTables
  <2> QED BY <2>2 DEF NoLostSignal
<1> QED BY <1>1, <1>2, <1>3 DEF IInv

(* A pend that finds no unit blocks the caller, which is the running task. *)
LEMMA SemPendInv ==
  ASSUME IInv, NEW t \in Task, NEW s \in Obj, NEW timeout \in Timeouts,
         OSSemPend(t, s, timeout)
  PROVE  IInv'
<1>1. Running(t) /\ os.cur = t /\ os.state[t] = {} /\ t # Idle
  BY RunningReady DEF OSSemPend, IInv
<1>2. UNCHANGED <<nest, lock, crit>> /\ ctr \in [Obj -> 0..MaxCtr]
  BY DEF OSSemPend, IInv, TypeOK
<1>3. CASE ctr[s] > 0 /\ ctr' = [ctr EXCEPT ![s] = @ - 1] /\ UNCHANGED <<os, pc>>
  <2>1. KInv'
    BY <1>2, <1>3
    DEF IInv, KInv, KTypeOK, TickTaskRuns, RunningIsReady, LockedIsReady, LoopsEnd
  <2>2. ctr' \in [Obj -> 0..MaxCtr]
    BY <1>2, <1>3, SemAssumption
  <2>3. NoLostSignal'
    BY <1>2, <1>3 DEF IInv, NoLostSignal
  <2> QED BY <2>1, <2>2, <2>3 DEF IInv, TypeOK, KInv
<1>4. CASE /\ ctr[s] = 0 /\ lock = 0 /\ os' = OS_Pend(os, s, "SEM", timeout)
           /\ Goto(t, "pend") /\ UNCHANGED ctr
  <2>1. timeout \in 0..MaxDly /\ "SEM" \in PendKind \ {"NOTHING"} /\ Good(os)
        /\ os.cur \in Task \ {Idle} /\ os.state[os.cur] = {}
    BY <1>1, CoreAssumption DEF Timeouts, IInv, KInv, PendKind
  <2> DEFINE new == OS_Pend(os, s, "SEM", timeout)
  <2>2. /\ Good(new)
        /\ Blocks(os, new, os.cur,
                  IF timeout > 0 THEN {"DLY", "PEND"} ELSE {"PEND"})
        /\ new.pendObj = [os.pendObj EXCEPT ![os.cur] = s]
        /\ new.pendStatus = [os.pendStatus EXCEPT ![os.cur] = "OK"]
        /\ \A q \in Obj \ {s} : new.pend[q] = os.pend[q]
    BY <2>1, PendBlocks
  <2>3. /\ Good(os') /\ os'.cur = os.cur
        /\ \A q \in Obj \ {s} : os'.pend[q] = os.pend[q]
    BY <1>4, <2>2 DEF Blocks
  <2>4. KInv'
    BY <1>1, <1>2, <1>4, <2>3, CallInv DEF IInv
  <2>5. NoLostSignal'
    BY <1>2, <1>4, <2>3 DEF IInv, NoLostSignal
  <2> QED BY <1>2, <1>4, <2>4, <2>5 DEF IInv, KInv, TypeOK
<1> QED BY <1>3, <1>4 DEF OSSemPend

LEMMA SemPendReturnInv ==
  ASSUME IInv, NEW t \in Task, OSSemPendReturn(t) PROVE IInv'
<1>1. /\ os.cur = t /\ pc[t] = "wake" /\ UNCHANGED <<os, nest, lock, crit, ctr>>
      /\ pc \in [Task -> Where] /\ pc' = [pc EXCEPT ![t] = "run"]
  BY DEF OSSemPendReturn, Goto, IInv, TypeOK, KTypeOK
<1>2. KTypeOK'
  BY <1>1 DEF IInv, TypeOK, KTypeOK, Where
<1>3. TickTaskRuns' /\ RunningIsReady' /\ LockedIsReady' /\ LoopsEnd'
  BY <1>1
  DEF IInv, KInv, TickTaskRuns, RunningIsReady, LockedIsReady, LoopsEnd
<1>4. NoLostSignal'
  BY <1>1 DEF IInv, NoLostSignal
<1> QED BY <1>1, <1>2, <1>3, <1>4 DEF IInv, KInv, TypeOK

LEMMA SemPostInv ==
  ASSUME IInv, NEW s \in Obj, NEW opt \in Options, OSSemPost(s, opt)
  PROVE  IInv'
<1>1. /\ os.cur \in Task /\ crit = Free
      /\ UNCHANGED <<os, pc, nest, lock>> /\ ctr \in [Obj -> 0..MaxCtr]
  BY DEF OSSemPost, OS_SemPost, Running, Free, IInv, KInv, TypeOK, KTypeOK,
         TCBTables, TickTaskRuns
<1>2. CASE os.pend[s] = << >>
  <2>1. ctr[s] < MaxCtr /\ ctr' = [ctr EXCEPT ![s] = @ + 1] /\ UNCHANGED crit
    BY <1>2 DEF OSSemPost, OS_SemPost
  <2>2. ctr' \in [Obj -> 0..MaxCtr]
    BY <1>1, <2>1, SemAssumption
  <2>3. NoLostSignal'
    BY <1>1, <1>2, <2>1 DEF IInv, NoLostSignal
  <2>4. KInv'
    BY <1>1, <2>1
    DEF IInv, KInv, KTypeOK, TickTaskRuns, RunningIsReady, LockedIsReady, LoopsEnd
  <2> QED BY <2>2, <2>3, <2>4 DEF IInv, TypeOK, KInv
<1>3. CASE os.pend[s] # << >>
  <2>0. opt \in CallOpts
    BY DEF OSSemPost, OS_SemPost
  <2> DEFINE n == IF "ALL" \in opt THEN Len(os.pend[s]) ELSE 1
  <2>1. crit' = PendLoop("post", s, opt, n) /\ UNCHANGED ctr
    BY <1>3 DEF OSSemPost, OS_SemPost
  <2>2. n = 1 \/ n = Len(os.pend[s])
    OBVIOUS
  <2> HIDE DEF n
  <2>3. KInv'
    BY <1>1, <1>3, <2>0, <2>1, <2>2, StartLoopInv DEF IInv
  <2>4. NoLostSignal'
    BY <1>1, <2>1 DEF IInv, NoLostSignal
  <2> QED BY <1>1, <2>1, <2>3, <2>4 DEF IInv, TypeOK, KInv
<1> QED BY <1>2, <1>3

LEMMA SemSetInv ==
  ASSUME IInv, NEW t \in Task, NEW s \in Obj, NEW cnt \in 0..MaxCtr,
         OSSemSet(t, s, cnt)
  PROVE  IInv'
<1>1. /\ ctr[s] > 0 \/ os.pend[s] = << >>
      /\ ctr' = [ctr EXCEPT ![s] = cnt] /\ UNCHANGED kvars
      /\ ctr \in [Obj -> 0..MaxCtr]
  BY DEF OSSemSet, IInv, TypeOK
<1>2. KInv'
  BY <1>1 DEF IInv, KInv, KTypeOK, TickTaskRuns, RunningIsReady, LockedIsReady,
              LoopsEnd, kvars
<1>3. NoLostSignal'
  BY <1>1 DEF IInv, NoLostSignal, kvars
<1> QED BY <1>1, <1>2, <1>3 DEF IInv, TypeOK, KInv

(* A step of the kernel changes no count and fills no pend list.           *)
LEMMA KernelStepInv == IInv /\ KNext /\ UNCHANGED ctr => IInv'
<1> SUFFICES ASSUME IInv, KNext, UNCHANGED ctr PROVE IInv'
  OBVIOUS
<1>1. KInv' /\ EmptyStays
  BY KNextInv DEF IInv
<1>2. NoLostSignal'
  BY <1>1 DEF IInv, NoLostSignal, EmptyStays
<1> QED BY <1>1, <1>2 DEF IInv, TypeOK, KInv

LEMMA NextInv == IInv /\ [Next]_vars => IInv'
<1> SUFFICES ASSUME IInv, [Next]_vars PROVE IInv'
  OBVIOUS
<1>1. CASE KNext /\ UNCHANGED ctr
  BY <1>1, KernelStepInv
<1>2. ASSUME NEW s \in Obj, NEW opt \in Options, OSSemPost(s, opt) PROVE IInv'
  BY <1>2, SemPostInv
<1>3. ASSUME NEW s \in Obj, NEW t \in Task, NEW timeout \in Timeouts,
             OSSemPend(t, s, timeout)
      PROVE  IInv'
  BY <1>3, SemPendInv
<1>4. ASSUME NEW s \in Obj, NEW t \in Task, NEW cnt \in 0..MaxCtr,
             OSSemSet(t, s, cnt)
      PROVE  IInv'
  BY <1>4, SemSetInv
<1>5. ASSUME NEW t \in Task, OSSemPendReturn(t) PROVE IInv'
  BY <1>5, SemPendReturnInv
<1>6. CASE UNCHANGED vars
  BY <1>6 DEF vars, kvars, IInv, KInv, TypeOK, NoLostSignal, KTypeOK, TickTaskRuns,
              RunningIsReady, LockedIsReady, LoopsEnd
<1> QED BY <1>1, <1>2, <1>3, <1>4, <1>5, <1>6 DEF Next

-----------------------------------------------------------------------------
(* Which task runs.                                                        *)

LEMMA NextDispatched ==
  ASSUME IInv, AlwaysSched, Dispatched, [Next]_vars PROVE Dispatched'
<1>1. CASE KNext /\ UNCHANGED ctr
  BY <1>1, KNextDispatched DEF IInv
<1>2. ASSUME NEW s \in Obj, NEW opt \in Options, OSSemPost(s, opt) PROVE Dispatched'
  <2>1. UNCHANGED <<os, pc, nest, lock>> /\ crit = Free
    BY <1>2 DEF OSSemPost, OS_SemPost, Running
  <2>2. crit' = Free => crit' = crit
    BY <2>1
  <2> QED BY <2>1, <2>2 DEF Dispatched
<1>3. ASSUME NEW s \in Obj, NEW t \in Task, NEW timeout \in Timeouts,
             OSSemPend(t, s, timeout)
      PROVE  Dispatched'
  <2>1. CASE UNCHANGED <<os, pc>>
    BY <1>3, <2>1 DEF OSSemPend, Dispatched
  <2>2. CASE os' = OS_Pend(os, s, "SEM", timeout) /\ Goto(t, "pend")
    <3>1. os.cur = t /\ os.state[t] = {} /\ t # Idle /\ timeout \in 0..MaxDly
      BY <1>3, RunningReady, CoreAssumption DEF OSSemPend, IInv, Timeouts
    <3>2. Blocks(os, os', os.cur, IF timeout > 0 THEN {"DLY", "PEND"} ELSE {"PEND"})
      BY <2>2, <3>1, PendBlocks DEF IInv, KInv, PendKind
    <3>3. os'.cur = t
      BY <3>1, <3>2 DEF Blocks
    <3> QED BY <2>2, <3>3, OnTheWay DEF IInv
  <2> QED BY <1>3, <2>1, <2>2 DEF OSSemPend
<1>4. ASSUME NEW s \in Obj, NEW t \in Task, NEW cnt \in 0..MaxCtr,
             OSSemSet(t, s, cnt)
      PROVE  Dispatched'
  BY <1>4 DEF OSSemSet, kvars, Dispatched
<1>5. ASSUME NEW t \in Task, OSSemPendReturn(t) PROVE Dispatched'
  BY <1>5 DEF OSSemPendReturn, Goto, Dispatched
<1>6. CASE UNCHANGED vars
  BY <1>6 DEF vars, kvars, Dispatched
<1> QED BY <1>1, <1>2, <1>3, <1>4, <1>5, <1>6 DEF Next

-----------------------------------------------------------------------------
(* Every step of a semaphore is a step of AbsSem or changes nothing of it. *)

(* The outcome of a wait, by the pend table.                               *)
LEMMA OutcomeIs ==
  ASSUME KInv, NEW t \in Task
  PROVE  Outcome(t) = IF ~InPend(t) \/ os.pendObj[t] # NoObj THEN "none"
                      ELSE IF os.pendStatus[t] = "OK" THEN "unit" ELSE "nothing"
<1>1. os.pendObj[t] # NoObj <=> "PEND" \in os.state[t]
  BY DEF KInv, Good, PendAgrees
<1> QED BY <1>1 DEF Outcome, InPend

(* The same after a step.                                                  *)
LEMMA OutcomeBecomes ==
  ASSUME KInv', NEW t \in Task
  PROVE  Outcome(t)' = IF ~InPend(t)' \/ os'.pendObj[t] # NoObj THEN "none"
                       ELSE IF os'.pendStatus[t] = "OK" THEN "unit" ELSE "nothing"
<1>1. os'.pendObj[t] # NoObj <=> "PEND" \in os'.state[t]
  BY DEF KInv, Good, PendAgrees
<1> QED BY <1>1 DEF Outcome, InPend

LEMMA WaitersAre ==
  ASSUME KInv, NEW s \in Obj
  PROVE  /\ Abs!Waiting(s) = Waiters(os, s)
         /\ os.pend[s] = << >> <=> Abs!Waiting(s) = {}
         /\ Len(os.pend[s]) = Cardinality(Abs!Waiting(s))
<1>1. Abs!Waiting(s) = Waiters(os, s)
  BY DEF Abs!Waiting, Waiters
<1>2. ListOf(os.pend[s], Waiters(os, s))
  BY PendAgreesLists DEF KInv, Good
<1> QED BY <1>1, <1>2, ListOfNone, ListOfLength

(* The running task is outside any wait.                                   *)
LEMMA RunningOutside ==
  ASSUME KInv, NEW t \in Task, Running(t) PROVE Abs!Outside(t)
<1>1. os.state[t] = {} /\ pc[t] = "run"
  BY RunningReady DEF Running
<1>2. os.pendObj[t] = NoObj
  BY <1>1 DEF KInv, Good, PendAgrees
<1> QED BY <1>1, <1>2 DEF Abs!Outside, Outcome

LEMMA NoHanding ==
  ASSUME crit.op # "post" PROVE [s \in Obj |-> Handing(s)] = [s \in Obj |-> 0]
  BY DEF Handing

(* What a kernel step does to the waits, seen by AbsSem.                   *)
LEMMA StayMaps ==
  ASSUME KInv, KInv', UNCHANGED ctr, WaitsStay, NoPost PROVE UNCHANGED Abs!avars
<1>1. \A t \in Task : Outcome(t)' = Outcome(t)
  BY OutcomeIs, OutcomeBecomes DEF WaitsStay, SamePlaces
<1>2. [t \in Task |-> Outcome(t)]' = [t \in Task |-> Outcome(t)]
  BY <1>1
<1>3. [s \in Obj |-> Handing(s)]' = [s \in Obj |-> Handing(s)]
  BY DEF NoPost, Handing
<1> QED BY <1>2, <1>3 DEF Abs!avars, WaitsStay

LEMMA EndMaps ==
  ASSUME KInv, KInv', Places, UNCHANGED ctr, NEW t \in Task, NEW status \in Status,
         WaitEnds(t, status)
  PROVE  Abs!EndWait(t, IF status = "OK" THEN "unit" ELSE "nothing")
<1> DEFINE how == IF status = "OK" THEN "unit" ELSE "nothing"
<1>1. /\ os.pendObj \in [Task -> Obj \cup {NoObj}]
      /\ os.pendStatus \in [Task -> Status]
  BY DEF KInv, KTypeOK, TCBTables
<1>2. ASSUME NEW u \in Task PROVE Outcome(u)' = IF u = t THEN how ELSE Outcome(u)
  <2>1. Outcome(u)' = IF ~InPend(u)' \/ os'.pendObj[u] # NoObj THEN "none"
                      ELSE IF os'.pendStatus[u] = "OK" THEN "unit" ELSE "nothing"
    BY OutcomeBecomes
  <2>2. InPend(u)' = InPend(u) /\ InPend(t)
    BY DEF WaitEnds, SamePlaces, Places, InPend
  <2>3. CASE u = t
    BY <1>1, <2>1, <2>2, <2>3 DEF WaitEnds
  <2>4. CASE u # t
    BY <1>1, <2>1, <2>2, <2>4, OutcomeIs DEF WaitEnds
  <2> QED BY <2>3, <2>4
<1>3. [u \in Task |-> Outcome(u)]' = [[u \in Task |-> Outcome(u)] EXCEPT ![t] = how]
  BY <1>2
<1> QED BY <1>3 DEF Abs!EndWait, WaitEnds

LEMMA KernelMaps ==
  ASSUME IInv, IInv', Places, KNext, UNCHANGED ctr
  PROVE  [Abs!ANext]_(Abs!avars)
<1>1. WaitsEffect
  BY KNextWaits DEF IInv
<1>2. CASE WaitsStay /\ NoPost
  BY <1>2, StayMaps DEF IInv
<1>3. ASSUME NEW t \in Task, NEW status \in {"TIMEOUT", "ABORT"},
             WaitEnds(t, status), NoPost
      PROVE  Abs!ANext
  <2>1. Abs!EndWait(t, "nothing")
    BY <1>3, EndMaps DEF Status, IInv
  <2>2. [s \in Obj |-> Handing(s)]' = [s \in Obj |-> Handing(s)]
    BY <1>3 DEF NoPost, Handing
  <2>3. os.pendObj[t] \in Obj
    BY <1>3 DEF WaitEnds, IInv, KInv, KTypeOK, TCBTables
  <2>4. Abs!GiveUp(t, os.pendObj[t])
    BY <1>3, <2>1, <2>2, <2>3 DEF Abs!GiveUp, NoPost, Handing
  <2> QED BY <2>3, <2>4 DEF Abs!ANext
<1>4. ASSUME NEW t \in Task, WaitEnds(t, "OK"), OneFewer,
             crit.op = "post", os.pendObj[t] = crit.obj
      PROVE  Abs!ANext
  <2>1. Abs!EndWait(t, "unit")
    BY <1>4, EndMaps DEF Status, IInv
  <2>2. crit.obj \in Obj /\ crit.left \in Nat \ {0}
        /\ crit \in [op : {"none", "post", "abort", "tick"}, obj : Obj \cup {NoObj},
                     opt : Options, left : Nat, due : SUBSET Task]
    BY <1>4 DEF IInv, KInv, KTypeOK, LoopsEnd, OneFewer
  <2>3. ASSUME NEW s \in Obj
        PROVE  Handing(s)' = IF s = crit.obj THEN Handing(s) - 1 ELSE Handing(s)
    BY <1>4, <2>2 DEF OneFewer, Handing, Free
  <2>4. [s \in Obj |-> Handing(s)]'
          = [[s \in Obj |-> Handing(s)] EXCEPT ![crit.obj] = @ - 1]
    BY <2>2, <2>3
  <2>5. Abs!Hand(t, crit.obj)
    BY <1>4, <2>1, <2>2, <2>4 DEF Abs!Hand, Handing
  <2> QED BY <2>2, <2>5 DEF Abs!ANext
<1> QED BY <1>1, <1>2, <1>3, <1>4 DEF WaitsEffect

LEMMA SemPostMaps ==
  ASSUME IInv, Places, NEW s \in Obj, NEW opt \in Options, OSSemPost(s, opt)
  PROVE  Abs!Signal(s) /\ Places'
<1>1. /\ crit = Free /\ crit.op = "none" /\ UNCHANGED <<os, pc>>
  BY DEF OSSemPost, OS_SemPost, Running, Free
<1>2. UNCHANGED [t \in Task |-> Outcome(t)]
  BY <1>1 DEF Outcome
<1>3. CASE os.pend[s] = << >>
  <2>1. ctr[s] < MaxCtr /\ ctr' = [ctr EXCEPT ![s] = @ + 1] /\ UNCHANGED crit
    BY <1>3 DEF OSSemPost, OS_SemPost
  <2>2. UNCHANGED [q \in Obj |-> Handing(q)]
    BY <2>1 DEF Handing
  <2>3. Abs!Signal(s)
    BY <1>1, <1>2, <1>3, <2>1, <2>2, WaitersAre DEF Abs!Signal, IInv
  <2> QED BY <1>1, <2>1, <2>3 DEF Places, InPend
<1>4. CASE os.pend[s] # << >>
  <2> DEFINE n == IF "ALL" \in opt THEN Len(os.pend[s]) ELSE 1
  <2>1. crit' = PendLoop("post", s, opt, n) /\ UNCHANGED <<ctr, nest>>
        /\ ((\E t \in Task : Running(t)) \/ nest > 0)
    BY <1>4 DEF OSSemPost, OS_SemPost
  <2>2. n \in {1, Cardinality(Abs!Waiting(s))}
    BY WaitersAre DEF IInv
  <2> HIDE DEF n
  <2>3. crit'.op = "post" /\ crit'.obj = s /\ crit'.left = n
    BY <2>1 DEF PendLoop
  <2>4. ASSUME NEW q \in Obj PROVE Handing(q)' = IF q = s THEN n ELSE Handing(q)
    BY <1>1, <2>3 DEF Handing
  <2>5. [q \in Obj |-> Handing(q)]' = [[q \in Obj |-> Handing(q)] EXCEPT ![s] = n]
    BY <2>4
  <2>6. Abs!Cardinality(Abs!Waiting(s)) = Cardinality(Abs!Waiting(s))
    BY DEF Abs!Cardinality, Cardinality
  <2>7. Abs!Signal(s)
    BY <1>1, <1>2, <1>4, <2>1, <2>2, <2>5, <2>6, WaitersAre DEF Abs!Signal, Handing, IInv
  <2>8. Places'
    BY <1>1, <2>1 DEF Places, InPend, Running
  <2> QED BY <2>7, <2>8
<1> QED BY <1>3, <1>4

LEMMA SemPendMaps ==
  ASSUME IInv, IInv', Places, NEW s \in Obj, NEW t \in Task, NEW timeout \in Timeouts,
         OSSemPend(t, s, timeout)
  PROVE  (Abs!Take(t, s) \/ Abs!Wait(t, s)) /\ Places'
<1>1. /\ Running(t) /\ crit = Free /\ crit.op = "none" /\ UNCHANGED crit
      /\ os.cur = t /\ os.state[t] = {} /\ t # Idle
  BY RunningReady DEF OSSemPend, Running, Free, IInv
<1>2. Abs!Outside(t) /\ UNCHANGED [q \in Obj |-> Handing(q)]
  BY <1>1, RunningOutside DEF Handing, IInv
<1>3. CASE ctr[s] > 0 /\ ctr' = [ctr EXCEPT ![s] = @ - 1] /\ UNCHANGED <<os, pc>>
  <2>1. UNCHANGED [u \in Task |-> Outcome(u)]
    BY <1>3 DEF Outcome
  <2>2. Abs!Take(t, s)
    BY <1>2, <1>3, <2>1 DEF Abs!Take
  <2>3. Places'
    BY <1>1, <1>3 DEF Places, InPend
  <2> QED BY <2>2, <2>3
<1>4. CASE /\ ctr[s] = 0 /\ os' = OS_Pend(os, s, "SEM", timeout)
           /\ Goto(t, "pend") /\ UNCHANGED ctr
  <2>1. timeout \in 0..MaxDly /\ Good(os)
    BY CoreAssumption DEF Timeouts, IInv, KInv
  <2>2. /\ os'.pendObj = [os.pendObj EXCEPT ![t] = s]
        /\ os'.pendStatus = [os.pendStatus EXCEPT ![t] = "OK"]
    BY <1>1, <1>4, <2>1, PendBlocks DEF PendKind
  <2>3. /\ os.pendObj \in [Task -> Obj \cup {NoObj}]
        /\ os.pendStatus \in [Task -> Status] /\ pc' = [pc EXCEPT ![t] = "pend"]
        /\ pc \in [Task -> Where]
    BY <1>4 DEF IInv, KInv, KTypeOK, TCBTables, Goto
  <2>4. ASSUME NEW u \in Task PROVE Outcome(u)' = Outcome(u)
    <3>1. Outcome(u)' = IF ~InPend(u)' \/ os'.pendObj[u] # NoObj THEN "none"
                        ELSE IF os'.pendStatus[u] = "OK" THEN "unit" ELSE "nothing"
      BY OutcomeBecomes DEF IInv
    <3>2. CASE u = t
      <4>1. Outcome(t) = "none"
        BY <1>2 DEF Abs!Outside
      <4> QED BY <2>2, <2>3, <3>1, <3>2, <4>1, CoreAssumption
    <3>3. CASE u # t
      BY <2>2, <2>3, <3>1, <3>3, OutcomeIs DEF InPend, IInv
    <3> QED BY <3>2, <3>3
  <2>5. Abs!Wait(t, s)
    BY <1>2, <1>4, <2>2, <2>4 DEF Abs!Wait
  <2>6. Places'
    BY <1>1, <2>2, <2>3 DEF Places, InPend
  <2> QED BY <2>5, <2>6
<1> QED BY <1>3, <1>4 DEF OSSemPend

LEMMA SemPendReturnMaps ==
  ASSUME IInv, Places, NEW t \in Task, OSSemPendReturn(t)
  PROVE  Abs!Learn(t) /\ Places'
<1>1. /\ os.cur = t /\ pc[t] = "wake" /\ UNCHANGED <<os, crit, ctr>> /\ crit.op = "none"
      /\ pc \in [Task -> Where] /\ pc' = [pc EXCEPT ![t] = "run"]
  BY DEF OSSemPendReturn, Goto, Free, IInv, KInv, KTypeOK
<1>2. os.state[t] = {} /\ os.pendObj[t] = NoObj
  BY <1>1 DEF IInv, KInv, RunningIsReady, Good, PendAgrees
<1>3. Outcome(t) # "none"
  BY <1>1, <1>2 DEF Outcome
<1>4. [u \in Task |-> Outcome(u)]' = [[u \in Task |-> Outcome(u)] EXCEPT ![t] = "none"]
  <2>1. ASSUME NEW u \in Task
        PROVE  Outcome(u)' = IF u = t THEN "none" ELSE Outcome(u)
    BY <1>1 DEF Outcome
  <2> QED BY <2>1
<1>5. UNCHANGED [q \in Obj |-> Handing(q)]
  BY <1>1 DEF Handing
<1>6. Abs!Learn(t)
  BY <1>1, <1>2, <1>3, <1>4, <1>5 DEF Abs!Learn
<1>7. Places'
  BY <1>1, <1>2 DEF Places, InPend
<1> QED BY <1>6, <1>7

LEMMA SemSetMaps ==
  ASSUME IInv, Places, NEW t \in Task, NEW s \in Obj, NEW cnt \in 0..MaxCtr,
         OSSemSet(t, s, cnt)
  PROVE  Abs!Set(s, cnt) /\ Places'
<1>1. /\ os.pend[s] = << >> /\ ctr' = [ctr EXCEPT ![s] = cnt]
      /\ UNCHANGED <<os, pc, nest, crit>>
  BY DEF OSSemSet, kvars, IInv, NoLostSignal
<1>2. UNCHANGED <<os.pendObj, [u \in Task |-> Outcome(u)], [q \in Obj |-> Handing(q)]>>
  BY <1>1 DEF Outcome, Handing
<1>3. Abs!Set(s, cnt)
  BY <1>1, <1>2, WaitersAre DEF Abs!Set, IInv
<1> QED BY <1>1, <1>3 DEF Places, InPend

LEMMA InitMaps == Init => Abs!AInit
<1> SUFFICES ASSUME Init PROVE Abs!AInit
  OBVIOUS
<1>1. PICK lists : os = OS_TASK_SW(InitTables(lists))
  BY DEF Init, KInit
<1>2. os.pendObj = [t \in Task |-> NoObj]
  BY <1>1 DEF OS_TASK_SW, InitTables
<1>3. [t \in Task |-> Outcome(t)] = [t \in Task |-> "none"]
  BY DEF Init, KInit, Outcome
<1>4. [s \in Obj |-> Handing(s)] = [s \in Obj |-> 0]
  BY NoHanding DEF Init, KInit, Free
<1> QED BY <1>2, <1>3, <1>4 DEF Init, Abs!AInit

LEMMA NextMaps ==
  ASSUME IInv, IInv', Places, [Next]_vars
  PROVE  [Abs!ANext]_(Abs!avars) /\ Places'
<1>1. CASE KNext /\ UNCHANGED ctr
  BY <1>1, KernelMaps, KNextWaits DEF IInv
<1>2. ASSUME NEW s \in Obj, NEW opt \in Options, OSSemPost(s, opt)
      PROVE  Abs!ANext /\ Places'
  BY <1>2, SemPostMaps DEF Abs!ANext
<1>3. ASSUME NEW s \in Obj, NEW t \in Task, NEW timeout \in Timeouts,
             OSSemPend(t, s, timeout)
      PROVE  Abs!ANext /\ Places'
  BY <1>3, SemPendMaps DEF Abs!ANext
<1>4. ASSUME NEW s \in Obj, NEW t \in Task, NEW cnt \in 0..MaxCtr,
             OSSemSet(t, s, cnt)
      PROVE  Abs!ANext /\ Places'
  BY <1>4, SemSetMaps DEF Abs!ANext
<1>5. ASSUME NEW t \in Task, OSSemPendReturn(t) PROVE Abs!ANext /\ Places'
  BY <1>5, SemPendReturnMaps DEF Abs!ANext
<1>6. CASE UNCHANGED vars
  <2>1. Places'
    BY <1>6 DEF vars, kvars, Places, InPend
  <2>2. UNCHANGED Abs!avars
    BY <1>6 DEF vars, kvars, Abs!avars, Outcome, Handing
  <2> QED BY <2>1, <2>2
<1> QED BY <1>1, <1>2, <1>3, <1>4, <1>5, <1>6 DEF Next

-----------------------------------------------------------------------------
(* The theorems.                                                           *)

(* The kernel's tables, the scheduler's counters and the semaphores' counts*)
(* keep their types: no count leaves its range, no nesting counter its     *)
(* bound, and no function of the kernel indexes a table out of its domain. *)
THEOREM TypeCorrect == Spec => []TypeOK
<1>1. IInv => TypeOK
  BY DEF IInv
<1> QED BY <1>1, InitInv, NextInv, PTL DEF Spec

(* The ready lists, the pend lists and the tick list agree with the states *)
(* of the tasks, whatever posts, aborts, timeouts, suspensions, priority   *)
(* changes and interrupts interleave: the lists of os_core.c are never torn*)
(* and a task is never in one it does not belong to.                       *)
THEOREM TablesAgree ==
  Spec => []ListsAgree
<1>1. IInv => ListsAgree
  BY KInvTables DEF IInv, ListsAgree
<1> QED BY <1>1, InitInv, NextInv, PTL DEF Spec

(* A semaphore's waiters are in the order in which posts serve them: a     *)
(* pend puts the caller behind those of its priority, and a change of the  *)
(* priority of a waiter moves it to its place in the list.                 *)
THEOREM ServedByPriority == Spec => []WaitersByPriority
<1>1. IInv => WaitersByPriority
  BY KInvTables DEF IInv
<1> QED BY <1>1, InitInv, NextInv, PTL DEF Spec

(* No task runs application code while it is blocked, delayed or suspended.*)
THEOREM OnlyReadyRuns == Spec => []RunningIsReady
<1>1. IInv => RunningIsReady
  BY DEF IInv, KInv
<1> QED BY <1>1, InitInv, NextInv, PTL DEF Spec

(* Outside interrupts and the scheduler's lock the task that executes      *)
(* application code has the highest priority of those ready: every service *)
(* that may make another task ready, or the caller not, is followed by a   *)
(* switch before the caller goes on.  Posts and aborts with NO_SCHED are   *)
(* excepted by what they ask for.                                          *)
THEOREM HighestPriorityRuns ==
  ASSUME AlwaysSched PROVE Spec => []HighestRuns
<1>1. Init => IInv /\ Dispatched
  BY InitInv, KInitInv DEF Init
<1>2. IInv /\ Dispatched /\ [Next]_vars => IInv' /\ Dispatched'
  BY NextInv, NextDispatched
<1>3. Dispatched => HighestRuns
  BY DispatchedHighest
<1> QED BY <1>1, <1>2, <1>3, PTL DEF Spec

(* No task waits on a semaphore that has units: OS_SemPost() never counts a*)
(* unit past a waiter, and OSSemPend() never blocks past a unit.           *)
THEOREM SignalsArrive == Spec => []NoLostSignal
<1>1. IInv => NoLostSignal
  BY DEF IInv
<1> QED BY <1>1, InitInv, NextInv, PTL DEF Spec

(* OSSem implements AbsSem.  Every unit posted is counted or reaches one   *)
(* waiter, who learns of it when OSSemPend() reads PendStatus; a timeout or*)
(* an abort that comes after the post, or an interrupt between the post and*)
(* the switch, does not take it back.                                      *)
THEOREM SemaphoresKeepPromise == Spec => ImplementsAbs
<1>1. Init => IInv /\ Places /\ Abs!AInit
  BY InitInv, InitMaps, KInitPlaces DEF Init
<1>2. IInv /\ Places /\ [Next]_vars => IInv' /\ Places' /\ [Abs!ANext]_(Abs!avars)
  BY NextInv, NextMaps
<1>3. Init /\ [][Next]_vars => Abs!AInit /\ [][Abs!ANext]_(Abs!avars)
  BY <1>1, <1>2, PTL
<1> QED BY <1>3 DEF Spec, ImplementsAbs, Abs!ASpec
-----------------------------------------------------------------------------
(* Deletion and creation.                                                  *)

NeverLocked == "lock" \notin Uses

(* A task that waits was told nothing yet.                                 *)
WaitsBegun == \A t \in Task : os.pendObj[t] # NoObj => os.pendStatus[t] = "OK"

(* DeletedIsEmpty for what nobody is in a call on.                         *)
LostIsEmpty == \A s \in Lost : os.pend[s] = << >> /\ ctr[s] = 0

DInv ==
  /\ IInv
  /\ CallsAgree
  /\ LostIsEmpty
  /\ lock = 0
  /\ Places
  /\ WaitsBegun

-----------------------------------------------------------------------------
(* What deletion and creation of a task do to the tables.                  *)

(* OS_PendListRemove: the task leaves the list it is in, if any.           *)
LEMMA LeavePend ==
  ASSUME NEW o, Good(o), NEW u \in Task
  PROVE  LET new == OS_PendListRemove(o, u)
         IN  /\ new \in TCBTables
             /\ new.pendObj = [o.pendObj EXCEPT ![u] = NoObj]
             /\ new.state = o.state /\ new.prio = o.prio /\ new.pendOn = o.pendOn
             /\ new.pendStatus = o.pendStatus /\ new.tick = o.tick
             /\ new.susp = o.susp /\ new.rdy = o.rdy
             /\ new.cur = o.cur /\ new.prioCur = o.prioCur
             /\ \A q \in Obj : ListOf(new.pend[q], Waiters(o, q) \ {u})
             /\ \A q \in Obj : o.pend[q] = << >> => new.pend[q] = << >>
             /\ Sorted(new)
<1> DEFINE new == OS_PendListRemove(o, u)
           q   == o.pendObj[u]
           s   == Without(o.pend[q], u)
<1>1. o \in TCBTables /\ \A x \in Obj : ListOf(o.pend[x], Waiters(o, x))
  BY PendAgreesLists DEF Good
<1>2. CASE q = NoObj
  <2>1. new = o /\ o.pendObj = [o.pendObj EXCEPT ![u] = NoObj]
    BY <1>1, <1>2 DEF OS_PendListRemove, TCBTables
  <2>2. \A x \in Obj : Waiters(o, x) \ {u} = Waiters(o, x)
    BY <1>2, CoreAssumption DEF Waiters
  <2>3. Sorted(o)
    BY DEF Good
  <2> QED BY <1>1, <2>1, <2>2, <2>3
<1>3. CASE q # NoObj
  <2>1. q \in Obj /\ u \in Waiters(o, q)
    BY <1>1, <1>3 DEF TCBTables, Waiters
  <2>2. ListOf(s, Waiters(o, q) \ {u}) /\ s \in Seq(Task)
    BY <1>1, <2>1, ListOfWithout DEF ListOf
  <2>3. new = [o EXCEPT !.pend[q] = s, !.pendObj[u] = NoObj]
    BY <1>1, <1>3, <2>1 DEF OS_PendListRemove, TCBTables
  <2>4. s = Without(o.pend[q], u)
    OBVIOUS
  <2> HIDE DEF s, new, q
  <2>5. /\ new.pend = [o.pend EXCEPT ![q] = s]
        /\ new.pendObj = [o.pendObj EXCEPT ![u] = NoObj]
        /\ new.state = o.state /\ new.prio = o.prio /\ new.pendOn = o.pendOn
        /\ new.pendStatus = o.pendStatus /\ new.tick = o.tick
        /\ new.susp = o.susp /\ new.rdy = o.rdy
        /\ new.cur = o.cur /\ new.prioCur = o.prioCur
    BY <1>1, <2>1, <2>3 DEF TCBTables
  <2>6. new \in TCBTables
    BY <1>1, <2>1, <2>2, <2>3 DEF TCBTables
  <2>7. new.pend[q] = s /\ \A x \in Obj \ {q} : new.pend[x] = o.pend[x]
    BY <1>1, <2>1, <2>5 DEF TCBTables
  <2>8. ASSUME NEW x \in Obj PROVE ListOf(new.pend[x], Waiters(o, x) \ {u})
    <3>1. CASE x = q
      BY <2>2, <2>7, <3>1
    <3>2. CASE x # q
      <4>1. Waiters(o, x) \ {u} = Waiters(o, x)
        BY <3>2 DEF Waiters, q
      <4> QED BY <1>1, <2>7, <3>2, <4>1
    <3> QED BY <3>1, <3>2
  <2>9. o.pend[q] # << >>
    BY <1>1, <2>1, ListOfNone
  <2>10. Sorted(new)
    <3>1. ASSUME NEW x \in Obj PROVE SortedByPrio(new.pend[x], o.prio)
      <4>1. CASE x = q
        <5>1. o.pend[q] \in Seq(Task) /\ SortedByPrio(o.pend[q], o.prio)
          BY <1>1, <2>1 DEF Good, Sorted, ListOf
        <5>2. SortedByPrio(s, o.prio)
          BY <1>1, <2>4, <5>1, SortedWithout
        <5> QED BY <2>7, <4>1, <5>2
      <4>2. CASE x # q
        BY <2>7, <4>2 DEF Good, Sorted
      <4> QED BY <4>1, <4>2
    <3> QED BY <2>5, <3>1 DEF Sorted
  <2> QED BY <2>5, <2>6, <2>7, <2>8, <2>9, <2>10 DEF new
<1> QED BY <1>2, <1>3

(* OSTaskDel: u is in no list and its TCB says that it is deleted.         *)
Deletes(o, new, u) ==
  /\ new.state = [o.state EXCEPT ![u] = {"DEL"}]
  /\ new.pendObj = [o.pendObj EXCEPT ![u] = NoObj]
  /\ new.pendStatus = [o.pendStatus EXCEPT ![u] = "OK"]
  /\ new.cur = o.cur
  /\ \A q \in Obj : o.pend[q] = << >> => new.pend[q] = << >>

LEMMA TaskDelTablesGood ==
  ASSUME NEW o, Good(o), NEW u \in Task \ {Idle}
  PROVE  LET new == TaskDelTables(o, u)
         IN  Good(new) /\ Deletes(o, new, u)
<1> DEFINE new == TaskDelTables(o, u)
<1>1. /\ o \in TCBTables /\ {"DEL"} \in TaskStates
      /\ 0 \in 0..MaxDly /\ 0 \in 0..MaxSusp
  BY CoreAssumption DEF Good, TaskStates
<1>2. \A x \in Obj : ListOf(o.pend[x], Waiters(o, x))
  BY <1>1, PendAgreesLists DEF Good
<1>3. \A p \in Prio : ListOf(o.rdy[p], ReadyAt(o, p))
  BY <1>1, ReadyAgreesLists DEF Good
(* Whether it was ready or not, the tables now say this.                   *)
<1>4. SUFFICES
        /\ new \in TCBTables /\ ReadyAgrees(new) /\ Sorted(new)
        /\ new.state = [o.state EXCEPT ![u] = {"DEL"}]
        /\ new.pendObj = [o.pendObj EXCEPT ![u] = NoObj]
        /\ new.pendOn = [o.pendOn EXCEPT ![u] = "NOTHING"]
        /\ new.pendStatus = [o.pendStatus EXCEPT ![u] = "OK"]
        /\ new.tick = [o.tick EXCEPT ![u] = 0]
        /\ new.susp = [o.susp EXCEPT ![u] = 0]
        /\ new.prio = o.prio /\ new.cur = o.cur
        /\ \A q \in Obj : ListOf(new.pend[q], Waiters(o, q) \ {u})
        /\ \A q \in Obj : o.pend[q] = << >> => new.pend[q] = << >>
  <2> HIDE DEF new
  <2>1. ASSUME NEW t \in Task
        PROVE  /\ t # u => /\ new.state[t] = o.state[t]
                           /\ new.pendObj[t] = o.pendObj[t]
                           /\ new.pendOn[t] = o.pendOn[t]
                           /\ new.tick[t] = o.tick[t]
                           /\ new.susp[t] = o.susp[t]
               /\ new.state[u] = {"DEL"} /\ new.pendObj[u] = NoObj
               /\ new.pendOn[u] = "NOTHING" /\ new.tick[u] = 0 /\ new.susp[u] = 0
    BY <1>1, <1>4, SMTT(30) DEF TCBTables
  <2>2. ASSUME NEW q \in Obj PROVE Waiters(new, q) = Waiters(o, q) \ {u}
    <3>1. \A t \in Task : t \in Waiters(new, q) <=> t \in Waiters(o, q) \ {u}
      BY <2>1, CoreAssumption DEF Waiters
    <3> QED BY <3>1 DEF Waiters
  <2>3. PendAgrees(new)
    <3>1. \A q \in Obj : ListOf(new.pend[q], Waiters(new, q))
      BY <1>4, <2>2
    <3>2. ASSUME NEW t \in Task
          PROVE  /\ new.pendObj[t] # NoObj <=> "PEND" \in new.state[t]
                 /\ new.pendOn[t] # "NOTHING" <=> "PEND" \in new.state[t]
      BY <2>1 DEF Good, PendAgrees
    <3> QED BY <1>4, <3>1, <3>2, PendAgreesLists
  <2>4. BitsAgree(new) /\ TicksAgree(new)
    BY <2>1 DEF Good, BitsAgree, TicksAgree
  <2>5. IdleReady(new)
    BY <1>4, <2>1, CoreAssumption DEF Good, IdleReady
  <2>6. Good(new)
    BY <1>4, <2>3, <2>4, <2>5 DEF Good
  <2> QED BY <1>4, <2>6 DEF Deletes, new
<1>5. CASE o.state[u] = {}
  <2>1. /\ o.pendObj[u] = NoObj /\ o.pendOn[u] = "NOTHING"
        /\ o.tick[u] = 0 /\ o.susp[u] = 0
    BY <1>1, <1>5 DEF Good, PendAgrees, TicksAgree, BitsAgree, TCBTables
  <2> DEFINE mid == [o EXCEPT !.state[u] = {"DEL"}, !.pendStatus[u] = "OK"]
  <2>2. /\ mid \in TCBTables
        /\ mid.state = [o.state EXCEPT ![u] = {"DEL"}]
        /\ mid.pendStatus = [o.pendStatus EXCEPT ![u] = "OK"]
        /\ mid.prio = o.prio /\ mid.rdy = o.rdy /\ mid.pendObj = o.pendObj
        /\ mid.pendOn = o.pendOn /\ mid.tick = o.tick /\ mid.susp = o.susp
        /\ mid.pend = o.pend /\ mid.cur = o.cur
    BY <1>1 DEF TCBTables, Status
  <2>3. new = OS_RdyListRemove(mid, u)
    <3> DEFINE r == [o.rdy EXCEPT ![o.prio[u]] = Without(@, u)]
               s == [o.state EXCEPT ![u] = {"DEL"}]
               p == [o.pendStatus EXCEPT ![u] = "OK"]
    <3>1. mid = [o EXCEPT !.state = s, !.pendStatus = p]
      OBVIOUS
    <3>2. mid.rdy = o.rdy /\ mid.prio = o.prio
      BY <1>1 DEF TCBTables
    <3>3. OS_RdyListRemove(mid, u) = [mid EXCEPT !.rdy = r]
      BY <3>2 DEF OS_RdyListRemove
    <3>4. OS_RdyListRemove(o, u) = [o EXCEPT !.rdy = r]
      BY DEF OS_RdyListRemove
    <3>5. /\ o.susp = [o.susp EXCEPT ![u] = 0]
          /\ o.pendOn = [o.pendOn EXCEPT ![u] = "NOTHING"]
      BY <1>1, <2>1 DEF TCBTables
    <3>6. new = [o EXCEPT !.rdy = r, !.state[u] = {"DEL"}, !.susp[u] = 0,
                          !.pendOn[u] = "NOTHING", !.pendStatus[u] = "OK"]
      BY <1>1, <1>5, <3>4 DEF TaskDelTables, TCBTables
    <3>7. new = [o EXCEPT !.rdy = r, !.state = s, !.susp = o.susp,
                          !.pendOn = o.pendOn, !.pendStatus = p]
      BY <3>5, <3>6, ZenonT(60)
    <3> HIDE DEF r, s, p, mid, new
    <3> QED BY <1>1, <3>1, <3>3, <3>7 DEF TCBTables
  <2> HIDE DEF mid, new
  <2>4. /\ new \in TCBTables /\ ReadyAgrees(new)
        /\ new.state = mid.state /\ new.prio = mid.prio
        /\ new.pendOn = mid.pendOn /\ new.pendObj = mid.pendObj
        /\ new.pendStatus = mid.pendStatus
        /\ new.tick = mid.tick /\ new.susp = mid.susp /\ new.pend = mid.pend
        /\ new.cur = mid.cur
    BY <1>5, <2>2, <2>3, LeaveReady
  <2>5. \A q \in Obj : Waiters(o, q) \ {u} = Waiters(o, q)
    BY <2>1, CoreAssumption DEF Waiters
  <2>6. Sorted(new)
    BY <2>2, <2>4 DEF Good, Sorted
  <2>7. /\ o.pendObj = [o.pendObj EXCEPT ![u] = NoObj]
        /\ o.pendOn = [o.pendOn EXCEPT ![u] = "NOTHING"]
        /\ o.tick = [o.tick EXCEPT ![u] = 0]
        /\ o.susp = [o.susp EXCEPT ![u] = 0]
    BY <1>1, <2>1 DEF TCBTables
  <2>8. ASSUME NEW q \in Obj
        PROVE  /\ ListOf(new.pend[q], Waiters(o, q) \ {u})
               /\ o.pend[q] = << >> => new.pend[q] = << >>
    <3>1. new.pend[q] = o.pend[q]
      BY <2>2, <2>4
    <3> QED BY <1>2, <2>5, <3>1
  <2>9. /\ new.state = [o.state EXCEPT ![u] = {"DEL"}]
        /\ new.pendObj = o.pendObj /\ new.pendOn = o.pendOn
        /\ new.pendStatus = [o.pendStatus EXCEPT ![u] = "OK"]
        /\ new.tick = o.tick /\ new.susp = o.susp
        /\ new.prio = o.prio /\ new.cur = o.cur
    BY <2>2, <2>4
  <2> QED BY <2>4, <2>6, <2>7, <2>8, <2>9 DEF new
<1>6. CASE o.state[u] # {}
  <2> DEFINE off == OS_PendListRemove(o, u)
  <2>1. /\ off \in TCBTables
        /\ off.pendObj = [o.pendObj EXCEPT ![u] = NoObj]
        /\ off.state = o.state /\ off.prio = o.prio /\ off.pendOn = o.pendOn
        /\ off.pendStatus = o.pendStatus /\ off.tick = o.tick
        /\ off.susp = o.susp /\ off.rdy = o.rdy
        /\ off.cur = o.cur /\ off.prioCur = o.prioCur
        /\ \A q \in Obj : ListOf(off.pend[q], Waiters(o, q) \ {u})
        /\ \A q \in Obj : o.pend[q] = << >> => off.pend[q] = << >>
        /\ Sorted(off)
    BY LeavePend
  <2>2. new = [off EXCEPT !.tick[u] = 0, !.state[u] = {"DEL"}, !.susp[u] = 0,
                          !.pendOn[u] = "NOTHING", !.pendStatus[u] = "OK"]
    BY <1>6 DEF TaskDelTables, OS_TickListRemove
  <2> HIDE DEF off, new
  <2>3. /\ new.state = [o.state EXCEPT ![u] = {"DEL"}]
        /\ new.pendObj = [o.pendObj EXCEPT ![u] = NoObj]
        /\ new.pendOn = [o.pendOn EXCEPT ![u] = "NOTHING"]
        /\ new.pendStatus = [o.pendStatus EXCEPT ![u] = "OK"]
        /\ new.tick = [o.tick EXCEPT ![u] = 0]
        /\ new.susp = [o.susp EXCEPT ![u] = 0]
        /\ new.prio = o.prio /\ new.cur = o.cur /\ new.rdy = o.rdy
        /\ new.pend = off.pend
    BY <2>1, <2>2 DEF TCBTables
  <2>4. new \in TCBTables
    BY <1>1, <2>1, <2>2 DEF TCBTables, Status, PendKind
  <2>5. ASSUME NEW p \in Prio PROVE ReadyAt(new, p) = ReadyAt(o, p)
    <3>1. \A t \in Task : new.state[t] = {} <=> o.state[t] = {}
      <4>1. new.state[u] # {} /\ \A t \in Task \ {u} : new.state[t] = o.state[t]
        <5>1. {"DEL"} # {} /\ o.state \in [Task -> TaskStates]
          BY <1>1 DEF TCBTables
        <5> QED BY <2>3, <5>1
      <4> QED BY <1>6, <4>1
    <3> QED BY <2>3, <3>1 DEF ReadyAt
  <2>6. ReadyAgrees(new)
    BY <1>3, <2>3, <2>4, <2>5, ReadyAgreesLists
  <2>7. Sorted(new)
    BY <2>1, <2>3 DEF Sorted
  <2> QED BY <2>1, <2>3, <2>4, <2>6, <2>7 DEF new
<1> QED BY <1>5, <1>6

(* OSTaskCreate: u is ready, in the list of its priority.                  *)
LEMMA TaskCreateGood ==
  ASSUME NEW o, Good(o), NEW u \in Task \ {Idle}, o.state[u] = {"DEL"}, NEW p \in Prio
  PROVE  LET new == OS_RdyListInsertTail([o EXCEPT !.state[u] = {}, !.prio[u] = p], u)
         IN  /\ Good(new)
             /\ new.state = [o.state EXCEPT ![u] = {}]
             /\ new.pendObj = o.pendObj /\ new.pendStatus = o.pendStatus
             /\ new.pend = o.pend /\ new.cur = o.cur
<1> DEFINE mid == [o EXCEPT !.state[u] = {}, !.prio[u] = p]
           new == OS_RdyListInsertTail(mid, u)
<1>1. o \in TCBTables /\ {} \in TaskStates
  BY DEF Good, TaskStates
<1>2. \A q \in Prio : ListOf(o.rdy[q], ReadyAt(o, q))
  BY <1>1, ReadyAgreesLists DEF Good
<1>3. /\ mid \in TCBTables
      /\ mid.state = [o.state EXCEPT ![u] = {}]
      /\ mid.prio = [o.prio EXCEPT ![u] = p]
      /\ mid.rdy = o.rdy /\ mid.pend = o.pend /\ mid.cur = o.cur
      /\ mid.pendObj = o.pendObj /\ mid.pendOn = o.pendOn
      /\ mid.pendStatus = o.pendStatus /\ mid.tick = o.tick /\ mid.susp = o.susp
  BY <1>1 DEF TCBTables
<1> HIDE DEF mid
<1>4. mid.prio[u] = p /\ u \notin ReadyAt(o, p)
  BY <1>1, <1>3 DEF ReadyAt, TCBTables
<1>5. OnlyRdy(mid, new, p, ReadyAt(o, p) \cup {u})
  <2>1. ListOf(mid.rdy[mid.prio[u]], ReadyAt(o, p))
    BY <1>2, <1>3, <1>4
  <2> QED BY <1>3, <1>4, <2>1, RdyListInsert
<1> HIDE DEF new
<1>6. /\ new.state = [o.state EXCEPT ![u] = {}]
      /\ new.prio = [o.prio EXCEPT ![u] = p]
      /\ new.pend = o.pend /\ new.cur = o.cur
      /\ new.pendObj = o.pendObj /\ new.pendOn = o.pendOn
      /\ new.pendStatus = o.pendStatus /\ new.tick = o.tick /\ new.susp = o.susp
  BY <1>3, <1>5, OnlyRdyKeeps
<1>7. /\ new \in TCBTables /\ ListOf(new.rdy[p], ReadyAt(o, p) \cup {u})
      /\ \A q \in Prio \ {p} : new.rdy[q] = o.rdy[q]
  BY <1>3, <1>5 DEF OnlyRdy
<1>8. /\ new.state[u] = {} /\ new.prio[u] = p
      /\ \A t \in Task \ {u} : new.state[t] = o.state[t] /\ new.prio[t] = o.prio[t]
  BY <1>1, <1>6 DEF TCBTables
<1>9. ReadyAgrees(new)
  <2>1. ASSUME NEW q \in Prio
        PROVE  ReadyAt(new, q) = IF q = p THEN ReadyAt(o, p) \cup {u} ELSE ReadyAt(o, q)
    <3>1. \A t \in Task \ {u} : t \in ReadyAt(new, q) <=> t \in ReadyAt(o, q)
      BY <1>8 DEF ReadyAt
    <3>2. (u \in ReadyAt(new, q) <=> q = p) /\ u \notin ReadyAt(o, q)
      BY <1>8 DEF ReadyAt
    <3> QED BY <3>1, <3>2 DEF ReadyAt
  <2>2. \A q \in Prio : ListOf(new.rdy[q], ReadyAt(new, q))
    BY <1>2, <1>7, <2>1
  <2> QED BY <1>7, <2>2, ReadyAgreesLists
<1>10. "PEND" \notin o.state[u] /\ "DLY" \notin o.state[u] /\ "SUSPENDED" \notin o.state[u]
  OBVIOUS
<1>11. PendAgrees(new) /\ BitsAgree(new) /\ TicksAgree(new)
  BY <1>6, <1>8, <1>10 DEF Good, PendAgrees, BitsAgree, TicksAgree
<1>12. Sorted(new)
  BY <1>6, <1>10, SortedNotWaiting
<1>13. IdleReady(new)
  BY <1>8, CoreAssumption DEF Good, IdleReady
<1> QED BY <1>6, <1>7, <1>9, <1>11, <1>12, <1>13 DEF Good, new, mid

-----------------------------------------------------------------------------
(* The invariant.                                                          *)

(* What ToldOfDeletion says of a step.                                     *)
StaysTold == \A t \in Task :
  pc[t] \in {"pend", "wake"} /\ os.pendStatus[t] = "DEL" =>
    \/ os'.pendStatus[t] = "DEL"
    \/ os'.state[t] = {"DEL"}

LEMMA InitDel == DelInit => DInv
<1> SUFFICES ASSUME DelInit PROVE DInv
  OBVIOUS
<1>1. IInv /\ Places /\ lock = 0 /\ CallsAgree /\ gone = {}
  BY InitInv, KInitPlaces, InitCalls DEF DelInit, Init, KInit, CallInit
<1>2. PICK lists : os = OS_TASK_SW(InitTables(lists))
  BY DEF DelInit, Init, KInit
<1>3. os.pendObj = [t \in Task |-> NoObj]
  BY <1>2 DEF OS_TASK_SW, InitTables
<1> QED BY <1>1, <1>3 DEF DInv, LostIsEmpty, Lost, WaitsBegun

(* The running task is outside any wait.                                   *)
LEMMA RunningAlone ==
  ASSUME DInv, NEW t \in Task, Running(t)
  PROVE  /\ os.cur = t /\ os.state[t] = {} /\ pc[t] = "run" /\ os.pendObj[t] = NoObj
         /\ crit = Free /\ crit.op = "none" /\ lock = 0
<1>1. os.cur = t /\ os.state[t] = {} /\ pc[t] = "run" /\ crit = Free
  BY RunningReady DEF Running, DInv, IInv
<1>2. os.pendObj[t] = NoObj
  BY <1>1 DEF DInv, Places, InPend
<1> QED BY <1>1, <1>2 DEF Free, DInv

(* Task t deletes or creates u, itself perhaps, and calls the scheduler.   *)
LEMMA CallOnTask ==
  ASSUME DInv, NEW t \in Task, NEW u \in Task, Running(t),
         Good(os'), os'.cur = os.cur,
         \A q \in Obj : os.pend[q] = << >> => os'.pend[q] = << >>,
         os'.pendObj[u] = NoObj,
         \A x \in Task \ {u} : /\ os'.pendObj[x] = os.pendObj[x]
                             /\ os'.pendStatus[x] = os.pendStatus[x],
         pc' = [pc EXCEPT ![u] = "run", ![t] = "sched"],
         UNCHANGED <<nest, lock, crit, ctr, gone>>, CallsAgree'
  PROVE  DInv'
<1>1. /\ os.cur = t /\ os.pendObj[t] = NoObj /\ pc \in [Task -> Where]
      /\ crit = Free /\ crit.op = "none" /\ lock = 0
  BY RunningAlone DEF DInv, IInv, KInv, KTypeOK
<1>2. /\ pc' \in [Task -> Where] /\ pc'[t] = "sched"
      /\ \A x \in Task \ {t, u} : pc'[x] = pc[x]
  BY <1>1 DEF Where
<1>3. KTypeOK'
  BY <1>2 DEF DInv, IInv, KInv, KTypeOK, Good
<1>4. TickTaskRuns' /\ RunningIsReady' /\ LockedIsReady' /\ LoopsEnd'
  BY <1>1, <1>2
  DEF DInv, IInv, KInv, TickTaskRuns, RunningIsReady, LockedIsReady, LoopsEnd
<1>5. KInv'
  BY <1>3, <1>4 DEF KInv
<1>6. NoLostSignal' /\ LostIsEmpty'
  BY DEF DInv, IInv, NoLostSignal, CallsAgree, CallTypeOK, LostIsEmpty, Lost
<1>7. TypeOK'
  BY <1>3 DEF DInv, IInv, TypeOK
<1>8. Places'
  BY <1>1, <1>2 DEF DInv, Places, InPend
<1>9. WaitsBegun'
  BY DEF DInv, WaitsBegun
<1> QED BY <1>5, <1>6, <1>7, <1>8, <1>9 DEF DInv, IInv

LEMMA TaskDelInv ==
  ASSUME DInv, NEW t \in Task, NEW u \in Task, OSTaskDel(t, u)
  PROVE  DInv' /\ StaysTold
<1>0. CallsAgree'
  <2>1. CallsAgree /\ gone \in SUBSET Obj /\ \A x \in Task : called[x] \notin gone \ Careless
    BY DEF DInv, CallsAgree, CallTypeOK, Lost
  <2> QED BY <2>1, ResetCalls DEF OSTaskDel
<1>1. /\ Running(t) /\ u # Idle /\ os' = TaskDelTables(os, u)
      /\ pc' = [pc EXCEPT ![u] = "run", ![t] = "sched"]
      /\ UNCHANGED <<nest, lock, crit, ctr, gone>>
  BY DEF OSTaskDel
<1>2. Good(os') /\ Deletes(os, os', u)
  BY <1>1, TaskDelTablesGood DEF DInv, IInv, KInv
<1>3. os \in TCBTables
  BY DEF DInv, IInv, KInv, Good
<1>4. /\ os'.pendObj[u] = NoObj /\ os'.state[u] = {"DEL"} /\ os'.cur = os.cur
      /\ \A x \in Task \ {u} : /\ os'.pendObj[x] = os.pendObj[x]
                             /\ os'.pendStatus[x] = os.pendStatus[x]
      /\ \A q \in Obj : os.pend[q] = << >> => os'.pend[q] = << >>
  BY <1>2, <1>3 DEF Deletes, TCBTables
<1>5. DInv'
  BY <1>0, <1>1, <1>2, <1>4, CallOnTask
<1>6. StaysTold
  BY <1>4 DEF StaysTold
<1> QED BY <1>5, <1>6

LEMMA TaskCreateInv ==
  ASSUME DInv, NEW t \in Task, NEW u \in Task, OSTaskCreate(t, u)
  PROVE  DInv' /\ StaysTold
<1> DEFINE new == OS_RdyListInsertTail([os EXCEPT !.state[u] = {}, !.prio[u] = InitPrio[u]], u)
<1>1. /\ Running(t) /\ os.state[u] = {"DEL"} /\ os' = new
      /\ pc' = [pc EXCEPT ![u] = "run", ![t] = "sched"]
      /\ UNCHANGED <<nest, lock, crit, ctr, gone>> /\ CallsAgree'
  BY CallsStutter DEF OSTaskCreate, Exists, DInv, callvars
<1>2. u \in Task \ {Idle} /\ Good(os) /\ InitPrio[u] \in Prio
  BY <1>1, KernelAssumption DEF DInv, IInv, KInv, Good, IdleReady
<1>3. /\ Good(new) /\ new.pendObj = os.pendObj /\ new.pendStatus = os.pendStatus
      /\ new.pend = os.pend /\ new.cur = os.cur
  <2> DEFINE p == InitPrio[u]
  <2>1. new = OS_RdyListInsertTail([os EXCEPT !.state[u] = {}, !.prio[u] = p], u)
    OBVIOUS
  <2>2. p \in Prio
    BY <1>2
  <2> HIDE DEF p, new
  <2> QED BY <1>1, <1>2, <2>1, <2>2, TaskCreateGood, ZenonT(60)
<1> HIDE DEF new
<1>4. os.pendObj[u] = NoObj
  BY <1>1, <1>2 DEF Good, PendAgrees
<1>5. DInv'
  BY <1>1, <1>3, <1>4, CallOnTask
<1>6. StaysTold
  BY <1>1, <1>3 DEF StaysTold
<1> QED BY <1>5, <1>6

(* The deletion of a semaphore: it holds no units and has no waiters.      *)
LEMMA SemDelNoPendInv ==
  ASSUME DInv, NEW t \in Task, NEW s \in Obj, OSSemDelNoPend(t, s)
  PROVE  DInv' /\ StaysTold
<1>1. /\ os.pend[s] = << >> /\ CallsAgree' /\ Lost' \subseteq Lost \cup {s}
      /\ ctr' = [ctr EXCEPT ![s] = 0] /\ UNCHANGED <<os, pc, nest, lock, crit>>
      /\ ctr \in [Obj -> 0..MaxCtr] /\ Lost \subseteq Obj
  BY DeleteCalls DEF OSSemDelNoPend, kvars, DInv, IInv, TypeOK, CallsAgree, CallTypeOK, Lost
<1>2. ctr' \in [Obj -> 0..MaxCtr]
  BY <1>1, SemAssumption
<1>3. KInv'
  BY <1>1 DEF DInv, IInv, KInv, KTypeOK, TickTaskRuns, RunningIsReady, LockedIsReady,
              LoopsEnd
<1>4. NoLostSignal' /\ LostIsEmpty'
  BY <1>1 DEF DInv, IInv, NoLostSignal, LostIsEmpty
<1>5. Places' /\ WaitsBegun' /\ StaysTold
  BY <1>1 DEF DInv, Places, InPend, WaitsBegun, StaysTold
<1> QED BY <1>1, <1>2, <1>3, <1>4, <1>5 DEF DInv, IInv, KInv, TypeOK

LEMMA SemDelAlwaysInv ==
  ASSUME DInv, NEW t \in Task, NEW s \in Obj, OSSemDelAlways(t, s)
  PROVE  DInv' /\ StaysTold
<1>1. /\ Running(t) /\ os' = FoldLeft(OS_PendObjDel, os, os.pend[s])
      /\ ctr' = [ctr EXCEPT ![s] = 0] /\ Goto(t, "sched")
      /\ UNCHANGED <<nest, lock, crit>> /\ ctr \in [Obj -> 0..MaxCtr]
      /\ CallsAgree' /\ Lost' \subseteq Lost \cup {s} /\ Lost \subseteq Obj
  BY DeleteCalls DEF OSSemDelAlways, DInv, IInv, TypeOK, CallsAgree, CallTypeOK, Lost
<1>2. Told(os, os', "DEL", s, Waiters(os, s)) /\ os'.pend[s] = << >>
  BY <1>1, AllAreTold DEF DInv, IInv, KInv
<1>3. /\ os.cur = t /\ os.state[t] = {} /\ os.pendObj[t] = NoObj /\ lock = 0
      /\ crit = Free /\ crit.op = "none"
      /\ pc \in [Task -> Where] /\ pc' = [pc EXCEPT ![t] = "sched"]
  BY <1>1, RunningAlone DEF DInv, IInv, KInv, KTypeOK, Goto
<1>4. Good(os') /\ os'.cur = os.cur
  BY <1>2 DEF Told
<1>5. KInv'
  BY <1>1, <1>3, <1>4, CallInv DEF DInv, IInv
<1>6. ctr' \in [Obj -> 0..MaxCtr] /\ ctr'[s] = 0 /\ \A q \in Obj \ {s} : ctr'[q] = ctr[q]
  BY <1>1, SemAssumption
<1>7. \A q \in Obj : os.pend[q] = << >> => os'.pend[q] = << >>
  BY <1>2 DEF Told
<1>8. NoLostSignal' /\ LostIsEmpty'
  BY <1>1, <1>2, <1>6, <1>7 DEF DInv, IInv, NoLostSignal, LostIsEmpty
<1>9. ASSUME NEW x \in Task
      PROVE  /\ os'.pendObj[x] = NoObj \/ (os'.pendObj[x] = os.pendObj[x]
                                           /\ os'.pendStatus[x] = os.pendStatus[x])
             /\ os.pendStatus[x] = "DEL" => os'.pendStatus[x] = "DEL"
  BY <1>2 DEF Told
<1>10. Places'
  BY <1>1, <1>3, <1>9 DEF DInv, Places, InPend
<1>11. WaitsBegun' /\ StaysTold
  BY <1>9 DEF DInv, WaitsBegun, StaysTold
<1> QED BY <1>1, <1>3, <1>5, <1>6, <1>8, <1>10, <1>11 DEF DInv, IInv, KInv, TypeOK

LEMMA SemCreateDoes ==
  ASSUME DInv, Orderly, NEW t \in Task, NEW s \in Obj, OSSemCreate(t, s)
  PROVE  /\ CallsAgree' /\ Lost' = Lost \ {s} /\ os.pend[s] = << >>
         /\ ctr' = [ctr EXCEPT ![s] = InitCtr[s]] /\ UNCHANGED <<os, pc, nest, lock, crit>>
<1>1. /\ CallsAgree' /\ s \in Lost /\ Lost' = Lost \ {s}
      /\ ctr' = [ctr EXCEPT ![s] = InitCtr[s]]
      /\ os' = [os EXCEPT !.pend[s] = << >>] /\ UNCHANGED <<pc, nest, lock, crit>>
  BY CreateCalls DEF OSSemCreate, Create, DInv
<1>2. os \in TCBTables /\ os.pend[s] = << >>
  BY <1>1 DEF DInv, IInv, KInv, Good, LostIsEmpty
<1>3. os' = os
  BY <1>1, <1>2 DEF TCBTables
<1> QED BY <1>1, <1>2, <1>3

LEMMA SemCreateInv ==
  ASSUME DInv, Orderly, NEW t \in Task, NEW s \in Obj, OSSemCreate(t, s)
  PROVE  DInv' /\ StaysTold
<1>1. /\ CallsAgree' /\ Lost' = Lost \ {s} /\ ctr' = [ctr EXCEPT ![s] = InitCtr[s]]
      /\ os.pend[s] = << >> /\ UNCHANGED <<os, pc, nest, lock, crit>>
      /\ ctr \in [Obj -> 0..MaxCtr] /\ Lost \subseteq Obj
  BY SemCreateDoes DEF DInv, IInv, TypeOK, CallsAgree, CallTypeOK, Lost
<1>2. UNCHANGED os
  BY <1>1
<1>3. ctr' \in [Obj -> 0..MaxCtr]
  BY <1>1, SemAssumption
<1>4. KInv'
  BY <1>1, <1>2 DEF DInv, IInv, KInv, KTypeOK, TickTaskRuns, RunningIsReady,
                    LockedIsReady, LoopsEnd
<1>5. NoLostSignal' /\ LostIsEmpty'
  BY <1>1, <1>2 DEF DInv, IInv, NoLostSignal, LostIsEmpty
<1>6. Places' /\ WaitsBegun' /\ StaysTold
  BY <1>1, <1>2 DEF DInv, Places, InPend, WaitsBegun, StaysTold
<1> QED BY <1>1, <1>3, <1>4, <1>5, <1>6 DEF DInv, IInv, KInv, TypeOK

LEMMA LockStays == KNext /\ lock = 0 /\ NeverLocked => lock' = 0
  BY DEF KNext, KStep, KCall, NeverLocked, OSIntEnter, OSIntExit, OS_SchedRoundRobin,
         OS_TickListUpdate, OS_TickTaskPend, PendListLoop, OSSched, OSSchedLock,
         OSSchedUnlock, OSSchedRoundRobinYield, OS_TickListUpdateLoop, OSTimeDly,
         OSTaskSuspend, OSTaskResume, OSTaskChangePrio, PendAbort

LEMMA KernelInv ==
  ASSUME DInv, NeverLocked, KNext, UNCHANGED <<ctr, gone>>, CallsAgree'
  PROVE  DInv' /\ StaysTold
<1>1. IInv' /\ EmptyStays /\ lock' = 0
  BY KernelStepInv, KNextInv, LockStays DEF DInv, IInv
<1>2. Places' /\ WaitsEffect
  BY KNextWaits DEF DInv, IInv
<1>3. LostIsEmpty'
  BY <1>1 DEF DInv, CallsAgree, CallTypeOK, LostIsEmpty, Lost, EmptyStays
<1>4. /\ os.pendObj \in [Task -> Obj \cup {NoObj}] /\ os.pendStatus \in [Task -> Status]
  BY DEF DInv, IInv, KInv, Good, TCBTables
<1>5. ASSUME WaitsStay PROVE WaitsBegun' /\ StaysTold
  <2>1. \A t \in Task : /\ os'.pendObj[t] = os.pendObj[t]
                       /\ os'.pendStatus[t] = os.pendStatus[t]
    BY <1>5 DEF WaitsStay
  <2> QED BY <2>1 DEF DInv, WaitsBegun, StaysTold
<1>6. ASSUME NEW t \in Task, NEW status \in Status, WaitEnds(t, status)
      PROVE  WaitsBegun' /\ StaysTold
  BY <1>4, <1>6 DEF WaitEnds, DInv, WaitsBegun, StaysTold
<1>7. WaitsBegun' /\ StaysTold
  <2>1. "OK" \in Status /\ "TIMEOUT" \in Status /\ "ABORT" \in Status
    BY DEF Status
  <2>2. WaitsStay \/ \E t \in Task, status \in Status : WaitEnds(t, status)
    BY <1>2, <2>1 DEF WaitsEffect
  <2> QED BY <1>5, <1>6, <2>2
<1> QED BY <1>1, <1>2, <1>3, <1>7 DEF DInv

LEMMA PostInv ==
  ASSUME DInv, NEW s \in Obj \ Lost, NEW opt \in Options, OSSemPost(s, opt),
         UNCHANGED gone, CallsAgree'
  PROVE  DInv' /\ StaysTold
<1>1. /\ UNCHANGED <<os, pc, nest, lock>> /\ (UNCHANGED ctr \/ ctr' = [ctr EXCEPT ![s] = @ + 1])
      /\ ctr \in [Obj -> 0..MaxCtr]
  BY DEF OSSemPost, OS_SemPost, DInv, IInv, TypeOK
<1>2. IInv' /\ Places'
  BY SemPostInv, SemPostMaps DEF DInv
<1>3. LostIsEmpty' /\ WaitsBegun' /\ StaysTold
  <2>1. /\ Lost \subseteq Obj /\ Lost' = Lost
        /\ \A q \in Obj \ {s} : ctr'[q] = ctr[q]
    BY <1>1 DEF DInv, CallsAgree, CallTypeOK, Lost
  <2> QED BY <1>1, <2>1 DEF DInv, LostIsEmpty, WaitsBegun, StaysTold
<1> QED BY <1>1, <1>2, <1>3 DEF DInv

LEMMA PendInv ==
  ASSUME DInv, NEW s \in Obj \ Lost, NEW t \in Task, NEW timeout \in Timeouts,
         OSSemPend(t, s, timeout), UNCHANGED gone, CallsAgree'
  PROVE  DInv' /\ StaysTold
<1>1. IInv' /\ Places'
  BY SemPendInv, SemPendMaps DEF DInv
<1>2. /\ Running(t) /\ UNCHANGED <<nest, lock, crit>>
      /\ ctr \in [Obj -> 0..MaxCtr] /\ os \in TCBTables
      /\ Lost \subseteq Obj /\ Lost' = Lost
  BY DEF OSSemPend, DInv, IInv, TypeOK, KInv, Good, CallsAgree, CallTypeOK, Lost
<1>3. os.cur = t /\ os.state[t] = {} /\ pc[t] = "run" /\ t # Idle /\ lock = 0
  BY <1>2, RunningAlone DEF Running
<1>4. CASE ctr' = [ctr EXCEPT ![s] = @ - 1] /\ UNCHANGED <<os, pc>>
  <2>1. LostIsEmpty' /\ WaitsBegun' /\ StaysTold
    BY <1>2, <1>4 DEF DInv, LostIsEmpty, WaitsBegun, StaysTold
  <2> QED BY <1>1, <1>2, <2>1 DEF DInv
<1>5. CASE os' = OS_Pend(os, s, "SEM", timeout) /\ UNCHANGED ctr
  <2>1. timeout \in 0..MaxDly /\ Good(os)
    BY CoreAssumption DEF Timeouts, DInv, IInv, KInv
  <2>2. /\ os'.pendObj = [os.pendObj EXCEPT ![t] = s]
        /\ os'.pendStatus = [os.pendStatus EXCEPT ![t] = "OK"]
        /\ \A q \in Obj \ {s} : os'.pend[q] = os.pend[q]
    BY <1>3, <1>5, <2>1, PendBlocks DEF PendKind
  <2>3. LostIsEmpty'
    BY <1>2, <1>5, <2>2 DEF DInv, LostIsEmpty
  <2>4. /\ os'.pendStatus[t] = "OK"
        /\ \A x \in Task \ {t} : /\ os'.pendObj[x] = os.pendObj[x]
                               /\ os'.pendStatus[x] = os.pendStatus[x]
    BY <1>2, <2>2 DEF TCBTables
  <2>5. WaitsBegun' /\ StaysTold
    BY <1>3, <2>4 DEF DInv, WaitsBegun, StaysTold
  <2> QED BY <1>1, <1>2, <2>3, <2>5 DEF DInv
<1> QED BY <1>4, <1>5 DEF OSSemPend

LEMMA PendReturnInv ==
  ASSUME DInv, NEW t \in Task, OSSemPendReturn(t), UNCHANGED callvars
  PROVE  DInv' /\ StaysTold
<1>0. CallsAgree' /\ UNCHANGED gone
  BY CallsStutter DEF DInv
<1>1. UNCHANGED <<os, nest, lock, crit, ctr>>
  BY DEF OSSemPendReturn
<1>2. IInv' /\ Places'
  BY SemPendReturnInv, SemPendReturnMaps DEF DInv
<1>3. LostIsEmpty' /\ WaitsBegun' /\ StaysTold
  BY <1>0, <1>1 DEF DInv, LostIsEmpty, Lost, WaitsBegun, StaysTold
<1> QED BY <1>0, <1>1, <1>2, <1>3 DEF DInv

LEMMA SetInv ==
  ASSUME DInv, NEW s \in Obj \ Lost, NEW t \in Task, NEW cnt \in 0..MaxCtr,
         OSSemSet(t, s, cnt), UNCHANGED gone, CallsAgree'
  PROVE  DInv' /\ StaysTold
<1>1. /\ UNCHANGED <<os, pc, nest, lock, crit>> /\ ctr' = [ctr EXCEPT ![s] = cnt]
      /\ Lost \subseteq Obj /\ Lost' = Lost
  BY DEF OSSemSet, kvars, DInv, CallsAgree, CallTypeOK, Lost
<1>2. IInv' /\ Places'
  BY SemSetInv, SemSetMaps DEF DInv
<1>3. LostIsEmpty' /\ WaitsBegun' /\ StaysTold
  BY <1>1 DEF DInv, LostIsEmpty, WaitsBegun, StaysTold
<1> QED BY <1>1, <1>2, <1>3 DEF DInv

(* A call that does nothing to the semaphores, or that begins.             *)
LEMMA CallOnly ==
  ASSUME DInv, CallsAgree', UNCHANGED vars, UNCHANGED gone PROVE DInv' /\ StaysTold
<1>1. UNCHANGED <<os, pc, nest, lock, crit, ctr>>
  BY DEF vars, kvars
<1>2. IInv'
  BY <1>1 DEF DInv, IInv, KInv, TypeOK, NoLostSignal, KTypeOK, TickTaskRuns,
              RunningIsReady, LockedIsReady, LoopsEnd
<1> QED BY <1>1, <1>2 DEF DInv, LostIsEmpty, Lost, Places, InPend, WaitsBegun, StaysTold

LEMMA OnSemaphoresInv ==
  ASSUME DInv, NeverLocked, OnSemaphores PROVE DInv' /\ StaysTold
<1>0. CallsAgree
  BY DEF DInv
<1>1. CASE CNext /\ UNCHANGED ctr
  <2>1. CallsAgree' /\ UNCHANGED gone /\ (KNext \/ UNCHANGED kvars)
    BY <1>0, <1>1, CNextCalls
  <2>2. CASE KNext
    BY <1>1, <2>1, <2>2, KernelInv
  <2>3. CASE UNCHANGED kvars
    BY <1>1, <2>1, <2>3, CallOnly DEF vars
  <2> QED BY <2>1, <2>2, <2>3
<1>2. ASSUME NEW s \in Obj, Passed(s),
             \/ \E opt \in Options : OSSemPost(s, opt)
             \/ \E t \in Task :
                  \/ \E timeout \in Timeouts : OSSemPend(t, s, timeout)
                  \/ \E cnt \in 0..MaxCtr : OSSemSet(t, s, cnt)
      PROVE  DInv' /\ StaysTold
  <2>1. CallsAgree' /\ UNCHANGED gone /\ s \in Obj \ Lost
    BY <1>0, <1>2, PassedCalls
  <2> QED BY <1>2, <2>1, PostInv, PendInv, SetInv
<1>3. ASSUME NEW t \in Task, OSSemPendReturn(t), UNCHANGED callvars
      PROVE  DInv' /\ StaysTold
  BY <1>3, PendReturnInv
<1> QED BY <1>1, <1>2, <1>3 DEF OnSemaphores

LEMMA NextDel == DInv /\ NeverLocked /\ Orderly /\ DelNext => DInv' /\ StaysTold
<1> SUFFICES ASSUME DInv, NeverLocked, Orderly, DelNext PROVE DInv' /\ StaysTold
  OBVIOUS
<1>1. CASE OnSemaphores
  BY <1>1, OnSemaphoresInv
<1>2. ASSUME NEW t \in Task, NEW u \in Task, OSTaskDel(t, u) \/ OSTaskCreate(t, u)
      PROVE  DInv' /\ StaysTold
  BY <1>2, TaskDelInv, TaskCreateInv
<1>3. ASSUME NEW t \in Task, NEW s \in Obj,
             OSSemDelNoPend(t, s) \/ OSSemDelAlways(t, s) \/ OSSemCreate(t, s)
      PROVE  DInv' /\ StaysTold
  BY <1>3, SemDelNoPendInv, SemDelAlwaysInv, SemCreateInv
<1> QED BY <1>1, <1>2, <1>3 DEF DelNext

LEMMA StutterDel == DInv /\ UNCHANGED allvars => DInv'
  BY DEF allvars, vars, kvars, DInv, IInv, KInv, TypeOK, NoLostSignal, KTypeOK,
         TickTaskRuns, RunningIsReady, LockedIsReady, LoopsEnd, callvars, CallsAgree,
         CallTypeOK, Lost, LostIsEmpty, Places, InPend, WaitsBegun

LEMMA DelInvariance == ASSUME NeverLocked, Orderly PROVE DelSpec => []DInv
<1>1. DInv /\ [DelNext]_allvars => DInv'
  BY NextDel, StutterDel
<1> QED BY <1>1, InitDel, PTL DEF DelSpec

(* The deletion and the creation of a task switch to nobody.               *)
LEMMA CallOnTaskDoes ==
  ASSUME DInv, NEW t \in Task, NEW u \in Task,
         OSTaskDel(t, u) \/ OSTaskCreate(t, u)
  PROVE  os'.cur = t
<1>1. os \in TCBTables /\ Good(os) /\ os.cur = t
  BY DEF OSTaskDel, OSTaskCreate, Running, DInv, IInv, KInv, Good
<1>2. CASE OSTaskDel(t, u)
  <2>1. u # Idle /\ os' = TaskDelTables(os, u)
    BY <1>2 DEF OSTaskDel
  <2>2. Deletes(os, os', u)
    BY <1>1, <2>1, TaskDelTablesGood
  <2> QED BY <1>1, <2>2 DEF Deletes
<1>3. CASE OSTaskCreate(t, u)
  <2> DEFINE p   == InitPrio[u]
             new == OS_RdyListInsertTail([os EXCEPT !.state[u] = {}, !.prio[u] = p], u)
  <2>1. os' = new /\ os.state[u] = {"DEL"}
    BY <1>3 DEF OSTaskCreate, Exists
  <2>2. u \in Task \ {Idle} /\ p \in Prio
    BY <1>1, <2>1, KernelAssumption DEF Good, IdleReady
  <2>3. new.cur = os.cur
    <3> HIDE DEF p
    <3> QED BY <1>1, <2>1, <2>2, TaskCreateGood, ZenonT(60)
  <2> QED BY <1>1, <2>1, <2>3
<1> QED BY <1>2, <1>3

(* To the semaphores it is as if each call were made at once.              *)
LEMMA OnSemaphoresNext == ASSUME CallsAgree, OnSemaphores PROVE [Next]_vars
<1>1. CASE CNext /\ UNCHANGED ctr
  BY <1>1, CNextCalls DEF Next, vars
<1>2. CASE ~CNext
  BY <1>2 DEF OnSemaphores, Next
<1> QED BY <1>1, <1>2 DEF OnSemaphores, Next

(* Who deletes or creates goes on only after OSSched(), unless nothing     *)
(* changed that decides who runs.                                          *)
LEMMA NextDelDispatched ==
  ASSUME DInv, Orderly, AlwaysSched, Dispatched, [DelNext]_allvars PROVE Dispatched'
<1>1. CASE OnSemaphores
  <2>1. [Next]_vars
    BY <1>1, OnSemaphoresNext DEF DInv
  <2> QED BY <2>1, NextDispatched DEF DInv
<1>2. ASSUME NEW t \in Task, NEW u \in Task,
             OSTaskDel(t, u) \/ OSTaskCreate(t, u)
      PROVE  Dispatched'
  <2>1. os'.cur = t
    BY <1>2, CallOnTaskDoes
  <2>2. pc \in [Task -> Where] /\ pc' = [pc EXCEPT ![u] = "run", ![t] = "sched"]
    BY <1>2 DEF OSTaskDel, OSTaskCreate, DInv, IInv, KInv, KTypeOK
  <2>3. pc'[t] = "sched"
    BY <2>2
  <2> QED BY <2>1, <2>3 DEF Dispatched
<1>3. ASSUME NEW t \in Task, NEW s \in Obj, OSSemDelAlways(t, s) PROVE Dispatched'
  <2>1. Running(t) /\ os' = FoldLeft(OS_PendObjDel, os, os.pend[s]) /\ Goto(t, "sched")
    BY <1>3 DEF OSSemDelAlways, Delete, Within
  <2>2. Told(os, os', "DEL", s, Waiters(os, s))
    BY <2>1, AllAreTold DEF DInv, IInv, KInv
  <2>3. os'.cur = t
    BY <2>1, <2>2 DEF Told, Running
  <2> QED BY <2>1, <2>3, OnTheWay DEF DInv, IInv
<1>4. ASSUME NEW t \in Task, NEW s \in Obj, OSSemDelNoPend(t, s) PROVE Dispatched'
  BY <1>4 DEF OSSemDelNoPend, kvars, Dispatched
<1>5. ASSUME NEW t \in Task, NEW s \in Obj, OSSemCreate(t, s) PROVE Dispatched'
  BY <1>5, SemCreateDoes DEF Dispatched
<1>6. CASE UNCHANGED allvars
  BY <1>6 DEF allvars, vars, kvars, Dispatched
<1> QED BY <1>1, <1>2, <1>3, <1>4, <1>5, <1>6 DEF DelNext

-----------------------------------------------------------------------------
(* Every step with deletions is a step of AbsSem or changes nothing of it. *)

LEMMA OnSemaphoresMaps ==
  ASSUME DInv, DInv', OnSemaphores PROVE [Abs!ANext]_(Abs!avars)
<1>1. [Next]_vars
  BY OnSemaphoresNext DEF DInv
<1> QED BY <1>1, NextMaps DEF DInv

(* Nothing is being handed out while a task runs application code.         *)
LEMMA RunningHandsNothing ==
  ASSUME DInv, DInv', NEW t \in Task, Running(t), UNCHANGED crit
  PROVE  /\ \A s \in Obj : Handing(s) = 0
         /\ UNCHANGED [s \in Obj |-> Handing(s)]
<1>1. crit.op = "none"
  BY RunningAlone
<1> QED BY <1>1 DEF Handing

(* The waits of x are as they were.                                        *)
LEMMA SameOutcome ==
  ASSUME DInv, DInv', NEW x \in Task, InPend(x)' <=> InPend(x),
         os'.pendObj[x] = os.pendObj[x], os'.pendStatus[x] = os.pendStatus[x]
  PROVE  Outcome(x)' = Outcome(x)
  BY OutcomeIs, OutcomeBecomes DEF DInv, IInv

LEMMA SemDelNoPendMaps ==
  ASSUME DInv, DInv', NEW t \in Task, NEW s \in Obj, OSSemDelNoPend(t, s)
  PROVE  Abs!Delete(s)
<1>1. /\ "del" \in Uses /\ Running(t) /\ os.pend[s] = << >>
      /\ ctr' = [ctr EXCEPT ![s] = 0] /\ UNCHANGED <<os, pc, crit>>
  BY DEF OSSemDelNoPend, Delete, Within, kvars
<1>2. \A x \in Task : os.pendObj[x] # s
  BY <1>1, WaitersAre DEF DInv, IInv, Abs!Waiting
<1>3. os.pendObj = [x \in Task |-> os.pendObj[x]]
  BY DEF DInv, IInv, KInv, KTypeOK, TCBTables
<1>4. UNCHANGED [x \in Task |-> Outcome(x)]
  BY <1>1 DEF Outcome
<1> QED BY <1>1, <1>2, <1>3, <1>4, RunningHandsNothing DEF Abs!Delete

LEMMA SemDelAlwaysMaps ==
  ASSUME DInv, DInv', NEW t \in Task, NEW s \in Obj, OSSemDelAlways(t, s)
  PROVE  Abs!Delete(s)
<1>1. /\ "del" \in Uses /\ Running(t) /\ Goto(t, "sched") /\ UNCHANGED crit
      /\ os' = FoldLeft(OS_PendObjDel, os, os.pend[s]) /\ ctr' = [ctr EXCEPT ![s] = 0]
  BY DEF OSSemDelAlways, Delete, Within
<1>2. Told(os, os', "DEL", s, Waiters(os, s))
  BY <1>1, AllAreTold DEF DInv, IInv, KInv
<1>3. /\ os'.pendObj \in [Task -> Obj \cup {NoObj}] /\ pc \in [Task -> Where]
      /\ NoObj \notin Obj
  BY CoreAssumption DEF DInv, IInv, KInv, KTypeOK, TCBTables
<1>4. ASSUME NEW x \in Task
      PROVE  /\ os'.pendObj[x] = IF os.pendObj[x] = s THEN NoObj ELSE os.pendObj[x]
             /\ Outcome(x)' = IF os.pendObj[x] = s THEN "nothing" ELSE Outcome(x)
  <2>1. InPend(x)' <=> InPend(x)
    BY <1>1, <1>3, RunningAlone DEF Goto, InPend
  <2>2. CASE os.pendObj[x] = s
    <3>1. os'.pendObj[x] = NoObj /\ os'.pendStatus[x] = "DEL"
      BY <1>2, <2>2 DEF Told, Waiters
    <3>2. InPend(x)
      BY <1>3, <2>2 DEF DInv, Places
    <3> QED BY <2>1, <2>2, <3>1, <3>2, OutcomeBecomes DEF DInv, IInv
  <2>3. CASE os.pendObj[x] # s
    <3>1. os'.pendObj[x] = os.pendObj[x] /\ os'.pendStatus[x] = os.pendStatus[x]
      BY <1>2, <2>3 DEF Told, Waiters
    <3> QED BY <2>1, <2>3, <3>1, SameOutcome
  <2> QED BY <2>2, <2>3
<1>5. os'.pendObj = [x \in Task |-> IF os.pendObj[x] = s THEN NoObj ELSE os.pendObj[x]]
  BY <1>3, <1>4
<1>6. [x \in Task |-> Outcome(x)]'
        = [x \in Task |-> IF os.pendObj[x] = s THEN "nothing" ELSE Outcome(x)]
  BY <1>4
<1>7. /\ \A q \in Obj : Handing(q) = 0
      /\ UNCHANGED [q \in Obj |-> Handing(q)]
  BY <1>1, RunningHandsNothing
<1> QED BY <1>1, <1>5, <1>6, <1>7 DEF Abs!Delete

LEMMA SemCreateMaps ==
  ASSUME DInv, DInv', Orderly, NEW t \in Task, NEW s \in Obj, OSSemCreate(t, s)
  PROVE  Abs!Set(s, InitCtr[s])
<1>1. /\ os.pend[s] = << >> /\ ctr' = [ctr EXCEPT ![s] = InitCtr[s]]
      /\ UNCHANGED <<os, pc, crit>>
  BY SemCreateDoes
<1>2. UNCHANGED <<os.pendObj, [x \in Task |-> Outcome(x)], [q \in Obj |-> Handing(q)]>>
  BY <1>1 DEF Outcome, Handing
<1> QED BY <1>1, <1>2, WaitersAre DEF Abs!Set, DInv, IInv

(* Who is deleted, and who is created again, is in no wait.                *)
LEMMA VanishMaps ==
  ASSUME DInv, DInv', NEW t \in Task, NEW u \in Task, "del" \in Uses, Running(t),
         os'.pendObj[u] = NoObj,
         \A x \in Task \ {u} : /\ os'.pendObj[x] = os.pendObj[x]
                             /\ os'.pendStatus[x] = os.pendStatus[x],
         pc' = [pc EXCEPT ![u] = "run", ![t] = "sched"], UNCHANGED <<crit, ctr>>
  PROVE  Abs!Vanish(u)
<1>1. /\ os.pendObj \in [Task -> Obj \cup {NoObj}] /\ os'.pendObj \in [Task -> Obj \cup {NoObj}]
      /\ pc \in [Task -> Where] /\ pc[t] = "run"
  BY RunningAlone DEF DInv, IInv, KInv, KTypeOK, TCBTables
<1>2. os'.pendObj = [os.pendObj EXCEPT ![u] = NoObj]
  BY <1>1
<1>3. ASSUME NEW x \in Task PROVE Outcome(x)' = IF x = u THEN "none" ELSE Outcome(x)
  <2>1. CASE x = u
    BY <1>1, <2>1 DEF Outcome
  <2>2. CASE x # u
    <3>1. InPend(x)' <=> InPend(x)
      BY <1>1, <2>2 DEF InPend
    <3> QED BY <2>2, <3>1, SameOutcome
  <2> QED BY <2>1, <2>2
<1>4. [x \in Task |-> Outcome(x)]' = [[x \in Task |-> Outcome(x)] EXCEPT ![u] = "none"]
  BY <1>3
<1>5. /\ \A q \in Obj : Handing(q) = 0
      /\ UNCHANGED [q \in Obj |-> Handing(q)]
  BY RunningHandsNothing
<1> QED BY <1>2, <1>4, <1>5 DEF Abs!Vanish

LEMMA NextDelMaps ==
  ASSUME DInv, DInv', Orderly, [DelNext]_allvars PROVE [Abs!ANext]_(Abs!avars)
<1>1. CASE OnSemaphores
  BY <1>1, OnSemaphoresMaps
<1>2. ASSUME NEW t \in Task, NEW u \in Task, OSTaskDel(t, u) PROVE Abs!ANext
  <2>1. /\ "del" \in Uses /\ Running(t) /\ u # Idle /\ os' = TaskDelTables(os, u)
        /\ pc' = [pc EXCEPT ![u] = "run", ![t] = "sched"] /\ UNCHANGED <<crit, ctr>>
    BY <1>2 DEF OSTaskDel
  <2>2. Deletes(os, os', u) /\ os \in TCBTables
    BY <2>1, TaskDelTablesGood DEF DInv, IInv, KInv, Good
  <2>3. /\ os'.pendObj[u] = NoObj
        /\ \A x \in Task \ {u} : /\ os'.pendObj[x] = os.pendObj[x]
                               /\ os'.pendStatus[x] = os.pendStatus[x]
    BY <2>2 DEF Deletes, TCBTables
  <2> QED BY <2>1, <2>3, VanishMaps DEF Abs!ANext
<1>3. ASSUME NEW t \in Task, NEW u \in Task, OSTaskCreate(t, u) PROVE Abs!ANext
  <2> DEFINE p   == InitPrio[u]
             new == OS_RdyListInsertTail([os EXCEPT !.state[u] = {}, !.prio[u] = p], u)
  <2>1. /\ "del" \in Uses /\ Running(t) /\ os.state[u] = {"DEL"} /\ os' = new
        /\ pc' = [pc EXCEPT ![u] = "run", ![t] = "sched"] /\ UNCHANGED <<crit, ctr>>
    BY <1>3 DEF OSTaskCreate, Exists
  <2>2. u \in Task \ {Idle} /\ p \in Prio /\ Good(os) /\ os.pendObj[u] = NoObj
    BY <2>1, KernelAssumption DEF DInv, IInv, KInv, Good, IdleReady, PendAgrees
  <2>3. new.pendObj = os.pendObj /\ new.pendStatus = os.pendStatus
    <3> HIDE DEF p
    <3> QED BY <2>1, <2>2, TaskCreateGood, ZenonT(60)
  <2> HIDE DEF new
  <2>4. Abs!Vanish(u)
    BY <2>1, <2>2, <2>3, VanishMaps
  <2> QED BY <2>4 DEF Abs!ANext
<1>4. ASSUME NEW t \in Task, NEW s \in Obj, OSSemDelNoPend(t, s) \/ OSSemDelAlways(t, s)
      PROVE  Abs!ANext
  BY <1>4, SemDelNoPendMaps, SemDelAlwaysMaps DEF Abs!ANext
<1>5. ASSUME NEW t \in Task, NEW s \in Obj, OSSemCreate(t, s) PROVE Abs!ANext
  <2>1. InitCtr[s] \in 0..MaxCtr
    BY SemAssumption
  <2> QED BY <1>5, <2>1, SemCreateMaps DEF Abs!ANext
<1>6. CASE UNCHANGED allvars
  BY <1>6 DEF allvars, vars, kvars, Abs!avars, Outcome, Handing
<1> QED BY <1>1, <1>2, <1>3, <1>4, <1>5, <1>6 DEF DelNext

-----------------------------------------------------------------------------
(* The theorems.                                                           *)

(* Deletion and creation keep every table's and every count's type.        *)
THEOREM DelTypeCorrect == ASSUME NeverLocked, Orderly PROVE DelSpec => []DelTypeOK
<1>1. DInv => DelTypeOK
  BY DEF DInv, IInv, DelTypeOK, CallsAgree
<1> QED BY <1>1, DelInvariance, PTL

(* OSTaskDel() takes a task out of every list, whatever it waited for, and *)
(* OSTaskCreate() puts it back into one: the lists agree with the states   *)
(* while tasks and semaphores come and go, though tasks are preempted      *)
(* between the test of the Type and the critical section.  It takes an     *)
(* orderly application: OSSemCreate() empties the list of a semaphore that *)
(* a task began to wait on after its deletion.                             *)
THEOREM DelTablesAgree == ASSUME NeverLocked, Orderly PROVE DelSpec => []ListsAgree
<1>1. DInv => ListsAgree
  BY KInvTables DEF DInv, IInv, ListsAgree
<1> QED BY <1>1, DelInvariance, PTL

(* Whatever deletions ready or take away, the highest priority runs: a task*)
(* that deletes another, or itself, creates one, or deletes a semaphore    *)
(* tasks wait on, calls the scheduler before it goes on.                   *)
THEOREM DelHighestPriorityRuns ==
  ASSUME NeverLocked, Orderly, AlwaysSched PROVE DelSpec => []HighestRuns
<1>1. DelInit => DInv /\ Dispatched
  BY InitDel, KInitInv DEF DelInit, Init
<1>2. DInv /\ Dispatched /\ [DelNext]_allvars => DInv' /\ Dispatched'
  BY NextDel, StutterDel, NextDelDispatched
<1>3. Dispatched => HighestRuns
  BY DispatchedHighest
<1> QED BY <1>1, <1>2, <1>3, PTL DEF DelSpec

(* The loop of OSSemDel() reaches every waiter, though each iteration      *)
(* changes the list it walks, and no unit is left to the semaphore that is *)
(* created in its place.  It takes an application that deletes with the    *)
(* care os_sem.c:153 asks for: a task that passed the test of the Type     *)
(* before the deletion would wait on what is no semaphore (run DelRace).   *)
THEOREM NothingIsLeft ==
  ASSUME NeverLocked, Careless = {} PROVE DelSpec => []DeletedIsEmpty
<1>1. Orderly
  BY DEF Orderly
<1>2. DInv => DeletedIsEmpty
  BY DEF DInv, LostIsEmpty, Lost, DeletedIsEmpty
<1> QED BY <1>1, <1>2, DelInvariance, PTL

(* A task whose wait a deletion ended reads OS_STATUS_PEND_DEL when it runs*)
(* again, whatever interrupts, timeouts, posts and aborts come in between, *)
(* and though the semaphore may have been created anew.                    *)
THEOREM DeletionIsTold == ASSUME NeverLocked, Orderly PROVE DelSpec => ToldOfDeletion
<1>1. DInv /\ [DelNext]_allvars => [StaysTold]_allvars
  BY NextDel
<1>2. DelSpec => [][StaysTold]_allvars
  BY <1>1, DelInvariance, PTL DEF DelSpec
<1>3. [][StaysTold]_allvars => ToldOfDeletion
  BY DEF ToldOfDeletion, StaysTold
<1> QED BY <1>2, <1>3, PTL

(* Semaphores that come and go implement AbsSem: a deletion takes back no  *)
(* unit that a post handed to a waiter, and ends the waits it finds with   *)
(* nothing; the units of a semaphore are those it was created with.        *)
THEOREM DelSemaphoresKeepPromise ==
  ASSUME NeverLocked, Orderly PROVE DelSpec => ImplementsAbs
<1>1. DelInit => DInv /\ Abs!AInit
  BY InitDel, InitMaps DEF DelInit
<1>2. DInv /\ [DelNext]_allvars => DInv'
  BY NextDel, StutterDel
<1>3. DInv /\ [DelNext]_allvars => [Abs!ANext]_(Abs!avars)
  BY <1>2, NextDelMaps
<1>4. DelInit /\ [][DelNext]_allvars => Abs!AInit /\ [][Abs!ANext]_(Abs!avars)
  BY <1>1, <1>2, <1>3, PTL
<1> QED BY <1>4 DEF DelSpec, ImplementsAbs, Abs!ASpec

-----------------------------------------------------------------------------
(* The task semaphore and the task queue.  The agreement of the pend lists *)
(* does not hold here (see README.md, Findings), so KInv is of no help:    *)
(* what follows rests on nothing but which tables a step of the kernel     *)
(* writes.                                                                 *)

(* The tables that say what a task waits for, and how its wait ended.      *)
Shaped(o) ==
  /\ {"state", "pendOn", "pendStatus"} \subseteq DOMAIN o
  /\ DOMAIN o.state = Task /\ DOMAIN o.pendOn = Task /\ DOMAIN o.pendStatus = Task

WaitKept(o, n) ==
  /\ n.state = o.state /\ n.pendOn = o.pendOn /\ n.pendStatus = o.pendStatus
  /\ DOMAIN n = DOMAIN o

(* Waits end and none begins or turns into another, and the status of a    *)
(* task that does not wait stays.                                          *)
OnlyEnds(o, n) ==
  /\ Shaped(n)
  /\ \A t \in Task :
       /\ "PEND" \in n.state[t] => "PEND" \in o.state[t] /\ n.pendOn[t] = o.pendOn[t]
       /\ "PEND" \notin o.state[t] => n.pendStatus[t] = o.pendStatus[t]

LEMMA KeptOnlyEnds ==
  ASSUME NEW o, NEW n, Shaped(o), WaitKept(o, n)
  PROVE  Shaped(n) /\ OnlyEnds(o, n)
BY DEF Shaped, WaitKept, OnlyEnds

(* The lists and the switch to another task.                               *)
LEMMA ListsKeepWaits ==
  ASSUME NEW o, Shaped(o), NEW t, NEW n, NEW p
  PROVE  /\ WaitKept(o, OS_RdyListInsert(o, t))
         /\ WaitKept(o, OS_RdyListInsertHead(o, t))
         /\ WaitKept(o, OS_RdyListInsertTail(o, t))
         /\ WaitKept(o, OS_RdyListRemove(o, t))
         /\ WaitKept(o, OS_RdyListMoveHeadToTail(o, p))
         /\ WaitKept(o, OS_TASK_SW(o))
         /\ WaitKept(o, OS_TickListInsert(o, t, n))
         /\ WaitKept(o, OS_TickListRemove(o, t))
         /\ WaitKept(o, TickDown(o))
         /\ WaitKept(o, OS_PendListInsertPrio(o, p, t))
         /\ WaitKept(o, OS_PendListRemove(o, t))
         /\ WaitKept(o, [o EXCEPT !.prio[t] = p])
         /\ WaitKept(o, [o EXCEPT !.pend[p] = n])
         /\ WaitKept(o, [o EXCEPT !.pendObj[t] = p])
<1>1. WaitKept(o, OS_RdyListInsertHead(o, t)) /\ WaitKept(o, OS_RdyListInsertTail(o, t))
  BY DEF Shaped, WaitKept, OS_RdyListInsertHead, OS_RdyListInsertTail
<1>2. WaitKept(o, OS_RdyListInsert(o, t))
  BY <1>1 DEF OS_RdyListInsert
<1>3. WaitKept(o, OS_RdyListRemove(o, t))
  BY DEF Shaped, WaitKept, OS_RdyListRemove
<1>4. WaitKept(o, OS_RdyListMoveHeadToTail(o, p))
  BY DEF Shaped, WaitKept, OS_RdyListMoveHeadToTail
<1>5. WaitKept(o, OS_TASK_SW(o))
  BY DEF Shaped, WaitKept, OS_TASK_SW
<1>6. WaitKept(o, OS_TickListInsert(o, t, n)) /\ WaitKept(o, OS_TickListRemove(o, t))
  BY DEF Shaped, WaitKept, OS_TickListInsert, OS_TickListRemove
<1>7. WaitKept(o, TickDown(o))
  BY DEF Shaped, WaitKept, TickDown
<1>8. WaitKept(o, OS_PendListInsertPrio(o, p, t))
  BY DEF Shaped, WaitKept, OS_PendListInsertPrio
<1>9. WaitKept(o, OS_PendListRemove(o, t))
  BY DEF Shaped, WaitKept, OS_PendListRemove
<1>10. /\ WaitKept(o, [o EXCEPT !.prio[t] = p])
       /\ WaitKept(o, [o EXCEPT !.pend[p] = n])
       /\ WaitKept(o, [o EXCEPT !.pendObj[t] = p])
  BY DEF Shaped, WaitKept
<1> QED
  BY <1>1, <1>2, <1>3, <1>4, <1>5, <1>6, <1>7, <1>8, <1>9, <1>10

LEMMA TaskRdyKeepsWaits ==
  ASSUME NEW o, Shaped(o), NEW t
  PROVE  WaitKept(o, OS_TaskRdy(o, t))
<1>1. WaitKept(o, OS_TickListRemove(o, t))
  BY ListsKeepWaits
<1>2. Shaped(OS_TickListRemove(o, t))
  BY <1>1, KeptOnlyEnds
<1>3. WaitKept(OS_TickListRemove(o, t), OS_RdyListInsert(OS_TickListRemove(o, t), t))
  BY <1>2, ListsKeepWaits
<1> QED BY <1>1, <1>3 DEF OS_TaskRdy, WaitKept

(* The end of a wait, of either sort.                                      *)
LEMMA MarkEnds ==
  ASSUME NEW o, NEW n, Shaped(o), WaitKept(o, n), NEW t, NEW status, NEW kind,
         t \in Task => "PEND" \in o.state[t]
  PROVE  OnlyEnds(o, [n EXCEPT !.state[t] = @ \ {"DLY", "PEND"},
                               !.pendStatus[t] = status,
                               !.pendOn[t] = kind])
<1> DEFINE r == [n EXCEPT !.state[t] = @ \ {"DLY", "PEND"},
                          !.pendStatus[t] = status,
                          !.pendOn[t] = kind]
<1>1. /\ DOMAIN r = DOMAIN o
      /\ r.state = [o.state EXCEPT ![t] = @ \ {"DLY", "PEND"}]
      /\ r.pendStatus = [o.pendStatus EXCEPT ![t] = status]
      /\ r.pendOn = [o.pendOn EXCEPT ![t] = kind]
  BY DEF Shaped, WaitKept
<1> HIDE DEF r
<1>2. OnlyEnds(o, r)
  BY <1>1 DEF Shaped, OnlyEnds
<1> QED BY <1>2 DEF r

LEMMA EndPendOnlyEnds ==
  ASSUME NEW o, Shaped(o), NEW t, NEW status
  PROVE  OnlyEnds(o, EndPend(o, t, status))
<1>1. CASE "PEND" \notin o.state[t]
  BY <1>1 DEF EndPend, OnlyEnds
<1>2. CASE "PEND" \in o.state[t]
  <2> DEFINE off == OS_PendListRemove(o, t)
             woken == OS_TaskRdy(off, t)
  <2>1. WaitKept(o, off) /\ Shaped(off)
    BY ListsKeepWaits, KeptOnlyEnds
  <2>2. WaitKept(off, woken)
    BY <2>1, TaskRdyKeepsWaits
  <2>3. WaitKept(o, woken)
    BY <2>1, <2>2 DEF WaitKept
  <2>4. EndPend(o, t, status) = [woken EXCEPT !.state[t] = @ \ {"DLY", "PEND"},
                                              !.pendStatus[t] = status,
                                              !.pendOn[t] = "NOTHING"]
    BY <1>2 DEF EndPend
  <2> HIDE DEF off, woken
  <2>5. OnlyEnds(o, [woken EXCEPT !.state[t] = @ \ {"DLY", "PEND"},
                                  !.pendStatus[t] = status,
                                  !.pendOn[t] = "NOTHING"])
    BY <1>2, <2>3, MarkEnds
  <2> QED BY <2>4, <2>5
<1> QED BY <1>1, <1>2

LEMMA EndOwnPendOnlyEnds ==
  ASSUME NEW o, Shaped(o), NEW t, NEW status
  PROVE  OnlyEnds(o, EndOwnPend(o, t, status))
<1>1. CASE "PEND" \notin o.state[t]
  BY <1>1 DEF EndOwnPend, OnlyEnds
<1>2. CASE "PEND" \in o.state[t]
  <2> DEFINE woken == OS_TaskRdy(o, t)
  <2>1. WaitKept(o, woken)
    BY TaskRdyKeepsWaits
  <2>2. EndOwnPend(o, t, status) = [woken EXCEPT !.state[t] = @ \ {"DLY", "PEND"},
                                                 !.pendStatus[t] = status,
                                                 !.pendOn[t] = "NOTHING"]
    BY <1>2 DEF EndOwnPend
  <2> HIDE DEF woken
  <2>3. OnlyEnds(o, [woken EXCEPT !.state[t] = @ \ {"DLY", "PEND"},
                                  !.pendStatus[t] = status,
                                  !.pendOn[t] = "NOTHING"])
    BY <1>2, <2>1, MarkEnds
  <2> QED BY <2>2, <2>3
<1> QED BY <1>1, <1>2

LEMMA TickExpireOnlyEnds ==
  ASSUME NEW o, Shaped(o), NEW t
  PROVE  OnlyEnds(o, TickExpire(o, t))
<1>1. CASE "PEND" \in o.state[t]
  BY <1>1, EndPendOnlyEnds DEF TickExpire
<1>2. CASE "PEND" \notin o.state[t]
  <2> DEFINE rdy == OS_TaskRdy(o, t)
             new == [rdy EXCEPT !.state[t] = @ \ {"DLY"}]
  <2>1. WaitKept(o, rdy)
    BY TaskRdyKeepsWaits
  <2>2. TickExpire(o, t) = new
    BY <1>2 DEF TickExpire
  <2> HIDE DEF rdy
  <2>3. /\ DOMAIN new = DOMAIN o
        /\ new.state = [o.state EXCEPT ![t] = @ \ {"DLY"}]
        /\ new.pendStatus = o.pendStatus /\ new.pendOn = o.pendOn
    BY <2>1 DEF Shaped, WaitKept
  <2> HIDE DEF new
  <2> QED BY <2>2, <2>3 DEF Shaped, OnlyEnds
<1> QED BY <1>1, <1>2

(* The task services change at most the state of the task they are about.  *)
LEMMA StateOnlyEnds ==
  ASSUME NEW o, NEW n, Shaped(o), DOMAIN n = DOMAIN o,
         n.pendOn = o.pendOn, n.pendStatus = o.pendStatus, DOMAIN n.state = Task,
         \A t \in Task : "PEND" \in n.state[t] => "PEND" \in o.state[t]
  PROVE  OnlyEnds(o, n)
BY DEF Shaped, OnlyEnds

LEMMA SuspendOnlyEnds ==
  ASSUME NEW o, Shaped(o), NEW u
  PROVE  OnlyEnds(o, OS_TaskSuspend(o, u))
<1> DEFINE marked == [o EXCEPT !.state[u] = @ \cup {"SUSPENDED"}, !.susp[u] = @ + 1]
<1>1. /\ DOMAIN marked = DOMAIN o
      /\ marked.state = [o.state EXCEPT ![u] = @ \cup {"SUSPENDED"}]
      /\ marked.pendOn = o.pendOn /\ marked.pendStatus = o.pendStatus
  BY DEF Shaped
<1>2. OS_TaskSuspend(o, u) = IF o.state[u] = {} THEN OS_RdyListRemove(marked, u) ELSE marked
  BY DEF OS_TaskSuspend
<1> HIDE DEF marked
<1>3. Shaped(marked)
  BY <1>1 DEF Shaped
<1>4. WaitKept(marked, OS_TaskSuspend(o, u))
  BY <1>2, <1>3, ListsKeepWaits DEF WaitKept
<1>5. \A t \in Task : "PEND" \in marked.state[t] => "PEND" \in o.state[t]
  BY <1>1 DEF Shaped
<1> QED BY <1>1, <1>3, <1>4, <1>5, StateOnlyEnds DEF WaitKept, Shaped

LEMMA ResumeOnlyEnds ==
  ASSUME NEW o, Shaped(o), NEW u
  PROVE  OnlyEnds(o, OS_TaskResume(o, u))
<1> DEFINE less   == [o EXCEPT !.susp[u] = @ - 1]
           active == [less EXCEPT !.state[u] = @ \ {"SUSPENDED"}]
           new    == OS_TaskResume(o, u)
<1>1. WaitKept(o, less)
  BY DEF Shaped, WaitKept
<1>2. /\ DOMAIN active = DOMAIN o
      /\ active.state = [o.state EXCEPT ![u] = @ \ {"SUSPENDED"}]
      /\ active.pendOn = o.pendOn /\ active.pendStatus = o.pendStatus
  BY DEF Shaped
<1>3. new \in {o, less, active, OS_TaskRdy(active, u)}
  BY DEF OS_TaskResume
<1> HIDE DEF less, active, new
<1>4. Shaped(active)
  BY <1>2 DEF Shaped
<1>5. WaitKept(o, new) \/ WaitKept(active, new)
  BY <1>1, <1>3, <1>4, TaskRdyKeepsWaits DEF WaitKept
<1>6. \A t \in Task : "PEND" \in active.state[t] => "PEND" \in o.state[t]
  BY <1>2 DEF Shaped
<1>7. CASE WaitKept(o, new)
  BY <1>7, KeptOnlyEnds DEF new
<1>8. CASE WaitKept(active, new)
  BY <1>2, <1>4, <1>6, <1>8, StateOnlyEnds DEF WaitKept, Shaped, new
<1> QED BY <1>5, <1>7, <1>8

LEMMA ChangePrioOnlyEnds ==
  ASSUME NEW o, Shaped(o), NEW u, NEW p, NEW self
  PROVE  OnlyEnds(o, ChangePrio(o, u, p, self))
<1> DEFINE out   == OS_RdyListRemove(o, u)
           moved == [out EXCEPT !.prio[u] = p]
           set   == [o EXCEPT !.prio[u] = p]
           unlinked == [set EXCEPT !.pend[o.pendObj[u]] = Without(@, u)]
           new   == ChangePrio(o, u, p, self)
<1>1. WaitKept(o, out) /\ WaitKept(o, set)
  BY ListsKeepWaits
<1>2. new \in {OS_RdyListInsertHead(moved, u), OS_RdyListInsertTail(moved, u),
               OS_PendListChangePrio(o, u, p), set}
  BY DEF ChangePrio
<1>3. OS_PendListChangePrio(o, u, p) \in {set, OS_PendListInsertPrio(unlinked, o.pendObj[u], u)}
  BY DEF OS_PendListChangePrio
<1>4. WaitKept(o, unlinked)
  BY DEF Shaped, WaitKept
<1> HIDE DEF out, set, new, unlinked
<1>5. WaitKept(o, moved)
  BY <1>1 DEF Shaped, WaitKept
<1> HIDE DEF moved
<1>6. Shaped(moved) /\ Shaped(unlinked)
  BY <1>4, <1>5, KeptOnlyEnds
<1>7. /\ WaitKept(moved, OS_RdyListInsertHead(moved, u))
      /\ WaitKept(moved, OS_RdyListInsertTail(moved, u))
      /\ WaitKept(unlinked, OS_PendListInsertPrio(unlinked, o.pendObj[u], u))
  BY <1>6, ListsKeepWaits
<1>8. WaitKept(o, new)
  BY <1>1, <1>2, <1>3, <1>4, <1>5, <1>7 DEF WaitKept
<1> QED BY <1>8, KeptOnlyEnds DEF new

LEMMA DelayOnlyEnds ==
  ASSUME NEW o, Shaped(o), NEW t, NEW n
  PROVE  OnlyEnds(o, Delay(o, t, n))
<1> DEFINE late == [o EXCEPT !.state[t] = {"DLY"}]
           ticking == OS_TickListInsert(late, t, n)
           new == Delay(o, t, n)
<1>1. /\ DOMAIN late = DOMAIN o
      /\ late.state = [o.state EXCEPT ![t] = {"DLY"}]
      /\ late.pendOn = o.pendOn /\ late.pendStatus = o.pendStatus
  BY DEF Shaped
<1>2. new = OS_RdyListRemove(ticking, t)
  BY DEF Delay
<1> HIDE DEF late, new
<1>3. Shaped(late)
  BY <1>1 DEF Shaped
<1>4. WaitKept(late, ticking) /\ Shaped(ticking)
  BY <1>3, ListsKeepWaits, KeptOnlyEnds
<1> HIDE DEF ticking
<1>5. WaitKept(ticking, new)
  BY <1>2, <1>4, ListsKeepWaits
<1>6. \A u \in Task : "PEND" \in late.state[u] => "PEND" \in o.state[u]
  BY <1>1 DEF Shaped
<1>7. OnlyEnds(o, new)
  BY <1>1, <1>3, <1>4, <1>5, <1>6, StateOnlyEnds DEF WaitKept, Shaped
<1> QED BY <1>7 DEF new

(* Whatever the kernel does, it begins no wait.                            *)
LEMMA KNextOnlyEnds ==
  ASSUME Shaped(os), KNext
  PROVE  OnlyEnds(os, os')
<1>1. WaitKept(os, os) /\ WaitKept(os, OS_TASK_SW(os)) /\ WaitKept(os, TickDown(os))
      /\ \A p : WaitKept(os, OS_RdyListMoveHeadToTail(os, p))
  BY ListsKeepWaits DEF WaitKept
<1>2. CASE OSIntEnter \/ OSIntExit \/ OS_SchedRoundRobin \/ OS_TickListUpdate
           \/ OS_TickTaskPend
  <2>1. WaitKept(os, os')
    BY <1>1, <1>2
    DEF OSIntEnter, OSIntExit, OS_SchedRoundRobin, OS_TickListUpdate, OS_TickTaskPend
  <2> QED BY <2>1, KeptOnlyEnds
<1>3. CASE PendListLoop
  BY <1>3, EndPendOnlyEnds DEF PendListLoop, OS_Post, OS_PendAbort
<1>4. ASSUME NEW t \in Task,
             OSSched(t) \/ OSSchedLock(t) \/ OSSchedUnlock(t) \/ OSSchedRoundRobinYield(t)
             \/ \E o \in Obj, opt \in Options : PendAbort(t, o, opt)
      PROVE  OnlyEnds(os, os')
  <2>1. WaitKept(os, os')
    BY <1>1, <1>4
    DEF OSSched, OSSchedLock, OSSchedUnlock, OSSchedRoundRobinYield, PendAbort
  <2> QED BY <2>1, KeptOnlyEnds
<1>5. ASSUME NEW t \in Task, OS_TickListUpdateLoop(t)
      PROVE  OnlyEnds(os, os')
  BY <1>5, TickExpireOnlyEnds DEF OS_TickListUpdateLoop
<1>6. ASSUME NEW t \in Task, NEW n \in 1..MaxDly, OSTimeDly(t, n)
      PROVE  OnlyEnds(os, os')
  BY <1>6, DelayOnlyEnds DEF OSTimeDly
<1>7. ASSUME NEW t \in Task, NEW u \in Task, OSTaskSuspend(t, u) \/ OSTaskResume(t, u)
      PROVE  OnlyEnds(os, os')
  BY <1>7, SuspendOnlyEnds, ResumeOnlyEnds DEF OSTaskSuspend, OSTaskResume
<1>8. ASSUME NEW t \in Task, NEW u \in Task,
             \E p \in Prio, self \in BOOLEAN : OSTaskChangePrio(t, u, p, self)
      PROVE  OnlyEnds(os, os')
  <2>1. \E p, self : os' = ChangePrio(os, u, p, self)
    BY <1>8, Zenon DEF OSTaskChangePrio
  <2> QED BY <2>1, ChangePrioOnlyEnds
<1> QED
  BY <1>2, <1>3, <1>4, <1>5, <1>6, <1>7, <1>8 DEF KNext, KStep, KCall

(* A wait of t for something of a kind begins; the others stay.            *)
Begins(o, n, t, kind) ==
  /\ Shaped(n)
  /\ n.pendOn[t] = kind
  /\ \A u \in Task \ {t} : /\ n.state[u] = o.state[u]
                           /\ n.pendOn[u] = o.pendOn[u]
                           /\ n.pendStatus[u] = o.pendStatus[u]

LEMMA BlockBegins ==
  ASSUME NEW o, Shaped(o), NEW t \in Task, NEW kind, NEW obj, NEW timeout
  PROVE  Begins(o, OS_TaskBlock([o EXCEPT !.pendOn[t] = kind,
                                          !.pendStatus[t] = "OK",
                                          !.pendObj[t] = obj], t, timeout), t, kind)
<1> DEFINE asks == [o EXCEPT !.pendOn[t] = kind, !.pendStatus[t] = "OK", !.pendObj[t] = obj]
           bits == IF timeout > 0 THEN {"DLY", "PEND"} ELSE {"PEND"}
           ticking == OS_TickListInsert(asks, t, timeout)
           waits == [ticking EXCEPT !.state[t] = bits]
           new == OS_TaskBlock(asks, t, timeout)
<1>1. /\ DOMAIN asks = DOMAIN o /\ asks.state = o.state
      /\ asks.pendOn = [o.pendOn EXCEPT ![t] = kind]
      /\ asks.pendStatus = [o.pendStatus EXCEPT ![t] = "OK"]
  BY DEF Shaped
<1>2. new = OS_RdyListRemove(waits, t)
  BY DEF OS_TaskBlock
<1> HIDE DEF asks, bits, new
<1>3. WaitKept(asks, ticking)
  BY <1>1, ListsKeepWaits DEF Shaped
<1> HIDE DEF ticking
<1>4. /\ DOMAIN waits = DOMAIN o /\ waits.state = [o.state EXCEPT ![t] = bits]
      /\ waits.pendOn = asks.pendOn /\ waits.pendStatus = asks.pendStatus
  BY <1>1, <1>3 DEF Shaped, WaitKept
<1> HIDE DEF waits
<1>5. Shaped(waits)
  BY <1>1, <1>4 DEF Shaped
<1>6. WaitKept(waits, new) /\ Shaped(new)
  BY <1>2, <1>5, ListsKeepWaits, KeptOnlyEnds
<1>7. Begins(o, new, t, kind)
  BY <1>1, <1>4, <1>6 DEF Begins, WaitKept, Shaped
<1> QED BY <1>7 DEF new, asks

LEMMA PendBegins ==
  ASSUME Shaped(os), NEW t \in Task, os.cur = t, NEW kind, NEW timeout
  PROVE  /\ Begins(os, OS_PendOwn(os, kind, timeout), t, kind)
         /\ \A o : Begins(os, OS_Pend(os, o, kind, timeout), t, kind)
<1>1. Begins(os, OS_PendOwn(os, kind, timeout), t, kind)
  BY BlockBegins DEF OS_PendOwn
<1>2. ASSUME NEW o PROVE Begins(os, OS_Pend(os, o, kind, timeout), t, kind)
  <2> DEFINE blocked == OS_TaskBlock([os EXCEPT !.pendOn[t] = kind,
                                                !.pendStatus[t] = "OK",
                                                !.pendObj[t] = o], t, timeout)
             new == OS_Pend(os, o, kind, timeout)
  <2>1. Begins(os, blocked, t, kind)
    BY BlockBegins
  <2>2. new = OS_PendListInsertPrio(blocked, o, t)
    BY DEF OS_Pend
  <2> HIDE DEF blocked, new
  <2>3. WaitKept(blocked, new) /\ Shaped(new)
    BY <2>1, <2>2, ListsKeepWaits, KeptOnlyEnds DEF Begins
  <2>4. Begins(os, new, t, kind)
    BY <2>1, <2>3 DEF Begins, WaitKept
  <2> QED BY <2>4 DEF new
<1> QED BY <1>1, <1>2

-----------------------------------------------------------------------------
(* OSTaskSemSet() is "called to clear the signal counter" (os_task.c:1553):*)
(* it does not look whether the task waits, and a count it sets would be   *)
(* left behind.                                                            *)
OnlyCleared == SetCounts \subseteq {0}

SyncShape ==
  /\ Shaped(os)
  /\ DOMAIN semCtr = Task /\ DOMAIN msgQ = Task /\ DOMAIN got = Task

SInv == SyncShape /\ (OnlyCleared => NothingLeftBehind)

WaitStands ==
  \A t \in Task : Ended(t) /\ Ended(t)' =>
    os'.pendStatus[t] = os.pendStatus[t] /\ got'[t] = got[t]

LEMMA InitSync == SyncInit => SInv
<1> SUFFICES ASSUME SyncInit PROVE SInv
  OBVIOUS
<1>1. PICK lists : os = OS_TASK_SW(InitTables(lists))
  BY Zenon DEF SyncInit, Init, KInit
<1> DEFINE first == InitTables(lists)
<1>2. Shaped(first) /\ \A t \in Task : first.state[t] = {}
  BY DEF InitTables, Shaped
<1> HIDE DEF first
<1>3. WaitKept(first, os)
  BY <1>1, <1>2, ListsKeepWaits DEF first
<1>4. Shaped(os) /\ \A t \in Task : "PEND" \notin os.state[t]
  BY <1>2, <1>3, KeptOnlyEnds DEF WaitKept
<1> QED BY <1>4 DEF SyncInit, SInv, SyncShape, NothingLeftBehind, WaitsFor

(* What a step has to show: it only ends waits, and who waits still has    *)
(* nothing.                                                                *)
LEMMA EndingStep ==
  ASSUME SInv, OnlyEnds(os, os'),
         DOMAIN semCtr' = Task, DOMAIN msgQ' = Task, DOMAIN got' = Task,
         OnlyCleared => \A t \in Task :
           /\ WaitsFor(t, "TASK_SEM") => semCtr'[t] = semCtr[t] \/ semCtr'[t] = 0
           /\ WaitsFor(t, "TASK_Q") => msgQ'[t] = msgQ[t] \/ msgQ'[t] = << >>,
         \A t \in Task : "PEND" \notin os.state[t] => got'[t] = got[t]
  PROVE  SInv' /\ WaitStands
<1>1. Shaped(os)'
  BY DEF OnlyEnds, Shaped
<1>2. \A t \in Task : \A kind : WaitsFor(t, kind)' => WaitsFor(t, kind)
  BY DEF OnlyEnds, WaitsFor
<1>3. OnlyCleared => NothingLeftBehind'
  BY <1>2 DEF SInv, NothingLeftBehind
<1>4. WaitStands
  BY DEF WaitStands, Ended, OnlyEnds
<1> QED BY <1>1, <1>3, <1>4 DEF SInv, SyncShape, OnlyCleared

(* A task in application code begins to wait with nothing there for it.    *)
LEMMA BeginningStep ==
  ASSUME SInv, NEW t \in Task, pc[t] = "run", NEW kind, Begins(os, os', t, kind),
         kind = "TASK_SEM" => semCtr[t] = 0,
         kind = "TASK_Q" => msgQ[t] = << >>,
         UNCHANGED <<semCtr, msgQ>>, DOMAIN got' = Task,
         \A u \in Task : "PEND" \notin os.state[u] => got'[u] = got[u]
  PROVE  SInv' /\ WaitStands
<1>1. Shaped(os)'
  BY DEF Begins, Shaped
<1>2. \A u \in Task \ {t} : \A k : WaitsFor(u, k)' => WaitsFor(u, k)
  BY DEF Begins, WaitsFor
<1>3. \A k : WaitsFor(t, k)' => k = kind
  BY DEF Begins, WaitsFor
<1>4. OnlyCleared => NothingLeftBehind'
  BY <1>2, <1>3 DEF SInv, NothingLeftBehind
<1>5. WaitStands
  BY DEF WaitStands, Ended, Begins
<1> QED BY <1>1, <1>4, <1>5 DEF SInv, SyncShape, OnlyCleared

LEMMA SyncStep ==
  ASSUME SInv, [SyncNext]_syncvars
  PROVE  SInv' /\ WaitStands
<1> DEFINE Holds == SInv' /\ WaitStands
<1> SUFFICES Holds
  OBVIOUS
<1>0. Shaped(os) /\ DOMAIN semCtr = Task /\ DOMAIN msgQ = Task /\ DOMAIN got = Task
  BY DEF SInv, SyncShape
<1>1. WaitKept(os, os) /\ OnlyEnds(os, os)
  BY <1>0, KeptOnlyEnds DEF WaitKept
<1>2. CASE UNCHANGED syncvars
  BY <1>0, <1>1, <1>2, EndingStep DEF syncvars, svars, vars, kvars
<1>3. CASE Next /\ TimeoutMsgPtrs /\ UNCHANGED <<semCtr, msgQ, victim>>
  <2>1. /\ DOMAIN got' = Task
        /\ \A t \in Task : "PEND" \notin os.state[t] => got'[t] = got[t]
    BY <1>3 DEF TimeoutMsgPtrs
  <2>2. ASSUME OnlyEnds(os, os') PROVE Holds
    BY <1>0, <1>3, <2>1, <2>2, EndingStep
  <2>3. CASE KNext
    BY <1>0, <2>2, <2>3, KNextOnlyEnds
  <2>4. ASSUME NEW s \in Obj, NEW opt \in Options, OSSemPost(s, opt) PROVE Holds
    BY <1>1, <2>2, <2>4 DEF OSSemPost, OS_SemPost
  <2>5. ASSUME NEW s \in Obj, NEW t \in Task, NEW timeout \in Timeouts,
               OSSemPend(t, s, timeout)
        PROVE  Holds
    <3>1. CASE os' = os
      BY <1>1, <2>2, <3>1
    <3>2. CASE os' = OS_Pend(os, s, "SEM", timeout)
      <4>1. os.cur = t /\ pc[t] = "run"
        BY <2>5 DEF OSSemPend, Running
      <4>2. Begins(os, os', t, "SEM")
        BY <1>0, <3>2, <4>1, PendBegins
      <4> QED BY <1>3, <2>1, <4>1, <4>2, BeginningStep
    <3> QED BY <2>5, <3>1, <3>2 DEF OSSemPend
  <2>6. ASSUME NEW s \in Obj, NEW t \in Task, NEW cnt \in 0..MaxCtr, OSSemSet(t, s, cnt)
        PROVE  Holds
    BY <1>1, <2>2, <2>6 DEF OSSemSet, kvars
  <2>7. ASSUME NEW t \in Task, OSSemPendReturn(t) PROVE Holds
    BY <1>1, <2>2, <2>7 DEF OSSemPendReturn
  <2> QED BY <1>3, <2>3, <2>4, <2>5, <2>6, <2>7 DEF Next
<1>4. ASSUME NEW t \in Task, NEW timeout \in Timeouts, OSTaskSemPend(t, timeout)
      PROVE  Holds
  <2>1. os.cur = t /\ pc[t] = "run" /\ UNCHANGED <<msgQ, got>>
    BY <1>4 DEF OSTaskSemPend, Running
  <2>2. CASE semCtr[t] > 0 /\ semCtr' = [semCtr EXCEPT ![t] = @ - 1] /\ UNCHANGED os
    <3>1. OnlyCleared => ~WaitsFor(t, "TASK_SEM")
      BY <2>2 DEF SInv, NothingLeftBehind
    <3>2. OnlyCleared => \A u \in Task : WaitsFor(u, "TASK_SEM") => semCtr'[u] = semCtr[u]
      BY <1>0, <2>2, <3>1
    <3> QED BY <1>0, <1>1, <2>1, <2>2, <3>2, EndingStep
  <2>3. CASE /\ semCtr[t] = 0 /\ UNCHANGED semCtr
             /\ os' = OS_PendOwn(os, "TASK_SEM", timeout)
    <3>1. Begins(os, os', t, "TASK_SEM")
      BY <1>0, <2>1, <2>3, PendBegins
    <3> QED BY <1>0, <2>1, <2>3, <3>1, BeginningStep
  <2> QED BY <1>4, <2>2, <2>3 DEF OSTaskSemPend
<1>5. ASSUME NEW u \in Task, NEW opt \in Options, OSTaskSemPost(u, opt) PROVE Holds
  <2>1. UNCHANGED msgQ
    BY <1>5 DEF OSTaskSemPost
  <2>2. CASE /\ WaitsFor(u, "TASK_SEM") /\ os' = EndOwnPend(os, u, "OK")
             /\ got' = [got EXCEPT ![u] = NoMsg] /\ UNCHANGED semCtr
    <3>1. OnlyEnds(os, os')
      BY <1>0, <2>2, EndOwnPendOnlyEnds
    <3>2. \A t \in Task : "PEND" \notin os.state[t] => got'[t] = got[t]
      BY <1>0, <2>2 DEF WaitsFor
    <3> QED BY <1>0, <2>1, <2>2, <3>1, <3>2, EndingStep
  <2>3. CASE /\ ~WaitsFor(u, "TASK_SEM") /\ UNCHANGED <<os, got>>
             /\ semCtr' = [semCtr EXCEPT ![u] = @ + 1]
    <3>1. \A t \in Task : WaitsFor(t, "TASK_SEM") => semCtr'[t] = semCtr[t]
      BY <1>0, <2>3
    <3> QED BY <1>0, <1>1, <2>1, <2>3, <3>1, EndingStep
  <2> QED BY <1>5, <2>2, <2>3 DEF OSTaskSemPost
<1>6. ASSUME NEW t \in Task, NEW u \in Task, NEW cnt \in SetCounts, OSTaskSemSet(t, u, cnt)
      PROVE  Holds
  <2>1. UNCHANGED <<os, msgQ, got>> /\ semCtr' = [semCtr EXCEPT ![u] = cnt]
    BY <1>6 DEF OSTaskSemSet, vars, kvars
  <2>2. OnlyCleared => \A v \in Task : semCtr'[v] = semCtr[v] \/ semCtr'[v] = 0
    BY <1>0, <2>1 DEF OnlyCleared
  <2> QED BY <1>0, <1>1, <2>1, <2>2, EndingStep
<1>7. ASSUME NEW t \in Task, NEW u \in Task, OSTaskSemPendAbort(t, u) PROVE Holds
  BY <1>0, <1>1, <1>7, EndingStep DEF OSTaskSemPendAbort
<1>8. ASSUME NEW u, os' = EndOwnPend(os, u, "ABORT"), UNCHANGED <<semCtr, msgQ>>,
             got' = IF "PEND" \in os.state[u] THEN [got EXCEPT ![u] = NoMsg] ELSE got
      PROVE  Holds
  <2>1. OnlyEnds(os, os')
    BY <1>0, <1>8, EndOwnPendOnlyEnds
  <2>2. DOMAIN got' = Task /\ \A t \in Task : "PEND" \notin os.state[t] => got'[t] = got[t]
    BY <1>0, <1>8
  <2> QED BY <1>0, <1>8, <2>1, <2>2, EndingStep
<1>9. ASSUME NEW t \in Task, NEW opt \in Options, OSTaskSemPendAbort2(t, opt) PROVE Holds
  BY <1>8, <1>9 DEF OSTaskSemPendAbort2
<1>10. ASSUME NEW t \in Task, NEW u \in Task, NEW opt \in Options, OSTaskQPendAbort(t, u, opt)
       PROVE  Holds
  BY <1>8, <1>10 DEF OSTaskQPendAbort
<1>11. ASSUME NEW t \in Task, NEW timeout \in Timeouts, OSTaskQPend(t, timeout)
       PROVE  Holds
  <2>1. os.cur = t /\ pc[t] = "run" /\ UNCHANGED <<semCtr, got>>
    BY <1>11 DEF OSTaskQPend, Running
  <2>2. CASE msgQ[t] # << >> /\ msgQ' = [msgQ EXCEPT ![t] = Tail(@)] /\ UNCHANGED os
    <3>1. OnlyCleared => ~WaitsFor(t, "TASK_Q")
      BY <2>2 DEF SInv, NothingLeftBehind
    <3>2. OnlyCleared => \A u \in Task : WaitsFor(u, "TASK_Q") => msgQ'[u] = msgQ[u]
      BY <1>0, <2>2, <3>1
    <3> QED BY <1>0, <1>1, <2>1, <2>2, <3>2, EndingStep
  <2>3. CASE /\ msgQ[t] = << >> /\ UNCHANGED msgQ
             /\ os' = OS_PendOwn(os, "TASK_Q", timeout)
    <3>1. Begins(os, os', t, "TASK_Q")
      BY <1>0, <2>1, <2>3, PendBegins
    <3> QED BY <1>0, <2>1, <2>3, <3>1, BeginningStep
  <2> QED BY <1>11, <2>2, <2>3 DEF OSTaskQPend
<1>12. ASSUME NEW u \in Task, NEW m \in Msg, NEW lifo \in BOOLEAN, NEW opt \in Options,
              OSTaskQPost(u, m, lifo, opt)
       PROVE  Holds
  <2>1. UNCHANGED semCtr
    BY <1>12 DEF OSTaskQPost
  <2>2. CASE /\ WaitsFor(u, "TASK_Q") /\ os' = EndOwnPend(os, u, "OK")
             /\ got' = [got EXCEPT ![u] = m] /\ UNCHANGED msgQ
    <3>1. OnlyEnds(os, os')
      BY <1>0, <2>2, EndOwnPendOnlyEnds
    <3>2. \A t \in Task : "PEND" \notin os.state[t] => got'[t] = got[t]
      BY <1>0, <2>2 DEF WaitsFor
    <3> QED BY <1>0, <2>1, <2>2, <3>1, <3>2, EndingStep
  <2>3. CASE /\ ~WaitsFor(u, "TASK_Q") /\ UNCHANGED <<os, got>>
             /\ \E q : msgQ' = [msgQ EXCEPT ![u] = q]
    <3>1. DOMAIN msgQ' = Task /\ \A t \in Task : WaitsFor(t, "TASK_Q") => msgQ'[t] = msgQ[t]
      BY <1>0, <2>3
    <3> QED BY <1>0, <1>1, <2>1, <2>3, <3>1, EndingStep
  <2>4. \/ /\ WaitsFor(u, "TASK_Q") /\ os' = EndOwnPend(os, u, "OK")
           /\ got' = [got EXCEPT ![u] = m] /\ UNCHANGED msgQ
        \/ /\ ~WaitsFor(u, "TASK_Q") /\ UNCHANGED <<os, got>>
           /\ \E q : msgQ' = [msgQ EXCEPT ![u] = q]
    BY <1>12, Zenon DEF OSTaskQPost
  <2> QED BY <2>2, <2>3, <2>4
<1>13. ASSUME NEW t \in Task, NEW u \in Task, OSTaskQFlush(t, u) PROVE Holds
  <2>1. UNCHANGED <<os, semCtr, got>> /\ msgQ' = [msgQ EXCEPT ![u] = << >>]
    BY <1>13 DEF OSTaskQFlush, vars, kvars
  <2>2. \A v \in Task : msgQ'[v] = msgQ[v] \/ msgQ'[v] = << >>
    BY <1>0, <2>1
  <2> QED BY <1>0, <1>1, <2>1, <2>2, EndingStep
<1> HIDE DEF Holds
<1> QED
  BY <1>2, <1>3, <1>4, <1>5, <1>6, <1>7, <1>9, <1>10, <1>11, <1>12, <1>13 DEF SyncNext

LEMMA SyncInvariance == SyncSpec => []SInv
<1>1. SInv /\ [SyncNext]_syncvars => SInv'
  BY SyncStep
<1> QED BY <1>1, InitSync, PTL DEF SyncSpec

(* No signal and no message is left behind: a task that waits for its      *)
(* semaphore or its queue has nothing there, whatever posts, flushes,      *)
(* aborts, timeouts and suspensions come before.                           *)
THEOREM SignalsAreTaken ==
  ASSUME OnlyCleared PROVE SyncSpec => []NothingLeftBehind
<1>1. SInv => NothingLeftBehind
  BY DEF SInv
<1> QED BY <1>1, SyncInvariance, PTL

(* How a wait ended stands until the task learns of it: neither a late     *)
(* abort nor a timeout after a post takes the place of what came first.    *)
THEOREM OutcomesStand == SyncSpec => EndedWaitStands
<1>1. SInv /\ [SyncNext]_syncvars => [WaitStands]_syncvars
  BY SyncStep
<1>2. [][WaitStands]_syncvars => EndedWaitStands
  BY PTL DEF WaitStands, EndedWaitStands
<1> QED BY <1>1, <1>2, SyncInvariance, PTL DEF SyncSpec
=============================================================================
