------------------------------- MODULE OSCore -------------------------------
(***************************************************************************)
(* The data of the uC/OS-III kernel (os_core.c, os_prio.c, os_tick.c) and  *)
(* the internal functions every kernel object is built from.  The kernel's *)
(* tables are one record, called os throughout:                            *)
(*                                                                         *)
(*   state[t]      TaskState as the set of its bits (os.h:191-207): {} is  *)
(*                 RDY, {"DLY","PEND"} is PEND_TIMEOUT, and so on; {"DEL"} *)
(*                 is DEL                                                  *)
(*   prio[t]       Prio; a smaller number is a higher priority             *)
(*   pendOn[t]     PendOn, the kind of object the task pends on            *)
(*   pendObj[t]    the object in the task's one-entry pend table           *)
(*                 (PendDataTblPtr), NoObj when the table is empty         *)
(*   pendStatus[t] PendStatus, how the last pend ended                     *)
(*   tick[t]       ticks until the delay or timeout expires, 0 when the    *)
(*                 task is not in the tick list                            *)
(*   susp[t]       SuspendCtr                                              *)
(*   rdy[p]        OSRdyList[p], head first                                *)
(*   pend[o]       the object's pend list, head first                      *)
(*   cur, prioCur  OSTCBCurPtr and OSPrioCur                               *)
(*                                                                         *)
(* Every operator maps the record before a C function to the record after  *)
(* it.  Doubly linked lists are sequences.                                 *)
(***************************************************************************)
EXTENDS Naturals, SequencesExt

CONSTANTS Task,      \* application tasks and the idle task
          Idle,      \* the idle task: always ready, lowest priority
          TickTask,  \* the tick task, which owns the tick list
          PrioMax,   \* OS_CFG_PRIO_MAX - 1, the idle task's priority
          Obj,       \* kernel objects that have a pend list
          NoObj,     \* the null pointer to such an object
          MaxDly,    \* bound: the longest delay or timeout used
          MaxSusp    \* bound on nested suspensions (the code: 8 bits)

ASSUME CoreAssumption ==
  /\ IsFiniteSet(Task) /\ Idle \in Task
  /\ TickTask \notin Task
  /\ PrioMax \in Nat
  /\ NoObj \notin Obj
  /\ MaxDly \in Nat /\ MaxSusp \in Nat

Prio == 0..PrioMax
TaskStates == (SUBSET {"DLY", "PEND", "SUSPENDED"}) \cup {{"DEL"}}
PendKind == {"NOTHING", "FLAG", "MUTEX", "Q", "SEM", "TASK_Q", "TASK_SEM"}
Status == {"OK", "ABORT", "DEL", "TIMEOUT"}
NoPrio == PrioMax + 1   \* the tick task's priority: no application task has it

TCBTables ==
  [state      : [Task -> TaskStates],
   prio       : [Task -> Prio],
   pendOn     : [Task -> PendKind],
   pendObj    : [Task -> Obj \cup {NoObj}],
   pendStatus : [Task -> Status],
   tick       : [Task -> 0..MaxDly],
   susp       : [Task -> 0..MaxSusp],
   rdy        : [Prio -> Seq(Task)],
   pend       : [Obj -> Seq(Task)],
   cur        : Task \cup {TickTask},
   prioCur    : Prio \cup {NoPrio}]

-----------------------------------------------------------------------------
(* The ready list.                                                         *)

OS_RdyListInsertHead(os, t) == [os EXCEPT !.rdy[os.prio[t]] = <<t>> \o @]

OS_RdyListInsertTail(os, t) == [os EXCEPT !.rdy[os.prio[t]] = Append(@, t)]

OS_RdyListInsert(os, t) ==
  IF os.prio[t] = os.prioCur THEN OS_RdyListInsertTail(os, t)
                             ELSE OS_RdyListInsertHead(os, t)

(* Without(s, t) is the list s after t was unlinked.  A task whose links   *)
(* are null is taken for the only entry: the whole list goes.              *)
Without(s, t) ==
  IF \E i \in DOMAIN s : s[i] = t
  THEN RemoveAt(s, CHOOSE i \in DOMAIN s : s[i] = t)
  ELSE << >>

OS_RdyListRemove(os, t) == [os EXCEPT !.rdy[os.prio[t]] = Without(@, t)]

OS_RdyListMoveHeadToTail(os, p) ==
  IF Len(os.rdy[p]) < 2 THEN os
  ELSE [os EXCEPT !.rdy[p] = Append(Tail(@), Head(@))]

OS_PrioGetHighest(os) ==
  CHOOSE p \in Prio : /\ os.rdy[p] # << >>
                      /\ \A q \in Prio : q < p => os.rdy[q] = << >>

OSTCBHighRdy(os) == Head(os.rdy[OS_PrioGetHighest(os)])

(* What OSSched() and OSIntExit() do once they may switch: nothing, not    *)
(* even to OSPrioCur, when the task to run is the one that runs.           *)
OS_TASK_SW(os) ==
  IF OSTCBHighRdy(os) = os.cur THEN os
  ELSE [os EXCEPT !.cur = OSTCBHighRdy(os), !.prioCur = OS_PrioGetHighest(os)]

-----------------------------------------------------------------------------
(* The tick list: only how many ticks a task has left.                     *)

OS_TickListInsert(os, t, n) == [os EXCEPT !.tick[t] = n]

OS_TickListRemove(os, t) == [os EXCEPT !.tick[t] = 0]

-----------------------------------------------------------------------------
(* Pend lists, sorted by priority, first come first served within one.     *)

InsertPos(os, s, t) ==
  CHOOSE i \in 1..Len(s) + 1 :
    /\ \A j \in 1..i - 1 : os.prio[s[j]] =< os.prio[t]
    /\ i =< Len(s) => os.prio[t] < os.prio[s[i]]

OS_PendListInsertPrio(os, o, t) ==
  [os EXCEPT !.pend[o] = InsertAt(@, InsertPos(os, @, t), t)]

OS_PendListRemove(os, t) ==
  IF os.pendObj[t] = NoObj THEN os
  ELSE [os EXCEPT !.pend[os.pendObj[t]] = Without(@, t), !.pendObj[t] = NoObj]

(* Mutants, here and below, are mistakes the runs are shown to notice:     *)
(* here the waiter keeps its place in the list.                            *)
MutantChangeInPlace(os, t, p) == [os EXCEPT !.prio[t] = p]

OS_PendListChangePrio(os, t, p) ==
  LET o    == os.pendObj[t]
      set  == [os EXCEPT !.prio[t] = p]
      gone == [set EXCEPT !.pend[o] = Without(@, t)]
  IN  IF o = NoObj THEN set
      ELSE IF Len(os.pend[o]) > 1 THEN OS_PendListInsertPrio(gone, o, t)
      ELSE set

-----------------------------------------------------------------------------
(* Blocking and waking.                                                    *)

OS_TaskBlock(os, t, timeout) ==
  LET bits == IF timeout > 0 THEN {"DLY", "PEND"} ELSE {"PEND"}
      ticking == OS_TickListInsert(os, t, timeout)
  IN  OS_RdyListRemove([ticking EXCEPT !.state[t] = bits], t)

(* Mutant: a suspended task becomes ready.                                 *)
MutantTaskRdy(os, t) == OS_RdyListInsert(OS_TickListRemove(os, t), t)

OS_TaskRdy(os, t) ==
  LET off == OS_TickListRemove(os, t)
  IN  IF "SUSPENDED" \in os.state[t] THEN off ELSE OS_RdyListInsert(off, t)

(* OS_Pend blocks the current task t on object o.                          *)
OS_Pend(os, o, kind, timeout) ==
  LET t == os.cur
      blocked == OS_TaskBlock([os EXCEPT !.pendOn[t] = kind,
                                         !.pendStatus[t] = "OK",
                                         !.pendObj[t] = o], t, timeout)
  IN  OS_PendListInsertPrio(blocked, o, t)

(* The body OS_Post, OS_PendAbort and a timeout share: a task that pends   *)
(* leaves the pend list and the tick list, and is ready unless suspended.  *)
EndPend(os, t, status) ==
  IF "PEND" \notin os.state[t] THEN os
  ELSE LET woken == OS_TaskRdy(OS_PendListRemove(os, t), t)
       IN  [woken EXCEPT !.state[t] = @ \ {"DLY", "PEND"},
                         !.pendStatus[t] = status,
                         !.pendOn[t] = "NOTHING"]

OS_Post(os, t) == EndPend(os, t, "OK")

OS_PendAbort(os, t) == EndPend(os, t, "ABORT")

(* Mutants: those who wait for what is deleted are told that they got it;  *)
(* they leave the pend list and are told, but not readied.                 *)
MutantPendObjDel(os, t) == EndPend(os, t, "OK")

MutantPendObjGone(os, t) ==
  [OS_PendListRemove(os, t) EXCEPT !.pendStatus[t] = "DEL"]

OS_PendObjDel(os, t) == EndPend(os, t, "DEL")

(* The body of OS_FlagTaskRdy() for the flag groups: a task that is        *)
(* suspended besides stays in the tick list.                               *)
OS_FlagTaskRdy(tables, t) ==
  IF "SUSPENDED" \in tables.state[t]
  THEN [OS_PendListRemove(tables, t) EXCEPT !.state[t] = {"SUSPENDED"},
                                            !.pendStatus[t] = "OK",
                                            !.pendOn[t] = "NOTHING"]
  ELSE EndPend(tables, t, "OK")

(* The loop of OS_FlagPost() over a pend list, which readies the tasks of  *)
(* woken.                                                                  *)
OS_FlagTasksRdy(tables, list, woken) ==
  FoldLeft(LAMBDA os, t : IF t \in woken THEN OS_FlagTaskRdy(os, t) ELSE os,
           tables, list)

(* Mutant: a timeout leaves the pend status of a post.                     *)
MutantTickExpire(os, t) ==
  IF "PEND" \in os.state[t] THEN EndPend(os, t, "OK")
  ELSE [OS_TaskRdy(os, t) EXCEPT !.state[t] = @ \ {"DLY"}]

(* Mutant: the loop forgets the tasks that were suspended meanwhile.       *)
MutantTickSuspended(os, t) ==
  IF "SUSPENDED" \in os.state[t] THEN os
  ELSE IF "PEND" \in os.state[t] THEN EndPend(os, t, "TIMEOUT")
  ELSE [OS_TaskRdy(os, t) EXCEPT !.state[t] = @ \ {"DLY"}]

(* One iteration of the loop of OS_TickListUpdate for a task that is due.  *)
TickExpire(os, t) ==
  IF "PEND" \in os.state[t] THEN EndPend(os, t, "TIMEOUT")
  ELSE [OS_TaskRdy(os, t) EXCEPT !.state[t] = @ \ {"DLY"}]

(* The tick task runs: every task in the tick list is a tick nearer to its *)
(* time; those whose time has come are taken off one by one.               *)
TickDown(os) ==
  [os EXCEPT !.tick = [t \in Task |-> IF @[t] > 1 THEN @[t] - 1 ELSE @[t]],
             !.cur = TickTask,
             !.prioCur = NoPrio]

-----------------------------------------------------------------------------
(* What the task services do to the tables.                                *)

OS_TaskSuspend(os, u) ==
  LET marked == [os EXCEPT !.state[u] = @ \cup {"SUSPENDED"}, !.susp[u] = @ + 1]
  IN  IF os.state[u] = {} THEN OS_RdyListRemove(marked, u) ELSE marked

(* Mutant: a task that still waits is made ready.                          *)
MutantTaskResume(os, u) ==
  LET less   == [os EXCEPT !.susp[u] = @ - 1]
      active == [less EXCEPT !.state[u] = @ \ {"SUSPENDED"}]
  IN  IF "SUSPENDED" \notin os.state[u] THEN os
      ELSE IF os.susp[u] > 1 THEN less ELSE OS_TaskRdy(active, u)

OS_TaskResume(os, u) ==
  LET less   == [os EXCEPT !.susp[u] = @ - 1]
      active == [less EXCEPT !.state[u] = @ \ {"SUSPENDED"}]
  IN  IF "SUSPENDED" \notin os.state[u] THEN os
      ELSE IF os.susp[u] > 1 THEN less
      ELSE IF os.state[u] = {"SUSPENDED"} THEN OS_TaskRdy(active, u)
      ELSE active

(* OSTaskChangePrio(); self: the caller passed a null pointer for itself.  *)
ChangePrio(os, u, p, self) ==
  LET moved == [OS_RdyListRemove(os, u) EXCEPT !.prio[u] = p]
  IN  IF os.state[u] = {}
      THEN IF self THEN OS_RdyListInsertHead(moved, u)
                   ELSE OS_RdyListInsertTail(moved, u)
      ELSE IF "PEND" \in os.state[u] THEN OS_PendListChangePrio(os, u, p)
      ELSE [os EXCEPT !.prio[u] = p]

(* OSTimeDly() of the running task t.                                      *)
Delay(os, t, n) ==
  OS_RdyListRemove(OS_TickListInsert([os EXCEPT !.state[t] = {"DLY"}], t, n), t)

-----------------------------------------------------------------------------
(* When the tables agree with each other.                                  *)

Distinct(s) == \A i, j \in DOMAIN s : s[i] = s[j] => i = j

ReadyAgrees(os) ==
  \A p \in Prio :
    /\ Distinct(os.rdy[p])
    /\ Range(os.rdy[p]) = {t \in Task : os.state[t] = {} /\ os.prio[t] = p}

PendAgrees(os) ==
  /\ \A o \in Obj :
       /\ Distinct(os.pend[o])
       /\ Range(os.pend[o]) = {t \in Task : os.pendObj[t] = o}
  /\ \A t \in Task :
       /\ os.pendObj[t] # NoObj <=> "PEND" \in os.state[t]
       /\ os.pendOn[t] # "NOTHING" <=> "PEND" \in os.state[t]

BitsAgree(os) ==
  \A t \in Task : os.susp[t] > 0 <=> "SUSPENDED" \in os.state[t]

SortedByPrio(s, prio) ==
  \A i, j \in DOMAIN s : i < j => prio[s[i]] =< prio[s[j]]
=============================================================================
