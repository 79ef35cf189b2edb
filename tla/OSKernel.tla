------------------------------ MODULE OSKernel ------------------------------
(***************************************************************************)
(* The part of uC/OS-III every kernel object shares: interrupts, the       *)
(* scheduler and its lock, the tick task, and the task services that       *)
(* change what is ready (os_core.c, os_tick.c, os_task.c, os_time.c), in   *)
(* the default configuration (OS_CFG_ISR_POST_DEFERRED_EN = 0), where a    *)
(* critical section disables interrupts.                                   *)
(*                                                                         *)
(* One action is one critical section.  Between two critical sections an   *)
(* interrupt may be taken and, when it ends, another task may run: pc says *)
(* where in a service each task is.  A loop inside a critical section is   *)
(* one action per iteration, with crit # Free so that nothing interleaves. *)
(***************************************************************************)
EXTENDS OSCore, FiniteSets

CONSTANTS InitPrio,   \* the priority OSTaskCreate() gave each task
          Uses,       \* the services the application uses, names of Services
          CallOpts,   \* the post and abort options the application uses
          MaxNest,    \* bound on nested interrupts (the code: 250)
          MaxLock     \* bound on nested OSSchedLock() (the code: 250)

Services ==
  {"lock", "yield", "suspend", "chprio", "dly", "timeout", "abort", "set",
   "del"}
Options  == SUBSET {"ALL", "NO_SCHED"}

ASSUME KernelAssumption ==
  /\ InitPrio \in [Task -> Prio]
  /\ \A t \in Task : InitPrio[t] = PrioMax <=> t = Idle
  /\ Uses \subseteq Services
  /\ CallOpts \subseteq Options
  /\ MaxNest \in Nat /\ MaxLock \in Nat

VARIABLES os,     \* the kernel tables, see OSCore
          pc,     \* where each task is: see Where
          nest,   \* OSIntNestingCtr
          lock,   \* OSSchedLockNestingCtr
          crit    \* what the loop in the current critical section has left

kvars == <<os, pc, nest, lock, crit>>

(* run: in application code.  sched: about to call OSSched().  pend: about *)
(* to call OSSched() inside a pend.  wake: about to read PendStatus.       *)
(* abort: between the critical sections of OSTaskSemPendAbort(), OSTaskSync.*)
Where == {"run", "sched", "pend", "wake", "abort"}

Free == [op |-> "none", obj |-> NoObj, opt |-> {}, left |-> 0, due |-> {}]

(* The loop over the pend list of o of a post or an abort with options opt *)
(* of which n iterations are left, and the tick task's loop over tasks due.*)
PendLoop(op, o, opt, n) ==
  [op |-> op, obj |-> o, opt |-> opt, left |-> n, due |-> {}]
TickLoop(due) ==
  [op |-> "tick", obj |-> NoObj, opt |-> {}, left |-> 0, due |-> due]

KTypeOK ==
  /\ os \in TCBTables
  /\ pc \in [Task -> Where]
  /\ nest \in 0..MaxNest
  /\ lock \in 0..MaxLock
  /\ crit \in [op : {"none", "post", "abort", "tick"}, obj : Obj \cup {NoObj},
               opt : Options, left : Nat, due : SUBSET Task]

(* After OSStart(): every task was created and is ready, tasks of one       *)
(* priority in any order of creation, and the head of the highest runs.    *)
Orders(S) ==
  {s \in [1..Cardinality(S) -> S] : IsInjective(s) /\ Range(s) = S}

Created(p) == {t \in Task : InitPrio[t] = p}

InitTables(lists) ==
  [state      |-> [t \in Task |-> {}],
   prio       |-> InitPrio,
   pendOn     |-> [t \in Task |-> "NOTHING"],
   pendObj    |-> [t \in Task |-> NoObj],
   pendStatus |-> [t \in Task |-> "OK"],
   tick       |-> [t \in Task |-> 0],
   susp       |-> [t \in Task |-> 0],
   rdy        |-> lists,
   pend       |-> [o \in Obj |-> << >>],
   cur        |-> TickTask,
   prioCur    |-> NoPrio]

KInit ==
  /\ \E lists \in [Prio -> UNION {Orders(Created(p)) : p \in Prio}] :
       /\ \A p \in Prio : lists[p] \in Orders(Created(p))
       /\ os = OS_TASK_SW(InitTables(lists))
  /\ pc = [t \in Task |-> "run"]
  /\ nest = 0
  /\ lock = 0
  /\ crit = Free

-----------------------------------------------------------------------------
(* Interrupts and the scheduler.                                           *)

(* Task t executes application code, outside any service and interrupt.    *)
Running(t) ==
  /\ t # Idle /\ os.cur = t /\ pc[t] = "run" /\ nest = 0 /\ crit = Free

(* The timeouts the application passes to a pend; 0 waits for ever.        *)
Timeouts == IF "timeout" \in Uses THEN 0..MaxDly ELSE {0}

Goto(t, where) == pc' = [pc EXCEPT ![t] = where]

OSIntEnter ==
  /\ crit = Free /\ nest < MaxNest
  /\ nest' = nest + 1
  /\ UNCHANGED <<os, pc, lock, crit>>

(* Mutant: an interrupt always returns to the task it interrupted.         *)
MutantIntExit ==
  /\ crit = Free /\ nest > 0
  /\ nest' = nest - 1
  /\ UNCHANGED <<os, pc, lock, crit>>

(* The outermost interrupt may return to another task than it interrupted. *)
OSIntExit ==
  /\ crit = Free /\ nest > 0
  /\ nest' = nest - 1
  /\ os' = IF nest' = 0 /\ lock = 0 THEN OS_TASK_SW(os) ELSE os
  /\ UNCHANGED <<pc, lock, crit>>

(* The call of OSSched() that ends a service, or blocks inside a pend.     *)
OSSched(t) ==
  /\ os.cur = t /\ pc[t] \in {"sched", "pend"} /\ nest = 0 /\ crit = Free
  /\ os' = IF lock = 0 THEN OS_TASK_SW(os) ELSE os
  /\ Goto(t, IF pc[t] = "sched" THEN "run" ELSE "wake")
  /\ UNCHANGED <<nest, lock, crit>>

OSSchedLock(t) ==
  /\ "lock" \in Uses /\ Running(t) /\ lock < MaxLock
  /\ lock' = lock + 1
  /\ UNCHANGED <<os, pc, nest, crit>>

(* Mutant: the last unlock does not call OSSched().                        *)
MutantSchedUnlock(t) ==
  /\ Running(t) /\ lock > 0
  /\ lock' = lock - 1
  /\ UNCHANGED <<os, pc, nest, crit>>

OSSchedUnlock(t) ==
  /\ Running(t) /\ lock > 0
  /\ lock' = lock - 1
  /\ IF lock' = 0 THEN Goto(t, "sched") ELSE UNCHANGED pc
  /\ UNCHANGED <<os, nest, crit>>

OSSchedRoundRobinYield(t) ==
  /\ "yield" \in Uses /\ Running(t) /\ lock = 0
  /\ os.prioCur \in Prio /\ Len(os.rdy[os.prioCur]) >= 2
  /\ os' = OS_RdyListMoveHeadToTail(os, os.prioCur)
  /\ Goto(t, "sched")
  /\ UNCHANGED <<nest, lock, crit>>

(* OSTimeTick() in the tick interrupt rotates the tasks of the current     *)
(* priority when the time quantum of the head is used up; the quantum's    *)
(* length is left out.                                                     *)
OS_SchedRoundRobin ==
  /\ "yield" \in Uses /\ crit = Free /\ nest > 0 /\ lock = 0
  /\ os.prioCur \in 0..PrioMax - 1 /\ Len(os.rdy[os.prioCur]) >= 2
  /\ os' = OS_RdyListMoveHeadToTail(os, os.prioCur)
  /\ UNCHANGED <<pc, nest, lock, crit>>

-----------------------------------------------------------------------------
(* The tick task.  OSTimeTick() makes it ready; it has a priority of its   *)
(* own above the application's, so that it runs as soon as the scheduler   *)
(* is not locked, walks the tick list with interrupts disabled and pends   *)
(* again, which lets the highest ready task run.                           *)

OS_TickListUpdate ==
  /\ crit = Free /\ nest = 0 /\ lock = 0
  /\ \E t \in Task : os.tick[t] > 0
  /\ crit' = TickLoop({t \in Task : os.tick[t] = 1})
  /\ os' = TickDown(os)
  /\ UNCHANGED <<pc, nest, lock>>

(* One due task; tasks due at the same tick come in any order.             *)
OS_TickListUpdateLoop(t) ==
  /\ crit.op = "tick" /\ t \in crit.due
  /\ os' = TickExpire(os, t)
  /\ crit' = [crit EXCEPT !.due = @ \ {t}]
  /\ UNCHANGED <<pc, nest, lock>>

OS_TickTaskPend ==
  /\ crit.op = "tick" /\ crit.due = {}
  /\ os' = OS_TASK_SW(os)
  /\ crit' = Free
  /\ UNCHANGED <<pc, nest, lock>>

-----------------------------------------------------------------------------
(* Task services.                                                          *)

(* The services refuse a task that was deleted.                            *)
Exists(u) == os.state[u] # {"DEL"}

OSTaskSuspend(t, u) ==
  /\ "suspend" \in Uses /\ Running(t) /\ u # Idle /\ Exists(u)
  /\ u = t => lock = 0
  /\ os.susp[u] < MaxSusp
  /\ os' = OS_TaskSuspend(os, u)
  /\ Goto(t, "sched")
  /\ UNCHANGED <<nest, lock, crit>>

OSTaskResume(t, u) ==
  /\ "suspend" \in Uses /\ Running(t) /\ u # t /\ Exists(u)
  /\ os' = OS_TaskResume(os, u)
  /\ Goto(t, "sched")
  /\ UNCHANGED <<nest, lock, crit>>

(* self: the caller passed a null pointer for itself.  u # Idle is not in  *)
(* the code, which checks only the new priority: applications are assumed  *)
(* to leave the idle task where the scheduler needs it.                    *)
OSTaskChangePrio(t, u, p, self) ==
  /\ "chprio" \in Uses /\ Running(t) /\ u # Idle /\ p < PrioMax /\ Exists(u)
  /\ self => u = t
  /\ os' = ChangePrio(os, u, p, self)
  /\ Goto(t, "sched")
  /\ UNCHANGED <<nest, lock, crit>>

OSTimeDly(t, n) ==
  /\ "dly" \in Uses /\ Running(t) /\ lock = 0 /\ n > 0
  /\ os' = Delay(os, t, n)
  /\ Goto(t, "sched")
  /\ UNCHANGED <<nest, lock, crit>>

-----------------------------------------------------------------------------
(* What posts and aborts share.                                            *)

(* The end of a call: OSSched() is next, unless the options forbid it or   *)
(* an interrupt handler made the call, where it does nothing.              *)
Return(opt) ==
  IF nest > 0 \/ "NO_SCHED" \in opt THEN UNCHANGED pc ELSE Goto(os.cur, "sched")

(* One iteration: the head of the pend list is readied.                    *)
PendListLoop ==
  /\ crit.op \in {"post", "abort"}
  /\ LET head == Head(os.pend[crit.obj])
     IN  os' = IF crit.op = "post" THEN OS_Post(os, head)
                                   ELSE OS_PendAbort(os, head)
  /\ IF crit.left > 1
     THEN crit' = [crit EXCEPT !.left = @ - 1] /\ UNCHANGED pc
     ELSE crit' = Free /\ Return(crit.opt)
  /\ UNCHANGED <<nest, lock>>

(* OSSemPendAbort() and OSMutexPendAbort(): all the waiters only when the  *)
(* option is ABORT_ALL and nothing else.                                   *)
PendAbort(t, o, opt) ==
  /\ "abort" \in Uses /\ Running(t) /\ opt \in CallOpts
  /\ os.pend[o] # << >>
  /\ crit' = PendLoop("abort", o, opt,
                      IF opt = {"ALL"} THEN Len(os.pend[o]) ELSE 1)
  /\ UNCHANGED <<os, pc, nest, lock>>

(* What interrupts, the scheduler and critical sections under way do.      *)
KStep ==
  \/ OSIntEnter
  \/ OSIntExit
  \/ OS_SchedRoundRobin
  \/ OS_TickListUpdate
  \/ OS_TickTaskPend
  \/ PendListLoop
  \/ \E t \in Task : OSSched(t) \/ OS_TickListUpdateLoop(t)

(* The services that name no object.                                       *)
KCall(t) ==
  \/ OSSchedLock(t)
  \/ OSSchedUnlock(t)
  \/ OSSchedRoundRobinYield(t)
  \/ \E n \in 1..MaxDly : OSTimeDly(t, n)
  \/ \E u \in Task :
       \/ OSTaskSuspend(t, u)
       \/ OSTaskResume(t, u)
       \/ \E p \in Prio, self \in BOOLEAN : OSTaskChangePrio(t, u, p, self)

KNext ==
  \/ KStep
  \/ \E t \in Task :
       \/ KCall(t)
       \/ \E o \in Obj, opt \in Options : PendAbort(t, o, opt)

-----------------------------------------------------------------------------
(* Properties of the kernel tables, whatever the objects.                  *)

(* A task is in exactly one ready list, the one of its priority, when no   *)
(* bit of its state is set, and in none otherwise.                         *)
ReadyListsAgree == ReadyAgrees(os)

(* A task is in the pend list of the object its pend table names, and the  *)
(* table is not empty, exactly while its state says that it pends.         *)
PendListsAgree == PendAgrees(os)

(* The tick list holds the tasks whose state says that they wait for a     *)
(* time, and a task is suspended while it has suspensions to undo.         *)
TickListAgrees ==
  /\ BitsAgree(os)
  /\ \A t \in Task : os.tick[t] > 0 <=> "DLY" \in os.state[t]

(* The lists of the kernel and the states of the tasks agree, whatever     *)
(* posts, timeouts, suspensions, priority changes and interrupts come in   *)
(* whatever order.                                                         *)
ListsAgree == ReadyListsAgree /\ PendListsAgree /\ TickListAgrees

(* The waiters of an object are served by priority.                        *)
WaitersByPriority == \A o \in Obj : SortedByPrio(os.pend[o], os.prio)

(* A task that executes application code or returns from a pend is ready:  *)
(* no task runs while it is blocked, delayed or suspended.                 *)
RunningIsReady ==
  os.cur \in Task /\ pc[os.cur] \in {"run", "wake"} => os.state[os.cur] = {}

(* The highest priority ready task runs: when the running task is in       *)
(* application code, outside interrupts and the scheduler's lock, no ready *)
(* task has a higher priority.                                             *)
HighestRuns ==
  \A t \in Task : Running(t) /\ lock = 0 =>
    \A u \in Task : os.state[u] = {} => os.prio[t] =< os.prio[u]

(* OSPrioCur is the "Priority of current task" (os.h:1168), which decides  *)
(* where OS_RdyListInsert() puts a task and which list round robin turns.  *)
PrioCurIsCurrent ==
  \A t \in Task : Running(t) => os.prioCur = os.prio[t]

-----------------------------------------------------------------------------
(* Fairness.  The processor keeps executing: a loop in a critical section  *)
(* ends, an interrupt handler returns, and interrupts leave the running    *)
(* task time to reach the scheduler (SF, for an interrupt may come first   *)
(* again and again).  The tick interrupt keeps coming and makes the tick   *)
(* task ready, which is then the next to run.  A task that has locked the  *)
(* scheduler unlocks it.                                                   *)
KFairness ==
  /\ WF_kvars(OSIntEnter) /\ WF_kvars(OSIntExit)
  /\ WF_kvars(PendListLoop) /\ WF_kvars(OS_TickTaskPend)
  /\ WF_kvars(\E t \in Task : OS_TickListUpdateLoop(t))
  /\ SF_kvars(OS_TickListUpdate)
  /\ SF_kvars(\E t \in Task : OSSched(t))
  /\ SF_kvars(\E t \in Task : OSSchedUnlock(t))

(* A delay or a timeout ends, whatever posts, aborts, suspensions, locks of*)
(* the scheduler and interrupts come before.                               *)
TimeoutEnds ==
  \A t \in Task \ {Idle} : "DLY" \in os.state[t] ~> "DLY" \notin os.state[t]

(* The task of the highest priority runs once it is ready: no post with    *)
(* OS_OPT_POST_NO_SCHED and no scheduler lock strands it.                  *)
TopTask == {t \in Task : \A u \in Task \ {t} : InitPrio[t] < InitPrio[u]}
TopTaskRuns ==
  \A t \in TopTask : os.state[t] = {} ~> os.cur = t \/ os.state[t] # {}
=============================================================================
