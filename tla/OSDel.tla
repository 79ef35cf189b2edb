------------------------------- MODULE OSDel -------------------------------
(***************************************************************************)
(* Deletion and creation while the system runs: OSTaskDel() and            *)
(* OSTaskCreate() (os_task.c), OSSemDel() and OSSemCreate() (os_sem.c), on *)
(* the semaphores of OSSem.                                                *)
(***************************************************************************)
EXTENDS OSSem, OSCall

allvars == <<vars, callvars>>

DelTypeOK == TypeOK /\ CallTypeOK

DelInit == Init /\ CallInit

-----------------------------------------------------------------------------
(* Mutant: a task that waits stays in the pend list.                       *)
MutantTaskDelTables(o, u) ==
  LET left == IF o.state[u] = {} THEN OS_RdyListRemove(o, u)
              ELSE OS_TickListRemove([o EXCEPT !.pendObj[u] = NoObj], u)
  IN  [left EXCEPT !.state[u] = {"DEL"}, !.susp[u] = 0,
                   !.pendOn[u] = "NOTHING", !.pendStatus[u] = "OK"]

(* The task leaves every list and its TCB is cleared.                      *)
TaskDelTables(o, u) ==
  LET left == IF o.state[u] = {} THEN OS_RdyListRemove(o, u)
              ELSE OS_TickListRemove(OS_PendListRemove(o, u), u)
  IN  [left EXCEPT !.state[u] = {"DEL"}, !.susp[u] = 0,
                   !.pendOn[u] = "NOTHING", !.pendStatus[u] = "OK"]

(* A task may delete itself, with the scheduler locked too.  The call the  *)
(* deleted task was in is over.                                            *)
OSTaskDel(t, u) ==
  /\ "del" \in Uses /\ Running(t) /\ called[t] = NoObj /\ u # Idle /\ Exists(u)
  /\ os' = TaskDelTables(os, u)
  /\ pc' = [pc EXCEPT ![u] = "run", ![t] = "sched"]
  /\ called' = [called EXCEPT ![u] = NoObj]
  /\ UNCHANGED <<nest, lock, crit, ctr, gone>>

(* The application creates again a task that was deleted.                  *)
OSTaskCreate(t, u) ==
  /\ "del" \in Uses /\ Running(t) /\ called[t] = NoObj /\ ~Exists(u)
  /\ os' = OS_RdyListInsertTail([os EXCEPT !.state[u] = {}, !.prio[u] = InitPrio[u]], u)
  /\ pc' = [pc EXCEPT ![u] = "run", ![t] = "sched"]
  /\ UNCHANGED <<nest, lock, crit, ctr, callvars>>

(* OS_OPT_DEL_NO_PEND: refused while a task waits.                         *)
OSSemDelNoPend(t, s) ==
  /\ Delete(t, s)
  /\ os.pend[s] = << >>
  /\ ctr' = [ctr EXCEPT ![s] = 0]
  /\ UNCHANGED kvars

(* Mutant: the tasks stay in the pend list of what is no semaphore.        *)
MutantSemDelAlways(t, s) ==
  /\ Delete(t, s)
  /\ ctr' = [ctr EXCEPT ![s] = 0]
  /\ Goto(t, "sched")
  /\ UNCHANGED <<os, nest, lock, crit>>

(* OS_OPT_DEL_ALWAYS: the tasks that wait are readied, in the list's order.*)
OSSemDelAlways(t, s) ==
  /\ Delete(t, s)
  /\ os' = FoldLeft(OS_PendObjDel, os, os.pend[s])
  /\ ctr' = [ctr EXCEPT ![s] = 0]
  /\ Goto(t, "sched")
  /\ UNCHANGED <<nest, lock, crit>>

OSSemCreate(t, s) ==
  /\ Create(t, s)
  /\ ctr' = [ctr EXCEPT ![s] = InitCtr[s]]

(* The calls of OSSem, in a system where semaphores are deleted.           *)
OnSemaphores ==
  \/ CNext /\ UNCHANGED ctr
  \/ \E s \in Obj :
       /\ Passed(s)
       /\ \/ \E opt \in Options : OSSemPost(s, opt)
          \/ \E t \in Task :
               \/ \E timeout \in Timeouts : OSSemPend(t, s, timeout)
               \/ \E cnt \in 0..MaxCtr : OSSemSet(t, s, cnt)
  \/ \E t \in Task : OSSemPendReturn(t) /\ UNCHANGED callvars

DelNext ==
  \/ OnSemaphores
  \/ \E t \in Task :
       \/ \E u \in Task : OSTaskDel(t, u) \/ OSTaskCreate(t, u)
       \/ \E s \in Obj : OSSemDelNoPend(t, s) \/ OSSemDelAlways(t, s) \/ OSSemCreate(t, s)

DelSpec == DelInit /\ [][DelNext]_allvars

-----------------------------------------------------------------------------
(* Properties.                                                             *)

(* Nothing waits for what was deleted, nor is a unit counted in it: a call *)
(* on what is no semaphore returns OS_ERR_OBJ_TYPE (os_sem.c:293).  It holds *)
(* for what is not deleted carelessly.                                     *)
DeletedIsEmpty == \A s \in gone : os.pend[s] = << >> /\ ctr[s] = 0

(* A task whose wait was ended by a deletion is told so: no post, abort or *)
(* timeout before it runs again takes its place, though the semaphore may  *)
(* have been created anew by then.                                         *)
ToldOfDeletion == [][\A t \in Task :
  pc[t] \in {"pend", "wake"} /\ os.pendStatus[t] = "DEL" =>
    \/ os'.pendStatus[t] = "DEL"
    \/ os'.state[t] = {"DEL"}]_allvars
=============================================================================
