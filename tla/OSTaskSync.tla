----------------------------- MODULE OSTaskSync -----------------------------
(***************************************************************************)
(* The semaphore and the message queue every task has of its own           *)
(* (os_task.c), beside the semaphores of OSSem: a task that waits on its   *)
(* own semaphore or queue is in no pend list, and its TCB says what it     *)
(* waits for.  Messages come from a pool that is taken to be large enough. *)
(***************************************************************************)
EXTENDS OSSem

CONSTANTS Sync,       \* what the application uses, a subset of SyncServices
          SetCounts,  \* the counts it passes to OSTaskSemSet()
          Msg,        \* the messages it posts
          NoMsg,      \* a null MsgPtr
          QSize,      \* the q_size OSTaskCreate() was given for each task
          NoTask      \* no task

SyncServices == {"sem", "q", "semabort", "qabort"}

ASSUME SyncAssumption ==
  /\ Sync \subseteq SyncServices /\ SetCounts \subseteq 0..MaxCtr
  /\ NoMsg \notin Msg /\ QSize \in [Task -> Nat] /\ NoTask \notin Task

VARIABLES semCtr,   \* SemCtr of each task
          msgQ,     \* MsgQ of each task, oldest message first
          got,      \* MsgPtr of each task
          victim    \* the task an OSTaskSemPendAbort() is about to abort

svars == <<semCtr, msgQ, got, victim>>
syncvars == <<vars, svars>>

SyncTypeOK ==
  /\ TypeOK
  /\ semCtr \in [Task -> 0..MaxCtr]
  /\ \A t \in Task : msgQ[t] \in Seq(Msg) /\ Len(msgQ[t]) =< QSize[t]
  /\ got \in [Task -> Msg \cup {NoMsg}]
  /\ victim \in [Task -> Task \cup {NoTask}]

SyncInit ==
  /\ Init
  /\ semCtr = [t \in Task |-> 0]
  /\ msgQ = [t \in Task |-> << >>]
  /\ got = [t \in Task |-> NoMsg]
  /\ victim = [t \in Task |-> NoTask]

-----------------------------------------------------------------------------
(* OS_Pend(), OS_Post() and OS_PendAbort() with a null object: no pend list*)
(* is touched.                                                             *)
OS_PendOwn(tables, kind, timeout) ==
  LET t == tables.cur
  IN  OS_TaskBlock([tables EXCEPT !.pendOn[t] = kind,
                                  !.pendStatus[t] = "OK",
                                  !.pendObj[t] = NoObj], t, timeout)

(* Mutant: the state of the task is not looked at again.                   *)
MutantEndOwnPend(tables, t, status) ==
  [tables EXCEPT !.rdy = IF tables.state[t] = {"PEND"} THEN OS_TaskRdy(tables, t).rdy ELSE @,
                 !.state[t] = @ \ {"DLY", "PEND"},
                 !.tick[t] = 0,
                 !.pendStatus[t] = status,
                 !.pendOn[t] = "NOTHING"]

EndOwnPend(tables, t, status) ==
  IF "PEND" \notin tables.state[t] THEN tables
  ELSE [OS_TaskRdy(tables, t) EXCEPT !.state[t] = @ \ {"DLY", "PEND"},
                                     !.pendStatus[t] = status,
                                     !.pendOn[t] = "NOTHING"]

Caller == (\E t \in Task : Running(t)) \/ (crit = Free /\ nest > 0)

WaitsFor(u, kind) == "PEND" \in os.state[u] /\ os.pendOn[u] = kind

-----------------------------------------------------------------------------
(* The task semaphore.  What follows OSSched() in the pends is             *)
(* OSSemPendReturn().                                                      *)

OSTaskSemPend(t, timeout) ==
  /\ "sem" \in Sync /\ Running(t)
  /\ \/ /\ semCtr[t] > 0
        /\ semCtr' = [semCtr EXCEPT ![t] = @ - 1]
        /\ UNCHANGED <<os, pc>>
     \/ /\ semCtr[t] = 0 /\ lock = 0
        /\ os' = OS_PendOwn(os, "TASK_SEM", timeout)
        /\ Goto(t, "pend")
        /\ UNCHANGED semCtr
  /\ UNCHANGED <<nest, lock, crit, ctr, msgQ, got, victim>>

(* Mutant: the signal is counted unless the task waits without a timeout.  *)
MutantTaskSemPost(u, opt) ==
  /\ "sem" \in Sync /\ u # Idle /\ Caller /\ opt \in CallOpts /\ "ALL" \notin opt
  /\ IF WaitsFor(u, "TASK_SEM") /\ "DLY" \notin os.state[u]
     THEN /\ os' = EndOwnPend(os, u, "OK")
          /\ Return(opt)
          /\ UNCHANGED semCtr
     ELSE /\ semCtr[u] < MaxCtr
          /\ semCtr' = [semCtr EXCEPT ![u] = @ + 1]
          /\ UNCHANGED <<os, pc>>
  /\ UNCHANGED <<nest, lock, crit, ctr, msgQ, got, victim>>

(* OS_TaskSemPost() called by the running task or by an interrupt handler. *)
OSTaskSemPost(u, opt) ==
  /\ "sem" \in Sync /\ u # Idle /\ Caller /\ opt \in CallOpts /\ "ALL" \notin opt
  /\ IF WaitsFor(u, "TASK_SEM")
     THEN /\ os' = EndOwnPend(os, u, "OK")
          /\ Return(opt)
          /\ got' = [got EXCEPT ![u] = NoMsg]
          /\ UNCHANGED semCtr
     ELSE /\ semCtr[u] < MaxCtr
          /\ semCtr' = [semCtr EXCEPT ![u] = @ + 1]
          /\ UNCHANGED <<os, pc, got>>
  /\ UNCHANGED <<nest, lock, crit, ctr, msgQ, victim>>

OSTaskSemSet(t, u, cnt) ==
  /\ "sem" \in Sync /\ u # Idle /\ Running(t)
  /\ semCtr' = [semCtr EXCEPT ![u] = cnt]
  /\ UNCHANGED <<vars, msgQ, got, victim>>

(* OSTaskSemPendAbort() looks at PendOn in one critical section and aborts *)
(* in another.                                                             *)
OSTaskSemPendAbort(t, u) ==
  /\ "semabort" \in Sync /\ Running(t) /\ u # t
  /\ os.pendOn[u] = "TASK_SEM"
  /\ victim' = [victim EXCEPT ![t] = u]
  /\ Goto(t, "abort")
  /\ UNCHANGED <<os, nest, lock, crit, ctr, semCtr, msgQ, got>>

OSTaskSemPendAbort2(t, opt) ==
  LET u == victim[t]
  IN  /\ os.cur = t /\ pc[t] = "abort" /\ nest = 0 /\ crit = Free
      /\ opt \in CallOpts /\ "ALL" \notin opt
      /\ os' = EndOwnPend(os, u, "ABORT")
      /\ got' = IF "PEND" \in os.state[u] THEN [got EXCEPT ![u] = NoMsg] ELSE got
      /\ victim' = [victim EXCEPT ![t] = NoTask]
      /\ Goto(t, IF "NO_SCHED" \in opt THEN "run" ELSE "sched")
      /\ UNCHANGED <<nest, lock, crit, ctr, semCtr, msgQ>>

-----------------------------------------------------------------------------
(* The task message queue.                                                 *)

OSTaskQPend(t, timeout) ==
  /\ "q" \in Sync /\ Running(t)
  /\ \/ /\ msgQ[t] # << >>
        /\ msgQ' = [msgQ EXCEPT ![t] = Tail(@)]
        /\ UNCHANGED <<os, pc>>
     \/ /\ msgQ[t] = << >> /\ lock = 0
        /\ os' = OS_PendOwn(os, "TASK_Q", timeout)
        /\ Goto(t, "pend")
        /\ UNCHANGED msgQ
  /\ UNCHANGED <<nest, lock, crit, ctr, semCtr, got, victim>>

(* OS_TaskQPost() called by the running task or by an interrupt handler.   *)
OSTaskQPost(u, m, lifo, opt) ==
  /\ "q" \in Sync /\ u # Idle /\ Caller /\ opt \in CallOpts /\ "ALL" \notin opt
  /\ IF WaitsFor(u, "TASK_Q")
     THEN /\ os' = EndOwnPend(os, u, "OK")
          /\ got' = [got EXCEPT ![u] = m]
          /\ Return(opt)
          /\ UNCHANGED msgQ
     ELSE /\ Len(msgQ[u]) < QSize[u]
          /\ msgQ' = [msgQ EXCEPT ![u] = IF lifo THEN <<m>> \o @ ELSE Append(@, m)]
          /\ UNCHANGED <<os, pc, got>>
  /\ UNCHANGED <<nest, lock, crit, ctr, semCtr, victim>>

OSTaskQPendAbort(t, u, opt) ==
  /\ "qabort" \in Sync /\ Running(t) /\ u # t
  /\ opt \in CallOpts /\ "ALL" \notin opt
  /\ os.pendOn[u] = "TASK_Q"
  /\ os' = EndOwnPend(os, u, "ABORT")
  /\ got' = IF "PEND" \in os.state[u] THEN [got EXCEPT ![u] = NoMsg] ELSE got
  /\ Return(opt)
  /\ UNCHANGED <<nest, lock, crit, ctr, semCtr, msgQ, victim>>

OSTaskQFlush(t, u) ==
  /\ "q" \in Sync /\ Running(t)
  /\ msgQ' = [msgQ EXCEPT ![u] = << >>]
  /\ UNCHANGED <<vars, semCtr, got, victim>>

(* A timeout clears MsgPtr.                                                *)
TimeoutMsgPtrs ==
  got' = [t \in Task |->
    IF "PEND" \in os.state[t] /\ "PEND" \notin os'.state[t] THEN NoMsg ELSE got[t]]

SyncNext ==
  \/ Next /\ TimeoutMsgPtrs /\ UNCHANGED <<semCtr, msgQ, victim>>
  \/ \E t \in Task :
       \/ \E timeout \in Timeouts : OSTaskSemPend(t, timeout) \/ OSTaskQPend(t, timeout)
       \/ \E opt \in Options : \/ OSTaskSemPost(t, opt)
                               \/ OSTaskSemPendAbort2(t, opt)
       \/ \E m \in Msg, lifo \in BOOLEAN, opt \in Options : OSTaskQPost(t, m, lifo, opt)
       \/ \E u \in Task :
            \/ \E cnt \in SetCounts : OSTaskSemSet(t, u, cnt)
            \/ OSTaskSemPendAbort(t, u)
            \/ \E opt \in Options : OSTaskQPendAbort(t, u, opt)
            \/ OSTaskQFlush(t, u)

SyncSpec == SyncInit /\ [][SyncNext]_syncvars

(* Fairness: as in OSSem; an abort goes on to its second critical section. *)
FairSyncSpec ==
  /\ SyncSpec /\ Fairness
  /\ SF_syncvars(\E t \in Task, opt \in Options : OSTaskSemPendAbort2(t, opt))

-----------------------------------------------------------------------------
(* Properties.                                                             *)

(* No signal and no message is left behind: a task that waits for its      *)
(* semaphore or its queue has nothing there.                               *)
NothingLeftBehind ==
  \A t \in Task : /\ WaitsFor(t, "TASK_SEM") => semCtr[t] = 0
                  /\ WaitsFor(t, "TASK_Q") => msgQ[t] = << >>

(* How a wait ended does not change until the task learns of it, though    *)
(* the abort that looked at it before comes after a post, or a timeout     *)
(* comes after either.                                                     *)
Ended(t) == pc[t] \in {"pend", "wake"} /\ "PEND" \notin os.state[t]

EndedWaitStands ==
  [][\A t \in Task : Ended(t) /\ Ended(t)' =>
       os'.pendStatus[t] = os.pendStatus[t] /\ got'[t] = got[t]]_syncvars

(* A task is in the pend list of a semaphore exactly while it waits for    *)
(* it, and in no pend list while it waits for something of its own: what   *)
(* PendListsAgree says when there is no such wait.                         *)
OwnPendsAgree ==
  /\ \A o \in Obj :
       /\ Distinct(os.pend[o])
       /\ Range(os.pend[o]) = {t \in Task : os.pendObj[t] = o}
  /\ \A t \in Task :
       /\ os.pendObj[t] # NoObj <=> WaitsFor(t, "SEM")
       /\ os.pendOn[t] # "NOTHING" <=> "PEND" \in os.state[t]
=============================================================================
