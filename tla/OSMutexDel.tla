----------------------------- MODULE OSMutexDel -----------------------------
(***************************************************************************)
(* OSMutexDel() and OSMutexCreate() (os_mutex.c) while tasks own the mutex *)
(* and wait for it, on the mutexes of OSMutex.                             *)
(***************************************************************************)
EXTENDS OSMutex, OSCall

allvars == <<vars, callvars>>

DelTypeOK == TypeOK /\ CallTypeOK

DelInit == Init /\ CallInit

-----------------------------------------------------------------------------
(* Mutants: the owner keeps what it inherited; a blocked owner keeps its   *)
(* place in the pend list it waits in.                                     *)
MutantRestoreNone(o, m) == o

MutantRestoreInPlace(o, m) ==
  LET u == owner[m]
  IN  IF u = NoTask \/ o.prio[u] = orig[m] THEN o
      ELSE IF o.state[u] = {}
           THEN OS_RdyListInsertTail([OS_RdyListRemove(o, u) EXCEPT !.prio[u] = orig[m]], u)
      ELSE [o EXCEPT !.prio[u] = orig[m]]

(* The owner gets back the priority it had when it acquired m; OSPrioCur   *)
(* stays, unlike in OSMutexPost().                                         *)
RestoreOwner(o, m) ==
  LET u == owner[m]
  IN  IF u = NoTask \/ o.prio[u] = orig[m] THEN o
      ELSE IF o.state[u] = {}
           THEN OS_RdyListInsertTail([OS_RdyListRemove(o, u) EXCEPT !.prio[u] = orig[m]], u)
      ELSE IF "PEND" \in o.state[u] THEN OS_PendListChangePrio(o, u, orig[m])
      ELSE [o EXCEPT !.prio[u] = orig[m]]

(* OS_MutexClr(): what the last owner had is forgotten.                    *)
OS_MutexClr(m) ==
  /\ owner' = [owner EXCEPT ![m] = NoTask]
  /\ own' = [own EXCEPT ![m] = 0]
  /\ orig' = [orig EXCEPT ![m] = PrioMax]
  /\ holds' = [t \in Task |-> [holds[t] EXCEPT ![m] = 0]]

(* OS_OPT_DEL_NO_PEND: refused while a task waits, but not while one owns. *)
OSMutexDelNoPend(t, m) ==
  /\ Delete(t, m)
  /\ os.pend[m] = << >>
  /\ OS_MutexClr(m)
  /\ UNCHANGED <<kvars, arg>>

(* OS_OPT_DEL_ALWAYS: the owner's priority first, then the waiters.        *)
OSMutexDelAlways(t, m) ==
  /\ Delete(t, m)
  /\ os' = FoldLeft(OS_PendObjDel, RestoreOwner(os, m), os.pend[m])
  /\ OS_MutexClr(m)
  /\ Goto(t, "sched")
  /\ UNCHANGED <<nest, lock, crit, arg>>

OSMutexCreate(t, m) == Create(t, m) /\ UNCHANGED mvars

(* The calls of OSMutex.  A task that was handed the mutex just before the *)
(* deletion still returns with OS_ERR_NONE; MaxOwn bounds what it then     *)
(* believes to have.                                                       *)
OnMutexes ==
  \/ CNext /\ UNCHANGED mvars
  \/ \E t \in Task :
       \/ OSMutexPendReturn(t) /\ UNCHANGED callvars
       \/ \E m \in Obj :
            /\ Passed(m)
            /\ \/ \E timeout \in Timeouts :
                    holds[t][m] < MaxOwn /\ OSMutexPend(t, m, timeout)
               \/ \E opt \in Options : OSMutexPost(t, m, opt)

DelNext ==
  \/ OnMutexes
  \/ \E t \in Task, m \in Obj :
       OSMutexDelNoPend(t, m) \/ OSMutexDelAlways(t, m) \/ OSMutexCreate(t, m)

DelSpec == DelInit /\ [][DelNext]_allvars

(* Fairness: as in OSMutex; nobody has to delete anything.                 *)
FairDelSpec == DelSpec /\ Fairness

-----------------------------------------------------------------------------
(* Properties.  Those of OSMutex hold with deletions, too: OwnPrioAfterPost*)
(* then says that a task whose mutex was deleted under it does not go on at*)
(* the priority it inherited through it.                                   *)

(* A task that waits when its mutex is deleted is readied and learns why;  *)
(* none of them takes the deletion for the mutex (os_mutex.c:149-150).     *)
WaitersAreTold == [][\A t \in Task :
  os.pendObj[t] \in gone' \ gone =>
    "PEND" \notin os'.state[t] /\ os'.pendStatus[t] = "DEL"]_allvars
=============================================================================
