------------------------------ MODULE OSMutex ------------------------------
(***************************************************************************)
(* Mutual exclusion semaphores with priority inheritance (os_mutex.c) on   *)
(* the kernel of OSKernel.  Obj is the set of mutexes.                     *)
(***************************************************************************)
EXTENDS OSKernel

CONSTANTS NoTask,    \* the null OwnerTCBPtr
          NestMod,   \* OwnerNestingCtr counts modulo this (8 bits: 256)
          MaxOwn,    \* bound: times a task acquires a mutex it has
          MaxHeld    \* bound: mutexes a task acquires while it owns others

ASSUME MutexAssumption ==
  /\ NoTask \notin Task
  /\ NestMod \in Nat \ {0, 1} /\ MaxOwn \in Nat /\ MaxHeld \in Nat

VARIABLES owner,     \* OwnerTCBPtr
          own,       \* OwnerNestingCtr
          orig,      \* OwnerOriginalPrio
          arg,       \* the mutex a task passed to the pend it is in
          holds      \* history: times a task was told it has the mutex, less
                     \* the times it gave it back
mvars == <<owner, own, orig, arg, holds>>
vars == <<kvars, mvars>>

TypeOK ==
  /\ KTypeOK
  /\ owner \in [Obj -> Task \cup {NoTask}]
  /\ own \in [Obj -> 0..NestMod - 1]
  /\ orig \in [Obj -> Prio]
  /\ arg \in [Task -> Obj \cup {NoObj}]
  /\ holds \in [Task -> [Obj -> 0..MaxOwn]]

Init ==
  /\ KInit
  /\ owner = [m \in Obj |-> NoTask]
  /\ own = [m \in Obj |-> 0]
  /\ orig = [m \in Obj |-> PrioMax]
  /\ arg = [t \in Task |-> NoObj]
  /\ holds = [t \in Task |-> [m \in Obj |-> 0]]

-----------------------------------------------------------------------------
(* Mutants: the owner inherits nothing; only when it is ready.             *)
MutantInheritNone(o, u, p) == o

MutantInheritReady(o, u, p) ==
  IF o.prio[u] =< p \/ o.state[u] # {} THEN o
  ELSE OS_RdyListInsertHead([OS_RdyListRemove(o, u) EXCEPT !.prio[u] = p], u)

(* The owner inherits the priority p of a waiter, if that is higher.       *)
Inherit(o, u, p) ==
  IF o.prio[u] =< p THEN o
  ELSE IF o.state[u] = {}
       THEN OS_RdyListInsertHead([OS_RdyListRemove(o, u) EXCEPT !.prio[u] = p], u)
  ELSE IF "PEND" \in o.state[u] THEN OS_PendListChangePrio(o, u, p)
  ELSE [o EXCEPT !.prio[u] = p]

Owned(t) == {m \in Obj : owner[m] = t}

Acquire(t, m) ==
  /\ own[m] = 0
  /\ owner' = [owner EXCEPT ![m] = t]
  /\ orig' = [orig EXCEPT ![m] = os.prio[t]]
  /\ own' = [own EXCEPT ![m] = 1]
  /\ holds' = [holds EXCEPT ![t][m] = @ + 1]
  /\ UNCHANGED <<os, pc, arg>>

Reacquire(t, m) ==
  /\ own[m] > 0 /\ owner[m] = t /\ holds[t][m] < MaxOwn
  /\ own' = [own EXCEPT ![m] = (@ + 1) % NestMod]
  /\ holds' = [holds EXCEPT ![t][m] = @ + 1]
  /\ UNCHANGED <<os, pc, owner, orig, arg>>

Block(t, m, timeout) ==
  /\ own[m] > 0 /\ owner[m] # t /\ lock = 0
  /\ os' = OS_Pend(Inherit(os, owner[m], os.prio[t]), m, "MUTEX", timeout)
  /\ Goto(t, "pend")
  /\ arg' = [arg EXCEPT ![t] = m]
  /\ UNCHANGED <<owner, own, orig, holds>>

(* OSMutexPend() up to its first OSSched().                                *)
OSMutexPend(t, m, timeout) ==
  /\ Running(t)
  /\ Cardinality(Owned(t) \ {m}) =< MaxHeld
  /\ Acquire(t, m) \/ Reacquire(t, m) \/ Block(t, m, timeout)
  /\ UNCHANGED <<nest, lock, crit>>

(* The rest of OSMutexPend(): PendStatus says whether t has the mutex.     *)
OSMutexPendReturn(t) ==
  /\ os.cur = t /\ pc[t] = "wake" /\ nest = 0 /\ crit = Free
  /\ Goto(t, "run")
  /\ arg' = [arg EXCEPT ![t] = NoObj]
  /\ holds' = IF os.pendStatus[t] = "OK"
              THEN [holds EXCEPT ![t][arg[t]] = @ + 1] ELSE holds
  /\ UNCHANGED <<os, nest, lock, crit, owner, own, orig>>

(* Mutants: the owner stays in the ready list of the inherited priority;   *)
(* OSPrioCur keeps it.                                                     *)
MutantRestoreTwice(o, t, p) ==
  IF o.prio[t] = p THEN o
  ELSE [OS_RdyListInsertTail([o EXCEPT !.prio[t] = p], t) EXCEPT !.prioCur = p]

MutantRestorePrio(o, t, p) ==
  IF o.prio[t] = p THEN o
  ELSE OS_RdyListInsertTail([OS_RdyListRemove(o, t) EXCEPT !.prio[t] = p], t)

(* The owner gets its own priority back.                                   *)
Restore(o, t, p) ==
  IF o.prio[t] = p THEN o
  ELSE [OS_RdyListInsertTail([OS_RdyListRemove(o, t) EXCEPT !.prio[t] = p], t)
          EXCEPT !.prioCur = p]

(* OwnerNestingCtr, decremented.                                           *)
Less(m) == (own[m] + NestMod - 1) % NestMod

Unnest(t, m) ==
  /\ Less(m) > 0
  /\ own' = [own EXCEPT ![m] = Less(m)]
  /\ UNCHANGED <<os, pc, owner, orig>>

(* Nobody waits: the mutex is free, and its owner's priority stays.        *)
Release(t, m) ==
  /\ Less(m) = 0 /\ os.pend[m] = << >>
  /\ owner' = [owner EXCEPT ![m] = NoTask]
  /\ own' = [own EXCEPT ![m] = 0]
  /\ UNCHANGED <<os, pc, orig>>

HandOver(t, m, opt) ==
  /\ Less(m) = 0 /\ os.pend[m] # << >>
  /\ LET heir == Head(os.pend[m])
     IN  /\ owner' = [owner EXCEPT ![m] = heir]
         /\ orig' = [orig EXCEPT ![m] = os.prio[heir]]
         /\ os' = OS_Post(Restore(os, t, orig[m]), heir)
  /\ Return(opt)
  /\ UNCHANGED own

OSMutexPost(t, m, opt) ==
  /\ Running(t) /\ opt \in CallOpts \cap SUBSET {"NO_SCHED"}
  /\ owner[m] = t
  /\ Unnest(t, m) \/ Release(t, m) \/ HandOver(t, m, opt)
  /\ holds' = [holds EXCEPT ![t][m] = @ - 1]
  /\ UNCHANGED <<nest, lock, crit, arg>>

Next ==
  \/ KNext /\ UNCHANGED mvars
  \/ \E t \in Task :
       \/ OSMutexPendReturn(t)
       \/ \E m \in Obj :
            \/ \E timeout \in Timeouts : OSMutexPend(t, m, timeout)
            \/ \E opt \in Options : OSMutexPost(t, m, opt)

Spec == Init /\ [][Next]_vars

-----------------------------------------------------------------------------
(* Properties of mutexes.                                                  *)

(* A task told that it has a mutex is its owner, and the kernel counts its *)
(* acquisitions as it does; an owner not told yet is about to be.          *)
OwnerKnows ==
  \A m \in Obj :
    /\ \A t \in Task : holds[t][m] > 0 => owner[m] = t /\ own[m] = holds[t][m]
    /\ \A t \in Task : owner[m] = t /\ holds[t][m] = 0 =>
         /\ pc[t] \in {"pend", "wake"} /\ arg[t] = m
         /\ "PEND" \notin os.state[t] /\ os.pendStatus[t] = "OK"

(* Tasks wait only for a mutex that another task owns.                     *)
WaitersHaveOwner ==
  \A m \in Obj : /\ owner[m] = NoTask <=> own[m] = 0
                 /\ os.pend[m] # << >> =>
                      owner[m] \in Task \ Range(os.pend[m])

(* Who has a mutex is beyond doubt, for the tasks and in the kernel.       *)
OwnersAgree == OwnerKnows /\ WaitersHaveOwner

(* Priority inheritance: no waiter has a higher priority than the owner it *)
(* waits for, so that no task of a priority in between delays it.          *)
OwnerInherits ==
  \A m \in Obj : \A t \in Range(os.pend[m]) : os.prio[owner[m]] =< os.prio[t]

(* A task that owns no mutex runs at its own priority: OSMutexPost() has   *)
(* "Lower owner's priority back to its original one" (os_mutex.c:725).     *)
OwnPrioAfterPost ==
  \A t \in Task : Owned(t) = {} => os.prio[t] = InitPrio[t]

-----------------------------------------------------------------------------
(* Fairness: see KFairness; a pend returns, and an owner that runs undoes  *)
(* its nested acquisitions and gives its mutex back in the end.            *)
GiveBack(t, m, n) == own[m] = n /\ OSMutexPost(t, m, {})

Fairness ==
  /\ KFairness
  /\ SF_vars(\E t \in Task : OSMutexPendReturn(t))
  /\ \A n \in 1..MaxOwn : SF_vars(\E t \in Task, m \in Obj : GiveBack(t, m, n))

FairSpec == Spec /\ Fairness

(* The task of the highest priority gets the mutex it waits for, although  *)
(* a task of a lower priority owns it and one in between never blocks,     *)
(* unless it is told that its wait ended otherwise.                        *)
TopTaskGetsMutex ==
  \A t \in TopTask, m \in Obj :
    t \in Range(os.pend[m]) ~> owner[m] = t \/ os.pendStatus[t] # "OK"
=============================================================================
