------------------------------- MODULE OSSem -------------------------------
(***************************************************************************)
(* Counting semaphores (os_sem.c) on the kernel of OSKernel: pend with or  *)
(* without a timeout, post to one or to all from tasks and from interrupt  *)
(* handlers, abort, set.  Obj is the set of semaphores.                    *)
(***************************************************************************)
EXTENDS OSKernel

CONSTANTS InitCtr,   \* the count OSSemCreate() gave each semaphore
          MaxCtr     \* the largest count an OS_SEM_CTR holds (bound)

ASSUME SemAssumption == InitCtr \in [Obj -> 0..MaxCtr] /\ MaxCtr \in Nat

VARIABLE ctr         \* p_sem->Ctr of each semaphore

vars == <<kvars, ctr>>

TypeOK == KTypeOK /\ ctr \in [Obj -> 0..MaxCtr]

Init == KInit /\ ctr = InitCtr

-----------------------------------------------------------------------------
(* OSSemPend() up to its first OSSched().  A non-blocking call and a call  *)
(* with the scheduler locked that find no unit return with nothing done.   *)
OSSemPend(t, s, timeout) ==
  /\ Running(t)
  /\ \/ /\ ctr[s] > 0
        /\ ctr' = [ctr EXCEPT ![s] = @ - 1]
        /\ UNCHANGED <<os, pc>>
     \/ /\ ctr[s] = 0 /\ lock = 0
        /\ os' = OS_Pend(os, s, "SEM", timeout)
        /\ Goto(t, "pend")
        /\ UNCHANGED ctr
  /\ UNCHANGED <<nest, lock, crit>>

(* The rest of OSSemPend(): PendStatus tells the caller how it ended.      *)
OSSemPendReturn(t) ==
  /\ os.cur = t /\ pc[t] = "wake" /\ nest = 0 /\ crit = Free
  /\ Goto(t, "run")
  /\ UNCHANGED <<os, nest, lock, crit, ctr>>

(* Mutant: no overflow check.                                              *)
MutantSemPost(s, opt) ==
  /\ opt \in CallOpts
  /\ IF os.pend[s] = << >>
     THEN ctr' = [ctr EXCEPT ![s] = @ + 1] /\ UNCHANGED crit
     ELSE /\ crit' = PendLoop("post", s, opt,
                              IF "ALL" \in opt THEN Len(os.pend[s]) ELSE 1)
          /\ UNCHANGED ctr
  /\ UNCHANGED <<os, pc, nest, lock>>

(* OS_SemPost() called by the running task or by an interrupt handler.     *)
OS_SemPost(s, opt) ==
  /\ opt \in CallOpts
  /\ IF os.pend[s] = << >>
     THEN /\ ctr[s] < MaxCtr
          /\ ctr' = [ctr EXCEPT ![s] = @ + 1]
          /\ UNCHANGED crit
     ELSE /\ crit' = PendLoop("post", s, opt,
                              IF "ALL" \in opt THEN Len(os.pend[s]) ELSE 1)
          /\ UNCHANGED ctr
  /\ UNCHANGED <<os, pc, nest, lock>>

OSSemPost(s, opt) ==
  /\ \/ \E t \in Task : Running(t)
     \/ crit = Free /\ nest > 0
  /\ OS_SemPost(s, opt)

(* Mutant: the count is set although tasks wait.                           *)
MutantSemSet(t, s, cnt) ==
  /\ "set" \in Uses /\ Running(t)
  /\ ctr' = [ctr EXCEPT ![s] = cnt]
  /\ UNCHANGED kvars

OSSemSet(t, s, cnt) ==
  /\ "set" \in Uses /\ Running(t)
  /\ ctr[s] > 0 \/ os.pend[s] = << >>
  /\ ctr' = [ctr EXCEPT ![s] = cnt]
  /\ UNCHANGED kvars

Next ==
  \/ KNext /\ UNCHANGED ctr
  \/ \E s \in Obj :
       \/ \E opt \in Options : OSSemPost(s, opt)
       \/ \E t \in Task :
            \/ \E timeout \in Timeouts : OSSemPend(t, s, timeout)
            \/ \E cnt \in 0..MaxCtr : OSSemSet(t, s, cnt)
  \/ \E t \in Task : OSSemPendReturn(t)

Spec == Init /\ [][Next]_vars

-----------------------------------------------------------------------------
(* Properties of semaphores.                                               *)

(* No signal is lost: while a semaphore has units left no task waits on it.*)
NoLostSignal == \A s \in Obj : ctr[s] > 0 => os.pend[s] = << >>

(* A semaphore keeps the promises of AbsSem: a task waits while its state  *)
(* says so, and from then until it reads PendStatus its outcome is what    *)
(* PendStatus holds.  Every unit posted reaches exactly one waiter, and is *)
(* not taken back by a timeout or an abort that comes before the waiter    *)
(* runs again.                                                             *)
Outcome(t) ==
  IF pc[t] \notin {"pend", "wake"} \/ "PEND" \in os.state[t] THEN "none"
  ELSE IF os.pendStatus[t] = "OK" THEN "unit" ELSE "nothing"

Handing(s) == IF crit.op = "post" /\ crit.obj = s THEN crit.left ELSE 0

Abs == INSTANCE AbsSem WITH
  Sem <- Obj, NoSem <- NoObj, InitCount <- InitCtr, MaxCount <- MaxCtr,
  count <- ctr, waits <- os.pendObj, handing <- [s \in Obj |-> Handing(s)],
  outcome <- [t \in Task |-> Outcome(t)], Deletes <- "del" \in Uses

ImplementsAbs == Abs!ASpec

-----------------------------------------------------------------------------
(* Fairness: see KFairness; a task that returns from a pend does so.       *)
Fairness == KFairness /\ SF_vars(\E t \in Task : OSSemPendReturn(t))

FairSpec == Spec /\ Fairness
=============================================================================
