----------------------------- MODULE OSObjects -----------------------------
(***************************************************************************)
(* Message queues and event flags on one kernel: a task waits for either,  *)
(* and whatever ends its wait must leave the other alone.                  *)
(***************************************************************************)
EXTENDS OSFlag, OSQ, OSCall

ASSUME ObjectsAssumption == Obj = Grp \cup Queue /\ Grp \cap Queue = {}

vars == <<kvars, fvars, qvars, callvars>>

TypeOK == KTypeOK /\ FlagTypeOK /\ QTypeOK /\ CallTypeOK

Init == KInit /\ FlagInit /\ QInit /\ CallInit

-----------------------------------------------------------------------------
(* Deletion and creation.                                                  *)

(* OS_OPT_DEL_NO_PEND is refused while a task waits; OS_OPT_DEL_ALWAYS     *)
(* readies the waiters, in the list's order.                               *)
PendListDel(t, o, opt) ==
  /\ Delete(t, o)
  /\ \/ /\ opt = "NO_PEND" /\ os.pend[o] = << >>
        /\ UNCHANGED <<os, pc>>
     \/ /\ opt = "ALWAYS"
        /\ os' = FoldLeft(OS_PendObjDel, os, os.pend[o])
        /\ Goto(t, "sched")
  /\ UNCHANGED <<nest, lock, crit>>

(* A woken task may not have run yet; it consumes its flags all the same.  *)
OSFlagDel(t, g, opt) ==
  /\ PendListDel(t, g, opt)
  /\ flags' = [flags EXCEPT ![g] = {}]
  /\ UNCHANGED <<want, flagsRdy, qvars>>

(* OS_QClr() gives the messages back to the pool.                          *)
OSQDel(t, q, opt) ==
  /\ PendListDel(t, q, opt)
  /\ MsgPtrs
  /\ msgs' = [msgs EXCEPT ![q] = << >>]
  /\ UNCHANGED <<post, fvars>>

OSFlagCreate(t, g) ==
  /\ Create(t, g)
  /\ flags' = [flags EXCEPT ![g] = {}]
  /\ UNCHANGED <<want, flagsRdy, qvars>>

OSQCreate(t, q) ==
  /\ Create(t, q)
  /\ msgs' = [msgs EXCEPT ![q] = << >>]
  /\ UNCHANGED <<msgPtr, post, fvars>>

Next ==
  \/ CNext /\ KernelMsgs /\ UNCHANGED fvars
  \/ \E g \in Grp : Passed(g) /\ FlagCalls(g) /\ UNCHANGED qvars
  \/ \E q \in Queue : Passed(q) /\ QCalls(q) /\ UNCHANGED fvars
  \/ /\ \E t \in Task :
          \/ want[t] # NoWant /\ OSFlagPendReturn(t) /\ UNCHANGED qvars
          \/ want[t] = NoWant /\ OSQPendReturn(t) /\ UNCHANGED fvars
     /\ UNCHANGED callvars
  \/ \E t \in Task, opt \in {"NO_PEND", "ALWAYS"} :
       \/ \E g \in Grp : OSFlagDel(t, g, opt)
       \/ \E q \in Queue : OSQDel(t, q, opt)
  \/ \E t \in Task : \/ \E g \in Grp : OSFlagCreate(t, g)
                      \/ \E q \in Queue : OSQCreate(t, q)

Spec == Init /\ [][Next]_vars

-----------------------------------------------------------------------------
(* A queue keeps the promises of AbsQ: a message that was handed to a      *)
(* waiter is the one it returns with, once, whatever timeouts, aborts,     *)
(* deletions and other posts come before it runs again; queued ones keep   *)
(* their order.                                                            *)
WaitsOn(t) == IF os.pendObj[t] \in Queue THEN os.pendObj[t] ELSE NoObj

Outcome(t) ==
  IF \/ pc[t] \notin {"pend", "wake"} \/ want[t] # NoWant
     \/ "PEND" \in os.state[t] THEN {}
  ELSE IF os.pendStatus[t] = "OK" THEN {msgPtr[t]} ELSE {"nothing"}

Handing(q) ==
  IF crit.op = "post" /\ crit.obj = q THEN [left |-> crit.left, msg |-> post]
  ELSE [left |-> 0, msg |-> "none"]

Abs == INSTANCE AbsQ WITH
  NoQueue <- NoObj, Pool <- PoolSize, queue <- msgs,
  waits <- [t \in Task |-> WaitsOn(t)],
  outcome <- [t \in Task |-> Outcome(t)],
  handing <- [q \in Queue |-> Handing(q)]

ImplementsAbs == Abs!ASpec
=============================================================================
