-------------------------------- MODULE OSQ --------------------------------
(***************************************************************************)
(* Message queues (os_q.c) on the kernel of OSKernel.  A queue's messages  *)
(* are a sequence, and all queues share one pool of blocks, which OSMsg    *)
(* shows os_msg.c to implement.                                            *)
(***************************************************************************)
EXTENDS OSKernel

CONSTANTS Queue,     \* the message queues among the objects
          Msg,       \* what the application posts
          NoMsg,     \* a null MsgPtr
          Size,      \* the size OSQCreate() gave each queue
          PoolSize   \* OSCfg_MsgPoolSize

ASSUME QAssumption ==
  /\ Queue \subseteq Obj /\ NoMsg \notin Msg
  /\ Size \in [Queue -> Nat \ {0}] /\ PoolSize \in Nat \ {0}

VARIABLES msgs,   \* p_q->MsgQ of each queue, oldest message first
          msgPtr, \* MsgPtr of each task
          post    \* the message of the post whose loop runs, NoMsg if none

qvars == <<msgs, msgPtr, post>>

QTypeOK ==
  /\ \A q \in Queue : msgs[q] \in Seq(Msg) /\ Len(msgs[q]) =< Size[q]
  /\ msgPtr \in [Task -> Msg \cup {NoMsg}]
  /\ post \in Msg \cup {NoMsg}

QInit ==
  /\ msgs = [q \in Queue |-> << >>]
  /\ msgPtr = [t \in Task |-> NoMsg]
  /\ post = NoMsg

-----------------------------------------------------------------------------
NbrUsed == MapThenSumSet(LAMBDA q : Len(msgs[q]), Queue)

(* A full queue and an empty pool make the post return an error.           *)
OS_MsgQPut(q, m, lifo) ==
  /\ Len(msgs[q]) < Size[q] /\ NbrUsed < PoolSize
  /\ msgs' = [msgs EXCEPT ![q] = IF lifo THEN <<m>> \o @ ELSE Append(@, m)]

(* OSQPend() up to its first OSSched().                                    *)
OSQPend(t, q, timeout) ==
  /\ Running(t)
  /\ \/ /\ msgs[q] # << >>
        /\ msgs' = [msgs EXCEPT ![q] = Tail(@)]
        /\ UNCHANGED <<os, pc>>
     \/ /\ msgs[q] = << >> /\ lock = 0
        /\ os' = OS_Pend(os, q, "Q", timeout)
        /\ Goto(t, "pend")
        /\ UNCHANGED msgs
  /\ UNCHANGED <<nest, lock, crit, msgPtr, post>>

(* The rest of OSQPend(): the message is the one the TCB holds.            *)
OSQPendReturn(t) ==
  /\ os.cur = t /\ pc[t] = "wake" /\ nest = 0 /\ crit = Free
  /\ Goto(t, "run")
  /\ UNCHANGED <<os, nest, lock, crit, qvars>>

(* Mutant: a message is queued although tasks wait.                        *)
MutantQPost(q, m, lifo, opt) ==
  /\ opt \in CallOpts
  /\ OS_MsgQPut(q, m, lifo)
  /\ UNCHANGED <<kvars, msgPtr, post>>

(* OS_QPost() called by the running task or by an interrupt handler.       *)
OS_QPost(q, m, lifo, opt) ==
  /\ opt \in CallOpts
  /\ IF os.pend[q] = << >>
     THEN /\ OS_MsgQPut(q, m, lifo)
          /\ UNCHANGED <<crit, post>>
     ELSE /\ crit' = PendLoop("post", q, opt,
                              IF "ALL" \in opt THEN Len(os.pend[q]) ELSE 1)
          /\ post' = m
          /\ UNCHANGED msgs
  /\ UNCHANGED <<os, pc, nest, lock, msgPtr>>

OSQPost(q, m, lifo, opt) ==
  /\ \/ \E t \in Task : Running(t)
     \/ crit = Free /\ nest > 0
  /\ OS_QPost(q, m, lifo, opt)

OSQFlush(t, q) ==
  /\ Running(t)
  /\ msgs' = [msgs EXCEPT ![q] = << >>]
  /\ UNCHANGED <<kvars, msgPtr, post>>

(* Mutant: the TCB keeps the message of an earlier pend.                   *)
MutantMsgPtrs ==
  msgPtr' = [t \in Task |->
    IF os.pendObj[t] # NoObj /\ os'.pendObj[t] = NoObj /\ msgPtr[t] = NoMsg
    THEN post ELSE msgPtr[t]]

(* MsgPtr in a step that ends pends: OS_Post() stores the message, a       *)
(* timeout and an abort clear it.                                          *)
MsgPtrs ==
  msgPtr' = [t \in Task |->
    IF os.pendObj[t] # NoObj /\ os'.pendObj[t] = NoObj
    THEN IF crit.op = "post" THEN post ELSE NoMsg
    ELSE msgPtr[t]]

(* What the kernel's steps do to the messages.                             *)
KernelMsgs ==
  /\ MsgPtrs
  /\ post' = IF crit' = Free THEN NoMsg ELSE post
  /\ UNCHANGED msgs

(* The calls on a queue; OSQPendAbort() is PendAbort().                    *)
QCalls(q) ==
  \/ \E m \in Msg, lifo \in BOOLEAN, opt \in Options : OSQPost(q, m, lifo, opt)
  \/ \E t \in Task :
       \/ \E timeout \in Timeouts : OSQPend(t, q, timeout)
       \/ OSQFlush(t, q)

-----------------------------------------------------------------------------
(* Properties of message queues.                                           *)

(* No task waits while a message lies in its queue.                        *)
NoMessageWaits == \A q \in Queue : msgs[q] # << >> => os.pend[q] = << >>
=============================================================================
