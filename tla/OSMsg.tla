------------------------------- MODULE OSMsg -------------------------------
(***************************************************************************)
(* Message queues and the pool of message blocks they share (os_msg.c), at *)
(* the level of the C code's links and counters.  Each function is called  *)
(* with interrupts disabled or the scheduler locked, so it is one action.  *)
(* A block's NextPtr is not always set when it is linked in: the counters  *)
(* say how far a chain may be followed.                                    *)
(***************************************************************************)
EXTENDS Naturals, SequencesExt

CONSTANTS Blocks,   \* OSCfg_MsgPoolSize
          Queue,    \* message queues
          Size,     \* NbrEntriesSize of each queue
          Val,      \* what is posted
          NoVal     \* a null MsgPtr

MsgAssumption ==
  /\ Blocks \in Nat \ {0}
  /\ Size \in [Queue -> Nat \ {0}]
  /\ NoVal \notin Val

Null == 0
Ptr == 0..Blocks   \* OS_MSG *, as the index of the block, counted from 1
Msg == 1..Blocks

VARIABLES next,   \* NextPtr of each block
          data,   \* MsgPtr of each block
          pool,   \* OSMsgPool
          mq,     \* the OS_MSG_Q of each queue
          ret     \* the value the last call returned

vars == <<next, data, pool, mq, ret>>

TypeOK ==
  /\ next \in [Msg -> Ptr]
  /\ data \in [Msg -> Val \cup {NoVal}]
  /\ pool \in [NextPtr : Ptr, NbrFree : 0..Blocks, NbrUsed : 0..Blocks]
  /\ mq \in [Queue -> [InPtr : Ptr, OutPtr : Ptr, NbrEntries : 0..Blocks]]
  /\ ret \in Val \cup {NoVal}

OS_MsgQInit == [InPtr |-> Null, OutPtr |-> Null, NbrEntries |-> 0]

(* OS_MsgPoolInit(): the blocks are chained in the order of the array.     *)
Init ==
  /\ next = [m \in Msg |-> IF m = Blocks THEN Null ELSE m + 1]
  /\ data = [m \in Msg |-> NoVal]
  /\ pool = [NextPtr |-> 1, NbrFree |-> Blocks, NbrUsed |-> 0]
  /\ mq = [q \in Queue |-> OS_MsgQInit]
  /\ ret = NoVal

-----------------------------------------------------------------------------
(* The pool after a chain of n blocks that begins with first came back,    *)
(* and after its first block was taken.                                    *)
PoolBack(first, n) ==
  [NextPtr |-> first, NbrFree |-> pool.NbrFree + n, NbrUsed |-> pool.NbrUsed - n]

PoolTake ==
  [NextPtr |-> next[pool.NextPtr], NbrFree |-> pool.NbrFree - 1, NbrUsed |-> pool.NbrUsed + 1]

OS_MsgQFreeAll(q) ==
  /\ mq[q].NbrEntries > 0
  /\ next' = [next EXCEPT ![mq[q].InPtr] = pool.NextPtr]
  /\ pool' = PoolBack(mq[q].OutPtr, mq[q].NbrEntries)
  /\ mq' = [mq EXCEPT ![q] = OS_MsgQInit]
  /\ ret' = NoVal
  /\ UNCHANGED data

OS_MsgQGet(q) ==
  LET m == mq[q].OutPtr
  IN  /\ mq[q].NbrEntries > 0
      /\ mq' = [mq EXCEPT ![q] =
                 IF next[m] = Null THEN OS_MsgQInit
                 ELSE [@ EXCEPT !.OutPtr = next[m], !.NbrEntries = mq[q].NbrEntries - 1]]
      /\ next' = [next EXCEPT ![m] = pool.NextPtr]
      /\ pool' = PoolBack(m, 1)
      /\ ret' = data[m]
      /\ UNCHANGED data

(* Mutant: the queue's last entry is still the one before.                 *)
MutantMsgQPut(q, v, lifo) ==
  LET m == pool.NextPtr
  IN  /\ mq[q].NbrEntries < Size[q] /\ pool.NbrFree > 0
      /\ pool' = PoolTake
      /\ IF mq[q].NbrEntries = 0
         THEN /\ mq' = [mq EXCEPT ![q] = [InPtr |-> m, OutPtr |-> m, NbrEntries |-> 1]]
              /\ UNCHANGED next
         ELSE /\ next' = IF lifo THEN [next EXCEPT ![m] = mq[q].OutPtr]
                                 ELSE [next EXCEPT ![mq[q].InPtr] = m, ![m] = Null]
              /\ mq' = [mq EXCEPT ![q].OutPtr = IF lifo THEN m ELSE @,
                                  ![q].NbrEntries = @ + 1]
      /\ data' = [data EXCEPT ![m] = v]
      /\ ret' = NoVal

(* A first entry keeps the NextPtr it had in the pool.                     *)
OS_MsgQPut(q, v, lifo) ==
  LET m == pool.NextPtr
  IN  /\ mq[q].NbrEntries < Size[q] /\ pool.NbrFree > 0
      /\ pool' = PoolTake
      /\ IF mq[q].NbrEntries = 0
         THEN /\ mq' = [mq EXCEPT ![q] = [InPtr |-> m, OutPtr |-> m, NbrEntries |-> 1]]
              /\ UNCHANGED next
         ELSE IF lifo
         THEN /\ next' = [next EXCEPT ![m] = mq[q].OutPtr]
              /\ mq' = [mq EXCEPT ![q].OutPtr = m, ![q].NbrEntries = @ + 1]
         ELSE /\ next' = [next EXCEPT ![mq[q].InPtr] = m, ![m] = Null]
              /\ mq' = [mq EXCEPT ![q].InPtr = m, ![q].NbrEntries = @ + 1]
      /\ data' = [data EXCEPT ![m] = v]
      /\ ret' = NoVal

Next == \E q \in Queue :
  \/ \E v \in Val, lifo \in BOOLEAN : OS_MsgQPut(q, v, lifo)
  \/ OS_MsgQGet(q)
  \/ OS_MsgQFreeAll(q)

Spec == Init /\ [][Next]_vars

-----------------------------------------------------------------------------
(* Properties.                                                             *)

(* The first n blocks of the chain that begins at block m.                 *)
Chain(m, n) ==
  LET Follow(p) == IF p = Null THEN Null ELSE next[p]
      at[i \in 1..n] == IF i = 1 THEN m ELSE Follow(at[i - 1])
  IN  at

Entries(q) == Chain(mq[q].OutPtr, mq[q].NbrEntries)
FreeBlocks == Chain(pool.NextPtr, pool.NbrFree)

Values(chain) ==
  [i \in DOMAIN chain |-> IF chain[i] = Null THEN NoVal ELSE data[chain[i]]]

Places(m) ==
  ({i \in DOMAIN FreeBlocks : FreeBlocks[i] = m} \X {"pool"})
    \cup UNION {{i \in DOMAIN Entries(q) : Entries(q)[i] = m} \X {q} : q \in Queue}

(* No block is lost and none is in two places: each is in the pool's chain *)
(* or in one queue's, once, whichever way links were left by puts at both  *)
(* ends, gets and flushes of several queues.                               *)
EachBlockOnce == \A m \in Msg : Cardinality(Places(m)) = 1

(* Queues are first in first out, or last in first out for those posted    *)
(* with that option, whatever the links through the pool.                  *)
Abs == INSTANCE AbsMsg WITH
  content <- [q \in Queue |-> Values(Entries(q))],
  free <- pool.NbrFree

ImplementsAbs == Abs!ASpec
=============================================================================
