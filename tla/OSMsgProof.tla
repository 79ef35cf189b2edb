----------------------------- MODULE OSMsgProof -----------------------------
(***************************************************************************)
(* Theorems about message blocks, for every number of blocks, queues and   *)
(* values: no block is lost or in two places, and the queues made of them  *)
(* implement AbsMsg.  The invariant is about witnesses: sequences of       *)
(* blocks that the links from the pool and from each queue run through,    *)
(* as far as the counters say.  They are what the walks of OSMsg meet.     *)
(***************************************************************************)
EXTENDS OSMsg, FiniteSetTheorems, SequenceTheorems, WellFoundedInduction, TLAPS

(* The links nx run from block m through the sequence s.                   *)
Linked(nx, s, m) ==
  /\ s # << >> => s[1] = m
  /\ \A i \in 1..Len(s) - 1 : nx[s[i]] = s[i + 1]

(* Every block is in one place of the pool's chain f or of one of the      *)
(* queues' chains e.                                                       *)
Apart(f, e) ==
  /\ \A i, j \in 1..Len(f) : f[i] = f[j] => i = j
  /\ \A q, r \in Queue : \A i \in 1..Len(e[q]), j \in 1..Len(e[r]) :
       e[q][i] = e[r][j] => q = r /\ i = j
  /\ \A q \in Queue : \A i \in 1..Len(f), j \in 1..Len(e[q]) : f[i] # e[q][j]
  /\ \A m \in Msg : \/ \E i \in 1..Len(f) : f[i] = m
                    \/ \E q \in Queue : \E i \in 1..Len(e[q]) : e[q][i] = m

(* A queue's InPtr is its last block.                                      *)
QueueHas(nx, r, s) ==
  /\ Linked(nx, s, r.OutPtr)
  /\ r.NbrEntries = Len(s)
  /\ s # << >> => s[Len(s)] = r.InPtr

Chains(f, e) ==
  /\ f \in Seq(Msg) /\ Linked(next, f, pool.NextPtr) /\ pool.NbrFree = Len(f)
  /\ e \in [Queue -> Seq(Msg)]
  /\ \A q \in Queue : QueueHas(next, mq[q], e[q])
  /\ Apart(f, e)

IInv ==
  /\ TypeOK
  /\ pool.NbrFree + pool.NbrUsed = Blocks
  /\ \E f, e : Chains(f, e)

-----------------------------------------------------------------------------
(* What a walk meets.                                                      *)

LEMMA Least ==
  ASSUME NEW T \in SUBSET Nat, T # {}
  PROVE  \E m \in T : \A n \in T : m =< n
<1>1. PICK m \in T : \A n \in T : ~(<<n, m>> \in OpToRel(<, Nat))
  BY NatLessThanWellFounded, WFMin
<1>2. \A n \in T : ~(n < m)
  BY <1>1 DEF OpToRel
<1> QED BY <1>2

(* Chain with the links as an argument.                                    *)
ChainOf(nx, m, n) ==
  LET Follow(p) == IF p = Null THEN Null ELSE nx[p]
      at[i \in 1..n] == IF i = 1 THEN m ELSE Follow(at[i - 1])
  IN  at

(* The links determine what a walk meets.                                  *)
LEMMA WalkMeets ==
  ASSUME NEW nx, NEW m, NEW s \in Seq(Msg), Linked(nx, s, m)
  PROVE  ChainOf(nx, m, Len(s)) = s
<1> DEFINE n == Len(s)
           Follow(p) == IF p = Null THEN Null ELSE nx[p]
           Step(f) == f = [i \in 1..n |-> IF i = 1 THEN m ELSE Follow(f[i - 1])]
<1>1. n \in Nat /\ s = [i \in 1..n |-> s[i]] /\ \A i \in 1..n : s[i] \in Msg
  BY LenProperties
<1>2. \A i \in 1..n : s[i] = IF i = 1 THEN m ELSE Follow(s[i - 1])
  <2> SUFFICES ASSUME NEW i \in 1..n PROVE s[i] = IF i = 1 THEN m ELSE Follow(s[i - 1])
    OBVIOUS
  <2>1. CASE i = 1
    <3>1. s # << >>
      BY <1>1, <2>1
    <3> QED BY <2>1, <3>1 DEF Linked
  <2>2. CASE i # 1
    <3>1. i - 1 \in 1..n - 1 /\ i - 1 \in 1..n /\ (i - 1) + 1 = i
      BY <1>1, <2>2
    <3>2. nx[s[i - 1]] = s[i] /\ s[i - 1] # Null
      BY <1>1, <3>1 DEF Linked, Msg, Null
    <3> QED BY <2>2, <3>2
  <2> QED BY <2>1, <2>2
<1>3. Step(s)
  BY <1>1, <1>2
<1>4. ASSUME NEW f, Step(f) PROVE f = s
  <2> DEFINE T == {i \in 1..n : f[i] # s[i]}
  <2>1. \A i \in 1..n : f[i] = IF i = 1 THEN m ELSE Follow(f[i - 1])
    BY <1>4
  <2> HIDE DEF Follow
  <2>2. CASE T = {}
    <3>1. \A i \in 1..n : f[i] = s[i]
      BY <2>2
    <3>2. f = [i \in 1..n |-> f[i]]
      BY <1>4
    <3> QED BY <1>1, <3>1, <3>2
  <2>3. CASE T # {}
    <3>a. T \in SUBSET Nat
      BY <1>1
    <3> HIDE DEF T
    <3>1. PICK k \in T : \A i \in T : k =< i
      BY <2>3, <3>a, Least
    <3> USE DEF T
    <3>2. k \in 1..n /\ f[k] # s[k]
      BY <3>1
    <3>3. k # 1
      BY <1>2, <2>1, <3>2
    <3>4. k - 1 \in 1..n /\ ~(k =< k - 1)
      BY <1>1, <3>2, <3>3
    <3>5. f[k - 1] = s[k - 1]
      BY <3>1, <3>4
    <3> QED BY <1>2, <2>1, <3>2, <3>3, <3>5
  <2> QED BY <2>2, <2>3
<1>5. \E f : Step(f)
  BY <1>3
<1>6. ChainOf(nx, m, n) = CHOOSE f : Step(f)
  BY DEF ChainOf
<1> QED BY <1>4, <1>5, <1>6

(* The sequences of an invariant are what the walks of OSMsg meet.         *)
LEMMA WalksMeet ==
  /\ \A f, e : Chains(f, e) => FreeBlocks = f /\ \A q \in Queue : Entries(q) = e[q]
  /\ \A f, e : Chains(f, e)' => FreeBlocks' = f /\ \A q \in Queue : Entries(q)' = e[q]
<1>1. /\ FreeBlocks = ChainOf(next, pool.NextPtr, pool.NbrFree)
      /\ FreeBlocks' = ChainOf(next', pool'.NextPtr, pool'.NbrFree)
  BY DEF FreeBlocks, Chain, ChainOf
<1>2. ASSUME NEW q \in Queue
      PROVE  /\ Entries(q) = ChainOf(next, mq[q].OutPtr, mq[q].NbrEntries)
             /\ Entries(q)' = ChainOf(next', mq'[q].OutPtr, mq'[q].NbrEntries)
  BY DEF Entries, Chain, ChainOf
<1>3. ASSUME NEW f, NEW e, Chains(f, e)
      PROVE  FreeBlocks = f /\ \A q \in Queue : Entries(q) = e[q]
  BY <1>1, <1>2, <1>3, WalkMeets DEF Chains, QueueHas
<1>4. ASSUME NEW f, NEW e, Chains(f, e)'
      PROVE  FreeBlocks' = f /\ \A q \in Queue : Entries(q)' = e[q]
  BY <1>1, <1>2, <1>4, WalkMeets DEF Chains, QueueHas
<1> QED BY <1>3, <1>4

(* Blocks that occur once are no more than there are.                      *)
LEMMA Fits ==
  ASSUME MsgAssumption, NEW s \in Seq(Msg), \A i, j \in 1..Len(s) : s[i] = s[j] => i = j
  PROVE  Len(s) \in 0..Blocks
<1>1. Len(s) \in Nat /\ s \in [1..Len(s) -> Msg] /\ Blocks \in Nat
  BY LenProperties DEF MsgAssumption
<1>2. IsFiniteSet(Msg) /\ Cardinality(Msg) = Blocks
  BY <1>1, FS_Interval DEF Msg
<1>3. IsFiniteSet(1..Len(s)) /\ Cardinality(1..Len(s)) = Len(s)
  BY <1>1, FS_Interval
<1>4. CASE Len(s) > Blocks
  BY <1>1, <1>2, <1>3, <1>4, FS_PigeonHole
<1> QED BY <1>1, <1>4

(* All that a step must show but for the counters of the pool.             *)
LEMMA Typed ==
  ASSUME MsgAssumption, NEW f, NEW e, Chains(f, e)'
  PROVE  /\ pool'.NbrFree \in 0..Blocks
         /\ \A q \in Queue : mq'[q].NbrEntries \in 0..Blocks
  BY Fits DEF Chains, QueueHas, Apart

(* What the chains of an invariant are to the counters and pointers.       *)
LEMMA ChainFacts ==
  ASSUME IInv, NEW f, NEW e, Chains(f, e)
  PROVE  /\ f \in Seq(Msg) /\ Len(f) \in Nat /\ \A i \in 1..Len(f) : f[i] \in Msg
         /\ pool.NbrFree = Len(f)
         /\ \A q \in Queue :
              /\ e[q] \in Seq(Msg) /\ Len(e[q]) \in Nat
              /\ \A i \in 1..Len(e[q]) : e[q][i] \in Msg
              /\ mq[q].NbrEntries = Len(e[q])
         /\ next \in [Msg -> Ptr] /\ data \in [Msg -> Val \cup {NoVal}]
         /\ e \in [Queue -> Seq(Msg)]
<1>1. f \in Seq(Msg) /\ e \in [Queue -> Seq(Msg)] /\ \A q \in Queue : e[q] \in Seq(Msg)
  BY DEF Chains
<1> QED BY <1>1, LenProperties, ElementOfSeq DEF Chains, QueueHas, IInv, TypeOK

-----------------------------------------------------------------------------
(* OS_MsgQFreeAll: the queue's chain goes before the pool's.               *)

LEMMA FreeAllChains ==
  ASSUME IInv, NEW q \in Queue, OS_MsgQFreeAll(q), NEW f, NEW e, Chains(f, e)
  PROVE  Chains(e[q] \o f, [e EXCEPT ![q] = << >>])'
<1> DEFINE s == e[q]
           g == s \o f
           d == [e EXCEPT ![q] = << >>]
           n == Len(s)
           k == Len(f)
<1>1. /\ s \in Seq(Msg) /\ n \in Nat /\ f \in Seq(Msg) /\ k \in Nat /\ n > 0
      /\ \A i \in 1..n : s[i] \in Msg
      /\ \A i \in 1..k : f[i] \in Msg
      /\ pool.NbrFree = k /\ mq[q].NbrEntries = n
  <2>1. mq[q].NbrEntries > 0
    BY DEF OS_MsgQFreeAll
  <2>2. /\ s \in Seq(Msg) /\ n \in Nat /\ \A i \in 1..n : s[i] \in Msg
        /\ mq[q].NbrEntries = n
    BY ChainFacts
  <2>3. /\ f \in Seq(Msg) /\ k \in Nat /\ \A i \in 1..k : f[i] \in Msg
        /\ pool.NbrFree = k
    BY ChainFacts
  <2> QED BY <2>1, <2>2, <2>3
<1>2. /\ g \in Seq(Msg) /\ Len(g) = n + k
      /\ \A i \in 1..n + k : g[i] = IF i =< n THEN s[i] ELSE f[i - n]
  BY <1>1, ConcatProperties
<1>3. /\ mq[q].OutPtr = s[1] /\ mq[q].InPtr = s[n] /\ s # << >>
      /\ \A i \in 1..n - 1 : next[s[i]] = s[i + 1]
      /\ f # << >> => f[1] = pool.NextPtr
      /\ \A i \in 1..k - 1 : next[f[i]] = f[i + 1]
  BY <1>1 DEF Chains, QueueHas, Linked
<1>4. /\ next' = [next EXCEPT ![s[n]] = pool.NextPtr] /\ next \in [Msg -> Ptr]
      /\ pool' = PoolBack(s[1], n) /\ mq' = [mq EXCEPT ![q] = OS_MsgQInit]
      /\ s[n] \in Msg
  BY <1>1, <1>3, ChainFacts DEF OS_MsgQFreeAll
<1>5. /\ pool'.NextPtr = s[1] /\ pool'.NbrFree = n + k
      /\ next'[s[n]] = pool.NextPtr
      /\ \A m \in Msg : m # s[n] => next'[m] = next[m]
  BY <1>1, <1>4 DEF PoolBack
<1>6. /\ d \in [Queue -> Seq(Msg)] /\ d[q] = << >>
      /\ \A r \in Queue : r # q => d[r] = e[r]
  BY ChainFacts
<1>7. /\ \A i, j \in 1..n : s[i] = s[j] => i = j
      /\ \A i, j \in 1..k : f[i] = f[j] => i = j
      /\ \A i \in 1..k, j \in 1..n : f[i] # s[j]
      /\ \A r \in Queue : r # q => \A j \in 1..Len(e[r]) :
           e[r][j] \in Msg /\ (\A i \in 1..n : s[i] # e[r][j]) /\ (\A i \in 1..k : f[i] # e[r][j])
  BY ChainFacts DEF Chains, Apart
<1> HIDE DEF s, g, d, n, k
<1>8. Linked(next', g, pool'.NextPtr)
  <2>1. g[1] = s[1]
    BY <1>1, <1>2
  <2>2. ASSUME NEW i \in 1..n + k - 1
        PROVE  next'[g[i]] = g[i + 1]
    <3>1. i \in 1..n + k /\ i + 1 \in 1..n + k
      BY <1>1
    <3>2. CASE i < n
      <4>1. g[i] = s[i] /\ g[i + 1] = s[i + 1] /\ i \in 1..n /\ i \in 1..n - 1 /\ n \in 1..n
        BY <1>1, <1>2, <3>1, <3>2
      <4>2. s[i] # s[n]
        BY <1>7, <3>2, <4>1
      <4> QED BY <1>1, <1>3, <1>5, <4>1, <4>2
    <3>3. CASE i = n
      <4>1. g[i] = s[n] /\ g[i + 1] = f[1] /\ k > 0
        BY <1>1, <1>2, <3>1, <3>3
      <4>2. f # << >>
        BY <1>1, <4>1 DEF k
      <4> QED BY <1>3, <1>5, <4>1, <4>2
    <3>4. CASE i > n
      <4>1. /\ g[i] = f[i - n] /\ g[i + 1] = f[(i - n) + 1]
            /\ i - n \in 1..k /\ i - n \in 1..k - 1 /\ n \in 1..n
        <5>1. (i + 1) - n = (i - n) + 1
          BY <1>1, <3>1
        <5> QED BY <1>1, <1>2, <3>1, <3>4, <5>1
      <4>2. f[i - n] # s[n] /\ f[i - n] \in Msg
        BY <1>1, <1>7, <4>1
      <4> QED BY <1>3, <1>5, <4>1, <4>2
    <3> QED BY <1>1, <3>2, <3>3, <3>4
  <2>3. \A i \in 1..Len(g) - 1 : next'[g[i]] = g[i + 1]
    BY <1>1, <1>2, <2>2
  <2> QED BY <1>5, <2>1, <2>3 DEF Linked
<1>9. ASSUME NEW r \in Queue
      PROVE  QueueHas(next', mq'[r], d[r])
  <2>1. CASE r = q
    <3>1. mq'[q] = OS_MsgQInit
      BY <1>4 DEF IInv, TypeOK
    <3>2. Len(d[q]) = 0 /\ 1..Len(d[q]) - 1 = {}
      BY <1>6
    <3> QED BY <1>6, <2>1, <3>1, <3>2 DEF QueueHas, Linked, OS_MsgQInit
  <2>2. CASE r # q
    <3>1. mq'[r] = mq[r] /\ d[r] = e[r] /\ QueueHas(next, mq[r], e[r])
      BY <1>4, <1>6, <2>2 DEF IInv, TypeOK, Chains
    <3>2. ASSUME NEW i \in 1..Len(e[r]) - 1 PROVE next'[e[r][i]] = next[e[r][i]]
      <4>1. i \in 1..Len(e[r]) /\ n \in 1..n
        BY <1>1, ChainFacts
      <4> QED BY <1>5, <1>7, <2>2, <4>1
    <3> QED BY <3>1, <3>2 DEF QueueHas, Linked
  <2> QED BY <2>1, <2>2
<1>10. Apart(g, d)
  <2>1. ASSUME NEW i \in 1..Len(g), NEW j \in 1..Len(g), g[i] = g[j] PROVE i = j
    <3>1. i \in 1..n + k /\ j \in 1..n + k
      BY <1>2
    <3>2. /\ i =< n => i \in 1..n /\ g[i] = s[i]
          /\ ~(i =< n) => i - n \in 1..k /\ g[i] = f[i - n]
          /\ j =< n => j \in 1..n /\ g[j] = s[j]
          /\ ~(j =< n) => j - n \in 1..k /\ g[j] = f[j - n]
      BY <1>1, <1>2, <3>1
    <3>3. CASE i =< n /\ j =< n
      BY <1>7, <2>1, <3>2, <3>3
    <3>4. CASE ~(i =< n) /\ ~(j =< n)
      <4>1. i - n = j - n
        BY <1>7, <2>1, <3>2, <3>4
      <4> QED BY <1>1, <3>1, <4>1
    <3>5. CASE (i =< n) # (j =< n)
      BY <1>7, <2>1, <3>2, <3>5
    <3> QED BY <3>3, <3>4, <3>5
  <2>2. ASSUME NEW r \in Queue, NEW u \in Queue,
               NEW i \in 1..Len(d[r]), NEW j \in 1..Len(d[u]), d[r][i] = d[u][j]
        PROVE  r = u /\ i = j
    <3>1. r # q /\ u # q
      BY <1>6
    <3> QED BY <1>6, <2>2, <3>1 DEF Chains, Apart
  <2>3. ASSUME NEW r \in Queue, NEW i \in 1..Len(g), NEW j \in 1..Len(d[r])
        PROVE  g[i] # d[r][j]
    <3>1. r # q /\ d[r] = e[r] /\ i \in 1..n + k
      BY <1>2, <1>6
    <3>2. g[i] \in {s[x] : x \in 1..n} \cup {f[x] : x \in 1..k}
      <4>1. i =< n => i \in 1..n
        BY <1>1, <3>1
      <4>2. ~(i =< n) => i - n \in 1..k
        BY <1>1, <3>1
      <4> QED BY <1>2, <3>1, <4>1, <4>2
    <3> QED BY <1>7, <3>1, <3>2
  <2>4. ASSUME NEW m \in Msg
        PROVE  \/ \E i \in 1..Len(g) : g[i] = m
               \/ \E r \in Queue : \E i \in 1..Len(d[r]) : d[r][i] = m
    <3>1. CASE \E i \in 1..k : f[i] = m
      <4>1. PICK i \in 1..k : f[i] = m
        BY <3>1
      <4>2. i + n \in 1..n + k /\ ~(i + n =< n) /\ (i + n) - n = i
        BY <1>1
      <4> QED BY <1>2, <4>1, <4>2
    <3>2. CASE \E r \in Queue : \E i \in 1..Len(e[r]) : e[r][i] = m
      <4>1. PICK r \in Queue : \E i \in 1..Len(e[r]) : e[r][i] = m
        BY <3>2
      <4>2. CASE r # q
        BY <1>6, <4>1, <4>2
      <4>3. CASE r = q
        <5>1. PICK i \in 1..n : s[i] = m
          BY <4>1, <4>3 DEF s, n
        <5>2. i \in 1..n + k /\ i =< n
          BY <1>1
        <5> QED BY <1>2, <5>1, <5>2
      <4> QED BY <4>2, <4>3
    <3> QED BY <3>1, <3>2 DEF Chains, Apart, k
  <2> QED BY <2>1, <2>2, <2>3, <2>4 DEF Apart
<1> QED BY <1>2, <1>5, <1>6, <1>8, <1>9, <1>10 DEF Chains, g, d, s, k

-----------------------------------------------------------------------------
(* OS_MsgQGet: the queue's first block becomes the pool's.                 *)

LEMMA Consed ==
  ASSUME NEW S, NEW m \in S, NEW s \in Seq(S)
  PROVE  /\ <<m>> \o s \in Seq(S) /\ Len(<<m>> \o s) = Len(s) + 1
         /\ \A i \in 1..Len(s) + 1 : (<<m>> \o s)[i] = IF i = 1 THEN m ELSE s[i - 1]
<1>1. <<m>> \in Seq(S) /\ Len(<<m>>) = 1 /\ <<m>>[1] = m
  OBVIOUS
<1>2. /\ <<m>> \o s \in Seq(S) /\ Len(<<m>> \o s) = 1 + Len(s) /\ Len(s) \in Nat
      /\ \A i \in 1..1 + Len(s) : (<<m>> \o s)[i] = IF i <= 1 THEN <<m>>[i] ELSE s[i - 1]
  BY <1>1, ConcatProperties, LenProperties
<1> QED BY <1>1, <1>2

LEMMA TailIs ==
  ASSUME NEW S, NEW s \in Seq(S), Len(s) > 0
  PROVE  /\ Tail(s) \in Seq(S) /\ Len(Tail(s)) = Len(s) - 1 /\ Len(s) \in Nat
         /\ \A i \in 1..Len(s) - 1 : Tail(s)[i] = s[i + 1]
<1>1. s # << >>
  BY LenProperties
<1> QED BY <1>1, HeadTailProperties, LenProperties

LEMMA GetChains ==
  ASSUME IInv, NEW q \in Queue, OS_MsgQGet(q), NEW f, NEW e, Chains(f, e)
  PROVE  Chains(<<e[q][1]>> \o f, [e EXCEPT ![q] = Tail(@)])' /\ mq[q].OutPtr = e[q][1]
<1> DEFINE s == e[q]
           m == s[1]
           g == <<m>> \o f
           d == [e EXCEPT ![q] = Tail(@)]
           n == Len(s)
           k == Len(f)
<1>1. /\ s \in Seq(Msg) /\ n \in Nat /\ f \in Seq(Msg) /\ k \in Nat /\ n > 0
      /\ \A i \in 1..n : s[i] \in Msg
      /\ \A i \in 1..k : f[i] \in Msg
      /\ pool.NbrFree = k /\ mq[q].NbrEntries = n
  <2>1. mq[q].NbrEntries > 0
    BY DEF OS_MsgQGet
  <2> QED BY <2>1, ChainFacts
<1>2. m \in Msg
  BY <1>1
<1>3. /\ g \in Seq(Msg) /\ Len(g) = k + 1
      /\ \A i \in 1..k + 1 : g[i] = IF i = 1 THEN m ELSE f[i - 1]
  BY <1>1, <1>2, Consed
<1>4. /\ mq[q].OutPtr = m /\ mq[q].InPtr = s[n]
      /\ \A i \in 1..n - 1 : next[s[i]] = s[i + 1]
      /\ f # << >> => f[1] = pool.NextPtr
      /\ \A i \in 1..k - 1 : next[f[i]] = f[i + 1]
  <2>1. s # << >>
    BY <1>1
  <2> QED BY <1>1, <2>1 DEF Chains, QueueHas, Linked
<1>5. /\ next' = [next EXCEPT ![m] = pool.NextPtr] /\ next \in [Msg -> Ptr]
      /\ pool' = PoolBack(m, 1)
      /\ mq' = [mq EXCEPT ![q] = IF next[m] = Null THEN OS_MsgQInit
                 ELSE [mq[q] EXCEPT !.OutPtr = next[m], !.NbrEntries = mq[q].NbrEntries - 1]]
  BY <1>1, <1>4, ChainFacts DEF OS_MsgQGet
<1>6. /\ pool'.NextPtr = m /\ pool'.NbrFree = k + 1
      /\ next'[m] = pool.NextPtr
      /\ \A b \in Msg : b # m => next'[b] = next[b]
  BY <1>1, <1>2, <1>5 DEF PoolBack
<1>7. /\ d \in [Queue -> Seq(Msg)] /\ d[q] = Tail(s) /\ Len(d[q]) = n - 1
      /\ \A i \in 1..n - 1 : d[q][i] = s[i + 1]
      /\ \A r \in Queue : r # q => d[r] = e[r]
  <2>1. Tail(s) \in Seq(Msg) /\ Len(Tail(s)) = n - 1 /\ \A i \in 1..n - 1 : Tail(s)[i] = s[i + 1]
    BY <1>1, TailIs
  <2>2. e \in [Queue -> Seq(Msg)]
    BY ChainFacts
  <2> QED BY <2>1, <2>2
<1>8. /\ \A i, j \in 1..n : s[i] = s[j] => i = j
      /\ \A i, j \in 1..k : f[i] = f[j] => i = j
      /\ \A i \in 1..k, j \in 1..n : f[i] # s[j]
      /\ \A r \in Queue : r # q => \A j \in 1..Len(e[r]) :
           e[r][j] \in Msg /\ (\A i \in 1..n : s[i] # e[r][j]) /\ (\A i \in 1..k : f[i] # e[r][j])
  BY ChainFacts DEF Chains, Apart
<1>9. 1 \in 1..n /\ \A i \in 1..n - 1 : i \in 1..n /\ i + 1 \in 1..n /\ s[i + 1] # m
  BY <1>1, <1>8
<1> HIDE DEF s, g, d, n, k
<1>10. Linked(next', g, pool'.NextPtr)
  <2>1. g[1] = m
    BY <1>1, <1>3
  <2>2. ASSUME NEW i \in 1..Len(g) - 1
        PROVE  next'[g[i]] = g[i + 1]
    <3>1. i \in 1..k /\ i \in 1..k + 1 /\ i + 1 \in 1..k + 1 /\ (i + 1) - 1 = i /\ i + 1 # 1
      BY <1>1, <1>3
    <3>2. g[i + 1] = f[i]
      BY <1>3, <3>1
    <3>3. CASE i = 1
      <4>1. f # << >>
        BY <3>1, <3>3 DEF k
      <4> QED BY <1>4, <1>6, <2>1, <3>2, <3>3, <4>1
    <3>4. CASE i # 1
      <4>1. g[i] = f[i - 1] /\ i - 1 \in 1..k - 1 /\ i - 1 \in 1..k /\ (i - 1) + 1 = i
        BY <1>1, <1>3, <3>1, <3>4
      <4>2. f[i - 1] # m /\ f[i - 1] \in Msg
        BY <1>1, <1>8, <1>9, <4>1 DEF m
      <4> QED BY <1>4, <1>6, <3>2, <4>1, <4>2
    <3> QED BY <3>3, <3>4
  <2> QED BY <1>6, <2>1, <2>2 DEF Linked
<1>11. ASSUME NEW r \in Queue
       PROVE  QueueHas(next', mq'[r], d[r])
  <2>1. CASE r = q
    <3>1. \A i \in 1..n - 1 : next[m] = s[2] \/ i # 1
      BY <1>4 DEF m
    <3>2. n > 1 => next[m] = s[2] /\ s[2] \in Msg /\ next[m] # Null
      <4>1. n > 1 => 1 \in 1..n - 1 /\ 2 \in 1..n
        BY <1>1
      <4> QED BY <1>1, <3>1, <4>1 DEF Msg, Null
    <3>3. /\ mq[q] \in [InPtr : Ptr, OutPtr : Ptr, NbrEntries : 0..Blocks]
          /\ mq'[q] = IF next[m] = Null THEN OS_MsgQInit
                 ELSE [mq[q] EXCEPT !.OutPtr = next[m], !.NbrEntries = mq[q].NbrEntries - 1]
      BY <1>5 DEF IInv, TypeOK
    <3>4. mq'[q].NbrEntries = n - 1
      BY <1>1, <3>2, <3>3 DEF OS_MsgQInit
    <3>5. n > 1 => mq'[q].OutPtr = next[m] /\ mq'[q].InPtr = s[n]
      BY <1>1, <1>4, <3>2, <3>3
    <3>6. d[q] # << >> => n > 1
      <4>1. n = 1 => Len(d[q]) = 0
        BY <1>7
      <4>2. d[q] \in Seq(Msg)
        BY <1>7
      <4>3. n = 1 => d[q] = << >>
        BY <4>1, <4>2
      <4> QED BY <1>1, <4>3
    <3>7. ASSUME NEW i \in 1..Len(d[q]) - 1 PROVE next'[d[q][i]] = d[q][i + 1]
      <4>1. /\ i \in 1..n - 1 /\ i + 1 \in 1..n - 1 /\ i + 1 \in 1..n
            /\ d[q][i] = s[i + 1] /\ d[q][i + 1] = s[(i + 1) + 1]
        BY <1>1, <1>7
      <4>2. s[i + 1] \in Msg /\ s[i + 1] # m
        BY <1>1, <1>9, <4>1
      <4> QED BY <1>4, <1>6, <4>1, <4>2
    <3>8. n > 1 => 1 \in 1..n - 1 /\ d[q][1] = s[2] /\ d[q][n - 1] = s[n]
      <4>1. n > 1 => 1 \in 1..n - 1 /\ n - 1 \in 1..n - 1 /\ (n - 1) + 1 = n /\ 1 + 1 = 2
        BY <1>1
      <4> QED BY <1>7, <4>1
    <3> QED BY <1>7, <2>1, <3>2, <3>4, <3>5, <3>6, <3>7, <3>8 DEF QueueHas, Linked
  <2>2. CASE r # q
    <3>1. mq'[r] = mq[r] /\ d[r] = e[r] /\ QueueHas(next, mq[r], e[r])
      BY <1>5, <1>7, <2>2 DEF IInv, TypeOK, Chains
    <3>2. ASSUME NEW i \in 1..Len(e[r]) - 1 PROVE next'[e[r][i]] = next[e[r][i]]
      <4>1. i \in 1..Len(e[r])
        BY ChainFacts
      <4> QED BY <1>6, <1>8, <1>9, <2>2, <4>1 DEF m
    <3> QED BY <3>1, <3>2 DEF QueueHas, Linked
  <2> QED BY <2>1, <2>2
<1>12. Apart(g, d)
  <2>1. ASSUME NEW i \in 1..Len(g), NEW j \in 1..Len(g), g[i] = g[j] PROVE i = j
    <3>1. /\ i \in 1..k + 1 /\ j \in 1..k + 1
          /\ i # 1 => i - 1 \in 1..k /\ g[i] = f[i - 1]
          /\ j # 1 => j - 1 \in 1..k /\ g[j] = f[j - 1]
          /\ i = 1 => g[i] = m
          /\ j = 1 => g[j] = m
      BY <1>1, <1>3
    <3>2. \A x \in 1..k : f[x] # m
      BY <1>8, <1>9 DEF m
    <3>3. CASE i # 1 /\ j # 1
      <4>1. i - 1 = j - 1
        BY <1>8, <2>1, <3>1, <3>3
      <4> QED BY <1>1, <3>1, <4>1
    <3> QED BY <2>1, <3>1, <3>2, <3>3
  <2>2. \A i \in 1..Len(d[q]) : i + 1 \in 1..n /\ i \in 1..n - 1 /\ d[q][i] = s[i + 1]
    BY <1>1, <1>7
  <2>3. ASSUME NEW r \in Queue, NEW u \in Queue,
               NEW i \in 1..Len(d[r]), NEW j \in 1..Len(d[u]), d[r][i] = d[u][j]
        PROVE  r = u /\ i = j
    <3>1. CASE r = q /\ u = q
      <4>1. i + 1 = j + 1
        BY <1>8, <2>2, <2>3, <3>1
      <4>2. i \in Nat /\ j \in Nat
        BY <1>1, <1>7, <3>1
      <4> QED BY <3>1, <4>1, <4>2
    <3>2. CASE r # q /\ u # q
      BY <1>7, <2>3, <3>2 DEF Chains, Apart
    <3>3. CASE r = q /\ u # q
      <4>1. i + 1 \in 1..n /\ s[i + 1] = d[r][i]
        BY <2>2, <3>3
      <4>2. j \in 1..Len(e[u]) /\ e[u][j] = d[u][j]
        BY <1>7, <3>3
      <4> QED BY <1>8, <2>3, <3>3, <4>1, <4>2
    <3>4. CASE r # q /\ u = q
      <4>1. j + 1 \in 1..n /\ s[j + 1] = d[u][j]
        BY <2>2, <3>4
      <4>2. i \in 1..Len(e[r]) /\ e[r][i] = d[r][i]
        BY <1>7, <3>4
      <4> QED BY <1>8, <2>3, <3>4, <4>1, <4>2
    <3> QED BY <3>1, <3>2, <3>3, <3>4
  <2>4. ASSUME NEW r \in Queue, NEW i \in 1..Len(g), NEW j \in 1..Len(d[r])
        PROVE  g[i] # d[r][j]
    <3>1. /\ i = 1 => g[i] = m
          /\ i # 1 => i - 1 \in 1..k /\ g[i] = f[i - 1]
      BY <1>1, <1>3
    <3>2. CASE r = q
      BY <1>8, <1>9, <2>2, <3>1, <3>2
    <3>3. CASE r # q
      <4>1. d[r] = e[r] /\ m = s[1]
        BY <1>7, <3>3 DEF m
      <4> QED BY <1>8, <1>9, <3>1, <3>3, <4>1
    <3> QED BY <3>2, <3>3
  <2>5. ASSUME NEW b \in Msg
        PROVE  \/ \E i \in 1..Len(g) : g[i] = b
               \/ \E r \in Queue : \E i \in 1..Len(d[r]) : d[r][i] = b
    <3>1. CASE \E i \in 1..k : f[i] = b
      <4>1. PICK i \in 1..k : f[i] = b
        BY <3>1
      <4>2. i + 1 \in 1..k + 1 /\ i + 1 # 1 /\ (i + 1) - 1 = i
        BY <1>1
      <4> QED BY <1>3, <4>1, <4>2
    <3>2. CASE \E r \in Queue : \E i \in 1..Len(e[r]) : e[r][i] = b
      <4>1. PICK r \in Queue : \E i \in 1..Len(e[r]) : e[r][i] = b
        BY <3>2
      <4>2. CASE r # q
        BY <1>7, <4>1, <4>2
      <4>3. CASE r = q
        <5>1. PICK i \in 1..n : s[i] = b
          BY <4>1, <4>3 DEF s, n
        <5>2. CASE i = 1
          <6>1. 1 \in 1..k + 1 /\ g[1] = b
            BY <1>1, <1>3, <5>1, <5>2 DEF m
          <6> QED BY <1>3, <6>1
        <5>3. CASE i # 1
          <6>1. i - 1 \in 1..n - 1 /\ (i - 1) + 1 = i
            BY <1>1, <5>3
          <6>2. d[q][i - 1] = b /\ i - 1 \in 1..Len(d[q])
            BY <1>7, <5>1, <6>1
          <6> QED BY <6>2
        <5> QED BY <5>2, <5>3
      <4> QED BY <4>2, <4>3
    <3> QED BY <3>1, <3>2 DEF Chains, Apart, k
  <2> QED BY <2>1, <2>3, <2>4, <2>5 DEF Apart
<1> QED BY <1>3, <1>4, <1>6, <1>7, <1>10, <1>11, <1>12 DEF Chains, g, d, s, m

-----------------------------------------------------------------------------
(* OS_MsgQPut: the pool's first block becomes the queue's first or last.   *)

(* What an insertion of block m at one end of the chain s of a queue must  *)
(* show of the chain t it gives, and of the links and the queue's record.  *)
Inserted(nx, r, s, t, m) ==
  /\ QueueHas(nx, r, t)
  /\ t \in Seq(Msg) /\ Len(t) = Len(s) + 1
  /\ \/ \A i \in 1..Len(s) + 1 : t[i] = IF i = 1 THEN m ELSE s[i - 1]
     \/ \A i \in 1..Len(s) + 1 : t[i] = IF i = Len(s) + 1 THEN m ELSE s[i]

LEMMA PutChains ==
  ASSUME IInv, NEW q \in Queue, NEW f, NEW e, Chains(f, e), pool.NbrFree > 0,
         pool' = PoolTake, NEW t, Inserted(next', mq'[q], e[q], t, f[1]),
         \A r \in Queue : r # q => mq'[r] = mq[r],
         \A b \in Msg : b # f[1] /\ (\A i \in 1..Len(e[q]) : b # e[q][i]) => next'[b] = next[b]
  PROVE  Chains(Tail(f), [e EXCEPT ![q] = t])' /\ pool.NextPtr = f[1]
<1> DEFINE s == e[q]
           m == f[1]
           g == Tail(f)
           d == [e EXCEPT ![q] = t]
           n == Len(s)
           k == Len(f)
<1>1. /\ s \in Seq(Msg) /\ n \in Nat /\ f \in Seq(Msg) /\ k \in Nat /\ k > 0
      /\ \A i \in 1..n : s[i] \in Msg
      /\ \A i \in 1..k : f[i] \in Msg
      /\ pool.NbrFree = k
  BY ChainFacts
<1>2. 1 \in 1..k /\ m \in Msg /\ pool.NextPtr = m /\ \A i \in 1..k - 1 : next[f[i]] = f[i + 1]
  <2>1. 1 \in 1..k /\ f # << >>
    BY <1>1
  <2> QED BY <1>1, <2>1 DEF Chains, Linked
<1>3. /\ g \in Seq(Msg) /\ Len(g) = k - 1
      /\ \A i \in 1..k - 1 : g[i] = f[i + 1] /\ i \in 1..k /\ i + 1 \in 1..k /\ i + 1 # 1
  BY <1>1, TailIs
<1>4. pool'.NextPtr = next[m] /\ pool'.NbrFree = k - 1
  BY <1>1, <1>2 DEF PoolTake
<1>5. /\ d \in [Queue -> Seq(Msg)] /\ d[q] = t
      /\ \A r \in Queue : r # q => d[r] = e[r]
  BY ChainFacts DEF Inserted
<1>6. /\ \A i, j \in 1..n : s[i] = s[j] => i = j
      /\ \A i, j \in 1..k : f[i] = f[j] => i = j
      /\ \A i \in 1..k, j \in 1..n : f[i] # s[j]
      /\ \A r \in Queue : r # q => \A j \in 1..Len(e[r]) :
           e[r][j] \in Msg /\ (\A i \in 1..n : s[i] # e[r][j]) /\ (\A i \in 1..k : f[i] # e[r][j])
  BY ChainFacts DEF Chains, Apart
<1>7. /\ Len(t) = n + 1
      /\ \A i \in 1..n + 1 : t[i] = m \/ \E j \in 1..n : t[i] = s[j]
      /\ \E i \in 1..n + 1 : t[i] = m
      /\ \A j \in 1..n : \E i \in 1..n + 1 : t[i] = s[j]
      /\ \A i, j \in 1..n + 1 : t[i] = t[j] => i = j
  <2>1. Len(t) = n + 1 /\ \A j \in 1..n : s[j] # m
    BY <1>1, <1>2, <1>6 DEF Inserted
  <2>2. CASE \A i \in 1..n + 1 : t[i] = IF i = 1 THEN m ELSE s[i - 1]
    <3>1. \A i \in 1..n + 1 : i # 1 => i - 1 \in 1..n /\ t[i] = s[i - 1]
      BY <1>1, <2>2
    <3>2. 1 \in 1..n + 1 /\ t[1] = m
      BY <1>1, <2>2
    <3>3. \A j \in 1..n : j + 1 \in 1..n + 1 /\ t[j + 1] = s[j]
      BY <1>1, <2>2
    <3>4. ASSUME NEW i \in 1..n + 1, NEW j \in 1..n + 1, t[i] = t[j] PROVE i = j
      <4>1. CASE i # 1 /\ j # 1
        <5>1. i - 1 \in 1..n /\ j - 1 \in 1..n /\ s[i - 1] = s[j - 1]
          BY <3>1, <3>4, <4>1
        <5>2. i - 1 = j - 1
          BY <1>6, <5>1
        <5> QED BY <1>1, <5>2
      <4>2. CASE i = 1 \/ j = 1
        BY <2>1, <3>1, <3>2, <3>4, <4>2
      <4> QED BY <4>1, <4>2
    <3> QED BY <2>1, <3>1, <3>2, <3>3, <3>4, SMTT(30)
  <2>3. CASE \A i \in 1..n + 1 : t[i] = IF i = n + 1 THEN m ELSE s[i]
    <3>1. \A i \in 1..n + 1 : i # n + 1 => i \in 1..n /\ t[i] = s[i]
      BY <1>1, <2>3
    <3>2. n + 1 \in 1..n + 1 /\ t[n + 1] = m
      BY <1>1, <2>3
    <3>3. \A j \in 1..n : j \in 1..n + 1 /\ t[j] = s[j]
      BY <1>1, <2>3
    <3>4. ASSUME NEW i \in 1..n + 1, NEW j \in 1..n + 1, t[i] = t[j] PROVE i = j
      BY <1>6, <2>1, <3>1, <3>2, <3>4
    <3> QED BY <2>1, <3>1, <3>2, <3>3, <3>4
  <2> QED BY <2>2, <2>3 DEF Inserted
<1> HIDE DEF s, g, d, n, k, m
<1>8. Linked(next', g, pool'.NextPtr)
  <2>1. g # << >> => g[1] = next[m]
    <3>1. g # << >> => k - 1 > 0
      BY <1>1, <1>3
    <3>2. k - 1 > 0 => 1 \in 1..k - 1 /\ 1 + 1 = 2
      BY <1>1
    <3> QED BY <1>2, <1>3, <3>1, <3>2 DEF m
  <2>2. ASSUME NEW i \in 1..Len(g) - 1
        PROVE  next'[g[i]] = g[i + 1]
    <3>1. i \in 1..k - 1 /\ i + 1 \in 1..k - 1 /\ g[i] = f[i + 1] /\ g[i + 1] = f[(i + 1) + 1]
      BY <1>1, <1>3
    <3>2. /\ f[i + 1] # m /\ f[i + 1] \in Msg
          /\ \A j \in 1..n : f[i + 1] # s[j]
      BY <1>1, <1>2, <1>3, <1>6, <3>1 DEF m
    <3> QED BY <1>2, <3>1, <3>2 DEF m, n, s
  <2> QED BY <1>4, <2>1, <2>2 DEF Linked
<1>9. ASSUME NEW r \in Queue
      PROVE  QueueHas(next', mq'[r], d[r])
  <2>1. CASE r = q
    BY <1>5, <2>1 DEF Inserted
  <2>2. CASE r # q
    <3>1. mq'[r] = mq[r] /\ d[r] = e[r] /\ QueueHas(next, mq[r], e[r])
      BY <1>5, <2>2 DEF Chains
    <3>2. ASSUME NEW i \in 1..Len(e[r]) - 1 PROVE next'[e[r][i]] = next[e[r][i]]
      <4>1. i \in 1..Len(e[r])
        BY ChainFacts
      <4>2. e[r][i] # m /\ e[r][i] \in Msg /\ \A j \in 1..n : e[r][i] # s[j]
        BY <1>2, <1>6, <2>2, <4>1 DEF m
      <4> QED BY <4>2 DEF m, n, s
    <3> QED BY <3>1, <3>2 DEF QueueHas, Linked
  <2> QED BY <2>1, <2>2
<1>10. Apart(g, d)
  <2>1. ASSUME NEW i \in 1..Len(g), NEW j \in 1..Len(g), g[i] = g[j] PROVE i = j
    <3>1. i + 1 = j + 1
      BY <1>3, <1>6, <2>1
    <3> QED BY <1>1, <1>3, <3>1
  <2>2. ASSUME NEW r \in Queue, NEW u \in Queue,
               NEW i \in 1..Len(d[r]), NEW j \in 1..Len(d[u]), d[r][i] = d[u][j]
        PROVE  r = u /\ i = j
    <3>1. CASE r = q /\ u = q
      BY <1>5, <1>7, <2>2, <3>1
    <3>2. CASE r # q /\ u # q
      BY <1>5, <2>2, <3>2 DEF Chains, Apart
    <3>3. CASE r = q /\ u # q
      <4>1. t[i] = m \/ \E x \in 1..n : t[i] = s[x]
        BY <1>5, <1>7, <3>3
      <4>2. d[u] = e[u] /\ m = f[1] /\ t[i] = d[u][j]
        BY <1>5, <2>2, <3>3 DEF m
      <4> QED BY <1>2, <1>6, <3>3, <4>1, <4>2
    <3>4. CASE r # q /\ u = q
      <4>1. t[j] = m \/ \E x \in 1..n : t[j] = s[x]
        BY <1>5, <1>7, <3>4
      <4>2. d[r] = e[r] /\ m = f[1] /\ t[j] = d[r][i]
        BY <1>5, <2>2, <3>4 DEF m
      <4> QED BY <1>2, <1>6, <3>4, <4>1, <4>2
    <3> QED BY <3>1, <3>2, <3>3, <3>4
  <2>3. ASSUME NEW r \in Queue, NEW i \in 1..Len(g), NEW j \in 1..Len(d[r])
        PROVE  g[i] # d[r][j]
    <3>1. i + 1 \in 1..k /\ i + 1 # 1 /\ g[i] = f[i + 1] /\ f[i + 1] # m
      BY <1>2, <1>3, <1>6 DEF m
    <3>2. CASE r = q
      <4>1. t[j] = m \/ \E x \in 1..n : t[j] = s[x]
        BY <1>5, <1>7, <3>2
      <4> QED BY <1>5, <1>6, <3>1, <3>2, <4>1
    <3>3. CASE r # q
      BY <1>5, <1>6, <3>1, <3>3
    <3> QED BY <3>2, <3>3
  <2>4. ASSUME NEW b \in Msg
        PROVE  \/ \E i \in 1..Len(g) : g[i] = b
               \/ \E r \in Queue : \E i \in 1..Len(d[r]) : d[r][i] = b
    <3>1. CASE \E i \in 1..k : f[i] = b
      <4>1. PICK i \in 1..k : f[i] = b
        BY <3>1
      <4>2. CASE i = 1
        BY <1>5, <1>7, <4>1, <4>2 DEF m
      <4>3. CASE i # 1
        <5>1. i - 1 \in 1..k - 1 /\ (i - 1) + 1 = i
          BY <1>1, <4>3
        <5> QED BY <1>3, <4>1, <5>1
      <4> QED BY <4>2, <4>3
    <3>2. CASE \E r \in Queue : \E i \in 1..Len(e[r]) : e[r][i] = b
      <4>1. PICK r \in Queue : \E i \in 1..Len(e[r]) : e[r][i] = b
        BY <3>2
      <4>2. CASE r # q
        BY <1>5, <4>1, <4>2
      <4>3. CASE r = q
        BY <1>5, <1>7, <4>1, <4>3 DEF s, n
      <4> QED BY <4>2, <4>3
    <3> QED BY <3>1, <3>2 DEF Chains, Apart, k
  <2> QED BY <2>1, <2>2, <2>3, <2>4 DEF Apart
<1> QED BY <1>2, <1>3, <1>4, <1>5, <1>8, <1>9, <1>10 DEF Chains, g, d, s, m

(* The chain of the queue after a put.                                     *)
With(s, m, lifo) == IF lifo THEN <<m>> \o s ELSE Append(s, m)

LEMMA WithIs ==
  ASSUME NEW S, NEW s \in Seq(S), NEW m \in S, NEW lifo
  PROVE  /\ With(s, m, lifo) \in Seq(S) /\ Len(With(s, m, lifo)) = Len(s) + 1
         /\ Len(s) \in Nat
         /\ lifo => \A i \in 1..Len(s) + 1 :
                      With(s, m, lifo)[i] = IF i = 1 THEN m ELSE s[i - 1]
         /\ ~lifo => \A i \in 1..Len(s) + 1 :
                       With(s, m, lifo)[i] = IF i = Len(s) + 1 THEN m ELSE s[i]
<1>1. CASE lifo
  BY <1>1, Consed, LenProperties DEF With
<1>2. CASE ~lifo
  <2>1. /\ Append(s, m) \in Seq(S) /\ Len(Append(s, m)) = Len(s) + 1 /\ Len(s) \in Nat
        /\ \A i \in 1..Len(s) : Append(s, m)[i] = s[i]
        /\ Append(s, m)[Len(s) + 1] = m
    BY AppendProperties, LenProperties
  <2>2. \A i \in 1..Len(s) + 1 : i # Len(s) + 1 => i \in 1..Len(s)
    BY <2>1
  <2> QED BY <1>2, <2>1, <2>2 DEF With
<1> QED BY <1>1, <1>2

LEMMA PutStep ==
  ASSUME IInv, NEW q \in Queue, NEW v \in Val, NEW lifo \in BOOLEAN,
         OS_MsgQPut(q, v, lifo), NEW f, NEW e, Chains(f, e)
  PROVE  /\ Chains(Tail(f), [e EXCEPT ![q] = With(e[q], f[1], lifo)])'
         /\ pool.NextPtr = f[1]
<1> DEFINE s == e[q]
           m == f[1]
           t == With(s, m, lifo)
           n == Len(s)
<1>1. /\ s \in Seq(Msg) /\ n \in Nat /\ \A i \in 1..n : s[i] \in Msg
      /\ mq[q].NbrEntries = n /\ pool.NbrFree > 0 /\ pool' = PoolTake
      /\ f # << >> /\ m \in Msg
  <2>1. /\ s \in Seq(Msg) /\ n \in Nat /\ \A i \in 1..n : s[i] \in Msg
        /\ mq[q].NbrEntries = n
    BY ChainFacts
  <2>2. pool.NbrFree > 0 /\ pool' = PoolTake
    BY DEF OS_MsgQPut
  <2>3. f \in Seq(Msg) /\ Len(f) > 0 /\ Len(f) \in Nat
    BY <2>2, ChainFacts
  <2>4. f # << >> /\ 1 \in 1..Len(f)
    BY <2>3
  <2>5. m \in Msg
    BY <2>3, <2>4, ElementOfSeq
  <2> QED BY <2>1, <2>2, <2>4, <2>5
<1>2. pool.NextPtr = m
  BY <1>1 DEF Chains, Linked
<1>3. /\ t \in Seq(Msg) /\ Len(t) = n + 1
      /\ lifo => \A i \in 1..n + 1 : t[i] = IF i = 1 THEN m ELSE s[i - 1]
      /\ ~lifo => \A i \in 1..n + 1 : t[i] = IF i = n + 1 THEN m ELSE s[i]
  <2> HIDE DEF s, m
  <2>1. s \in Seq(Msg) /\ m \in Msg
    BY <1>1
  <2>2. t \in Seq(Msg) /\ Len(t) = n + 1
    BY <2>1, WithIs
  <2>3. ASSUME lifo PROVE \A i \in 1..n + 1 : t[i] = IF i = 1 THEN m ELSE s[i - 1]
    <3>1. t = <<m>> \o s
      BY <2>3 DEF With
    <3>2. \A i \in 1..n + 1 : (<<m>> \o s)[i] = IF i = 1 THEN m ELSE s[i - 1]
      BY <2>1, Consed
    <3> HIDE DEF t
    <3> QED BY <3>1, <3>2
  <2>4. ASSUME ~lifo PROVE \A i \in 1..n + 1 : t[i] = IF i = n + 1 THEN m ELSE s[i]
    BY <2>1, <2>4, WithIs
  <2> QED BY <2>2, <2>3, <2>4
<1>4. /\ s # << >> => s[1] = mq[q].OutPtr /\ s[n] = mq[q].InPtr
      /\ \A i \in 1..n - 1 : next[s[i]] = s[i + 1]
      /\ \A i \in 1..n : s[i] # m
      /\ \A i, j \in 1..n : s[i] = s[j] => i = j
  <2>1. 1 \in 1..Len(f)
    <3>1. Len(f) \in Nat /\ f \in Seq(Msg)
      BY ChainFacts
    <3> QED BY <1>1, <3>1
  <2>2. QueueHas(next, mq[q], s)
    BY DEF Chains
  <2>3. /\ \A i, j \in 1..n : s[i] = s[j] => i = j
        /\ \A i \in 1..Len(f), j \in 1..n : f[i] # s[j]
    BY DEF Chains, Apart
  <2> QED BY <2>1, <2>2, <2>3 DEF QueueHas, Linked
<1>5. /\ next \in [Msg -> Ptr]
      /\ mq \in [Queue -> [InPtr : Ptr, OutPtr : Ptr, NbrEntries : 0..Blocks]]
      /\ n > 0 <=> s # << >>
      /\ n > 0 => 1 \in 1..n /\ n \in 1..n
      /\ t # << >>
  <2>1. next \in [Msg -> Ptr]
        /\ mq \in [Queue -> [InPtr : Ptr, OutPtr : Ptr, NbrEntries : 0..Blocks]]
    BY DEF IInv, TypeOK
  <2> QED BY <1>1, <1>3, <2>1
<1> HIDE DEF s, m, t, n
<1>6. CASE n = 0
  <2>1. /\ mq' = [mq EXCEPT ![q] = [InPtr |-> m, OutPtr |-> m, NbrEntries |-> 1]]
        /\ next' = next
    BY <1>1, <1>2, <1>6 DEF OS_MsgQPut
  <2>2. mq'[q] = [InPtr |-> m, OutPtr |-> m, NbrEntries |-> 1]
        /\ \A r \in Queue : r # q => mq'[r] = mq[r]
    BY <1>5, <2>1
  <2>3. t[1] = m /\ Len(t) = 1 /\ 1..Len(t) - 1 = {}
    <3>1. 1 \in 1..n + 1 /\ n + 1 = 1
      BY <1>6
    <3> QED BY <1>3, <1>6, <3>1
  <2>4. Inserted(next', mq'[q], s, t, m)
    <3>1. QueueHas(next', mq'[q], t)
      BY <2>2, <2>3 DEF QueueHas, Linked
    <3>2. \/ \A i \in 1..n + 1 : t[i] = IF i = 1 THEN m ELSE s[i - 1]
          \/ \A i \in 1..n + 1 : t[i] = IF i = n + 1 THEN m ELSE s[i]
      BY <1>3, Zenon
    <3> QED BY <1>3, <3>1, <3>2 DEF Inserted, n
  <2> QED BY <1>1, <1>2, <2>1, <2>2, <2>4, PutChains DEF s, m, t
<1>7. CASE n > 0 /\ lifo
  <2>1. /\ next' = [next EXCEPT ![m] = mq[q].OutPtr]
        /\ mq' = [mq EXCEPT ![q].OutPtr = m, ![q].NbrEntries = @ + 1]
    BY <1>1, <1>2, <1>7 DEF OS_MsgQPut
  <2>2. /\ mq'[q].OutPtr = m /\ mq'[q].InPtr = mq[q].InPtr
        /\ mq'[q].NbrEntries = n + 1
        /\ \A r \in Queue : r # q => mq'[r] = mq[r]
        /\ next'[m] = s[1]
        /\ \A b \in Msg : b # m => next'[b] = next[b]
    BY <1>1, <1>4, <1>5, <1>7, <2>1
  <2>3. t[1] = m /\ t[n + 1] = s[n]
    <3>1. 1 \in 1..n + 1 /\ n + 1 \in 1..n + 1 /\ n + 1 # 1 /\ (n + 1) - 1 = n
      BY <1>1, <1>7
    <3> QED BY <1>3, <1>7, <3>1
  <2>4. ASSUME NEW i \in 1..n
        PROVE  next'[t[i]] = t[i + 1]
    <3>1. i \in 1..n + 1 /\ i + 1 \in 1..n + 1 /\ i + 1 # 1 /\ (i + 1) - 1 = i
      BY <1>1
    <3>2. t[i + 1] = s[i]
      BY <1>3, <1>7, <3>1
    <3>3. CASE i = 1
      BY <2>2, <2>3, <3>2, <3>3
    <3>4. CASE i # 1
      <4>1. t[i] = s[i - 1] /\ i - 1 \in 1..n - 1 /\ i - 1 \in 1..n /\ (i - 1) + 1 = i
        BY <1>1, <1>3, <1>7, <3>1, <3>4
      <4>2. s[i - 1] \in Msg /\ s[i - 1] # m
        BY <1>1, <1>4, <4>1
      <4>3. next[s[i - 1]] = s[i]
        BY <1>4, <4>1
      <4> QED BY <2>2, <3>2, <4>1, <4>2, <4>3
    <3> QED BY <3>3, <3>4
  <2>5. Inserted(next', mq'[q], s, t, m)
    <3>1. \A i \in 1..Len(t) - 1 : next'[t[i]] = t[i + 1]
      BY <1>1, <1>3, <2>4
    <3>2. QueueHas(next', mq'[q], t)
      BY <1>3, <1>4, <1>5, <1>7, <2>2, <2>3, <3>1 DEF QueueHas, Linked
    <3> QED BY <1>3, <1>7, <3>2 DEF Inserted, n
  <2> QED BY <1>1, <1>2, <2>2, <2>5, PutChains DEF s, m, t
<1>8. CASE n > 0 /\ ~lifo
  <2>1. /\ next' = [next EXCEPT ![s[n]] = m, ![m] = Null]
        /\ mq' = [mq EXCEPT ![q].InPtr = m, ![q].NbrEntries = @ + 1]
    BY <1>1, <1>2, <1>4, <1>5, <1>8 DEF OS_MsgQPut
  <2>2. /\ mq'[q].OutPtr = mq[q].OutPtr /\ mq'[q].InPtr = m
        /\ mq'[q].NbrEntries = n + 1
        /\ \A r \in Queue : r # q => mq'[r] = mq[r]
    BY <1>1, <1>5, <2>1
  <2>3. /\ s[n] \in Msg /\ s[n] # m /\ next'[s[n]] = m
        /\ \A b \in Msg : b # m /\ b # s[n] => next'[b] = next[b]
    BY <1>1, <1>4, <1>5, <1>8, <2>1
  <2>4. t[1] = s[1] /\ t[n + 1] = m
    <3>1. 1 \in 1..n + 1 /\ n + 1 \in 1..n + 1 /\ n + 1 # 1
      BY <1>1, <1>8
    <3> QED BY <1>3, <1>8, <3>1
  <2>5. ASSUME NEW i \in 1..n
        PROVE  next'[t[i]] = t[i + 1]
    <3>1. i \in 1..n + 1 /\ i + 1 \in 1..n + 1 /\ i # n + 1
      BY <1>1
    <3>2. t[i] = s[i]
      BY <1>3, <1>8, <3>1
    <3>3. CASE i = n
      BY <2>3, <2>4, <3>2, <3>3
    <3>4. CASE i # n
      <4>1. i \in 1..n - 1 /\ i + 1 \in 1..n /\ i + 1 # n + 1
        BY <1>1, <3>4
      <4>2. t[i + 1] = s[i + 1]
        BY <1>3, <1>8, <3>1, <4>1
      <4>3. s[i] # s[n]
        BY <1>4, <1>5, <1>8, <3>4
      <4> QED BY <1>1, <1>4, <2>3, <3>2, <4>1, <4>2, <4>3
    <3> QED BY <3>3, <3>4
  <2>6. Inserted(next', mq'[q], s, t, m)
    <3>1. \A i \in 1..Len(t) - 1 : next'[t[i]] = t[i + 1]
      BY <1>1, <1>3, <2>5
    <3>2. QueueHas(next', mq'[q], t)
      BY <1>3, <1>4, <1>5, <1>8, <2>2, <2>4, <3>1 DEF QueueHas, Linked
    <3> QED BY <1>3, <1>8, <3>2 DEF Inserted, n
  <2>7. \A b \in Msg : b # m /\ (\A i \in 1..n : b # s[i]) => next'[b] = next[b]
    BY <1>5, <1>8, <2>3
  <2> QED BY <1>1, <1>2, <2>2, <2>6, <2>7, PutChains DEF s, m, t, n
<1> QED BY <1>1, <1>6, <1>7, <1>8

-----------------------------------------------------------------------------
(* The invariant.                                                          *)

LEMMA InitInv == ASSUME MsgAssumption PROVE Init => IInv
<1> SUFFICES ASSUME Init PROVE IInv
  OBVIOUS
<1> DEFINE f == [i \in 1..Blocks |-> i]
           e == [q \in Queue |-> << >>]
<1>1. Blocks \in Nat \ {0}
  BY DEF MsgAssumption
<1>2. f \in Seq(Msg) /\ Len(f) = Blocks /\ \A i \in 1..Blocks : f[i] = i
  BY <1>1 DEF Msg
<1>3. e \in [Queue -> Seq(Msg)] /\ \A q \in Queue : e[q] = << >> /\ Len(e[q]) = 0
  OBVIOUS
<1> HIDE DEF f, e
<1>4. Linked(next, f, pool.NextPtr) /\ pool.NbrFree = Len(f)
  <2>1. 1 \in 1..Blocks /\ pool.NextPtr = 1 /\ pool.NbrFree = Blocks
    BY <1>1 DEF Init
  <2>2. ASSUME NEW i \in 1..Blocks - 1 PROVE next[f[i]] = f[i + 1]
    BY <1>1, <1>2 DEF Init, Msg
  <2> QED BY <1>2, <2>1, <2>2 DEF Linked
<1>5. ASSUME NEW q \in Queue PROVE QueueHas(next, mq[q], e[q])
  <2>1. 1..Len(e[q]) - 1 = {}
    BY <1>3
  <2> QED BY <1>3, <2>1 DEF Init, QueueHas, Linked, OS_MsgQInit
<1>6. Apart(f, e)
  <2>1. \A q \in Queue : 1..Len(e[q]) = {}
    BY <1>3
  <2> QED BY <1>2, <2>1 DEF Apart, Msg
<1>7. TypeOK /\ pool.NbrFree + pool.NbrUsed = Blocks
  BY <1>1 DEF Init, TypeOK, Msg, Ptr, Null, OS_MsgQInit
<1> QED BY <1>2, <1>3, <1>4, <1>5, <1>6, <1>7 DEF IInv, Chains

(* The counters of the pool add up, so that the one bounds the other.      *)
LEMMA StepInv ==
  ASSUME MsgAssumption, IInv, NEW f, NEW e, Chains(f, e)',
         next' \in [Msg -> Ptr], data' \in [Msg -> Val \cup {NoVal}],
         ret' \in Val \cup {NoVal},
         pool' \in [NextPtr : Ptr, NbrFree : Int, NbrUsed : Int],
         pool'.NbrFree + pool'.NbrUsed = Blocks,
         mq' \in [Queue -> [InPtr : Ptr, OutPtr : Ptr, NbrEntries : Int]]
  PROVE  IInv'
<1>1. /\ pool'.NbrFree \in 0..Blocks
      /\ \A q \in Queue : mq'[q].NbrEntries \in 0..Blocks
  BY Typed
<1>2. pool' \in [NextPtr : Ptr, NbrFree : 0..Blocks, NbrUsed : 0..Blocks]
  <2>1. Blocks \in Nat
    BY DEF MsgAssumption
  <2>2. pool'.NbrUsed \in 0..Blocks
    BY <1>1, <2>1
  <2> QED BY <1>1, <2>2
<1>3. mq' \in [Queue -> [InPtr : Ptr, OutPtr : Ptr, NbrEntries : 0..Blocks]]
  BY <1>1
<1>4. TypeOK'
  BY <1>2, <1>3 DEF TypeOK
<1> QED BY <1>4 DEF IInv

LEMMA FreeAllInv ==
  ASSUME MsgAssumption, IInv, NEW q \in Queue, OS_MsgQFreeAll(q)
  PROVE  IInv'
<1>1. PICK f, e : Chains(f, e)
  BY DEF IInv
<1>2. Chains(e[q] \o f, [e EXCEPT ![q] = << >>])'
  BY <1>1, FreeAllChains
<1>3. /\ mq \in [Queue -> [InPtr : Ptr, OutPtr : Ptr, NbrEntries : 0..Blocks]]
      /\ pool \in [NextPtr : Ptr, NbrFree : 0..Blocks, NbrUsed : 0..Blocks]
      /\ next \in [Msg -> Ptr] /\ data \in [Msg -> Val \cup {NoVal}]
      /\ pool.NbrFree + pool.NbrUsed = Blocks /\ Null \in Ptr /\ Blocks \in Nat
      /\ mq[q].NbrEntries \in 0..Blocks
  BY DEF IInv, TypeOK, MsgAssumption, Null, Ptr
<1>4. next' \in [Msg -> Ptr] /\ data' \in [Msg -> Val \cup {NoVal}] /\ ret' \in Val \cup {NoVal}
  BY <1>3 DEF OS_MsgQFreeAll
<1>5. pool' \in [NextPtr : Ptr, NbrFree : Int, NbrUsed : Int]
      /\ pool'.NbrFree + pool'.NbrUsed = Blocks
  BY <1>3 DEF OS_MsgQFreeAll, PoolBack
<1>6. mq' \in [Queue -> [InPtr : Ptr, OutPtr : Ptr, NbrEntries : Int]]
  BY <1>3 DEF OS_MsgQFreeAll, OS_MsgQInit
<1> QED BY <1>2, <1>4, <1>5, <1>6, StepInv

LEMMA GetInv ==
  ASSUME MsgAssumption, IInv, NEW q \in Queue, OS_MsgQGet(q)
  PROVE  IInv'
<1>1. PICK f, e : Chains(f, e)
  BY DEF IInv
<1>2. /\ Chains(<<e[q][1]>> \o f, [e EXCEPT ![q] = Tail(@)])'
      /\ mq[q].OutPtr = e[q][1]
  BY <1>1, GetChains
<1>3. /\ mq \in [Queue -> [InPtr : Ptr, OutPtr : Ptr, NbrEntries : 0..Blocks]]
      /\ pool \in [NextPtr : Ptr, NbrFree : 0..Blocks, NbrUsed : 0..Blocks]
      /\ next \in [Msg -> Ptr] /\ data \in [Msg -> Val \cup {NoVal}]
      /\ pool.NbrFree + pool.NbrUsed = Blocks /\ Null \in Ptr /\ Blocks \in Nat
      /\ Msg \subseteq Ptr
  BY DEF IInv, TypeOK, MsgAssumption, Null, Ptr, Msg
<1>4. mq[q].OutPtr \in Msg
  <2>1. mq[q].NbrEntries > 0 /\ mq[q].NbrEntries = Len(e[q])
    BY <1>1, ChainFacts DEF OS_MsgQGet
  <2>2. 1 \in 1..Len(e[q]) /\ \A i \in 1..Len(e[q]) : e[q][i] \in Msg
    BY <1>1, <2>1, ChainFacts
  <2> QED BY <1>2, <2>2
<1>5. next' \in [Msg -> Ptr] /\ data' \in [Msg -> Val \cup {NoVal}] /\ ret' \in Val \cup {NoVal}
  BY <1>3, <1>4 DEF OS_MsgQGet
<1>6. pool' \in [NextPtr : Ptr, NbrFree : Int, NbrUsed : Int]
      /\ pool'.NbrFree + pool'.NbrUsed = Blocks
  BY <1>3, <1>4 DEF OS_MsgQGet, PoolBack
<1>7. mq' \in [Queue -> [InPtr : Ptr, OutPtr : Ptr, NbrEntries : Int]]
  <2> DEFINE m == mq[q].OutPtr
             r == IF next[m] = Null THEN OS_MsgQInit
                  ELSE [mq[q] EXCEPT !.OutPtr = next[m],
                                     !.NbrEntries = mq[q].NbrEntries - 1]
  <2>1. next[m] \in Ptr
    BY <1>3, <1>4
  <2>2. r \in [InPtr : Ptr, OutPtr : Ptr, NbrEntries : Int]
    <3>1. mq[q] \in [InPtr : Ptr, OutPtr : Ptr, NbrEntries : 0..Blocks]
      BY <1>3
    <3>2. mq[q].NbrEntries - 1 \in Int
      BY <1>3, <3>1
    <3>3. ASSUME NEW p \in Ptr, NEW n \in Int
          PROVE  [mq[q] EXCEPT !.OutPtr = p, !.NbrEntries = n]
                   \in [InPtr : Ptr, OutPtr : Ptr, NbrEntries : Int]
      BY <3>1
    <3>4. [mq[q] EXCEPT !.OutPtr = next[m], !.NbrEntries = mq[q].NbrEntries - 1]
            \in [InPtr : Ptr, OutPtr : Ptr, NbrEntries : Int]
      BY <2>1, <3>2, <3>3
    <3> QED BY <1>3, <3>4 DEF OS_MsgQInit
  <2>3. mq' = [mq EXCEPT ![q] = r]
    BY DEF OS_MsgQGet
  <2> HIDE DEF r
  <2> QED BY <1>3, <2>2, <2>3
<1> QED BY <1>2, <1>5, <1>6, <1>7, StepInv

LEMMA PutInv ==
  ASSUME MsgAssumption, IInv, NEW q \in Queue, NEW v \in Val, NEW lifo \in BOOLEAN,
         OS_MsgQPut(q, v, lifo)
  PROVE  IInv'
<1>1. PICK f, e : Chains(f, e)
  BY DEF IInv
<1>2. /\ Chains(Tail(f), [e EXCEPT ![q] = With(e[q], f[1], lifo)])'
      /\ pool.NextPtr = f[1]
  BY <1>1, PutStep
<1>3. /\ mq \in [Queue -> [InPtr : Ptr, OutPtr : Ptr, NbrEntries : 0..Blocks]]
      /\ pool \in [NextPtr : Ptr, NbrFree : 0..Blocks, NbrUsed : 0..Blocks]
      /\ next \in [Msg -> Ptr] /\ data \in [Msg -> Val \cup {NoVal}]
      /\ pool.NbrFree + pool.NbrUsed = Blocks /\ Null \in Ptr /\ Blocks \in Nat
      /\ Msg \subseteq Ptr
  BY DEF IInv, TypeOK, MsgAssumption, Null, Ptr, Msg
<1>4. pool.NextPtr \in Msg
  <2>1. pool.NbrFree > 0 /\ pool.NbrFree = Len(f)
    BY <1>1, ChainFacts DEF OS_MsgQPut
  <2>2. 1 \in 1..Len(f) /\ \A i \in 1..Len(f) : f[i] \in Msg
    BY <1>1, <2>1, ChainFacts
  <2> QED BY <1>2, <2>2
<1>5. data' \in [Msg -> Val \cup {NoVal}] /\ ret' \in Val \cup {NoVal}
  BY <1>3, <1>4 DEF OS_MsgQPut
<1>6. pool' \in [NextPtr : Ptr, NbrFree : Int, NbrUsed : Int]
      /\ pool'.NbrFree + pool'.NbrUsed = Blocks
  BY <1>3, <1>4 DEF OS_MsgQPut, PoolTake
<1>7. next' \in [Msg -> Ptr] /\ mq' \in [Queue -> [InPtr : Ptr, OutPtr : Ptr, NbrEntries : Int]]
  BY <1>3, <1>4 DEF OS_MsgQPut
<1> QED BY <1>2, <1>5, <1>6, <1>7, StepInv

LEMMA NextInv == ASSUME MsgAssumption PROVE IInv /\ [Next]_vars => IInv'
<1>1. ASSUME IInv, UNCHANGED vars PROVE IInv'
  BY <1>1 DEF vars, IInv, TypeOK, Chains
<1> QED BY <1>1, FreeAllInv, GetInv, PutInv DEF Next

-----------------------------------------------------------------------------
(* What the chains say of the values.                                      *)

ValuesOf(d, s) == [i \in 1..Len(s) |-> d[s[i]]]

LEMMA ValuesAre ==
  ASSUME NEW s \in Seq(Msg)
  PROVE  Values(s) = ValuesOf(data, s) /\ Values(s)' = ValuesOf(data', s)
<1>1. DOMAIN s = 1..Len(s) /\ \A i \in 1..Len(s) : s[i] # Null
  <2>1. DOMAIN s = 1..Len(s) /\ \A i \in 1..Len(s) : s[i] \in Msg
    BY LenProperties, ElementOfSeq
  <2> QED BY <2>1 DEF Msg, Null
<1> QED BY <1>1 DEF Values, ValuesOf

LEMMA ValuesTyped ==
  ASSUME NEW V, NEW d \in [Msg -> V], NEW s \in Seq(Msg)
  PROVE  /\ ValuesOf(d, s) \in Seq(V) /\ Len(ValuesOf(d, s)) = Len(s)
         /\ Len(s) \in Nat
         /\ \A i \in 1..Len(s) : ValuesOf(d, s)[i] = d[s[i]]
<1>1. Len(s) \in Nat /\ \A i \in 1..Len(s) : s[i] \in Msg
  BY LenProperties, ElementOfSeq
<1>2. ValuesOf(d, s) \in [1..Len(s) -> V]
  BY <1>1 DEF ValuesOf
<1> QED BY <1>1, <1>2 DEF ValuesOf

LEMMA ValuesTail ==
  ASSUME NEW V, NEW d \in [Msg -> V], NEW s \in Seq(Msg), Len(s) > 0
  PROVE  /\ ValuesOf(d, Tail(s)) = Tail(ValuesOf(d, s))
         /\ Head(ValuesOf(d, s)) = d[s[1]] /\ ValuesOf(d, s) # << >>
<1> DEFINE a == ValuesOf(d, s)
           b == ValuesOf(d, Tail(s))
<1>1. /\ Tail(s) \in Seq(Msg) /\ Len(Tail(s)) = Len(s) - 1 /\ Len(s) \in Nat
      /\ \A i \in 1..Len(s) - 1 : Tail(s)[i] = s[i + 1]
  BY TailIs
<1>2. a \in Seq(V) /\ Len(a) = Len(s) /\ \A i \in 1..Len(s) : a[i] = d[s[i]]
  BY ValuesTyped
<1>3. b \in Seq(V) /\ Len(b) = Len(s) - 1 /\ \A i \in 1..Len(s) - 1 : b[i] = d[Tail(s)[i]]
  <2> DEFINE u == Tail(s)
  <2> HIDE DEF u
  <2>1. u \in Seq(Msg) /\ Len(u) = Len(s) - 1
    BY <1>1 DEF u
  <2>2. /\ ValuesOf(d, u) \in Seq(V) /\ Len(ValuesOf(d, u)) = Len(u)
        /\ \A i \in 1..Len(u) : ValuesOf(d, u)[i] = d[u[i]]
    BY <2>1, ValuesTyped
  <2> QED BY <2>1, <2>2 DEF u
<1> HIDE DEF a, b
<1>4. Tail(a) \in Seq(V) /\ Len(Tail(a)) = Len(s) - 1 /\ \A i \in 1..Len(s) - 1 : Tail(a)[i] = a[i + 1]
  BY <1>2, TailIs
<1>5. \A i \in 1..Len(s) - 1 : b[i] = Tail(a)[i]
  <2> SUFFICES ASSUME NEW i \in 1..Len(s) - 1 PROVE b[i] = Tail(a)[i]
    OBVIOUS
  <2>1. i + 1 \in 1..Len(s)
    BY <1>1
  <2> QED BY <1>1, <1>2, <1>3, <1>4, <2>1
<1>6. b = Tail(a)
  BY <1>3, <1>4, <1>5, SeqEqual
<1>7. a # << >> /\ Head(a) = d[s[1]]
  <2>1. a # << >> /\ 1 \in 1..Len(s)
    BY <1>1, <1>2
  <2> QED BY <1>2, <2>1
<1> QED BY <1>6, <1>7 DEF a, b

LEMMA ValuesWith ==
  ASSUME NEW V, NEW d \in [Msg -> V], NEW s \in Seq(Msg), NEW m \in Msg
  PROVE  /\ ValuesOf(d, <<m>> \o s) = <<d[m]>> \o ValuesOf(d, s)
         /\ ValuesOf(d, Append(s, m)) = Append(ValuesOf(d, s), d[m])
<1> DEFINE a == ValuesOf(d, s)
           n == Len(s)
<1>1. a \in Seq(V) /\ Len(a) = n /\ n \in Nat /\ \A i \in 1..n : a[i] = d[s[i]]
  BY ValuesTyped
<1>2. ValuesOf(d, <<m>> \o s) = <<d[m]>> \o a
  <2> DEFINE t == <<m>> \o s
             b == ValuesOf(d, t)
             c == <<d[m]>> \o a
  <2>1. t \in Seq(Msg) /\ Len(t) = n + 1 /\ \A i \in 1..n + 1 : t[i] = IF i = 1 THEN m ELSE s[i - 1]
    BY Consed
  <2>2. b \in Seq(V) /\ Len(b) = n + 1 /\ \A i \in 1..n + 1 : b[i] = d[t[i]]
    <3> HIDE DEF t
    <3>1. b \in Seq(V) /\ Len(b) = Len(t) /\ \A i \in 1..Len(t) : b[i] = d[t[i]]
      BY <2>1, ValuesTyped
    <3> HIDE DEF b, n
    <3> QED BY <2>1, <3>1
  <2>3. c \in Seq(V) /\ Len(c) = n + 1 /\ \A i \in 1..n + 1 : c[i] = IF i = 1 THEN d[m] ELSE a[i - 1]
    <3> HIDE DEF a
    <3> QED BY <1>1, Consed
  <2> HIDE DEF a, b, c, t, n
  <2>4. \A i \in 1..n + 1 : b[i] = c[i]
    <3> SUFFICES ASSUME NEW i \in 1..n + 1 PROVE b[i] = c[i]
      OBVIOUS
    <3>1. CASE i = 1
      BY <2>1, <2>2, <2>3, <3>1
    <3>2. CASE i # 1
      <4>1. i - 1 \in 1..n /\ t[i] = s[i - 1] /\ c[i] = a[i - 1]
        BY <1>1, <2>1, <2>3, <3>2
      <4> QED BY <1>1, <2>2, <4>1
    <3> QED BY <3>1, <3>2
  <2>5. b = c
    BY <2>2, <2>3, <2>4, SeqEqual
  <2> QED BY <2>5 DEF b, c, t
<1>3. ValuesOf(d, Append(s, m)) = Append(a, d[m])
  <2> DEFINE t == Append(s, m)
             b == ValuesOf(d, t)
             c == Append(a, d[m])
  <2>1. t \in Seq(Msg) /\ Len(t) = n + 1 /\ t[n + 1] = m /\ \A i \in 1..n : t[i] = s[i]
    BY AppendProperties
  <2>2. b \in Seq(V) /\ Len(b) = n + 1 /\ \A i \in 1..n + 1 : b[i] = d[t[i]]
    <3> HIDE DEF t
    <3>1. b \in Seq(V) /\ Len(b) = Len(t) /\ \A i \in 1..Len(t) : b[i] = d[t[i]]
      BY <2>1, ValuesTyped, ZenonT(60)
    <3> HIDE DEF b, n
    <3> QED BY <2>1, <3>1
  <2>3. c \in Seq(V) /\ Len(c) = n + 1 /\ c[n + 1] = d[m] /\ \A i \in 1..n : c[i] = a[i]
    <3> HIDE DEF a
    <3> QED BY <1>1, AppendProperties
  <2> HIDE DEF a, b, c, t, n
  <2>4. \A i \in 1..n + 1 : b[i] = c[i]
    <3> SUFFICES ASSUME NEW i \in 1..n + 1 PROVE b[i] = c[i]
      OBVIOUS
    <3>1. i # n + 1 => i \in 1..n
      BY <1>1
    <3> QED BY <1>1, <2>1, <2>2, <2>3, <3>1
  <2>5. b = c
    BY <2>2, <2>3, <2>4, SeqEqual
  <2> QED BY <2>5 DEF b, c, t
<1> QED BY <1>2, <1>3

-----------------------------------------------------------------------------
(* The steps of AbsMsg.                                                    *)

Content == [q \in Queue |-> Values(Entries(q))]

(* AbsMsg's queues are the values of the chains.                           *)
LEMMA ContentIs ==
  /\ \A f, e : Chains(f, e) => Content = [q \in Queue |-> ValuesOf(data, e[q])]
  /\ \A f, e : Chains(f, e)' => Content' = [q \in Queue |-> ValuesOf(data', e[q])]
<1>1. ASSUME NEW f, NEW e, Chains(f, e), NEW q \in Queue
      PROVE  Values(Entries(q)) = ValuesOf(data, e[q])
  BY <1>1, WalksMeet, ValuesAre DEF Chains
<1>2. ASSUME NEW f, NEW e, Chains(f, e)', NEW q \in Queue
      PROVE  Values(Entries(q))' = ValuesOf(data', e[q])
  <2>1. Entries(q)' = e[q] /\ e[q] \in Seq(Msg)
    BY <1>2, WalksMeet DEF Chains
  <2>2. Values(Entries(q))' = [i \in DOMAIN Entries(q)' |->
            IF Entries(q)'[i] = Null THEN NoVal ELSE data'[Entries(q)'[i]]]
    BY DEF Values
  <2>3. DOMAIN e[q] = 1..Len(e[q]) /\ \A i \in 1..Len(e[q]) : e[q][i] # Null
    <3>1. DOMAIN e[q] = 1..Len(e[q]) /\ \A i \in 1..Len(e[q]) : e[q][i] \in Msg
      BY <2>1, LenProperties, ElementOfSeq
    <3> QED BY <3>1 DEF Msg, Null
  <2> QED BY <2>1, <2>2, <2>3 DEF ValuesOf
<1> QED BY <1>1, <1>2 DEF Content

LEMMA InitMaps == ASSUME MsgAssumption PROVE Init => Abs!AInit
<1> SUFFICES ASSUME Init PROVE Abs!AInit
  OBVIOUS
<1>1. PICK f, e : Chains(f, e)
  BY InitInv DEF IInv
<1>2. \A q \in Queue : e[q] \in Seq(Msg) /\ Len(e[q]) = 0
  BY <1>1 DEF Chains, QueueHas, Init, OS_MsgQInit
<1>3. \A q \in Queue : ValuesOf(data, e[q]) = << >>
  BY <1>2 DEF ValuesOf
<1>4. Content = [q \in Queue |-> << >>]
  BY <1>1, <1>3, ContentIs
<1> QED BY <1>4 DEF Content, Init, Abs!AInit

(* The values of a chain change only where a block of it is written.       *)
LEMMA ValuesStay ==
  ASSUME NEW s \in Seq(Msg), NEW d, NEW c, \A i \in 1..Len(s) : d[s[i]] = c[s[i]]
  PROVE  ValuesOf(d, s) = ValuesOf(c, s)
BY DEF ValuesOf

LEMMA FreeAllMaps ==
  ASSUME IInv, NEW q \in Queue, OS_MsgQFreeAll(q)
  PROVE  Abs!AFreeAll(q)
<1>1. PICK f, e : Chains(f, e)
  BY DEF IInv
<1> DEFINE d == [e EXCEPT ![q] = << >>]
<1>2. Chains(e[q] \o f, d)'
  BY <1>1, FreeAllChains
<1>3. /\ Content = [r \in Queue |-> ValuesOf(data, e[r])]
      /\ Content' = [r \in Queue |-> ValuesOf(data', d[r])]
  <2> DEFINE g == e[q] \o f
  <2> HIDE DEF d, g
  <2>1. Chains(g, d)'
    BY <1>2 DEF g
  <2> QED BY <1>1, <2>1, ContentIs
<1>4. data' = data /\ ret' = NoVal /\ pool'.NbrFree = pool.NbrFree + mq[q].NbrEntries
  BY DEF OS_MsgQFreeAll, PoolBack
<1>5. /\ e \in [Queue -> Seq(Msg)] /\ e[q] \in Seq(Msg) /\ mq[q].NbrEntries = Len(e[q])
      /\ data \in [Msg -> Val \cup {NoVal}]
  BY <1>1, ChainFacts
<1>6. Len(Content[q]) = mq[q].NbrEntries
  <2>1. Len(ValuesOf(data, e[q])) = Len(e[q])
    BY <1>5, ValuesTyped, ZenonT(60)
  <2> QED BY <1>3, <1>5, <2>1
<1>7. Content' = [Content EXCEPT ![q] = << >>]
  <2>1. d[q] = << >> /\ \A r \in Queue : r # q => d[r] = e[r]
    BY <1>5
  <2>2. ValuesOf(data, << >>) = << >>
    BY DEF ValuesOf
  <2> HIDE DEF d
  <2> QED BY <1>3, <1>4, <2>1, <2>2
<1> QED BY <1>4, <1>6, <1>7 DEF Abs!AFreeAll, Content

LEMMA GetMaps ==
  ASSUME IInv, NEW q \in Queue, OS_MsgQGet(q)
  PROVE  Abs!AGet(q)
<1>1. PICK f, e : Chains(f, e)
  BY DEF IInv
<1> DEFINE d == [e EXCEPT ![q] = Tail(@)]
<1>2. Chains(<<e[q][1]>> \o f, d)' /\ mq[q].OutPtr = e[q][1]
  BY <1>1, GetChains
<1>3. /\ Content = [r \in Queue |-> ValuesOf(data, e[r])]
      /\ Content' = [r \in Queue |-> ValuesOf(data', d[r])]
  <2> DEFINE g == <<e[q][1]>> \o f
  <2> HIDE DEF d, g
  <2>1. Chains(g, d)'
    BY <1>2 DEF g
  <2> QED BY <1>1, <2>1, ContentIs
<1>4. /\ data' = data /\ ret' = data[mq[q].OutPtr] /\ mq[q].NbrEntries > 0
      /\ pool'.NbrFree = pool.NbrFree + 1
  BY DEF OS_MsgQGet, PoolBack
<1>5. /\ e \in [Queue -> Seq(Msg)] /\ e[q] \in Seq(Msg) /\ mq[q].NbrEntries = Len(e[q])
      /\ data \in [Msg -> Val \cup {NoVal}]
  BY <1>1, ChainFacts
<1>6. /\ ValuesOf(data, Tail(e[q])) = Tail(ValuesOf(data, e[q]))
      /\ Head(ValuesOf(data, e[q])) = data[e[q][1]] /\ ValuesOf(data, e[q]) # << >>
  BY <1>4, <1>5, ValuesTail
<1>7. Content[q] # << >> /\ Head(Content[q]) = ret'
  BY <1>2, <1>3, <1>4, <1>6
<1>8. Content' = [Content EXCEPT ![q] = Tail(@)]
  <2>1. d[q] = Tail(e[q]) /\ \A r \in Queue : r # q => d[r] = e[r]
    BY <1>5
  <2> HIDE DEF d
  <2> QED BY <1>3, <1>4, <1>6, <2>1
<1> QED BY <1>4, <1>7, <1>8 DEF Abs!AGet, Content

LEMMA PutMaps ==
  ASSUME MsgAssumption, IInv, NEW q \in Queue, NEW v \in Val, NEW lifo \in BOOLEAN,
         OS_MsgQPut(q, v, lifo)
  PROVE  Abs!APut(q, v, lifo)
<1>1. PICK f, e : Chains(f, e)
  BY DEF IInv
<1> DEFINE s == e[q]
           m == f[1]
           t == With(s, m, lifo)
           d == [e EXCEPT ![q] = t]
<1>2. Chains(Tail(f), d)' /\ pool.NextPtr = m
  BY <1>1, PutStep
<1>3. /\ Content = [r \in Queue |-> ValuesOf(data, e[r])]
      /\ Content' = [r \in Queue |-> ValuesOf(data', d[r])]
  <2> DEFINE g == Tail(f)
  <2> HIDE DEF d, g
  <2>1. Chains(g, d)'
    BY <1>2 DEF g
  <2> QED BY <1>1, <2>1, ContentIs
<1>4. /\ data' = [data EXCEPT ![m] = v] /\ ret' = NoVal /\ mq[q].NbrEntries < Size[q]
      /\ pool.NbrFree > 0 /\ pool'.NbrFree = pool.NbrFree - 1
  BY <1>2 DEF OS_MsgQPut, PoolTake
<1>5. /\ e \in [Queue -> Seq(Msg)] /\ s \in Seq(Msg) /\ mq[q].NbrEntries = Len(s)
      /\ \A r \in Queue : e[r] \in Seq(Msg) /\ \A i \in 1..Len(e[r]) : e[r][i] \in Msg
      /\ data \in [Msg -> Val \cup {NoVal}]
      /\ f \in Seq(Msg) /\ Len(f) = pool.NbrFree /\ Len(f) \in Nat
  BY <1>1, ChainFacts
<1>6. 1 \in 1..Len(f) /\ m \in Msg
  <2>1. 1 \in 1..Len(f)
    BY <1>4, <1>5
  <2> QED BY <1>5, <2>1, ElementOfSeq
<1>7. data' \in [Msg -> Val \cup {NoVal}] /\ data'[m] = v
      /\ \A b \in Msg : b # m => data'[b] = data[b]
  BY <1>4, <1>5, <1>6
<1>8. \A r \in Queue : ValuesOf(data', e[r]) = ValuesOf(data, e[r])
  <2> SUFFICES ASSUME NEW r \in Queue PROVE ValuesOf(data', e[r]) = ValuesOf(data, e[r])
    OBVIOUS
  <2>1. \A i \in 1..Len(e[r]) : e[r][i] # m
    BY <1>1, <1>6 DEF Chains, Apart
  <2>2. \A i \in 1..Len(e[r]) : data'[e[r][i]] = data[e[r][i]]
    BY <1>5, <1>7, <2>1
  <2> QED BY <1>5, <2>2, ValuesStay
<1> HIDE DEF s, m
<1>9. ValuesOf(data', t) = IF lifo THEN <<v>> \o Content[q] ELSE Append(Content[q], v)
  <2>1. /\ ValuesOf(data', <<m>> \o s) = <<v>> \o ValuesOf(data', s)
        /\ ValuesOf(data', Append(s, m)) = Append(ValuesOf(data', s), v)
    BY <1>5, <1>6, <1>7, ValuesWith
  <2>2. Content[q] = ValuesOf(data', s)
    BY <1>3, <1>8 DEF s
  <2>3. CASE lifo
    BY <2>1, <2>2, <2>3 DEF With
  <2>4. CASE ~lifo
    BY <2>1, <2>2, <2>4 DEF With
  <2> QED BY <2>3, <2>4
<1> HIDE DEF t
<1>10. Content' = [Content EXCEPT ![q] = ValuesOf(data', t)]
  <2>1. d[q] = t /\ \A r \in Queue : r # q => d[r] = e[r]
    BY <1>5
  <2> HIDE DEF d
  <2> QED BY <1>3, <1>8, <2>1
<1>11. Len(Content[q]) < Size[q]
  <2>1. Len(ValuesOf(data, s)) = Len(s)
    BY <1>5, ValuesTyped
  <2> QED BY <1>3, <1>4, <1>5, <2>1 DEF s
<1>12. Content' = [Content EXCEPT ![q] = IF lifo THEN <<v>> \o @ ELSE Append(@, v)]
  BY <1>9, <1>10
<1> QED BY <1>4, <1>11, <1>12 DEF Abs!APut, Content

LEMMA NextMaps ==
  ASSUME MsgAssumption PROVE IInv /\ [Next]_vars => [Abs!ANext]_Abs!avars
<1>1. ASSUME UNCHANGED vars PROVE UNCHANGED Abs!avars
  <2>1. Content' = Content /\ pool' = pool /\ ret' = ret
    BY <1>1 DEF vars, Content, Values, Entries, Chain
  <2> QED BY <2>1 DEF Abs!avars, Content
<1> QED BY <1>1, FreeAllMaps, GetMaps, PutMaps DEF Next, Abs!ANext

-----------------------------------------------------------------------------
(* The theorems.                                                           *)

LEMMA OncePlaced == IInv => EachBlockOnce
<1> SUFFICES ASSUME IInv, NEW m \in Msg PROVE Cardinality(Places(m)) = 1
  BY DEF EachBlockOnce
<1>1. PICK f, e : Chains(f, e)
  BY DEF IInv
<1>2. /\ DOMAIN f = 1..Len(f) /\ FreeBlocks = f
      /\ \A q \in Queue : DOMAIN e[q] = 1..Len(e[q]) /\ Entries(q) = e[q]
  <2>1. f \in Seq(Msg) /\ \A q \in Queue : e[q] \in Seq(Msg)
    BY <1>1 DEF Chains
  <2> QED BY <1>1, <2>1, WalksMeet, LenProperties
<1>3. Places(m) = ({i \in 1..Len(f) : f[i] = m} \X {"pool"})
                    \cup UNION {{i \in 1..Len(e[q]) : e[q][i] = m} \X {q} : q \in Queue}
  BY <1>2 DEF Places
<1>4. Apart(f, e)
  BY <1>1 DEF Chains
<1>5. \E x : Places(m) = {x}
  <2>1. CASE \E i \in 1..Len(f) : f[i] = m
    <3>1. PICK i \in 1..Len(f) : f[i] = m
      BY <2>1
    <3>2. {j \in 1..Len(f) : f[j] = m} = {i}
      BY <1>4, <3>1 DEF Apart
    <3>3. \A q \in Queue : {j \in 1..Len(e[q]) : e[q][j] = m} = {}
      BY <1>4, <3>1 DEF Apart
    <3>4. Places(m) = {<<i, "pool">>}
      BY <1>3, <3>2, <3>3
    <3> QED BY <3>4
  <2>2. CASE \E q \in Queue : \E i \in 1..Len(e[q]) : e[q][i] = m
    <3>1. PICK q \in Queue : \E i \in 1..Len(e[q]) : e[q][i] = m
      BY <2>2
    <3>2. PICK i \in 1..Len(e[q]) : e[q][i] = m
      BY <3>1
    <3>3. {j \in 1..Len(f) : f[j] = m} = {}
      BY <1>4, <3>2 DEF Apart
    <3>4. {j \in 1..Len(e[q]) : e[q][j] = m} = {i}
      BY <1>4, <3>2 DEF Apart
    <3>5. \A r \in Queue : r # q => {j \in 1..Len(e[r]) : e[r][j] = m} = {}
      BY <1>4, <3>2 DEF Apart
    <3>6. Places(m) = {<<i, q>>}
      BY <1>3, <3>3, <3>4, <3>5
    <3> QED BY <3>6
  <2> QED BY <1>4, <2>1, <2>2 DEF Apart
<1> QED BY <1>5, FS_Singleton

(* The counters of the pool and the queues count what is there: none falls *)
(* below zero or exceeds the number of blocks.                             *)
THEOREM PoolTyped == ASSUME MsgAssumption PROVE Spec => []TypeOK
<1>1. IInv => TypeOK
  BY DEF IInv
<1> QED BY <1>1, InitInv, NextInv, PTL DEF Spec

(* No block is lost and none is in two places, though NextPtr is stale in  *)
(* the last block of the pool and of each queue: the walks that the        *)
(* counters bound are disjoint and meet every block.                       *)
THEOREM BlocksAreKept == ASSUME MsgAssumption PROVE Spec => []EachBlockOnce
BY InitInv, NextInv, OncePlaced, PTL DEF Spec

(* Queues made of blocks implement AbsMsg's sequences: a message is got    *)
(* once, with its value, in the order of the puts, and a put is taken      *)
(* whenever the queue has room and the pool a block.                       *)
THEOREM BlocksKeepOrder == ASSUME MsgAssumption PROVE Spec => ImplementsAbs
BY InitInv, NextInv, InitMaps, NextMaps, PTL DEF Spec, ImplementsAbs, Abs!ASpec
=============================================================================
