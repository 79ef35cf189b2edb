---------------------------- MODULE OSAloneProof ----------------------------
(***************************************************************************)
(* Theorems about parts that the kernel keeps by themselves, for every     *)
(* value of their constants.                                               *)
(*                                                                         *)
(* Memory partitions, of any number of blocks and for any set of clients.  *)
(* That the free list chains what nobody has is inductive with two facts   *)
(* more: which links OSMemCreate() has made so far, and that no block has  *)
(* two clients. The witness of the chain follows the calls: OSMemGet()     *)
(* drops its first block and OSMemPut() puts one before.                   *)
(*                                                                         *)
(* Pends on several objects, for any tasks, objects and tables.            *)
(*                                                                         *)
(* Software timers, for any timers and delays, any size of the wheel and   *)
(* any range of OSTmrTickCtr: the spokes hold the timers that run, and a   *)
(* timer ends when AbsTmr says. The second needs to know where the walk of *)
(* the timer task is: while a timer is due, the task looks next at the     *)
(* head of its spoke, and every spoke is sorted by what its timers have    *)
(* left.                                                                   *)
(*                                                                         *)
(* The ticks that OSTimeDlyHMSM() asks for.                                *)
(***************************************************************************)
EXTENDS OSMem, OSPendMulti, OSTmr, OSTimeHMSM, FiniteSetTheorems, SequenceTheorems,
        WellFoundedInduction, TLAPS

-----------------------------------------------------------------------------
(* Memory partitions.                                                      *)

(* What OSMemCreate() has linked before it publishes the partition.        *)
LinkedSoFar ==
  next < Created =>
    /\ free = Null /\ nbrFree = 0
    /\ \A b \in Blk : b < next => link[b] = b + 1

OneOwner == \A c, d \in Client : c # d => held[c] \cap held[d] = {}

IInv == TypeOK /\ LinkedSoFar /\ OneOwner /\ FreeListIsRest

LEMMA InitInv == Init => IInv
  BY MemAssumption
  DEF Init, IInv, TypeOK, LinkedSoFar, OneOwner, FreeListIsRest, Out, Created, Blk, Null

LEMMA LinkNextInv ==
  ASSUME IInv, LinkNext
  PROVE  IInv'
<1>1. next \in Blk /\ next + 1 \in Blk /\ next' = next + 1 /\ next' # Created
  BY MemAssumption DEF LinkNext, IInv, TypeOK, Created, Blk
<1>2. TypeOK'
  BY <1>1, MemAssumption DEF LinkNext, IInv, TypeOK, Created, Blk
<1>3. LinkedSoFar'
  BY <1>1, MemAssumption DEF LinkNext, IInv, TypeOK, LinkedSoFar, Created, Blk
<1>4. OneOwner' /\ FreeListIsRest'
  BY <1>1, MemAssumption
  DEF LinkNext, IInv, TypeOK, OneOwner, FreeListIsRest, Out, Created, Blk
<1> QED BY <1>2, <1>3, <1>4 DEF IInv

(* The blocks in the order of their addresses are the first free list.     *)
LEMMA PublishInv ==
  ASSUME IInv, Publish
  PROVE  IInv'
<1> DEFINE s == [i \in 1..NbrBlks |-> i]
<1>1. /\ next = NbrBlks /\ next' = Created /\ free' = 1 /\ nbrFree' = NbrBlks
      /\ link' = [link EXCEPT ![NbrBlks] = Null] /\ held' = held
      /\ next # Created /\ next < Created /\ NbrBlks \in Nat \ {0, 1}
  BY MemAssumption DEF Publish, Created
<1>2. TypeOK'
  BY <1>1 DEF IInv, TypeOK, Created, Blk, Null
<1>3. Out = {} /\ Out' = {}
  BY <1>1 DEF IInv, FreeListIsRest, Out
<1>4. s \in [1..nbrFree' -> Blk] /\ (\A i \in 1..NbrBlks : s[i] = i)
  BY <1>1 DEF Blk
<1>5. \A i \in 1..NbrBlks : link'[i] = IF i < NbrBlks THEN i + 1 ELSE Null
  BY <1>1 DEF IInv, TypeOK, LinkedSoFar, Blk
<1> HIDE DEF s
<1>6. Chain(s)'
  BY <1>1, <1>3, <1>4, <1>5 DEF Chain, Blk, Null
<1>7. FreeListIsRest'
  BY <1>1, <1>4, <1>6 DEF FreeListIsRest, Created
<1>8. LinkedSoFar' /\ OneOwner'
  BY <1>1 DEF IInv, LinkedSoFar, OneOwner, Created
<1> QED BY <1>2, <1>7, <1>8 DEF IInv

(* What the calls on a created partition start from.                       *)
LEMMA ChainThere ==
  ASSUME IInv, nbrFree > 0 \/ Out # {}
  PROVE  next = Created /\ \E s \in [1..nbrFree -> Blk] : Chain(s)
BY DEF IInv, TypeOK, FreeListIsRest

LEMMA GetInv ==
  ASSUME IInv, NEW c \in Client, OSMemGet(c)
  PROVE  IInv' /\ free \in Blk \ Out
<1>1. /\ nbrFree > 0 /\ free' = link[free] /\ nbrFree' = nbrFree - 1
      /\ held' = [held EXCEPT ![c] = @ \cup {free}]
      /\ link' = link /\ next' = next /\ nbrFree \in Nat /\ nbrFree =< NbrBlks
  BY MemAssumption DEF OSMemGet, IInv, TypeOK
<1>2. next = Created /\ \E s \in [1..nbrFree -> Blk] : Chain(s)
  BY <1>1, ChainThere
<1>3. PICK s \in [1..nbrFree -> Blk] : Chain(s)
  BY <1>2
<1>4. /\ \A i, j \in 1..nbrFree : s[i] = s[j] => i = j
      /\ \A b \in Blk : b \notin Out <=> \E i \in 1..nbrFree : s[i] = b
      /\ \A i \in 1..nbrFree : link[s[i]] = IF i < nbrFree THEN s[i + 1] ELSE Null
      /\ free = s[1] /\ 1 \in 1..nbrFree
  <2>1. 1 \in 1..nbrFree /\ nbrFree # 0
    BY <1>1
  <2> QED BY <1>3, <2>1 DEF Chain
<1>5. free \in Blk \ Out
  BY <1>4
<1>6. \A b \in Blk : b \in Out' <=> b \in Out \/ b = free
  BY <1>1, <1>5 DEF IInv, TypeOK, Out
<1>7. TypeOK' /\ LinkedSoFar'
  <2>1. link[free] \in Blk \cup {Null}
    BY <1>5 DEF IInv, TypeOK
  <2> QED BY <1>1, <1>2, <1>5, <2>1, MemAssumption
          DEF IInv, TypeOK, LinkedSoFar, Created
<1>8. OneOwner'
  <2>1. \A d \in Client : free \notin held[d]
    BY <1>5 DEF Out
  <2> QED BY <1>1, <2>1 DEF IInv, TypeOK, OneOwner
<1>a. \E r \in [1..nbrFree' -> Blk] : \A i \in 1..nbrFree' : r[i] = s[i + 1]
  <2> DEFINE q == [i \in 1..nbrFree - 1 |-> s[i + 1]]
  <2>1. \A i \in 1..nbrFree - 1 : i + 1 \in 1..nbrFree
    BY <1>1
  <2>2. q \in [1..nbrFree' -> Blk] /\ \A i \in 1..nbrFree' : q[i] = s[i + 1]
    BY <1>1, <2>1
  <2> QED BY <2>2
<1>9. PICK r \in [1..nbrFree' -> Blk] : \A i \in 1..nbrFree' : r[i] = s[i + 1]
  BY <1>a
<1>10. Chain(r)'
  <2>1. \A i, j \in 1..nbrFree' : r[i] = r[j] => i = j
    BY <1>1, <1>4, <1>9
  <2>2. ASSUME NEW b \in Blk
        PROVE  b \notin Out' <=> \E i \in 1..nbrFree' : r[i] = b
    <3>1. CASE b \notin Out'
      <4>1. PICK k \in 1..nbrFree : s[k] = b
        BY <1>4, <1>6, <3>1
      <4>2. k - 1 \in 1..nbrFree'
        BY <1>1, <1>4, <1>6, <3>1, <4>1
      <4>3. r[k - 1] = s[k]
        BY <1>9, <4>1, <4>2
      <4> QED BY <3>1, <4>1, <4>2, <4>3
    <3>2. CASE b \in Out'
      <4>1. ASSUME NEW i \in 1..nbrFree', r[i] = b PROVE FALSE
        <5>1. i + 1 \in 1..nbrFree /\ s[i + 1] = b /\ i + 1 # 1
          BY <1>1, <1>9, <4>1
        <5> QED BY <1>4, <1>6, <3>2, <5>1
      <4> QED BY <3>2, <4>1
    <3> QED BY <3>1, <3>2
  <2>3. free' = IF nbrFree' = 0 THEN Null ELSE r[1]
    BY <1>1, <1>4, <1>9
  <2>4. \A i \in 1..nbrFree' : link'[r[i]] = IF i < nbrFree' THEN r[i + 1] ELSE Null
    BY <1>1, <1>4, <1>9
  <2> QED BY <2>1, <2>2, <2>3, <2>4 DEF Chain
<1>11. FreeListIsRest'
  BY <1>1, <1>2, <1>9, <1>10 DEF FreeListIsRest, Created
<1> QED BY <1>5, <1>7, <1>8, <1>11 DEF IInv

LEMMA PutInv ==
  ASSUME IInv, NEW c \in Client, NEW b \in Blk, OSMemPut(c, b)
  PROVE  IInv'
<1>1. /\ b \in held[c] /\ nbrFree < NbrBlks
      /\ link' = [link EXCEPT ![b] = free] /\ free' = b /\ nbrFree' = nbrFree + 1
      /\ held' = [held EXCEPT ![c] = @ \ {b}] /\ next' = next /\ nbrFree \in Nat
      /\ link \in [Blk -> Blk \cup {Null}]
  BY MemAssumption DEF OSMemPut, IInv, TypeOK
<1>2. b \in Out /\ \A d \in Client \ {c} : b \notin held[d]
  BY <1>1 DEF IInv, OneOwner, Out
<1>3. next = Created /\ \E s \in [1..nbrFree -> Blk] : Chain(s)
  BY <1>2, ChainThere
<1>4. PICK s \in [1..nbrFree -> Blk] : Chain(s)
  BY <1>3
<1>5. /\ \A i, j \in 1..nbrFree : s[i] = s[j] => i = j
      /\ \A u \in Blk : u \notin Out <=> \E i \in 1..nbrFree : s[i] = u
      /\ free = IF nbrFree = 0 THEN Null ELSE s[1]
      /\ \A i \in 1..nbrFree : link[s[i]] = IF i < nbrFree THEN s[i + 1] ELSE Null
      /\ \A i \in 1..nbrFree : s[i] \in Blk /\ s[i] # b
  BY <1>2, <1>4 DEF Chain
<1>6. \A u \in Blk : u \in Out' <=> u \in Out /\ u # b
  BY <1>1, <1>2 DEF IInv, TypeOK, Out
<1>7. TypeOK' /\ LinkedSoFar' /\ OneOwner'
  <2>1. TypeOK'
    BY <1>1, MemAssumption DEF IInv, TypeOK
  <2>2. LinkedSoFar'
    BY <1>1, <1>3, MemAssumption DEF LinkedSoFar, Created
  <2>3. OneOwner'
    BY <1>1 DEF IInv, TypeOK, OneOwner
  <2> QED BY <2>1, <2>2, <2>3
<1>a. \E r \in [1..nbrFree' -> Blk] :
        \A i \in 1..nbrFree' : r[i] = IF i = 1 THEN b ELSE s[i - 1]
  <2> DEFINE q == [i \in 1..nbrFree + 1 |-> IF i = 1 THEN b ELSE s[i - 1]]
  <2>1. \A i \in 1..nbrFree + 1 : i # 1 => i - 1 \in 1..nbrFree
    BY <1>1
  <2>2. /\ q \in [1..nbrFree' -> Blk]
        /\ \A i \in 1..nbrFree' : q[i] = IF i = 1 THEN b ELSE s[i - 1]
    BY <1>1, <2>1
  <2> QED BY <2>2
<1>b. PICK r \in [1..nbrFree' -> Blk] :
        \A i \in 1..nbrFree' : r[i] = IF i = 1 THEN b ELSE s[i - 1]
  BY <1>a
<1>8. /\ 1 \in 1..nbrFree' /\ r[1] = b
      /\ \A i \in 1..nbrFree' : i # 1 => i - 1 \in 1..nbrFree /\ r[i] = s[i - 1]
      /\ \A i \in 1..nbrFree : i + 1 \in 1..nbrFree' /\ r[i + 1] = s[i]
  BY <1>1, <1>b
<1>9. Chain(r)'
  <2>1. \A i, j \in 1..nbrFree' : r[i] = r[j] => i = j
    BY <1>1, <1>5, <1>8
  <2>2. ASSUME NEW u \in Blk
        PROVE  u \notin Out' <=> \E i \in 1..nbrFree' : r[i] = u
    <3>1. CASE u = b
      BY <1>6, <1>8, <3>1
    <3>2. CASE u # b
      <4>1. u \notin Out' <=> \E i \in 1..nbrFree : s[i] = u
        BY <1>5, <1>6, <3>2
      <4>2. (\E i \in 1..nbrFree : s[i] = u) => \E i \in 1..nbrFree' : r[i] = u
        BY <1>8
      <4>3. ASSUME NEW i \in 1..nbrFree', r[i] = u
            PROVE  \E k \in 1..nbrFree : s[k] = u
        BY <1>8, <3>2, <4>3
      <4> QED BY <4>1, <4>2, <4>3
    <3> QED BY <3>1, <3>2
  <2>3. free' = IF nbrFree' = 0 THEN Null ELSE r[1]
    BY <1>1, <1>8
  <2>4. ASSUME NEW i \in 1..nbrFree'
        PROVE  link'[r[i]] = IF i < nbrFree' THEN r[i + 1] ELSE Null
    <3>1. CASE i = 1
      <4>1. link'[r[i]] = free
        BY <1>1, <1>8, <3>1
      <4>2. CASE nbrFree = 0
        BY <1>1, <1>5, <3>1, <4>1, <4>2
      <4>3. CASE nbrFree # 0
        <5>1. 1 \in 1..nbrFree /\ r[1 + 1] = s[1]
          BY <1>1, <1>8, <4>3
        <5> QED BY <1>1, <1>5, <3>1, <4>1, <4>3, <5>1
      <4> QED BY <4>2, <4>3
    <3>2. CASE i # 1
      <4>1. i - 1 \in 1..nbrFree /\ r[i] = s[i - 1] /\ s[i - 1] # b /\ s[i - 1] \in Blk
        BY <1>5, <1>8, <3>2
      <4>2. link'[r[i]] = link[s[i - 1]]
        BY <1>1, <4>1
      <4>3. i < nbrFree' => i \in 1..nbrFree /\ r[i + 1] = s[i]
        BY <1>1, <1>8
      <4>4. link[s[i - 1]] = IF i - 1 < nbrFree THEN s[(i - 1) + 1] ELSE Null
        BY <1>5, <4>1
      <4>5. (i - 1) + 1 = i /\ (i - 1 < nbrFree <=> i < nbrFree')
        BY <1>1
      <4> QED BY <4>2, <4>3, <4>4, <4>5
    <3> QED BY <3>1, <3>2
  <2> QED BY <2>1, <2>2, <2>3, <2>4 DEF Chain
<1>10. FreeListIsRest'
  BY <1>1, <1>3, <1>8, <1>9 DEF FreeListIsRest, Created
<1> QED BY <1>7, <1>10 DEF IInv

(* What a client writes is not in the chain.                               *)
LEMMA WriteInv ==
  ASSUME IInv, NEW c \in Client, NEW b \in Blk, Write(c, b)
  PROVE  IInv'
<1>1. PICK w \in Blk \cup {Null} : link' = [link EXCEPT ![b] = w]
  BY DEF Write
<1>2. b \in held[c] /\ UNCHANGED <<next, free, nbrFree, held>> /\ b \in Out /\ Out' = Out
  BY DEF Write, Out
<1>3. next = Created /\ \E s \in [1..nbrFree -> Blk] : Chain(s)
  BY <1>2, ChainThere
<1>4. PICK s \in [1..nbrFree -> Blk] : Chain(s)
  BY <1>3
<1>5. \A i \in 1..nbrFree : s[i] \in Blk /\ s[i] # b
  BY <1>2, <1>4 DEF Chain
<1>6. \A i \in 1..nbrFree : link'[s[i]] = link[s[i]]
  BY <1>1, <1>5 DEF IInv, TypeOK
<1>7. Chain(s)'
  BY <1>2, <1>4, <1>6 DEF Chain
<1>8. FreeListIsRest' /\ LinkedSoFar'
  BY <1>2, <1>3, <1>7, MemAssumption DEF FreeListIsRest, LinkedSoFar, Created
<1>9. TypeOK' /\ OneOwner'
  BY <1>1, <1>2 DEF IInv, TypeOK, OneOwner
<1> QED BY <1>8, <1>9 DEF IInv

LEMMA HandInv ==
  ASSUME IInv, NEW c \in Client, NEW d \in Client, NEW b \in Blk, Hand(c, d, b)
  PROVE  IInv'
<1>1. /\ b \in held[c] /\ c # d /\ UNCHANGED <<link, next, free, nbrFree>>
      /\ held' = [held EXCEPT ![c] = @ \ {b}, ![d] = @ \cup {b}]
      /\ held \in [Client -> SUBSET Blk]
  BY DEF Hand, IInv, TypeOK
<1>2. \A e \in Client : held'[e] = IF e = c THEN held[c] \ {b}
                                   ELSE IF e = d THEN held[d] \cup {b} ELSE held[e]
  BY <1>1
<1>3. \A u \in Blk : u \in Out' <=> u \in Out
  BY <1>1, <1>2 DEF Out
<1>4. Out' = Out
  BY <1>3 DEF Out
<1>5. OneOwner'
  BY <1>1, <1>2 DEF IInv, OneOwner
<1>6. TypeOK' /\ LinkedSoFar'
  BY <1>1 DEF IInv, TypeOK, LinkedSoFar
<1>7. FreeListIsRest'
  BY <1>1, <1>4 DEF IInv, FreeListIsRest, Chain
<1> QED BY <1>5, <1>6, <1>7 DEF IInv

LEMMA StepInv == IInv /\ [Next]_vars => IInv'
<1> SUFFICES ASSUME IInv, [Next]_vars PROVE IInv'
  OBVIOUS
<1>1. CASE LinkNext
  BY <1>1, LinkNextInv
<1>2. CASE Publish
  BY <1>2, PublishInv
<1>3. ASSUME NEW c \in Client, OSMemGet(c) PROVE IInv'
  BY <1>3, GetInv
<1>4. ASSUME NEW c \in Client, NEW b \in Blk, OSMemPut(c, b) \/ Write(c, b) PROVE IInv'
  BY <1>4, PutInv, WriteInv
<1>5. ASSUME NEW c \in Client, NEW d \in Client, NEW b \in Blk, Hand(c, d, b) PROVE IInv'
  BY <1>5, HandInv
<1>6. CASE UNCHANGED vars
  BY <1>6
  DEF vars, IInv, TypeOK, LinkedSoFar, OneOwner, FreeListIsRest, Chain, Out
<1> QED BY <1>1, <1>2, <1>3, <1>4, <1>5, <1>6 DEF Next

(* A chain of as many blocks as there are would leave no block out.        *)
LEMMA InvPut == IInv => PutIsTaken
<1> SUFFICES ASSUME IInv, Out # {}, nbrFree >= NbrBlks PROVE FALSE
  BY MemAssumption DEF PutIsTaken, IInv, OneOwner, TypeOK
<1>1. PICK s \in [1..nbrFree -> Blk] : Chain(s)
  BY ChainThere
<1>2. PICK b \in Blk : b \in Out
  BY DEF Out
<1>3. nbrFree = NbrBlks /\ NbrBlks \in Nat
  BY MemAssumption DEF IInv, TypeOK
<1> DEFINE T == Blk \ {b}
<1>4. IsFiniteSet(Blk) /\ Cardinality(Blk) = NbrBlks
  BY <1>3, FS_Interval DEF Blk
<1>5. IsFiniteSet(T) /\ Cardinality(T) < Cardinality(Blk)
  <2>1. IsFiniteSet(T) /\ Cardinality(T) = NbrBlks - 1
    BY <1>4, FS_RemoveElement
  <2> QED BY <1>3, <1>4, <2>1
<1>6. s \in [Blk -> T]
  BY <1>1, <1>2, <1>3 DEF Chain, Blk
<1> HIDE DEF T
<1>7. \E x, y \in Blk : x # y /\ s[x] = s[y]
  BY <1>4, <1>5, <1>6, FS_PigeonHole
<1> QED BY <1>1, <1>3, <1>7 DEF Chain, Blk

-----------------------------------------------------------------------------
(* Every variable of the partition keeps its type: NbrFree stays between 0 *)
(* and the number of blocks, FreeListPtr is a block or null.               *)
THEOREM PartitionTyped == Spec => []TypeOK
<1>1. IInv => TypeOK
  BY DEF IInv
<1> QED BY InitInv, StepInv, <1>1, PTL DEF Spec

(* The free list chains exactly the blocks nobody has, NbrFree of them.    *)
THEOREM FreeListHolds == Spec => []FreeListIsRest
<1>1. IInv => FreeListIsRest
  BY DEF IInv
<1> QED BY InitInv, StepInv, <1>1, PTL DEF Spec

(* A block has one client, which can always put it back.                   *)
THEOREM PutSucceeds == Spec => []PutIsTaken
BY InitInv, StepInv, InvPut, PTL DEF Spec

(* OSMemGet() never gives out a block that a client has.                   *)
THEOREM GetIsExclusive == Spec => NoBlockTwice
<1>1. IInv /\ [Next]_vars =>
        [\A c \in Client : \A b \in held'[c] \ held[c] :
           b \notin Out \/ \E d \in Client : b \in held[d] \ held'[d]]_vars
  <2> SUFFICES ASSUME IInv, Next, NEW c \in Client, NEW b \in held'[c] \ held[c]
               PROVE  b \notin Out \/ \E d \in Client : b \in held[d] \ held'[d]
    BY DEF vars
  <2>0. held \in [Client -> SUBSET Blk]
    BY DEF IInv, TypeOK
  <2>1. ASSUME NEW e \in Client, OSMemGet(e) PROVE b \notin Out
    <3>1. free \in Blk \ Out
      BY <2>1, GetInv
    <3>2. held' = [held EXCEPT ![e] = @ \cup {free}]
      BY <2>1 DEF OSMemGet
    <3> QED BY <2>0, <3>1, <3>2
  <2>2. ASSUME NEW e \in Client, NEW f \in Client, NEW u \in Blk, Hand(e, f, u)
        PROVE  \E d \in Client : b \in held[d] \ held'[d]
    <3>1. /\ held' = [held EXCEPT ![e] = @ \ {u}, ![f] = @ \cup {u}]
          /\ u \in held[e] /\ e # f
      BY <2>2 DEF Hand
    <3>2. b = u /\ held'[e] = held[e] \ {u}
      BY <2>0, <3>1
    <3> QED BY <3>1, <3>2
  <2>3. ASSUME NEW e \in Client, NEW u \in Blk, OSMemPut(e, u) \/ Write(e, u)
        PROVE  FALSE
    BY <2>0, <2>3 DEF OSMemPut, Write
  <2>4. ASSUME LinkNext \/ Publish PROVE FALSE
    BY <2>4 DEF LinkNext, Publish
  <2> QED BY <2>1, <2>2, <2>3, <2>4 DEF Next
<1> QED BY InitInv, StepInv, <1>1, PTL DEF Spec, NoBlockTwice

-----------------------------------------------------------------------------
(* Pends on several objects: sequences first.                              *)

LEMMA Least ==
  ASSUME NEW T \in SUBSET Nat, T # {}
  PROVE  \E m \in T : \A n \in T : m =< n
<1>1. PICK m \in T : \A n \in T : ~(<<n, m>> \in OpToRel(<, Nat))
  BY NatLessThanWellFounded, WFMin
<1>2. \A n \in T : ~(n < m)
  BY <1>1 DEF OpToRel
<1> QED BY <1>2

(* f holds, for each i up to n, what of the first i entries of s is in T.  *)
PicksTo(f, s, T, n) ==
  f = [i \in 0..n |->
         IF i = 0 THEN << >>
         ELSE IF s[i] \in T THEN Append(f[i - 1], s[i]) ELSE f[i - 1]]

LEMMA PicksPoints ==
  ASSUME NEW f, NEW s, NEW T, NEW n \in Nat
  PROVE  PicksTo(f, s, T, n) <=>
           /\ f = [i \in 0..n |-> f[i]]
           /\ \A i \in 0..n : f[i] = IF i = 0 THEN << >>
                                     ELSE IF s[i] \in T THEN Append(f[i - 1], s[i])
                                     ELSE f[i - 1]
<1>1. ASSUME PicksTo(f, s, T, n)
      PROVE  /\ f = [i \in 0..n |-> f[i]]
             /\ \A i \in 0..n : f[i] = IF i = 0 THEN << >>
                                       ELSE IF s[i] \in T THEN Append(f[i - 1], s[i])
                                       ELSE f[i - 1]
  BY <1>1 DEF PicksTo
<1>2. ASSUME f = [i \in 0..n |-> f[i]],
             \A i \in 0..n : f[i] = IF i = 0 THEN << >>
                                    ELSE IF s[i] \in T THEN Append(f[i - 1], s[i])
                                    ELSE f[i - 1]
      PROVE  PicksTo(f, s, T, n)
  BY <1>2 DEF PicksTo
<1> QED BY <1>1, <1>2

LEMMA PicksOneMore ==
  ASSUME NEW s, NEW T, NEW n \in Nat, NEW f, PicksTo(f, s, T, n)
  PROVE  \E g : PicksTo(g, s, T, n + 1)
<1> DEFINE g == [i \in 0..n + 1 |->
                   IF i \in 0..n THEN f[i]
                   ELSE IF s[n + 1] \in T THEN Append(f[n], s[n + 1]) ELSE f[n]]
           m == n + 1
<1>1. \A i \in 0..n : f[i] = IF i = 0 THEN << >>
                             ELSE IF s[i] \in T THEN Append(f[i - 1], s[i]) ELSE f[i - 1]
  BY PicksPoints
<1>2. /\ \A i \in 0..n : g[i] = f[i]
      /\ g[m] = IF s[m] \in T THEN Append(g[m - 1], s[m]) ELSE g[m - 1]
  OBVIOUS
<1>3. g = [i \in 0..m |-> g[i]]
  OBVIOUS
<1> HIDE DEF g
<1>4. \A i \in 0..m : g[i] = IF i = 0 THEN << >>
                             ELSE IF s[i] \in T THEN Append(g[i - 1], s[i]) ELSE g[i - 1]
  <2>1. ASSUME NEW i \in 0..n
        PROVE  g[i] = IF i = 0 THEN << >>
                      ELSE IF s[i] \in T THEN Append(g[i - 1], s[i]) ELSE g[i - 1]
    <3>1. i = 0 \/ i - 1 \in 0..n
      OBVIOUS
    <3> QED BY <1>1, <1>2, <3>1
  <2>2. \A i \in 0..m : i \in 0..n \/ (i = m /\ i # 0)
    OBVIOUS
  <2> QED BY <1>2, <2>1, <2>2
<1> HIDE DEF m
<1>5. m \in Nat
  BY DEF m
<1>6. PicksTo(g, s, T, m)
  BY <1>3, <1>4, <1>5, PicksPoints
<1> QED BY <1>6 DEF m

LEMMA PicksExist ==
  ASSUME NEW s, NEW T, NEW n \in Nat
  PROVE  \E f : PicksTo(f, s, T, n)
<1> DEFINE N == {k \in Nat : ~\E f : PicksTo(f, s, T, k)}
<1> SUFFICES ASSUME N # {} PROVE FALSE
  OBVIOUS
<1>1. PICK m \in N : \A k \in N : m =< k
  <2>1. N \in SUBSET Nat
    OBVIOUS
  <2> HIDE DEF N
  <2> QED BY <2>1, Least
<1>2. CASE m = 0
  <2> DEFINE f == [i \in 0..0 |-> << >>]
  <2>1. PicksTo(f, s, T, 0)
    BY DEF PicksTo
  <2> QED BY <1>2, <2>1
<1>3. CASE m # 0
  <2>1. m - 1 \in Nat /\ m - 1 \notin N /\ (m - 1) + 1 = m
    BY <1>1, <1>3
  <2>2. PICK f : PicksTo(f, s, T, m - 1)
    BY <2>1
  <2>3. \E g : PicksTo(g, s, T, m)
    BY <2>1, <2>2, PicksOneMore
  <2> QED BY <2>3
<1> QED BY <1>2, <1>3

(* The sequence s is in the order of the numbers p, and has no entry twice.*)
Once(s) == \A i, j \in 1..Len(s) : s[i] = s[j] => i = j
Sorted(s, p) == \A i, j \in 1..Len(s) : i < j => p[s[i]] =< p[s[j]]
Entries(s) == {s[i] : i \in 1..Len(s)}

(* What is true of the entries of r, which are picked of the first i of s. *)
Picked(r, s, T, i) ==
  /\ r \in Seq(Task)
  /\ \A j \in 1..Len(r) : \E k \in 1..i : r[j] = s[k] /\ s[k] \in T
  /\ \A k \in 1..i : s[k] \in T => \E j \in 1..Len(r) : r[j] = s[k]

LEMMA PickedAppend ==
  ASSUME NEW s \in Seq(Task), NEW T, NEW i \in 1..Len(s), NEW r, Picked(r, s, T, i - 1),
         NEW p \in [Task -> Nat]
  PROVE  /\ s[i] \notin T => Picked(r, s, T, i)
         /\ s[i] \in T => Picked(Append(r, s[i]), s, T, i)
         /\ Once(s) /\ Once(r) /\ s[i] \in T => Once(Append(r, s[i]))
         /\ Sorted(s, p) /\ Sorted(r, p) /\ s[i] \in T => Sorted(Append(r, s[i]), p)
<1> DEFINE a == Append(r, s[i])
           n == Len(r)
<1>0. /\ r \in Seq(Task) /\ s[i] \in Task /\ Len(s) \in Nat /\ i \in Nat
      /\ 1..i - 1 \subseteq 1..i /\ i \in 1..i
      /\ \A k \in 1..i : k \in 1..i - 1 \/ k = i
      /\ \A k \in 1..i - 1 : k \in 1..Len(s) /\ k < i
  BY ElementOfSeq, LenProperties DEF Picked
<1>1. /\ a \in Seq(Task) /\ n \in Nat /\ Len(a) = n + 1 /\ a[n + 1] = s[i]
      /\ \A j \in 1..n : a[j] = r[j] /\ r[j] \in Task
      /\ \A j \in 1..n + 1 : j \in 1..n \/ j = n + 1
      /\ 1..n \subseteq 1..n + 1 /\ n + 1 \in 1..n + 1
  BY <1>0, AppendProperties, ElementOfSeq, LenProperties
<1> HIDE DEF a
<1>2. ASSUME s[i] \notin T PROVE Picked(r, s, T, i)
  BY <1>0, <1>2 DEF Picked
<1>3. ASSUME s[i] \in T PROVE Picked(a, s, T, i)
  <2>1. ASSUME NEW j \in 1..Len(a) PROVE \E k \in 1..i : a[j] = s[k] /\ s[k] \in T
    <3>1. CASE j \in 1..n
      <4>1. PICK k \in 1..i - 1 : r[j] = s[k] /\ s[k] \in T
        BY <3>1 DEF Picked
      <4> QED BY <1>0, <1>1, <3>1, <4>1
    <3>2. CASE j = n + 1
      BY <1>0, <1>1, <1>3, <3>2
    <3> QED BY <1>1, <3>1, <3>2
  <2>2. ASSUME NEW k \in 1..i, s[k] \in T PROVE \E j \in 1..Len(a) : a[j] = s[k]
    <3>1. CASE k \in 1..i - 1
      <4>1. PICK j \in 1..n : r[j] = s[k]
        BY <2>2, <3>1 DEF Picked
      <4> QED BY <1>1, <4>1
    <3>2. CASE k = i
      BY <1>1, <3>2
    <3> QED BY <1>0, <3>1, <3>2
  <2> QED BY <1>1, <2>1, <2>2 DEF Picked
<1>4. ASSUME NEW j \in 1..n PROVE \E k \in 1..Len(s) : k < i /\ r[j] = s[k]
  <2>1. PICK k \in 1..i - 1 : r[j] = s[k]
    BY DEF Picked
  <2> QED BY <1>0, <2>1
<1>5. ASSUME Once(s), Once(r) PROVE Once(a)
  <2>1. \A j \in 1..n : r[j] # s[i]
    BY <1>4, <1>5, <1>0 DEF Once
  <2> QED BY <1>1, <1>5, <2>1 DEF Once
<1>6. ASSUME Sorted(s, p), Sorted(r, p) PROVE Sorted(a, p)
  <2>1. \A j \in 1..n : p[r[j]] =< p[s[i]]
    BY <1>4, <1>6 DEF Sorted
  <2>2. ASSUME NEW j \in 1..n + 1, NEW k \in 1..n + 1, j < k PROVE p[a[j]] =< p[a[k]]
    <3>1. j \in 1..n
      BY <1>1, <2>2
    <3>2. CASE k \in 1..n
      BY <1>1, <1>6, <2>2, <3>1, <3>2 DEF Sorted
    <3>3. CASE k = n + 1
      BY <1>1, <2>1, <3>1, <3>3
    <3> QED BY <1>1, <3>2, <3>3
  <2> QED BY <1>1, <2>2 DEF Sorted
<1> QED BY <1>2, <1>3, <1>5, <1>6 DEF a

LEMMA PickedEntries ==
  ASSUME NEW r, NEW s, NEW T, Picked(r, s, T, Len(s))
  PROVE  Entries(r) = Entries(s) \cap T
<1>1. ASSUME NEW x \in Entries(r) PROVE x \in Entries(s) /\ x \in T
  BY DEF Picked, Entries
<1>2. ASSUME NEW x \in Entries(s), x \in T PROVE x \in Entries(r)
  <2>1. PICK k \in 1..Len(s) : x = s[k]
    BY DEF Entries
  <2>2. PICK j \in 1..Len(r) : r[j] = s[k]
    BY <1>2, <2>1 DEF Picked
  <2> QED BY <2>1, <2>2 DEF Entries
<1> QED BY <1>1, <1>2

LEMMA OnlyIs ==
  ASSUME NEW s \in Seq(Task), NEW T, NEW p \in [Task -> Nat]
  PROVE  /\ Only(s, T) \in Seq(Task)
         /\ Entries(Only(s, T)) = Entries(s) \cap T
         /\ Once(s) => Once(Only(s, T))
         /\ Sorted(s, p) => Sorted(Only(s, T), p)
<1> DEFINE n == Len(s)
<1>0. n \in Nat
  BY LenProperties
<1>1. PICK f : PicksTo(f, s, T, n) /\ Only(s, T) = f[n]
  <2>1. \E f : PicksTo(f, s, T, n)
    BY <1>0, PicksExist
  <2> DEFINE F == CHOOSE f : PicksTo(f, s, T, n)
  <2>2. PicksTo(F, s, T, n)
    BY <2>1
  <2>3. Only(s, T) = F[n]
    BY DEF Only, PicksTo
  <2> QED BY <2>2, <2>3
<1>2. \A i \in 0..n : f[i] = IF i = 0 THEN << >>
                             ELSE IF s[i] \in T THEN Append(f[i - 1], s[i]) ELSE f[i - 1]
  BY <1>0, <1>1, PicksPoints
<1> DEFINE Good(i) == /\ Picked(f[i], s, T, i)
                      /\ Once(s) => Once(f[i])
                      /\ Sorted(s, p) => Sorted(f[i], p)
           N == {i \in 0..n : ~Good(i)}
<1>3. N = {}
  <2> SUFFICES ASSUME N # {} PROVE FALSE
    OBVIOUS
  <2>1. N \in SUBSET Nat
    BY <1>0
  <2>2. PICK m \in N : \A i \in N : m =< i
    <3> HIDE DEF N
    <3> QED BY <2>1, Least
  <2>3. CASE m = 0
    <3>1. f[0] = << >>
      <4>1. 0 \in 0..n
        BY <1>0
      <4> QED BY <1>2, <4>1
    <3>2. Good(0)
      BY <3>1, EmptySeq DEF Picked, Once, Sorted
    <3> QED BY <2>2, <2>3, <3>2
  <2>4. CASE m # 0
    <3>1. m - 1 \in 0..n /\ m - 1 \notin N /\ m \in 1..n
      BY <1>0, <2>2, <2>4
    <3>2. Good(m - 1)
      BY <3>1
    <3>3. f[m] = IF s[m] \in T THEN Append(f[m - 1], s[m]) ELSE f[m - 1]
      BY <1>0, <1>2, <3>1
    <3> DEFINE r == f[m - 1]
    <3>4. Picked(r, s, T, m - 1) /\ (Once(s) => Once(r)) /\ (Sorted(s, p) => Sorted(r, p))
      BY <3>2
    <3> HIDE DEF r
    <3>5. /\ s[m] \notin T => Picked(r, s, T, m)
          /\ s[m] \in T => Picked(Append(r, s[m]), s, T, m)
          /\ Once(s) /\ Once(r) /\ s[m] \in T => Once(Append(r, s[m]))
          /\ Sorted(s, p) /\ Sorted(r, p) /\ s[m] \in T => Sorted(Append(r, s[m]), p)
      BY <3>1, <3>4, PickedAppend
    <3>6. f[m] = IF s[m] \in T THEN Append(r, s[m]) ELSE r
      BY <3>3 DEF r
    <3>7. Good(m)
      BY <3>4, <3>5, <3>6
    <3> QED BY <2>2, <3>7
  <2> QED BY <2>3, <2>4
<1>4. Good(n)
  BY <1>0, <1>3
<1>5. Entries(f[n]) = Entries(s) \cap T
  BY <1>4, PickedEntries
<1>6. f[n] \in Seq(Task) /\ (Once(s) => Once(f[n])) /\ (Sorted(s, p) => Sorted(f[n], p))
  BY <1>4 DEF Picked
<1> HIDE DEF n
<1> QED BY <1>1, <1>5, <1>6

LEMMA ConcatIs ==
  ASSUME NEW S, NEW u \in Seq(S), NEW v \in Seq(S), NEW p
  PROVE  /\ u \o v \in Seq(S)
         /\ Entries(u \o v) = Entries(u) \cup Entries(v)
         /\ Once(u) /\ Once(v) /\ Entries(u) \cap Entries(v) = {} => Once(u \o v)
         /\ /\ Sorted(u, p) /\ Sorted(v, p)
            /\ \A x \in Entries(u), y \in Entries(v) : p[x] =< p[y]
            => Sorted(u \o v, p)
<1> DEFINE r == u \o v
           m == Len(u)
           n == Len(v)
<1>1. /\ r \in Seq(S) /\ m \in Nat /\ n \in Nat /\ Len(r) = m + n
      /\ \A i \in 1..m + n : r[i] = IF i =< m THEN u[i] ELSE v[i - m]
  BY ConcatProperties, LenProperties
<1>2. /\ \A i \in 1..m : u[i] \in Entries(u) /\ u[i] \in S
      /\ \A i \in 1..n : v[i] \in Entries(v) /\ v[i] \in S
  BY ElementOfSeq DEF Entries
<1> HIDE DEF r
<1>3. /\ \A i \in 1..m + n : \/ i \in 1..m /\ r[i] = u[i]
                             \/ i - m \in 1..n /\ i > m /\ r[i] = v[i - m]
      /\ \A i \in 1..m : i \in 1..m + n /\ r[i] = u[i]
      /\ \A i \in 1..n : m + i \in 1..m + n /\ r[m + i] = v[i]
  <2>1. ASSUME NEW i \in 1..n PROVE m + i \in 1..m + n /\ r[m + i] = v[i]
    <3>1. m + i \in 1..m + n /\ ~(m + i =< m) /\ (m + i) - m = i
      BY <1>1
    <3> QED BY <1>1, <3>1
  <2>2. ASSUME NEW i \in 1..m + n
        PROVE  \/ i \in 1..m /\ r[i] = u[i]
               \/ i - m \in 1..n /\ i > m /\ r[i] = v[i - m]
    BY <1>1
  <2>3. ASSUME NEW i \in 1..m PROVE i \in 1..m + n /\ r[i] = u[i]
    BY <1>1
  <2> HIDE DEF m, n
  <2> QED BY <2>1, <2>2, <2>3
<1>4. Entries(r) = Entries(u) \cup Entries(v)
  <2>1. ASSUME NEW x \in Entries(r) PROVE x \in Entries(u) \cup Entries(v)
    <3>1. PICK i \in 1..m + n : x = r[i]
      BY <1>1 DEF Entries
    <3> QED BY <1>2, <1>3, <3>1
  <2>2. ASSUME NEW x \in Entries(u) \cup Entries(v) PROVE x \in Entries(r)
    <3>1. (\E i \in 1..m : x = u[i]) \/ \E i \in 1..n : x = v[i]
      BY DEF Entries
    <3>2. \E i \in 1..m + n : x = r[i]
      BY <1>3, <3>1
    <3> QED BY <1>1, <3>2 DEF Entries
  <2> QED BY <2>1, <2>2
<1>5. ASSUME Once(u), Once(v), Entries(u) \cap Entries(v) = {} PROVE Once(r)
  <2>1. \A i \in 1..m, j \in 1..n : u[i] # v[j]
    BY <1>2, <1>5
  <2> SUFFICES ASSUME NEW i \in 1..m + n, NEW j \in 1..m + n, r[i] = r[j] PROVE i = j
    BY <1>1 DEF Once
  <2>2. CASE i \in 1..m /\ r[i] = u[i] /\ j \in 1..m /\ r[j] = u[j]
    BY <1>5, <2>2 DEF Once
  <2>3. CASE i - m \in 1..n /\ r[i] = v[i - m] /\ j - m \in 1..n /\ r[j] = v[j - m]
    <3>1. i - m = j - m
      BY <1>5, <2>3 DEF Once
    <3> QED BY <1>1, <3>1
  <2> QED BY <1>3, <2>1, <2>2, <2>3
<1>6. ASSUME Sorted(u, p), Sorted(v, p), \A x \in Entries(u), y \in Entries(v) : p[x] =< p[y]
      PROVE  Sorted(r, p)
  <2>1. \A i \in 1..m, j \in 1..n : p[u[i]] =< p[v[j]]
    BY <1>2, <1>6
  <2> SUFFICES ASSUME NEW i \in 1..m + n, NEW j \in 1..m + n, i < j
               PROVE  p[r[i]] =< p[r[j]]
    BY <1>1 DEF Sorted
  <2>2. CASE i \in 1..m /\ r[i] = u[i] /\ j \in 1..m /\ r[j] = u[j]
    BY <1>6, <2>2 DEF Sorted
  <2>3. CASE i - m \in 1..n /\ r[i] = v[i - m] /\ j - m \in 1..n /\ r[j] = v[j - m]
    <3>1. i - m < j - m
      BY <1>1
    <3> QED BY <1>6, <2>3, <3>1 DEF Sorted
  <2>4. ~(i - m \in 1..n /\ i > m /\ j \in 1..m)
    BY <1>1
  <2> QED BY <1>3, <2>1, <2>2, <2>3, <2>4
<1> QED BY <1>1, <1>4, <1>5, <1>6 DEF r

LEMMA InsertIs ==
  ASSUME NEW s \in Seq(Task), NEW t \in Task, NEW p \in [Task -> Nat],
         Once(s), Sorted(s, p), t \notin Entries(s)
  PROVE  LET r == OS_PendListInsertPrio(s, t, p)
         IN  /\ r \in Seq(Task) /\ Once(r) /\ Sorted(r, p)
             /\ Entries(r) = Entries(s) \cup {t}
<1> DEFINE Lo == {u \in Task : p[u] =< p[t]}
           Hi == {u \in Task : p[u] > p[t]}
           lo == Only(s, Lo)
           hi == Only(s, Hi)
           me == <<t>>
           r  == OS_PendListInsertPrio(s, t, p)
<1>1. r = (lo \o me) \o hi
  BY DEF OS_PendListInsertPrio
<1>2. /\ lo \in Seq(Task) /\ Entries(lo) = Entries(s) \cap Lo /\ Once(lo) /\ Sorted(lo, p)
      /\ hi \in Seq(Task) /\ Entries(hi) = Entries(s) \cap Hi /\ Once(hi) /\ Sorted(hi, p)
  <2> HIDE DEF Lo, Hi
  <2> QED BY OnlyIs
<1>3. me \in Seq(Task) /\ Entries(me) = {t} /\ Once(me) /\ Sorted(me, p)
  <2>1. Len(me) = 1 /\ me[1] = t /\ me \in Seq(Task)
    OBVIOUS
  <2>2. \A i \in 1..1 : i = 1
    OBVIOUS
  <2> HIDE DEF me
  <2> QED BY <2>1, <2>2 DEF Entries, Once, Sorted
<1>4. Entries(s) \subseteq Task /\ Entries(s) = (Entries(s) \cap Lo) \cup (Entries(s) \cap Hi)
  <2>1. Entries(s) \subseteq Task
    BY ElementOfSeq DEF Entries
  <2>2. \A u \in Task : u \in Lo \/ u \in Hi
    OBVIOUS
  <2> QED BY <2>1, <2>2
<1>5. /\ Lo \cap Hi = {}
      /\ \A x \in Lo : x \in Task /\ p[x] =< p[t]
      /\ \A x \in Hi : x \in Task /\ p[t] < p[x]
      /\ \A x \in Lo, y \in Hi : p[x] =< p[y]
  OBVIOUS
<1> HIDE DEF r, lo, hi, me, Lo, Hi
<1> DEFINE a == lo \o me
<1>6. a \in Seq(Task) /\ Entries(a) = Entries(lo) \cup {t} /\ Once(a) /\ Sorted(a, p)
  <2>1. Entries(lo) \cap Entries(me) = {} /\ \A x \in Entries(lo), y \in Entries(me) : p[x] =< p[y]
    BY <1>2, <1>3, <1>5
  <2>2. /\ lo \o me \in Seq(Task)
        /\ Entries(lo \o me) = Entries(lo) \cup Entries(me)
        /\ Once(lo) /\ Once(me) /\ Entries(lo) \cap Entries(me) = {} => Once(lo \o me)
        /\ /\ Sorted(lo, p) /\ Sorted(me, p)
           /\ \A x \in Entries(lo), y \in Entries(me) : p[x] =< p[y]
           => Sorted(lo \o me, p)
    BY <1>2, <1>3, ConcatIs
  <2> QED BY <1>2, <1>3, <2>1, <2>2
<1>7. /\ r \in Seq(Task) /\ Entries(r) = Entries(a) \cup Entries(hi)
      /\ Once(r) /\ Sorted(r, p)
  <2>1. t \notin Entries(hi) /\ Entries(lo) \cap Entries(hi) = {}
    BY <1>2, <1>5
  <2>2. \A x \in Entries(a), y \in Entries(hi) : p[x] =< p[y]
    BY <1>2, <1>5, <1>6
  <2>3. Entries(a) \cap Entries(hi) = {}
    BY <1>6, <2>1
  <2>4. r = a \o hi
    BY <1>1 DEF a
  <2> HIDE DEF a
  <2>5. /\ a \o hi \in Seq(Task)
        /\ Entries(a \o hi) = Entries(a) \cup Entries(hi)
        /\ Once(a) /\ Once(hi) /\ Entries(a) \cap Entries(hi) = {} => Once(a \o hi)
        /\ /\ Sorted(a, p) /\ Sorted(hi, p)
           /\ \A x \in Entries(a), y \in Entries(hi) : p[x] =< p[y]
           => Sorted(a \o hi, p)
    BY <1>2, <1>6, ConcatIs
  <2> QED BY <1>2, <1>6, <2>2, <2>3, <2>4, <2>5
<1>8. Entries(r) = Entries(s) \cup {t}
  BY <1>2, <1>4, <1>6, <1>7
<1> QED BY <1>7, <1>8 DEF r

-----------------------------------------------------------------------------
(* The invariant.                                                          *)

(* Who has the object o in the table of what it waits for.                 *)
Waiters(o) == {t \in Task : o \in Range(table[t])}

Shape ==
  /\ prio \in [Task -> 0..PrioMax]
  /\ table \in [Task -> Tables \cup {<< >>}]
  /\ status \in [Task -> Status] /\ DOMAIN rdy = Task
  /\ pc \in [Task -> [at : {"run", "valid", "wait"}, tbl : Tables \cup {<< >>}]]
  /\ type \subseteq Obj /\ content \in [Obj -> Seq(Val)] /\ pend \in [Obj -> Seq(Task)]

(* The lists hold only who waits for their object, in order.               *)
ListsOrdered ==
  \A o \in Obj : Once(pend[o]) /\ Sorted(pend[o], prio) /\ Entries(pend[o]) \subseteq Waiters(o)

(* A task waits inside OSPendMulti() only, and what its table tells it     *)
(* then follows from how the wait ended.                                   *)
Told(t) ==
  pc[t].at = "wait" =>
    IF table[t] # << >> \/ status[t] = "TIMEOUT" THEN rdy[t] = {} ELSE \E x : rdy[t] = {x}

Waits ==
  \A t \in Task : /\ table[t] # << >> => pc[t].at = "wait"
                  /\ t \in timed => table[t] # << >>
                  /\ pc[t].at = "valid" => pc[t].tbl \in Tables
                  /\ Told(t)

(* Unless objects are deleted while a task is about to pend on them, all   *)
(* the objects in the tables exist and have the task in their lists.       *)
AllListed == \A o \in Obj : Waiters(o) \subseteq Entries(pend[o])
TablesExist ==
  \A t \in Task : /\ Range(table[t]) \subseteq type
                  /\ pc[t].at = "valid" => Range(pc[t].tbl) \subseteq type

MInv ==
  /\ timed \subseteq Task /\ Shape /\ ListsOrdered /\ Waits /\ NobodyWaitsInVain
  /\ ~Careless => AllListed /\ TablesExist

LEMMA SeqFacts ==
  ASSUME NEW S, NEW s \in Seq(S)
  PROVE  /\ Range(s) = Entries(s) /\ Entries(s) \subseteq S
         /\ Entries(s) = {} => s = << >>
         /\ s # << >> => Head(s) \in Entries(s)
         /\ Range(<< >>) = {} /\ Entries(<< >>) = {}
<1>1. Len(s) \in Nat /\ DOMAIN s = 1..Len(s) /\ \A i \in 1..Len(s) : s[i] \in S
  BY LenProperties, ElementOfSeq
<1>2. Range(s) = Entries(s) /\ Entries(s) \subseteq S
  BY <1>1 DEF Range, Entries
<1>3. ASSUME s # << >> PROVE Head(s) \in Entries(s)
  <2>1. 1 \in 1..Len(s) /\ Head(s) = s[1]
    BY <1>1, <1>3, EmptySeq
  <2> QED BY <2>1 DEF Entries
<1>4. Range(<< >>) = {} /\ Entries(<< >>) = {}
  BY DEF Range, Entries
<1> QED BY <1>2, <1>3, <1>4

LEMMA MultiInitInv == MultiInit => MInv
<1> SUFFICES ASSUME MultiInit PROVE MInv
  OBVIOUS
<1>1. \A o \in Obj : pend[o] = << >> /\ content[o] = << >>
  BY DEF MultiInit
<1>2. \A t \in Task : table[t] = << >> /\ pc[t].at = "run"
  BY DEF MultiInit, At
<1>3. Range(<< >>) = {} /\ Entries(<< >>) = {}
  BY DEF Range, Entries
<1>4. Shape
  BY MultiAssumption DEF MultiInit, Shape, Status, At
<1>5. ListsOrdered /\ AllListed
  BY <1>1, <1>2, <1>3 DEF ListsOrdered, AllListed, Waiters, Once, Sorted
<1>6. Waits /\ TablesExist /\ timed = {}
  BY <1>2, <1>3 DEF Waits, Told, TablesExist, MultiInit
<1>7. NobodyWaitsInVain
  BY <1>1 DEF NobodyWaitsInVain
<1> QED BY <1>4, <1>5, <1>6, <1>7 DEF MInv

(* The end of the waits of W.                                              *)
LEMMA EndWaitsInv ==
  ASSUME MInv, NEW W \in SUBSET Task, NEW s \in Status, NEW reason,
         EndWaits(W, s, reason),
         \A t \in W : table[t] # << >>,
         IF s = "TIMEOUT" THEN reason = {} ELSE \E x : reason = {x},
         type' \subseteq Obj, content' \in [Obj -> Seq(Val)],
         \A o \in Obj : content'[o] = content[o] \/ content'[o] = << >>,
         ~Careless => \A t \in Task :
           /\ t \notin W => Range(table[t]) \subseteq type'
           /\ pc[t].at = "valid" => Range(pc[t].tbl) \subseteq type'
  PROVE  MInv'
<1> DEFINE Stay(o) == {u \in Task : u \notin W \/ o \notin Range(table[u])}
<1>0. /\ prio \in [Task -> Nat] /\ prio' = prio /\ pc' = pc
      /\ \A o \in Obj : pend[o] \in Seq(Task)
      /\ Range(<< >>) = {} /\ Entries(<< >>) = {}
  BY SeqFacts DEF MInv, Shape, EndWaits, Range, Entries
<1>1. \A o \in Obj : pend'[o] = Only(pend[o], Stay(o))
  BY DEF EndWaits, OS_PendListRemove
<1>2. pend' = [o \in Obj |-> pend'[o]]
  BY DEF EndWaits, OS_PendListRemove
<1>3. ASSUME NEW o \in Obj
      PROVE  /\ pend'[o] \in Seq(Task) /\ Once(pend'[o]) /\ Sorted(pend'[o], prio)
             /\ Entries(pend'[o]) = Entries(pend[o]) \cap Stay(o)
  <2> DEFINE T == Stay(o)
             list == pend[o]
             new == pend'[o]
  <2>1. list \in Seq(Task) /\ Once(list) /\ Sorted(list, prio) /\ new = Only(list, T)
    BY <1>0, <1>1 DEF MInv, ListsOrdered
  <2> HIDE DEF T, list, new
  <2>2. /\ new \in Seq(Task) /\ Once(new) /\ Sorted(new, prio)
        /\ Entries(new) = Entries(list) \cap T
    BY <1>0, <2>1, OnlyIs
  <2> QED BY <2>2 DEF T, list, new
<1>4. /\ \A t \in W : table'[t] = << >> /\ status'[t] = s /\ rdy'[t] = rdy[t] \cup reason
      /\ \A t \in Task \ W : table'[t] = table[t] /\ status'[t] = status[t] /\ rdy'[t] = rdy[t]
      /\ timed' = timed \ W
  BY DEF EndWaits
<1>5. Shape'
  <2>1. /\ table' \in [Task -> Tables \cup {<< >>}] /\ status' \in [Task -> Status]
        /\ DOMAIN rdy' = Task
    BY DEF MInv, Shape, EndWaits
  <2>2. pend' \in [Obj -> Seq(Task)]
    BY <1>2, <1>3
  <2> QED BY <1>0, <2>1, <2>2 DEF MInv, Shape
<1>6. ASSUME NEW o \in Obj
      PROVE  /\ Entries(pend'[o]) \subseteq Waiters(o)'
             /\ ~Careless => Waiters(o)' \subseteq Entries(pend'[o])
  <2>1. ASSUME NEW u \in Entries(pend'[o]) PROVE u \in Waiters(o)'
    <3>1. u \in Waiters(o) /\ u \in Stay(o)
      BY <1>3 DEF MInv, ListsOrdered
    <3>2. u \in Task \ W
      BY <3>1 DEF Waiters
    <3> QED BY <1>4, <3>1, <3>2 DEF Waiters
  <2>2. ASSUME ~Careless, NEW u \in Waiters(o)' PROVE u \in Entries(pend'[o])
    <3>1. u \in Task /\ o \in Range(table'[u])
      BY DEF Waiters
    <3>2. u \notin W
      BY <1>0, <1>4, <3>1
    <3>3. u \in Waiters(o)
      BY <1>4, <3>1, <3>2 DEF Waiters
    <3>4. u \in Entries(pend[o])
      BY <2>2, <3>3 DEF MInv, AllListed
    <3> QED BY <1>3, <3>1, <3>2, <3>4
  <2> QED BY <2>1, <2>2
<1> HIDE DEF Stay
<1>7. ListsOrdered' /\ (~Careless => AllListed')
  BY <1>0, <1>3, <1>6 DEF ListsOrdered, AllListed
<1>8. Waits' /\ timed' \subseteq Task
  <2>1. ASSUME NEW t \in W
        PROVE  pc[t].at = "wait" /\ table'[t] = << >> /\ t \notin timed' /\ Told(t)'
    <3>1. pc[t].at = "wait" /\ rdy[t] = {}
      BY DEF MInv, Waits, Told
    <3>2. table'[t] = << >> /\ status'[t] = s /\ rdy'[t] = reason /\ t \notin timed'
      BY <1>4, <3>1
    <3>3. IF status'[t] = "TIMEOUT" THEN rdy'[t] = {} ELSE \E x : rdy'[t] = {x}
      BY <3>2, Zenon
    <3> QED BY <3>1, <3>2, <3>3 DEF Told
  <2>2. ASSUME NEW t \in Task \ W
        PROVE  (t \in timed' <=> t \in timed) /\ table'[t] = table[t] /\ Told(t)'
    <3>1. /\ t \in timed' <=> t \in timed
          /\ table'[t] = table[t] /\ status'[t] = status[t] /\ rdy'[t] = rdy[t] /\ pc'[t] = pc[t]
      BY <1>0, <1>4
    <3>2. Told(t)
      BY DEF MInv, Waits
    <3> QED BY <3>1, <3>2, Zenon DEF Told
  <2>3. timed' \subseteq Task
    BY <1>4 DEF MInv
  <2> QED BY <1>0, <2>1, <2>2, <2>3 DEF MInv, Waits
<1>9. NobodyWaitsInVain'
  <2> SUFFICES ASSUME NEW o \in Obj, content'[o] # << >> PROVE pend'[o] = << >>
    BY DEF NobodyWaitsInVain
  <2>1. pend[o] = << >>
    BY DEF MInv, NobodyWaitsInVain
  <2>2. Entries(pend'[o]) = {} /\ pend'[o] \in Seq(Task)
    BY <1>0, <1>3, <2>1
  <2> QED BY <2>2, SeqFacts
<1>10. ~Careless => TablesExist'
  BY <1>0, <1>4 DEF MInv, TablesExist
<1> QED BY <1>5, <1>7, <1>8, <1>9, <1>10 DEF MInv

(* What OSPendMulti() does for t without waiting: only its own place, its  *)
(* PendStatus and its marks change, and contents get less.                 *)
LEMMA QuietInv ==
  ASSUME MInv, NEW t \in Task, table[t] = << >>,
         UNCHANGED <<prio, table, timed, type, pend>>,
         status' \in [Task -> Status], DOMAIN rdy' = Task,
         pc' \in [Task -> [at : {"run", "valid", "wait"}, tbl : Tables \cup {<< >>}]],
         \A u \in Task \ {t} : status'[u] = status[u] /\ rdy'[u] = rdy[u] /\ pc'[u] = pc[u],
         \/ pc'[t].at = "run"
         \/ /\ pc'[t].at = "valid" /\ pc'[t].tbl \in Tables
            /\ Range(pc'[t].tbl) \subseteq type,
         content' \in [Obj -> Seq(Val)],
         \A o \in Obj : content'[o] # << >> => content[o] # << >>
  PROVE  MInv'
<1>1. Shape'
  BY DEF MInv, Shape
<1>2. ListsOrdered' /\ (~Careless => AllListed')
  BY DEF MInv, ListsOrdered, AllListed, Waiters
<1>3. ASSUME NEW u \in Task \ {t} PROVE Told(u)'
  <2>1. Told(u)
    BY DEF MInv, Waits
  <2>2. table'[u] = table[u] /\ status'[u] = status[u] /\ rdy'[u] = rdy[u] /\ pc'[u] = pc[u]
    OBVIOUS
  <2> QED BY <2>1, <2>2, Zenon DEF Told
<1>4. Told(t)'
  BY DEF Told
<1>5. Waits'
  <2>1. ASSUME NEW u \in Task \ {t}
        PROVE  /\ table'[u] # << >> => pc'[u].at = "wait"
               /\ u \in timed' => table'[u] # << >>
               /\ pc'[u].at = "valid" => pc'[u].tbl \in Tables
    BY DEF MInv, Waits
  <2>2. table'[t] = << >> /\ t \notin timed' /\ (pc'[t].at = "valid" => pc'[t].tbl \in Tables)
    BY DEF MInv, Waits
  <2> QED BY <1>3, <1>4, <2>1, <2>2 DEF Waits
<1>6. NobodyWaitsInVain'
  BY DEF MInv, NobodyWaitsInVain
<1>7. ~Careless => TablesExist'
  <2> SUFFICES ASSUME ~Careless, NEW u \in Task
               PROVE  /\ Range(table'[u]) \subseteq type'
                      /\ pc'[u].at = "valid" => Range(pc'[u].tbl) \subseteq type'
    BY DEF TablesExist
  <2>1. /\ Range(table[u]) \subseteq type
        /\ pc[u].at = "valid" => Range(pc[u].tbl) \subseteq type
    BY DEF MInv, TablesExist
  <2>2. CASE u = t
    BY <2>1, <2>2
  <2>3. CASE u # t
    BY <2>1, <2>3
  <2> QED BY <2>2, <2>3
<1>8. timed' \subseteq Task
  BY DEF MInv
<1> QED BY <1>1, <1>2, <1>5, <1>6, <1>7, <1>8 DEF MInv

LEMMA ReturnDoes ==
  ASSUME Shape, NEW t \in Task, NEW n, NEW err, Return(t, n, err)
  PROVE  /\ pc' \in [Task -> [at : {"run", "valid", "wait"}, tbl : Tables \cup {<< >>}]]
         /\ pc'[t].at = "run"
         /\ \A u \in Task \ {t} : pc'[u] = pc[u]
<1>1. At("run", << >>) \in [at : {"run", "valid", "wait"}, tbl : Tables \cup {<< >>}]
      /\ At("run", << >>).at = "run"
  BY DEF At
<1> QED BY <1>1 DEF Return, Shape

LEMMA ValidateInv ==
  ASSUME MInv, NEW t \in Task, NEW tbl \in Tables, OS_PendMultiValidate(t, tbl)
  PROVE  MInv'
<1>1. /\ Shape /\ table[t] = << >> /\ UNCHANGED <<tcbs, objs>>
  BY DEF MInv, Waits, OS_PendMultiValidate
<1>2. CASE Range(tbl) \subseteq type /\ pc' = [pc EXCEPT ![t] = At("valid", tbl)]
  <2>1. /\ At("valid", tbl) \in [at : {"run", "valid", "wait"}, tbl : Tables \cup {<< >>}]
        /\ At("valid", tbl).at = "valid" /\ At("valid", tbl).tbl = tbl
    BY DEF At
  <2>2. /\ pc' \in [Task -> [at : {"run", "valid", "wait"}, tbl : Tables \cup {<< >>}]]
        /\ pc'[t].at = "valid" /\ pc'[t].tbl = tbl
        /\ \A u \in Task \ {t} : pc'[u] = pc[u]
    BY <1>1, <1>2, <2>1 DEF Shape
  <2>3. /\ UNCHANGED <<prio, table, timed, type, pend>>
        /\ status' \in [Task -> Status] /\ DOMAIN rdy' = Task
        /\ \A u \in Task \ {t} : status'[u] = status[u] /\ rdy'[u] = rdy[u] /\ pc'[u] = pc[u]
        /\ content' \in [Obj -> Seq(Val)]
        /\ \A o \in Obj : content'[o] # << >> => content[o] # << >>
    BY <1>1, <2>2 DEF tcbs, objs, Shape
  <2>4. /\ pc'[t].at = "valid" /\ pc'[t].tbl \in Tables
        /\ Range(pc'[t].tbl) \subseteq type
    BY <1>2, <2>2
  <2> QED BY <1>1, <2>2, <2>3, <2>4, QuietInv
<1>3. CASE Return(t, 0, "OBJ_TYPE")
  <2>1. /\ pc' \in [Task -> [at : {"run", "valid", "wait"}, tbl : Tables \cup {<< >>}]]
        /\ pc'[t].at = "run"
        /\ \A u \in Task \ {t} : pc'[u] = pc[u]
    BY <1>1, <1>3, ReturnDoes
  <2> QED BY <1>1, <2>1, QuietInv DEF tcbs, objs, Shape
<1> QED BY <1>2, <1>3 DEF OS_PendMultiValidate

LEMMA GetRdyInv ==
  ASSUME MInv, NEW t \in Task, pc[t].at = "valid", NEW tbl, OS_PendMultiGetRdy(t, tbl)
  PROVE  MInv'
<1>1. Shape /\ table[t] = << >> /\ \A o \in Obj : content[o] \in Seq(Val)
  BY DEF MInv, Waits, Shape
<1>2. /\ pc' \in [Task -> [at : {"run", "valid", "wait"}, tbl : Tables \cup {<< >>}]]
      /\ pc'[t].at = "run"
      /\ \A u \in Task \ {t} : pc'[u] = pc[u]
  BY <1>1, ReturnDoes DEF OS_PendMultiGetRdy
<1>3. /\ content' = [o \in Obj |-> content'[o]]
      /\ \A o \in Obj : \/ content'[o] = content[o]
                        \/ content[o] # << >> /\ content'[o] = Tail(content[o])
  BY DEF OS_PendMultiGetRdy, Available
<1>4. \A o \in Obj : content'[o] \in Seq(Val) /\ (content'[o] # << >> => content[o] # << >>)
  <2>1. \A c \in Seq(Val) : c # << >> => Tail(c) \in Seq(Val)
    BY HeadTailProperties
  <2> QED BY <1>1, <1>3, <2>1
<1>5. content' \in [Obj -> Seq(Val)]
  BY <1>3, <1>4
<1>6. DOMAIN rdy' = Task /\ \A u \in Task \ {t} : rdy'[u] = rdy[u]
  BY <1>1 DEF OS_PendMultiGetRdy, Shape
<1> QED BY <1>1, <1>2, <1>4, <1>5, <1>6, QuietInv DEF OS_PendMultiGetRdy, Shape

LEMMA WouldBlockInv ==
  ASSUME MInv, NEW t \in Task, pc[t].at = "valid", NEW tbl, WouldBlock(t, tbl)
  PROVE  MInv'
<1>1. Shape /\ table[t] = << >>
  BY DEF MInv, Waits, Shape
<1>2. /\ pc' \in [Task -> [at : {"run", "valid", "wait"}, tbl : Tables \cup {<< >>}]]
      /\ pc'[t].at = "run"
      /\ \A u \in Task \ {t} : pc'[u] = pc[u]
  BY <1>1, ReturnDoes DEF WouldBlock
<1>3. DOMAIN rdy' = Task /\ \A u \in Task \ {t} : rdy'[u] = rdy[u]
  BY <1>1 DEF WouldBlock, Shape
<1> QED BY <1>1, <1>2, <1>3, QuietInv DEF WouldBlock, Shape, objs

LEMMA PendMultiReturnInv ==
  ASSUME MInv, NEW t \in Task, OSPendMultiReturn(t)
  PROVE  MInv'
<1>1. Shape /\ table[t] = << >>
  BY DEF MInv, OSPendMultiReturn
<1>2. /\ pc' \in [Task -> [at : {"run", "valid", "wait"}, tbl : Tables \cup {<< >>}]]
      /\ pc'[t].at = "run"
      /\ \A u \in Task \ {t} : pc'[u] = pc[u]
  <2>1. \E err : Return(t, 1, err)
    BY Zenon DEF OSPendMultiReturn
  <2> QED BY <1>1, <2>1, ReturnDoes
<1>3. status' \in [Task -> Status] /\ \A u \in Task \ {t} : status'[u] = status[u]
  BY <1>1 DEF OSPendMultiReturn, Shape, Status
<1> QED BY <1>1, <1>2, <1>3, QuietInv DEF OSPendMultiReturn, Shape, objs

(* A task begins to wait for what has nothing to give.                     *)
LEMMA WaitInv ==
  ASSUME MInv, NEW t \in Task, pc[t].at = "valid", NEW timeout,
         OS_PendMultiWait(t, pc[t].tbl, timeout)
  PROVE  MInv'
<1> DEFINE tbl == pc[t].tbl
<1>1. /\ Shape /\ table[t] = << >> /\ tbl \in Tables /\ tbl # << >>
      /\ prio \in [Task -> Nat] /\ \A o \in Obj : pend[o] \in Seq(Task)
      /\ Range(<< >>) = {}
  <2>1. Shape /\ tbl \in Tables /\ table[t] = << >>
    BY DEF MInv, Waits
  <2>2. prio \in [Task -> Nat] /\ \A o \in Obj : pend[o] \in Seq(Task)
    BY <2>1 DEF Shape
  <2>3. tbl # << >>
    BY <2>1, MultiAssumption
  <2> QED BY <2>1, <2>2, <2>3 DEF Range
<1>2. /\ table' = [table EXCEPT ![t] = tbl] /\ rdy' = [rdy EXCEPT ![t] = {}]
      /\ pc' = [pc EXCEPT ![t] = At("wait", << >>)]
      /\ status' = [status EXCEPT ![t] = "OK"]
      /\ timed \subseteq timed' /\ timed' \subseteq timed \cup {t}
      /\ UNCHANGED <<prio, type, content>>
  BY DEF OS_PendMultiWait
<1>3. /\ pc'[t].at = "wait" /\ table'[t] = tbl /\ rdy'[t] = {}
      /\ \A u \in Task \ {t} : /\ table'[u] = table[u] /\ rdy'[u] = rdy[u]
                               /\ pc'[u] = pc[u] /\ status'[u] = status[u]
                               /\ (u \in timed' <=> u \in timed)
  BY <1>1, <1>2 DEF Shape, At
<1>4. /\ table' \in [Task -> Tables \cup {<< >>}] /\ status' \in [Task -> Status]
      /\ DOMAIN rdy' = Task
      /\ pc' \in [Task -> [at : {"run", "valid", "wait"}, tbl : Tables \cup {<< >>}]]
  BY <1>1, <1>2 DEF Shape, Status, At
<1>5. /\ pend' = [o \in Obj |-> pend'[o]]
      /\ \A o \in Obj : pend'[o] = IF o \in Range(tbl) \cap type
                                   THEN OS_PendListInsertPrio(pend[o], t, prio) ELSE pend[o]
  BY DEF OS_PendMultiWait
<1>6. ASSUME NEW o \in Obj
      PROVE  /\ pend'[o] \in Seq(Task) /\ Once(pend'[o]) /\ Sorted(pend'[o], prio)
             /\ Entries(pend'[o]) = IF o \in Range(tbl) \cap type
                                    THEN Entries(pend[o]) \cup {t} ELSE Entries(pend[o])
  <2>1. /\ Once(pend[o]) /\ Sorted(pend[o], prio) /\ t \notin Entries(pend[o])
    BY <1>1 DEF MInv, ListsOrdered, Waiters
  <2> DEFINE list == pend[o]
             new == OS_PendListInsertPrio(list, t, prio)
  <2>2. new \in Seq(Task) /\ Once(new) /\ Sorted(new, prio) /\ Entries(new) = Entries(list) \cup {t}
    <3>1. list \in Seq(Task) /\ Once(list) /\ Sorted(list, prio) /\ t \notin Entries(list)
      BY <1>1, <2>1
    <3> HIDE DEF list
    <3> QED BY <1>1, <3>1, InsertIs
  <2> QED BY <1>1, <1>5, <2>1, <2>2
<1> HIDE DEF tbl
<1>7. ASSUME NEW o \in Obj
      PROVE  /\ Entries(pend'[o]) \subseteq Waiters(o)'
             /\ ~Careless => Waiters(o)' \subseteq Entries(pend'[o])
  <2>1. /\ Entries(pend[o]) \subseteq Waiters(o)
        /\ ~Careless => Waiters(o) \subseteq Entries(pend[o])
    BY DEF MInv, ListsOrdered, AllListed
  <2>2. Waiters(o)' = IF o \in Range(tbl) THEN Waiters(o) \cup {t} ELSE Waiters(o)
    <3>1. ASSUME NEW u \in Task
          PROVE  u \in Waiters(o)' <=> u \in Waiters(o) \/ (u = t /\ o \in Range(tbl))
      <4>1. CASE u = t
        BY <1>1, <1>3, <4>1 DEF Waiters
      <4>2. CASE u # t
        BY <1>3, <4>2 DEF Waiters
      <4> QED BY <4>1, <4>2
    <3>2. Waiters(o)' \subseteq Task /\ Waiters(o) \subseteq Task
      BY DEF Waiters
    <3> QED BY <3>1, <3>2
  <2>3. ~Careless => Range(tbl) \subseteq type
    BY DEF MInv, TablesExist, tbl
  <2> QED BY <1>6, <2>1, <2>2, <2>3
<1>8. Shape'
  BY <1>1, <1>2, <1>4, <1>5, <1>6 DEF Shape
<1>9. ListsOrdered' /\ (~Careless => AllListed')
  BY <1>2, <1>6, <1>7 DEF ListsOrdered, AllListed
<1>10. Waits'
  <2>1. Told(t)'
    BY <1>1, <1>3 DEF Told
  <2>2. ASSUME NEW u \in Task \ {t} PROVE Told(u)'
    <3>1. Told(u)
      BY DEF MInv, Waits
    <3> QED BY <1>3, <3>1 DEF Told
  <2> QED BY <1>1, <1>3, <2>1, <2>2 DEF MInv, Waits
<1>11. NobodyWaitsInVain'
  <2> SUFFICES ASSUME NEW o \in Obj, content[o] # << >> PROVE pend'[o] = << >>
    BY <1>2 DEF NobodyWaitsInVain
  <2>1. o \notin Range(tbl) \cap type
    BY DEF OS_PendMultiWait, Available, tbl
  <2> QED BY <1>5, <2>1 DEF MInv, NobodyWaitsInVain
<1>12. ~Careless => TablesExist'
  <2> SUFFICES ASSUME ~Careless, NEW u \in Task
               PROVE  /\ Range(table'[u]) \subseteq type
                      /\ pc'[u].at = "valid" => Range(pc'[u].tbl) \subseteq type
    BY <1>2 DEF TablesExist
  <2>1. CASE u = t
    BY <1>3, <2>1 DEF MInv, TablesExist, tbl
  <2>2. CASE u # t
    BY <1>3, <2>2 DEF MInv, TablesExist
  <2> QED BY <2>1, <2>2
<1>13. timed' \subseteq Task
  BY <1>2 DEF MInv
<1> QED BY <1>8, <1>9, <1>10, <1>11, <1>12, <1>13 DEF MInv

(* Whom a post or an abort serves waits, for that object.                  *)
LEMMA ServedWait ==
  ASSUME MInv, NEW o \in Obj, NEW all \in BOOLEAN, pend[o] # << >> \/ all
  PROVE  /\ Served(o, all) \in SUBSET Task
         /\ \A t \in Served(o, all) : table[t] # << >>
<1>1. /\ pend[o] \in Seq(Task) /\ Entries(pend[o]) \subseteq Waiters(o)
  BY DEF MInv, Shape, ListsOrdered
<1>2. /\ Range(pend[o]) = Entries(pend[o]) /\ Range(<< >>) = {}
      /\ pend[o] # << >> => Head(pend[o]) \in Entries(pend[o])
  BY <1>1, SeqFacts
<1>3. Served(o, all) \subseteq Waiters(o)
  BY <1>1, <1>2, Zenon DEF Served
<1>4. \A t \in Waiters(o) : t \in Task /\ table[t] # << >>
  BY <1>2 DEF Waiters
<1> QED BY <1>3, <1>4

(* An end of waits that leaves the objects as they are.                    *)
LEMMA WaitsEndInv ==
  ASSUME MInv, NEW W \in SUBSET Task, NEW s \in Status, NEW reason,
         EndWaits(W, s, reason), UNCHANGED <<type, content>>,
         \A t \in W : table[t] # << >>,
         IF s = "TIMEOUT" THEN reason = {} ELSE \E x : reason = {x}
  PROVE  MInv'
<1>1. type' \subseteq Obj /\ content' \in [Obj -> Seq(Val)]
  BY DEF MInv, Shape
<1>2. ~Careless => \A t \in Task :
        /\ t \notin W => Range(table[t]) \subseteq type'
        /\ pc[t].at = "valid" => Range(pc[t].tbl) \subseteq type'
  BY DEF MInv, TablesExist
<1> QED BY <1>1, <1>2, EndWaitsInv

LEMMA PostInv ==
  ASSUME MInv, NEW o \in Obj, NEW v \in Val, NEW all \in BOOLEAN, Post(o, v, all)
  PROVE  MInv'
<1>1. CASE pend[o] = << >>
  <2>1. /\ content' = [content EXCEPT ![o] = Append(@, v)]
        /\ UNCHANGED <<prio, table, timed, status, rdy, pc, type, pend>>
    BY <1>1 DEF Post, tcbs
  <2>2. content' \in [Obj -> Seq(Val)]
    BY <2>1, AppendProperties DEF MInv, Shape
  <2>3. Shape'
    BY <2>1, <2>2 DEF MInv, Shape
  <2>4. ListsOrdered' /\ (~Careless => AllListed' /\ TablesExist')
    BY <2>1 DEF MInv, ListsOrdered, AllListed, Waiters, TablesExist
  <2>5. Waits'
    BY <2>1 DEF MInv, Waits, Told
  <2>6. NobodyWaitsInVain'
    BY <1>1, <2>1 DEF MInv, NobodyWaitsInVain, Shape
  <2> QED BY <2>1, <2>3, <2>4, <2>5, <2>6 DEF MInv
<1>2. CASE pend[o] # << >>
  <2>1. EndWaits(Served(o, all), "OK", {<<o, v>>}) /\ UNCHANGED <<type, content>>
    BY <1>2 DEF Post
  <2>2. "OK" \in Status /\ "OK" # "TIMEOUT"
    BY DEF Status
  <2> QED BY <1>2, <2>1, <2>2, ServedWait, WaitsEndInv
<1> QED BY <1>1, <1>2

LEMMA PendAbortInv ==
  ASSUME MInv, NEW o \in Obj, NEW all \in BOOLEAN, PendAbort(o, all)
  PROVE  MInv'
<1>1. /\ EndWaits(Served(o, all), "ABORT", {<<o, NoVal>>}) /\ UNCHANGED <<type, content>>
      /\ pend[o] # << >>
  BY DEF PendAbort
<1>2. "ABORT" \in Status /\ "ABORT" # "TIMEOUT"
  BY DEF Status
<1> QED BY <1>1, <1>2, ServedWait, WaitsEndInv

LEMMA TimeoutInv ==
  ASSUME MInv, NEW t \in Task, Timeout(t)
  PROVE  MInv'
<1>1. EndWaits({t}, "TIMEOUT", {}) /\ UNCHANGED <<type, content>> /\ table[t] # << >>
  BY DEF Timeout, MInv, Waits
<1>2. "TIMEOUT" \in Status /\ {t} \in SUBSET Task
  BY DEF Status
<1> QED BY <1>1, <1>2, WaitsEndInv

LEMMA DeleteInv ==
  ASSUME MInv, NEW o \in Obj, Delete(o)
  PROVE  MInv'
<1> DEFINE W == Served(o, TRUE)
<1>1. /\ EndWaits(W, "DEL", {<<o, NoVal>>}) /\ type' = type \ {o}
      /\ content' = [content EXCEPT ![o] = << >>]
      /\ Careless \/ \A t \in Task : o \notin Range(pc[t].tbl)
  BY DEF Delete
<1>2. "DEL" \in Status /\ "DEL" # "TIMEOUT"
  BY DEF Status
<1>3. W \in SUBSET Task /\ \A t \in W : table[t] # << >>
  BY ServedWait
<1>4. /\ type' \subseteq Obj /\ content' \in [Obj -> Seq(Val)]
      /\ \A x \in Obj : content'[x] = content[x] \/ content'[x] = << >>
  <2>1. << >> \in Seq(Val) /\ content \in [Obj -> Seq(Val)] /\ type \subseteq Obj
    BY DEF MInv, Shape
  <2> QED BY <1>1, <2>1
<1>5. W = Entries(pend[o])
  <2>1. pend[o] \in Seq(Task)
    BY DEF MInv, Shape
  <2> QED BY <2>1, SeqFacts DEF Served
<1>6. ASSUME ~Careless, NEW t \in Task
      PROVE  /\ t \notin W => Range(table[t]) \subseteq type'
             /\ pc[t].at = "valid" => Range(pc[t].tbl) \subseteq type'
  <2>1. /\ Range(table[t]) \subseteq type
        /\ pc[t].at = "valid" => Range(pc[t].tbl) \subseteq type
        /\ Waiters(o) \subseteq Entries(pend[o])
    BY <1>6 DEF MInv, TablesExist, AllListed
  <2>2. o \notin Range(pc[t].tbl)
    BY <1>1, <1>6
  <2>3. t \notin W => o \notin Range(table[t])
    BY <1>5, <2>1 DEF Waiters
  <2> QED BY <1>1, <2>1, <2>2, <2>3
<1> HIDE DEF W
<1> QED BY <1>1, <1>2, <1>3, <1>4, <1>6, EndWaitsInv

LEMMA CreateInv ==
  ASSUME MInv, NEW o \in Obj, Create(o)
  PROVE  MInv'
<1>1. /\ UNCHANGED <<prio, table, timed, status, rdy, pc>>
      /\ o \notin type /\ type' = type \cup {o}
      /\ content' = [content EXCEPT ![o] = << >>] /\ pend' = [pend EXCEPT ![o] = << >>]
      /\ Entries(<< >>) = {} /\ Shape
  BY DEF Create, tcbs, Entries, MInv
<1>2. Shape'
  BY <1>1 DEF Shape
<1>3. \A x \in Obj : Waiters(x)' = Waiters(x)
  BY <1>1 DEF Waiters
<1>4. ListsOrdered'
  <2> SUFFICES ASSUME NEW x \in Obj
               PROVE  /\ Once(pend'[x]) /\ Sorted(pend'[x], prio)
                      /\ Entries(pend'[x]) \subseteq Waiters(x)
    BY <1>1, <1>3 DEF ListsOrdered
  <2>1. CASE x = o
    <3>1. pend'[x] = << >>
      BY <1>1, <2>1 DEF Shape
    <3> QED BY <1>1, <3>1 DEF Once, Sorted
  <2>2. CASE x # o
    <3>1. pend'[x] = pend[x]
      BY <1>1, <2>2 DEF Shape
    <3> QED BY <3>1 DEF MInv, ListsOrdered
  <2> QED BY <2>1, <2>2
<1>5. ASSUME ~Careless PROVE AllListed' /\ TablesExist'
  <2>1. TablesExist'
    BY <1>1, <1>5 DEF MInv, TablesExist
  <2>2. Waiters(o) = {}
    BY <1>1, <1>5 DEF MInv, TablesExist, Waiters
  <2>3. \A x \in Obj \ {o} : pend'[x] = pend[x]
    BY <1>1 DEF Shape
  <2>4. AllListed'
    BY <1>3, <1>5, <2>2, <2>3 DEF MInv, AllListed
  <2> QED BY <2>1, <2>4
<1>6. Waits'
  BY <1>1 DEF MInv, Waits, Told
<1>7. NobodyWaitsInVain'
  BY <1>1 DEF MInv, NobodyWaitsInVain, Shape
<1> QED BY <1>1, <1>2, <1>4, <1>5, <1>6, <1>7 DEF MInv

(* A priority changes in the middle of a wait.  A list of one is left      *)
(* alone.                                                                  *)
LEMMA ChangePrioInv ==
  ASSUME MInv, NEW t \in Task, NEW p \in 0..PrioMax, OSTaskChangePrio(t, p)
  PROVE  MInv'
<1>1. /\ UNCHANGED <<table, timed, status, rdy, pc, type, content>>
      /\ prio' = [prio EXCEPT ![t] = p] /\ pend' = OS_PendListChangePrio(t)
  BY DEF OSTaskChangePrio
<1>2. /\ Shape /\ prio \in [Task -> Nat] /\ prio' \in [Task -> Nat]
      /\ prio' \in [Task -> 0..PrioMax] /\ \A u \in Task \ {t} : prio'[u] = prio[u]
  BY <1>1 DEF MInv, Shape
<1>3. /\ pend' = [o \in Obj |-> pend'[o]]
      /\ \A o \in Obj : pend'[o] =
           IF o \in Range(table[t]) /\ Len(pend[o]) > 1
           THEN OS_PendListInsertPrio(OS_PendListRemove({t})[o], t, prio')
           ELSE pend[o]
  BY <1>1 DEF OS_PendListChangePrio
<1>4. \A o \in Obj : Waiters(o)' = Waiters(o)
  BY <1>1 DEF Waiters
<1>5. ASSUME NEW o \in Obj
      PROVE  /\ pend'[o] \in Seq(Task) /\ Once(pend'[o]) /\ Sorted(pend'[o], prio')
             /\ Entries(pend'[o]) \subseteq Waiters(o)
             /\ Entries(pend[o]) \subseteq Entries(pend'[o])
  <2>1. /\ pend[o] \in Seq(Task) /\ Once(pend[o]) /\ Sorted(pend[o], prio)
        /\ Entries(pend[o]) \subseteq Waiters(o)
    BY <1>2 DEF Shape, MInv, ListsOrdered
  <2>2. CASE o \in Range(table[t]) /\ Len(pend[o]) > 1
    <3> DEFINE T == {u \in Task : u \notin {t} \/ o \notin Range(table[u])}
               r == Only(pend[o], T)
    <3>1. OS_PendListRemove({t})[o] = r
      BY DEF OS_PendListRemove
    <3>2. T = Task \ {t}
      BY <2>2
    <3> HIDE DEF T
    <3>3. /\ r \in Seq(Task) /\ Once(r) /\ Sorted(r, prio) /\ Entries(r) = Entries(pend[o]) \cap T
      BY <1>2, <2>1, OnlyIs
    <3> HIDE DEF r
    <3>4. Sorted(r, prio')
      <4>1. \A i \in 1..Len(r) : r[i] \in Task \ {t}
        BY <3>2, <3>3 DEF Entries
      <4>2. \A i \in 1..Len(r) : prio'[r[i]] = prio[r[i]]
        BY <1>2, <4>1
      <4> QED BY <3>3, <4>2 DEF Sorted
    <3> DEFINE q == prio'
               new == OS_PendListInsertPrio(r, t, q)
    <3>5. q \in [Task -> Nat] /\ Sorted(r, q) /\ t \notin Entries(r)
      BY <1>2, <3>2, <3>3, <3>4
    <3> HIDE DEF q
    <3>6. /\ new \in Seq(Task) /\ Once(new) /\ Sorted(new, q)
          /\ Entries(new) = Entries(r) \cup {t}
      BY <3>3, <3>5, InsertIs
    <3>7. pend'[o] = new
      BY <1>3, <2>2, <3>1 DEF q
    <3>8. t \in Waiters(o) /\ Entries(pend[o]) \subseteq Task
      BY <2>1, <2>2, SeqFacts DEF Waiters
    <3> HIDE DEF new
    <3>9. Entries(new) \subseteq Waiters(o) /\ Entries(pend[o]) \subseteq Entries(new)
      BY <2>1, <3>2, <3>3, <3>6, <3>8
    <3> QED BY <3>6, <3>7, <3>9 DEF q
  <2>3. CASE ~(o \in Range(table[t]) /\ Len(pend[o]) > 1)
    <3>1. pend'[o] = pend[o]
      BY <1>3, <2>3
    <3>2. Sorted(pend[o], prio')
      <4> DEFINE s == pend[o]
      <4>1. CASE o \notin Range(table[t])
        <5>1. \A i \in 1..Len(s) : s[i] \in Task \ {t}
          BY <2>1, <4>1 DEF Entries, Waiters
        <5>2. \A i \in 1..Len(s) : prio'[s[i]] = prio[s[i]]
          BY <1>2, <5>1
        <5> QED BY <2>1, <5>2 DEF Sorted
      <4>2. CASE Len(s) =< 1
        <5>1. Len(s) \in Nat
          BY <2>1, LenProperties
        <5>2. \A i, j \in 1..Len(s) : ~(i < j)
          BY <4>2, <5>1
        <5> QED BY <5>2 DEF Sorted
      <4>3. Len(s) \in Nat
        BY <2>1, LenProperties
      <4> QED BY <2>3, <4>1, <4>2, <4>3
    <3> QED BY <2>1, <3>1, <3>2
  <2> QED BY <2>2, <2>3
<1>6. Shape'
  BY <1>1, <1>2, <1>3, <1>5 DEF Shape
<1>7. ListsOrdered' /\ (~Careless => AllListed' /\ TablesExist')
  <2>1. ListsOrdered'
    BY <1>4, <1>5 DEF ListsOrdered
  <2>2. ~Careless => AllListed'
    BY <1>4, <1>5 DEF MInv, AllListed
  <2>3. ~Careless => TablesExist'
    BY <1>1 DEF MInv, TablesExist
  <2> QED BY <2>1, <2>2, <2>3
<1>8. Waits'
  BY <1>1 DEF MInv, Waits, Told
<1>9. NobodyWaitsInVain'
  <2> SUFFICES ASSUME NEW o \in Obj, content[o] # << >> PROVE pend'[o] = << >>
    BY <1>1 DEF NobodyWaitsInVain
  <2>1. pend[o] = << >>
    BY DEF MInv, NobodyWaitsInVain
  <2>2. ~(Len(pend[o]) > 1)
    BY <2>1
  <2> QED BY <1>3, <2>1, <2>2
<1>10. timed' \subseteq Task
  BY <1>1 DEF MInv
<1> QED BY <1>6, <1>7, <1>8, <1>9, <1>10 DEF MInv

LEMMA MultiNextInv ==
  ASSUME MInv, [MultiNext]_multivars
  PROVE  MInv'
<1>1. ASSUME NEW t \in Task, OSPendMulti(t) PROVE MInv'
  <2>1. pc[t].at = "valid"
    BY <1>1 DEF OSPendMulti
  <2>2. \/ OS_PendMultiGetRdy(t, pc[t].tbl) \/ WouldBlock(t, pc[t].tbl)
        \/ \E timeout : OS_PendMultiWait(t, pc[t].tbl, timeout)
    BY <1>1, Zenon DEF OSPendMulti
  <2> QED BY <2>1, <2>2, GetRdyInv, WouldBlockInv, WaitInv
<1>2. CASE UNCHANGED multivars
  <2>1. UNCHANGED <<prio, table, timed, status, rdy, pc, type, content, pend>>
    BY <1>2 DEF multivars, tcbs, objs
  <2>2. Shape' /\ ListsOrdered' /\ Waits' /\ NobodyWaitsInVain' /\ (AllListed <=> AllListed')
    BY <2>1 DEF MInv, Shape, ListsOrdered, Waits, Told, NobodyWaitsInVain, AllListed, Waiters
  <2>3. TablesExist <=> TablesExist'
    BY <2>1 DEF TablesExist
  <2> QED BY <2>1, <2>2, <2>3 DEF MInv
<1>3. CASE MultiNext
  BY <1>1, <1>3, ValidateInv, PendMultiReturnInv, TimeoutInv, ChangePrioInv, PostInv,
     PendAbortInv, DeleteInv, CreateInv DEF MultiNext
<1> QED BY <1>2, <1>3

-----------------------------------------------------------------------------
(* The theorems.                                                           *)

LEMMA AlwaysMInv == MultiSpec => []MInv
<1>1. MultiInit => MInv
  BY MultiInitInv
<1>2. MInv /\ [MultiNext]_multivars => MInv'
  BY MultiNextInv
<1> QED BY <1>1, <1>2, PTL DEF MultiSpec

(* An object that has something to give has no one in its pend list: what  *)
(* OSPendMulti() looked at before its critical section does not matter.    *)
THEOREM NobodyInVain == MultiSpec => []NobodyWaitsInVain
<1>1. MInv => NobodyWaitsInVain
  BY DEF MInv
<1> QED BY <1>1, AlwaysMInv, PTL

(* However many of its objects are posted, aborted or deleted before it    *)
(* runs again, a task that waited finds one of them marked in its table,   *)
(* or none after a timeout.                                                *)
THEOREM EndsForOneReason == MultiSpec => []OneReason
<1>1. ASSUME MInv PROVE OneReason
  <2> SUFFICES ASSUME NEW t \in Task, pc[t].at = "wait"
               PROVE  Cardinality(rdy[t])
                        = (IF table[t] # << >> \/ status[t] = "TIMEOUT" THEN 0 ELSE 1)
    BY DEF OneReason
  <2>1. IF table[t] # << >> \/ status[t] = "TIMEOUT" THEN rdy[t] = {} ELSE \E x : rdy[t] = {x}
    BY <1>1 DEF MInv, Waits, Told
  <2>2. Cardinality({}) = 0 /\ \A x : Cardinality({x}) = 1
    BY FS_EmptySet, FS_Singleton
  <2> QED BY <2>1, <2>2
<1> QED BY <1>1, AlwaysMInv, PTL

(* Every list a task is in has it at the place of its priority, also after *)
(* OSTaskChangePrio() moved it in all of them.                             *)
THEOREM PrioOrder == MultiSpec => []WaitersByPriority
<1>1. ASSUME MInv PROVE WaitersByPriority
  <2> SUFFICES ASSUME NEW o \in Obj, NEW i \in DOMAIN pend[o], NEW j \in DOMAIN pend[o], i < j
               PROVE  prio[pend[o][i]] =< prio[pend[o][j]]
    BY DEF WaitersByPriority
  <2>1. pend[o] \in Seq(Task) /\ Sorted(pend[o], prio)
    BY <1>1 DEF MInv, Shape, ListsOrdered
  <2>2. DOMAIN pend[o] = 1..Len(pend[o])
    BY <2>1, LenProperties
  <2> QED BY <2>1, <2>2 DEF Sorted
<1> QED BY <1>1, AlwaysMInv, PTL

(* When no object is deleted while a task is about to pend on it, a task   *)
(* is once in the list of each object in its table and in no other list.   *)
THEOREM InTheirLists == ASSUME ~Careless PROVE MultiSpec => []ListsMatchTables
<1>1. ASSUME MInv PROVE ListsMatchTables
  <2> SUFFICES ASSUME NEW t \in Task, NEW o \in Obj
               PROVE  Cardinality({i \in DOMAIN pend[o] : pend[o][i] = t})
                        = (IF o \in Range(table[t]) THEN 1 ELSE 0)
    BY DEF ListsMatchTables
  <2> DEFINE places == {i \in DOMAIN pend[o] : pend[o][i] = t}
  <2>1. /\ pend[o] \in Seq(Task) /\ Once(pend[o]) /\ Entries(pend[o]) = Waiters(o)
    BY <1>1 DEF MInv, Shape, ListsOrdered, AllListed
  <2>2. DOMAIN pend[o] = 1..Len(pend[o])
    BY <2>1, LenProperties
  <2>3. Cardinality({}) = 0 /\ \A x : Cardinality({x}) = 1
    BY FS_EmptySet, FS_Singleton
  <2>4. CASE o \in Range(table[t])
    <3>1. PICK i \in 1..Len(pend[o]) : pend[o][i] = t
      BY <2>1, <2>4 DEF Waiters, Entries
    <3>2. places = {i}
      BY <2>1, <2>2, <3>1 DEF Once
    <3> QED BY <2>3, <2>4, <3>2
  <2>5. CASE o \notin Range(table[t])
    <3>1. places = {}
      BY <2>1, <2>2, <2>5 DEF Waiters, Entries
    <3> QED BY <2>3, <2>5, <3>1
  <2> QED BY <2>4, <2>5
<1> QED BY <1>1, AlwaysMInv, PTL

(* The part of NothingLost that speaks of one step.                        *)
TakenIsMarked ==
  \A o \in Obj : content[o] # << >> /\ content'[o] = Tail(content[o]) /\ type' = type
    => \E t \in Task : <<o, Head(content[o])>> \in rdy'[t]

LEMMA TailLess ==
  ASSUME NEW S, NEW c \in Seq(S), c # << >>
  PROVE  /\ Tail(c) # c
         /\ \A x \in S : Tail(c) # Append(c, x)
<1>1. Len(c) \in Nat /\ Len(c) # 0
  BY LenProperties, EmptySeq
<1> DEFINE d == Tail(c)
<1>2. Len(d) = Len(c) - 1
  BY HeadTailProperties
<1>3. \A x \in S : Len(Append(c, x)) = Len(c) + 1
  BY AppendProperties
<1> HIDE DEF d
<1>4. d # c /\ \A x \in S : d # Append(c, x)
  <2>1. d # c
    BY <1>1, <1>2
  <2>2. ASSUME NEW x \in S PROVE Len(Append(c, x)) # Len(d)
    BY <1>1, <1>2, <1>3
  <2> QED BY <2>1, <2>2
<1> QED BY <1>4 DEF d

LEMMA StepMarks ==
  ASSUME MInv, [MultiNext]_multivars
  PROVE  TakenIsMarked \/ UNCHANGED multivars
<1>1. content \in [Obj -> Seq(Val)] /\ Shape
  BY DEF MInv, Shape
<1>2. ASSUME UNCHANGED content PROVE TakenIsMarked
  BY <1>1, <1>2, TailLess DEF TakenIsMarked
<1>3. ASSUME NEW t \in Task, OS_PendMultiGetRdy(t, pc[t].tbl) PROVE TakenIsMarked
  <2> SUFFICES ASSUME NEW o \in Obj, content[o] # << >>, content'[o] = Tail(content[o])
               PROVE  <<o, Head(content[o])>> \in rdy'[t]
    BY DEF TakenIsMarked
  <2>1. content'[o] = IF o \in Available(pc[t].tbl) THEN Tail(content[o]) ELSE content[o]
    BY <1>3 DEF OS_PendMultiGetRdy
  <2>2. Tail(content[o]) # content[o]
    BY <1>1, TailLess
  <2>3. o \in Available(pc[t].tbl)
    BY <2>1, <2>2
  <2>4. rdy'[t] = {<<x, Head(content[x])>> : x \in Available(pc[t].tbl)}
    BY <1>1, <1>3 DEF OS_PendMultiGetRdy, Shape
  <2> QED BY <2>3, <2>4
<1>4. ASSUME NEW o \in Obj, NEW v \in Val, NEW all \in BOOLEAN, Post(o, v, all)
      PROVE  TakenIsMarked
  <2>1. CASE UNCHANGED content
    BY <1>2, <2>1
  <2>2. CASE content' = [content EXCEPT ![o] = Append(@, v)]
    <3> SUFFICES ASSUME NEW x \in Obj, content[x] # << >>, content'[x] = Tail(content[x])
                 PROVE  FALSE
      BY DEF TakenIsMarked
    <3>1. content'[x] = content[x] \/ content'[x] = Append(content[x], v)
      BY <1>1, <2>2
    <3> QED BY <1>1, <3>1, TailLess
  <2> QED BY <1>4, <2>1, <2>2 DEF Post
<1>5. ASSUME NEW o \in Obj, Delete(o) \/ Create(o) PROVE TakenIsMarked
  <2>1. type' # type
    BY <1>5 DEF Delete, Create
  <2> QED BY <2>1 DEF TakenIsMarked
<1>6. ASSUME NEW t \in Task, OSPendMulti(t) PROVE TakenIsMarked
  <2>1. \/ OS_PendMultiGetRdy(t, pc[t].tbl) \/ WouldBlock(t, pc[t].tbl)
        \/ \E timeout : OS_PendMultiWait(t, pc[t].tbl, timeout)
    BY <1>6, Zenon DEF OSPendMulti
  <2> QED BY <1>2, <1>3, <2>1 DEF WouldBlock, OS_PendMultiWait, objs
<1>7. ASSUME NEW t \in Task,
             \/ \E tbl \in Tables : OS_PendMultiValidate(t, tbl)
             \/ OSPendMultiReturn(t) \/ Timeout(t) \/ \E p \in 0..PrioMax : OSTaskChangePrio(t, p)
      PROVE  TakenIsMarked
  BY <1>2, <1>7 DEF OS_PendMultiValidate, OSPendMultiReturn, Timeout, OSTaskChangePrio, objs
<1>8. ASSUME NEW o \in Obj, NEW all \in BOOLEAN, PendAbort(o, all) PROVE TakenIsMarked
  BY <1>2, <1>8 DEF PendAbort
<1>9. CASE MultiNext
  BY <1>4, <1>5, <1>6, <1>7, <1>8, <1>9 DEF MultiNext
<1> QED BY <1>9

(* What OSPendMulti() or a post takes from an object is marked, with its   *)
(* message, in the table of a task.                                        *)
THEOREM TakenIsKept == MultiSpec => NothingLost
<1>1. MInv /\ [MultiNext]_multivars => [TakenIsMarked]_multivars
  BY StepMarks
<1>2. NothingLost <=> [][TakenIsMarked]_multivars
  BY DEF NothingLost, TakenIsMarked
<1> QED BY <1>1, <1>2, AlwaysMInv, PTL DEF MultiSpec

-----------------------------------------------------------------------------
(* Software timers.                                                        *)

(* The first n entries, and those from m on.                               *)
LEMMA HeadIs ==
  ASSUME NEW S, NEW s \in Seq(S), NEW p, NEW n \in 0..Len(s)
  PROVE  LET r == SubSeq(s, 1, n)
         IN  /\ r \in Seq(S) /\ Len(r) = n
             /\ \A j \in 1..n : r[j] = s[j]
             /\ Once(s) => Once(r)
             /\ Sorted(s, p) => Sorted(r, p)
             /\ Entries(r) = {s[j] : j \in 1..n}
<1> DEFINE r == SubSeq(s, 1, n)
<1>1. Len(s) \in Nat /\ n \in Nat /\ n =< Len(s)
  BY LenProperties
<1>2. /\ r \in Seq(S) /\ Len(r) = n
      /\ \A j \in 1..n : r[j] = s[j]
  OBVIOUS
<1> HIDE DEF r
<1>3. \A i \in 1..n : i \in 1..Len(s)
  BY <1>1
<1>4. Once(s) => Once(r)
  BY <1>2, <1>3 DEF Once
<1>5. Sorted(s, p) => Sorted(r, p)
  BY <1>2, <1>3 DEF Sorted
<1>6. Entries(r) = {s[j] : j \in 1..n}
  BY <1>2 DEF Entries
<1> QED BY <1>2, <1>4, <1>5, <1>6 DEF r

LEMMA TailIs ==
  ASSUME NEW S, NEW s \in Seq(S), NEW p, NEW m \in 1..Len(s) + 1
  PROVE  LET r == SubSeq(s, m, Len(s))
         IN  /\ r \in Seq(S) /\ Len(r) = Len(s) - m + 1
             /\ \A j \in 1..Len(r) : r[j] = s[m + j - 1]
             /\ Once(s) => Once(r)
             /\ Sorted(s, p) => Sorted(r, p)
             /\ Entries(r) = {s[j] : j \in m..Len(s)}
<1> DEFINE r == SubSeq(s, m, Len(s))
<1>1. Len(s) \in Nat /\ m \in Nat /\ m - 1 =< Len(s) /\ 1 =< m
  BY LenProperties
<1>2. /\ r \in Seq(S) /\ Len(r) = Len(s) - m + 1
      /\ \A i \in 1..Len(s) - m + 1 : r[i] = s[m + i - 1]
  OBVIOUS
<1> HIDE DEF r
<1>3. \A i \in 1..Len(r) : /\ m + i - 1 \in m..Len(s) /\ m + i - 1 \in 1..Len(s)
                           /\ r[i] = s[m + i - 1]
  BY <1>1, <1>2
<1>4. ASSUME Once(s) PROVE Once(r)
  <2> SUFFICES ASSUME NEW i \in 1..Len(r), NEW j \in 1..Len(r), r[i] = r[j] PROVE i = j
    BY DEF Once
  <2>1. m + i - 1 = m + j - 1
    BY <1>3, <1>4 DEF Once
  <2> QED BY <1>1, <2>1
<1>5. ASSUME Sorted(s, p) PROVE Sorted(r, p)
  <2> SUFFICES ASSUME NEW i \in 1..Len(r), NEW j \in 1..Len(r), i < j
               PROVE  p[r[i]] =< p[r[j]]
    BY DEF Sorted
  <2>1. m + i - 1 < m + j - 1
    BY <1>1
  <2> QED BY <1>3, <1>5, <2>1 DEF Sorted
<1>6. Entries(r) = {s[j] : j \in m..Len(s)}
  <2>1. ASSUME NEW i \in m..Len(s) PROVE \E j \in 1..Len(r) : r[j] = s[i]
    <3>1. i - m + 1 \in 1..Len(r) /\ m + (i - m + 1) - 1 = i
      BY <1>1, <1>2
    <3> QED BY <1>3, <3>1
  <2>2. ASSUME NEW y \in Entries(r) PROVE \E i \in m..Len(s) : y = s[i]
    BY <1>3 DEF Entries
  <2>3. ASSUME NEW y, \E i \in m..Len(s) : y = s[i] PROVE y \in Entries(r)
    <3>1. PICK i \in m..Len(s) : y = s[i]
      BY <2>3
    <3> QED BY <2>1, <3>1 DEF Entries
  <2> QED BY <2>2, <2>3
<1> QED BY <1>2, <1>3, <1>4, <1>5, <1>6 DEF r

LEMMA InsertAtIs ==
  ASSUME NEW S, NEW s \in Seq(S), NEW p, NEW i \in 1..Len(s) + 1,
         NEW x \in S, x \notin Entries(s), Once(s)
  PROVE  LET r == InsertAt(s, i, x)
         IN  /\ r \in Seq(S) /\ Once(r) /\ Entries(r) = Entries(s) \cup {x}
             /\ i # 1 => r # << >> /\ r[1] = s[1]
             /\ /\ Sorted(s, p)
                /\ \A j \in 1..i - 1 : p[s[j]] =< p[x]
                /\ \A j \in i..Len(s) : p[x] =< p[s[j]]
                => Sorted(r, p)
<1> DEFINE h == i - 1
           a == SubSeq(s, 1, h)
           b == SubSeq(s, i, Len(s))
           me == <<x>>
           c == a \o me
           r == InsertAt(s, i, x)
<1>0. /\ Len(s) \in Nat /\ h \in 0..Len(s) /\ h = i - 1
      /\ \A j \in 1..Len(s) : j \in 1..h \/ j \in i..Len(s)
      /\ 1..h \subseteq 1..Len(s) /\ i..Len(s) \subseteq 1..Len(s)
      /\ \A j \in 1..h, k \in i..Len(s) : j < k /\ j # k
  BY LenProperties
<1>1. r = c \o b
  BY DEF InsertAt
<1> HIDE DEF h
<1>2. /\ a \in Seq(S) /\ Once(a) /\ (\A y : y \in Entries(a) <=> \E j \in 1..h : y = s[j])
      /\ Sorted(s, p) => Sorted(a, p)
      /\ Len(a) = h /\ \A j \in 1..h : a[j] = s[j]
  <2>2. h \in 0..Len(s)
    BY <1>0
  <2>3. /\ a \in Seq(S) /\ Len(a) = h
        /\ \A j \in 1..h : a[j] = s[j]
        /\ Once(s) => Once(a)
        /\ Sorted(s, p) => Sorted(a, p)
        /\ Entries(a) = {s[j] : j \in 1..h}
    BY <2>2, HeadIs
  <2> HIDE DEF a
  <2> QED BY <2>3
<1>3. /\ b \in Seq(S) /\ Once(b) /\ (\A y : y \in Entries(b) <=> \E j \in i..Len(s) : y = s[j])
      /\ Sorted(s, p) => Sorted(b, p)
  <2>2. i \in 1..Len(s) + 1
    BY <1>0
  <2>3. /\ b \in Seq(S) /\ Len(b) = Len(s) - i + 1
        /\ \A j \in 1..Len(b) : b[j] = s[i + j - 1]
        /\ Once(s) => Once(b)
        /\ Sorted(s, p) => Sorted(b, p)
        /\ Entries(b) = {s[j] : j \in i..Len(s)}
    BY <2>2, TailIs, ZenonT(30)
  <2> HIDE DEF b
  <2> QED BY <2>3
<1>4. /\ me \in Seq(S) /\ Entries(me) = {x} /\ Once(me) /\ Sorted(me, p)
      /\ Len(me) = 1
  <2>1. Len(me) = 1 /\ me[1] = x /\ me \in Seq(S)
    OBVIOUS
  <2>2. \A j \in 1..1 : j = 1
    OBVIOUS
  <2> HIDE DEF me
  <2> QED BY <2>1, <2>2 DEF Entries, Once, Sorted
<1> HIDE DEF a, b, me
<1>5. /\ Entries(s) = Entries(a) \cup Entries(b)
      /\ Entries(a) \cap Entries(b) = {}
      /\ Sorted(s, p) => \A y \in Entries(a), z \in Entries(b) : p[y] =< p[z]
  <2>1. Entries(s) = Entries(a) \cup Entries(b)
    <3>1. ASSUME NEW y \in Entries(s) PROVE y \in Entries(a) \cup Entries(b)
      <4>1. PICK j \in 1..Len(s) : y = s[j]
        BY DEF Entries
      <4> QED BY <1>0, <1>2, <1>3, <4>1
    <3>2. ASSUME NEW y \in Entries(a) \cup Entries(b) PROVE y \in Entries(s)
      <4>1. \E j \in 1..Len(s) : y = s[j]
        BY <1>0, <1>2, <1>3
      <4> QED BY <4>1 DEF Entries
    <3> QED BY <3>1, <3>2
  <2>2. Entries(a) \cap Entries(b) = {}
    <3> SUFFICES ASSUME NEW y \in Entries(a), y \in Entries(b) PROVE FALSE
      OBVIOUS
    <3>1. PICK j \in 1..h : y = s[j]
      BY <1>2
    <3>2. PICK k \in i..Len(s) : y = s[k]
      BY <1>3
    <3> QED BY <1>0, <3>1, <3>2 DEF Once
  <2>3. ASSUME Sorted(s, p), NEW y \in Entries(a), NEW z \in Entries(b) PROVE p[y] =< p[z]
    <3>1. PICK j \in 1..h : y = s[j]
      BY <1>2
    <3>2. PICK k \in i..Len(s) : z = s[k]
      BY <1>3
    <3> QED BY <1>0, <2>3, <3>1, <3>2 DEF Sorted
  <2> QED BY <2>1, <2>2, <2>3
<1>6. i # 1 => c # << >> /\ c[1] = s[1]
  <2>1. Len(a) + Len(me) = i /\ i \in Nat /\ i # 0
    BY <1>0, <1>2, <1>4
  <2>0. /\ Len(c) = Len(a) + Len(me)
        /\ \A j \in 1..Len(a) + Len(me) : c[j] = IF j =< Len(a) THEN a[j] ELSE me[j - Len(a)]
    <3>1. a \in Seq(S) /\ me \in Seq(S)
      BY <1>2, <1>4
    <3> QED BY <3>1, ConcatProperties
  <2>2. Len(c) = i /\ \A j \in 1..i : c[j] = IF j =< Len(a) THEN a[j] ELSE me[j - Len(a)]
    BY <2>0, <2>1
  <2>3. i # 1 => 1 \in 1..i /\ 1 =< Len(a) /\ 1 \in 1..h
    BY <1>0, <1>2, <2>1
  <2>4. c # << >>
    BY <2>1, <2>2
  <2> HIDE DEF c
  <2> QED BY <1>2, <2>2, <2>3, <2>4
<1> HIDE DEF r
<1>7. /\ c \in Seq(S) /\ Entries(c) = Entries(a) \cup {x} /\ Once(c)
      /\ Sorted(a, p) /\ (\A y \in Entries(a) : p[y] =< p[x]) => Sorted(c, p)
  <2>1. Entries(a) \cap Entries(me) = {}
    BY <1>4, <1>5
  <2> QED BY <1>2, <1>4, <2>1, ConcatIs
<1> HIDE DEF c
<1>8. /\ r \in Seq(S) /\ Entries(r) = Entries(c) \cup Entries(b) /\ Once(r)
      /\ /\ Sorted(c, p) /\ Sorted(b, p)
         /\ \A y \in Entries(c), z \in Entries(b) : p[y] =< p[z]
         => Sorted(r, p)
  <2>1. Entries(c) \cap Entries(b) = {}
    BY <1>5, <1>7
  <2>2. c \in Seq(S) /\ b \in Seq(S) /\ Once(c) /\ Once(b)
    BY <1>3, <1>7
  <2> QED BY <1>1, <2>1, <2>2, ConcatIs
<1>9. ASSUME Sorted(s, p), \A j \in 1..h : p[s[j]] =< p[x],
             \A j \in i..Len(s) : p[x] =< p[s[j]]
      PROVE  Sorted(r, p)
  <2>1. \A y \in Entries(a) : p[y] =< p[x]
    BY <1>2, <1>9
  <2>2. \A z \in Entries(b) : p[x] =< p[z]
    BY <1>3, <1>9
  <2> QED BY <1>2, <1>3, <1>5, <1>7, <1>8, <1>9, <2>1, <2>2
<1>10. i # 1 => r # << >> /\ r[1] = s[1]
  <2> SUFFICES ASSUME i # 1 PROVE r # << >> /\ r[1] = s[1]
    OBVIOUS
  <2>1. Len(c) \in Nat /\ Len(b) \in Nat /\ Len(c) # 0
    BY <1>3, <1>6, <1>7, LenProperties, EmptySeq
  <2>2. Len(r) = Len(c) + Len(b)
        /\ \A j \in 1..Len(c) + Len(b) : r[j] = IF j =< Len(c) THEN c[j] ELSE b[j - Len(c)]
    BY <1>1, <1>3, <1>7, ConcatProperties
  <2>3. r[1] = c[1] /\ Len(r) # 0
    BY <2>1, <2>2
  <2> QED BY <1>6, <2>3
<1> QED BY <1>0, <1>5, <1>7, <1>8, <1>9, <1>10 DEF r

LEMMA RemoveAtIs ==
  ASSUME NEW S, NEW s \in Seq(S), NEW p, NEW i \in 1..Len(s), Once(s)
  PROVE  LET r == RemoveAt(s, i)
         IN  /\ r \in Seq(S) /\ Once(r) /\ Entries(r) = Entries(s) \ {s[i]}
             /\ Sorted(s, p) => Sorted(r, p)
             /\ i # 1 => r # << >> /\ r[1] = s[1]
             /\ i = 1 /\ Len(s) > 1 => r # << >> /\ r[1] = s[2]
<1> DEFINE h == i - 1
           k == i + 1
           a == SubSeq(s, 1, h)
           b == SubSeq(s, k, Len(s))
           r == RemoveAt(s, i)
<1>0. /\ Len(s) \in Nat /\ h \in 0..Len(s) /\ h = i - 1
      /\ k \in 1..Len(s) + 1 /\ k = i + 1
      /\ \A j \in 1..Len(s) : j = i \/ j \in 1..h \/ j \in k..Len(s)
      /\ \A j \in 1..h : j \in 1..Len(s) /\ j # i
      /\ \A j \in k..Len(s) : j \in 1..Len(s) /\ j # i
      /\ \A j \in 1..h, l \in k..Len(s) : j < l /\ j # l
  BY LenProperties
<1>1. r = a \o b
  BY DEF RemoveAt
<1> HIDE DEF h, k
<1>2. /\ a \in Seq(S) /\ Once(a) /\ (\A y : y \in Entries(a) <=> \E j \in 1..h : y = s[j])
      /\ Sorted(s, p) => Sorted(a, p)
      /\ Len(a) = h /\ \A j \in 1..h : a[j] = s[j]
  <2>2. h \in 0..Len(s)
    BY <1>0
  <2>3. /\ a \in Seq(S) /\ Len(a) = h
        /\ \A j \in 1..h : a[j] = s[j]
        /\ Once(s) => Once(a)
        /\ Sorted(s, p) => Sorted(a, p)
        /\ Entries(a) = {s[j] : j \in 1..h}
    BY <2>2, HeadIs
  <2> HIDE DEF a
  <2> QED BY <2>3
<1>3. /\ b \in Seq(S) /\ Once(b) /\ (\A y : y \in Entries(b) <=> \E j \in k..Len(s) : y = s[j])
      /\ Sorted(s, p) => Sorted(b, p)
      /\ Len(b) = Len(s) - k + 1 /\ \A j \in 1..Len(b) : b[j] = s[k + j - 1]
  <2>2. k \in 1..Len(s) + 1
    BY <1>0
  <2>3. /\ b \in Seq(S) /\ Len(b) = Len(s) - k + 1
        /\ \A j \in 1..Len(b) : b[j] = s[k + j - 1]
        /\ Once(s) => Once(b)
        /\ Sorted(s, p) => Sorted(b, p)
        /\ Entries(b) = {s[j] : j \in k..Len(s)}
    BY <2>2, TailIs, ZenonT(30)
  <2> HIDE DEF b
  <2> QED BY <2>3
<1> HIDE DEF r, a, b
<1>5. Entries(a) \cup Entries(b) = Entries(s) \ {s[i]} /\ Entries(a) \cap Entries(b) = {}
  <2>1. Entries(a) \cap Entries(b) = {}
    <3> SUFFICES ASSUME NEW y \in Entries(a), y \in Entries(b) PROVE FALSE
      OBVIOUS
    <3>1. PICK j \in 1..h : y = s[j]
      BY <1>2
    <3>2. PICK l \in k..Len(s) : y = s[l]
      BY <1>3
    <3> QED BY <1>0, <3>1, <3>2 DEF Once
  <2>2. ASSUME NEW y \in Entries(a) \cup Entries(b) PROVE y \in Entries(s) /\ y # s[i]
    <3>1. \/ \E j \in 1..h : y = s[j]
          \/ \E j \in k..Len(s) : y = s[j]
      BY <1>2, <1>3
    <3>2. PICK j \in 1..Len(s) : y = s[j] /\ j # i
      BY <1>0, <3>1
    <3> QED BY <3>2 DEF Once, Entries
  <2>3. ASSUME NEW y \in Entries(s), y # s[i] PROVE y \in Entries(a) \cup Entries(b)
    <3>1. PICK j \in 1..Len(s) : y = s[j]
      BY DEF Entries
    <3> QED BY <1>0, <1>2, <1>3, <2>3, <3>1
  <2> QED BY <2>1, <2>2, <2>3
<1>6. Sorted(s, p) => \A y \in Entries(a), z \in Entries(b) : p[y] =< p[z]
  <2> SUFFICES ASSUME Sorted(s, p), NEW y \in Entries(a), NEW z \in Entries(b)
               PROVE  p[y] =< p[z]
    OBVIOUS
  <2>1. PICK j \in 1..h : y = s[j]
    BY <1>2
  <2>2. PICK l \in k..Len(s) : z = s[l]
    BY <1>3
  <2> QED BY <1>0, <2>1, <2>2 DEF Sorted
<1>7. /\ r \in Seq(S) /\ Entries(r) = Entries(a) \cup Entries(b) /\ Once(r)
      /\ Sorted(s, p) => Sorted(r, p)
  BY <1>1, <1>2, <1>3, <1>5, <1>6, ConcatIs, SMTT(20)
<1>8. Len(r) = Len(a) + Len(b)
      /\ \A j \in 1..Len(a) + Len(b) : r[j] = IF j =< Len(a) THEN a[j] ELSE b[j - Len(a)]
  <2>1. a \in Seq(S) /\ b \in Seq(S)
    BY <1>2, <1>3
  <2> HIDE DEF a, b, r
  <2> QED BY <1>1, <2>1, ConcatProperties
<1>9. ASSUME i # 1 PROVE r # << >> /\ r[1] = s[1]
  <2>1. 1 \in 1..h /\ 1 =< Len(a) /\ 1 \in 1..Len(a) + Len(b)
    BY <1>0, <1>2, <1>3, <1>9
  <2>2. r[1] = s[1]
    BY <1>2, <1>8, <2>1
  <2>3. Len(r) # 0
    BY <1>0, <1>2, <1>3, <1>8, <2>1
  <2> QED BY <2>2, <2>3
<1>10. ASSUME i = 1, Len(s) > 1 PROVE r # << >> /\ r[1] = s[2]
  <2>1. /\ Len(a) = 0 /\ 1 \in 1..Len(b) /\ 1 \in 1..Len(a) + Len(b) /\ 1 - Len(a) = 1
        /\ k + 1 - 1 = 2
    BY <1>0, <1>2, <1>3, <1>10
  <2>2. r[1] = b[1] /\ b[1] = s[k + 1 - 1]
    BY <1>3, <1>8, <2>1
  <2>3. Len(r) # 0
    BY <1>0, <1>2, <1>3, <1>8, <2>1
  <2> QED BY <2>1, <2>2, <2>3
<1> QED BY <1>5, <1>7, <1>9, <1>10 DEF r

(* The arithmetic of OS_TICK.                                              *)
LEMMA ModIs ==
  ASSUME NEW n \in Nat \ {0}, NEW a \in Int, -n =< a, a < 2 * n
  PROVE  a % n = IF a < 0 THEN a + n ELSE IF a < n THEN a ELSE a - n
<1>1. CASE a < 0
  BY <1>1
<1>2. CASE 0 =< a /\ a < n
  BY <1>2
<1>3. CASE n =< a
  BY <1>3
<1> QED BY <1>1, <1>2, <1>3

LEMMA PlusIs ==
  ASSUME NEW n \in Nat \ {0}, NEW a \in 0..n - 1, NEW b \in 0..n - 1
  PROVE  (a + b) % n = IF a + b < n THEN a + b ELSE a + b - n
<1>1. CASE a + b < n
  BY <1>1
<1>2. CASE a + b >= n
  BY <1>2
<1> QED BY <1>1, <1>2

LEMMA RemainIs ==
  ASSUME TmrAssumption, ctr \in 0..Wrap - 1, NEW m \in 0..Wrap - 1
  PROVE  /\ Remain(m) = IF m >= ctr THEN m - ctr ELSE m - ctr + Wrap
         /\ Remain(m) \in 0..Wrap - 1
         /\ Remain(m) = 0 <=> m = ctr
<1>1. Wrap \in Nat \ {0} /\ m - ctr \in Int /\ -Wrap =< m - ctr /\ m - ctr < 2 * Wrap
  BY DEF TmrAssumption
<1>2. Remain(m) = IF m - ctr < 0 THEN m - ctr + Wrap
                  ELSE IF m - ctr < Wrap THEN m - ctr ELSE m - ctr - Wrap
  BY <1>1, ModIs DEF Remain
<1> QED BY <1>1, <1>2

(* A match time n ticks ahead.                                             *)
LEMMA MatchAfter ==
  ASSUME TmrAssumption, ctr \in 0..Wrap - 1, NEW n \in 0..Wrap - 1
  PROVE  (ctr + n) % Wrap \in 0..Wrap - 1 /\ Remain((ctr + n) % Wrap) = n
<1> DEFINE m == (ctr + n) % Wrap
<1>1. Wrap \in Nat \ {0}
  BY DEF TmrAssumption
<1>2. m = IF ctr + n < Wrap THEN ctr + n ELSE ctr + n - Wrap
  BY <1>1, PlusIs
<1>3. m \in 0..Wrap - 1
  BY <1>1, <1>2
<1> HIDE DEF m
<1>4. Remain(m) = IF m >= ctr THEN m - ctr ELSE m - ctr + Wrap
  BY <1>3, RemainIs
<1>5. Remain(m) = n
  BY <1>1, <1>2, <1>4
<1> QED BY <1>3, <1>5 DEF m

(* One tick later.                                                         *)
LEMMA OneTickOn ==
  ASSUME TmrAssumption, ctr \in 0..Wrap - 1, NEW m \in 0..Wrap - 1, m # ctr,
         ctr' = (ctr + 1) % Wrap
  PROVE  ctr' \in 0..Wrap - 1 /\ (m - ctr') % Wrap = Remain(m) - 1
<1>1. Wrap \in Nat \ {0} /\ 1 \in 0..Wrap - 1
  <2>1. Wrap \in Nat \ {0}
    BY DEF TmrAssumption
  <2>2. Wrap # 1
    OBVIOUS
  <2> QED BY <2>1, <2>2
<1>2. ctr' = IF ctr + 1 < Wrap THEN ctr + 1 ELSE ctr + 1 - Wrap
  BY <1>1, PlusIs
<1>3. ctr' = IF ctr + 1 < Wrap THEN ctr + 1 ELSE 0
  BY <1>1, <1>2
<1>4. ctr' \in 0..Wrap - 1 /\ m - ctr' \in Int /\ -Wrap =< m - ctr' /\ m - ctr' < 2 * Wrap
  BY <1>1, <1>3
<1>5. (m - ctr') % Wrap = IF m - ctr' < 0 THEN m - ctr' + Wrap
                          ELSE IF m - ctr' < Wrap THEN m - ctr' ELSE m - ctr' - Wrap
  BY <1>1, <1>4, ModIs
<1>6. Remain(m) = IF m >= ctr THEN m - ctr ELSE m - ctr + Wrap
  BY RemainIs
<1> QED BY <1>1, <1>3, <1>4, <1>5, <1>6

(* The delays timers are started with.                                     *)
LEMMA DelayIs ==
  ASSUME TmrAssumption, NEW t \in Tmr
  PROVE  /\ FirstDelay(t) \in 1..Wrap - 1
         /\ Config[t].opt = "PERIODIC" => Config[t].period \in 1..Wrap - 1
<1>1. /\ Config[t].dly \in 0..Wrap - 1 /\ Config[t].period \in 0..Wrap - 1
      /\ \/ Config[t].opt = "PERIODIC" /\ Config[t].period > 0
         \/ Config[t].opt = "ONE_SHOT" /\ Config[t].dly > 0
      /\ Wrap \in Nat
  BY DEF TmrAssumption
<1>2. \A n \in 0..Wrap - 1 : n > 0 \/ n # 0 => n \in 1..Wrap - 1
  BY <1>1
<1>3. Config[t].opt = "PERIODIC" => Config[t].period \in 1..Wrap - 1
  BY <1>1, <1>2
<1>4. FirstDelay(t) \in 1..Wrap - 1
  BY <1>1, <1>2 DEF FirstDelay
<1> QED BY <1>3, <1>4

(* What is left of each timer, and the timers of a spoke.                  *)
Left == [t \in Tmr |-> Remain(match[t])]
InSpoke(k) == {t \in Tmr : st[t] = "RUNNING" /\ SpokeOf(match[t]) = k}
Due(t) == st[t] = "RUNNING" /\ match[t] = ctr

SpokesHold == \A k \in Spoke : Once(wheel[k]) /\ Entries(wheel[k]) = InSpoke(k)

(* The timer task is at the head of the spoke while a timer is due, and    *)
(* sleeps only when none is.                                               *)
HeadIsNext ==
  /\ task.at # "fault"
  /\ \A k \in Spoke : Sorted(wheel[k], Left)
  /\ task.p_tmr # NoTmr => task.p_tmr \in InSpoke(SpokeOf(ctr))
  /\ \A t \in Tmr : Due(t) => task.p_tmr = wheel[SpokeOf(ctr)][1]

WalkHolds ==
  /\ task.at = "wait" => task.p_tmr = NoTmr
  /\ task.at = "callback" => task.own # task.p_tmr
  /\ Careful => HeadIsNext

TInv == TmrTypeOK /\ SpokesHold /\ WalkHolds

LEMMA SpokeIs ==
  ASSUME TmrAssumption, NEW m \in 0..Wrap - 1
  PROVE  SpokeOf(m) \in Spoke
<1>1. WheelSize \in Nat \ {0} /\ m \in Int
  BY DEF TmrAssumption
<1> QED BY <1>1 DEF SpokeOf, Spoke

LEMMA TmrInitInv == TmrAssumption /\ TmrInit => TInv
<1> SUFFICES ASSUME TmrAssumption, TmrInit PROVE TInv
  OBVIOUS
<1>1. TmrTypeOK
  <2>1. 0 \in 0..Wrap - 1 /\ UpdateCnt \in 1..UpdateCnt /\ 0 \in 0..MaxOwed
    BY DEF TmrAssumption
  <2>2. /\ wheel \in [Spoke -> Seq(Tmr)]
        /\ st \in [Tmr -> {"UNUSED", "STOPPED", "RUNNING", "COMPLETED"}]
        /\ match \in [Tmr -> 0..Wrap - 1]
    BY <2>1 DEF TmrInit
  <2> QED BY <2>1, <2>2 DEF TmrInit, TmrTypeOK, Wait
<1>2. \A k \in Spoke : wheel[k] = << >>
  BY DEF TmrInit
<1>3. SpokesHold
  <2> SUFFICES ASSUME NEW k \in Spoke PROVE Once(wheel[k]) /\ Entries(wheel[k]) = InSpoke(k)
    BY DEF SpokesHold
  <2>1. InSpoke(k) = {}
    BY DEF TmrInit, InSpoke
  <2>2. Len(wheel[k]) = 0
    BY <1>2
  <2> QED BY <2>1, <2>2 DEF Once, Entries
<1>4. WalkHolds
  <2>1. \A k \in Spoke : Len(wheel[k]) = 0
    BY <1>2
  <2> QED BY <2>1 DEF TmrInit, WalkHolds, HeadIsNext, Wait, Sorted, Due
<1> QED BY <1>1, <1>3, <1>4 DEF TInv

LEMMA LeftIs ==
  ASSUME TmrAssumption, TmrTypeOK
  PROVE  \A t \in Tmr : /\ Left[t] = Remain(match[t]) /\ Left[t] \in 0..Wrap - 1
                        /\ Left[t] = 0 <=> match[t] = ctr
                        /\ match[t] \in 0..Wrap - 1 /\ SpokeOf(match[t]) \in Spoke
<1> SUFFICES ASSUME NEW t \in Tmr
             PROVE  /\ Left[t] = Remain(match[t]) /\ Left[t] \in 0..Wrap - 1
                    /\ Left[t] = 0 <=> match[t] = ctr
                    /\ match[t] \in 0..Wrap - 1 /\ SpokeOf(match[t]) \in Spoke
  OBVIOUS
<1>1. match[t] \in 0..Wrap - 1 /\ ctr \in 0..Wrap - 1
  BY DEF TmrTypeOK
<1>2. Left[t] = Remain(match[t])
  BY DEF Left
<1>3. SpokeOf(match[t]) \in Spoke
  BY <1>1, SpokeIs
<1> QED BY <1>1, <1>2, <1>3, RemainIs

LEMMA PlaceIs ==
  ASSUME NEW s \in Seq(Tmr), NEW t \in Entries(s)
  PROVE  Place(s, t) \in 1..Len(s) /\ s[Place(s, t)] = t
<1>1. \E i \in DOMAIN s : s[i] = t
  BY DEF Entries
<1>2. DOMAIN s = 1..Len(s)
  BY LenProperties
<1> QED BY <1>1, <1>2 DEF Place

(* wh is the wheel without t; its heads stay, and a head that was t is     *)
(* followed by the timer after it.                                         *)
Without(wh, t, p) ==
  /\ wh \in [Spoke -> Seq(Tmr)]
  /\ \A k \in Spoke :
       /\ Once(wh[k]) /\ Entries(wh[k]) = Entries(wheel[k]) \ {t}
       /\ Sorted(wheel[k], p) => Sorted(wh[k], p)
       /\ wheel[k] # << >> /\ wheel[k][1] # t => wh[k] # << >> /\ wh[k][1] = wheel[k][1]
       /\ Len(wheel[k]) > 1 /\ wheel[k][1] = t => wh[k] # << >> /\ wh[k][1] = wheel[k][2]

(* The wheel is wh with t in the spoke of m.                               *)
With(wh, t, m) ==
  /\ match' = [match EXCEPT ![t] = m] /\ wheel' \in [Spoke -> Seq(Tmr)]
  /\ \A k \in Spoke :
       /\ Once(wheel'[k])
       /\ Entries(wheel'[k]) = IF k = SpokeOf(m) THEN Entries(wh[k]) \cup {t} ELSE Entries(wh[k])
       /\ Sorted(wh[k], Left) => Sorted(wheel'[k], [Left EXCEPT ![t] = Remain(m)])
       /\ wh[k] # << >> /\ Left[wh[k][1]] < Remain(m) =>
            wheel'[k] # << >> /\ wheel'[k][1] = wh[k][1]

LEMMA UnlinkIs ==
  ASSUME TmrAssumption, TmrTypeOK, SpokesHold, NEW t \in Tmr, st[t] = "RUNNING", NEW p
  PROVE  Without(OS_TmrUnlink(t), t, p)
<1> DEFINE h == SpokeOf(match[t])
           s == wheel[h]
           i == Place(s, t)
           r == RemoveAt(s, i)
           wh == OS_TmrUnlink(t)
<1>1. h \in Spoke /\ s \in Seq(Tmr) /\ wheel \in [Spoke -> Seq(Tmr)]
  <2>1. h \in Spoke
    BY LeftIs
  <2> QED BY <2>1 DEF TmrTypeOK
<1>2. t \in Entries(s) /\ Once(s) /\ \A k \in Spoke : k # h => t \notin Entries(wheel[k])
  BY <1>1 DEF SpokesHold, InSpoke
<1>3. i \in 1..Len(s) /\ s[i] = t
  BY <1>1, <1>2, PlaceIs
<1>4. wh = [wheel EXCEPT ![h] = r]
  BY DEF OS_TmrUnlink
<1> HIDE DEF i
<1>5. /\ r \in Seq(Tmr) /\ Once(r) /\ Entries(r) = Entries(s) \ {s[i]}
      /\ Sorted(s, p) => Sorted(r, p)
      /\ i # 1 => r # << >> /\ r[1] = s[1]
      /\ i = 1 /\ Len(s) > 1 => r # << >> /\ r[1] = s[2]
  <2> HIDE DEF s, h
  <2> QED BY <1>1, <1>2, <1>3, RemoveAtIs, ZenonT(30)
<1> HIDE DEF r, wh, s, h
<1>6. wh \in [Spoke -> Seq(Tmr)] /\ wh[h] = r /\ \A k \in Spoke : k # h => wh[k] = wheel[k]
  BY <1>1, <1>4, <1>5
<1>7. ASSUME NEW k \in Spoke
      PROVE  /\ Once(wh[k]) /\ Entries(wh[k]) = Entries(wheel[k]) \ {t}
             /\ Sorted(wheel[k], p) => Sorted(wh[k], p)
             /\ wheel[k] # << >> /\ wheel[k][1] # t =>
                  wh[k] # << >> /\ wh[k][1] = wheel[k][1]
             /\ Len(wheel[k]) > 1 /\ wheel[k][1] = t => wh[k] # << >> /\ wh[k][1] = wheel[k][2]
  <2>1. CASE k = h
    <3>1. wh[k] = r /\ wheel[k] = s
      BY <1>6, <2>1 DEF s
    <3>2. 1 \in 1..Len(s) /\ (s[1] = t => i = 1) /\ (s[1] # t => i # 1)
      <4>1. 1 \in 1..Len(s)
        BY <1>1, <1>3, LenProperties
      <4> QED BY <1>2, <1>3, <4>1 DEF Once
    <3> QED BY <1>3, <1>5, <3>1, <3>2
  <2>2. CASE k # h
    <3>1. wh[k] = wheel[k] /\ t \notin Entries(wheel[k])
      BY <1>2, <1>6, <2>2
    <3>2. Once(wheel[k])
      BY DEF SpokesHold
    <3>3. Len(wheel[k]) > 1 => wheel[k][1] \in Entries(wheel[k])
      <4>1. Len(wheel[k]) \in Nat
        BY <1>1, LenProperties
      <4>2. Len(wheel[k]) > 1 => 1 \in 1..Len(wheel[k])
        BY <4>1
      <4> QED BY <4>2 DEF Entries
    <3> QED BY <3>1, <3>2, <3>3
  <2> QED BY <2>1, <2>2
<1>8. \A k \in Spoke :
        /\ Once(wh[k]) /\ Entries(wh[k]) = Entries(wheel[k]) \ {t}
        /\ Sorted(wheel[k], p) => Sorted(wh[k], p)
        /\ wheel[k] # << >> /\ wheel[k][1] # t =>
             wh[k] # << >> /\ wh[k][1] = wheel[k][1]
        /\ Len(wheel[k]) > 1 /\ wheel[k][1] = t => wh[k] # << >> /\ wh[k][1] = wheel[k][2]
  BY <1>7
<1>9. wh \in [Spoke -> Seq(Tmr)]
  BY <1>6
<1>10. Without(wh, t, p)
  BY <1>8, <1>9 DEF Without
<1> QED BY <1>10 DEF wh

LEMMA SortedSame ==
  ASSUME NEW s, NEW p, NEW q, \A x \in Entries(s) : p[x] = q[x], Sorted(s, p)
  PROVE  Sorted(s, q)
<1>1. \A i \in 1..Len(s) : p[s[i]] = q[s[i]]
  BY DEF Entries
<1> QED BY <1>1 DEF Sorted

(* Where a timer is linked into its spoke: before the first timer that has *)
(* as much left.                                                           *)
LEMMA PositionIs ==
  ASSUME TmrAssumption, TmrTypeOK, NEW s \in Seq(Tmr), NEW m \in 0..Wrap - 1
  PROVE  LET i == CHOOSE i \in 1..Len(s) + 1 :
                    /\ \A j \in 1..i - 1 : Remain(m) > Remain(match[s[j]])
                    /\ i =< Len(s) => Remain(m) =< Remain(match[s[i]])
         IN  /\ i \in 1..Len(s) + 1
             /\ \A j \in 1..i - 1 : Left[s[j]] < Remain(m)
             /\ i =< Len(s) => Remain(m) =< Left[s[i]]
<1> DEFINE n == Len(s)
           P(i) == /\ \A j \in 1..i - 1 : Remain(m) > Remain(match[s[j]])
                   /\ i =< n => Remain(m) =< Remain(match[s[i]])
           T == {i \in 1..n : Remain(m) =< Remain(match[s[i]])}
<1>1. n \in Nat /\ \A j \in 1..n : s[j] \in Tmr
  BY LenProperties, ElementOfSeq
<1>2. Remain(m) \in 0..Wrap - 1 /\ ctr \in 0..Wrap - 1 /\ Wrap \in Nat
  BY RemainIs DEF TmrTypeOK, TmrAssumption
<1>3. \A j \in 1..n : /\ Left[s[j]] = Remain(match[s[j]]) /\ Left[s[j]] \in 0..Wrap - 1
  BY <1>1, LeftIs
<1>4. \E i \in 1..n + 1 : P(i)
  <2>1. CASE T = {}
    <3>1. \A j \in 1..n : Remain(m) > Remain(match[s[j]])
      <4> SUFFICES ASSUME NEW j \in 1..n PROVE Remain(m) > Remain(match[s[j]])
        OBVIOUS
      <4>1. ~(Remain(m) =< Remain(match[s[j]]))
        BY <2>1
      <4>2. Remain(match[s[j]]) \in 0..Wrap - 1
        BY <1>3
      <4> QED BY <1>2, <4>1, <4>2
    <3>2. n + 1 \in 1..n + 1 /\ (n + 1) - 1 = n /\ ~(n + 1 =< n)
      BY <1>1
    <3>3. P(n + 1)
      BY <3>1, <3>2
    <3> QED BY <3>2, <3>3
  <2>2. CASE T # {}
    <3>1. PICK i \in T : \A j \in T : i =< j
      <4>1. T \in SUBSET Nat
        BY <1>1
      <4> HIDE DEF T
      <4> QED BY <2>2, <4>1, Least
    <3>2. \A j \in 1..i - 1 : j \in 1..n /\ j \notin T
      <4> SUFFICES ASSUME NEW j \in 1..i - 1 PROVE j \in 1..n /\ j \notin T
        OBVIOUS
      <4>1. i \in 1..n
        BY <3>1
      <4>2. j \in 1..n /\ ~(i =< j)
        BY <1>1, <4>1
      <4> QED BY <3>1, <4>2
    <3>3. \A j \in 1..i - 1 : Remain(m) > Remain(match[s[j]])
      <4> SUFFICES ASSUME NEW j \in 1..i - 1 PROVE Remain(m) > Remain(match[s[j]])
        OBVIOUS
      <4>1. ~(Remain(m) =< Remain(match[s[j]])) /\ j \in 1..n
        BY <3>2
      <4>2. Remain(match[s[j]]) \in 0..Wrap - 1
        BY <1>3, <4>1
      <4> QED BY <1>2, <4>1, <4>2
    <3>4. i \in 1..n + 1 /\ Remain(m) =< Remain(match[s[i]])
      BY <1>1, <3>1
    <3> QED BY <3>3, <3>4
  <2> QED BY <2>1, <2>2
<1> DEFINE i == CHOOSE i \in 1..n + 1 : P(i)
<1>5. i \in 1..n + 1 /\ P(i)
  BY <1>4
<1> HIDE DEF i
<1>6. \A j \in 1..i - 1 : j \in 1..n
  BY <1>1, <1>5
<1>7. \A j \in 1..i - 1 : Left[s[j]] < Remain(m)
  BY <1>2, <1>3, <1>5, <1>6
<1>8. i =< n => Remain(m) =< Left[s[i]]
  BY <1>1, <1>3, <1>5
<1> QED BY <1>5, <1>7, <1>8 DEF i

LEMMA LinkIs ==
  ASSUME TmrAssumption, TmrTypeOK, NEW wh \in [Spoke -> Seq(Tmr)], NEW t \in Tmr,
         NEW delay \in 1..Wrap - 1, \A k \in Spoke : Once(wh[k]) /\ t \notin Entries(wh[k]),
         OS_TmrLink(wh, t, delay)
  PROVE  \E m \in 0..Wrap - 1 : Remain(m) = delay /\ With(wh, t, m)
<1> DEFINE m == (ctr + delay) % Wrap
           h == SpokeOf(m)
           s == wh[h]
           i == CHOOSE i \in 1..Len(s) + 1 :
                  /\ \A j \in 1..i - 1 : Remain(m) > Remain(match[s[j]])
                  /\ i =< Len(s) => Remain(m) =< Remain(match[s[i]])
           r == InsertAt(s, i, t)
           L == [Left EXCEPT ![t] = delay]
<1>1. match' = [match EXCEPT ![t] = m] /\ wheel' = [wh EXCEPT ![h] = r]
  BY DEF OS_TmrLink
<1>2. m \in 0..Wrap - 1 /\ Remain(m) = delay
  <2>1. ctr \in 0..Wrap - 1 /\ delay \in 0..Wrap - 1
    BY DEF TmrTypeOK
  <2> QED BY <2>1, MatchAfter
<1> HIDE DEF m
<1>3. h \in Spoke /\ s \in Seq(Tmr) /\ t \notin Entries(s) /\ Once(s)
  BY <1>2, SpokeIs
<1> HIDE DEF s, h
<1>4. /\ i \in 1..Len(s) + 1
      /\ \A j \in 1..i - 1 : Left[s[j]] < Remain(m)
      /\ i =< Len(s) => Remain(m) =< Left[s[i]]
  BY <1>2, <1>3, PositionIs
<1> HIDE DEF i
<1>5. /\ Len(s) \in Nat
      /\ \A j \in 1..Len(s) : /\ s[j] \in Tmr /\ s[j] # t
                              /\ Left[s[j]] \in 0..Wrap - 1 /\ L[s[j]] = Left[s[j]]
      /\ L[t] = delay
  <2>1. Len(s) \in Nat /\ \A j \in 1..Len(s) : s[j] \in Tmr /\ s[j] \in Entries(s)
    BY <1>3, LenProperties, ElementOfSeq DEF Entries
  <2>2. \A u \in Tmr : L[u] = IF u = t THEN delay ELSE Left[u]
    BY DEF Left
  <2> QED BY <1>3, <2>1, <2>2, LeftIs
<1> HIDE DEF L
<1>6. /\ r \in Seq(Tmr) /\ Once(r) /\ Entries(r) = Entries(s) \cup {t}
      /\ i # 1 => r # << >> /\ r[1] = s[1]
      /\ /\ Sorted(s, L)
         /\ \A j \in 1..i - 1 : L[s[j]] =< L[t]
         /\ \A j \in i..Len(s) : L[t] =< L[s[j]]
         => Sorted(r, L)
  BY <1>3, <1>4, InsertAtIs
<1> HIDE DEF r
<1>7. Wrap \in Nat /\ delay \in Nat
  BY DEF TmrAssumption
<1>8. ASSUME Sorted(s, Left) PROVE Sorted(r, L)
  <2>1. Sorted(s, L)
    BY <1>5, <1>8 DEF Sorted
  <2>2. ASSUME NEW j \in 1..i - 1 PROVE L[s[j]] =< L[t]
    <3>1. j \in 1..Len(s)
      BY <1>4, <1>5
    <3> QED BY <1>2, <1>4, <1>5, <1>7, <3>1
  <2>3. ASSUME NEW j \in i..Len(s) PROVE L[t] =< L[s[j]]
    <3>1. i \in 1..Len(s) /\ j \in 1..Len(s) /\ i =< Len(s) /\ (i < j \/ i = j)
      BY <1>4, <1>5
    <3>2. Left[s[i]] =< Left[s[j]]
      BY <1>5, <1>7, <1>8, <3>1 DEF Sorted
    <3> QED BY <1>2, <1>4, <1>5, <1>7, <3>1, <3>2
  <2> QED BY <1>6, <2>1, <2>2, <2>3
<1>9. s # << >> /\ Left[s[1]] < delay => r # << >> /\ r[1] = s[1]
  <2> SUFFICES ASSUME s # << >>, Left[s[1]] < delay PROVE i # 1
    BY <1>6
  <2>1. 1 =< Len(s) /\ 1 \in 1..Len(s)
    BY <1>3, <1>5, EmptySeq
  <2> QED BY <1>2, <1>4, <1>5, <1>7, <2>1
<1>10. wheel' \in [Spoke -> Seq(Tmr)] /\ wheel'[h] = r /\ \A k \in Spoke : k # h => wheel'[k] = wh[k]
  BY <1>1, <1>3, <1>6
<1>11. ASSUME NEW k \in Spoke
       PROVE  /\ Once(wheel'[k])
              /\ Entries(wheel'[k]) = IF k = SpokeOf(m) THEN Entries(wh[k]) \cup {t}
                                                       ELSE Entries(wh[k])
              /\ Sorted(wh[k], Left) => Sorted(wheel'[k], L)
              /\ wh[k] # << >> /\ Left[wh[k][1]] < delay =>
                   wheel'[k] # << >> /\ wheel'[k][1] = wh[k][1]
  <2>1. CASE k = h
    <3>1. wheel'[k] = r /\ wh[k] = s /\ k = SpokeOf(m)
      BY <1>10, <2>1 DEF s, h
    <3> QED BY <1>6, <1>8, <1>9, <3>1
  <2>2. CASE k # h
    <3>1. wheel'[k] = wh[k] /\ k # SpokeOf(m)
      BY <1>10, <2>2 DEF h
    <3>2. Once(wh[k]) /\ t \notin Entries(wh[k]) /\ wh[k] \in Seq(Tmr)
      OBVIOUS
    <3>3. Sorted(wh[k], Left) => Sorted(wh[k], L)
      <4>1. \A x \in Entries(wh[k]) : Left[x] = L[x]
        <5>1. Entries(wh[k]) \subseteq Tmr
          BY <3>2, ElementOfSeq DEF Entries
        <5> QED BY <3>2, <5>1 DEF L, Left
      <4> QED BY <4>1, SortedSame
    <3> QED BY <3>1, <3>2, <3>3
  <2> QED BY <2>1, <2>2
<1>12. \A k \in Spoke :
         /\ Once(wheel'[k])
         /\ Entries(wheel'[k]) = IF k = SpokeOf(m) THEN Entries(wh[k]) \cup {t}
                                                 ELSE Entries(wh[k])
         /\ Sorted(wh[k], Left) => Sorted(wheel'[k], L)
         /\ wh[k] # << >> /\ Left[wh[k][1]] < delay =>
              wheel'[k] # << >> /\ wheel'[k][1] = wh[k][1]
  BY <1>11
<1>13. wheel' \in [Spoke -> Seq(Tmr)]
  BY <1>10
<1>14. L = [Left EXCEPT ![t] = Remain(m)]
  BY <1>2 DEF L
<1>15. With(wh, t, m)
  BY <1>1, <1>2, <1>12, <1>13, <1>14 DEF With
<1> QED BY <1>2, <1>15

-----------------------------------------------------------------------------
(* The time left of each timer, as AbsTmr sees it.                         *)
Remaining == [t \in Tmr |-> IF st[t] = "RUNNING" THEN Left[t] ELSE -1]

(* What every step that starts or ends timer t keeps; v is what it leaves  *)
(* of t's time.                                                            *)
Moved(t, v) ==
  /\ wheel' \in [Spoke -> Seq(Tmr)]
  /\ st' \in [Tmr -> {"UNUSED", "STOPPED", "RUNNING", "COMPLETED"}]
  /\ match' \in [Tmr -> 0..Wrap - 1]
  /\ SpokesHold'
  /\ \A u \in Tmr : u # t => st'[u] = st[u] /\ match'[u] = match[u]
  /\ (\A k \in Spoke : Sorted(wheel[k], Left)) => \A k \in Spoke : Sorted(wheel'[k], Left')
  /\ \A k \in Spoke : wheel[k] # << >> /\ wheel[k][1] # t /\ Left[wheel[k][1]] = 0 =>
       wheel'[k] # << >> /\ wheel'[k][1] = wheel[k][1]
  /\ \A k \in Spoke : Len(wheel[k]) > 1 /\ wheel[k][1] = t /\ Left[wheel[k][2]] = 0 =>
       wheel'[k] # << >> /\ wheel'[k][1] = wheel[k][2]
  /\ ~Due(t)'
  /\ Remaining' = [Remaining EXCEPT ![t] = v]

LEMMA LeftAfter ==
  ASSUME TmrTypeOK, NEW t \in Tmr, NEW m, match' = [match EXCEPT ![t] = m], ctr' = ctr
  PROVE  Left' = [Left EXCEPT ![t] = Remain(m)]
<1> DEFINE g == [u \in Tmr |-> IF u = t THEN Remain(m) ELSE Remain(match[u])]
<1>1. \A u \in Tmr : match'[u] = IF u = t THEN m ELSE match[u]
  BY DEF TmrTypeOK
<1>2. Left' = [u \in Tmr |-> (match'[u] - ctr) % Wrap]
  BY DEF Left, Remain
<1>3. Left' = g
  BY <1>1, <1>2 DEF Remain
<1>4. [Left EXCEPT ![t] = Remain(m)] = g
  BY DEF Left
<1> QED BY <1>3, <1>4

(* What is in a spoke when it held the running timers.                     *)
LEMMA EntriesRun ==
  ASSUME TmrAssumption, TmrTypeOK, SpokesHold, NEW k \in Spoke
  PROVE  /\ wheel[k] \in Seq(Tmr) /\ Len(wheel[k]) \in Nat /\ (Len(wheel[k]) = 0 <=> wheel[k] = << >>)
         /\ \A i \in 1..Len(wheel[k]) : wheel[k][i] \in InSpoke(k)
         /\ \A t \in InSpoke(k) : \E i \in 1..Len(wheel[k]) : wheel[k][i] = t
<1>1. wheel[k] \in Seq(Tmr)
  BY DEF TmrTypeOK
<1>2. Len(wheel[k]) \in Nat /\ (Len(wheel[k]) = 0 <=> wheel[k] = << >>)
  BY <1>1, LenProperties, EmptySeq
<1>3. Entries(wheel[k]) = InSpoke(k)
  BY DEF SpokesHold
<1> QED BY <1>1, <1>2, <1>3 DEF Entries

(* The wheel without t.                                                    *)
TakenOff(t) == IF st[t] = "RUNNING" THEN OS_TmrUnlink(t) ELSE wheel

LEMMA TakenOffIs ==
  ASSUME TmrAssumption, TmrTypeOK, SpokesHold, NEW t \in Tmr, NEW p
  PROVE  Without(TakenOff(t), t, p)
<1>1. CASE st[t] = "RUNNING"
  BY <1>1, UnlinkIs DEF TakenOff
<1>2. CASE st[t] # "RUNNING"
  <2>1. \A k \in Spoke : t \notin InSpoke(k)
    BY <1>2 DEF InSpoke
  <2>2. \A k \in Spoke : /\ Once(wheel[k]) /\ Entries(wheel[k]) = Entries(wheel[k]) \ {t}
                         /\ ~(Len(wheel[k]) > 1 /\ wheel[k][1] = t)
    <3> SUFFICES ASSUME NEW k \in Spoke
                 PROVE  /\ Once(wheel[k]) /\ Entries(wheel[k]) = Entries(wheel[k]) \ {t}
                        /\ ~(Len(wheel[k]) > 1 /\ wheel[k][1] = t)
      OBVIOUS
    <3>1. Once(wheel[k]) /\ Entries(wheel[k]) = Entries(wheel[k]) \ {t}
      BY <2>1 DEF SpokesHold
    <3>2. ~(Len(wheel[k]) > 1 /\ wheel[k][1] = t)
      <4>1. Len(wheel[k]) > 1 => 1 \in 1..Len(wheel[k])
        BY EntriesRun
      <4> QED BY <2>1, <4>1, EntriesRun
    <3> QED BY <3>1, <3>2
  <2>3. wheel \in [Spoke -> Seq(Tmr)] /\ TakenOff(t) = wheel
    BY <1>2 DEF TmrTypeOK, TakenOff
  <2>4. Without(wheel, t, p)
    BY <2>2, <2>3 DEF Without
  <2> QED BY <2>3, <2>4
<1> QED BY <1>1, <1>2

LEMMA OffStep ==
  ASSUME TmrAssumption, TmrTypeOK, SpokesHold, NEW t \in Tmr,
         NEW q \in {"UNUSED", "STOPPED", "COMPLETED"}, NEW m \in 0..Wrap - 1,
         wheel' = IF st[t] = "RUNNING" THEN OS_TmrUnlink(t) ELSE wheel,
         st' = [st EXCEPT ![t] = q], match' = [match EXCEPT ![t] = m], ctr' = ctr
  PROVE  Moved(t, -1)
<1>1. /\ st' \in [Tmr -> {"UNUSED", "STOPPED", "RUNNING", "COMPLETED"}]
      /\ match' \in [Tmr -> 0..Wrap - 1]
      /\ \A u \in Tmr : u # t => st'[u] = st[u] /\ match'[u] = match[u]
      /\ st'[t] = q /\ match'[t] = m /\ st'[t] # "RUNNING"
  BY DEF TmrTypeOK
<1>2. Left' = [Left EXCEPT ![t] = Remain(m)]
  BY LeftAfter
<1>3. \A u \in Tmr : u # t => Left'[u] = Left[u]
  BY <1>2 DEF Left
<1>4. /\ wheel' \in [Spoke -> Seq(Tmr)]
      /\ \A k \in Spoke :
           /\ Once(wheel'[k]) /\ Entries(wheel'[k]) = Entries(wheel[k]) \ {t}
           /\ Sorted(wheel[k], Left) => Sorted(wheel'[k], Left)
           /\ wheel[k] # << >> /\ wheel[k][1] # t => wheel'[k] # << >> /\ wheel'[k][1] = wheel[k][1]
           /\ Len(wheel[k]) > 1 /\ wheel[k][1] = t => wheel'[k] # << >> /\ wheel'[k][1] = wheel[k][2]
  <2>1. wheel' = TakenOff(t)
    BY DEF TakenOff
  <2>2. Without(wheel', t, Left)
    BY <2>1, TakenOffIs
  <2> QED BY <2>2 DEF Without
<1>5. SpokesHold'
  <2> SUFFICES ASSUME NEW k \in Spoke PROVE Once(wheel'[k]) /\ Entries(wheel'[k]) = InSpoke(k)'
    BY DEF SpokesHold, Spoke
  <2>1. InSpoke(k)' = InSpoke(k) \ {t}
    BY <1>1 DEF InSpoke, SpokeOf
  <2>2. Entries(wheel[k]) = InSpoke(k)
    BY DEF SpokesHold
  <2> QED BY <1>4, <2>1, <2>2
<1>6. ASSUME NEW k \in Spoke, Sorted(wheel[k], Left) PROVE Sorted(wheel'[k], Left')
  <2>1. Sorted(wheel'[k], Left)
    BY <1>4, <1>6
  <2>2. \A x \in Entries(wheel'[k]) : Left[x] = Left'[x]
    <3>1. Entries(wheel[k]) = InSpoke(k)
      BY DEF SpokesHold
    <3>2. Entries(wheel'[k]) = InSpoke(k) \ {t} /\ InSpoke(k) \subseteq Tmr
      BY <1>4, <3>1 DEF InSpoke
    <3> QED BY <1>3, <3>2
  <2> QED BY <2>1, <2>2, SortedSame
<1>7. ~Due(t)'
  BY <1>1 DEF Due
<1>8. Remaining' = [Remaining EXCEPT ![t] = -1]
  <2>1. Remaining' = [u \in Tmr |-> IF st'[u] = "RUNNING" THEN Left'[u] ELSE -1]
    BY DEF Remaining
  <2>2. \A u \in Tmr : Remaining'[u] = IF u = t THEN -1 ELSE Remaining[u]
    BY <1>1, <1>3, <2>1 DEF Remaining
  <2> QED BY <2>1, <2>2 DEF Remaining
<1> QED BY <1>1, <1>4, <1>5, <1>6, <1>7, <1>8 DEF Moved

LEMMA OnStep ==
  ASSUME TmrAssumption, TmrTypeOK, SpokesHold, NEW t \in Tmr, NEW delay \in 1..Wrap - 1,
         OS_TmrLink(IF st[t] = "RUNNING" THEN OS_TmrUnlink(t) ELSE wheel, t, delay),
         st' = [st EXCEPT ![t] = "RUNNING"], ctr' = ctr
  PROVE  Moved(t, delay)
<1> DEFINE wh == TakenOff(t)
           L == [Left EXCEPT ![t] = delay]
<1>1. /\ wh \in [Spoke -> Seq(Tmr)]
      /\ \A k \in Spoke :
           /\ Once(wh[k]) /\ Entries(wh[k]) = Entries(wheel[k]) \ {t}
           /\ Sorted(wheel[k], Left) => Sorted(wh[k], Left)
           /\ wheel[k] # << >> /\ wheel[k][1] # t => wh[k] # << >> /\ wh[k][1] = wheel[k][1]
           /\ Len(wheel[k]) > 1 /\ wheel[k][1] = t => wh[k] # << >> /\ wh[k][1] = wheel[k][2]
  <2>1. Without(wh, t, Left)
    BY TakenOffIs
  <2> HIDE DEF wh
  <2> QED BY <2>1 DEF Without
<1>2. OS_TmrLink(wh, t, delay)
  BY DEF TakenOff
<1> HIDE DEF wh
<1>3. PICK m \in 0..Wrap - 1 : Remain(m) = delay /\ With(wh, t, m)
  <2>1. \A k \in Spoke : Once(wh[k]) /\ t \notin Entries(wh[k])
    BY <1>1
  <2> QED BY <1>1, <1>2, <2>1, LinkIs
<1>4. /\ match' = [match EXCEPT ![t] = m] /\ wheel' \in [Spoke -> Seq(Tmr)]
      /\ \A k \in Spoke :
           /\ Once(wheel'[k])
           /\ Entries(wheel'[k]) = IF k = SpokeOf(m) THEN Entries(wh[k]) \cup {t} ELSE Entries(wh[k])
           /\ Sorted(wh[k], Left) => Sorted(wheel'[k], L)
           /\ wh[k] # << >> /\ Left[wh[k][1]] < delay =>
                wheel'[k] # << >> /\ wheel'[k][1] = wh[k][1]
  BY <1>3 DEF With
<1> HIDE DEF L
<1>5. /\ st' \in [Tmr -> {"UNUSED", "STOPPED", "RUNNING", "COMPLETED"}]
      /\ match' \in [Tmr -> 0..Wrap - 1]
      /\ \A u \in Tmr : u # t => st'[u] = st[u] /\ match'[u] = match[u]
      /\ st'[t] = "RUNNING" /\ match'[t] = m
  BY <1>4 DEF TmrTypeOK
<1>6. Left' = L
  <2>1. Left' = [Left EXCEPT ![t] = Remain(m)]
    BY <1>4, LeftAfter
  <2> QED BY <1>3, <2>1 DEF L
<1>7. SpokesHold'
  <2> SUFFICES ASSUME NEW k \in Spoke PROVE Once(wheel'[k]) /\ Entries(wheel'[k]) = InSpoke(k)'
    BY DEF SpokesHold, Spoke
  <2>1. InSpoke(k)' = IF k = SpokeOf(m) THEN (InSpoke(k) \ {t}) \cup {t} ELSE InSpoke(k) \ {t}
    BY <1>5 DEF InSpoke, SpokeOf
  <2>2. Entries(wheel[k]) = InSpoke(k)
    BY DEF SpokesHold
  <2> QED BY <1>1, <1>4, <2>1, <2>2
<1>8. ASSUME NEW k \in Spoke, Sorted(wheel[k], Left) PROVE Sorted(wheel'[k], Left')
  BY <1>1, <1>4, <1>6, <1>8
<1>9. delay > 0 /\ Remain(m) # 0
  <2>1. Wrap \in Nat
    BY DEF TmrAssumption
  <2> QED BY <1>3, <2>1
<1>10. ~Due(t)'
  <2>1. match'[t] # ctr
    <3>1. ctr \in 0..Wrap - 1
      BY DEF TmrTypeOK
    <3> QED BY <1>5, <1>9, <3>1, RemainIs
  <2> QED BY <2>1 DEF Due
<1>11. Remaining' = [Remaining EXCEPT ![t] = delay]
  <2>1. Remaining' = [u \in Tmr |-> IF st'[u] = "RUNNING" THEN Left'[u] ELSE -1]
    BY DEF Remaining
  <2>2. \A u \in Tmr : Left'[u] = IF u = t THEN delay ELSE Left[u]
    BY <1>6 DEF L, Left
  <2>3. \A u \in Tmr : Remaining'[u] = IF u = t THEN delay ELSE Remaining[u]
    BY <1>5, <2>1, <2>2 DEF Remaining
  <2> QED BY <2>1, <2>3 DEF Remaining
<1>12. ASSUME NEW k \in Spoke, wheel[k] # << >>, wheel[k][1] # t, Left[wheel[k][1]] = 0
       PROVE  wheel'[k] # << >> /\ wheel'[k][1] = wheel[k][1]
  <2>1. wh[k] # << >> /\ wh[k][1] = wheel[k][1]
    BY <1>1, <1>12
  <2> QED BY <1>4, <1>9, <1>12, <2>1
<1>13. ASSUME NEW k \in Spoke, Len(wheel[k]) > 1, wheel[k][1] = t, Left[wheel[k][2]] = 0
       PROVE  wheel'[k] # << >> /\ wheel'[k][1] = wheel[k][2]
  <2>1. wh[k] # << >> /\ wh[k][1] = wheel[k][2]
    BY <1>1, <1>13
  <2> QED BY <1>4, <1>9, <1>13, <2>1
<1>14. wheel' \in [Spoke -> Seq(Tmr)]
  BY <1>4
<1> QED BY <1>5, <1>7, <1>8, <1>10, <1>11, <1>12, <1>13, <1>14 DEF Moved

-----------------------------------------------------------------------------
(* While a timer is due the task looks next at the head of the spoke, and  *)
(* that timer is due too.                                                  *)
LEMMA HeadDue ==
  ASSUME TmrAssumption, TInv, HeadIsNext, NEW u \in Tmr, Due(u)
  PROVE  LET k == SpokeOf(ctr)
         IN  /\ k \in Spoke /\ wheel[k] # << >> /\ wheel[k][1] \in InSpoke(k)
             /\ task.p_tmr = wheel[k][1] /\ task.p_tmr # NoTmr
             /\ Left[wheel[k][1]] = 0 /\ match[wheel[k][1]] = ctr
<1> DEFINE k == SpokeOf(ctr)
           s == wheel[k]
<1>1. TmrTypeOK /\ SpokesHold
  BY DEF TInv
<1>2. k \in Spoke /\ u \in InSpoke(k) /\ Left[u] = 0
  <2>1. match[u] = ctr /\ st[u] = "RUNNING"
    BY DEF Due
  <2> QED BY <1>1, <2>1, LeftIs DEF InSpoke
<1> HIDE DEF k
<1>3. PICK i \in 1..Len(s) : s[i] = u
  BY <1>1, <1>2, EntriesRun
<1>4. Len(s) \in Nat /\ s # << >> /\ 1 \in 1..Len(s) /\ (1 < i \/ 1 = i) /\ s[1] \in InSpoke(k)
  <2>1. Len(s) \in Nat /\ (Len(s) = 0 <=> s = << >>) /\ \A j \in 1..Len(s) : s[j] \in InSpoke(k)
    BY <1>1, <1>2, EntriesRun
  <2> QED BY <2>1
<1>5. s[1] \in Tmr
  BY <1>4 DEF InSpoke
<1>6. Sorted(s, Left)
  BY <1>2 DEF HeadIsNext
<1>7. Left[s[1]] =< Left[u]
  <2>1. CASE 1 < i
    BY <1>3, <1>4, <1>6, <2>1 DEF Sorted
  <2>2. CASE 1 = i
    <3>1. Left[s[1]] \in Int /\ Left[s[1]] = Left[u]
      BY <1>1, <1>2, <1>3, <2>2
    <3> QED BY <3>1
  <2> QED BY <1>4, <2>1, <2>2
<1>8. Left[s[1]] = 0 /\ match[s[1]] = ctr
  <2>1. Left[s[1]] \in 0..Wrap - 1 /\ (Left[s[1]] = 0 <=> match[s[1]] = ctr)
    BY <1>1, <1>5, LeftIs
  <2>2. Left[s[1]] = 0
    BY <1>2, <1>7, <2>1
  <2> QED BY <2>1, <2>2
<1>9. task.p_tmr = s[1]
  BY DEF HeadIsNext, k
<1>10. task.p_tmr # NoTmr
  BY <1>5, <1>9 DEF TmrAssumption
<1> QED BY <1>2, <1>4, <1>8, <1>9, <1>10 DEF k

(* A service, called by a task or by a callback.                           *)
LEMMA CallKeeps ==
  ASSUME TmrAssumption, TInv, NEW t \in Tmr, MayCall(t), NEW v, Moved(t, v),
         ctr' = ctr, task' = task
  PROVE  WalkHolds'
<1> DEFINE k == SpokeOf(ctr)
<1>1. TmrTypeOK /\ SpokesHold /\ WalkHolds
  BY DEF TInv
<1>2. /\ task'.at = "wait" => task'.p_tmr = NoTmr
      /\ task'.at = "callback" => task'.own # task'.p_tmr
  BY <1>1 DEF WalkHolds
<1>3. ASSUME Careful PROVE HeadIsNext'
  <2>1. HeadIsNext
    BY <1>1, <1>3 DEF WalkHolds
  <2>2. task'.at # "fault"
    BY <2>1 DEF HeadIsNext
  <2>3. \A h \in Spoke : Sorted(wheel'[h], Left')
    BY <2>1 DEF HeadIsNext, Moved
  <2>4. k \in Spoke
    <3>1. ctr \in 0..Wrap - 1
      BY <1>1 DEF TmrTypeOK
    <3> QED BY <3>1, SpokeIs
  <2>5. task.p_tmr # NoTmr => task.p_tmr # t /\ task.p_tmr \in InSpoke(k)
    <3> SUFFICES ASSUME task.p_tmr # NoTmr PROVE task.p_tmr # t /\ task.p_tmr \in InSpoke(k)
      OBVIOUS
    <3>1. task.p_tmr \in InSpoke(k)
      BY <2>1 DEF HeadIsNext
    <3>2. task.at = "callback" /\ task.own # task.p_tmr
      BY <1>1 DEF MayCall, WalkHolds
    <3>3. t = task.own \/ t \notin Range(wheel[k])
      BY <1>3, <3>2 DEF MayCall
    <3>4. task.p_tmr \in Range(wheel[k])
      <4>0. \A u \in InSpoke(k) : \E i \in 1..Len(wheel[k]) : wheel[k][i] = u
        BY <1>1, <2>4, EntriesRun
      <4>1. \E i \in 1..Len(wheel[k]) : wheel[k][i] = task.p_tmr
        BY <3>1, <4>0
      <4>2. DOMAIN wheel[k] = 1..Len(wheel[k])
        BY <1>1, <2>4, EntriesRun, LenProperties
      <4> QED BY <4>1, <4>2 DEF Range
    <3> QED BY <3>1, <3>2, <3>3, <3>4
  <2>6. task'.p_tmr # NoTmr => task'.p_tmr \in InSpoke(SpokeOf(ctr))'
    BY <2>5 DEF InSpoke, Moved, SpokeOf
  <2>7. ASSUME NEW u \in Tmr, Due(u)' PROVE task'.p_tmr = wheel'[SpokeOf(ctr')][1]
    <3>1. u # t /\ Due(u)
      BY <2>7 DEF Moved, Due
    <3>2. /\ wheel[k] # << >> /\ task.p_tmr = wheel[k][1] /\ task.p_tmr # NoTmr
          /\ Left[wheel[k][1]] = 0
      BY <2>1, <3>1, HeadDue
    <3>3. wheel[k][1] # t
      BY <2>5, <3>2
    <3>4. wheel'[k][1] = wheel[k][1]
      BY <2>4, <3>2, <3>3 DEF Moved
    <3> QED BY <3>2, <3>4 DEF SpokeOf
  <2> QED BY <2>2, <2>3, <2>6, <2>7 DEF HeadIsNext, Spoke
<1> QED BY <1>2, <1>3 DEF WalkHolds

(* The timer that comes after one in its spoke.                            *)
LEMMA NextIs ==
  ASSUME TmrAssumption, TmrTypeOK, SpokesHold, NEW t \in Tmr, NEW k \in Spoke,
         k = SpokeOf(match[t]), t \in InSpoke(k)
  PROVE  /\ NextPtr(t) \in Tmr \cup {NoTmr} /\ NextPtr(t) # t
         /\ NextPtr(t) # NoTmr => NextPtr(t) \in InSpoke(k)
         /\ wheel[k][1] = t => NextPtr(t) = IF Len(wheel[k]) > 1 THEN wheel[k][2] ELSE NoTmr
<1> DEFINE s == wheel[k]
           i == Place(s, t)
<1>1. /\ s \in Seq(Tmr) /\ Len(s) \in Nat /\ \A j \in 1..Len(s) : s[j] \in InSpoke(k)
      /\ t \in Entries(s) /\ Once(s)
  BY EntriesRun DEF SpokesHold
<1> HIDE DEF s
<1>2. i \in 1..Len(s) /\ s[i] = t
  BY <1>1, PlaceIs
<1>3. NextPtr(t) = IF i < Len(s) THEN s[i + 1] ELSE NoTmr
  BY DEF NextPtr, s
<1> HIDE DEF i
<1>4. i < Len(s) => i + 1 \in 1..Len(s) /\ i + 1 # i
  BY <1>1, <1>2
<1>5. i < Len(s) => s[i + 1] \in InSpoke(k) /\ s[i + 1] # t
  BY <1>1, <1>2, <1>4 DEF Once
<1>6. NoTmr \notin Tmr /\ InSpoke(k) \subseteq Tmr
  BY DEF TmrAssumption, InSpoke
<1>7. s[1] = t => i = 1
  <2>1. 1 \in 1..Len(s)
    BY <1>1, <1>2
  <2> QED BY <1>1, <1>2, <2>1 DEF Once
<1>8. ASSUME s[1] = t PROVE NextPtr(t) = IF Len(s) > 1 THEN s[2] ELSE NoTmr
  <2>1. i = 1 /\ i + 1 = 2 /\ (i < Len(s) <=> Len(s) > 1)
    BY <1>1, <1>7, <1>8
  <2> QED BY <1>3, <2>1
<1> QED BY <1>3, <1>5, <1>6, <1>8 DEF s

(* A due timer expires: its callback begins, and the task looks next at    *)
(* the timer after it.                                                     *)
LEMMA ExpireKeeps ==
  ASSUME TmrAssumption, TInv, NEW t \in Tmr, t = task.p_tmr, match[t] = ctr,
         t \in InSpoke(SpokeOf(ctr)), NEW v, Moved(t, v), ctr' = ctr,
         task' = [at |-> "callback", own |-> t, p_tmr |-> NextPtr(t)]
  PROVE  WalkHolds'
<1> DEFINE k == SpokeOf(ctr)
           s == wheel[k]
           n == NextPtr(t)
<1>1. TmrTypeOK /\ SpokesHold /\ WalkHolds
  BY DEF TInv
<1>2. k \in Spoke
  BY <1>1, LeftIs
<1>3. /\ n # t /\ (n # NoTmr => n \in InSpoke(k))
      /\ s[1] = t => n = IF Len(s) > 1 THEN s[2] ELSE NoTmr
  BY <1>1, <1>2, NextIs
<1>4. task'.at = "callback" /\ task'.own = t /\ task'.p_tmr = n
  OBVIOUS
<1> HIDE DEF n
<1>5. ASSUME Careful PROVE HeadIsNext'
  <2>1. HeadIsNext
    BY <1>1, <1>5 DEF WalkHolds
  <2>2. \A h \in Spoke : Sorted(wheel'[h], Left')
    BY <2>1 DEF HeadIsNext, Moved
  <2>3. n # NoTmr => n \in InSpoke(SpokeOf(ctr))'
    <3>1. n # NoTmr => st'[n] = st[n] /\ match'[n] = match[n] /\ n \in InSpoke(k)
      BY <1>3 DEF Moved, InSpoke
    <3> QED BY <3>1 DEF InSpoke, SpokeOf
  <2>4. ASSUME NEW u \in Tmr, Due(u)' PROVE n = wheel'[SpokeOf(ctr')][1]
    <3>1. u # t /\ Due(u)
      BY <2>4 DEF Moved, Due
    <3>2. s[1] = t
      BY <2>1, <3>1, HeadDue
    <3>3. u \in InSpoke(k) /\ Left[u] = 0
      BY <1>1, <3>1, LeftIs DEF Due, InSpoke
    <3>4. /\ Len(s) \in Nat /\ \A j \in 1..Len(s) : s[j] \in InSpoke(k)
          /\ \E i \in 1..Len(s) : s[i] = u
      BY <1>1, <1>2, <3>3, EntriesRun
    <3>5. PICK i \in 1..Len(s) : s[i] = u
      BY <3>4
    <3> HIDE DEF s
    <3>6. Len(s) > 1 /\ 2 \in 1..Len(s) /\ (2 < i \/ 2 = i)
      BY <3>1, <3>2, <3>4, <3>5
    <3>7. Left[s[2]] \in 0..Wrap - 1
      BY <1>1, <3>4, <3>6, LeftIs DEF InSpoke
    <3>8. Left[s[2]] =< Left[u]
      <4>1. Sorted(s, Left)
        BY <1>2, <2>1 DEF HeadIsNext, s
      <4>2. CASE 2 < i
        BY <3>5, <3>6, <4>1, <4>2 DEF Sorted
      <4>3. CASE 2 = i
        <5>1. Left[s[2]] \in Int /\ Left[s[2]] = Left[u]
          BY <3>5, <3>7, <4>3
        <5> QED BY <5>1
      <4> QED BY <3>6, <4>2, <4>3
    <3>9. Left[s[2]] = 0
      BY <3>3, <3>7, <3>8
    <3>10. wheel'[k][1] = s[2]
      BY <1>2, <3>2, <3>6, <3>9 DEF Moved, s
    <3>11. n = s[2]
      BY <1>3, <3>2, <3>6
    <3> QED BY <3>10, <3>11 DEF SpokeOf
  <2> QED BY <1>4, <2>2, <2>3, <2>4 DEF HeadIsNext, Spoke
<1> QED BY <1>3, <1>4, <1>5 DEF WalkHolds

(* Steps of the timer task that touch no timer.                            *)
LEMMA SameTimers ==
  ASSUME TInv, UNCHANGED <<ctr, tvars>>
  PROVE  SpokesHold' /\ Left' = Left /\ Remaining' = Remaining
         /\ \A k : InSpoke(k)' = InSpoke(k)
<1>1. wheel' = wheel /\ st' = st /\ match' = match /\ ctr' = ctr
  BY DEF tvars
<1>2. Left' = Left
  BY <1>1 DEF Left, Remain
<1>3. Remaining' = Remaining
  BY <1>1, <1>2 DEF Remaining
<1>4. \A k : InSpoke(k)' = InSpoke(k)
  BY <1>1 DEF InSpoke, SpokeOf
<1>5. SpokesHold'
  <2>1. \A k \in Spoke : Once(wheel[k]) /\ Entries(wheel[k]) = InSpoke(k)
    BY DEF TInv, SpokesHold
  <2> QED BY <1>1, <1>4, <2>1 DEF SpokesHold, Spoke
<1> QED BY <1>2, <1>3, <1>4, <1>5

(* Such a step, that sleeps only when no timer is due and keeps to the     *)
(* head otherwise.                                                         *)
LEMMA QuietTmr ==
  ASSUME TmrAssumption, TInv, UNCHANGED <<ctr, tvars>>, TmrTypeOK',
         task'.at = "wait" => task'.p_tmr = NoTmr,
         task'.at = "callback" => task'.own # task'.p_tmr,
         Careful => /\ task'.at # "fault"
                    /\ task'.p_tmr # task.p_tmr =>
                         task'.p_tmr = NoTmr /\ \A t \in Tmr : ~Due(t)
  PROVE  TInv'
<1>1. /\ SpokesHold' /\ Left' = Left /\ \A k : InSpoke(k)' = InSpoke(k)
      /\ wheel' = wheel /\ ctr' = ctr /\ \A t : Due(t)' <=> Due(t)
  BY SameTimers DEF tvars, Due
<1>2. ASSUME Careful PROVE HeadIsNext'
  <2>1. HeadIsNext
    BY <1>2 DEF TInv, WalkHolds
  <2>2. \A k \in Spoke : Sorted(wheel'[k], Left')
    BY <1>1, <2>1 DEF HeadIsNext
  <2>3. task'.p_tmr # NoTmr => task'.p_tmr \in InSpoke(SpokeOf(ctr))'
    BY <1>1, <1>2, <2>1 DEF HeadIsNext, SpokeOf
  <2>4. ASSUME NEW u \in Tmr, Due(u)' PROVE task'.p_tmr = wheel'[SpokeOf(ctr')][1]
    <3>1. Due(u) /\ task'.p_tmr = task.p_tmr
      BY <1>1, <1>2, <2>4
    <3>2. task.p_tmr = wheel[SpokeOf(ctr)][1]
      BY <2>1, <3>1 DEF HeadIsNext
    <3> QED BY <1>1, <3>1, <3>2 DEF SpokeOf
  <2> QED BY <1>2, <2>2, <2>3, <2>4 DEF HeadIsNext, Spoke
<1>3. WalkHolds'
  BY <1>2 DEF WalkHolds
<1> QED BY <1>1, <1>3 DEF TInv

(* Steps of AbsTmr.                                                        *)
Maps == Abs!ANext \/ UNCHANGED Abs!avars

LEMMA AbsLeft ==
  /\ Remaining = [t \in Tmr |-> IF st[t] = "RUNNING" THEN OSTmrRemainGet(t) ELSE -1]
  /\ Remaining' = [t \in Tmr |-> IF st'[t] = "RUNNING" THEN OSTmrRemainGet(t)' ELSE -1]
<1>1. \A t \in Tmr : st[t] = "RUNNING" => OSTmrRemainGet(t) = Left[t]
  BY DEF OSTmrRemainGet, Left
<1>2. \A t \in Tmr : st'[t] = "RUNNING" => OSTmrRemainGet(t)' = Left'[t]
  BY DEF OSTmrRemainGet, Left
<1>3. Remaining' = [t \in Tmr |-> IF st'[t] = "RUNNING" THEN Left'[t] ELSE -1]
  BY DEF Remaining
<1> QED BY <1>1, <1>2, <1>3 DEF Remaining

LEMMA SameMaps == ASSUME Remaining' = Remaining PROVE Maps
<1>1. UNCHANGED Abs!avars
  BY AbsLeft DEF Abs!avars
<1> QED BY <1>1 DEF Maps

LEMMA StartMaps ==
  ASSUME NEW t \in Tmr, Remaining' = [Remaining EXCEPT ![t] = FirstDelay(t)]
  PROVE  Maps
<1>1. Abs!Start(t)
  BY AbsLeft DEF Abs!Start
<1> QED BY <1>1 DEF Maps, Abs!ANext

LEMMA StopMaps ==
  ASSUME NEW t \in Tmr, Remaining' = [Remaining EXCEPT ![t] = -1]
  PROVE  Maps
<1>1. Abs!Stop(t)
  BY AbsLeft DEF Abs!Stop, Abs!Stopped
<1> QED BY <1>1 DEF Maps, Abs!ANext

LEMMA ExpireMaps ==
  ASSUME TmrAssumption, NEW t \in Tmr, Remaining[t] = 0,
         Remaining' = [Remaining EXCEPT ![t] =
                         IF Config[t].opt = "PERIODIC" THEN Config[t].period ELSE -1]
  PROVE  Maps
<1>1. Config[t].opt = "PERIODIC" => Config[t].period > 0
  BY DEF TmrAssumption
<1>2. Abs!Expire(t)
  BY <1>1, AbsLeft DEF Abs!Expire, Abs!Stopped
<1> QED BY <1>2 DEF Maps, Abs!ANext

LEMMA TickMaps ==
  ASSUME \A t \in Tmr : Remaining[t] # 0,
         Remaining' = [t \in Tmr |-> IF Remaining[t] > 0 THEN Remaining[t] - 1 ELSE -1]
  PROVE  Maps
<1>1. Abs!Tick
  BY AbsLeft DEF Abs!Tick, Abs!Stopped
<1> QED BY <1>1 DEF Maps, Abs!ANext

(* The timer task begins a walk: no timer was due, and one unit of time is *)
(* over for each.                                                          *)
LEMMA WalkBegins ==
  ASSUME TmrAssumption, TInv, OS_TmrTask
  PROVE  TInv' /\ (Careful => Maps)
<1> DEFINE k == SpokeOf(ctr')
<1>1. TmrTypeOK /\ SpokesHold /\ WalkHolds
  BY DEF TInv
<1>2. /\ task.at = "wait" /\ owed > 0 /\ owed' = owed - 1 /\ upd' = upd
      /\ ctr' = (ctr + 1) % Wrap
      /\ task' = [at |-> "test", own |-> NoTmr, p_tmr |-> First(wheel[k])]
      /\ wheel' = wheel /\ st' = st /\ match' = match
  BY DEF OS_TmrTask, tvars
<1>3. ctr' \in 0..Wrap - 1 /\ k \in Spoke
  <2>1. Wrap \in Nat \ {0} /\ ctr \in Int
    BY <1>1 DEF TmrAssumption, TmrTypeOK
  <2>2. ctr' \in 0..Wrap - 1
    BY <1>2, <2>1
  <2> QED BY <2>2, SpokeIs
<1>4. First(wheel[k]) \in InSpoke(k) \cup {NoTmr}
  <2>1. wheel[k] # << >> => 1 \in 1..Len(wheel[k])
    BY <1>1, <1>3, EntriesRun
  <2> QED BY <1>1, <1>3, <2>1, EntriesRun DEF First
<1>5. \A h : InSpoke(h)' = InSpoke(h)
  BY <1>2 DEF InSpoke, SpokeOf
<1>6. SpokesHold'
  <2>1. \A h \in Spoke : Once(wheel[h]) /\ Entries(wheel[h]) = InSpoke(h)
    BY <1>1 DEF SpokesHold
  <2> QED BY <1>2, <1>5, <2>1 DEF SpokesHold, Spoke
<1>7. TmrTypeOK'
  <2>1. owed' \in 0..MaxOwed
    BY <1>1, <1>2 DEF TmrTypeOK, TmrAssumption
  <2>2. task' \in [at : {"wait", "test", "callback", "fault"},
                  own : Tmr \cup {NoTmr}, p_tmr : Tmr \cup {NoTmr}]
    BY <1>2, <1>4 DEF InSpoke
  <2> QED BY <1>1, <1>2, <1>3, <2>1, <2>2 DEF TmrTypeOK, Spoke
<1>8. ASSUME HeadIsNext PROVE HeadIsNext' /\ Maps
  <2>1. \A u \in Tmr : ~Due(u)
    BY <1>1, <1>2, <1>8, HeadDue DEF TInv, WalkHolds
  <2>2. \A u \in Tmr : st[u] = "RUNNING" => Left'[u] = Left[u] - 1 /\ Left[u] \in 1..Wrap - 1
    <3> SUFFICES ASSUME NEW u \in Tmr, st[u] = "RUNNING"
                 PROVE  Left'[u] = Left[u] - 1 /\ Left[u] \in 1..Wrap - 1
      OBVIOUS
    <3>1. match[u] # ctr /\ match[u] \in 0..Wrap - 1 /\ ctr \in 0..Wrap - 1
      BY <1>1, <2>1 DEF Due, TmrTypeOK
    <3>2. (match[u] - ctr') % Wrap = Remain(match[u]) - 1
      BY <1>2, <3>1, OneTickOn
    <3>3. Left'[u] = (match'[u] - ctr') % Wrap
      BY DEF Left, Remain
    <3>4. Left[u] = Remain(match[u]) /\ Left[u] \in 0..Wrap - 1 /\ Left[u] # 0
      BY <1>1, <3>1, LeftIs
    <3>5. Wrap \in Nat
      BY DEF TmrAssumption
    <3> QED BY <1>2, <3>2, <3>3, <3>4, <3>5
  <2>3. ASSUME NEW h \in Spoke PROVE Sorted(wheel'[h], Left')
    <3>1. Sorted(wheel[h], Left)
      BY <1>8 DEF HeadIsNext
    <3>2. \A i \in 1..Len(wheel[h]) : wheel[h][i] \in Tmr /\ st[wheel[h][i]] = "RUNNING"
      BY <1>1, EntriesRun DEF InSpoke
    <3> SUFFICES ASSUME NEW i \in 1..Len(wheel[h]), NEW j \in 1..Len(wheel[h]), i < j
                 PROVE  Left'[wheel[h][i]] =< Left'[wheel[h][j]]
      BY <1>2 DEF Sorted
    <3>3. Left[wheel[h][i]] =< Left[wheel[h][j]]
      BY <3>1 DEF Sorted
    <3>4. /\ Left'[wheel[h][i]] = Left[wheel[h][i]] - 1 /\ Left[wheel[h][i]] \in Int
          /\ Left'[wheel[h][j]] = Left[wheel[h][j]] - 1 /\ Left[wheel[h][j]] \in Int
      BY <2>2, <3>2
    <3> QED BY <3>3, <3>4
  <2>4. ASSUME NEW u \in Tmr, Due(u)' PROVE task'.p_tmr = wheel'[SpokeOf(ctr')][1]
    <3>1. u \in InSpoke(k)
      BY <1>2, <2>4 DEF Due, InSpoke
    <3>2. wheel[k] # << >>
      BY <1>1, <1>3, <3>1, EntriesRun
    <3> QED BY <1>2, <3>2 DEF First
  <2>5. task'.p_tmr # NoTmr => task'.p_tmr \in InSpoke(SpokeOf(ctr))'
    <3>1. task'.p_tmr # NoTmr => task'.p_tmr \in InSpoke(k)
      BY <1>2, <1>4
    <3> QED BY <1>2, <3>1 DEF InSpoke, SpokeOf
  <2>6. HeadIsNext'
    BY <1>2, <2>3, <2>4, <2>5 DEF HeadIsNext, Spoke
  <2>7. Remaining' = [t \in Tmr |-> IF st[t] = "RUNNING" THEN Left'[t] ELSE -1]
    BY <1>2 DEF Remaining
  <2>8. \A t \in Tmr : /\ Remaining[t] # 0
                       /\ Remaining'[t] = IF Remaining[t] > 0 THEN Remaining[t] - 1 ELSE -1
    BY <2>2, <2>7 DEF Remaining
  <2>9. Remaining' = [t \in Tmr |-> IF Remaining[t] > 0 THEN Remaining[t] - 1 ELSE -1]
    BY <2>7, <2>8
  <2>10. Maps
    BY <2>8, <2>9, TickMaps
  <2> QED BY <2>6, <2>10
<1>9. WalkHolds'
  BY <1>1, <1>2, <1>8 DEF WalkHolds
<1>10. Careful => Maps
  BY <1>1, <1>8 DEF WalkHolds
<1> QED BY <1>6, <1>7, <1>9, <1>10 DEF TInv

(* What a service keeps, given what it does to the timer.                  *)
LEMMA CallStep ==
  ASSUME TmrAssumption, TInv, NEW t \in Tmr, MayCall(t), NEW v, Moved(t, v),
         UNCHANGED <<ctr, upd, owed, task>>
  PROVE  TInv'
<1>1. WalkHolds'
  BY CallKeeps
<1>2. TmrTypeOK'
  BY DEF TInv, TmrTypeOK, Moved, Spoke
<1> QED BY <1>1, <1>2 DEF TInv, Moved

LEMMA StartStep ==
  ASSUME TmrAssumption, TInv, NEW t \in Tmr, OSTmrStart(t)
  PROVE  TInv' /\ Maps
<1>1. Moved(t, FirstDelay(t))
  <2>1. FirstDelay(t) \in 1..Wrap - 1
    BY DelayIs
  <2> QED BY <2>1, OnStep DEF OSTmrStart, TInv
<1>2. TInv'
  BY <1>1, CallStep DEF OSTmrStart
<1>3. Maps
  BY <1>1, StartMaps DEF Moved
<1> QED BY <1>2, <1>3

LEMMA EndStep ==
  ASSUME TmrAssumption, TInv, NEW t \in Tmr, OSTmrCreate(t) \/ OSTmrStop(t) \/ OSTmrDel(t)
  PROVE  TInv' /\ Maps
<1>1. TmrTypeOK /\ SpokesHold
  BY DEF TInv
<1>2. /\ match[t] \in 0..Wrap - 1 /\ 0 \in 0..Wrap - 1
      /\ match = [match EXCEPT ![t] = match[t]]
  BY <1>1 DEF TmrTypeOK, TmrAssumption
<1>3. MayCall(t) /\ UNCHANGED <<ctr, upd, owed, task>>
  BY DEF OSTmrCreate, OSTmrStop, OSTmrDel
<1>4. Moved(t, -1)
  <2>1. CASE OSTmrCreate(t)
    <3>1. wheel' = IF st[t] = "RUNNING" THEN OS_TmrUnlink(t) ELSE wheel
      BY <2>1 DEF OSTmrCreate
    <3> QED BY <1>1, <1>2, <2>1, <3>1, OffStep DEF OSTmrCreate
  <2>2. CASE OSTmrStop(t)
    <3>1. wheel' = IF st[t] = "RUNNING" THEN OS_TmrUnlink(t) ELSE wheel
      BY <2>2 DEF OSTmrStop
    <3>2. match' = [match EXCEPT ![t] = match[t]]
      BY <1>2, <2>2 DEF OSTmrStop
    <3> QED BY <1>1, <1>2, <2>2, <3>1, <3>2, OffStep DEF OSTmrStop
  <2>3. CASE OSTmrDel(t)
    BY <1>1, <1>2, <2>3, OffStep DEF OSTmrDel
  <2> QED BY <2>1, <2>2, <2>3
<1>5. TInv'
  BY <1>3, <1>4, CallStep
<1>6. Maps
  BY <1>4, StopMaps DEF Moved
<1> QED BY <1>5, <1>6

(* A timer that is not in its spoke is not the next one of a careful       *)
(* application, so that its due timers expire.                             *)
LEMMA ExpireStep ==
  ASSUME TmrAssumption, TInv, OS_TmrTaskExpire
  PROVE  TInv' /\ (Careful => Maps)
<1> DEFINE t == task.p_tmr
           k == SpokeOf(ctr)
<1>1. TmrTypeOK /\ SpokesHold /\ WalkHolds
  BY DEF TInv
<1>2. /\ task.at = "test" /\ t # NoTmr /\ match[t] = ctr /\ UNCHANGED <<ctr, upd, owed>>
      /\ t \in Tmr /\ k = SpokeOf(match[t]) /\ k \in Spoke
  <2>1. task.at = "test" /\ t # NoTmr /\ match[t] = ctr /\ UNCHANGED <<ctr, upd, owed>>
    BY DEF OS_TmrTaskExpire
  <2>2. t \in Tmr
    BY <1>1, <2>1 DEF TmrTypeOK
  <2> QED BY <1>1, <2>1, <2>2, LeftIs
<1>3. Linked(t) <=> t \in InSpoke(k)
  <2>1. DOMAIN wheel[k] = 1..Len(wheel[k])
    BY <1>1, <1>2, EntriesRun, LenProperties
  <2>2. t \in Range(wheel[k]) <=> \E i \in 1..Len(wheel[k]) : wheel[k][i] = t
    BY <2>1 DEF Range
  <2> QED BY <1>1, <1>2, <2>2, EntriesRun DEF Linked
<1>4. CASE ~Linked(t)
  <2>1. task' = [task EXCEPT !.at = "fault"] /\ UNCHANGED tvars
    BY <1>4 DEF OS_TmrTaskExpire
  <2>2. ~Careful
    BY <1>1, <1>2, <1>3, <1>4 DEF WalkHolds, HeadIsNext
  <2>3. TmrTypeOK' /\ task'.at = "fault"
    BY <1>1, <1>2, <2>1 DEF TmrTypeOK, tvars, Spoke
  <2>4. TInv'
    BY <1>2, <2>1, <2>2, <2>3, QuietTmr
  <2> QED BY <2>2, <2>4
<1>5. CASE Linked(t)
  <2>1. t \in InSpoke(k) /\ st[t] = "RUNNING"
    BY <1>3, <1>5 DEF InSpoke
  <2>2. task' = [at |-> "callback", own |-> t, p_tmr |-> NextPtr(t)]
    BY <1>5 DEF OS_TmrTaskExpire
  <2>3. NextPtr(t) \in Tmr \cup {NoTmr}
    BY <1>1, <1>2, <2>1, NextIs
  <2>4. Remaining[t] = 0
    <3>1. Left[t] = 0
      BY <1>1, <1>2, LeftIs
    <3> QED BY <1>2, <2>1, <3>1 DEF Remaining
  <2>5. Moved(t, IF Config[t].opt = "PERIODIC" THEN Config[t].period ELSE -1)
    <3>1. CASE Config[t].opt = "PERIODIC"
      <4>1. /\ OS_TmrLink(OS_TmrUnlink(t), t, Config[t].period)
            /\ st' = [st EXCEPT ![t] = "RUNNING"]
        BY <1>5, <3>1 DEF OS_TmrTaskExpire
      <4>2. Config[t].period \in 1..Wrap - 1
        BY <1>2, <3>1, DelayIs
      <4>3. OS_TmrLink(IF st[t] = "RUNNING" THEN OS_TmrUnlink(t) ELSE wheel, t, Config[t].period)
        BY <2>1, <4>1
      <4>4. Moved(t, Config[t].period)
        BY <1>1, <1>2, <4>1, <4>2, <4>3, OnStep
      <4> QED BY <3>1, <4>4
    <3>2. CASE Config[t].opt # "PERIODIC"
      <4>1. /\ wheel' = OS_TmrUnlink(t) /\ match' = match
            /\ st' = [st EXCEPT ![t] = "COMPLETED"]
        BY <1>5, <3>2 DEF OS_TmrTaskExpire
      <4>2. /\ match[t] \in 0..Wrap - 1 /\ match' = [match EXCEPT ![t] = match[t]]
            /\ wheel' = IF st[t] = "RUNNING" THEN OS_TmrUnlink(t) ELSE wheel
        BY <1>1, <1>2, <2>1, <4>1 DEF TmrTypeOK
      <4>3. Moved(t, -1)
        BY <1>1, <1>2, <4>1, <4>2, OffStep
      <4> QED BY <3>2, <4>3
    <3> QED BY <3>1, <3>2
  <2> HIDE DEF t
  <2>6. WalkHolds'
    BY <1>2, <2>1, <2>2, <2>5, ExpireKeeps DEF t
  <2>7. TmrTypeOK'
    <3>1. task' \in [at : {"wait", "test", "callback", "fault"},
                    own : Tmr \cup {NoTmr}, p_tmr : Tmr \cup {NoTmr}]
      BY <1>2, <2>2, <2>3
    <3> QED BY <1>1, <1>2, <2>5, <3>1 DEF TmrTypeOK, Moved, Spoke
  <2>8. TInv'
    BY <2>5, <2>6, <2>7 DEF TInv, Moved
  <2>9. Maps
    BY <1>2, <2>4, <2>5, ExpireMaps DEF Moved
  <2> QED BY <2>8, <2>9
<1> QED BY <1>4, <1>5

LEMMA TmrNextInv ==
  ASSUME TmrAssumption, TInv, [TmrNext]_tmrvars
  PROVE  TInv' /\ (Careful => Maps)
<1>1. TmrTypeOK /\ WalkHolds
  BY DEF TInv
<1>2. CASE OSTimeTick
  <2>1. UNCHANGED <<ctr, task, tvars>>
    BY <1>2 DEF OSTimeTick
  <2>2. TmrTypeOK'
    <3>1. upd' \in 1..UpdateCnt /\ owed' \in 0..MaxOwed
      BY <1>1, <1>2 DEF OSTimeTick, TmrTypeOK, TmrAssumption
    <3> QED BY <1>1, <2>1, <3>1 DEF TmrTypeOK, tvars, Spoke
  <2>3. TInv'
    BY <1>1, <2>1, <2>2, QuietTmr DEF WalkHolds, HeadIsNext
  <2> QED BY <2>1, <2>3, SameTimers, SameMaps
<1>3. CASE OS_TmrTask
  BY <1>3, WalkBegins
<1>4. CASE OS_TmrTaskDone
  <2>1. /\ task.p_tmr # NoTmr => match[task.p_tmr] # ctr
        /\ task' = Wait /\ UNCHANGED <<ctr, upd, owed, tvars>>
    BY <1>4 DEF OS_TmrTaskDone
  <2>2. TmrTypeOK'
    BY <1>1, <2>1 DEF TmrTypeOK, tvars, Spoke, Wait
  <2>3. Careful => \A u \in Tmr : ~Due(u)
    <3> SUFFICES ASSUME Careful, NEW u \in Tmr, Due(u) PROVE FALSE
      OBVIOUS
    <3>1. HeadIsNext
      BY <1>1 DEF WalkHolds
    <3>2. task.p_tmr # NoTmr /\ match[task.p_tmr] = ctr
      BY <3>1, HeadDue
    <3> QED BY <2>1, <3>2
  <2>4. task'.at = "wait" /\ task'.p_tmr = NoTmr
    BY <2>1 DEF Wait
  <2>5. TInv'
    BY <2>1, <2>2, <2>3, <2>4, QuietTmr
  <2> QED BY <2>1, <2>5, SameTimers, SameMaps
<1>5. CASE OS_TmrTaskExpire
  BY <1>5, ExpireStep
<1>6. CASE CallbackReturns
  <2>1. task' = [task EXCEPT !.at = "test", !.own = NoTmr] /\ UNCHANGED <<ctr, upd, owed, tvars>>
    BY <1>6 DEF CallbackReturns
  <2>2. TmrTypeOK' /\ task'.at = "test" /\ task'.p_tmr = task.p_tmr
    BY <1>1, <2>1 DEF TmrTypeOK, tvars, Spoke
  <2>3. TInv'
    BY <2>1, <2>2, QuietTmr
  <2> QED BY <2>1, <2>3, SameTimers, SameMaps
<1>7. ASSUME NEW t \in Tmr, OSTmrStart(t) PROVE TInv' /\ Maps
  BY <1>7, StartStep
<1>8. ASSUME NEW t \in Tmr, OSTmrCreate(t) \/ OSTmrStop(t) \/ OSTmrDel(t) PROVE TInv' /\ Maps
  BY <1>8, EndStep
<1>9. CASE UNCHANGED tmrvars
  <2>1. UNCHANGED <<ctr, upd, owed, task, tvars>>
    BY <1>9 DEF tmrvars
  <2>2. TmrTypeOK'
    BY <1>1, <2>1 DEF TmrTypeOK, tvars, Spoke
  <2>3. TInv'
    BY <1>1, <2>1, <2>2, QuietTmr DEF WalkHolds, HeadIsNext
  <2> QED BY <2>1, <2>3, SameTimers, SameMaps
<1> QED BY <1>2, <1>3, <1>4, <1>5, <1>6, <1>7, <1>8, <1>9 DEF TmrNext

(* A timer is in the wheel, once and in the spoke of its match time,       *)
(* exactly while its state is running, whatever callbacks do (os_tmr.c).   *)
THEOREM WheelOfRunning == TmrSpec => []RunningIsLinked
<1>1. TInv => RunningIsLinked
  <2> SUFFICES ASSUME TmrAssumption, TInv, NEW t \in Tmr, NEW k \in Spoke
               PROVE  Cardinality({i \in DOMAIN wheel[k] : wheel[k][i] = t}) =
                        IF st[t] = "RUNNING" /\ k = SpokeOf(match[t]) THEN 1 ELSE 0
    BY TmrAssumption DEF RunningIsLinked
  <2> DEFINE s == wheel[k]
             T == {i \in DOMAIN s : s[i] = t}
  <2>1. TmrTypeOK /\ SpokesHold
    BY DEF TInv
  <2>2. /\ DOMAIN s = 1..Len(s) /\ Once(s)
        /\ \A i \in 1..Len(s) : s[i] \in InSpoke(k)
        /\ t \in InSpoke(k) => \E i \in 1..Len(s) : s[i] = t
    BY <2>1, EntriesRun, LenProperties DEF SpokesHold
  <2>3. CASE t \in InSpoke(k)
    <3>1. PICK i \in 1..Len(s) : s[i] = t
      BY <2>2, <2>3
    <3>2. T = {i}
      BY <2>2, <3>1 DEF Once
    <3>3. Cardinality(T) = 1
      BY <3>2, FS_Singleton
    <3> QED BY <2>3, <3>3 DEF InSpoke
  <2>4. CASE t \notin InSpoke(k)
    <3>1. T = {}
      BY <2>2, <2>4
    <3>2. Cardinality(T) = 0
      BY <3>1, FS_EmptySet
    <3> QED BY <2>4, <3>2 DEF InSpoke
  <2> QED BY <2>3, <2>4
<1>2. TmrInit => TInv
  BY TmrAssumption, TmrInitInv
<1>3. TInv /\ [TmrNext]_tmrvars => TInv'
  BY TmrAssumption, TmrNextInv
<1> QED BY <1>1, <1>2, <1>3, PTL DEF TmrSpec

(* Each timer expires exactly when its delay is over, and a periodic one   *)
(* after each period, across the wrap of OSTmrTickCtr: the walk of         *)
(* OS_TmrTask() (os_tmr.c) does what AbsTmr promises, if callbacks keep    *)
(* off the other timers of the spoke that is walked.                       *)
THEOREM TimersEndOnTime == ASSUME Careful PROVE TmrSpec => ExpiresOnTime
<1>1. TmrInit => TInv
  BY TmrAssumption, TmrInitInv
<1>2. TInv /\ [TmrNext]_tmrvars => TInv' /\ Maps
  BY TmrAssumption, TmrNextInv
<1>3. TmrInit => Abs!AInit
  BY DEF TmrInit, Abs!AInit, Abs!Stopped
<1> QED BY <1>1, <1>2, <1>3, PTL DEF TmrSpec, ExpiresOnTime, Abs!ASpec, Maps

-----------------------------------------------------------------------------
(* Milliseconds to ticks.                                                  *)

Divides(r) == \E n \in Nat : n * r = 1000

LEMMA Less == ASSUME NEW r \in Nat \ {0}, NEW a \in Int, NEW b \in Int, a < b
              PROVE  r * a =< r * b - r
<1> DEFINE d == b - 1 - a
<1>1. d \in Nat /\ b = a + d + 1
  OBVIOUS
<1> HIDE DEF d
<1>2. r * d \in Nat
  BY <1>1
<1>3. r * b = r * a + r * d + r
  BY <1>1
<1> QED BY <1>1, <1>2, <1>3

LEMMA Cancel == ASSUME NEW r \in Nat \ {0}, NEW a \in Int, NEW b \in Int, r * a < r * b
              PROVE  a < b
<1> SUFFICES ASSUME ~(a < b) PROVE FALSE
  OBVIOUS
<1> DEFINE d == a - b
<1>1. d \in Nat /\ a = b + d
  OBVIOUS
<1> HIDE DEF d
<1>2. r * d \in Nat
  BY <1>1
<1>3. r * a = r * b + r * d
  BY <1>1
<1>4. r * a \in Int /\ r * b \in Int
  OBVIOUS
<1> QED BY <1>2, <1>3, <1>4

IsDivided(a, b) == a \div b \in Int /\ a % b \in 0..b - 1 /\ a = b * (a \div b) + (a % b)

LEMMA Division == ASSUME NEW a \in Int, NEW b \in Nat \ {0} PROVE IsDivided(a, b)
BY DEF IsDivided

(* The ticks of ms milliseconds.                                           *)
MilliTicks(r, ms) == (r * (ms + 500 \div r)) \div 1000

IsRounded(r, ms) ==
  LET late == 1000 * MilliTicks(r, ms) - r * ms
      lost == 500 % r
  IN  /\ MilliTicks(r, ms) \in Nat
      /\ late \in -499 - lost..500 - lost
      /\ Divides(r) => late \in -500..500

LEMMA Rounded ==
  ASSUME NEW r \in Nat \ {0}, NEW ms \in Nat
  PROVE  IsRounded(r, ms)
<1> DEFINE d == 500 \div r
           a == ms + d
           x == r * a
           q == x \div 1000
           e == 500 % r
           y == x % 1000
<1>1. d \in Nat /\ e \in 0..r - 1 /\ 500 = r * d + e
  <2>1. 500 \in Int /\ r \in Nat \ {0}
    OBVIOUS
  <2>2. IsDivided(500, r)
    BY <2>1, Division
  <2>3. d \in Nat
    OBVIOUS
  <2> QED BY <2>2, <2>3 DEF IsDivided
<1> HIDE DEF d, e
<1>2. a \in Nat /\ x \in Nat /\ x = r * ms + r * d /\ r * ms \in Nat /\ r * d \in Nat
  BY <1>1
<1>3. q \in Nat /\ y \in 0..999 /\ x = 1000 * q + y
  <2>1. x \in Int /\ 1000 \in Nat \ {0} /\ x \in Nat
    BY <1>2
  <2> HIDE DEF x
  <2>2. IsDivided(x, 1000)
    BY <2>1, Division
  <2>3. q \in Nat
    BY <2>1
  <2> QED BY <2>2, <2>3 DEF IsDivided
<1> HIDE DEF q, y
<1>4. 1000 * q - r * ms = 500 - e - y
  BY <1>1, <1>2, <1>3
<1>5. ASSUME Divides(r) PROVE 1000 * q - r * ms \in -500..500
  <2>0. PICK n \in Nat : n * r = 1000
    BY <1>5 DEF Divides
  <2> DEFINE k == a - n * q
  <2>1. k \in Int /\ r * k = y
    <3>1. /\ n * q \in Int /\ r * (a - n * q) = r * a - r * (n * q)
          /\ r * (n * q) = (n * r) * q
      BY <1>2, <1>3
    <3>2. (n * r) * q = 1000 * q
      BY <2>0
    <3> HIDE DEF a
    <3>3. r * k = x - 1000 * q /\ k \in Int
      BY <1>2, <3>1, <3>2
    <3> HIDE DEF k, x
    <3> QED BY <1>3, <3>3
  <2> HIDE DEF k
  <2>2. r * k < r * n
    BY <1>3, <2>0, <2>1
  <2>3. r * k =< 1000 - r
    BY <2>0, <2>1, <2>2, Cancel, Less
  <2> QED BY <1>1, <1>2, <1>3, <1>4, <2>1, <2>3
<1>6. 1000 * q - r * ms \in -499 - e..500 - e
  BY <1>1, <1>2, <1>3, <1>4
<1>7. MilliTicks(r, ms) = q
  BY DEF MilliTicks, q, x, a, d
<1> QED BY <1>3, <1>5, <1>6, <1>7 DEF IsRounded, e

LEMMA DividesMeans == ASSUME NEW r \in Nat \ {0}, 1000 % r = 0 PROVE Divides(r)
<1>1. 1000 \in Int /\ r \in Nat \ {0} /\ 1000 \div r \in Nat
  OBVIOUS
<1>2. IsDivided(1000, r)
  BY <1>1, Division
<1>3. 1000 = (1000 \div r) * r
  <2> DEFINE n == 1000 \div r
  <2>1. n \in Nat /\ 1000 = r * n + (1000 % r)
    BY <1>1, <1>2 DEF IsDivided
  <2> HIDE DEF n
  <2>2. 1000 = n * r
    BY <2>1
  <2> QED BY <2>2 DEF n
<1> QED BY <1>1, <1>3 DEF Divides

LEMMA InRange == ASSUME NEW n \in Nat \ {0}, NEW a \in Nat, a < n PROVE a % n = a
OBVIOUS

(* The arguments of a call, and what it asks for.                          *)
Args(c) ==
  /\ c.rate \in Nat \ {0} /\ c.ms \in Nat
  /\ c.h * 3600 + c.m * 60 + c.s \in Nat

LEMMA NoOverflow ==
  ASSUME NEW c, Args(c), Fits(c)
  PROVE  Ticks(c.rate, c.h, c.m, c.s, c.ms) =
           (c.h * 3600 + c.m * 60 + c.s) * c.rate + MilliTicks(c.rate, c.ms)
<1> DEFINE r == c.rate
           T == c.h * 3600 + c.m * 60 + c.s
           a == c.ms + 500 \div r
           x == r * a
           q == x \div 1000
<1>1. /\ r \in Nat \ {0} /\ T \in Nat /\ a \in Nat /\ TickValues \in Nat \ {0}
      /\ x < TickValues /\ T * r + q < TickValues
  BY HMSMAssumption DEF Args, Fits
<1>2. Ticks(r, c.h, c.m, c.s, c.ms) =
        (((T * r) % TickValues) + ((r * (a % TickValues)) % TickValues) \div 1000) % TickValues
  BY DEF Ticks
<1>3. MilliTicks(r, c.ms) = q
  BY DEF MilliTicks
<1> HIDE DEF r, T, a
<1>4. /\ x \in Nat /\ a =< x /\ T * r \in Nat
  BY <1>1
<1> HIDE DEF x
<1>5. q \in Nat
  BY <1>4
<1> HIDE DEF q
<1>6. /\ (T * r) % TickValues = T * r /\ a % TickValues = a /\ x % TickValues = x
      /\ (T * r + q) % TickValues = T * r + q
  <2>1. T * r + q \in Nat /\ T * r < TickValues /\ a < TickValues
    BY <1>1, <1>4, <1>5
  <2> QED BY <1>1, <1>4, <2>1, InRange
<1>7. Ticks(r, c.h, c.m, c.s, c.ms) = T * r + q
  BY <1>2, <1>6 DEF x, q
<1> QED BY <1>3, <1>7 DEF r, T

LEMMA CallRounds ==
  ASSUME Args(call), ticks = Ticks(call.rate, call.h, call.m, call.s, call.ms)
  PROVE  RoundedDelay
<1> SUFFICES ASSUME Fits(call) PROVE RoundedDelay
  BY DEF RoundedDelay
<1> DEFINE r == call.rate
           T == call.h * 3600 + call.m * 60 + call.s
           q == MilliTicks(r, call.ms)
<1>1. r \in Nat \ {0} /\ T \in Nat /\ call.ms \in Nat
  BY DEF Args
<1>2. ticks = T * r + q
  BY NoOverflow
<1>3. IsRounded(r, call.ms)
  <2> HIDE DEF r
  <2> QED BY <1>1, Rounded
<1>4. 1000 % r = 0 => Divides(r)
  <2> HIDE DEF r
  <2> QED BY <1>1, DividesMeans
<1> HIDE DEF T, q
<1>5. q \in Nat
  BY <1>3 DEF IsRounded, q
<1>6. 1000 * ticks - Asked(call) = 1000 * q - r * call.ms
  <2>1. Asked(call) = r * (T * 1000 + call.ms)
    BY DEF Asked, T
  <2> HIDE DEF r
  <2> DEFINE ms == call.ms
  <2>2. ms \in Nat
    BY <1>1
  <2> HIDE DEF ms
  <2>3. /\ r * (T * 1000 + ms) = r * (T * 1000) + r * ms
        /\ r * (T * 1000) = 1000 * (T * r)
        /\ T * r \in Int /\ r * ms \in Int
    BY <1>1, <2>2
  <2> QED BY <1>2, <1>5, <2>1, <2>3 DEF ms
<1> QED BY <1>3, <1>4, <1>6 DEF IsRounded, RoundedDelay, q

LEMMA StepRounds ==
  ASSUME NEW rate \in Rates, NEW h \in Hours, NEW m \in Minutes,
         NEW s \in Seconds, NEW ms \in Millis, OSTimeDlyHMSM(rate, h, m, s, ms)
  PROVE  RoundedDelay'
<1>1. /\ call' = [rate |-> rate, h |-> h, m |-> m, s |-> s, ms |-> ms]
      /\ ticks' = Ticks(rate, h, m, s, ms)
  BY DEF OSTimeDlyHMSM
<1>2. /\ call'.rate = rate /\ call'.h = h /\ call'.m = m /\ call'.s = s /\ call'.ms = ms
  BY <1>1
<1>3. rate \in Nat \ {0} /\ h \in Nat /\ m \in Nat /\ s \in Nat /\ ms \in Nat
  BY HMSMAssumption
<1>4. Args(call)'
  BY <1>2, <1>3 DEF Args
<1>5. (ticks = Ticks(call.rate, call.h, call.m, call.s, call.ms))'
  BY <1>1, <1>2
<1> QED BY <1>4, <1>5, CallRounds, PTL

(* OSTimeDlyHMSM() at every tick rate and for every time whose computation *)
(* fits OS_TICK: the ticks are those of the time asked for plus half a     *)
(* tick less what 500 / rate loses, rounded down; at a rate that divides   *)
(* 1000, as note 1 of the function says, the nearest tick (os_time.c).     *)
THEOREM DelaysAreRounded == HMSMSpec => []RoundedDelay
<1>1. HMSMInit => RoundedDelay
  <2> SUFFICES ASSUME HMSMInit PROVE RoundedDelay
    OBVIOUS
  <2>1. /\ call.rate \in Rates /\ call.h = 0 /\ call.m = 0 /\ call.s = 0 /\ call.ms = 0
        /\ ticks = 0
    BY HMSMAssumption DEF HMSMInit
  <2>2. call.rate \in Nat \ {0}
    BY <2>1, HMSMAssumption
  <2> DEFINE e == 500 % call.rate
  <2>3. e \in 0..500
    BY <2>2
  <2>4. 1000 * ticks - Asked(call) = 0
    BY <2>1, <2>2 DEF Asked
  <2> HIDE DEF e
  <2>5. 0 \in -499 - e..500 - e
    BY <2>3
  <2> QED BY <2>4, <2>5 DEF RoundedDelay, e
<1>2. RoundedDelay /\ [HMSMNext]_hmsmvars => RoundedDelay'
  <2>1. ASSUME RoundedDelay, UNCHANGED hmsmvars PROVE RoundedDelay'
    <3>1. call' = call /\ ticks' = ticks
      BY <2>1 DEF hmsmvars
    <3> QED BY <2>1, <3>1 DEF RoundedDelay, Fits, Asked
  <2>2. ASSUME HMSMNext PROVE RoundedDelay'
    BY <2>2, StepRounds DEF HMSMNext
  <2> QED BY <2>1, <2>2
<1> QED BY <1>1, <1>2, PTL DEF HMSMSpec
=============================================================================
