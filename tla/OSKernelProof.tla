---------------------------- MODULE OSKernelProof ----------------------------
(***************************************************************************)
(* Lemmas about the lists and the internal functions of OSCore, for the    *)
(* proofs about the kernel and its objects; then the inductive invariant   *)
(* of the kernel, KInv, and the proof that it holds initially and that     *)
(* every step of KNext keeps it; and what the calls of OSCall keep.  The   *)
(* modules about semaphores, mutexes, queues and event flags build on it.  *)
(***************************************************************************)
EXTENDS OSCall, FiniteSetTheorems, SequenceTheorems, WellFoundedInduction, TLAPS

(* The list s holds each member of S once and nothing else.                *)
ListOf(s, S) == s \in Seq(Task) /\ Distinct(s) /\ Range(s) = S

-----------------------------------------------------------------------------
(* Lists.                                                                  *)

(* ListOf position by position.                                            *)
LEMMA ListOfElements ==
  ASSUME NEW S, NEW s \in Seq(Task)
  PROVE  /\ Len(s) \in Nat
         /\ ListOf(s, S) <=> /\ \A j, k \in 1..Len(s) : s[j] = s[k] => j = k
                             /\ \A j \in 1..Len(s) : s[j] \in S
                             /\ \A x \in S : \E j \in 1..Len(s) : s[j] = x
<1>1. Len(s) \in Nat /\ DOMAIN s = 1..Len(s)
  BY LenProperties
<1>2. Distinct(s) <=> \A j, k \in 1..Len(s) : s[j] = s[k] => j = k
  BY <1>1 DEF Distinct
<1>3. Range(s) = {s[j] : j \in 1..Len(s)}
  BY <1>1 DEF Range
<1>4. Range(s) = S <=> /\ \A j \in 1..Len(s) : s[j] \in S
                       /\ \A x \in S : \E j \in 1..Len(s) : s[j] = x
  BY <1>3
<1> QED BY <1>1, <1>2, <1>4 DEF ListOf

(* An empty list, and the head of one that is not.                         *)
LEMMA ListOfEmpty == ListOf(<< >>, {})
  BY DEF ListOf, Distinct, Range

LEMMA ListOfHead ==
  ASSUME NEW S, NEW s, ListOf(s, S), s # << >>
  PROVE  Head(s) \in S /\ Len(s) \in Nat \ {0} /\ Head(s) = s[1]
<1>1. s \in Seq(Task)
  BY DEF ListOf
<1>2. Len(s) \in Nat \ {0} /\ Head(s) = s[1]
  BY <1>1, EmptySeq
<1> QED BY <1>1, <1>2, ListOfElements

(* A list is empty exactly when it holds nothing.                          *)
LEMMA ListOfNone ==
  ASSUME NEW S, NEW s, ListOf(s, S)
  PROVE  s = << >> <=> S = {}
<1>1. CASE s = << >>
  BY <1>1 DEF ListOf, Range
<1>2. CASE s # << >>
  BY <1>2, ListOfHead
<1> QED BY <1>1, <1>2

(* Insertion at the head and at the tail of a list.                        *)
LEMMA ListOfCons ==
  ASSUME NEW S, NEW s, ListOf(s, S), NEW e \in Task \ S
  PROVE  ListOf(<<e>> \o s, S \cup {e})
<1> DEFINE r == <<e>> \o s
<1>1. s \in Seq(Task) /\ Len(s) \in Nat
  BY ListOfElements DEF ListOf
<1>2. r \in Seq(Task) /\ Len(r) = Len(s) + 1
      /\ \A i \in 1..Len(s) + 1 : r[i] = IF i =< 1 THEN e ELSE s[i - 1]
  BY <1>1, ConcatProperties, <<e>> \in Seq(Task)
<1> HIDE DEF r
<1>3. /\ \A j, k \in 1..Len(s) : s[j] = s[k] => j = k
      /\ \A j \in 1..Len(s) : s[j] \in S
      /\ \A x \in S : \E j \in 1..Len(s) : s[j] = x
  BY <1>1, ListOfElements
<1>4. ASSUME NEW j \in 1..Len(r), NEW k \in 1..Len(r), r[j] = r[k]
      PROVE  j = k
  <2>1. \A l \in 2..Len(r) : l - 1 \in 1..Len(s) /\ r[l] = s[l - 1] /\ r[l] # e
    BY <1>1, <1>2, <1>3
  <2>2. r[1] = e
    BY <1>1, <1>2
  <2>3. CASE j = 1 \/ k = 1
    <3>1. \A l \in 1..Len(r) : l # 1 => l \in 2..Len(r)
      BY <1>1, <1>2
    <3>2. \A l \in 1..Len(r) : l # 1 => r[l] # e
      BY <2>1, <3>1
    <3> QED BY <1>4, <2>2, <2>3, <3>2
  <2>4. CASE j # 1 /\ k # 1
    <3>1. j \in 2..Len(r) /\ k \in 2..Len(r)
      BY <1>1, <1>2, <2>4
    <3>2. j - 1 = k - 1
      BY <1>3, <1>4, <2>1, <3>1
    <3> QED BY <1>1, <1>2, <3>2
  <2> QED BY <2>3, <2>4
<1>5. \A j \in 1..Len(r) : r[j] \in S \cup {e}
  BY <1>1, <1>2, <1>3
<1>6. ASSUME NEW x \in S \cup {e} PROVE \E j \in 1..Len(r) : r[j] = x
  <2>1. CASE x = e
    BY <2>1, <1>1, <1>2
  <2>2. CASE x # e
    <3>1. PICK k \in 1..Len(s) : s[k] = x
      BY <2>2, <1>3
    <3>2. k + 1 \in 1..Len(r) /\ r[k + 1] = s[k]
      BY <1>1, <1>2
    <3> QED BY <3>1, <3>2
  <2> QED BY <2>1, <2>2
<1>7. ListOf(r, S \cup {e})
  BY <1>2, <1>4, <1>5, <1>6, ListOfElements
<1> QED BY <1>7 DEF r

LEMMA ListOfAppend ==
  ASSUME NEW S, NEW s, ListOf(s, S), NEW e \in Task \ S
  PROVE  ListOf(Append(s, e), S \cup {e})
<1> DEFINE r == Append(s, e)
<1>1. s \in Seq(Task) /\ Len(s) \in Nat
  BY ListOfElements DEF ListOf
<1>2. r \in Seq(Task) /\ Len(r) = Len(s) + 1 /\ r[Len(s) + 1] = e
      /\ \A i \in 1..Len(s) : r[i] = s[i]
  BY <1>1, AppendProperties
<1> HIDE DEF r
<1>3. /\ \A j, k \in 1..Len(s) : s[j] = s[k] => j = k
      /\ \A j \in 1..Len(s) : s[j] \in S
      /\ \A x \in S : \E j \in 1..Len(s) : s[j] = x
  BY <1>1, ListOfElements
<1>4. \A j, k \in 1..Len(r) : r[j] = r[k] => j = k
  BY <1>1, <1>2, <1>3
<1>5. \A j \in 1..Len(r) : r[j] \in S \cup {e}
  BY <1>1, <1>2, <1>3
<1>6. \A x \in S \cup {e} : \E j \in 1..Len(r) : r[j] = x
  BY <1>1, <1>2, <1>3
<1>7. ListOf(r, S \cup {e})
  BY <1>2, <1>4, <1>5, <1>6, ListOfElements
<1> QED BY <1>7 DEF r

(* RemoveAt and InsertAt of SequencesExt, element by element.              *)
LEMMA RemoveAtElements ==
  ASSUME NEW s \in Seq(Task), NEW i \in 1..Len(s)
  PROVE  /\ RemoveAt(s, i) \in Seq(Task)
         /\ Len(RemoveAt(s, i)) = Len(s) - 1
         /\ \A j \in 1..Len(s) - 1 :
              RemoveAt(s, i)[j] = IF j < i THEN s[j] ELSE s[j + 1]
<1> DEFINE a == SubSeq(s, 1, i - 1)
           b == SubSeq(s, i + 1, Len(s))
<1>1. a \in Seq(Task) /\ Len(a) = i - 1 /\ \A j \in 1..i - 1 : a[j] = s[j]
  OBVIOUS
<1>2. b \in Seq(Task) /\ Len(b) = Len(s) - i
      /\ \A j \in 1..Len(s) - i : b[j] = s[i + j]
  OBVIOUS
<1> HIDE DEF a, b
<1>3. a \o b \in Seq(Task) /\ Len(a \o b) = Len(a) + Len(b)
      /\ \A j \in 1..Len(a) + Len(b) :
           (a \o b)[j] = IF j =< Len(a) THEN a[j] ELSE b[j - Len(a)]
  BY <1>1, <1>2, ConcatProperties
<1>4. RemoveAt(s, i) = a \o b
  BY DEF RemoveAt, a, b
<1>5. Len(a) + Len(b) = Len(s) - 1 /\ Len(s) \in Nat
  BY <1>1, <1>2, LenProperties
<1>6. ASSUME NEW j \in 1..Len(s) - 1
      PROVE  (a \o b)[j] = IF j < i THEN s[j] ELSE s[j + 1]
  <2>1. CASE j < i
    BY <2>1, <1>1, <1>3, <1>5
  <2>2. CASE ~(j < i)
    <3>1. j - Len(a) \in 1..Len(s) - i /\ i + (j - Len(a)) = j + 1
      BY <2>2, <1>1, <1>5
    <3>2. b[j - Len(a)] = s[j + 1]
      BY <3>1, <1>2
    <3> QED BY <3>2, <2>2, <1>1, <1>3, <1>5, SMTT(30)
  <2> QED BY <2>1, <2>2
<1> QED BY <1>3, <1>4, <1>5, <1>6

LEMMA InsertAtElements ==
  ASSUME NEW s \in Seq(Task), NEW e \in Task, NEW i \in 1..Len(s) + 1
  PROVE  /\ InsertAt(s, i, e) \in Seq(Task)
         /\ Len(InsertAt(s, i, e)) = Len(s) + 1
         /\ \A j \in 1..Len(s) + 1 :
              InsertAt(s, i, e)[j] =
                IF j < i THEN s[j] ELSE IF j = i THEN e ELSE s[j - 1]
<1> DEFINE a == SubSeq(s, 1, i - 1)
           b == SubSeq(s, i, Len(s))
           c == a \o <<e>>
<1>0. Len(s) \in Nat
  BY LenProperties
<1>1. a \in Seq(Task) /\ Len(a) = i - 1 /\ \A j \in 1..i - 1 : a[j] = s[j]
  OBVIOUS
<1>2. b \in Seq(Task) /\ Len(b) = Len(s) - i + 1
      /\ \A j \in 1..Len(s) - i + 1 : b[j] = s[i + j - 1]
  OBVIOUS
<1>3. InsertAt(s, i, e) = c \o b
  BY DEF InsertAt
<1> HIDE DEF a, b
<1>4. c \in Seq(Task) /\ Len(c) = i
      /\ \A j \in 1..i : c[j] = IF j < i THEN s[j] ELSE e
  BY <1>0, <1>1
<1> HIDE DEF c
<1>5. c \o b \in Seq(Task) /\ Len(c \o b) = Len(c) + Len(b)
      /\ \A j \in 1..Len(c) + Len(b) :
           (c \o b)[j] = IF j =< Len(c) THEN c[j] ELSE b[j - Len(c)]
  BY <1>2, <1>4, ConcatProperties
<1>6. Len(c) + Len(b) = Len(s) + 1
  BY <1>0, <1>2, <1>4
<1>7. ASSUME NEW j \in 1..Len(s) + 1
      PROVE  (c \o b)[j] = IF j < i THEN s[j] ELSE IF j = i THEN e ELSE s[j - 1]
  <2>1. CASE j =< i
    BY <2>1, <1>0, <1>4, <1>5, <1>6
  <2>2. CASE ~(j =< i)
    <3>1. j - Len(c) \in 1..Len(s) - i + 1 /\ i + (j - Len(c)) - 1 = j - 1
      BY <2>2, <1>0, <1>4
    <3>2. b[j - Len(c)] = s[j - 1]
      BY <3>1, <1>2
    <3> QED BY <3>2, <2>2, <1>0, <1>4, <1>5, <1>6
  <2> QED BY <2>1, <2>2
<1> QED BY <1>3, <1>5, <1>6, <1>7

(* Unlinking an entry, and inserting one anywhere.                         *)
LEMMA ListOfWithout ==
  ASSUME NEW S, NEW s, ListOf(s, S), NEW e \in S
  PROVE  ListOf(Without(s, e), S \ {e}) /\ Len(Without(s, e)) = Len(s) - 1
<1> DEFINE i == CHOOSE k \in DOMAIN s : s[k] = e
           r == RemoveAt(s, i)
<1>1. s \in Seq(Task) /\ DOMAIN s = 1..Len(s) /\ Len(s) \in Nat
  BY LenProperties DEF ListOf
<1>2. /\ \A j, k \in 1..Len(s) : s[j] = s[k] => j = k
      /\ \A j \in 1..Len(s) : s[j] \in S
      /\ \A x \in S : \E j \in 1..Len(s) : s[j] = x
  BY <1>1, ListOfElements
<1>3. i \in 1..Len(s) /\ s[i] = e
  BY <1>1, <1>2
<1>4. Without(s, e) = r
  BY <1>1, <1>2 DEF Without
<1> HIDE DEF i
<1>5. r \in Seq(Task) /\ Len(r) = Len(s) - 1
      /\ \A j \in 1..Len(s) - 1 : r[j] = IF j < i THEN s[j] ELSE s[j + 1]
  BY <1>1, <1>3, RemoveAtElements
<1> HIDE DEF r
<1>6. ASSUME NEW j \in 1..Len(r), NEW k \in 1..Len(r), r[j] = r[k]
      PROVE  j = k
  <2> DEFINE at(x) == IF x < i THEN x ELSE x + 1
  <2>1. i \in Nat /\ Len(s) \in Nat /\ j \in 1..Len(s) - 1 /\ k \in 1..Len(s) - 1
    BY <1>1, <1>3, <1>5
  <2>2. at(j) \in 1..Len(s) /\ at(k) \in 1..Len(s)
    BY <2>1
  <2>3. s[at(j)] = s[at(k)]
    BY <1>5, <1>6, <2>1
  <2>4. at(j) = at(k)
    BY <1>2, <2>2, <2>3
  <2> QED BY <2>1, <2>4
<1>7. \A j \in 1..Len(r) : r[j] \in S \ {e}
  BY <1>1, <1>2, <1>3, <1>5
<1>8. ASSUME NEW x \in S \ {e} PROVE \E j \in 1..Len(r) : r[j] = x
  <2>1. PICK k \in 1..Len(s) : s[k] = x
    BY <1>2
  <2>2. k # i
    BY <2>1, <1>3
  <2>3. CASE k < i
    BY <2>1, <2>3, <1>1, <1>3, <1>5
  <2>4. CASE k > i
    <3>1. k - 1 \in 1..Len(r) /\ r[k - 1] = s[k]
      BY <2>1, <2>4, <1>1, <1>3, <1>5
    <3> QED BY <3>1, <2>1
  <2> QED BY <2>2, <2>3, <2>4, <1>3
<1>9. ListOf(r, S \ {e})
  BY <1>5, <1>6, <1>7, <1>8, ListOfElements
<1> QED BY <1>4, <1>5, <1>9

LEMMA ListOfInsertAt ==
  ASSUME NEW S, NEW s, ListOf(s, S), NEW e \in Task \ S, NEW i \in 1..Len(s) + 1
  PROVE  ListOf(InsertAt(s, i, e), S \cup {e})
<1> DEFINE r == InsertAt(s, i, e)
<1>1. s \in Seq(Task) /\ Len(s) \in Nat
  BY LenProperties DEF ListOf
<1>2. r \in Seq(Task) /\ Len(r) = Len(s) + 1
      /\ \A j \in 1..Len(s) + 1 :
           r[j] = IF j < i THEN s[j] ELSE IF j = i THEN e ELSE s[j - 1]
  BY <1>1, InsertAtElements
<1> HIDE DEF r
<1>3. /\ \A j, k \in 1..Len(s) : s[j] = s[k] => j = k
      /\ \A j \in 1..Len(s) : s[j] \in S
      /\ \A x \in S : \E j \in 1..Len(s) : s[j] = x
  BY <1>1, ListOfElements
<1>4. ASSUME NEW j \in 1..Len(r), NEW k \in 1..Len(r), r[j] = r[k]
      PROVE  j = k
  <2> DEFINE at(l) == IF l < i THEN l ELSE l - 1
  <2>1. \A l \in 1..Len(r) : l # i => at(l) \in 1..Len(s) /\ r[l] = s[at(l)]
    BY <1>1, <1>2
  <2>2. r[i] = e
    BY <1>1, <1>2
  <2>3. CASE j = i \/ k = i
    <3>1. \A l \in 1..Len(r) : l # i => r[l] # e
      BY <1>3, <2>1
    <3> QED BY <1>4, <2>2, <2>3, <3>1
  <2>4. CASE j # i /\ k # i
    <3>1. at(j) = at(k)
      BY <1>3, <1>4, <2>1, <2>4, SMTT(30)
    <3> QED BY <1>1, <1>2, <2>4, <3>1
  <2> QED BY <2>3, <2>4
<1>5. ASSUME NEW j \in 1..Len(r) PROVE r[j] \in S \cup {e}
  <2>1. CASE j = i
    BY <1>1, <1>2, <2>1
  <2>2. CASE j < i
    <3>1. j \in 1..Len(s) /\ r[j] = s[j]
      BY <1>1, <1>2, <2>2
    <3> QED BY <1>3, <3>1
  <2>3. CASE j > i
    <3>1. j - 1 \in 1..Len(s) /\ r[j] = s[j - 1]
      BY <1>1, <1>2, <2>3
    <3> QED BY <1>3, <3>1
  <2> QED BY <1>1, <1>2, <2>1, <2>2, <2>3
<1>6. ASSUME NEW x \in S \cup {e} PROVE \E j \in 1..Len(r) : r[j] = x
  <2>1. CASE x = e
    BY <2>1, <1>1, <1>2
  <2>2. CASE x # e
    <3>1. PICK k \in 1..Len(s) : s[k] = x
      BY <2>2, <1>3
    <3>2. CASE k < i
      BY <3>1, <3>2, <1>1, <1>2
    <3>3. CASE ~(k < i)
      <4>1. k + 1 \in 1..Len(r) /\ r[k + 1] = s[k]
        BY <3>1, <3>3, <1>1, <1>2
      <4> QED BY <4>1, <3>1
    <3> QED BY <3>2, <3>3
  <2> QED BY <2>1, <2>2
<1>7. ListOf(r, S \cup {e})
  BY <1>2, <1>4, <1>5, <1>6, ListOfElements
<1> QED BY <1>7 DEF r

(* Turning a list, its head to its tail, as round robin does.              *)
LEMMA ListOfTurn ==
  ASSUME NEW S, NEW s, ListOf(s, S), Len(s) >= 2
  PROVE  ListOf(Append(Tail(s), Head(s)), S)
<1> DEFINE a == Tail(s)
           h == Head(s)
           r == Append(a, h)
<1>1. s \in Seq(Task) /\ Len(s) \in Nat /\ s # << >>
  BY LenProperties, EmptySeq DEF ListOf
<1>2. a \in Seq(Task) /\ Len(a) = Len(s) - 1 /\ h \in Task
      /\ \A j \in 1..Len(s) - 1 : a[j] = s[j + 1]
  BY <1>1, HeadTailProperties
<1>3. h = s[1]
  BY <1>1
<1> HIDE DEF a, h
<1>4. r \in Seq(Task) /\ Len(r) = Len(s)
      /\ \A j \in 1..Len(s) : r[j] = IF j < Len(s) THEN s[j + 1] ELSE s[1]
  BY <1>1, <1>2, <1>3, AppendProperties
<1> HIDE DEF r
<1>5. /\ \A j, k \in 1..Len(s) : s[j] = s[k] => j = k
      /\ \A j \in 1..Len(s) : s[j] \in S
      /\ \A x \in S : \E j \in 1..Len(s) : s[j] = x
  BY <1>1, ListOfElements
<1>6. ASSUME NEW j \in 1..Len(r), NEW k \in 1..Len(r), r[j] = r[k]
      PROVE  j = k
  BY <1>6, <1>1, <1>4, <1>5
<1>7. \A j \in 1..Len(r) : r[j] \in S
  BY <1>1, <1>4, <1>5
<1>8. ASSUME NEW x \in S PROVE \E j \in 1..Len(r) : r[j] = x
  <2>1. PICK k \in 1..Len(s) : s[k] = x
    BY <1>5
  <2>2. CASE k = 1
    BY <2>1, <2>2, <1>1, <1>4
  <2>3. CASE k # 1
    <3>1. k - 1 \in 1..Len(r) /\ r[k - 1] = s[k]
      BY <2>1, <2>3, <1>1, <1>4
    <3> QED BY <3>1, <2>1
  <2> QED BY <2>2, <2>3
<1>9. ListOf(r, S)
  BY <1>4, <1>6, <1>7, <1>8, ListOfElements
<1> QED BY <1>9 DEF r, a, h

-----------------------------------------------------------------------------
(* The parts of what the tables must satisfy.                              *)

ReadyAt(ks, p) == {t \in Task : ks.state[t] = {} /\ ks.prio[t] = p}

Waiters(ks, o) == {t \in Task : ks.pendObj[t] = o}

TicksAgree(ks) == \A t \in Task : ks.tick[t] > 0 <=> "DLY" \in ks.state[t]

IdleReady(ks) == ks.state[Idle] = {} /\ ks.prio[Idle] = PrioMax

(* The waiters of every object are sorted.                                 *)
Sorted(ks) == \A o \in Obj : SortedByPrio(ks.pend[o], ks.prio)

(* What every kernel function finds and leaves: the tables have their      *)
(* types and agree with each other, the waiters of each object are sorted, *)
(* and the idle task is ready.                                             *)
Good(ks) ==
  /\ ks \in TCBTables
  /\ ReadyAgrees(ks)
  /\ PendAgrees(ks)
  /\ BitsAgree(ks)
  /\ TicksAgree(ks)
  /\ Sorted(ks)
  /\ IdleReady(ks)

LEMMA ReadyAgreesLists ==
  ASSUME NEW ks \in TCBTables
  PROVE  ReadyAgrees(ks) <=> \A p \in Prio : ListOf(ks.rdy[p], ReadyAt(ks, p))
  BY DEF ReadyAgrees, ListOf, ReadyAt, TCBTables

LEMMA PendAgreesLists ==
  ASSUME NEW ks \in TCBTables
  PROVE  PendAgrees(ks) <=>
           /\ \A o \in Obj : ListOf(ks.pend[o], Waiters(ks, o))
           /\ \A t \in Task :
                /\ ks.pendObj[t] # NoObj <=> "PEND" \in ks.state[t]
                /\ ks.pendOn[t] # "NOTHING" <=> "PEND" \in ks.state[t]
  BY DEF PendAgrees, ListOf, Waiters, TCBTables

-----------------------------------------------------------------------------
(* Least elements.                                                         *)

LEMMA Least ==
  ASSUME NEW T \in SUBSET Nat, T # {}
  PROVE  \E m \in T : \A n \in T : m =< n
<1>1. PICK m \in T : \A n \in T : ~(<<n, m>> \in OpToRel(<, Nat))
  BY NatLessThanWellFounded, WFMin
<1>2. \A n \in T : ~(n < m)
  BY <1>1 DEF OpToRel
<1> QED BY <1>2

(* OS_PrioGetHighest finds the ready list with the highest priority.       *)
LEMMA PrioGetHighest ==
  ASSUME NEW ks, Good(ks)
  PROVE  /\ OS_PrioGetHighest(ks) \in Prio
         /\ OSTCBHighRdy(ks) \in ReadyAt(ks, OS_PrioGetHighest(ks))
         /\ \A u \in Task : ks.state[u] = {} =>
              OS_PrioGetHighest(ks) =< ks.prio[u]
<1> DEFINE T == {p \in Prio : ks.rdy[p] # << >>}
           h == OS_PrioGetHighest(ks)
<1>0. ks \in TCBTables /\ Idle \in Task /\ PrioMax \in Nat
  BY CoreAssumption DEF Good
<1>1. \A p \in Prio : ListOf(ks.rdy[p], ReadyAt(ks, p))
  BY <1>0, ReadyAgreesLists DEF Good
<1>2. PrioMax \in T
  <2>1. Idle \in ReadyAt(ks, PrioMax)
    BY <1>0 DEF Good, IdleReady, ReadyAt
  <2> QED BY <1>0, <1>1, <2>1, ListOfNone DEF Prio
<1>3. \E p \in T : \A q \in T : p =< q
  <2>1. T \in SUBSET Nat /\ T # {}
    BY <1>0, <1>2 DEF Prio
  <2> HIDE DEF T
  <2> QED BY <2>1, Least
<1>4. \E p \in Prio : ks.rdy[p] # << >> /\ \A q \in Prio : q < p => ks.rdy[q] = << >>
  BY <1>0, <1>3 DEF Prio
<1>5. h \in Prio /\ ks.rdy[h] # << >> /\ \A q \in Prio : q < h => ks.rdy[q] = << >>
  BY <1>4 DEF OS_PrioGetHighest
<1>6. OSTCBHighRdy(ks) \in ReadyAt(ks, h)
  BY <1>1, <1>5, ListOfHead DEF OSTCBHighRdy
<1>7. ASSUME NEW u \in Task, ks.state[u] = {} PROVE h =< ks.prio[u]
  <2>1. ks.prio[u] \in Prio
    BY <1>0 DEF TCBTables
  <2>2. u \in ReadyAt(ks, ks.prio[u])
    BY <1>7 DEF ReadyAt
  <2>3. ks.rdy[ks.prio[u]] # << >>
    BY <1>1, <2>1, <2>2, ListOfNone
  <2> QED BY <1>0, <1>5, <2>1, <2>3 DEF Prio
<1> QED BY <1>5, <1>6, <1>7

(* InsertPos is a position in or after the list: the entries before it are *)
(* served before t, the entry there after it.                              *)
LEMMA InsertPosFits ==
  ASSUME NEW ks \in TCBTables, NEW s \in Seq(Task), NEW t \in Task
  PROVE  LET i == InsertPos(ks, s, t)
         IN  /\ i \in 1..Len(s) + 1
             /\ \A j \in 1..i - 1 : ks.prio[s[j]] =< ks.prio[t]
             /\ i =< Len(s) => ks.prio[t] < ks.prio[s[i]]
<1> DEFINE T == {i \in 1..Len(s) + 1 : i =< Len(s) => ks.prio[t] < ks.prio[s[i]]}
<1>1. Len(s) \in Nat /\ \A i \in 1..Len(s) : s[i] \in Task
  BY LenProperties
<1>2. \A u \in Task : ks.prio[u] \in Int
  BY CoreAssumption DEF TCBTables, Prio
<1>3. Len(s) + 1 \in T /\ T \in SUBSET Nat
  BY <1>1
<1>4. PICK i \in T : \A j \in T : i =< j
  BY <1>3, Least
<1>5. ASSUME NEW j \in 1..i - 1 PROVE ks.prio[s[j]] =< ks.prio[t]
  <2>1. j \in 1..Len(s) /\ j \notin T
    BY <1>1, <1>4
  <2>2. ~(ks.prio[t] < ks.prio[s[j]])
    BY <1>1, <2>1
  <2> QED BY <1>1, <1>2, <2>1, <2>2
<1>6. i \in 1..Len(s) + 1 /\ (i =< Len(s) => ks.prio[t] < ks.prio[s[i]])
  BY <1>4
<1> QED BY <1>5, <1>6 DEF InsertPos

(* Unlinking an entry keeps a list sorted, inserting one at InsertPos does,*)
(* and priorities of tasks that are not in it do not matter.               *)
LEMMA SortedWithout ==
  ASSUME NEW ks \in TCBTables, NEW s \in Seq(Task), NEW t \in Task,
         SortedByPrio(s, ks.prio)
  PROVE  SortedByPrio(Without(s, t), ks.prio)
<1> DEFINE i == CHOOSE k \in DOMAIN s : s[k] = t
           r == RemoveAt(s, i)
<1>1. DOMAIN s = 1..Len(s) /\ Len(s) \in Nat
  BY LenProperties
<1>2. CASE \E k \in DOMAIN s : s[k] = t
  <2>1. Without(s, t) = r /\ i \in 1..Len(s)
    BY <1>1, <1>2 DEF Without
  <2> HIDE DEF i
  <2>2. r \in Seq(Task) /\ Len(r) = Len(s) - 1
        /\ \A j \in 1..Len(s) - 1 : r[j] = IF j < i THEN s[j] ELSE s[j + 1]
    BY <2>1, RemoveAtElements
  <2> HIDE DEF r
  <2>3. DOMAIN r = 1..Len(s) - 1
    BY <2>2, LenProperties
  <2> DEFINE at(j) == IF j < i THEN j ELSE j + 1
  <2>4. ASSUME NEW j \in DOMAIN r, NEW k \in DOMAIN r, j < k
        PROVE  ks.prio[r[j]] =< ks.prio[r[k]]
    <3>1. at(j) \in 1..Len(s) /\ at(k) \in 1..Len(s) /\ at(j) < at(k)
      BY <1>1, <2>1, <2>3, <2>4
    <3>2. r[j] = s[at(j)] /\ r[k] = s[at(k)]
      BY <2>2, <2>3
    <3> HIDE DEF at
    <3> QED BY <1>1, <3>1, <3>2 DEF SortedByPrio
  <2> QED BY <2>1, <2>4 DEF SortedByPrio
<1>3. CASE ~\E k \in DOMAIN s : s[k] = t
  BY <1>3 DEF Without, SortedByPrio
<1> QED BY <1>2, <1>3

LEMMA SortedInsert ==
  ASSUME NEW ks \in TCBTables, NEW s \in Seq(Task), NEW t \in Task,
         SortedByPrio(s, ks.prio)
  PROVE  SortedByPrio(InsertAt(s, InsertPos(ks, s, t), t), ks.prio)
<1> DEFINE i == InsertPos(ks, s, t)
           r == InsertAt(s, i, t)
<1>1. /\ DOMAIN s = 1..Len(s) /\ Len(s) \in Nat
      /\ \A j \in 1..Len(s) : s[j] \in Task
  BY LenProperties
<1>2. /\ i \in 1..Len(s) + 1
      /\ \A j \in 1..i - 1 : ks.prio[s[j]] =< ks.prio[t]
      /\ i =< Len(s) => ks.prio[t] < ks.prio[s[i]]
  BY InsertPosFits
<1>3. \A u \in Task : ks.prio[u] \in Nat
  BY CoreAssumption DEF TCBTables, Prio
<1> HIDE DEF i
<1>4. r \in Seq(Task) /\ Len(r) = Len(s) + 1
      /\ \A j \in 1..Len(s) + 1 :
           r[j] = IF j < i THEN s[j] ELSE IF j = i THEN t ELSE s[j - 1]
  <2>1. i \in 1..Len(s) + 1
    BY <1>2
  <2>2. /\ InsertAt(s, i, t) \in Seq(Task)
        /\ Len(InsertAt(s, i, t)) = Len(s) + 1
        /\ \A j \in 1..Len(s) + 1 :
             InsertAt(s, i, t)[j] =
               IF j < i THEN s[j] ELSE IF j = i THEN t ELSE s[j - 1]
    BY <2>1, InsertAtElements, Zenon
  <2> QED BY <2>2 DEF r
<1> HIDE DEF r
<1>5. DOMAIN r = 1..Len(s) + 1
  BY <1>4, LenProperties
<1>6. \A j, k \in 1..Len(s) : j =< k => ks.prio[s[j]] =< ks.prio[s[k]]
  BY <1>1, <1>3 DEF SortedByPrio
<1>7. \A k \in i..Len(s) : ks.prio[t] =< ks.prio[s[k]]
  <2> TAKE k \in i..Len(s)
  <2>1. i \in 1..Len(s) /\ k \in 1..Len(s) /\ i =< k
    BY <1>1, <1>2
  <2>2. ks.prio[s[i]] =< ks.prio[s[k]] /\ ks.prio[t] < ks.prio[s[i]]
    BY <1>2, <1>6, <2>1
  <2> QED BY <1>1, <1>3, <2>1, <2>2
<1>8. ASSUME NEW j \in 1..Len(s) + 1, NEW k \in 1..Len(s) + 1, j < k
      PROVE  ks.prio[r[j]] =< ks.prio[r[k]]
  <2>1. CASE k < i
    <3>1. r[j] = s[j] /\ r[k] = s[k] /\ j \in 1..Len(s) /\ k \in 1..Len(s)
      BY <1>1, <1>2, <1>4, <1>8, <2>1
    <3> QED BY <1>6, <1>8, <3>1
  <2>2. CASE k = i
    <3>1. r[j] = s[j] /\ r[k] = t /\ j \in 1..i - 1
      BY <1>1, <1>2, <1>4, <1>8, <2>2
    <3> QED BY <1>2, <3>1
  <2>3. CASE k > i /\ j < i
    <3>1. r[j] = s[j] /\ r[k] = s[k - 1] /\ j \in 1..Len(s) /\ k - 1 \in 1..Len(s)
          /\ j =< k - 1
      BY <1>1, <1>2, <1>4, <1>8, <2>3
    <3> QED BY <1>6, <3>1
  <2>4. CASE k > i /\ j = i
    <3>1. r[j] = t /\ r[k] = s[k - 1] /\ k - 1 \in i..Len(s)
      BY <1>1, <1>2, <1>4, <1>8, <2>4
    <3> QED BY <1>7, <3>1
  <2>5. CASE k > i /\ j > i
    <3>1. /\ r[j] = s[j - 1] /\ r[k] = s[k - 1] /\ j - 1 =< k - 1
          /\ j - 1 \in 1..Len(s) /\ k - 1 \in 1..Len(s)
      BY <1>1, <1>2, <1>4, <1>8, <2>5
    <3> QED BY <1>6, <3>1
  <2> QED BY <1>1, <1>2, <2>1, <2>2, <2>3, <2>4, <2>5
<1>9. SortedByPrio(r, ks.prio)
  BY <1>5, <1>8 DEF SortedByPrio
<1> QED BY <1>9 DEF r, i

LEMMA SortedOthers ==
  ASSUME NEW ks, NEW new, ks.prio \in [Task -> Prio], new.prio \in [Task -> Prio],
         NEW S \in SUBSET Task, NEW s, ListOf(s, S),
         \A u \in S : new.prio[u] = ks.prio[u],
         SortedByPrio(s, ks.prio)
  PROVE  SortedByPrio(s, new.prio)
<1>1. s \in Seq(Task) /\ DOMAIN s = 1..Len(s)
  BY LenProperties DEF ListOf
<1>2. \A j \in DOMAIN s : s[j] \in S
  BY <1>1, ListOfElements
<1> QED BY <1>2 DEF SortedByPrio

-----------------------------------------------------------------------------
(* The ready list: the functions change the list of one priority.          *)

(* OnlyRdy: new differs from ks in the ready list of priority p alone,     *)
(* where it holds the tasks of S.                                          *)
OnlyRdy(ks, new, p, S) ==
  /\ new \in TCBTables
  /\ new = [ks EXCEPT !.rdy = new.rdy]
  /\ \A q \in Prio \ {p} : new.rdy[q] = ks.rdy[q]
  /\ ListOf(new.rdy[p], S)

LEMMA ReplaceRdy ==
  ASSUME NEW ks \in TCBTables, NEW p \in Prio, NEW S, NEW s, ListOf(s, S)
  PROVE  OnlyRdy(ks, [ks EXCEPT !.rdy[p] = s], p, S)
<1>1. s \in Seq(Task)
  BY DEF ListOf
<1> QED BY <1>1 DEF OnlyRdy, TCBTables

LEMMA OnlyRdyKeeps ==
  ASSUME NEW ks \in TCBTables, NEW new, NEW p \in Prio, NEW S, OnlyRdy(ks, new, p, S)
  PROVE  /\ new.state = ks.state /\ new.prio = ks.prio
         /\ new.pendOn = ks.pendOn /\ new.pendObj = ks.pendObj
         /\ new.pendStatus = ks.pendStatus
         /\ new.tick = ks.tick /\ new.susp = ks.susp /\ new.pend = ks.pend
         /\ new.cur = ks.cur /\ new.prioCur = ks.prioCur
<1> DEFINE r == new.rdy
<1>1. new = [ks EXCEPT !.rdy = r]
  BY DEF OnlyRdy
<1> HIDE DEF r
<1> QED BY <1>1 DEF TCBTables

LEMMA RdyListInsert ==
  ASSUME NEW ks \in TCBTables, NEW t \in Task,
         NEW S, ListOf(ks.rdy[ks.prio[t]], S), t \notin S
  PROVE  /\ OnlyRdy(ks, OS_RdyListInsertHead(ks, t), ks.prio[t], S \cup {t})
         /\ OnlyRdy(ks, OS_RdyListInsertTail(ks, t), ks.prio[t], S \cup {t})
         /\ OnlyRdy(ks, OS_RdyListInsert(ks, t), ks.prio[t], S \cup {t})
<1> DEFINE p == ks.prio[t]
<1>1. p \in Prio
  BY DEF TCBTables
<1>2. OnlyRdy(ks, [ks EXCEPT !.rdy[p] = <<t>> \o ks.rdy[p]], p, S \cup {t})
  BY <1>1, ListOfCons, ReplaceRdy
<1>3. OnlyRdy(ks, [ks EXCEPT !.rdy[p] = Append(ks.rdy[p], t)], p, S \cup {t})
  BY <1>1, ListOfAppend, ReplaceRdy
<1>4. OnlyRdy(ks, OS_RdyListInsertHead(ks, t), p, S \cup {t})
  BY <1>1, <1>2 DEF OS_RdyListInsertHead, TCBTables
<1>5. OnlyRdy(ks, OS_RdyListInsertTail(ks, t), p, S \cup {t})
  BY <1>1, <1>3 DEF OS_RdyListInsertTail, TCBTables
<1> QED BY <1>4, <1>5 DEF OS_RdyListInsert

LEMMA RdyListRemove ==
  ASSUME NEW ks \in TCBTables, NEW t \in Task,
         NEW S, ListOf(ks.rdy[ks.prio[t]], S), t \in S
  PROVE  OnlyRdy(ks, OS_RdyListRemove(ks, t), ks.prio[t], S \ {t})
<1> DEFINE p == ks.prio[t]
<1>1. p \in Prio
  BY DEF TCBTables
<1>2. OnlyRdy(ks, [ks EXCEPT !.rdy[p] = Without(ks.rdy[p], t)], p, S \ {t})
  BY <1>1, ListOfWithout, ReplaceRdy
<1> QED BY <1>1, <1>2 DEF OS_RdyListRemove, TCBTables

LEMMA RdyListMoveHeadToTail ==
  ASSUME NEW ks, Good(ks), NEW p \in Prio, Len(ks.rdy[p]) >= 2
  PROVE  /\ Good(OS_RdyListMoveHeadToTail(ks, p))
         /\ OS_RdyListMoveHeadToTail(ks, p) =
              [ks EXCEPT !.rdy = OS_RdyListMoveHeadToTail(ks, p).rdy]
<1> DEFINE new == OS_RdyListMoveHeadToTail(ks, p)
           s   == ks.rdy[p]
<1>1. ks \in TCBTables /\ \A q \in Prio : ListOf(ks.rdy[q], ReadyAt(ks, q))
  BY ReadyAgreesLists DEF Good
<1>2. Len(s) \in Nat /\ ~(Len(s) < 2)
  BY <1>1, ListOfElements DEF TCBTables
<1>3. new = [ks EXCEPT !.rdy[p] = Append(Tail(s), Head(s))]
  BY <1>1, <1>2 DEF OS_RdyListMoveHeadToTail, TCBTables
<1>4. OnlyRdy(ks, new, p, ReadyAt(ks, p))
  <2> DEFINE x == Append(Tail(s), Head(s))
  <2>1. ListOf(x, ReadyAt(ks, p))
    BY <1>1, ListOfTurn
  <2>2. new = [ks EXCEPT !.rdy[p] = x]
    BY <1>3
  <2> HIDE DEF x, new
  <2> QED BY <1>1, <2>1, <2>2, ReplaceRdy
<1> HIDE DEF new
<1>5. /\ new.state = ks.state /\ new.prio = ks.prio
      /\ new.pendOn = ks.pendOn /\ new.pendObj = ks.pendObj
      /\ new.tick = ks.tick /\ new.susp = ks.susp /\ new.pend = ks.pend
      /\ \A q \in Prio : ReadyAt(new, q) = ReadyAt(ks, q)
  BY <1>1, <1>4, OnlyRdyKeeps DEF ReadyAt
<1>6. \A q \in Prio : ListOf(new.rdy[q], ReadyAt(new, q))
  BY <1>1, <1>4, <1>5 DEF OnlyRdy
<1>7. ReadyAgrees(new)
  BY <1>4, <1>6, ReadyAgreesLists DEF OnlyRdy
<1>8. PendAgrees(new) /\ BitsAgree(new) /\ TicksAgree(new) /\ Sorted(new)
      /\ IdleReady(new)
  BY <1>5 DEF Good, PendAgrees, BitsAgree, TicksAgree, Sorted, IdleReady
<1>9. Good(new) /\ new = [ks EXCEPT !.rdy = new.rdy]
  BY <1>4, <1>7, <1>8 DEF Good, OnlyRdy
<1> QED BY <1>9 DEF new

-----------------------------------------------------------------------------
(* Pend lists.                                                             *)

(* OnlyPend: new differs from ks in the pend list of o alone, which holds  *)
(* the tasks of S.                                                         *)
OnlyPend(ks, new, o, S) ==
  /\ new \in TCBTables
  /\ new = [ks EXCEPT !.pend = new.pend]
  /\ \A q \in Obj \ {o} : new.pend[q] = ks.pend[q]
  /\ ListOf(new.pend[o], S)

LEMMA ReplacePend ==
  ASSUME NEW ks \in TCBTables, NEW o \in Obj, NEW S, NEW s, ListOf(s, S)
  PROVE  OnlyPend(ks, [ks EXCEPT !.pend[o] = s], o, S)
<1>1. s \in Seq(Task)
  BY DEF ListOf
<1> QED BY <1>1 DEF OnlyPend, TCBTables

LEMMA OnlyPendKeeps ==
  ASSUME NEW ks \in TCBTables, NEW new, NEW o \in Obj, NEW S, OnlyPend(ks, new, o, S)
  PROVE  /\ new.state = ks.state /\ new.prio = ks.prio
         /\ new.pendOn = ks.pendOn /\ new.pendObj = ks.pendObj
         /\ new.pendStatus = ks.pendStatus
         /\ new.tick = ks.tick /\ new.susp = ks.susp /\ new.rdy = ks.rdy
         /\ new.cur = ks.cur /\ new.prioCur = ks.prioCur
<1> DEFINE r == new.pend
<1>1. new = [ks EXCEPT !.pend = r]
  BY DEF OnlyPend
<1> HIDE DEF r
<1> QED BY <1>1 DEF TCBTables

LEMMA PendListInsertPrio ==
  ASSUME NEW ks \in TCBTables, NEW t \in Task, NEW o \in Obj,
         NEW S, ListOf(ks.pend[o], S), t \notin S
  PROVE  LET new == OS_PendListInsertPrio(ks, o, t)
         IN  /\ OnlyPend(ks, new, o, S \cup {t})
             /\ SortedByPrio(ks.pend[o], ks.prio) => SortedByPrio(new.pend[o], ks.prio)
<1> DEFINE s == ks.pend[o]
           r == InsertAt(s, InsertPos(ks, s, t), t)
<1>1. InsertPos(ks, s, t) \in 1..Len(s) + 1
  BY InsertPosFits DEF ListOf
<1>2. ListOf(r, S \cup {t})
  BY <1>1, ListOfInsertAt
<1>3. OS_PendListInsertPrio(ks, o, t) = [ks EXCEPT !.pend[o] = r]
  BY DEF OS_PendListInsertPrio, TCBTables
<1>4. s \in Seq(Task) /\ (SortedByPrio(s, ks.prio) => SortedByPrio(r, ks.prio))
  BY SortedInsert DEF ListOf
<1> HIDE DEF r
<1>5. OS_PendListInsertPrio(ks, o, t).pend[o] = r
  BY <1>3 DEF TCBTables
<1> QED BY <1>2, <1>3, <1>4, <1>5, ReplacePend

-----------------------------------------------------------------------------
(* Waking.                                                                 *)

(* The states a task can be in: some of three bits, or deleted.            *)
LEMMA StateCases ==
  ASSUME NEW s \in TaskStates
  PROVE  /\ s \ {"DLY"} \in TaskStates /\ s \ {"SUSPENDED"} \in TaskStates
         /\ s \ {"DLY", "PEND"} \in TaskStates
         /\ "DLY" \in s \/ "PEND" \in s \/ "SUSPENDED" \in s =>
              s \subseteq {"DLY", "PEND", "SUSPENDED"}
         /\ s # {"DEL"} => s \cup {"SUSPENDED"} \in TaskStates
<1>1. s \subseteq {"DLY", "PEND", "SUSPENDED"} \/ s = {"DEL"}
  BY DEF TaskStates
<1>2. CASE s \subseteq {"DLY", "PEND", "SUSPENDED"}
  BY <1>2 DEF TaskStates
<1>3. CASE s = {"DEL"}
  <2>1. s \ {"DLY"} = s /\ s \ {"SUSPENDED"} = s /\ s \ {"DLY", "PEND"} = s
    BY <1>3
  <2> QED BY <1>3, <2>1
<1> QED BY <1>1, <1>2, <1>3

(* OS_TaskRdy(ks, t) takes t off the tick list and, unless suspended, puts *)
(* it into the ready list of its priority, which held the tasks of S.      *)
LEMMA TaskRdy ==
  ASSUME NEW ks \in TCBTables, NEW t \in Task,
         NEW S, ListOf(ks.rdy[ks.prio[t]], S), t \notin S
  PROVE  LET new == OS_TaskRdy(ks, t)
         IN  /\ new \in TCBTables
             /\ new.tick = [ks.tick EXCEPT ![t] = 0]
             /\ new.state = ks.state /\ new.prio = ks.prio
             /\ new.pendOn = ks.pendOn /\ new.pendObj = ks.pendObj
             /\ new.pendStatus = ks.pendStatus
             /\ new.susp = ks.susp /\ new.pend = ks.pend
             /\ new.cur = ks.cur /\ new.prioCur = ks.prioCur
             /\ \A q \in Prio \ {ks.prio[t]} : new.rdy[q] = ks.rdy[q]
             /\ ListOf(new.rdy[ks.prio[t]],
                       IF "SUSPENDED" \in ks.state[t] THEN S ELSE S \cup {t})
<1> DEFINE off == OS_TickListRemove(ks, t)
           new == OS_TaskRdy(ks, t)
           p   == ks.prio[t]
<1>1. /\ off \in TCBTables
      /\ off.tick = [ks.tick EXCEPT ![t] = 0] /\ off.rdy = ks.rdy
      /\ off.state = ks.state /\ off.prio = ks.prio
      /\ off.pendOn = ks.pendOn /\ off.pendObj = ks.pendObj
      /\ off.pendStatus = ks.pendStatus
      /\ off.susp = ks.susp /\ off.pend = ks.pend
      /\ off.cur = ks.cur /\ off.prioCur = ks.prioCur
  <2>1. off = [ks EXCEPT !.tick[t] = 0]
    BY DEF OS_TickListRemove
  <2>2. 0 \in 0..MaxDly
    BY CoreAssumption
  <2> HIDE DEF off
  <2>3. off \in TCBTables
    BY <2>1, <2>2 DEF TCBTables
  <2> QED BY <2>1, <2>3 DEF TCBTables
<1>2. new = IF "SUSPENDED" \in ks.state[t] THEN off ELSE OS_RdyListInsert(off, t)
  BY DEF OS_TaskRdy
<1>3. p \in Prio
  BY DEF TCBTables
<1> HIDE DEF off, new
<1>4. CASE "SUSPENDED" \in ks.state[t]
  BY <1>1, <1>2, <1>4 DEF new
<1>5. CASE "SUSPENDED" \notin ks.state[t]
  <2>1. OnlyRdy(off, new, p, S \cup {t})
    BY <1>1, <1>2, <1>5, RdyListInsert
  <2>2. new \in TCBTables /\ ListOf(new.rdy[p], S \cup {t})
        /\ \A q \in Prio \ {p} : new.rdy[q] = off.rdy[q]
    BY <2>1 DEF OnlyRdy
  <2>3. /\ new.state = off.state /\ new.prio = off.prio
        /\ new.pendOn = off.pendOn /\ new.pendObj = off.pendObj
        /\ new.pendStatus = off.pendStatus
        /\ new.tick = off.tick /\ new.susp = off.susp /\ new.pend = off.pend
        /\ new.cur = off.cur /\ new.prioCur = off.prioCur
    BY <1>1, <1>3, <2>1, OnlyRdyKeeps
  <2> QED BY <1>1, <1>5, <2>2, <2>3 DEF new
<1> QED BY <1>4, <1>5

(* Wakes(ks, new, t): t alone was woken, its waiting is over, and nothing  *)
(* else changed but the lists it left and entered.                         *)
Wakes(ks, new, t) ==
  /\ new.state = [ks.state EXCEPT ![t] = @ \ {"DLY", "PEND"}]
  /\ new.pendObj = [ks.pendObj EXCEPT ![t] = NoObj]
  /\ new.tick = [ks.tick EXCEPT ![t] = 0]
  /\ new.prio = ks.prio /\ new.susp = ks.susp
  /\ new.cur = ks.cur /\ new.prioCur = ks.prioCur

(* EndPend wakes a task that pends.                                        *)
LEMMA EndPendWakes ==
  ASSUME NEW ks, Good(ks), NEW t \in Task, "PEND" \in ks.state[t],
         NEW status \in Status
  PROVE  LET new == EndPend(ks, t, status)
             o   == ks.pendObj[t]
         IN  /\ Good(new) /\ Wakes(ks, new, t)
             /\ new.pendStatus = [ks.pendStatus EXCEPT ![t] = status]
             /\ o \in Obj /\ t \in Range(ks.pend[o])
             /\ new.pend = [ks.pend EXCEPT ![o] = Without(@, t)]
             /\ Len(new.pend[o]) = Len(ks.pend[o]) - 1
<1> DEFINE o   == ks.pendObj[t]
           p   == ks.prio[t]
           new == EndPend(ks, t, status)
           off == OS_PendListRemove(ks, t)
           rdy == OS_TaskRdy(off, t)
<1>1. /\ ks \in TCBTables /\ p \in Prio /\ o \in Obj /\ o # NoObj
      /\ \A q \in Prio : ListOf(ks.rdy[q], ReadyAt(ks, q))
      /\ \A q \in Obj : ListOf(ks.pend[q], Waiters(ks, q))
  <2>1. ks \in TCBTables
    BY DEF Good
  <2>2. p \in Prio /\ o \in Obj /\ o # NoObj
    BY <2>1 DEF Good, PendAgrees, TCBTables
  <2> QED BY <2>1, <2>2, ReadyAgreesLists, PendAgreesLists DEF Good
<1>2. ListOf(Without(ks.pend[o], t), Waiters(ks, o) \ {t})
      /\ Len(Without(ks.pend[o], t)) = Len(ks.pend[o]) - 1
      /\ t \in Range(ks.pend[o])
  <2>1. t \in Waiters(ks, o)
    BY DEF Waiters
  <2> QED BY <1>1, <2>1, ListOfWithout DEF ListOf
<1>3. /\ off \in TCBTables
      /\ off.pend = [ks.pend EXCEPT ![o] = Without(@, t)]
      /\ off.pendObj = [ks.pendObj EXCEPT ![t] = NoObj]
      /\ off.state = ks.state /\ off.prio = ks.prio /\ off.pendOn = ks.pendOn
      /\ off.pendStatus = ks.pendStatus /\ off.tick = ks.tick
      /\ off.susp = ks.susp /\ off.rdy = ks.rdy
      /\ off.cur = ks.cur /\ off.prioCur = ks.prioCur
  <2> DEFINE s == Without(ks.pend[o], t)
  <2>1. off = [ks EXCEPT !.pend[o] = s, !.pendObj[t] = NoObj]
    BY <1>1 DEF OS_PendListRemove, TCBTables
  <2>2. s \in Seq(Task)
    BY <1>2 DEF ListOf
  <2>3. s = Without(ks.pend[o], t)
    OBVIOUS
  <2> HIDE DEF s, off, o
  <2>4. off.pend = [ks.pend EXCEPT ![o] = s] /\ off.pendObj = [ks.pendObj EXCEPT ![t] = NoObj]
    BY <1>1, <2>1 DEF TCBTables
  <2>5. /\ off.state = ks.state /\ off.prio = ks.prio /\ off.pendOn = ks.pendOn
        /\ off.pendStatus = ks.pendStatus /\ off.tick = ks.tick
        /\ off.susp = ks.susp /\ off.rdy = ks.rdy
        /\ off.cur = ks.cur /\ off.prioCur = ks.prioCur
    BY <1>1, <2>1 DEF TCBTables
  <2>6. off \in TCBTables
    BY <1>1, <2>1, <2>2 DEF TCBTables
  <2>7. off.pend = [ks.pend EXCEPT ![o] = Without(@, t)]
    BY <2>3, <2>4
  <2> QED BY <2>4, <2>5, <2>6, <2>7
<1> HIDE DEF off
<1>4. t \notin ReadyAt(ks, p)
  BY DEF ReadyAt
<1>5. /\ rdy \in TCBTables
      /\ rdy.tick = [ks.tick EXCEPT ![t] = 0]
      /\ rdy.state = ks.state /\ rdy.prio = ks.prio
      /\ rdy.pendOn = ks.pendOn /\ rdy.pendObj = off.pendObj
      /\ rdy.pendStatus = ks.pendStatus
      /\ rdy.susp = ks.susp /\ rdy.pend = off.pend
      /\ rdy.cur = ks.cur /\ rdy.prioCur = ks.prioCur
      /\ \A q \in Prio \ {p} : rdy.rdy[q] = ks.rdy[q]
      /\ ListOf(rdy.rdy[p], IF "SUSPENDED" \in ks.state[t] THEN ReadyAt(ks, p)
                            ELSE ReadyAt(ks, p) \cup {t})
  <2>1. off \in TCBTables /\ ListOf(off.rdy[off.prio[t]], ReadyAt(ks, p))
    BY <1>1, <1>3
  <2> HIDE DEF rdy
  <2>2. /\ rdy \in TCBTables
        /\ rdy.tick = [off.tick EXCEPT ![t] = 0]
        /\ rdy.state = off.state /\ rdy.prio = off.prio
        /\ rdy.pendOn = off.pendOn /\ rdy.pendObj = off.pendObj
        /\ rdy.pendStatus = off.pendStatus
        /\ rdy.susp = off.susp /\ rdy.pend = off.pend
        /\ rdy.cur = off.cur /\ rdy.prioCur = off.prioCur
        /\ \A q \in Prio \ {off.prio[t]} : rdy.rdy[q] = off.rdy[q]
        /\ ListOf(rdy.rdy[off.prio[t]],
                  IF "SUSPENDED" \in off.state[t] THEN ReadyAt(ks, p)
                  ELSE ReadyAt(ks, p) \cup {t})
    BY <1>4, <2>1, TaskRdy DEF rdy
  <2> QED BY <1>3, <2>2
<1> HIDE DEF rdy
<1>6. new = [rdy EXCEPT !.state[t] = @ \ {"DLY", "PEND"},
                        !.pendStatus[t] = status,
                        !.pendOn[t] = "NOTHING"]
  BY DEF EndPend, rdy, off
<1> HIDE DEF new
<1>7. /\ new \in TCBTables
      /\ new.state = [ks.state EXCEPT ![t] = @ \ {"DLY", "PEND"}]
      /\ new.pendStatus = [ks.pendStatus EXCEPT ![t] = status]
      /\ new.pendOn = [ks.pendOn EXCEPT ![t] = "NOTHING"]
      /\ new.tick = [ks.tick EXCEPT ![t] = 0]
      /\ new.pendObj = [ks.pendObj EXCEPT ![t] = NoObj]
      /\ new.prio = ks.prio /\ new.susp = ks.susp
      /\ new.cur = ks.cur /\ new.prioCur = ks.prioCur
      /\ new.rdy = rdy.rdy /\ new.pend = off.pend
  <2>1. ks.state[t] \ {"DLY", "PEND"} \in TaskStates
    BY <1>1, StateCases DEF TCBTables
  <2> QED BY <1>1, <1>3, <1>5, <1>6, <2>1 DEF TCBTables, PendKind
<1>a. ASSUME NEW u \in Task
      PROVE  /\ u # t => /\ new.state[u] = ks.state[u]
                         /\ new.pendObj[u] = ks.pendObj[u]
                         /\ new.pendOn[u] = ks.pendOn[u]
                         /\ new.tick[u] = ks.tick[u]
             /\ new.state[t] = ks.state[t] \ {"DLY", "PEND"}
             /\ new.pendObj[t] = NoObj /\ new.pendOn[t] = "NOTHING" /\ new.tick[t] = 0
  BY <1>1, <1>7, SMTT(30) DEF TCBTables
<1>b. new.state[t] = {} <=> "SUSPENDED" \notin ks.state[t]
  <2>1. ks.state[t] \subseteq {"DLY", "PEND", "SUSPENDED"}
    BY <1>1, StateCases DEF TCBTables
  <2>2. new.state[t] = ks.state[t] \ {"DLY", "PEND"}
    BY <1>a
  <2> QED BY <2>1, <2>2
<1> HIDE DEF o, p
<1>8. ReadyAgrees(new)
  <2>1. ASSUME NEW q \in Prio \ {p} PROVE ReadyAt(new, q) = ReadyAt(ks, q)
    <3>1. \A u \in Task : u \in ReadyAt(new, q) <=> u \in ReadyAt(ks, q)
      BY <1>7, <1>a, <1>4, <2>1 DEF ReadyAt, p
    <3> QED BY <3>1 DEF ReadyAt
  <2>2. ReadyAt(new, p) = IF "SUSPENDED" \in ks.state[t] THEN ReadyAt(ks, p)
                          ELSE ReadyAt(ks, p) \cup {t}
    <3>1. \A u \in Task \ {t} : u \in ReadyAt(new, p) <=> u \in ReadyAt(ks, p)
      BY <1>7, <1>a DEF ReadyAt
    <3>2. t \in ReadyAt(new, p) <=> "SUSPENDED" \notin ks.state[t]
      BY <1>7, <1>b DEF ReadyAt, p
    <3> QED BY <3>1, <3>2, <1>4 DEF ReadyAt
  <2>3. \A q \in Prio : ListOf(new.rdy[q], ReadyAt(new, q))
    BY <1>1, <1>5, <1>7, <2>1, <2>2
  <2> QED BY <1>7, <2>3, ReadyAgreesLists
<1>9. PendAgrees(new)
  <2>1. ASSUME NEW q \in Obj \ {o}
        PROVE  Waiters(new, q) = Waiters(ks, q) /\ new.pend[q] = ks.pend[q]
    <3>1. new.pend[q] = ks.pend[q]
      BY <1>1, <1>3, <1>7 DEF TCBTables
    <3>2. \A u \in Task : u \in Waiters(new, q) <=> u \in Waiters(ks, q)
      BY <1>a, CoreAssumption DEF Waiters, o
    <3> QED BY <3>1, <3>2 DEF Waiters
  <2>2. Waiters(new, o) = Waiters(ks, o) \ {t} /\ new.pend[o] = Without(ks.pend[o], t)
    <3>1. new.pend[o] = Without(ks.pend[o], t)
      BY <1>1, <1>3, <1>7 DEF TCBTables
    <3>2. \A u \in Task : u \in Waiters(new, o) <=> u \in Waiters(ks, o) \ {t}
      BY <1>1, <1>a DEF Waiters
    <3> QED BY <3>1, <3>2 DEF Waiters
  <2>3. \A q \in Obj : ListOf(new.pend[q], Waiters(new, q))
    BY <1>1, <1>2, <2>1, <2>2
  <2>4. ASSUME NEW u \in Task
        PROVE  /\ new.pendObj[u] # NoObj <=> "PEND" \in new.state[u]
               /\ new.pendOn[u] # "NOTHING" <=> "PEND" \in new.state[u]
    BY <1>a DEF Good, PendAgrees
  <2> QED BY <1>7, <2>3, <2>4, PendAgreesLists
<1>10. BitsAgree(new)
  BY <1>7, <1>a DEF Good, BitsAgree
<1>11. TicksAgree(new)
  BY <1>a DEF Good, TicksAgree
<1>12. IdleReady(new)
  BY <1>7, <1>a, CoreAssumption DEF Good, IdleReady
<1>s. Sorted(new)
  <2>1. ks.pend \in [Obj -> Seq(Task)] /\ new.pend = [ks.pend EXCEPT ![o] = Without(@, t)]
    BY <1>1, <1>3, <1>7 DEF TCBTables
  <2>2. SortedByPrio(Without(ks.pend[o], t), ks.prio)
    BY <1>1, <2>1, SortedWithout DEF Good, Sorted
  <2> QED BY <1>7, <2>1, <2>2 DEF Good, Sorted
<1>13. Good(new)
  BY <1>7, <1>8, <1>9, <1>10, <1>11, <1>12, <1>s DEF Good
<1>14. Wakes(ks, new, t)
  BY <1>7 DEF Wakes
<1>15. new.pend = [ks.pend EXCEPT ![o] = Without(@, t)]
       /\ new.pend[o] = Without(ks.pend[o], t)
  BY <1>1, <1>3, <1>7 DEF TCBTables
<1> QED BY <1>1, <1>2, <1>7, <1>13, <1>14, <1>15 DEF new, o

(* A due task: its delay or its timeout is over.                           *)
LEMMA TickExpireWakes ==
  ASSUME NEW ks, Good(ks), NEW t \in Task, ks.tick[t] > 0
  PROVE  LET new == TickExpire(ks, t)
         IN  /\ Good(new) /\ Wakes(ks, new, t)
             /\ \A q \in Obj : ks.pend[q] = << >> => new.pend[q] = << >>
             /\ new.pendStatus = IF "PEND" \in ks.state[t]
                                 THEN [ks.pendStatus EXCEPT ![t] = "TIMEOUT"]
                                 ELSE ks.pendStatus
<1> DEFINE p   == ks.prio[t]
           new == TickExpire(ks, t)
           rdy == OS_TaskRdy(ks, t)
<1>1. /\ ks \in TCBTables /\ p \in Prio /\ "DLY" \in ks.state[t]
      /\ \A q \in Prio : ListOf(ks.rdy[q], ReadyAt(ks, q))
  <2>1. ks \in TCBTables
    BY DEF Good
  <2>2. p \in Prio
    BY <2>1 DEF TCBTables
  <2> QED BY <2>1, <2>2, ReadyAgreesLists DEF Good, TicksAgree
<1>2. CASE "PEND" \in ks.state[t]
  <2> DEFINE o   == ks.pendObj[t]
             end == EndPend(ks, t, "TIMEOUT")
  <2>1. new = end /\ "TIMEOUT" \in Status
    BY <1>2 DEF TickExpire, Status
  <2>a. /\ Good(end) /\ Wakes(ks, end, t)
        /\ end.pendStatus = [ks.pendStatus EXCEPT ![t] = "TIMEOUT"]
        /\ o \in Obj /\ t \in Range(ks.pend[o])
        /\ end.pend = [ks.pend EXCEPT ![o] = Without(@, t)]
    BY <1>2, <2>1, EndPendWakes
  <2> HIDE DEF new, end, o
  <2>2. /\ Good(new) /\ Wakes(ks, new, t)
        /\ new.pendStatus = [ks.pendStatus EXCEPT ![t] = "TIMEOUT"]
        /\ o \in Obj /\ t \in Range(ks.pend[o])
        /\ new.pend = [ks.pend EXCEPT ![o] = Without(@, t)]
    BY <2>1, <2>a
  <2>3. ks.pend[o] # << >> /\ ks.pend \in [Obj -> Seq(Task)]
    BY <1>1, <2>2 DEF Range, TCBTables
  <2>4. \A q \in Obj : ks.pend[q] = << >> => new.pend[q] = << >>
    BY <2>2, <2>3
  <2> QED BY <1>2, <2>2, <2>4 DEF new
<1>3. CASE "PEND" \notin ks.state[t]
  <2>1. t \notin ReadyAt(ks, p)
    BY <1>1 DEF ReadyAt
  <2>2. /\ rdy \in TCBTables
        /\ rdy.tick = [ks.tick EXCEPT ![t] = 0]
        /\ rdy.state = ks.state /\ rdy.prio = ks.prio
        /\ rdy.pendOn = ks.pendOn /\ rdy.pendObj = ks.pendObj
        /\ rdy.pendStatus = ks.pendStatus
        /\ rdy.susp = ks.susp /\ rdy.pend = ks.pend
        /\ rdy.cur = ks.cur /\ rdy.prioCur = ks.prioCur
        /\ \A q \in Prio \ {p} : rdy.rdy[q] = ks.rdy[q]
        /\ ListOf(rdy.rdy[p], IF "SUSPENDED" \in ks.state[t] THEN ReadyAt(ks, p)
                              ELSE ReadyAt(ks, p) \cup {t})
    BY <1>1, <2>1, TaskRdy
  <2>3. new = [rdy EXCEPT !.state[t] = @ \ {"DLY"}]
    BY <1>3 DEF TickExpire
  <2> HIDE DEF new, rdy
  <2>4. /\ new \in TCBTables
        /\ new.state = [ks.state EXCEPT ![t] = @ \ {"DLY"}]
        /\ new.tick = [ks.tick EXCEPT ![t] = 0]
        /\ new.pendOn = ks.pendOn /\ new.pendObj = ks.pendObj
        /\ new.pendStatus = ks.pendStatus
        /\ new.prio = ks.prio /\ new.susp = ks.susp
        /\ new.cur = ks.cur /\ new.prioCur = ks.prioCur
        /\ new.rdy = rdy.rdy /\ new.pend = ks.pend
    <3>1. ks.state[t] \ {"DLY"} \in TaskStates
      BY <1>1, StateCases DEF TCBTables
    <3> QED BY <2>2, <2>3, <3>1 DEF TCBTables
  <2>5. ASSUME NEW u \in Task
        PROVE  /\ u # t => new.state[u] = ks.state[u] /\ new.tick[u] = ks.tick[u]
               /\ new.state[t] = ks.state[t] \ {"DLY"} /\ new.tick[t] = 0
    BY <1>1, <2>4 DEF TCBTables
  <2>6. new.state[t] = {} <=> "SUSPENDED" \notin ks.state[t]
    <3>1. ks.state[t] \subseteq {"DLY", "PEND", "SUSPENDED"}
      BY <1>1, StateCases DEF TCBTables
    <3>2. new.state[t] = ks.state[t] \ {"DLY"}
      BY <2>5
    <3> QED BY <1>3, <3>1, <3>2
  <2> HIDE DEF p
  <2>7. ASSUME NEW q \in Prio \ {p} PROVE ReadyAt(new, q) = ReadyAt(ks, q)
    <3>1. \A u \in Task : u \in ReadyAt(new, q) <=> u \in ReadyAt(ks, q)
      BY <2>1, <2>4, <2>5, <2>7 DEF ReadyAt, p
    <3> QED BY <3>1 DEF ReadyAt
  <2>8. ReadyAt(new, p) = IF "SUSPENDED" \in ks.state[t] THEN ReadyAt(ks, p)
                          ELSE ReadyAt(ks, p) \cup {t}
    <3>1. \A u \in Task \ {t} : u \in ReadyAt(new, p) <=> u \in ReadyAt(ks, p)
      BY <2>4, <2>5 DEF ReadyAt
    <3>2. t \in ReadyAt(new, p) <=> "SUSPENDED" \notin ks.state[t]
      BY <2>4, <2>6 DEF ReadyAt, p
    <3> QED BY <2>1, <3>1, <3>2 DEF ReadyAt
  <2>9. ReadyAgrees(new)
    <3>1. \A q \in Prio : ListOf(new.rdy[q], ReadyAt(new, q))
      BY <1>1, <2>2, <2>4, <2>7, <2>8
    <3> QED BY <2>4, <3>1, ReadyAgreesLists
  <2>10. PendAgrees(new)
    <3>1. \A u \in Task : "PEND" \in new.state[u] <=> "PEND" \in ks.state[u]
      BY <2>5
    <3> QED BY <2>4, <3>1 DEF Good, PendAgrees
  <2>11. BitsAgree(new) /\ TicksAgree(new) /\ Sorted(new) /\ IdleReady(new)
    BY <2>4, <2>5, CoreAssumption DEF Good, BitsAgree, TicksAgree, Sorted, IdleReady
  <2>12. ks.state[t] \ {"DLY"} = ks.state[t] \ {"DLY", "PEND"}
    BY <1>3
  <2>13. new.pendObj = [ks.pendObj EXCEPT ![t] = NoObj]
    <3>1. ks.pendObj[t] = NoObj /\ ks.pendObj \in [Task -> Obj \cup {NoObj}]
      BY <1>1, <1>3 DEF Good, PendAgrees, TCBTables
    <3> QED BY <2>4, <3>1
  <2>14. Wakes(ks, new, t)
    BY <2>4, <2>12, <2>13 DEF Wakes
  <2> QED BY <1>3, <2>4, <2>9, <2>10, <2>11, <2>14 DEF Good, new
<1> QED BY <1>2, <1>3

-----------------------------------------------------------------------------
(* Blocking.                                                               *)

(* Blocks(ks, new, t, bits): t alone was taken off the ready list.         *)
Blocks(ks, new, t, bits) ==
  /\ new.state = [ks.state EXCEPT ![t] = bits]
  /\ new.prio = ks.prio /\ new.susp = ks.susp
  /\ new.cur = ks.cur /\ new.prioCur = ks.prioCur

(* A ready task whose state becomes bits leaves the ready list.            *)
LEMMA LeaveReady ==
  ASSUME NEW ks, Good(ks), NEW t \in Task, ks.state[t] = {},
         NEW mid \in TCBTables, NEW bits, bits # {},
         mid.state = [ks.state EXCEPT ![t] = bits],
         mid.prio = ks.prio, mid.rdy = ks.rdy
  PROVE  LET new == OS_RdyListRemove(mid, t)
         IN  /\ new \in TCBTables /\ ReadyAgrees(new)
             /\ new.state = mid.state /\ new.prio = mid.prio
             /\ new.pendOn = mid.pendOn /\ new.pendObj = mid.pendObj
             /\ new.pendStatus = mid.pendStatus
             /\ new.tick = mid.tick /\ new.susp = mid.susp /\ new.pend = mid.pend
             /\ new.cur = mid.cur /\ new.prioCur = mid.prioCur
<1> DEFINE p   == ks.prio[t]
           new == OS_RdyListRemove(mid, t)
<1>1. /\ ks \in TCBTables /\ p \in Prio /\ t \in ReadyAt(ks, p)
      /\ \A q \in Prio : ListOf(ks.rdy[q], ReadyAt(ks, q))
  <2>1. ks \in TCBTables
    BY DEF Good
  <2>2. p \in Prio
    BY <2>1 DEF TCBTables
  <2> QED BY <2>1, <2>2, ReadyAgreesLists DEF Good, ReadyAt
<1>2. OnlyRdy(mid, new, p, ReadyAt(ks, p) \ {t})
  <2>1. ListOf(mid.rdy[mid.prio[t]], ReadyAt(ks, p)) /\ mid.prio[t] = p
    BY <1>1
  <2> QED BY <1>1, <2>1, RdyListRemove
<1> HIDE DEF new
<1>3. /\ new.state = mid.state /\ new.prio = mid.prio
      /\ new.pendOn = mid.pendOn /\ new.pendObj = mid.pendObj
      /\ new.pendStatus = mid.pendStatus
      /\ new.tick = mid.tick /\ new.susp = mid.susp /\ new.pend = mid.pend
      /\ new.cur = mid.cur /\ new.prioCur = mid.prioCur
  BY <1>1, <1>2, OnlyRdyKeeps
<1>4. new \in TCBTables /\ ListOf(new.rdy[p], ReadyAt(ks, p) \ {t})
      /\ \A q \in Prio \ {p} : new.rdy[q] = ks.rdy[q]
  BY <1>2 DEF OnlyRdy
<1>5. \A u \in Task : u # t => new.state[u] = ks.state[u]
  BY <1>1, <1>3 DEF TCBTables
<1>6. new.state[t] # {}
  BY <1>1, <1>3 DEF TCBTables
<1>7. ASSUME NEW q \in Prio
      PROVE  ReadyAt(new, q) = IF q = p THEN ReadyAt(ks, p) \ {t} ELSE ReadyAt(ks, q)
  <2>1. \A u \in Task \ {t} : u \in ReadyAt(new, q) <=> u \in ReadyAt(ks, q)
    BY <1>3, <1>5 DEF ReadyAt
  <2>2. t \notin ReadyAt(new, q) /\ (q # p => t \notin ReadyAt(ks, q))
    BY <1>6 DEF ReadyAt
  <2> QED BY <2>1, <2>2 DEF ReadyAt
<1>8. \A q \in Prio : ListOf(new.rdy[q], ReadyAt(new, q))
  BY <1>1, <1>4, <1>7
<1>9. ReadyAgrees(new)
  BY <1>4, <1>8, ReadyAgreesLists
<1> QED BY <1>3, <1>4, <1>9 DEF new

(* OS_Pend: the running task waits on o and is ready no more.              *)
LEMMA PendBlocks ==
  ASSUME NEW ks, Good(ks), ks.cur \in Task \ {Idle}, ks.state[ks.cur] = {},
         NEW o \in Obj, NEW kind \in PendKind \ {"NOTHING"}, NEW timeout \in 0..MaxDly
  PROVE  LET new == OS_Pend(ks, o, kind, timeout)
             t   == ks.cur
         IN  /\ Good(new)
             /\ Blocks(ks, new, t, IF timeout > 0 THEN {"DLY", "PEND"} ELSE {"PEND"})
             /\ new.pendObj = [ks.pendObj EXCEPT ![t] = o]
             /\ new.pendStatus = [ks.pendStatus EXCEPT ![t] = "OK"]
             /\ \A q \in Obj \ {o} : new.pend[q] = ks.pend[q]
<1> DEFINE t    == ks.cur
           bits == IF timeout > 0 THEN {"DLY", "PEND"} ELSE {"PEND"}
           a    == [ks EXCEPT !.pendOn[t] = kind, !.pendStatus[t] = "OK",
                              !.pendObj[t] = o]
           mid  == [OS_TickListInsert(a, t, timeout) EXCEPT !.state[t] = bits]
           out  == OS_RdyListRemove(mid, t)
           new  == OS_Pend(ks, o, kind, timeout)
<1>1. ks \in TCBTables /\ ks.pendObj[t] = NoObj /\ t \in Task
      /\ \A q \in Obj : ListOf(ks.pend[q], Waiters(ks, q))
  <2>1. ks \in TCBTables
    BY DEF Good
  <2>2. ks.pendObj[t] = NoObj
    BY DEF Good, PendAgrees
  <2> QED BY <2>1, <2>2, PendAgreesLists DEF Good
<1>2. new = OS_PendListInsertPrio(out, o, t)
  BY DEF OS_Pend, OS_TaskBlock
<1>3. bits \in TaskStates /\ bits # {} /\ (timeout > 0 <=> "DLY" \in bits)
      /\ "PEND" \in bits /\ "SUSPENDED" \notin bits
  BY DEF TaskStates
<1> HIDE DEF bits
<1>4. /\ mid \in TCBTables
      /\ mid.state = [ks.state EXCEPT ![t] = bits]
      /\ mid.pendOn = [ks.pendOn EXCEPT ![t] = kind]
      /\ mid.pendObj = [ks.pendObj EXCEPT ![t] = o]
      /\ mid.pendStatus = [ks.pendStatus EXCEPT ![t] = "OK"]
      /\ mid.tick = [ks.tick EXCEPT ![t] = timeout]
      /\ mid.prio = ks.prio /\ mid.susp = ks.susp /\ mid.rdy = ks.rdy
      /\ mid.pend = ks.pend /\ mid.cur = ks.cur /\ mid.prioCur = ks.prioCur
  <2>1. mid = [ks EXCEPT !.pendOn[t] = kind, !.pendStatus[t] = "OK",
                         !.pendObj[t] = o, !.tick[t] = timeout, !.state[t] = bits]
    BY <1>1 DEF OS_TickListInsert, TCBTables
  <2>2. kind \in PendKind /\ "OK" \in Status
    BY DEF PendKind, Status
  <2> HIDE DEF mid, t
  <2>3. mid \in TCBTables
    BY <1>1, <1>3, <2>1, <2>2 DEF TCBTables
  <2> QED BY <1>1, <2>1, <2>3, ZenonT(60) DEF TCBTables
<1> HIDE DEF mid
<1>5. /\ out \in TCBTables /\ ReadyAgrees(out)
      /\ out.state = mid.state /\ out.prio = mid.prio
      /\ out.pendOn = mid.pendOn /\ out.pendObj = mid.pendObj
      /\ out.pendStatus = mid.pendStatus
      /\ out.tick = mid.tick /\ out.susp = mid.susp /\ out.pend = mid.pend
      /\ out.cur = mid.cur /\ out.prioCur = mid.prioCur
  BY <1>1, <1>3, <1>4, LeaveReady
<1> HIDE DEF out
<1>6. /\ OnlyPend(out, new, o, Waiters(ks, o) \cup {t})
      /\ SortedByPrio(out.pend[o], out.prio) => SortedByPrio(new.pend[o], out.prio)
  <2>1. ListOf(out.pend[o], Waiters(ks, o)) /\ t \notin Waiters(ks, o)
    BY <1>1, <1>4, <1>5, CoreAssumption DEF Waiters
  <2> QED BY <1>1, <1>2, <1>5, <2>1, PendListInsertPrio
<1> HIDE DEF new
<1>7. /\ new.state = [ks.state EXCEPT ![t] = bits]
      /\ new.pendOn = [ks.pendOn EXCEPT ![t] = kind]
      /\ new.pendObj = [ks.pendObj EXCEPT ![t] = o]
      /\ new.pendStatus = [ks.pendStatus EXCEPT ![t] = "OK"]
      /\ new.tick = [ks.tick EXCEPT ![t] = timeout]
      /\ new.prio = ks.prio /\ new.susp = ks.susp /\ new.rdy = out.rdy
      /\ new.cur = ks.cur /\ new.prioCur = ks.prioCur
  BY <1>4, <1>5, <1>6, OnlyPendKeeps
<1>8. new \in TCBTables /\ ListOf(new.pend[o], Waiters(ks, o) \cup {t})
      /\ \A q \in Obj \ {o} : new.pend[q] = ks.pend[q]
  BY <1>4, <1>5, <1>6 DEF OnlyPend
<1>9. ReadyAgrees(new)
  BY <1>4, <1>5, <1>7 DEF ReadyAgrees
<1>10. ASSUME NEW u \in Task
       PROVE  /\ u # t => /\ new.state[u] = ks.state[u]
                          /\ new.pendObj[u] = ks.pendObj[u]
                          /\ new.pendOn[u] = ks.pendOn[u]
                          /\ new.tick[u] = ks.tick[u]
              /\ new.state[t] = bits /\ new.pendObj[t] = o
              /\ new.pendOn[t] = kind /\ new.tick[t] = timeout
  BY <1>1, <1>7 DEF TCBTables
<1> HIDE DEF t
<1>11. PendAgrees(new)
  <2>1. ASSUME NEW q \in Obj
        PROVE  Waiters(new, q) = IF q = o THEN Waiters(ks, o) \cup {t} ELSE Waiters(ks, q)
    <3>1. \A u \in Task \ {t} : u \in Waiters(new, q) <=> u \in Waiters(ks, q)
      BY <1>10 DEF Waiters
    <3>2. t \in Waiters(new, q) <=> q = o
      BY <1>1, <1>10 DEF Waiters
    <3>3. t \notin Waiters(ks, q)
      BY <1>1, CoreAssumption DEF Waiters
    <3> QED BY <1>1, <3>1, <3>2, <3>3 DEF Waiters
  <2>2. \A q \in Obj : ListOf(new.pend[q], Waiters(new, q))
    BY <1>1, <1>8, <2>1
  <2>3. ASSUME NEW u \in Task
        PROVE  /\ new.pendObj[u] # NoObj <=> "PEND" \in new.state[u]
               /\ new.pendOn[u] # "NOTHING" <=> "PEND" \in new.state[u]
    <3>1. CASE u = t
      BY <1>3, <1>10, <3>1, CoreAssumption
    <3>2. CASE u # t
      BY <1>10, <3>2 DEF Good, PendAgrees
    <3> QED BY <3>1, <3>2
  <2> QED BY <1>8, <2>2, <2>3, PendAgreesLists
<1>12. BitsAgree(new)
  <2>1. ks.susp[t] > 0 <=> "SUSPENDED" \in new.state[t]
    BY <1>1, <1>3, <1>10 DEF Good, BitsAgree, t
  <2> QED BY <1>7, <1>10, <2>1 DEF Good, BitsAgree
<1>13. TicksAgree(new)
  BY <1>3, <1>10 DEF Good, TicksAgree
<1>14. IdleReady(new)
  BY <1>7, <1>10, CoreAssumption DEF Good, IdleReady, t
<1>s. Sorted(new)
  BY <1>4, <1>5, <1>6, <1>7, <1>8 DEF Good, Sorted
<1>15. Good(new) /\ Blocks(ks, new, t, bits)
  BY <1>7, <1>8, <1>9, <1>11, <1>12, <1>13, <1>14, <1>s DEF Good, Blocks
<1> QED BY <1>7, <1>8, <1>15 DEF new, t, bits

(* Suspension, whose two cases differ in whether u was ready.              *)
LEMMA SuspendGood ==
  ASSUME NEW ks, Good(ks), NEW u \in Task \ {Idle}, ks.susp[u] < MaxSusp,
         ks.state[u] # {"DEL"}
  PROVE  LET new == OS_TaskSuspend(ks, u)
         IN  /\ Good(new)
             /\ new.state = [ks.state EXCEPT ![u] = @ \cup {"SUSPENDED"}]
             /\ new.cur = ks.cur /\ new.prioCur = ks.prioCur /\ new.pend = ks.pend
             /\ new.prio = ks.prio /\ new.pendObj = ks.pendObj
             /\ new.pendStatus = ks.pendStatus
<1> DEFINE bits   == ks.state[u] \cup {"SUSPENDED"}
           marked == [ks EXCEPT !.state[u] = @ \cup {"SUSPENDED"},
                                !.susp[u] = @ + 1]
           new    == OS_TaskSuspend(ks, u)
<1>1. ks \in TCBTables /\ ks.susp[u] + 1 \in 0..MaxSusp /\ bits \in TaskStates
  <2>1. ks \in TCBTables
    BY DEF Good
  <2>2. ks.state[u] \in TaskStates /\ ks.susp[u] \in 0..MaxSusp
    BY <2>1 DEF TCBTables
  <2>3. bits \in TaskStates
    BY <2>2, StateCases
  <2>4. ks.susp[u] + 1 \in 0..MaxSusp
    BY <2>2, CoreAssumption
  <2> QED BY <2>1, <2>3, <2>4
<1>2. /\ marked \in TCBTables
      /\ marked.state = [ks.state EXCEPT ![u] = bits]
      /\ marked.susp = [ks.susp EXCEPT ![u] = @ + 1]
      /\ marked.pendOn = ks.pendOn /\ marked.pendObj = ks.pendObj
      /\ marked.pendStatus = ks.pendStatus
      /\ marked.tick = ks.tick /\ marked.prio = ks.prio /\ marked.rdy = ks.rdy
      /\ marked.pend = ks.pend /\ marked.cur = ks.cur /\ marked.prioCur = ks.prioCur
  BY <1>1 DEF TCBTables
<1>3. bits # {}
      /\ new = IF ks.state[u] = {} THEN OS_RdyListRemove(marked, u) ELSE marked
  BY DEF OS_TaskSuspend
<1> HIDE DEF marked, bits, new
<1>4. /\ new \in TCBTables /\ ReadyAgrees(new)
      /\ new.state = marked.state /\ new.prio = marked.prio
      /\ new.pendOn = marked.pendOn /\ new.pendObj = marked.pendObj
      /\ new.pendStatus = marked.pendStatus
      /\ new.tick = marked.tick /\ new.susp = marked.susp
      /\ new.pend = marked.pend /\ new.cur = marked.cur
      /\ new.prioCur = marked.prioCur
  <2>1. CASE ks.state[u] = {}
    BY <1>2, <1>3, <2>1, LeaveReady
  <2>2. CASE ks.state[u] # {}
    <3>1. new = marked
      BY <1>3, <2>2
    <3>2. \A v \in Task : marked.state[v] = {} <=> ks.state[v] = {}
      BY <1>1, <1>2, <1>3, <2>2 DEF TCBTables
    <3>3. ReadyAgrees(marked)
      BY <1>2, <3>2 DEF Good, ReadyAgrees
    <3> QED BY <1>2, <3>1, <3>3
  <2> QED BY <2>1, <2>2
<1>5. ASSUME NEW v \in Task
      PROVE  /\ v # u => new.state[v] = ks.state[v] /\ new.susp[v] = ks.susp[v]
             /\ new.state[u] = ks.state[u] \cup {"SUSPENDED"}
             /\ new.susp[u] = ks.susp[u] + 1
  <2>1. ks.state \in [Task -> TaskStates] /\ ks.susp \in [Task -> 0..MaxSusp]
    BY <1>1 DEF TCBTables
  <2>2. /\ new.state = [ks.state EXCEPT ![u] = bits]
        /\ new.susp = [ks.susp EXCEPT ![u] = @ + 1]
    BY <1>2, <1>4
  <2> QED BY <2>1, <2>2 DEF bits
<1>6. \A v \in Task : /\ "PEND" \in new.state[v] <=> "PEND" \in ks.state[v]
                      /\ "DLY" \in new.state[v] <=> "DLY" \in ks.state[v]
  BY <1>5
<1>7. PendAgrees(new)
  BY <1>2, <1>4, <1>6 DEF Good, PendAgrees
<1>8. BitsAgree(new)
  <2>1. new.susp[u] > 0 /\ "SUSPENDED" \in new.state[u]
    BY <1>1, <1>5 DEF TCBTables
  <2> QED BY <1>5, <2>1 DEF Good, BitsAgree
<1>9. TicksAgree(new)
  BY <1>2, <1>4, <1>6 DEF Good, TicksAgree
<1>10. IdleReady(new)
  BY <1>2, <1>4, <1>5, CoreAssumption DEF Good, IdleReady
<1>11. Good(new)
  BY <1>2, <1>4, <1>7, <1>8, <1>9, <1>10 DEF Good, Sorted
<1> QED BY <1>2, <1>4, <1>11 DEF new, marked, bits

(* Resumption: u is ready again when nothing else holds it.                *)
LEMMA ResumeGood ==
  ASSUME NEW ks, Good(ks), NEW u \in Task
  PROVE  LET new == OS_TaskResume(ks, u)
         IN  /\ Good(new)
             /\ \A v \in Task \ {u} : new.state[v] = ks.state[v]
             /\ new.cur = ks.cur /\ new.prioCur = ks.prioCur /\ new.pend = ks.pend
             /\ new.prio = ks.prio /\ new.pendObj = ks.pendObj
             /\ new.pendStatus = ks.pendStatus
             /\ "PEND" \in new.state[u] <=> "PEND" \in ks.state[u]
<1> DEFINE p      == ks.prio[u]
           less   == [ks EXCEPT !.susp[u] = @ - 1]
           active == [less EXCEPT !.state[u] = @ \ {"SUSPENDED"}]
           new    == OS_TaskResume(ks, u)
<1>1. /\ ks \in TCBTables /\ p \in Prio
      /\ \A q \in Prio : ListOf(ks.rdy[q], ReadyAt(ks, q))
  BY ReadyAgreesLists DEF Good, TCBTables
<1>2. CASE "SUSPENDED" \notin ks.state[u]
  BY <1>2 DEF OS_TaskResume
<1>3. CASE "SUSPENDED" \in ks.state[u]
  <2>1. ks.susp[u] > 0 /\ ks.susp[u] \in Nat /\ ks.susp[u] - 1 \in 0..MaxSusp /\ u # Idle
    <3>1. ks.susp[u] > 0 /\ u # Idle
      BY <1>3 DEF Good, BitsAgree, IdleReady
    <3>2. ks.susp[u] \in 0..MaxSusp /\ MaxSusp \in Nat
      BY <1>1, CoreAssumption DEF TCBTables
    <3> QED BY <3>1, <3>2
  <2>2. /\ less \in TCBTables
        /\ less.susp = [ks.susp EXCEPT ![u] = @ - 1]
        /\ less.state = ks.state
        /\ less.pendOn = ks.pendOn /\ less.pendObj = ks.pendObj
        /\ less.pendStatus = ks.pendStatus
        /\ less.tick = ks.tick /\ less.prio = ks.prio /\ less.rdy = ks.rdy
        /\ less.pend = ks.pend /\ less.cur = ks.cur /\ less.prioCur = ks.prioCur
    BY <1>1, <2>1 DEF TCBTables
  <2>3. /\ active \in TCBTables
        /\ active.susp = less.susp
        /\ active.state = [ks.state EXCEPT ![u] = @ \ {"SUSPENDED"}]
        /\ active.pendOn = ks.pendOn /\ active.pendObj = ks.pendObj
        /\ active.pendStatus = ks.pendStatus
        /\ active.tick = ks.tick /\ active.prio = ks.prio /\ active.rdy = ks.rdy
        /\ active.pend = ks.pend /\ active.cur = ks.cur /\ active.prioCur = ks.prioCur
    <3> HIDE DEF less
    <3>1. less.state[u] \ {"SUSPENDED"} \in TaskStates
      BY <2>2, StateCases DEF TCBTables
    <3> QED BY <2>2, <3>1 DEF TCBTables
  <2>4. new = IF ks.susp[u] > 1 THEN less
              ELSE IF ks.state[u] = {"SUSPENDED"} THEN OS_TaskRdy(active, u)
              ELSE active
    BY <1>3 DEF OS_TaskResume
  <2> HIDE DEF less, active, new
  <2>5. CASE ks.susp[u] > 1
    <3>1. new = less
      BY <2>4, <2>5
    <3>2. \A v \in Task : less.susp[v] > 0 <=> ks.susp[v] > 0
      BY <1>1, <2>1, <2>2, <2>5 DEF TCBTables
    <3>3. Good(less)
      BY <2>2, <3>2
         DEF Good, ReadyAgrees, PendAgrees, BitsAgree, TicksAgree, Sorted, IdleReady
    <3> QED BY <2>2, <3>1, <3>3 DEF new
  <2>6. CASE ~(ks.susp[u] > 1)
    <3> DEFINE last == IF ks.state[u] = {"SUSPENDED"} THEN OS_TaskRdy(active, u)
                       ELSE active
               S    == IF ks.state[u] = {"SUSPENDED"} THEN ReadyAt(ks, p) \cup {u}
                       ELSE ReadyAt(ks, p)
    <3>1. new = last
      BY <2>4, <2>6
    <3>2. u \notin ReadyAt(ks, p)
      BY <1>3 DEF ReadyAt
    <3>3. active.state[u] = ks.state[u] \ {"SUSPENDED"} /\ active.susp[u] = 0
      BY <1>1, <2>1, <2>2, <2>3, <2>6 DEF TCBTables
    <3>4. /\ last \in TCBTables
          /\ last.state = active.state /\ last.prio = ks.prio
          /\ last.pendOn = ks.pendOn /\ last.pendObj = ks.pendObj
          /\ last.pendStatus = ks.pendStatus
          /\ last.tick = ks.tick
          /\ last.susp = active.susp /\ last.pend = ks.pend
          /\ last.cur = ks.cur /\ last.prioCur = ks.prioCur
          /\ \A q \in Prio \ {p} : last.rdy[q] = ks.rdy[q]
          /\ ListOf(last.rdy[p], S)
      <4>1. CASE ks.state[u] = {"SUSPENDED"}
        <5> DEFINE r == OS_TaskRdy(active, u)
        <5>1. ListOf(active.rdy[active.prio[u]], ReadyAt(ks, p))
          BY <1>1, <2>3
        <5>2. /\ r \in TCBTables
              /\ r.tick = [active.tick EXCEPT ![u] = 0]
              /\ r.state = active.state /\ r.prio = active.prio
              /\ r.pendOn = active.pendOn /\ r.pendObj = active.pendObj
              /\ r.pendStatus = active.pendStatus
              /\ r.susp = active.susp /\ r.pend = active.pend
              /\ r.cur = active.cur /\ r.prioCur = active.prioCur
              /\ \A q \in Prio \ {active.prio[u]} : r.rdy[q] = active.rdy[q]
              /\ ListOf(r.rdy[active.prio[u]],
                        IF "SUSPENDED" \in active.state[u] THEN ReadyAt(ks, p)
                        ELSE ReadyAt(ks, p) \cup {u})
          BY <2>3, <3>2, <5>1, TaskRdy
        <5>3. ks.tick[u] = 0 /\ ks.tick \in [Task -> Nat]
          BY <1>1, <4>1 DEF Good, TicksAgree, TCBTables
        <5>4. [ks.tick EXCEPT ![u] = 0] = ks.tick
          BY <5>3
        <5> HIDE DEF r
        <5>5. last = r
          BY <4>1 DEF r
        <5> QED BY <2>3, <3>3, <4>1, <5>2, <5>4, <5>5
      <4>2. CASE ks.state[u] # {"SUSPENDED"}
        BY <1>1, <2>3, <4>2
      <4> QED BY <4>1, <4>2
    <3> HIDE DEF last
    <3>5. ASSUME NEW v \in Task
          PROVE  /\ v # u => last.state[v] = ks.state[v] /\ last.susp[v] = ks.susp[v]
                 /\ last.state[u] = ks.state[u] \ {"SUSPENDED"} /\ last.susp[u] = 0
      <4>1. last.state = [ks.state EXCEPT ![u] = @ \ {"SUSPENDED"}]
            /\ last.susp = [ks.susp EXCEPT ![u] = @ - 1]
        BY <2>2, <2>3, <3>4
      <4>2. ks.state \in [Task -> TaskStates] /\ ks.susp \in [Task -> 0..MaxSusp]
        BY <1>1 DEF TCBTables
      <4>3. last.susp[u] = 0
        BY <3>3, <3>4
      <4> QED BY <4>1, <4>2, <4>3
    <3>6. ReadyAgrees(last)
      <4>1. ASSUME NEW q \in Prio
            PROVE  ReadyAt(last, q) = IF q = p THEN S ELSE ReadyAt(ks, q)
        <5>1. \A v \in Task \ {u} : v \in ReadyAt(last, q) <=> v \in ReadyAt(ks, q)
          BY <3>4, <3>5 DEF ReadyAt
        <5>2. u \notin ReadyAt(ks, q)
          BY <1>3 DEF ReadyAt
        <5>3. last.state[u] = {} <=> ks.state[u] = {"SUSPENDED"}
          BY <1>3, <3>5
        <5>4. u \in ReadyAt(last, q) <=> ks.state[u] = {"SUSPENDED"} /\ q = p
          BY <3>4, <5>3 DEF ReadyAt
        <5> QED BY <5>1, <5>2, <5>4 DEF ReadyAt
      <4>2. \A q \in Prio : ListOf(last.rdy[q], ReadyAt(last, q))
        BY <1>1, <3>4, <4>1
      <4> QED BY <3>4, <4>2, ReadyAgreesLists
    <3>7. \A v \in Task : /\ "PEND" \in last.state[v] <=> "PEND" \in ks.state[v]
                          /\ "DLY" \in last.state[v] <=> "DLY" \in ks.state[v]
      BY <3>5
    <3>8. PendAgrees(last)
      BY <3>4, <3>7 DEF Good, PendAgrees
    <3>9. BitsAgree(last)
      BY <3>5 DEF Good, BitsAgree
    <3>10. TicksAgree(last)
      BY <3>4, <3>7 DEF Good, TicksAgree
    <3>11. IdleReady(last)
      BY <2>1, <3>4, <3>5, CoreAssumption DEF Good, IdleReady
    <3>12. Good(last)
      BY <3>4, <3>6, <3>8, <3>9, <3>10, <3>11 DEF Good, Sorted
    <3> QED BY <3>1, <3>4, <3>5, <3>7, <3>12 DEF new
  <2> QED BY <2>5, <2>6
<1> QED BY <1>2, <1>3

(* OSTimeDly(): the running task waits for a time.                         *)
LEMMA DelayGood ==
  ASSUME NEW ks, Good(ks), NEW t \in Task \ {Idle}, ks.state[t] = {},
         NEW n \in 1..MaxDly
  PROVE  LET new == Delay(ks, t, n)
         IN  /\ Good(new)
             /\ Blocks(ks, new, t, {"DLY"})
             /\ new.pend = ks.pend /\ new.pendObj = ks.pendObj
             /\ new.pendStatus = ks.pendStatus
<1> DEFINE mid == OS_TickListInsert([ks EXCEPT !.state[t] = {"DLY"}], t, n)
           new == Delay(ks, t, n)
<1>1. ks \in TCBTables /\ n \in 0..MaxDly /\ n > 0
  BY DEF Good
<1>2. /\ mid \in TCBTables
      /\ mid.state = [ks.state EXCEPT ![t] = {"DLY"}]
      /\ mid.tick = [ks.tick EXCEPT ![t] = n]
      /\ mid.pendOn = ks.pendOn /\ mid.pendObj = ks.pendObj
      /\ mid.pendStatus = ks.pendStatus
      /\ mid.prio = ks.prio /\ mid.susp = ks.susp /\ mid.rdy = ks.rdy
      /\ mid.pend = ks.pend /\ mid.cur = ks.cur /\ mid.prioCur = ks.prioCur
  <2>1. mid = [ks EXCEPT !.state[t] = {"DLY"}, !.tick[t] = n]
    BY <1>1 DEF OS_TickListInsert, TCBTables
  <2>2. {"DLY"} \in TaskStates
    BY DEF TaskStates
  <2> HIDE DEF mid
  <2> QED BY <1>1, <2>1, <2>2 DEF TCBTables
<1> HIDE DEF mid
<1>3. new = OS_RdyListRemove(mid, t)
  BY DEF Delay, mid
<1> HIDE DEF new
<1>4. /\ new \in TCBTables /\ ReadyAgrees(new)
      /\ new.state = mid.state /\ new.prio = mid.prio
      /\ new.pendOn = mid.pendOn /\ new.pendObj = mid.pendObj
      /\ new.pendStatus = mid.pendStatus
      /\ new.tick = mid.tick /\ new.susp = mid.susp /\ new.pend = mid.pend
      /\ new.cur = mid.cur /\ new.prioCur = mid.prioCur
  <2>1. {"DLY"} # {}
    OBVIOUS
  <2> QED BY <1>2, <1>3, <2>1, LeaveReady
<1>5. ASSUME NEW v \in Task
      PROVE  /\ v # t => new.state[v] = ks.state[v] /\ new.tick[v] = ks.tick[v]
             /\ new.state[t] = {"DLY"} /\ new.tick[t] = n
  <2>1. new.state = [ks.state EXCEPT ![t] = {"DLY"}]
        /\ new.tick = [ks.tick EXCEPT ![t] = n]
    BY <1>2, <1>4
  <2>2. ks.state \in [Task -> TaskStates] /\ ks.tick \in [Task -> 0..MaxDly]
    BY <1>1 DEF TCBTables
  <2> QED BY <2>1, <2>2
<1>6. \A v \in Task :
        /\ "PEND" \in new.state[v] <=> "PEND" \in ks.state[v]
        /\ "SUSPENDED" \in new.state[v] <=> "SUSPENDED" \in ks.state[v]
  BY <1>5
<1>7. PendAgrees(new)
  BY <1>2, <1>4, <1>6 DEF Good, PendAgrees
<1>8. BitsAgree(new)
  BY <1>2, <1>4, <1>6 DEF Good, BitsAgree
<1>9. TicksAgree(new)
  BY <1>1, <1>5 DEF Good, TicksAgree
<1>10. IdleReady(new)
  BY <1>2, <1>4, <1>5, CoreAssumption DEF Good, IdleReady
<1>11. Good(new) /\ Blocks(ks, new, t, {"DLY"})
  BY <1>2, <1>4, <1>7, <1>8, <1>9, <1>10 DEF Good, Sorted, Blocks
<1> QED BY <1>2, <1>4, <1>11 DEF new

-----------------------------------------------------------------------------
(* Priorities, switching and the tick.                                     *)

(* The priority of a task in no pend list does not matter to their order.  *)
LEMMA SortedNotWaiting ==
  ASSUME NEW ks, Good(ks), NEW u \in Task, "PEND" \notin ks.state[u],
         NEW p \in Prio, NEW new,
         new.prio = [ks.prio EXCEPT ![u] = p], new.pend = ks.pend
  PROVE  Sorted(new)
<1>1. /\ ks.prio \in [Task -> Prio] /\ ks.pendObj[u] = NoObj
      /\ \A q \in Obj : ListOf(ks.pend[q], Waiters(ks, q))
  BY PendAgreesLists DEF Good, PendAgrees, TCBTables
<1>2. new.prio \in [Task -> Prio] /\ \A v \in Task \ {u} : new.prio[v] = ks.prio[v]
  BY <1>1
<1>3. ASSUME NEW q \in Obj PROVE SortedByPrio(new.pend[q], new.prio)
  <2>1. u \notin Waiters(ks, q) /\ Waiters(ks, q) \in SUBSET Task
    BY <1>1, CoreAssumption DEF Waiters
  <2>2. \A v \in Waiters(ks, q) : new.prio[v] = ks.prio[v]
    BY <1>2, <2>1
  <2>3. SortedByPrio(ks.pend[q], ks.prio)
    BY DEF Good, Sorted
  <2> QED BY <1>1, <1>2, <2>1, <2>2, <2>3, SortedOthers, ZenonT(60)
<1> QED BY <1>3 DEF Sorted

(* A pending task's priority changes, and its place in the pend list.      *)
LEMMA PendListChangePrioGood ==
  ASSUME NEW ks, Good(ks), NEW u \in Task \ {Idle}, "PEND" \in ks.state[u],
         NEW p \in Prio
  PROVE  LET new == OS_PendListChangePrio(ks, u, p)
         IN  /\ Good(new)
             /\ new.prio = [ks.prio EXCEPT ![u] = p]
             /\ new.state = ks.state
             /\ new.cur = ks.cur /\ new.prioCur = ks.prioCur
             /\ new.pendObj = ks.pendObj /\ new.pendStatus = ks.pendStatus
             /\ \A q \in Obj : new.pend[q] = << >> <=> ks.pend[q] = << >>
<1> DEFINE o    == ks.pendObj[u]
           set  == [ks EXCEPT !.prio[u] = p]
           left == [set EXCEPT !.pend[o] = Without(@, u)]
           back == OS_PendListInsertPrio(left, o, u)
           new  == OS_PendListChangePrio(ks, u, p)
<1>1. /\ ks \in TCBTables /\ o \in Obj /\ u \in Waiters(ks, o)
      /\ \A q \in Obj : ListOf(ks.pend[q], Waiters(ks, q))
  <2>1. ks \in TCBTables
    BY DEF Good
  <2>2. o \in Obj
    BY <2>1 DEF Good, PendAgrees, TCBTables
  <2> QED BY <2>1, <2>2, PendAgreesLists DEF Good, Waiters
<1>2. /\ set \in TCBTables
      /\ set.prio = [ks.prio EXCEPT ![u] = p]
      /\ set.state = ks.state /\ set.pendOn = ks.pendOn
      /\ set.pendObj = ks.pendObj /\ set.pendStatus = ks.pendStatus
      /\ set.tick = ks.tick /\ set.susp = ks.susp /\ set.rdy = ks.rdy
      /\ set.pend = ks.pend /\ set.cur = ks.cur /\ set.prioCur = ks.prioCur
  BY <1>1 DEF TCBTables
<1>3. ListOf(Without(ks.pend[o], u), Waiters(ks, o) \ {u})
  BY <1>1, ListOfWithout
<1>4. new = IF o = NoObj THEN set ELSE IF Len(ks.pend[o]) > 1 THEN back ELSE set
  BY DEF OS_PendListChangePrio
<1>5. o # NoObj
  BY <1>1, CoreAssumption
<1> HIDE DEF set
<1>6. OnlyPend(set, left, o, Waiters(ks, o) \ {u})
  <2> DEFINE s == Without(ks.pend[o], u)
  <2>1. left = [set EXCEPT !.pend[o] = s]
    BY <1>2
  <2> HIDE DEF s, left
  <2> QED BY <1>1, <1>2, <1>3, <2>1, ReplacePend DEF s
<1> HIDE DEF left
<1>7. /\ left \in TCBTables
      /\ left.prio = set.prio /\ left.state = ks.state /\ left.pendOn = ks.pendOn
      /\ left.pendObj = ks.pendObj /\ left.pendStatus = ks.pendStatus
      /\ left.tick = ks.tick /\ left.susp = ks.susp /\ left.rdy = ks.rdy
      /\ left.cur = ks.cur /\ left.prioCur = ks.prioCur
      /\ ListOf(left.pend[o], Waiters(ks, o) \ {u})
      /\ \A q \in Obj \ {o} : left.pend[q] = ks.pend[q]
  BY <1>1, <1>2, <1>6, OnlyPendKeeps, SMTT(30) DEF OnlyPend
<1>8. /\ OnlyPend(left, back, o, (Waiters(ks, o) \ {u}) \cup {u})
      /\ SortedByPrio(left.pend[o], left.prio) => SortedByPrio(back.pend[o], left.prio)
  BY <1>1, <1>7, PendListInsertPrio
<1> HIDE DEF back
<1>9. /\ back \in TCBTables
      /\ back.prio = set.prio /\ back.state = ks.state /\ back.pendOn = ks.pendOn
      /\ back.pendObj = ks.pendObj /\ back.pendStatus = ks.pendStatus
      /\ back.tick = ks.tick /\ back.susp = ks.susp /\ back.rdy = ks.rdy
      /\ back.cur = ks.cur /\ back.prioCur = ks.prioCur
      /\ ListOf(back.pend[o], (Waiters(ks, o) \ {u}) \cup {u})
      /\ \A q \in Obj \ {o} : back.pend[q] = ks.pend[q]
  <2>1. /\ back.prio = left.prio /\ back.state = left.state
        /\ back.pendOn = left.pendOn
        /\ back.pendObj = left.pendObj /\ back.pendStatus = left.pendStatus
        /\ back.tick = left.tick /\ back.susp = left.susp /\ back.rdy = left.rdy
        /\ back.cur = left.cur /\ back.prioCur = left.prioCur
    BY <1>1, <1>7, <1>8, OnlyPendKeeps
  <2>2. /\ back \in TCBTables
        /\ ListOf(back.pend[o], (Waiters(ks, o) \ {u}) \cup {u})
        /\ \A q \in Obj \ {o} : back.pend[q] = left.pend[q]
    BY <1>8 DEF OnlyPend
  <2> QED BY <1>7, <2>1, <2>2
<1>10. (Waiters(ks, o) \ {u}) \cup {u} = Waiters(ks, o)
  BY <1>1
<1> HIDE DEF new
<1>11. /\ new \in TCBTables
       /\ new.prio = [ks.prio EXCEPT ![u] = p]
       /\ new.state = ks.state /\ new.pendOn = ks.pendOn
       /\ new.pendObj = ks.pendObj /\ new.pendStatus = ks.pendStatus
       /\ new.tick = ks.tick /\ new.susp = ks.susp /\ new.rdy = ks.rdy
       /\ new.cur = ks.cur /\ new.prioCur = ks.prioCur
       /\ \A q \in Obj : ListOf(new.pend[q], Waiters(ks, q))
  BY <1>1, <1>2, <1>4, <1>5, <1>9, <1>10
<1>12. ReadyAgrees(new)
  <2>1. ks.state[u] # {} /\ ks.prio \in [Task -> Prio]
    BY <1>1 DEF TCBTables
  <2>2. \A v \in Task : ks.state[v] = {} => new.prio[v] = ks.prio[v]
    BY <1>11, <2>1
  <2>3. \A q \in Prio : ReadyAt(new, q) = ReadyAt(ks, q)
    BY <1>11, <2>2 DEF ReadyAt
  <2> QED BY <1>1, <1>11, <2>3, ReadyAgreesLists DEF Good
<1>13. \A q \in Obj : Waiters(new, q) = Waiters(ks, q)
  BY <1>11 DEF Waiters
<1>14. PendAgrees(new)
  <2>1. \A v \in Task : /\ new.pendObj[v] # NoObj <=> "PEND" \in new.state[v]
                        /\ new.pendOn[v] # "NOTHING" <=> "PEND" \in new.state[v]
    BY <1>11 DEF Good, PendAgrees
  <2> QED BY <1>11, <1>13, <2>1, PendAgreesLists
<1>15. BitsAgree(new) /\ TicksAgree(new)
  BY <1>11 DEF Good, BitsAgree, TicksAgree
<1>16. IdleReady(new)
  <2>1. ks.prio \in [Task -> Prio]
    BY <1>1 DEF TCBTables
  <2> QED BY <1>11, <2>1, CoreAssumption DEF Good, IdleReady
<1>17. \A q \in Obj : new.pend[q] = << >> <=> ks.pend[q] = << >>
  BY <1>1, <1>11, ListOfNone
<1>18. Sorted(new)
  <2>1. ks.prio \in [Task -> Prio] /\ set.prio \in [Task -> Prio]
        /\ \A v \in Task \ {u} : set.prio[v] = ks.prio[v]
    BY <1>1, <1>2 DEF TCBTables
  <2>2. ASSUME NEW q \in Obj \ {o} PROVE SortedByPrio(new.pend[q], new.prio)
    <3>1. new.pend[q] = ks.pend[q]
      BY <1>2, <1>4, <1>5, <1>9
    <3>2. u \notin Waiters(ks, q) /\ Waiters(ks, q) \in SUBSET Task
      BY <2>2 DEF Waiters
    <3>3. \A v \in Waiters(ks, q) : new.prio[v] = ks.prio[v]
      BY <1>2, <1>11, <2>1, <3>2
    <3>4. new.prio = set.prio /\ SortedByPrio(ks.pend[q], ks.prio)
      BY <1>2, <1>11 DEF Good, Sorted
    <3> QED BY <1>1, <2>1, <3>1, <3>2, <3>3, <3>4, SortedOthers
  <2>3. CASE Len(ks.pend[o]) > 1
    <3>1. left.pend[o] = Without(ks.pend[o], u) /\ left.prio = set.prio
      <4>1. set.pend = ks.pend /\ set \in TCBTables /\ o \in Obj
        BY <1>1, <1>2
      <4>2. left.pend[o] = Without(set.pend[o], u)
        BY <4>1 DEF TCBTables, left
      <4> QED BY <1>7, <4>1, <4>2
    <3>2. SortedByPrio(left.pend[o], ks.prio)
      <4>1. ks.pend[o] \in Seq(Task) /\ SortedByPrio(ks.pend[o], ks.prio)
        BY <1>1 DEF ListOf, Good, Sorted
      <4> QED BY <1>1, <3>1, <4>1, SortedWithout
    <3>3. Waiters(ks, o) \ {u} \in SUBSET Task
      BY DEF Waiters
    <3>4. \A v \in Waiters(ks, o) \ {u} : left.prio[v] = ks.prio[v]
      BY <2>1, <3>1, <3>3
    <3>5. SortedByPrio(left.pend[o], left.prio)
      BY <1>7, <2>1, <3>1, <3>2, <3>3, <3>4, SortedOthers
    <3>6. new = back /\ new.prio = left.prio
      BY <1>4, <1>5, <1>7, <1>9, <2>3
    <3>7. SortedByPrio(new.pend[o], new.prio)
      BY <1>8, <3>5, <3>6
    <3> QED BY <2>2, <3>7 DEF Sorted
  <2>4. CASE ~(Len(ks.pend[o]) > 1)
    <3>1. new.pend[o] = ks.pend[o]
      BY <1>2, <1>4, <1>5, <2>4
    <3>2. new.pend[o] \in Seq(Task) /\ Len(new.pend[o]) \in Nat
          /\ DOMAIN new.pend[o] = 1..Len(new.pend[o])
      BY <1>1, <1>11, LenProperties DEF TCBTables
    <3>3. SortedByPrio(new.pend[o], new.prio)
      BY <2>4, <3>1, <3>2 DEF SortedByPrio
    <3> QED BY <2>2, <3>3 DEF Sorted
  <2> QED BY <2>3, <2>4
<1> QED BY <1>11, <1>12, <1>14, <1>15, <1>16, <1>17, <1>18 DEF Good, new

(* A ready task moves from the ready list of its priority to that of p, at *)
(* either end.                                                             *)
LEMMA MoveReadyGood ==
  ASSUME NEW ks, Good(ks), NEW u \in Task \ {Idle}, ks.state[u] = {},
         NEW p \in Prio, NEW head \in BOOLEAN
  PROVE  LET moved == [OS_RdyListRemove(ks, u) EXCEPT !.prio[u] = p]
             new   == IF head THEN OS_RdyListInsertHead(moved, u)
                              ELSE OS_RdyListInsertTail(moved, u)
         IN  /\ Good(new)
             /\ new.prio = [ks.prio EXCEPT ![u] = p]
             /\ new.state = ks.state
             /\ new.cur = ks.cur /\ new.prioCur = ks.prioCur
             /\ new.pendObj = ks.pendObj /\ new.pendStatus = ks.pendStatus
             /\ new.pend = ks.pend
<1> DEFINE was   == ks.prio[u]
           off   == OS_RdyListRemove(ks, u)
           moved == [off EXCEPT !.prio[u] = p]
           new   == IF head THEN OS_RdyListInsertHead(moved, u)
                            ELSE OS_RdyListInsertTail(moved, u)
<1>1. /\ ks \in TCBTables /\ was \in Prio /\ u \in ReadyAt(ks, was)
      /\ \A q \in Prio : ListOf(ks.rdy[q], ReadyAt(ks, q))
  <2>1. ks \in TCBTables
    BY DEF Good
  <2>2. was \in Prio
    BY <2>1 DEF TCBTables
  <2> QED BY <2>1, <2>2, ReadyAgreesLists DEF Good, ReadyAt
<1>2. OnlyRdy(ks, off, was, ReadyAt(ks, was) \ {u})
  BY <1>1, RdyListRemove
<1> HIDE DEF off
<1>3. /\ off \in TCBTables
      /\ off.state = ks.state /\ off.prio = ks.prio
      /\ off.pendOn = ks.pendOn /\ off.pendObj = ks.pendObj
      /\ off.pendStatus = ks.pendStatus
      /\ off.tick = ks.tick /\ off.susp = ks.susp /\ off.pend = ks.pend
      /\ off.cur = ks.cur /\ off.prioCur = ks.prioCur
      /\ ListOf(off.rdy[was], ReadyAt(ks, was) \ {u})
      /\ \A q \in Prio \ {was} : off.rdy[q] = ks.rdy[q]
  BY <1>1, <1>2, OnlyRdyKeeps DEF OnlyRdy
<1>4. /\ moved \in TCBTables
      /\ moved.prio = [ks.prio EXCEPT ![u] = p]
      /\ moved.state = ks.state /\ moved.rdy = off.rdy
      /\ moved.pendOn = ks.pendOn /\ moved.pendObj = ks.pendObj
      /\ moved.pendStatus = ks.pendStatus
      /\ moved.tick = ks.tick /\ moved.susp = ks.susp /\ moved.pend = ks.pend
      /\ moved.cur = ks.cur /\ moved.prioCur = ks.prioCur
  BY <1>3 DEF TCBTables
<1>5. moved.prio[u] = p /\ \A v \in Task \ {u} : moved.prio[v] = ks.prio[v]
  BY <1>1, <1>4 DEF TCBTables
<1> HIDE DEF moved, was
<1>6. \A q \in Prio : ListOf(off.rdy[q], ReadyAt(ks, q) \ {u})
  <2>1. ASSUME NEW q \in Prio \ {was} PROVE ReadyAt(ks, q) \ {u} = ReadyAt(ks, q)
    BY DEF ReadyAt, was
  <2> QED BY <1>1, <1>3, <2>1
<1>7. OnlyRdy(moved, new, p, (ReadyAt(ks, p) \ {u}) \cup {u})
  <2>1. ListOf(moved.rdy[moved.prio[u]], ReadyAt(ks, p) \ {u})
    BY <1>4, <1>5, <1>6
  <2>2. /\ OnlyRdy(moved, OS_RdyListInsertHead(moved, u), p, (ReadyAt(ks, p) \ {u}) \cup {u})
        /\ OnlyRdy(moved, OS_RdyListInsertTail(moved, u), p, (ReadyAt(ks, p) \ {u}) \cup {u})
    BY <1>4, <1>5, <2>1, RdyListInsert
  <2> QED BY <2>2
<1> HIDE DEF new
<1>8. /\ new \in TCBTables
      /\ new.state = ks.state /\ new.prio = moved.prio
      /\ new.pendOn = ks.pendOn /\ new.pendObj = ks.pendObj
      /\ new.pendStatus = ks.pendStatus
      /\ new.tick = ks.tick /\ new.susp = ks.susp /\ new.pend = ks.pend
      /\ new.cur = ks.cur /\ new.prioCur = ks.prioCur
      /\ ListOf(new.rdy[p], (ReadyAt(ks, p) \ {u}) \cup {u})
      /\ \A q \in Prio \ {p} : new.rdy[q] = off.rdy[q]
  BY <1>4, <1>7, OnlyRdyKeeps DEF OnlyRdy
<1>9. ReadyAgrees(new)
  <2>1. ASSUME NEW q \in Prio
        PROVE  ReadyAt(new, q) = IF q = p THEN (ReadyAt(ks, p) \ {u}) \cup {u}
                                 ELSE ReadyAt(ks, q) \ {u}
    <3>1. \A v \in Task \ {u} : v \in ReadyAt(new, q) <=> v \in ReadyAt(ks, q)
      BY <1>5, <1>8 DEF ReadyAt
    <3>2. u \in ReadyAt(new, q) <=> q = p
      BY <1>5, <1>8 DEF ReadyAt
    <3> QED BY <3>1, <3>2 DEF ReadyAt
  <2>2. \A q \in Prio : ListOf(new.rdy[q], ReadyAt(new, q))
    BY <1>6, <1>8, <2>1
  <2> QED BY <1>8, <2>2, ReadyAgreesLists
<1>10. PendAgrees(new) /\ BitsAgree(new) /\ TicksAgree(new)
  BY <1>8 DEF Good, PendAgrees, BitsAgree, TicksAgree
<1>11. IdleReady(new)
  BY <1>5, <1>8, CoreAssumption DEF Good, IdleReady
<1>12. Good(new)
  <2>1. "PEND" \notin ks.state[u] /\ new.prio = [ks.prio EXCEPT ![u] = p]
    BY <1>4, <1>8
  <2>2. Sorted(new)
    BY <1>8, <2>1, SortedNotWaiting
  <2> QED BY <1>8, <1>9, <1>10, <1>11, <2>2 DEF Good
<1> QED BY <1>4, <1>8, <1>12 DEF new, moved, off

(* A change of the priority of a task that is neither ready nor pending.   *)
LEMMA SetPrioGood ==
  ASSUME NEW ks, Good(ks), NEW u \in Task \ {Idle}, ks.state[u] # {},
         "PEND" \notin ks.state[u], NEW p \in Prio
  PROVE  LET new == [ks EXCEPT !.prio[u] = p]
         IN  /\ Good(new)
             /\ new.prio = [ks.prio EXCEPT ![u] = p]
             /\ new.state = ks.state
             /\ new.cur = ks.cur /\ new.prioCur = ks.prioCur
             /\ new.pendObj = ks.pendObj /\ new.pendStatus = ks.pendStatus
             /\ new.pend = ks.pend
<1> DEFINE new == [ks EXCEPT !.prio[u] = p]
<1>1. ks \in TCBTables
  BY DEF Good
<1>2. /\ new \in TCBTables
      /\ new.prio = [ks.prio EXCEPT ![u] = p]
      /\ new.state = ks.state /\ new.pendOn = ks.pendOn
      /\ new.pendObj = ks.pendObj /\ new.pendStatus = ks.pendStatus
      /\ new.tick = ks.tick /\ new.susp = ks.susp /\ new.rdy = ks.rdy
      /\ new.pend = ks.pend /\ new.cur = ks.cur /\ new.prioCur = ks.prioCur
  BY <1>1 DEF TCBTables
<1> HIDE DEF new
<1>3. \A v \in Task \ {u} : new.prio[v] = ks.prio[v]
  BY <1>1, <1>2 DEF TCBTables
<1>4. \A q \in Prio : ReadyAt(new, q) = ReadyAt(ks, q)
  BY <1>2, <1>3 DEF ReadyAt
<1>5. ReadyAgrees(new)
  BY <1>1, <1>2, <1>4, ReadyAgreesLists DEF Good
<1>6. PendAgrees(new) /\ BitsAgree(new) /\ TicksAgree(new)
  BY <1>2 DEF Good, PendAgrees, BitsAgree, TicksAgree
<1>7. IdleReady(new)
  BY <1>2, <1>3, CoreAssumption DEF Good, IdleReady
<1>8. Good(new)
  <2>1. Sorted(new)
    BY <1>2, SortedNotWaiting
  <2> QED BY <1>2, <1>5, <1>6, <1>7, <2>1 DEF Good
<1> QED BY <1>2, <1>8 DEF new

LEMMA ChangePrioGood ==
  ASSUME NEW ks, Good(ks), NEW u \in Task \ {Idle}, NEW p \in Prio,
         NEW self \in BOOLEAN
  PROVE  LET new == ChangePrio(ks, u, p, self)
         IN  /\ Good(new)
             /\ new.prio = [ks.prio EXCEPT ![u] = p]
             /\ new.state = ks.state
             /\ new.cur = ks.cur /\ new.prioCur = ks.prioCur
             /\ new.pendObj = ks.pendObj /\ new.pendStatus = ks.pendStatus
             /\ \A q \in Obj : new.pend[q] = << >> <=> ks.pend[q] = << >>
<1>1. CASE ks.state[u] = {}
  <2> DEFINE moved == [OS_RdyListRemove(ks, u) EXCEPT !.prio[u] = p]
             new   == IF self THEN OS_RdyListInsertHead(moved, u)
                              ELSE OS_RdyListInsertTail(moved, u)
  <2>1. ChangePrio(ks, u, p, self) = new
    BY <1>1 DEF ChangePrio
  <2>2. /\ Good(new)
        /\ new.prio = [ks.prio EXCEPT ![u] = p]
        /\ new.state = ks.state
        /\ new.cur = ks.cur /\ new.prioCur = ks.prioCur
        /\ new.pendObj = ks.pendObj /\ new.pendStatus = ks.pendStatus
        /\ new.pend = ks.pend
    BY <1>1, MoveReadyGood
  <2> HIDE DEF new
  <2> QED BY <2>1, <2>2
<1>2. CASE ks.state[u] # {} /\ "PEND" \in ks.state[u]
  <2> DEFINE new == OS_PendListChangePrio(ks, u, p)
  <2>1. ChangePrio(ks, u, p, self) = new
    BY <1>2 DEF ChangePrio
  <2>2. /\ Good(new)
        /\ new.prio = [ks.prio EXCEPT ![u] = p]
        /\ new.state = ks.state
        /\ new.cur = ks.cur /\ new.prioCur = ks.prioCur
        /\ new.pendObj = ks.pendObj /\ new.pendStatus = ks.pendStatus
        /\ \A q \in Obj : new.pend[q] = << >> <=> ks.pend[q] = << >>
    BY <1>2, PendListChangePrioGood
  <2> HIDE DEF new
  <2> QED BY <2>1, <2>2
<1>3. CASE ks.state[u] # {} /\ "PEND" \notin ks.state[u]
  BY <1>3, SetPrioGood DEF ChangePrio
<1> QED BY <1>1, <1>2, <1>3

(* The switch to the highest priority ready task.                          *)
LEMMA TaskSwGood ==
  ASSUME NEW ks, Good(ks)
  PROVE  LET new == OS_TASK_SW(ks)
         IN  /\ Good(new)
             /\ new.cur \in Task /\ new.state[new.cur] = {}
             /\ new = ks \/ new.prioCur = new.prio[new.cur]
             /\ \A u \in Task : new.state[u] = {} => new.prio[new.cur] =< new.prio[u]
             /\ new.state = ks.state /\ new.pend = ks.pend
             /\ new.prio = ks.prio /\ new.pendObj = ks.pendObj
             /\ new.pendStatus = ks.pendStatus
<1> DEFINE h    == OS_PrioGetHighest(ks)
           high == OSTCBHighRdy(ks)
           new  == OS_TASK_SW(ks)
<1>1. /\ ks \in TCBTables /\ h \in Prio /\ high \in Task /\ ks.state[high] = {}
      /\ ks.prio[high] = h /\ \A u \in Task : ks.state[u] = {} => h =< ks.prio[u]
  BY PrioGetHighest DEF Good, ReadyAt
<1>2. new = IF high = ks.cur THEN ks ELSE [ks EXCEPT !.cur = high, !.prioCur = h]
  BY DEF OS_TASK_SW
<1> HIDE DEF new, h, high
<1>3. /\ new \in TCBTables
      /\ new.prio = ks.prio /\ new.state = ks.state /\ new.pendOn = ks.pendOn
      /\ new.pendObj = ks.pendObj /\ new.pendStatus = ks.pendStatus
      /\ new.tick = ks.tick /\ new.susp = ks.susp /\ new.rdy = ks.rdy
      /\ new.pend = ks.pend /\ new.cur = high
      /\ new = ks \/ new.prioCur = h
  BY <1>1, <1>2 DEF TCBTables
<1>4. Good(new)
  BY <1>3 DEF Good, ReadyAgrees, PendAgrees, BitsAgree, TicksAgree, Sorted, IdleReady
<1> QED BY <1>1, <1>3, <1>4 DEF new

(* The tick task counts the ticks down.                                    *)
LEMMA TickDownGood ==
  ASSUME NEW ks, Good(ks)
  PROVE  LET new == TickDown(ks)
         IN  /\ Good(new) /\ new.cur = TickTask
             /\ new.state = ks.state /\ new.pend = ks.pend
             /\ new.prio = ks.prio /\ new.pendObj = ks.pendObj
             /\ new.pendStatus = ks.pendStatus
             /\ \A t \in Task : ks.tick[t] > 0 => new.tick[t] > 0
<1> DEFINE left == [t \in Task |-> IF ks.tick[t] > 1 THEN ks.tick[t] - 1 ELSE ks.tick[t]]
           new  == TickDown(ks)
<1>1. ks \in TCBTables /\ ks.tick \in [Task -> 0..MaxDly] /\ MaxDly \in Nat
  BY CoreAssumption DEF Good, TCBTables
<1>2. left \in [Task -> 0..MaxDly] /\ \A t \in Task : left[t] > 0 <=> ks.tick[t] > 0
  BY <1>1
<1>3. new = [ks EXCEPT !.tick = left, !.cur = TickTask, !.prioCur = NoPrio]
  BY DEF TickDown
<1> HIDE DEF new, left
<1>4. /\ new \in TCBTables
      /\ new.prio = ks.prio /\ new.state = ks.state /\ new.pendOn = ks.pendOn
      /\ new.pendObj = ks.pendObj /\ new.pendStatus = ks.pendStatus
      /\ new.tick = left /\ new.susp = ks.susp /\ new.rdy = ks.rdy
      /\ new.pend = ks.pend /\ new.cur = TickTask
  BY <1>1, <1>2, <1>3 DEF TCBTables
<1>5. Good(new)
  BY <1>2, <1>4 DEF Good, ReadyAgrees, PendAgrees, BitsAgree, TicksAgree, Sorted, IdleReady
<1> QED BY <1>2, <1>4, <1>5 DEF new

-----------------------------------------------------------------------------
(* Walks of a pend list: the deletion of an object and the post of flags   *)
(* wake its waiters, or some of them, one by one.                          *)

(* What a walk does with the task t: it wakes those of W.                  *)
Visit(status, W, ks, t) ==
  IF t \notin W THEN ks
  ELSE IF status = "DEL" THEN OS_PendObjDel(ks, t) ELSE OS_FlagTaskRdy(ks, t)

MaxOf(D) == CHOOSE x \in D : \A y \in D : x >= y

LEMMA MaxIsOf ==
  ASSUME NEW k \in Nat, NEW D \in SUBSET (1..k), D # {}
  PROVE  MaxOf(D) \in D /\ \A y \in D : y =< MaxOf(D)
<1> DEFINE T == {k - x : x \in D}
<1>1. T \in SUBSET Nat /\ T # {}
  <2>1. \A x \in D : k - x \in Nat
    OBVIOUS
  <2> QED BY <2>1
<1>2. PICK m \in T : \A n \in T : m =< n
  <2> HIDE DEF T
  <2> QED BY <1>1, Least
<1>3. PICK x \in D : m = k - x
  BY <1>2
<1>4. ASSUME NEW y \in D PROVE x >= y
  <2>1. k - y \in T
    OBVIOUS
  <2> QED BY <1>2, <1>3, <2>1
<1>5. \E z \in D : \A y \in D : z >= y
  BY <1>4
<1>6. MaxOf(D) \in D /\ \A y \in D : MaxOf(D) >= y
  BY <1>5 DEF MaxOf
<1> QED BY <1>6

(* FoldLeft is a recursion over the sets of positions of s: g[D] is what   *)
(* the tables are when the tasks at the positions of D were visited.       *)
Walk(status, W, s, ks, k, g) ==
  g = [D \in SUBSET (1..k) |->
         IF D = {} THEN ks ELSE Visit(status, W, g[D \ {MaxOf(D)}], s[MaxOf(D)])]

LEMMA WalkPoints ==
  ASSUME NEW status, NEW W, NEW s, NEW ks, NEW k, NEW g
  PROVE  Walk(status, W, s, ks, k, g) <=>
           /\ g = [D \in SUBSET (1..k) |-> g[D]]
           /\ \A D \in SUBSET (1..k) :
                g[D] = IF D = {} THEN ks
                       ELSE Visit(status, W, g[D \ {MaxOf(D)}], s[MaxOf(D)])
<1>1. ASSUME Walk(status, W, s, ks, k, g)
      PROVE  /\ g = [D \in SUBSET (1..k) |-> g[D]]
             /\ \A D \in SUBSET (1..k) :
                  g[D] = IF D = {} THEN ks
                         ELSE Visit(status, W, g[D \ {MaxOf(D)}], s[MaxOf(D)])
  BY <1>1 DEF Walk
<1>2. ASSUME g = [D \in SUBSET (1..k) |-> g[D]],
             \A D \in SUBSET (1..k) :
               g[D] = IF D = {} THEN ks
                      ELSE Visit(status, W, g[D \ {MaxOf(D)}], s[MaxOf(D)])
      PROVE  Walk(status, W, s, ks, k, g)
  BY <1>2 DEF Walk
<1> QED BY <1>1, <1>2

LEMMA WalkOneMore ==
  ASSUME NEW status, NEW W, NEW s, NEW ks, NEW k \in Nat, NEW g,
         Walk(status, W, s, ks, k, g)
  PROVE  \E h : Walk(status, W, s, ks, k + 1, h)
<1> DEFINE h == [D \in SUBSET (1..k + 1) |->
                   IF k + 1 \in D THEN Visit(status, W, g[D \ {k + 1}], s[k + 1]) ELSE g[D]]
<1>1. \A D \in SUBSET (1..k) : g[D] = IF D = {} THEN ks
                                      ELSE Visit(status, W, g[D \ {MaxOf(D)}], s[MaxOf(D)])
  BY WalkPoints
<1>2. ASSUME NEW D \in SUBSET (1..k + 1)
      PROVE  h[D] = IF D = {} THEN ks
                    ELSE Visit(status, W, h[D \ {MaxOf(D)}], s[MaxOf(D)])
  <2>1. CASE D = {}
    <3>1. h[D] = g[D] /\ D \in SUBSET (1..k)
      BY <2>1
    <3> HIDE DEF h
    <3> QED BY <1>1, <2>1, <3>1
  <2>2. CASE k + 1 \in D
    <3>1. MaxOf(D) = k + 1
      <4>1. k + 1 \in Nat /\ D # {}
        BY <2>2
      <4>2. MaxOf(D) \in D /\ \A y \in D : y =< MaxOf(D)
        BY <4>1, MaxIsOf
      <4>3. MaxOf(D) \in 1..k + 1 /\ k + 1 =< MaxOf(D)
        BY <2>2, <4>2
      <4> QED BY <4>3
    <3>2. D \ {k + 1} \in SUBSET (1..k + 1) /\ k + 1 \notin D \ {k + 1} /\ D # {}
      BY <2>2
    <3>3. h[D \ {k + 1}] = g[D \ {k + 1}]
      BY <3>2
    <3>4. h[D] = Visit(status, W, g[D \ {k + 1}], s[k + 1])
      BY <2>2
    <3> HIDE DEF h
    <3> QED BY <3>1, <3>2, <3>3, <3>4
  <2>3. CASE D # {} /\ k + 1 \notin D
    <3>1. D \in SUBSET (1..k)
      BY <2>3
    <3>2. D \ {MaxOf(D)} \in SUBSET (1..k + 1) /\ k + 1 \notin D \ {MaxOf(D)}
      BY <2>3
    <3>3. h[D] = g[D] /\ h[D \ {MaxOf(D)}] = g[D \ {MaxOf(D)}]
      BY <2>3, <3>2
    <3> HIDE DEF h
    <3> QED BY <1>1, <2>3, <3>1, <3>3
  <2> QED BY <2>1, <2>2, <2>3
<1>3. h = [D \in SUBSET (1..k + 1) |-> h[D]]
  OBVIOUS
<1> HIDE DEF h
<1>4. Walk(status, W, s, ks, k + 1, h)
  <2> DEFINE n == k + 1
  <2>1. /\ h = [D \in SUBSET (1..n) |-> h[D]]
        /\ \A D \in SUBSET (1..n) :
             h[D] = IF D = {} THEN ks
                    ELSE Visit(status, W, h[D \ {MaxOf(D)}], s[MaxOf(D)])
    BY <1>2, <1>3
  <2> HIDE DEF n
  <2>2. Walk(status, W, s, ks, n, h)
    BY <2>1, WalkPoints
  <2> QED BY <2>2 DEF n
<1> QED BY <1>4

LEMMA WalkExists ==
  ASSUME NEW status, NEW W, NEW s, NEW ks, NEW n \in Nat
  PROVE  \E g : Walk(status, W, s, ks, n, g)
<1> DEFINE T == {k \in Nat : ~\E g : Walk(status, W, s, ks, k, g)}
<1> SUFFICES ASSUME T # {} PROVE FALSE
  OBVIOUS
<1>1. PICK m \in T : \A k \in T : m =< k
  <2>1. T \in SUBSET Nat
    OBVIOUS
  <2> HIDE DEF T
  <2> QED BY <2>1, Least
<1>2. CASE m = 0
  <2> DEFINE g == [D \in SUBSET (1..0) |-> ks]
  <2>1. \A D \in SUBSET (1..0) : D = {}
    OBVIOUS
  <2>2. Walk(status, W, s, ks, 0, g)
    BY <2>1 DEF Walk
  <2> QED BY <1>2, <2>2
<1>3. CASE m # 0
  <2>1. m - 1 \in Nat /\ m - 1 \notin T /\ (m - 1) + 1 = m
    BY <1>1, <1>3
  <2>2. PICK g : Walk(status, W, s, ks, m - 1, g)
    BY <2>1
  <2>3. \E h : Walk(status, W, s, ks, m, h)
    BY <2>1, <2>2, WalkOneMore
  <2> QED BY <2>3
<1> QED BY <1>2, <1>3

(* A walk visits one task after the other.                                 *)
LEMMA WalkSteps ==
  ASSUME NEW status, NEW W, NEW s, NEW ks, NEW n \in Nat, NEW g,
         Walk(status, W, s, ks, n, g)
  PROVE  /\ g[1..0] = ks
         /\ \A k \in 0..n - 1 : g[1..k + 1] = Visit(status, W, g[1..k], s[k + 1])
<1>1. \A D \in SUBSET (1..n) : g[D] = IF D = {} THEN ks
                                      ELSE Visit(status, W, g[D \ {MaxOf(D)}], s[MaxOf(D)])
  BY WalkPoints
<1>2. g[1..0] = ks
  <2>1. 1..0 = {} /\ {} \in SUBSET (1..n)
    OBVIOUS
  <2>2. g[{}] = ks
    BY <1>1, <2>1
  <2> QED BY <2>1, <2>2
<1>3. ASSUME NEW k \in 0..n - 1 PROVE g[1..k + 1] = Visit(status, W, g[1..k], s[k + 1])
  <2> DEFINE D == 1..k + 1
  <2>1. /\ k \in Nat /\ k + 1 \in Nat
        /\ D \in SUBSET (1..n) /\ D \in SUBSET (1..k + 1) /\ k + 1 \in D /\ D # {}
    OBVIOUS
  <2>2. MaxOf(D) = k + 1
    <3>1. MaxOf(D) \in D /\ \A y \in D : y =< MaxOf(D)
      BY <2>1, MaxIsOf
    <3> QED BY <2>1, <3>1
  <2>3. D \ {k + 1} = 1..k
    BY <2>1
  <2>4. g[D] = Visit(status, W, g[D \ {MaxOf(D)}], s[MaxOf(D)])
    BY <1>1, <2>1
  <2> QED BY <2>1, <2>2, <2>3, <2>4
<1> QED BY <1>2, <1>3

(* The folds of the model are walks: OS_PendObjDel of every task of s ...   *)
LEMMA FoldDel ==
  ASSUME NEW s \in Seq(Task), NEW o
  PROVE  \E g : /\ Walk("DEL", Task, s, o, Len(s), g)
                /\ FoldLeft(OS_PendObjDel, o, s) = g[1..Len(s)]
<1> DEFINE n == Len(s)
           Is(it) == it = [D \in SUBSET (1..n) |->
                             IF D = {} THEN o
                             ELSE OS_PendObjDel(it[D \ {MaxOf(D)}], s[MaxOf(D)])]
           c == CHOOSE it : Is(it)
<1>1. n \in Nat /\ DOMAIN s = 1..n /\ \A i \in 1..n : s[i] \in Task
  BY LenProperties
<1>2. FoldLeft(OS_PendObjDel, o, s) = c[1..n]
  <2>1. FoldLeft(OS_PendObjDel, o, s)
          = (CHOOSE it : it = [D \in SUBSET DOMAIN s |->
               IF D = {} THEN o
               ELSE OS_PendObjDel(it[D \ {Max(D)}], s[Max(D)])])[DOMAIN s]
    BY DEF FoldLeft, MapThenFoldSet
  <2>2. FoldLeft(OS_PendObjDel, o, s)
          = (CHOOSE it : it = [D \in SUBSET DOMAIN s |->
               IF D = {} THEN o
               ELSE OS_PendObjDel(it[D \ {MaxOf(D)}], s[MaxOf(D)])])[DOMAIN s]
    BY <2>1 DEF Max, MaxOf
  <2> QED BY <1>1, <2>2
<1>3. ASSUME NEW f, NEW D \in SUBSET (1..n), D # {}
      PROVE  OS_PendObjDel(f, s[MaxOf(D)]) = Visit("DEL", Task, f, s[MaxOf(D)])
  <2>1. MaxOf(D) \in 1..n
    BY <1>1, <1>3, MaxIsOf
  <2> QED BY <1>1, <2>1 DEF Visit
<1> HIDE DEF n
<1>4. ASSUME NEW it PROVE Is(it) <=> Walk("DEL", Task, s, o, n, it)
  <2>1. ASSUME NEW D \in SUBSET (1..n)
        PROVE  (IF D = {} THEN o ELSE OS_PendObjDel(it[D \ {MaxOf(D)}], s[MaxOf(D)]))
                 = (IF D = {} THEN o ELSE Visit("DEL", Task, it[D \ {MaxOf(D)}], s[MaxOf(D)]))
    BY <1>3
  <2> DEFINE a == [D \in SUBSET (1..n) |->
                     IF D = {} THEN o ELSE OS_PendObjDel(it[D \ {MaxOf(D)}], s[MaxOf(D)])]
             b == [D \in SUBSET (1..n) |->
                     IF D = {} THEN o
                     ELSE Visit("DEL", Task, it[D \ {MaxOf(D)}], s[MaxOf(D)])]
  <2>2. a = b
    BY <2>1
  <2>3. Walk("DEL", Task, s, o, n, it) <=> it = b
    BY DEF Walk
  <2> HIDE DEF b
  <2> QED BY <2>2, <2>3
<1> HIDE DEF Is
<1>5. Walk("DEL", Task, s, o, n, c)
  <2>1. \E it : Is(it)
    BY <1>1, <1>4, WalkExists
  <2>2. Is(c)
    BY <2>1
  <2> HIDE DEF c
  <2> QED BY <1>4, <2>2
<1> HIDE DEF c
<1> QED BY <1>2, <1>5 DEF n

(* ... and OS_FlagTaskRdy of those of W.                                   *)
LEMMA FoldFlag ==
  ASSUME NEW s \in Seq(Task), NEW o, NEW W
  PROVE  \E g : /\ Walk("OK", W, s, o, Len(s), g)
                /\ OS_FlagTasksRdy(o, s, W) = g[1..Len(s)]
<1> DEFINE n == Len(s)
           Is(it) == it = [D \in SUBSET (1..n) |->
                             IF D = {} THEN o
                             ELSE IF s[MaxOf(D)] \in W
                                  THEN OS_FlagTaskRdy(it[D \ {MaxOf(D)}], s[MaxOf(D)])
                                  ELSE it[D \ {MaxOf(D)}]]
           c == CHOOSE it : Is(it)
           fold == OS_FlagTasksRdy(o, s, W)
<1>1. n \in Nat /\ DOMAIN s = 1..n
  BY LenProperties
<1>2. fold = c[1..n]
  <2>1. fold = (CHOOSE it : it = [D \in SUBSET DOMAIN s |->
               IF D = {} THEN o
               ELSE IF s[Max(D)] \in W THEN OS_FlagTaskRdy(it[D \ {Max(D)}], s[Max(D)])
                    ELSE it[D \ {Max(D)}]])[DOMAIN s]
    BY DEF OS_FlagTasksRdy, FoldLeft, MapThenFoldSet
  <2>2. fold = (CHOOSE it : it = [D \in SUBSET DOMAIN s |->
               IF D = {} THEN o
               ELSE IF s[MaxOf(D)] \in W THEN OS_FlagTaskRdy(it[D \ {MaxOf(D)}], s[MaxOf(D)])
                    ELSE it[D \ {MaxOf(D)}]])[DOMAIN s]
    BY <2>1 DEF Max, MaxOf
  <2> HIDE DEF fold
  <2> QED BY <1>1, <2>2
<1> HIDE DEF fold
<1>3. ASSUME NEW it PROVE Is(it) <=> Walk("OK", W, s, o, n, it)
  <2>1. ASSUME NEW f, NEW t
        PROVE  (IF t \in W THEN OS_FlagTaskRdy(f, t) ELSE f) = Visit("OK", W, f, t)
    BY DEF Visit
  <2> DEFINE b == [D \in SUBSET (1..n) |->
                     IF D = {} THEN o
                     ELSE Visit("OK", W, it[D \ {MaxOf(D)}], s[MaxOf(D)])]
             a == [D \in SUBSET (1..n) |->
                     IF D = {} THEN o
                     ELSE IF s[MaxOf(D)] \in W
                          THEN OS_FlagTaskRdy(it[D \ {MaxOf(D)}], s[MaxOf(D)])
                          ELSE it[D \ {MaxOf(D)}]]
  <2>2. a = b
    BY <2>1
  <2>3. Walk("OK", W, s, o, n, it) <=> it = b
    BY DEF Walk
  <2> HIDE DEF b
  <2> QED BY <2>2, <2>3
<1> HIDE DEF Is, n
<1>4. Walk("OK", W, s, o, n, c)
  <2>1. \E it : Is(it)
    BY <1>1, <1>3, WalkExists
  <2>2. Is(c)
    BY <2>1
  <2> HIDE DEF c
  <2> QED BY <1>3, <2>2
<1> HIDE DEF c
<1> QED BY <1>2, <1>4 DEF n, fold

(* The tasks of D, which waited for s, were told status; the wait of no    *)
(* other task, and no other pend list, was touched.                        *)
Told(o, new, status, s, D) ==
  /\ Good(new) /\ new.cur = o.cur /\ new.prio = o.prio
  /\ \A t \in D : /\ new.pendObj[t] = NoObj /\ new.pendStatus[t] = status
                  /\ new.state[t] = o.state[t] \ {"DLY", "PEND"}
  /\ \A t \in Task \ D : /\ new.pendObj[t] = o.pendObj[t]
                         /\ new.pendStatus[t] = o.pendStatus[t]
                         /\ new.state[t] = o.state[t]
  /\ \A q \in Obj \ {s} : new.pend[q] = o.pend[q]

LEMMA ToldOneMore ==
  ASSUME NEW o, NEW mid, NEW status \in Status, NEW s \in Obj, NEW D \in SUBSET Task,
         Told(o, mid, status, s, D), NEW t \in Task \ D, o.pendObj[t] = s
  PROVE  Told(o, EndPend(mid, t, status), status, s, D \cup {t})
<1> DEFINE new == EndPend(mid, t, status)
<1>1. mid \in TCBTables /\ mid.pendObj[t] = s /\ s # NoObj /\ "PEND" \in mid.state[t]
  BY CoreAssumption DEF Told, Good, PendAgrees
<1>2. /\ Good(new) /\ Wakes(mid, new, t)
      /\ new.pendStatus = [mid.pendStatus EXCEPT ![t] = status]
      /\ new.pend = [mid.pend EXCEPT ![s] = Without(@, t)]
  <2>1. Good(mid)
    BY DEF Told
  <2> QED BY <1>1, <2>1, EndPendWakes
<1> HIDE DEF new
<1>3. /\ new.cur = mid.cur /\ new.prio = mid.prio
      /\ \A q \in Obj \ {s} : new.pend[q] = mid.pend[q]
  BY <1>1, <1>2 DEF Wakes, TCBTables
<1>4. /\ new.pendObj[t] = NoObj /\ new.pendStatus[t] = status
      /\ new.state[t] = mid.state[t] \ {"DLY", "PEND"}
      /\ \A u \in Task \ {t} : /\ new.pendObj[u] = mid.pendObj[u]
                               /\ new.pendStatus[u] = mid.pendStatus[u]
                               /\ new.state[u] = mid.state[u]
  BY <1>1, <1>2 DEF Wakes, TCBTables
<1>5. mid.state[t] = o.state[t]
  BY DEF Told
<1> QED BY <1>2, <1>3, <1>4, <1>5 DEF Told, new

(* A walk of a pend list tells the waiters of W.                           *)
LEMMA WalkTells ==
  ASSUME NEW o, Good(o), NEW s \in Obj, NEW W, NEW status \in {"DEL", "OK"},
         status = "OK" => \A t \in Waiters(o, s) \cap W : "SUSPENDED" \notin o.state[t],
         NEW g, Walk(status, W, o.pend[s], o, Len(o.pend[s]), g)
  PROVE  Told(o, g[1..Len(o.pend[s])], status, s, Waiters(o, s) \cap W)
<1> DEFINE w    == o.pend[s]
           r(k) == g[1..k]
           D(k) == {w[j] : j \in 1..k} \cap W
<1>1. o \in TCBTables /\ ListOf(w, Waiters(o, s))
  BY PendAgreesLists DEF Good
<1>2. /\ w \in Seq(Task) /\ Len(w) \in Nat
      /\ \A j, k \in 1..Len(w) : w[j] = w[k] => j = k
      /\ \A j \in 1..Len(w) : w[j] \in Waiters(o, s)
      /\ \A x \in Waiters(o, s) : \E j \in 1..Len(w) : w[j] = x
  BY <1>1, ListOfElements, ZenonT(60) DEF ListOf
<1> HIDE DEF w
<1>3. /\ r(0) = o
      /\ \A k \in 0..Len(w) - 1 : r(k + 1) = Visit(status, W, r(k), w[k + 1])
  BY <1>2, WalkSteps DEF w
<1> HIDE DEF r
<1>4. Told(o, r(0), status, s, D(0))
  <2>1. D(0) = {}
    OBVIOUS
  <2> QED BY <1>3, <2>1 DEF Told
<1>5. ASSUME NEW k \in 0..Len(w) - 1, Told(o, r(k), status, s, D(k))
      PROVE  Told(o, r(k + 1), status, s, D(k + 1))
  <2> DEFINE t   == w[k + 1]
             mid == r(k)
             end == EndPend(mid, t, status)
  <2>1. /\ k + 1 \in 1..Len(w) /\ t \in Task /\ o.pendObj[t] = s
        /\ t \in Waiters(o, s)
        /\ \A j \in 1..k : j \in 1..Len(w) /\ j # k + 1
    BY <1>2 DEF Waiters
  <2>2. D(k) \in SUBSET Task /\ t \notin D(k)
    BY <1>2, <2>1
  <2>3. D(k + 1) = IF t \in W THEN D(k) \cup {t} ELSE D(k)
    <3>1. 1..k + 1 = (1..k) \cup {k + 1}
      OBVIOUS
    <3> QED BY <3>1
  <2>4. r(k + 1) = Visit(status, W, mid, t)
    BY <1>3
  <2> HIDE DEF D
  <2>5. CASE t \notin W
    BY <1>5, <2>3, <2>4, <2>5 DEF Visit
  <2>6. CASE t \in W
    <3>1. "SUSPENDED" \notin mid.state[t] \/ status = "DEL"
      BY <1>5, <2>1, <2>2, <2>6 DEF Told
    <3>2. Visit(status, W, mid, t) = end
      BY <2>6, <3>1 DEF Visit, OS_PendObjDel, OS_FlagTaskRdy
    <3>3. status \in Status
      BY DEF Status
    <3> HIDE DEF mid, t
    <3>4. Told(o, end, status, s, D(k) \cup {t})
      BY <1>5, <2>1, <2>2, <3>3, ToldOneMore DEF mid
    <3> QED BY <2>3, <2>4, <2>6, <3>2, <3>4
  <2> QED BY <2>5, <2>6
<1> HIDE DEF D
<1>6. ASSUME NEW n \in 0..Len(w) PROVE Told(o, r(n), status, s, D(n))
  <2> DEFINE T == {k \in 0..Len(w) : ~Told(o, r(k), status, s, D(k))}
  <2> SUFFICES ASSUME T # {} PROVE FALSE
    OBVIOUS
  <2>1. PICK m \in T : \A k \in T : m =< k
    <3>1. T \in SUBSET Nat
      BY <1>2
    <3> HIDE DEF T
    <3> QED BY <3>1, Least
  <2>2. m # 0
    BY <1>4
  <2>3. m - 1 \in 0..Len(w) - 1 /\ m - 1 \in 0..Len(w) /\ m - 1 \notin T /\ (m - 1) + 1 = m
    BY <1>2, <2>1, <2>2
  <2>4. Told(o, r(m - 1), status, s, D(m - 1))
    BY <2>3
  <2>5. Told(o, r(m), status, s, D(m))
    BY <1>5, <2>3, <2>4
  <2> QED BY <2>5
<1>7. D(Len(w)) = Waiters(o, s) \cap W
  BY <1>2 DEF D
<1>8. Len(w) \in 0..Len(w)
  BY <1>2
<1> QED BY <1>6, <1>7, <1>8 DEF r, w

(* The walk of a deletion tells every waiter of it and empties the list.   *)
LEMMA AllAreTold ==
  ASSUME NEW o, Good(o), NEW s \in Obj
  PROVE  LET new == FoldLeft(OS_PendObjDel, o, o.pend[s])
         IN  Told(o, new, "DEL", s, Waiters(o, s)) /\ new.pend[s] = << >>
<1> DEFINE new == FoldLeft(OS_PendObjDel, o, o.pend[s])
<1>1. o.pend[s] \in Seq(Task)
  BY DEF Good, TCBTables
<1>2. PICK g : /\ Walk("DEL", Task, o.pend[s], o, Len(o.pend[s]), g)
               /\ new = g[1..Len(o.pend[s])]
  BY <1>1, FoldDel
<1> HIDE DEF new
<1>3. Told(o, new, "DEL", s, Waiters(o, s))
  <2>1. Told(o, g[1..Len(o.pend[s])], "DEL", s, Waiters(o, s) \cap Task)
    BY <1>2, WalkTells
  <2>2. Waiters(o, s) \cap Task = Waiters(o, s)
    BY DEF Waiters
  <2> QED BY <1>2, <2>1, <2>2
<1>4. new.pend[s] = << >>
  <2>1. Good(new) /\ new \in TCBTables
    BY <1>3 DEF Told, Good
  <2>2. ListOf(new.pend[s], Waiters(new, s))
    BY <2>1, PendAgreesLists DEF Good
  <2>3. ASSUME NEW t \in Task PROVE new.pendObj[t] # s
    BY <1>3, CoreAssumption DEF Told, Waiters
  <2>4. Waiters(new, s) = {}
    BY <2>3 DEF Waiters
  <2> QED BY <2>2, <2>4, ListOfNone
<1> QED BY <1>3, <1>4 DEF new

(* The walk of a post of flags wakes the tasks of W.                       *)
LEMMA FlagsAreTold ==
  ASSUME NEW o, Good(o), NEW s \in Obj, NEW W \in SUBSET Waiters(o, s),
         \A t \in W : "SUSPENDED" \notin o.state[t]
  PROVE  Told(o, OS_FlagTasksRdy(o, o.pend[s], W), "OK", s, W)
<1> DEFINE new == OS_FlagTasksRdy(o, o.pend[s], W)
<1>1. o.pend[s] \in Seq(Task) /\ Waiters(o, s) \cap W = W
  BY DEF Good, TCBTables
<1>2. PICK g : /\ Walk("OK", W, o.pend[s], o, Len(o.pend[s]), g)
               /\ new = g[1..Len(o.pend[s])]
  BY <1>1, FoldFlag
<1> HIDE DEF new
<1>3. Told(o, g[1..Len(o.pend[s])], "OK", s, Waiters(o, s) \cap W)
  BY <1>1, <1>2, WalkTells
<1> QED BY <1>1, <1>2, <1>3 DEF new

-----------------------------------------------------------------------------
(* The invariant of the kernel.                                            *)

(* The tick task runs exactly while it walks the tick list.                *)
TickTaskRuns == os.cur = TickTask <=> crit.op = "tick"

(* Nothing blocks the running task while the scheduler is locked.          *)
LockedIsReady == lock > 0 => os.cur \in Task /\ os.state[os.cur] = {}

(* A loop over a pend list has as many waiters left as it has iterations,  *)
(* and an option the application uses; the tasks the tick task has yet to  *)
(* wake are in the tick list.                                              *)
LoopsEnd ==
  /\ crit.op \in {"post", "abort"} =>
       /\ crit.obj \in Obj /\ crit.left \in 1..Len(os.pend[crit.obj])
       /\ crit.opt \in CallOpts
  /\ crit.op = "tick" => \A t \in crit.due : os.tick[t] > 0

KInv ==
  /\ KTypeOK
  /\ Good(os)
  /\ TickTaskRuns
  /\ RunningIsReady
  /\ LockedIsReady
  /\ LoopsEnd

(* A task that goes on in application code, the idle task included, has the*)
(* highest priority of those ready.  It gives way, at the next OSSched() or*)
(* at the end of the outermost interrupt, to whatever became ready: unless *)
(* a post or an abort said NO_SCHED.                                       *)
Dispatched ==
  (/\ os.cur \in Task /\ pc[os.cur] \in {"run", "wake"}
   /\ nest = 0 /\ lock = 0 /\ crit = Free)
  => \A u \in Task : os.state[u] = {} => os.prio[os.cur] =< os.prio[u]

(* OSPrioCur is the priority of the current task.  A switch to the task    *)
(* that runs leaves it alone.                                              *)
CurPrio == os.cur \in Task => os.prioCur = os.prio[os.cur]

AlwaysSched == CallOpts \subseteq SUBSET {"ALL"}

(* No kernel step fills an empty pend list.                                *)
EmptyStays == \A o \in Obj : os.pend[o] = << >> => os'.pend[o] = << >>

(* The invariant contains the properties of the tables.                    *)
LEMMA KInvTables ==
  ASSUME KInv
  PROVE  /\ KTypeOK /\ ReadyListsAgree /\ PendListsAgree /\ TickListAgrees
         /\ WaitersByPriority /\ RunningIsReady
  BY DEF KInv, Good, ReadyListsAgree, PendListsAgree, TickListAgrees, TicksAgree,
         Sorted, WaitersByPriority

-----------------------------------------------------------------------------
(* The initial state.                                                      *)

LEMMA OrdersAreLists ==
  ASSUME NEW S \in SUBSET Task, NEW s \in Orders(S)
  PROVE  ListOf(s, S)
<1>1. IsFiniteSet(S)
  BY CoreAssumption, FS_Subset
<1>2. Cardinality(S) \in Nat
  BY <1>1, FS_CardinalityType
<1>3. s \in [1..Cardinality(S) -> S] /\ IsInjective(s) /\ Range(s) = S
  BY DEF Orders
<1>4. s \in Seq(Task)
  BY <1>2, <1>3, SeqDef
<1>5. Distinct(s)
  BY <1>3 DEF Distinct, IsInjective
<1> QED BY <1>3, <1>4, <1>5 DEF ListOf

LEMMA KInitInv == KInit => KInv /\ Dispatched /\ CurPrio
<1> SUFFICES ASSUME KInit PROVE KInv /\ Dispatched /\ CurPrio
  OBVIOUS
<1>1. PICK lists \in [Prio -> UNION {Orders(Created(p)) : p \in Prio}] :
        /\ \A p \in Prio : lists[p] \in Orders(Created(p))
        /\ os = OS_TASK_SW(InitTables(lists))
  BY DEF KInit
<1> DEFINE tab == InitTables(lists)
<1>2. \A p \in Prio : ListOf(lists[p], Created(p))
  BY <1>1, OrdersAreLists DEF Created
<1>3. \A p \in Prio : lists[p] \in Seq(Task)
  BY <1>2 DEF ListOf
<1>4. /\ tab.state = [t \in Task |-> {}] /\ tab.prio = InitPrio
      /\ tab.pendOn = [t \in Task |-> "NOTHING"]
      /\ tab.pendObj = [t \in Task |-> NoObj]
      /\ tab.tick = [t \in Task |-> 0] /\ tab.susp = [t \in Task |-> 0]
      /\ tab.rdy = lists /\ tab.pend = [o \in Obj |-> << >>]
      /\ tab.cur = TickTask
  BY DEF InitTables
<1>5. tab \in TCBTables
  <2>1. lists \in [Prio -> Seq(Task)]
    BY <1>1, <1>3
  <2>2. InitPrio \in [Task -> Prio] /\ 0 \in 0..MaxDly /\ 0 \in 0..MaxSusp
    BY CoreAssumption, KernelAssumption
  <2>3. << >> \in Seq(Task) /\ {} \in TaskStates /\ "NOTHING" \in PendKind
        /\ "OK" \in Status
    <3>1. {} \in TaskStates
      BY DEF TaskStates
    <3> QED BY <3>1, EmptySeq DEF PendKind, Status
  <2> QED BY <2>1, <2>2, <2>3 DEF InitTables, TCBTables
<1> HIDE DEF tab
<1>6. ReadyAgrees(tab)
  <2>1. \A p \in Prio : ReadyAt(tab, p) = Created(p)
    BY <1>4 DEF ReadyAt, Created
  <2> QED BY <1>2, <1>4, <1>5, <2>1, ReadyAgreesLists
<1>7. PendAgrees(tab)
  <2>1. ASSUME NEW o \in Obj PROVE Waiters(tab, o) = {} /\ tab.pend[o] = << >>
    BY <1>4, CoreAssumption DEF Waiters
  <2>2. \A o \in Obj : ListOf(tab.pend[o], Waiters(tab, o))
    BY <2>1, ListOfEmpty
  <2> QED BY <1>4, <1>5, <2>2, PendAgreesLists
<1>8. BitsAgree(tab) /\ TicksAgree(tab)
  BY <1>4 DEF BitsAgree, TicksAgree
<1>9. IdleReady(tab)
  BY <1>4, CoreAssumption, KernelAssumption DEF IdleReady
<1>s. Sorted(tab)
  BY <1>4 DEF Sorted, SortedByPrio
<1>10. Good(tab)
  BY <1>5, <1>6, <1>7, <1>8, <1>9, <1>s DEF Good
<1>11. /\ Good(os) /\ os.cur \in Task /\ os.state[os.cur] = {}
       /\ \A u \in Task : os.state[u] = {} => os.prio[os.cur] =< os.prio[u]
       /\ os = tab \/ os.prioCur = os.prio[os.cur]
  BY <1>1, <1>10, TaskSwGood DEF tab
<1>12. crit = Free /\ crit.op = "none" /\ pc = [t \in Task |-> "run"] /\ nest = 0 /\ lock = 0
  BY DEF KInit, Free
<1>13. KTypeOK
  <2>1. crit \in [op : {"none", "post", "abort", "tick"}, obj : Obj \cup {NoObj},
                  opt : Options, left : Nat, due : SUBSET Task]
    BY <1>12 DEF Free, Options
  <2> QED BY <1>11, <1>12, <2>1, KernelAssumption DEF KTypeOK, Good, Where
<1>14. TickTaskRuns /\ LockedIsReady /\ LoopsEnd /\ RunningIsReady
  BY <1>11, <1>12, CoreAssumption DEF TickTaskRuns, LockedIsReady, LoopsEnd, RunningIsReady
<1>15. CurPrio
  BY <1>4, <1>11, CoreAssumption DEF CurPrio
<1> QED BY <1>11, <1>13, <1>14, <1>15 DEF KInv, Dispatched

-----------------------------------------------------------------------------
(* The steps: each action keeps the invariant.                             *)

(* Interrupts and the scheduler's lock change no table.                    *)
LEMMA IntEnterInv == KInv /\ OSIntEnter => KInv' /\ EmptyStays
<1> SUFFICES ASSUME KInv, OSIntEnter PROVE KInv' /\ EmptyStays
  OBVIOUS
<1>1. nest' \in 0..MaxNest /\ UNCHANGED <<os, pc, lock, crit>>
  BY KernelAssumption DEF OSIntEnter, KInv, KTypeOK
<1> QED
  BY <1>1 DEF KInv, KTypeOK, TickTaskRuns, RunningIsReady, LockedIsReady,
              LoopsEnd, EmptyStays

(* A switch lets a ready task run.                                         *)
LEMMA SwitchInv ==
  ASSUME KInv, os' = OS_TASK_SW(os), lock = 0, lock' = lock, crit' = Free,
         nest' \in 0..MaxNest, pc' \in [Task -> Where]
  PROVE  KInv' /\ EmptyStays
<1>1. /\ Good(os') /\ os'.cur \in Task /\ os'.state[os'.cur] = {}
      /\ os'.pend = os.pend
  BY TaskSwGood DEF KInv
<1>2. crit' \in [op : {"none", "post", "abort", "tick"}, obj : Obj \cup {NoObj},
                 opt : Options, left : Nat, due : SUBSET Task]
  BY DEF Free, Options
<1>3. KTypeOK'
  BY <1>1, <1>2 DEF KTypeOK, KInv, Good
<1>4. TickTaskRuns' /\ RunningIsReady' /\ LockedIsReady' /\ LoopsEnd'
  BY <1>1, CoreAssumption
  DEF TickTaskRuns, RunningIsReady, LockedIsReady, LoopsEnd, Free
<1> QED BY <1>1, <1>3, <1>4 DEF KInv, EmptyStays

LEMMA IntExitInv == KInv /\ OSIntExit => KInv' /\ EmptyStays
<1> SUFFICES ASSUME KInv, OSIntExit PROVE KInv' /\ EmptyStays
  OBVIOUS
<1>1. nest' \in 0..MaxNest /\ pc' \in [Task -> Where]
  BY KernelAssumption DEF OSIntExit, KInv, KTypeOK
<1>2. CASE nest' = 0 /\ lock = 0
  BY <1>1, <1>2, SwitchInv DEF OSIntExit
<1>3. CASE ~(nest' = 0 /\ lock = 0)
  BY <1>1, <1>3 DEF OSIntExit, KInv, KTypeOK, TickTaskRuns, RunningIsReady,
                   LockedIsReady, LoopsEnd, EmptyStays, Free
<1> QED BY <1>2, <1>3

LEMMA SchedInv ==
  ASSUME KInv, NEW t \in Task, OSSched(t) PROVE KInv' /\ EmptyStays
<1>1. /\ pc' = [pc EXCEPT ![t] = IF pc[t] = "sched" THEN "run" ELSE "wake"]
      /\ os.cur = t /\ nest' = nest /\ lock' = lock /\ crit' = crit
      /\ crit = Free
  BY DEF OSSched, Goto
<1>2. pc' \in [Task -> Where] /\ nest' \in 0..MaxNest
  BY <1>1 DEF KInv, KTypeOK, Where
<1>3. CASE lock = 0
  BY <1>1, <1>2, <1>3, SwitchInv DEF OSSched
<1>4. CASE lock # 0
  <2>1. os' = os
    BY <1>4 DEF OSSched
  <2>2. KTypeOK'
    BY <1>1, <1>2, <2>1 DEF KInv, KTypeOK
  <2>3. lock > 0
    BY <1>4 DEF KInv, KTypeOK
  <2>4. TickTaskRuns' /\ RunningIsReady' /\ LockedIsReady' /\ LoopsEnd'
    BY <1>1, <2>1, <2>3
    DEF KInv, TickTaskRuns, RunningIsReady, LockedIsReady, LoopsEnd
  <2> QED BY <2>1, <2>2, <2>4 DEF KInv, EmptyStays
<1> QED BY <1>3, <1>4

LEMMA SchedLockInv ==
  ASSUME KInv, NEW t \in Task, OSSchedLock(t) PROVE KInv' /\ EmptyStays
<1>1. lock' \in 0..MaxLock
  BY KernelAssumption DEF OSSchedLock, KInv, KTypeOK
<1> QED
  BY <1>1 DEF OSSchedLock, Running, KInv, KTypeOK, TickTaskRuns, RunningIsReady,
              LockedIsReady, LoopsEnd, EmptyStays

LEMMA SchedUnlockInv ==
  ASSUME KInv, NEW t \in Task, OSSchedUnlock(t) PROVE KInv' /\ EmptyStays
<1>1. /\ lock' \in 0..MaxLock /\ pc' \in [Task -> Where]
      /\ pc' = pc \/ pc' = [pc EXCEPT ![t] = "sched"]
  BY KernelAssumption DEF OSSchedUnlock, Goto, KInv, KTypeOK, Where
<1>2. KTypeOK'
  BY <1>1 DEF OSSchedUnlock, KInv, KTypeOK
<1> QED
  BY <1>1, <1>2 DEF OSSchedUnlock, Running, KInv, KTypeOK, TickTaskRuns,
                   RunningIsReady, LockedIsReady, LoopsEnd, EmptyStays

(* A turn of a ready list changes no other table.                          *)
LEMMA TurnInv ==
  ASSUME KInv, NEW p \in Prio, Len(os.rdy[p]) >= 2,
         os' = OS_RdyListMoveHeadToTail(os, p),
         UNCHANGED <<nest, lock, crit>>, pc' \in [Task -> Where],
         \A t \in Task : pc'[t] \in {"run", "wake"} => pc[t] \in {"run", "wake"}
  PROVE  KInv' /\ EmptyStays
<1>1. Good(os') /\ os' = [os EXCEPT !.rdy = os'.rdy]
  BY RdyListMoveHeadToTail DEF KInv
<1>2. /\ os'.state = os.state /\ os'.cur = os.cur /\ os'.pend = os.pend
      /\ os'.tick = os.tick
  BY <1>1 DEF KInv, KTypeOK, TCBTables
<1>3. KTypeOK'
  BY <1>1 DEF KInv, KTypeOK, Good
<1> QED
  BY <1>1, <1>2, <1>3 DEF KInv, TickTaskRuns, RunningIsReady, LockedIsReady,
                          LoopsEnd, EmptyStays

LEMMA RoundRobinInv == KInv /\ OS_SchedRoundRobin => KInv' /\ EmptyStays
<1> SUFFICES ASSUME KInv, OS_SchedRoundRobin PROVE KInv' /\ EmptyStays
  OBVIOUS
<1>1. os.prioCur \in Prio
  BY CoreAssumption DEF OS_SchedRoundRobin, Prio
<1>2. pc' \in [Task -> Where] /\ pc' = pc
  BY DEF OS_SchedRoundRobin, KInv, KTypeOK
<1> QED BY <1>1, <1>2, TurnInv DEF OS_SchedRoundRobin

LEMMA YieldInv ==
  ASSUME KInv, NEW t \in Task, OSSchedRoundRobinYield(t)
  PROVE  KInv' /\ EmptyStays
<1>1. pc \in [Task -> Where] /\ pc' = [pc EXCEPT ![t] = "sched"]
  BY DEF OSSchedRoundRobinYield, Goto, KInv, KTypeOK
<1>2. pc' \in [Task -> Where]
  BY <1>1 DEF Where
<1>3. \A u \in Task : pc'[u] \in {"run", "wake"} => pc[u] \in {"run", "wake"}
  BY <1>1
<1> QED BY <1>2, <1>3, TurnInv DEF OSSchedRoundRobinYield

-----------------------------------------------------------------------------
(* The tick task.                                                          *)

LEMMA TickUpdateInv == KInv /\ OS_TickListUpdate => KInv' /\ EmptyStays
<1> SUFFICES ASSUME KInv, OS_TickListUpdate PROVE KInv' /\ EmptyStays
  OBVIOUS
<1>1. /\ Good(os') /\ os'.cur = TickTask /\ os'.pend = os.pend
      /\ \A t \in Task : os.tick[t] > 0 => os'.tick[t] > 0
  BY TickDownGood DEF OS_TickListUpdate, KInv
<1>2. /\ crit' = TickLoop({t \in Task : os.tick[t] = 1})
      /\ UNCHANGED <<pc, nest, lock>> /\ lock = 0
  BY DEF OS_TickListUpdate
<1>3. crit' \in [op : {"none", "post", "abort", "tick"}, obj : Obj \cup {NoObj},
                 opt : Options, left : Nat, due : SUBSET Task]
  BY <1>2 DEF TickLoop, Options
<1>4. KTypeOK'
  BY <1>1, <1>2, <1>3 DEF KInv, KTypeOK, Good
<1>5. crit'.op = "tick" /\ \A t \in crit'.due : t \in Task /\ os.tick[t] = 1
  BY <1>2 DEF TickLoop
<1>6. TickTaskRuns' /\ LockedIsReady' /\ LoopsEnd' /\ RunningIsReady'
  BY <1>1, <1>2, <1>5, CoreAssumption
  DEF TickTaskRuns, LockedIsReady, LoopsEnd, RunningIsReady
<1> QED BY <1>1, <1>4, <1>6 DEF KInv, EmptyStays

LEMMA TickLoopInv ==
  ASSUME KInv, NEW t \in Task, OS_TickListUpdateLoop(t)
  PROVE  KInv' /\ EmptyStays
<1>1. /\ crit.op = "tick" /\ t \in crit.due /\ os' = TickExpire(os, t)
      /\ crit' = [crit EXCEPT !.due = @ \ {t}]
      /\ UNCHANGED <<pc, nest, lock>>
  BY DEF OS_TickListUpdateLoop
<1>2. os.tick[t] > 0 /\ os.cur = TickTask
  BY <1>1 DEF KInv, LoopsEnd, TickTaskRuns
<1>3. /\ Good(os') /\ Wakes(os, os', t)
      /\ \A o \in Obj : os.pend[o] = << >> => os'.pend[o] = << >>
      /\ os'.pendStatus = IF "PEND" \in os.state[t]
                          THEN [os.pendStatus EXCEPT ![t] = "TIMEOUT"]
                          ELSE os.pendStatus
  BY <1>1, <1>2, TickExpireWakes DEF KInv
<1>4. os'.cur = TickTask /\ os'.tick = [os.tick EXCEPT ![t] = 0]
  BY <1>2, <1>3 DEF Wakes
<1>5. /\ crit'.op = "tick" /\ crit'.due = crit.due \ {t}
      /\ crit' \in [op : {"none", "post", "abort", "tick"}, obj : Obj \cup {NoObj},
                    opt : Options, left : Nat, due : SUBSET Task]
  BY <1>1 DEF KInv, KTypeOK
<1>6. KTypeOK'
  BY <1>1, <1>3, <1>5 DEF KInv, KTypeOK, Good
<1>7. TickTaskRuns' /\ RunningIsReady'
  BY <1>4, <1>5, CoreAssumption DEF TickTaskRuns, RunningIsReady
<1>8. LockedIsReady'
  BY <1>1, <1>2, CoreAssumption DEF KInv, LockedIsReady
<1>9. LoopsEnd'
  <2>1. os.tick \in [Task -> 0..MaxDly] /\ crit.due \subseteq Task
    BY DEF KInv, KTypeOK, TCBTables
  <2> QED BY <1>1, <1>4, <1>5, <2>1 DEF KInv, LoopsEnd
<1> QED BY <1>3, <1>6, <1>7, <1>8, <1>9 DEF KInv, EmptyStays

LEMMA TickPendInv == KInv /\ OS_TickTaskPend => KInv' /\ EmptyStays
<1> SUFFICES ASSUME KInv, OS_TickTaskPend PROVE KInv' /\ EmptyStays
  OBVIOUS
<1>1. /\ pc' \in [Task -> Where] /\ nest' \in 0..MaxNest
      /\ lock' = lock /\ lock \in 0..MaxLock
  BY DEF OS_TickTaskPend, KInv, KTypeOK
<1>2. lock = 0
  BY <1>1, CoreAssumption DEF OS_TickTaskPend, KInv, TickTaskRuns, LockedIsReady
<1> QED BY <1>1, <1>2, SwitchInv DEF OS_TickTaskPend

-----------------------------------------------------------------------------
(* Task services: the caller, on its way to OSSched(), may be blocked.     *)

LEMMA CallInv ==
  ASSUME KInv, NEW t \in Task, Running(t), Good(os'), os'.cur = os.cur,
         lock > 0 => os'.state[t] = {},
         \/ UNCHANGED pc /\ os'.state[t] = {}
         \/ Goto(t, "sched") \/ Goto(t, "pend"),
         UNCHANGED <<nest, lock, crit>>
  PROVE  KInv'
<1>1. /\ pc \in [Task -> Where]
      /\ \/ pc' = pc /\ os'.state[t] = {}
         \/ pc' = [pc EXCEPT ![t] = "sched"] \/ pc' = [pc EXCEPT ![t] = "pend"]
  BY DEF Goto, KInv, KTypeOK
<1>2. os.cur = t /\ crit = Free /\ crit.op = "none"
  BY DEF Running, Free
<1>3. KTypeOK'
  BY <1>1 DEF KInv, KTypeOK, Good, Where
<1>4. TickTaskRuns' /\ RunningIsReady' /\ LockedIsReady' /\ LoopsEnd'
  BY <1>1, <1>2 DEF KInv, TickTaskRuns, RunningIsReady, LockedIsReady, LoopsEnd
<1> QED BY <1>3, <1>4 DEF KInv

LEMMA ServiceInv ==
  ASSUME KInv, NEW t \in Task, Running(t), Good(os'), os'.cur = os.cur,
         lock > 0 => os'.state[t] = {},
         \A o \in Obj : os.pend[o] = << >> => os'.pend[o] = << >>,
         Goto(t, "sched"), UNCHANGED <<nest, lock, crit>>
  PROVE  KInv' /\ EmptyStays
  BY CallInv DEF EmptyStays

(* The running task is ready.                                              *)
LEMMA RunningReady ==
  ASSUME KInv, NEW t \in Task, Running(t)
  PROVE  os.cur = t /\ os.state[t] = {} /\ t # Idle
  BY DEF KInv, RunningIsReady, Running

LEMMA TaskSuspendInv ==
  ASSUME KInv, NEW t \in Task, NEW u \in Task, OSTaskSuspend(t, u)
  PROVE  KInv' /\ EmptyStays
<1>1. /\ Running(t) /\ u # Idle /\ (u = t => lock = 0)
      /\ os.susp[u] < MaxSusp /\ os' = OS_TaskSuspend(os, u)
      /\ os.state[u] # {"DEL"}
      /\ Goto(t, "sched") /\ UNCHANGED <<nest, lock, crit>>
  BY DEF OSTaskSuspend, Exists
<1>2. /\ Good(os')
      /\ os'.state = [os.state EXCEPT ![u] = @ \cup {"SUSPENDED"}]
      /\ os'.cur = os.cur /\ os'.pend = os.pend
  BY <1>1, SuspendGood DEF KInv
<1>3. os.state \in [Task -> TaskStates] /\ os.state[t] = {}
  BY <1>1, RunningReady DEF KInv, KTypeOK, TCBTables
<1>4. lock > 0 => os'.state[t] = {}
  BY <1>1, <1>2, <1>3
<1> QED BY <1>1, <1>2, <1>4, ServiceInv

LEMMA TaskResumeInv ==
  ASSUME KInv, NEW t \in Task, NEW u \in Task, OSTaskResume(t, u)
  PROVE  KInv' /\ EmptyStays
<1>1. /\ Running(t) /\ u # t /\ os' = OS_TaskResume(os, u)
      /\ Goto(t, "sched") /\ UNCHANGED <<nest, lock, crit>>
  BY DEF OSTaskResume
<1>2. /\ Good(os') /\ \A v \in Task \ {u} : os'.state[v] = os.state[v]
      /\ os'.cur = os.cur /\ os'.pend = os.pend
  BY <1>1, ResumeGood DEF KInv
<1>3. os'.state[t] = {}
  BY <1>1, <1>2, RunningReady
<1> QED BY <1>1, <1>2, <1>3, ServiceInv

(* What a change of priority does to the tables.                           *)
LEMMA TaskChangePrioDoes ==
  ASSUME KInv, NEW t \in Task, NEW u \in Task, NEW p \in Prio,
         NEW self \in BOOLEAN, OSTaskChangePrio(t, u, p, self)
  PROVE  /\ Good(os') /\ os'.state = os.state /\ os'.cur = os.cur
         /\ os'.pendObj = os.pendObj /\ os'.pendStatus = os.pendStatus
         /\ \A o \in Obj : os.pend[o] = << >> => os'.pend[o] = << >>
<1> DEFINE new == ChangePrio(os, u, p, self)
<1>1. os' = new
  BY DEF OSTaskChangePrio
<1>2. u \in Task \ {Idle}
  BY DEF OSTaskChangePrio
<1>3. Good(os)
  BY DEF KInv
<1>4. /\ Good(new)
      /\ new.prio = [os.prio EXCEPT ![u] = p]
      /\ new.state = os.state
      /\ new.cur = os.cur /\ new.prioCur = os.prioCur
      /\ new.pendObj = os.pendObj /\ new.pendStatus = os.pendStatus
      /\ \A q \in Obj : new.pend[q] = << >> <=> os.pend[q] = << >>
  BY <1>2, <1>3, ChangePrioGood
<1> HIDE DEF new
<1> QED BY <1>1, <1>4

LEMMA TaskChangePrioInv ==
  ASSUME KInv, NEW t \in Task, NEW u \in Task, NEW p \in Prio,
         NEW self \in BOOLEAN, OSTaskChangePrio(t, u, p, self)
  PROVE  KInv' /\ EmptyStays
<1>1. /\ Running(t)
      /\ Goto(t, "sched") /\ UNCHANGED <<nest, lock, crit>>
  BY DEF OSTaskChangePrio
<1>2. os'.state[t] = {}
  BY <1>1, TaskChangePrioDoes, RunningReady
<1> QED BY <1>1, <1>2, TaskChangePrioDoes, ServiceInv

LEMMA TimeDlyInv ==
  ASSUME KInv, NEW t \in Task, NEW n \in 1..MaxDly, OSTimeDly(t, n)
  PROVE  KInv' /\ EmptyStays
<1>1. /\ Running(t) /\ lock = 0 /\ os' = Delay(os, t, n)
      /\ Goto(t, "sched") /\ UNCHANGED <<nest, lock, crit>>
  BY DEF OSTimeDly
<1>2. os.state[t] = {} /\ t # Idle
  BY <1>1, RunningReady
<1>3. Good(os') /\ Blocks(os, os', t, {"DLY"}) /\ os'.pend = os.pend
  BY <1>1, <1>2, DelayGood DEF KInv
<1>4. os'.cur = os.cur
  BY <1>3 DEF Blocks
<1> QED BY <1>1, <1>3, <1>4, ServiceInv

-----------------------------------------------------------------------------
(* The loop of posts and aborts.                                           *)

(* One iteration readies the head of the pend list, a task that pends and  *)
(* is not the running task of an application.                              *)
LEMMA PendListLoopWakes ==
  ASSUME KInv, PendListLoop
  PROVE  LET o    == crit.obj
             head == Head(os.pend[o])
         IN  /\ o \in Obj /\ os.pend[o] # << >>
             /\ head \in Task /\ "PEND" \in os.state[head] /\ os.pendObj[head] = o
             /\ Good(os') /\ Wakes(os, os', head)
             /\ os'.pendStatus = [os.pendStatus EXCEPT ![head] =
                                    IF crit.op = "post" THEN "OK" ELSE "ABORT"]
             /\ os'.pend = [os.pend EXCEPT ![o] = Without(@, head)]
             /\ Len(os'.pend[o]) = Len(os.pend[o]) - 1
<1> DEFINE o    == crit.obj
           head == Head(os.pend[o])
<1>1. /\ crit.op \in {"post", "abort"} /\ o \in Obj
      /\ crit.left \in 1..Len(os.pend[o])
  BY DEF PendListLoop, KInv, LoopsEnd
<1>2. ListOf(os.pend[o], Waiters(os, o))
  BY <1>1, PendAgreesLists DEF KInv, Good
<1>3. os.pend[o] # << >>
  BY <1>1, <1>2 DEF ListOf
<1>4. head \in Task /\ os.pendObj[head] = o
  BY <1>2, <1>3, ListOfHead DEF Waiters
<1>5. "PEND" \in os.state[head]
  BY <1>1, <1>4, CoreAssumption DEF KInv, Good, PendAgrees
<1> DEFINE status == IF crit.op = "post" THEN "OK" ELSE "ABORT"
<1>6. os' = EndPend(os, head, status)
  BY DEF PendListLoop, OS_Post, OS_PendAbort
<1>7. status \in Status
  BY DEF Status
<1> HIDE DEF head, o, status
<1>8. /\ Good(os') /\ Wakes(os, os', head)
      /\ os'.pendStatus = [os.pendStatus EXCEPT ![head] = status]
      /\ os'.pend = [os.pend EXCEPT ![o] = Without(@, head)]
      /\ Len(os'.pend[o]) = Len(os.pend[o]) - 1
  BY <1>4, <1>5, <1>6, <1>7, EndPendWakes, SMTT(30) DEF KInv
<1> QED BY <1>1, <1>3, <1>4, <1>5, <1>8 DEF head, o, status

LEMMA PendListLoopInv == KInv /\ PendListLoop => KInv' /\ EmptyStays
<1> SUFFICES ASSUME KInv, PendListLoop PROVE KInv' /\ EmptyStays
  OBVIOUS
<1> DEFINE o    == crit.obj
           head == Head(os.pend[o])
<1>1. /\ o \in Obj /\ os.pend[o] # << >>
      /\ head \in Task /\ "PEND" \in os.state[head]
      /\ Good(os') /\ Wakes(os, os', head)
      /\ os'.pend = [os.pend EXCEPT ![o] = Without(@, head)]
      /\ Len(os'.pend[o]) = Len(os.pend[o]) - 1
  BY PendListLoopWakes
<1> HIDE DEF head
<1>2. /\ crit.op \in {"post", "abort"} /\ nest' = nest /\ lock' = lock
      /\ crit.left \in 1..Len(os.pend[o]) /\ crit.opt \in CallOpts
  BY DEF PendListLoop, KInv, LoopsEnd
<1>3. os.cur \in Task /\ os'.cur = os.cur
  BY <1>1, <1>2 DEF KInv, KTypeOK, TCBTables, TickTaskRuns, Wakes
<1>4. os.state[os.cur] = {} => os'.state[os.cur] = {}
  <2>1. os.state \in [Task -> TaskStates]
    BY DEF KInv, KTypeOK, TCBTables
  <2> QED BY <1>1, <1>3, <2>1 DEF Wakes
<1>5. /\ pc' \in [Task -> Where]
      /\ pc' = pc \/ pc' = [pc EXCEPT ![os.cur] = "sched"]
  <2>1. pc' = pc \/ pc' = [pc EXCEPT ![os.cur] = "sched"]
    BY <1>3 DEF PendListLoop, Return, Goto
  <2> QED BY <1>3, <2>1 DEF KInv, KTypeOK, Where
<1>6. os.pend \in [Obj -> Seq(Task)]
  BY DEF KInv, KTypeOK, TCBTables
<1>7. /\ crit' \in [op : {"none", "post", "abort", "tick"}, obj : Obj \cup {NoObj},
                    opt : Options, left : Nat, due : SUBSET Task]
      /\ crit'.op # "tick"
      /\ crit'.op \in {"post", "abort"} =>
           /\ crit'.obj = o /\ crit'.left \in 1..Len(os'.pend[o])
           /\ crit'.opt \in CallOpts
  <2>1. CASE crit.left > 1
    <3>1. crit' = [crit EXCEPT !.left = @ - 1]
      BY <2>1 DEF PendListLoop
    <3>2. crit.left - 1 \in Nat /\ crit.left - 1 \in 1..Len(os'.pend[o])
      BY <1>1, <1>2, <1>6, <2>1
    <3>3. crit \in [op : {"none", "post", "abort", "tick"}, obj : Obj \cup {NoObj},
                    opt : Options, left : Nat, due : SUBSET Task]
      BY DEF KInv, KTypeOK
    <3> QED BY <1>2, <3>1, <3>2, <3>3
  <2>2. CASE ~(crit.left > 1)
    <3>1. crit' = Free
      BY <2>2 DEF PendListLoop
    <3> QED BY <3>1 DEF Free, Options
  <2> QED BY <2>1, <2>2
<1>8. KTypeOK'
  BY <1>1, <1>2, <1>5, <1>7 DEF KInv, KTypeOK, Good
<1>9. TickTaskRuns'
  BY <1>3, <1>7, CoreAssumption DEF TickTaskRuns
<1>10. RunningIsReady' /\ LockedIsReady'
  BY <1>2, <1>3, <1>4, <1>5 DEF KInv, KTypeOK, RunningIsReady, LockedIsReady
<1>11. LoopsEnd'
  BY <1>1, <1>7 DEF LoopsEnd
<1>12. EmptyStays
  BY <1>1, <1>6 DEF EmptyStays
<1> QED BY <1>1, <1>8, <1>9, <1>10, <1>11, <1>12 DEF KInv

(* A loop over a pend list starts with a waiter for each iteration.        *)
LEMMA StartLoopInv ==
  ASSUME KInv, crit = Free, os.cur \in Task, NEW op \in {"post", "abort"},
         NEW o \in Obj, NEW opt \in CallOpts,
         NEW n, n = 1 \/ n = Len(os.pend[o]), os.pend[o] # << >>,
         crit' = PendLoop(op, o, opt, n), UNCHANGED <<os, pc, nest, lock>>
  PROVE  KInv' /\ EmptyStays
<1>1. n \in 1..Len(os.pend[o]) /\ n \in Nat
  BY EmptySeq, LenProperties, SMTT(30) DEF KInv, KTypeOK, TCBTables
<1>2. /\ crit'.op = op /\ crit'.obj = o /\ crit'.left = n /\ crit'.opt = opt
      /\ crit' \in [op : {"none", "post", "abort", "tick"}, obj : Obj \cup {NoObj},
                    opt : Options, left : Nat, due : SUBSET Task]
  BY <1>1, KernelAssumption DEF PendLoop
<1>3. KTypeOK'
  BY <1>2 DEF KInv, KTypeOK
<1>4. TickTaskRuns' /\ RunningIsReady' /\ LockedIsReady' /\ LoopsEnd'
  BY <1>1, <1>2, CoreAssumption
  DEF KInv, TickTaskRuns, RunningIsReady, LockedIsReady, LoopsEnd
<1> QED BY <1>3, <1>4 DEF KInv, EmptyStays

LEMMA PendAbortInv ==
  ASSUME KInv, NEW t \in Task, NEW o \in Obj, NEW opt \in Options,
         PendAbort(t, o, opt)
  PROVE  KInv' /\ EmptyStays
<1> DEFINE n == IF opt = {"ALL"} THEN Len(os.pend[o]) ELSE 1
<1>1. /\ os.cur = t /\ crit = Free /\ os.pend[o] # << >> /\ opt \in CallOpts
      /\ crit' = PendLoop("abort", o, opt, n) /\ UNCHANGED <<os, pc, nest, lock>>
  BY DEF PendAbort, Running
<1>2. n = 1 \/ n = Len(os.pend[o])
  OBVIOUS
<1> HIDE DEF n
<1> QED BY <1>1, <1>2, StartLoopInv

(* Every step of the kernel keeps the invariant and fills no pend list.    *)
LEMMA KNextInv == KInv /\ KNext => KInv' /\ EmptyStays
<1> SUFFICES ASSUME KInv, KNext PROVE KInv' /\ EmptyStays
  OBVIOUS
<1>1. CASE OSIntEnter \/ OSIntExit \/ OS_SchedRoundRobin
  BY <1>1, IntEnterInv, IntExitInv, RoundRobinInv
<1>2. CASE OS_TickListUpdate \/ OS_TickTaskPend \/ PendListLoop
  BY <1>2, TickUpdateInv, TickPendInv, PendListLoopInv
<1>3. ASSUME NEW t \in Task,
             \/ OSSched(t) \/ OSSchedLock(t) \/ OSSchedUnlock(t)
             \/ OSSchedRoundRobinYield(t) \/ OS_TickListUpdateLoop(t)
      PROVE  KInv' /\ EmptyStays
  BY <1>3, SchedInv, SchedLockInv, SchedUnlockInv, YieldInv, TickLoopInv
<1>4. ASSUME NEW t \in Task, NEW n \in 1..MaxDly, OSTimeDly(t, n)
      PROVE  KInv' /\ EmptyStays
  BY <1>4, TimeDlyInv
<1>5. ASSUME NEW t \in Task, NEW u \in Task,
             OSTaskSuspend(t, u) \/ OSTaskResume(t, u)
      PROVE  KInv' /\ EmptyStays
  BY <1>5, TaskSuspendInv, TaskResumeInv
<1>6. ASSUME NEW t \in Task, NEW u \in Task, NEW p \in Prio, NEW self \in BOOLEAN,
             OSTaskChangePrio(t, u, p, self)
      PROVE  KInv' /\ EmptyStays
  BY <1>6, TaskChangePrioInv
<1>7. ASSUME NEW t \in Task, NEW o \in Obj, NEW opt \in Options,
             PendAbort(t, o, opt)
      PROVE  KInv' /\ EmptyStays
  BY <1>7, PendAbortInv
<1> QED BY <1>1, <1>2, <1>3, <1>4, <1>5, <1>6, <1>7 DEF KNext, KStep, KCall

-----------------------------------------------------------------------------
(* Which task runs: every step keeps Dispatched when all calls schedule.   *)

LEMMA DispatchedHighest == Dispatched => HighestRuns
<1> SUFFICES ASSUME Dispatched, NEW t \in Task, Running(t), lock = 0
             PROVE  \A u \in Task : os.state[u] = {} => os.prio[t] =< os.prio[u]
  BY DEF HighestRuns
<1> QED BY DEF Dispatched, Running

(* A switch runs the highest.                                              *)
LEMMA SwitchDispatched ==
  ASSUME KInv, os' = OS_TASK_SW(os) PROVE Dispatched'
<1>1. \A u \in Task : os'.state[u] = {} => os'.prio[os'.cur] =< os'.prio[u]
  BY TaskSwGood DEF KInv
<1> QED BY <1>1 DEF Dispatched

(* A call that ends in OSSched(), or blocks, is on its way to a switch.    *)
LEMMA OnTheWay ==
  ASSUME KInv, NEW t \in Task, os'.cur = t, Goto(t, "sched") \/ Goto(t, "pend")
  PROVE  Dispatched'
<1>1. pc'[t] \in {"sched", "pend"}
  BY DEF Goto, KInv, KTypeOK
<1> QED BY <1>1 DEF Dispatched

(* The last iteration of a post or an abort.                               *)
LEMMA ReturnDispatched ==
  ASSUME KInv, AlwaysSched, NEW opt \in CallOpts, os.cur \in Task, os'.cur = os.cur,
         UNCHANGED nest, Return(opt)
  PROVE  Dispatched'
<1>1. "NO_SCHED" \notin opt /\ nest \in Nat
  BY DEF AlwaysSched, KInv, KTypeOK
<1>2. CASE nest > 0
  BY <1>1, <1>2 DEF Dispatched
<1>3. CASE ~(nest > 0)
  BY <1>1, <1>3, OnTheWay DEF Return
<1> QED BY <1>2, <1>3

(* Interrupts, OSSched() and its lock.                                     *)
LEMMA SchedulerDispatched ==
  ASSUME KInv, Dispatched,
         \/ OSIntEnter \/ OSIntExit \/ OS_SchedRoundRobin
         \/ \E t \in Task : OSSched(t) \/ OSSchedLock(t) \/ OSSchedUnlock(t)
                           \/ OSSchedRoundRobinYield(t)
  PROVE  Dispatched'
<1>0. nest \in Nat /\ lock \in Nat
  BY DEF KInv, KTypeOK
<1>1. CASE OSIntEnter
  BY <1>0, <1>1 DEF OSIntEnter, Dispatched
<1>2. CASE OSIntExit
  <2>1. CASE nest' = 0 /\ lock = 0
    BY <1>2, <2>1, SwitchDispatched DEF OSIntExit
  <2>2. CASE ~(nest' = 0 /\ lock = 0)
    BY <1>2, <2>2 DEF OSIntExit, Dispatched
  <2> QED BY <2>1, <2>2
<1>3. CASE OS_SchedRoundRobin
  BY <1>0, <1>3 DEF OS_SchedRoundRobin, Dispatched
<1>4. ASSUME NEW t \in Task, OSSched(t) PROVE Dispatched'
  <2>1. CASE lock = 0
    BY <1>4, <2>1, SwitchDispatched DEF OSSched
  <2>2. CASE lock # 0
    BY <1>4, <2>2 DEF OSSched, Dispatched
  <2> QED BY <2>1, <2>2
<1>5. ASSUME NEW t \in Task, OSSchedLock(t) PROVE Dispatched'
  BY <1>0, <1>5 DEF OSSchedLock, Dispatched
<1>6. ASSUME NEW t \in Task, OSSchedUnlock(t) PROVE Dispatched'
  <2>1. os'.cur = t /\ (lock' = 0 => Goto(t, "sched"))
    BY <1>6 DEF OSSchedUnlock, Running
  <2>2. CASE lock' = 0
    BY <2>1, <2>2, OnTheWay
  <2>3. CASE lock' # 0
    BY <2>3 DEF Dispatched
  <2> QED BY <2>2, <2>3
<1>7. ASSUME NEW t \in Task, OSSchedRoundRobinYield(t) PROVE Dispatched'
  <2>1. os.prioCur \in Prio /\ Len(os.rdy[os.prioCur]) >= 2
        /\ os' = OS_RdyListMoveHeadToTail(os, os.prioCur) /\ os.cur = t
        /\ Goto(t, "sched")
    BY <1>7 DEF OSSchedRoundRobinYield, Running
  <2>2. os' = [os EXCEPT !.rdy = os'.rdy] /\ os \in TCBTables
    BY <2>1, RdyListMoveHeadToTail DEF KInv, Good
  <2>3. os'.cur = t
    BY <2>1, <2>2 DEF TCBTables
  <2> QED BY <2>1, <2>3, OnTheWay
<1> QED BY <1>1, <1>2, <1>3, <1>4, <1>5, <1>6, <1>7

(* The tick task.                                                          *)
LEMMA TickDispatched ==
  ASSUME KInv, Dispatched,
         \/ OS_TickListUpdate \/ OS_TickTaskPend
         \/ \E t \in Task : OS_TickListUpdateLoop(t)
  PROVE  Dispatched'
<1>1. CASE OS_TickListUpdate
  BY <1>1 DEF OS_TickListUpdate, TickLoop, Free, Dispatched
<1>2. CASE OS_TickTaskPend
  BY <1>2, SwitchDispatched DEF OS_TickTaskPend
<1>3. ASSUME NEW t \in Task, OS_TickListUpdateLoop(t) PROVE Dispatched'
  <2>1. crit \in [op : {"none", "post", "abort", "tick"}, obj : Obj \cup {NoObj},
                  opt : Options, left : Nat, due : SUBSET Task]
    BY DEF KInv, KTypeOK
  <2>2. crit'.op = "tick"
    BY <1>3, <2>1 DEF OS_TickListUpdateLoop
  <2> QED BY <2>2 DEF Free, Dispatched
<1> QED BY <1>1, <1>2, <1>3

(* Task services.                                                          *)
LEMMA ServicesDispatched ==
  ASSUME KInv, NEW t \in Task,
         \/ \E n \in 1..MaxDly : OSTimeDly(t, n)
         \/ \E u \in Task :
              \/ OSTaskSuspend(t, u) \/ OSTaskResume(t, u)
              \/ \E p \in Prio, self \in BOOLEAN : OSTaskChangePrio(t, u, p, self)
  PROVE  Dispatched'
<1>1. Running(t) /\ Goto(t, "sched")
  BY DEF OSTimeDly, OSTaskSuspend, OSTaskResume, OSTaskChangePrio
<1>2. os.cur = t /\ os.state[t] = {} /\ t # Idle
  BY <1>1, RunningReady
<1>3. ASSUME NEW n \in 1..MaxDly, OSTimeDly(t, n) PROVE os'.cur = os.cur
  <2>1. os' = Delay(os, t, n)
    BY <1>3 DEF OSTimeDly
  <2>2. Blocks(os, os', t, {"DLY"})
    BY <1>2, <2>1, DelayGood DEF KInv
  <2> QED BY <2>2 DEF Blocks
<1>4. ASSUME NEW u \in Task, OSTaskSuspend(t, u) PROVE os'.cur = os.cur
  <2>1. os' = OS_TaskSuspend(os, u) /\ u \in Task \ {Idle}
        /\ os.susp[u] < MaxSusp /\ os.state[u] # {"DEL"}
    BY <1>4 DEF OSTaskSuspend, Exists
  <2> QED BY <2>1, SuspendGood DEF KInv
<1>5. ASSUME NEW u \in Task, OSTaskResume(t, u) PROVE os'.cur = os.cur
  BY <1>5, ResumeGood DEF OSTaskResume, KInv
<1>6. ASSUME NEW u \in Task, NEW p \in Prio, NEW self \in BOOLEAN,
             OSTaskChangePrio(t, u, p, self)
      PROVE  os'.cur = os.cur
  BY <1>6, TaskChangePrioDoes
<1> QED BY <1>1, <1>2, <1>3, <1>4, <1>5, <1>6, OnTheWay

(* Posts and aborts: the loop, and an abort that begins it.                *)
LEMMA LoopDispatched ==
  ASSUME KInv, AlwaysSched, PendListLoop PROVE Dispatched'
<1>1. Wakes(os, os', Head(os.pend[crit.obj]))
  BY PendListLoopWakes
<1>2. /\ crit.op \in {"post", "abort"} /\ os'.cur = os.cur /\ os.cur \in Task
      /\ UNCHANGED nest
  BY <1>1 DEF PendListLoop, Wakes, KInv, KTypeOK, TCBTables, TickTaskRuns
<1>3. CASE crit.left > 1
  <2>1. crit' = [crit EXCEPT !.left = @ - 1]
    BY <1>3 DEF PendListLoop
  <2>2. crit'.op # "none"
    BY <1>2, <2>1 DEF KInv, KTypeOK
  <2> QED BY <2>2 DEF Free, Dispatched
<1>4. CASE ~(crit.left > 1)
  BY <1>2, <1>4, ReturnDispatched DEF PendListLoop, KInv, LoopsEnd
<1> QED BY <1>3, <1>4

LEMMA AbortDispatched ==
  ASSUME KInv, NEW t \in Task, NEW o \in Obj, NEW opt \in Options, PendAbort(t, o, opt)
  PROVE  Dispatched'
  BY DEF PendAbort, PendLoop, Free, Dispatched

LEMMA KNextDispatched ==
  ASSUME KInv, AlwaysSched, Dispatched, KNext PROVE Dispatched'
<1>1. CASE \/ OSIntEnter \/ OSIntExit \/ OS_SchedRoundRobin
           \/ \E t \in Task : OSSched(t) \/ OSSchedLock(t) \/ OSSchedUnlock(t)
                             \/ OSSchedRoundRobinYield(t)
  BY <1>1, SchedulerDispatched
<1>2. CASE \/ OS_TickListUpdate \/ OS_TickTaskPend
           \/ \E t \in Task : OS_TickListUpdateLoop(t)
  BY <1>2, TickDispatched
<1>3. CASE PendListLoop
  BY <1>3, LoopDispatched
<1>4. ASSUME NEW t \in Task,
             \/ \E n \in 1..MaxDly : OSTimeDly(t, n)
             \/ \E u \in Task :
                  \/ OSTaskSuspend(t, u) \/ OSTaskResume(t, u)
                  \/ \E p \in Prio, self \in BOOLEAN : OSTaskChangePrio(t, u, p, self)
      PROVE  Dispatched'
  BY <1>4, ServicesDispatched
<1>5. ASSUME NEW t \in Task, NEW o \in Obj, NEW opt \in Options, PendAbort(t, o, opt)
      PROVE  Dispatched'
  BY <1>5, AbortDispatched
<1> QED BY <1>1, <1>2, <1>3, <1>4, <1>5 DEF KNext, KStep, KCall

-----------------------------------------------------------------------------
(* What a step does to the waits: it leaves them alone or ends one, as a   *)
(* timeout, an abort or an iteration of a post.  No step but the caller's  *)
(* own takes a task into a pend or out of one.                             *)

InPend(t) == pc[t] \in {"pend", "wake"}

(* A task waits only inside a pend, and an iteration of a post or an abort *)
(* that schedules was called from application code.                        *)
Places ==
  /\ \A t \in Task : os.pendObj[t] # NoObj => InPend(t)
  /\ crit.op \in {"post", "abort"} /\ nest = 0 => pc[os.cur] = "run"

SamePlaces == \A t \in Task : InPend(t)' <=> InPend(t)

WaitsStay ==
  SamePlaces /\ os'.pendObj = os.pendObj /\ os'.pendStatus = os.pendStatus

WaitEnds(t, status) ==
  /\ SamePlaces /\ os.pendObj[t] # NoObj
  /\ os'.pendObj = [os.pendObj EXCEPT ![t] = NoObj]
  /\ os'.pendStatus = [os.pendStatus EXCEPT ![t] = status]

(* One waiter fewer to hand something to.                                  *)
OneFewer ==
  \/ crit.left > 1 /\ crit' = [crit EXCEPT !.left = @ - 1]
  \/ crit.left = 1 /\ crit' = Free

NoPost == crit.op # "post" /\ crit'.op # "post"

WaitsEffect ==
  \/ WaitsStay /\ NoPost
  \/ \E t \in Task, status \in {"TIMEOUT", "ABORT"} : WaitEnds(t, status) /\ NoPost
  \/ \E t \in Task : /\ WaitEnds(t, "OK") /\ OneFewer
                     /\ crit.op = "post" /\ os.pendObj[t] = crit.obj

LEMMA KInitPlaces == KInit => Places
<1> SUFFICES ASSUME KInit PROVE Places
  OBVIOUS
<1>1. PICK lists : os = OS_TASK_SW(InitTables(lists))
  BY DEF KInit
<1>2. os.pendObj = [t \in Task |-> NoObj]
  BY <1>1 DEF OS_TASK_SW, InitTables
<1> QED BY <1>2 DEF Places, KInit, Free

LEMMA PlacesKept ==
  ASSUME Places, SamePlaces,
         \A t \in Task : os.pendObj[t] = NoObj => os'.pendObj[t] = NoObj,
         crit'.op \in {"post", "abort"} /\ nest' = 0 => pc'[os'.cur] = "run"
  PROVE  Places'
  BY DEF Places, SamePlaces

(* A step outside the loops of posts and aborts that leaves every wait.    *)
LEMMA QuietStep ==
  ASSUME Places, WaitsStay, NoPost,
         crit'.op = "abort" /\ nest' = 0 => pc'[os'.cur] = "run"
  PROVE  Places' /\ WaitsEffect
<1>1. Places'
  BY PlacesKept DEF WaitsStay, NoPost
<1> QED BY <1>1 DEF WaitsEffect

(* A call of the running task that ends on the way to OSSched().           *)
LEMMA CallStays ==
  ASSUME KInv, NEW t \in Task, pc[t] \in {"run", "sched"},
         \/ UNCHANGED pc
         \/ Goto(t, "sched") \/ Goto(t, "run")
  PROVE  SamePlaces
<1>1. pc \in [Task -> Where]
  BY DEF KInv, KTypeOK
<1>2. UNCHANGED pc \/ pc' = [pc EXCEPT ![t] = "sched"] \/ pc' = [pc EXCEPT ![t] = "run"]
  BY DEF Goto
<1> QED BY <1>1, <1>2 DEF SamePlaces, InPend

LEMMA SchedulerWaits ==
  ASSUME KInv, Places,
         \/ OSIntEnter \/ OSIntExit \/ OS_SchedRoundRobin
         \/ \E t \in Task : OSSched(t) \/ OSSchedLock(t) \/ OSSchedUnlock(t)
                           \/ OSSchedRoundRobinYield(t)
  PROVE  Places' /\ WaitsEffect
<1>1. crit = Free /\ crit' = Free /\ crit.op = "none" /\ crit'.op = "none"
  BY DEF OSIntEnter, OSIntExit, OS_SchedRoundRobin, OSSched, OSSchedLock,
         OSSchedUnlock, OSSchedRoundRobinYield, Running, Free
<1>2. NoPost
  BY <1>1 DEF NoPost
<1> SUFFICES WaitsStay
  BY <1>1, <1>2, QuietStep
<1>3. ASSUME os' = OS_TASK_SW(os)
      PROVE  os'.pendObj = os.pendObj /\ os'.pendStatus = os.pendStatus
  BY <1>3, TaskSwGood DEF KInv
<1>4. ASSUME NEW p \in Prio, Len(os.rdy[p]) >= 2, os' = OS_RdyListMoveHeadToTail(os, p)
      PROVE  os'.pendObj = os.pendObj /\ os'.pendStatus = os.pendStatus
  <2>1. os' = [os EXCEPT !.rdy = os'.rdy] /\ os \in TCBTables
    BY <1>4, RdyListMoveHeadToTail DEF KInv, Good
  <2> QED BY <2>1 DEF TCBTables
<1>5. CASE OSIntEnter
  BY <1>5 DEF OSIntEnter, WaitsStay, SamePlaces, InPend
<1>6. CASE OSIntExit
  BY <1>3, <1>6 DEF OSIntExit, WaitsStay, SamePlaces, InPend
<1>7. CASE OS_SchedRoundRobin
  <2>1. os.prioCur \in Prio
    BY <1>7, CoreAssumption DEF OS_SchedRoundRobin, Prio
  <2> QED BY <1>4, <1>7, <2>1 DEF OS_SchedRoundRobin, WaitsStay, SamePlaces, InPend
<1>8. ASSUME NEW t \in Task, OSSched(t) PROVE WaitsStay
  <2>1. pc \in [Task -> Where] /\ pc[t] \in {"sched", "pend"}
        /\ pc' = [pc EXCEPT ![t] = IF pc[t] = "sched" THEN "run" ELSE "wake"]
    BY <1>8 DEF OSSched, Goto, KInv, KTypeOK
  <2>2. SamePlaces
    BY <2>1 DEF SamePlaces, InPend
  <2> QED BY <1>3, <1>8, <2>2 DEF OSSched, WaitsStay
<1>9. ASSUME NEW t \in Task, OSSchedLock(t) \/ OSSchedUnlock(t) PROVE WaitsStay
  <2>1. UNCHANGED os /\ pc[t] = "run" /\ (UNCHANGED pc \/ Goto(t, "sched"))
    BY <1>9 DEF OSSchedLock, OSSchedUnlock, Running
  <2> QED BY <2>1, CallStays DEF WaitsStay
<1>10. ASSUME NEW t \in Task, OSSchedRoundRobinYield(t) PROVE WaitsStay
  <2>1. /\ os.prioCur \in Prio /\ Len(os.rdy[os.prioCur]) >= 2 /\ pc[t] = "run"
        /\ os' = OS_RdyListMoveHeadToTail(os, os.prioCur) /\ Goto(t, "sched")
    BY <1>10 DEF OSSchedRoundRobinYield, Running
  <2> QED BY <1>4, <2>1, CallStays DEF WaitsStay
<1> QED BY <1>5, <1>6, <1>7, <1>8, <1>9, <1>10

LEMMA TickWaits ==
  ASSUME KInv, Places,
         \/ OS_TickListUpdate \/ OS_TickTaskPend
         \/ \E t \in Task : OS_TickListUpdateLoop(t)
  PROVE  Places' /\ WaitsEffect
<1>1. /\ crit.op \in {"none", "tick"} /\ crit'.op \in {"none", "tick"}
      /\ UNCHANGED pc
  BY DEF OS_TickListUpdate, OS_TickTaskPend, OS_TickListUpdateLoop, TickLoop, Free,
         KInv, KTypeOK
<1>2. NoPost /\ SamePlaces
  BY <1>1 DEF NoPost, SamePlaces, InPend
<1>3. CASE OS_TickListUpdate \/ OS_TickTaskPend
  <2>1. os' = TickDown(os) \/ os' = OS_TASK_SW(os)
    BY <1>3 DEF OS_TickListUpdate, OS_TickTaskPend
  <2>2. WaitsStay
    BY <1>2, <2>1, TickDownGood, TaskSwGood DEF KInv, WaitsStay
  <2> QED BY <1>1, <1>2, <2>2, QuietStep
<1>4. ASSUME NEW t \in Task, OS_TickListUpdateLoop(t)
      PROVE  Places' /\ WaitsEffect
  <2>1. os' = TickExpire(os, t) /\ os.tick[t] > 0 /\ Good(os)
    BY <1>4 DEF OS_TickListUpdateLoop, KInv, LoopsEnd
  <2>2. /\ Wakes(os, os', t)
        /\ os'.pendStatus = IF "PEND" \in os.state[t]
                            THEN [os.pendStatus EXCEPT ![t] = "TIMEOUT"]
                            ELSE os.pendStatus
    BY <2>1, TickExpireWakes
  <2>3. /\ os'.pendObj = [os.pendObj EXCEPT ![t] = NoObj]
        /\ os.pendObj \in [Task -> Obj \cup {NoObj}]
        /\ os.pendObj[t] # NoObj <=> "PEND" \in os.state[t]
    BY <2>1, <2>2 DEF Wakes, Good, TCBTables, PendAgrees
  <2>4. CASE os.pendObj[t] # NoObj
    <3>1. WaitEnds(t, "TIMEOUT")
      BY <1>2, <2>2, <2>3, <2>4 DEF WaitEnds
    <3>2. Places'
      BY <1>1, <1>2, <2>3, PlacesKept
    <3> QED BY <1>2, <3>1, <3>2 DEF WaitsEffect
  <2>5. CASE os.pendObj[t] = NoObj
    <3>1. WaitsStay
      BY <1>2, <2>2, <2>3, <2>5 DEF WaitsStay
    <3> QED BY <1>1, <1>2, <3>1, QuietStep
  <2> QED BY <2>4, <2>5
<1> QED BY <1>3, <1>4

LEMMA ServicesWaits ==
  ASSUME KInv, Places, NEW t \in Task,
         \/ \E n \in 1..MaxDly : OSTimeDly(t, n)
         \/ \E u \in Task :
              \/ OSTaskSuspend(t, u) \/ OSTaskResume(t, u)
              \/ \E p \in Prio, self \in BOOLEAN : OSTaskChangePrio(t, u, p, self)
  PROVE  Places' /\ WaitsEffect
<1>1. Running(t) /\ Goto(t, "sched") /\ UNCHANGED crit
  BY DEF OSTimeDly, OSTaskSuspend, OSTaskResume, OSTaskChangePrio
<1>2. /\ os.state[t] = {} /\ t # Idle /\ pc[t] = "run" /\ Good(os)
      /\ crit.op = "none" /\ crit'.op = "none"
  BY <1>1, RunningReady DEF Running, Free, KInv
<1>3. NoPost /\ SamePlaces
  BY <1>1, <1>2, CallStays DEF NoPost
<1> DEFINE Kept == os'.pendObj = os.pendObj /\ os'.pendStatus = os.pendStatus
<1>4. ASSUME NEW n \in 1..MaxDly, OSTimeDly(t, n) PROVE Kept
  BY <1>2, <1>4, DelayGood DEF OSTimeDly
<1>5. ASSUME NEW u \in Task, OSTaskSuspend(t, u) PROVE Kept
  <2>1. os' = OS_TaskSuspend(os, u) /\ u \in Task \ {Idle}
        /\ os.susp[u] < MaxSusp /\ os.state[u] # {"DEL"}
    BY <1>5 DEF OSTaskSuspend, Exists
  <2> QED BY <1>2, <2>1, SuspendGood
<1>6. ASSUME NEW u \in Task, OSTaskResume(t, u) PROVE Kept
  BY <1>2, <1>6, ResumeGood DEF OSTaskResume
<1>7. ASSUME NEW u \in Task, NEW p \in Prio, NEW self \in BOOLEAN,
             OSTaskChangePrio(t, u, p, self)
      PROVE  Kept
  BY <1>7, TaskChangePrioDoes
<1>8. WaitsStay
  BY <1>3, <1>4, <1>5, <1>6, <1>7 DEF WaitsStay
<1> QED BY <1>2, <1>3, <1>8, QuietStep

LEMMA LoopWaits ==
  ASSUME KInv, Places, PendListLoop PROVE Places' /\ WaitsEffect
<1> DEFINE head == Head(os.pend[crit.obj])
<1>1. /\ crit.obj \in Obj /\ head \in Task /\ os.pendObj[head] = crit.obj
      /\ Wakes(os, os', head)
      /\ os'.pendStatus = [os.pendStatus EXCEPT ![head] =
                              IF crit.op = "post" THEN "OK" ELSE "ABORT"]
  BY PendListLoopWakes
<1> HIDE DEF head
<1>2. /\ crit.op \in {"post", "abort"} /\ crit.left \in Nat \ {0}
      /\ os'.cur = os.cur /\ os.cur \in Task /\ UNCHANGED nest
      /\ os'.pendObj = [os.pendObj EXCEPT ![head] = NoObj]
      /\ os.pendObj \in [Task -> Obj \cup {NoObj}]
  <2>1. /\ crit.op \in {"post", "abort"} /\ UNCHANGED nest
        /\ crit.left \in 1..Len(os.pend[crit.obj]) /\ crit.left \in Nat
    BY DEF PendListLoop, KInv, KTypeOK, LoopsEnd
  <2>2. os.pendObj \in [Task -> Obj \cup {NoObj}] /\ os.cur \in Task
    BY <2>1 DEF KInv, KTypeOK, TCBTables, TickTaskRuns
  <2>3. os'.cur = os.cur /\ os'.pendObj = [os.pendObj EXCEPT ![head] = NoObj]
    BY <1>1 DEF Wakes
  <2> QED BY <2>1, <2>2, <2>3
<1>3. SamePlaces
  <2>1. CASE UNCHANGED pc
    BY <2>1 DEF SamePlaces, InPend
  <2>2. CASE nest = 0 /\ Goto(os.cur, "sched")
    BY <1>2, <2>2, CallStays DEF Places
  <2>3. nest \in Nat
    BY DEF KInv, KTypeOK
  <2> QED BY <2>1, <2>2, <2>3 DEF PendListLoop, Return
<1>4. OneFewer /\ (crit'.op \in {"post", "abort"} => UNCHANGED pc /\ crit'.op = crit.op)
      /\ (crit.op = "abort" => crit'.op # "post")
  BY <1>2 DEF PendListLoop, OneFewer, Free, KInv, KTypeOK
<1>5. Places'
  BY <1>2, <1>3, <1>4, PlacesKept DEF Places
<1>6. os.pendObj[head] # NoObj
  BY <1>1, CoreAssumption
<1>7. CASE crit.op = "post"
  <2>1. WaitEnds(head, "OK")
    BY <1>1, <1>2, <1>3, <1>6, <1>7 DEF WaitEnds
  <2> QED BY <1>1, <1>4, <1>5, <1>7, <2>1 DEF WaitsEffect
<1>8. CASE crit.op = "abort"
  <2>1. WaitEnds(head, "ABORT") /\ NoPost
    BY <1>1, <1>2, <1>3, <1>4, <1>6, <1>8 DEF WaitEnds, NoPost
  <2> QED BY <1>1, <1>5, <2>1 DEF WaitsEffect
<1> QED BY <1>2, <1>7, <1>8

LEMMA AbortWaits ==
  ASSUME KInv, Places, NEW t \in Task, NEW o \in Obj, NEW opt \in Options,
         PendAbort(t, o, opt)
  PROVE  Places' /\ WaitsEffect
<1>1. /\ crit.op = "none" /\ crit'.op = "abort" /\ UNCHANGED <<os, pc>>
      /\ pc[os.cur] = "run"
  BY DEF PendAbort, PendLoop, Running, Free
<1>2. WaitsStay /\ NoPost
  BY <1>1 DEF WaitsStay, SamePlaces, InPend, NoPost
<1> QED BY <1>1, <1>2, QuietStep

LEMMA KNextWaits ==
  ASSUME KInv, Places, KNext PROVE Places' /\ WaitsEffect
<1>1. CASE \/ OSIntEnter \/ OSIntExit \/ OS_SchedRoundRobin
           \/ \E t \in Task : OSSched(t) \/ OSSchedLock(t) \/ OSSchedUnlock(t)
                             \/ OSSchedRoundRobinYield(t)
  BY <1>1, SchedulerWaits
<1>2. CASE \/ OS_TickListUpdate \/ OS_TickTaskPend
           \/ \E t \in Task : OS_TickListUpdateLoop(t)
  BY <1>2, TickWaits
<1>3. CASE PendListLoop
  BY <1>3, LoopWaits
<1>4. ASSUME NEW t \in Task,
             \/ \E n \in 1..MaxDly : OSTimeDly(t, n)
             \/ \E u \in Task :
                  \/ OSTaskSuspend(t, u) \/ OSTaskResume(t, u)
                  \/ \E p \in Prio, self \in BOOLEAN : OSTaskChangePrio(t, u, p, self)
      PROVE  Places' /\ WaitsEffect
  BY <1>4, ServicesWaits
<1>5. ASSUME NEW t \in Task, NEW o \in Obj, NEW opt \in Options, PendAbort(t, o, opt)
      PROVE  Places' /\ WaitsEffect
  BY <1>5, AbortWaits
<1> QED BY <1>1, <1>2, <1>3, <1>4, <1>5 DEF KNext, KStep, KCall

-----------------------------------------------------------------------------
(* Priorities: without OSTaskChangePrio() the kernel does not change them. *)

LEMMA SwitchPrios ==
  ASSUME KInv, os' = OS_TASK_SW(os)
  PROVE  os'.prio = os.prio /\ (CurPrio => CurPrio')
  BY TaskSwGood DEF KInv, CurPrio

LEMMA TurnPrios ==
  ASSUME KInv, NEW p \in Prio, Len(os.rdy[p]) >= 2,
         os' = OS_RdyListMoveHeadToTail(os, p)
  PROVE  os'.prio = os.prio /\ os'.cur = os.cur /\ os'.prioCur = os.prioCur
<1>1. os' = [os EXCEPT !.rdy = os'.rdy] /\ os \in TCBTables
  BY RdyListMoveHeadToTail DEF KInv, Good
<1> QED BY <1>1 DEF TCBTables

LEMMA KNextPrios ==
  ASSUME KInv, KNext, "chprio" \notin Uses
  PROVE  os'.prio = os.prio /\ (CurPrio => CurPrio')
<1> DEFINE Kept == /\ os'.prio = os.prio
                   /\ os'.cur = os.cur /\ os'.prioCur = os.prioCur
           Goal == os'.prio = os.prio /\ (CurPrio => CurPrio')
<1>1. Kept => Goal
  BY DEF CurPrio
<1>2. CASE OSIntEnter \/ OSIntExit
  BY <1>1, <1>2, SwitchPrios DEF OSIntEnter, OSIntExit
<1>3. CASE OS_SchedRoundRobin
  <2>1. os.prioCur \in Prio
    BY <1>3, CoreAssumption DEF OS_SchedRoundRobin, Prio
  <2> QED BY <1>1, <1>3, <2>1, TurnPrios DEF OS_SchedRoundRobin
<1>4. CASE OS_TickListUpdate
  BY <1>4, TickDownGood, CoreAssumption DEF OS_TickListUpdate, KInv, CurPrio
<1>5. CASE OS_TickTaskPend
  BY <1>5, SwitchPrios DEF OS_TickTaskPend
<1>6. CASE PendListLoop
  <2>1. Wakes(os, os', Head(os.pend[crit.obj]))
    BY <1>6, PendListLoopWakes
  <2> QED BY <1>1, <2>1 DEF Wakes
<1>7. ASSUME NEW t \in Task, OSSched(t) \/ OSSchedLock(t) \/ OSSchedUnlock(t)
      PROVE  Goal
  BY <1>1, <1>7, SwitchPrios DEF OSSched, OSSchedLock, OSSchedUnlock
<1>8. ASSUME NEW t \in Task, OSSchedRoundRobinYield(t) PROVE Goal
  BY <1>1, <1>8, TurnPrios DEF OSSchedRoundRobinYield
<1>9. ASSUME NEW t \in Task, OS_TickListUpdateLoop(t) PROVE Goal
  <2>1. os' = TickExpire(os, t) /\ os.tick[t] > 0 /\ Good(os)
    BY <1>9 DEF OS_TickListUpdateLoop, KInv, LoopsEnd
  <2>2. Wakes(os, os', t)
    BY <2>1, TickExpireWakes
  <2> QED BY <1>1, <2>2 DEF Wakes
<1>10. ASSUME NEW t \in Task, NEW n \in 1..MaxDly, OSTimeDly(t, n) PROVE Goal
  <2>1. os.state[t] = {} /\ t # Idle /\ os' = Delay(os, t, n)
    BY <1>10, RunningReady DEF OSTimeDly
  <2>2. Blocks(os, os', t, {"DLY"})
    BY <2>1, DelayGood DEF KInv
  <2> QED BY <1>1, <2>2 DEF Blocks
<1>11. ASSUME NEW t \in Task, NEW u \in Task, OSTaskSuspend(t, u) PROVE Goal
  <2>1. os' = OS_TaskSuspend(os, u) /\ u \in Task \ {Idle}
        /\ os.susp[u] < MaxSusp /\ os.state[u] # {"DEL"}
    BY <1>11 DEF OSTaskSuspend, Exists
  <2> QED BY <1>1, <2>1, SuspendGood DEF KInv
<1>12. ASSUME NEW t \in Task, NEW u \in Task, OSTaskResume(t, u) PROVE Goal
  BY <1>1, <1>12, ResumeGood DEF OSTaskResume, KInv
<1>13. ASSUME NEW t \in Task, NEW o \in Obj, NEW opt \in Options, PendAbort(t, o, opt)
       PROVE  Goal
  BY <1>1, <1>13 DEF PendAbort
<1> QED
  BY <1>2, <1>3, <1>4, <1>5, <1>6, <1>7, <1>8, <1>9, <1>10, <1>11, <1>12, <1>13
  DEF KNext, KStep, KCall, OSTaskChangePrio

-----------------------------------------------------------------------------
(* What the objects' theorems use besides.                                 *)

(* A post to all starts as many iterations as there are waiters.           *)
LEMMA ListOfLength ==
  ASSUME NEW S, NEW s, ListOf(s, S) PROVE Len(s) = Cardinality(S)
<1>1. s \in Seq(Task)
  BY DEF ListOf
<1>2. /\ Len(s) \in Nat
      /\ \A j, k \in 1..Len(s) : s[j] = s[k] => j = k
      /\ \A j \in 1..Len(s) : s[j] \in S
      /\ \A x \in S : \E j \in 1..Len(s) : s[j] = x
  BY <1>1, ListOfElements
<1> DEFINE f == [j \in 1..Len(s) |-> s[j]]
<1>3. f \in Bijection(1..Len(s), S)
  BY <1>2 DEF Bijection, Injection, Surjection, IsInjective
<1> HIDE DEF f
<1>4. ExistsBijection(1..Len(s), S)
  BY <1>3 DEF ExistsBijection
<1> QED BY <1>2, <1>4, FS_CountingElements

(* Nobody is suspended when the application suspends no task.              *)
NobodySuspended == \A t \in Task : "SUSPENDED" \notin os.state[t]

LEMMA FewerBits ==
  ASSUME KInv, NobodySuspended, NEW t \in Task, NEW bits, "SUSPENDED" \notin bits,
         os'.state = [os.state EXCEPT ![t] = bits]
  PROVE  NobodySuspended'
<1>1. os.state \in [Task -> TaskStates]
  BY DEF KInv, KTypeOK, TCBTables
<1> QED BY <1>1 DEF NobodySuspended

LEMMA KNextSuspends ==
  ASSUME KInv, NobodySuspended, KNext, "suspend" \notin Uses
  PROVE  NobodySuspended'
<1>1. os'.state = os.state => NobodySuspended'
  BY DEF NobodySuspended
<1>2. ASSUME NEW t \in Task, Wakes(os, os', t) PROVE NobodySuspended'
  <2> DEFINE bits == os.state[t] \ {"DLY", "PEND"}
  <2>1. "SUSPENDED" \notin bits
    BY DEF NobodySuspended
  <2>2. os'.state = [os.state EXCEPT ![t] = bits]
    BY <1>2 DEF Wakes
  <2> HIDE DEF bits
  <2> QED BY <2>1, <2>2, FewerBits
<1>3. CASE OSIntEnter \/ OSIntExit \/ OS_TickTaskPend
  BY <1>1, <1>3, TaskSwGood DEF OSIntEnter, OSIntExit, OS_TickTaskPend, KInv
<1>4. ASSUME NEW p \in Prio, Len(os.rdy[p]) >= 2, os' = OS_RdyListMoveHeadToTail(os, p)
      PROVE  NobodySuspended'
  <2>1. os' = [os EXCEPT !.rdy = os'.rdy] /\ os \in TCBTables
    BY <1>4, RdyListMoveHeadToTail DEF KInv, Good
  <2> QED BY <1>1, <2>1 DEF TCBTables
<1>5. CASE OS_SchedRoundRobin
  <2>1. os.prioCur \in Prio
    BY <1>5, CoreAssumption DEF OS_SchedRoundRobin, Prio
  <2> QED BY <1>4, <1>5, <2>1 DEF OS_SchedRoundRobin
<1>6. CASE OS_TickListUpdate
  BY <1>1, <1>6, TickDownGood DEF OS_TickListUpdate, KInv
<1>7. CASE PendListLoop
  BY <1>2, <1>7, PendListLoopWakes
<1>8. ASSUME NEW t \in Task, OSSched(t) \/ OSSchedLock(t) \/ OSSchedUnlock(t)
      PROVE  NobodySuspended'
  BY <1>1, <1>8, TaskSwGood DEF OSSched, OSSchedLock, OSSchedUnlock, KInv
<1>9. ASSUME NEW t \in Task, OSSchedRoundRobinYield(t) PROVE NobodySuspended'
  BY <1>4, <1>9 DEF OSSchedRoundRobinYield
<1>10. ASSUME NEW t \in Task, OS_TickListUpdateLoop(t) PROVE NobodySuspended'
  <2>1. os' = TickExpire(os, t) /\ os.tick[t] > 0 /\ Good(os)
    BY <1>10 DEF OS_TickListUpdateLoop, KInv, LoopsEnd
  <2> QED BY <1>2, <2>1, TickExpireWakes
<1>11. ASSUME NEW t \in Task, NEW n \in 1..MaxDly, OSTimeDly(t, n) PROVE NobodySuspended'
  <2>1. os.state[t] = {} /\ t # Idle /\ os' = Delay(os, t, n)
    BY <1>11, RunningReady DEF OSTimeDly
  <2>2. os'.state = [os.state EXCEPT ![t] = {"DLY"}]
    BY <2>1, DelayGood DEF KInv, Blocks
  <2> QED BY <2>2, FewerBits
<1>12. ASSUME NEW t \in Task, NEW u \in Task, NEW p \in Prio, NEW self \in BOOLEAN,
              OSTaskChangePrio(t, u, p, self)
       PROVE  NobodySuspended'
  <2>1. os'.state = os.state
    BY <1>12, TaskChangePrioDoes
  <2> QED BY <1>1, <2>1
<1>13. ASSUME NEW t \in Task, NEW o \in Obj, NEW opt \in Options, PendAbort(t, o, opt)
       PROVE  NobodySuspended'
  BY <1>1, <1>13 DEF PendAbort
<1>14. ASSUME NEW t \in Task, NEW u \in Task PROVE ~OSTaskSuspend(t, u)
  BY DEF OSTaskSuspend
<1>15. ASSUME NEW t \in Task, NEW u \in Task, OSTaskResume(t, u) PROVE FALSE
  BY <1>15 DEF OSTaskResume
<1>16. ASSUME NEW t \in Task, NEW u \in Task,
              \E p \in Prio, self \in BOOLEAN : OSTaskChangePrio(t, u, p, self)
       PROVE  NobodySuspended'
  BY <1>12, <1>16
<1> QED
  BY <1>3, <1>5, <1>6, <1>7, <1>8, <1>9, <1>10, <1>11, <1>13, <1>14, <1>15, <1>16
  DEF KNext, KStep, KCall

(* No task that waits has a timeout.                                       *)
NoTimedWait == \A t \in Task : ~({"DLY", "PEND"} \subseteq os.state[t])

LEMMA ResumeFewer ==
  ASSUME NEW ks \in TCBTables, NEW u \in Task
  PROVE  \A v \in Task : OS_TaskResume(ks, u).state[v] \subseteq ks.state[v]
<1> DEFINE less   == [ks EXCEPT !.susp[u] = @ - 1]
           active == [less EXCEPT !.state[u] = @ \ {"SUSPENDED"}]
           new    == OS_TaskResume(ks, u)
<1>1. new.state \in {ks.state, less.state, active.state}
  <2>1. OS_TaskRdy(active, u).state = active.state
    BY DEF OS_TaskRdy, OS_TickListRemove, OS_RdyListInsert, OS_RdyListInsertHead,
           OS_RdyListInsertTail, TCBTables
  <2>2. new \in {ks, less, active, OS_TaskRdy(active, u)}
    BY DEF OS_TaskResume
  <2> HIDE DEF new, less, active
  <2> QED BY <2>1, <2>2
<1>2. less.state = ks.state /\ active.state = [ks.state EXCEPT ![u] = @ \ {"SUSPENDED"}]
  BY DEF TCBTables
<1> HIDE DEF new, less, active
<1>3. \A v \in Task : new.state[v] \subseteq ks.state[v]
  BY <1>1, <1>2 DEF TCBTables
<1> QED BY <1>3 DEF new

LEMMA FewerReasons ==
  ASSUME NoTimedWait, \A t \in Task : os'.state[t] \subseteq os.state[t]
  PROVE  NoTimedWait'
BY DEF NoTimedWait

(* Where waits have no timeouts and nobody aborts, the kernel ends none.   *)
LEMMA KNextKeepsWaits ==
  ASSUME KInv, NoTimedWait, KNext, crit.op \notin {"post", "abort"},
         "abort" \notin Uses, "chprio" \notin Uses
  PROVE  os'.pendObj = os.pendObj /\ NoTimedWait' /\ crit'.op \notin {"post", "abort"}
<1> DEFINE Kept == /\ os'.pendObj = os.pendObj /\ NoTimedWait'
                   /\ crit'.op \notin {"post", "abort"}
<1> SUFFICES Kept
  OBVIOUS
<1>0. /\ Good(os) /\ os.state \in [Task -> TaskStates]
      /\ os.pendObj \in [Task -> Obj \cup {NoObj}]
  BY DEF KInv, KTypeOK, TCBTables
<1>1. ASSUME os'.pendObj = os.pendObj, os'.state = os.state,
             crit'.op \notin {"post", "abort"}
      PROVE  Kept
  BY <1>1 DEF NoTimedWait
<1>2. CASE OSIntEnter \/ OSIntExit
  BY <1>0, <1>1, <1>2, TaskSwGood DEF OSIntEnter, OSIntExit
<1>3. ASSUME NEW p \in Prio, Len(os.rdy[p]) >= 2, UNCHANGED crit,
             os' = OS_RdyListMoveHeadToTail(os, p)
      PROVE  Kept
  <2>1. os' = [os EXCEPT !.rdy = os'.rdy] /\ os \in TCBTables
    BY <1>3, RdyListMoveHeadToTail DEF KInv, Good
  <2> QED BY <1>1, <1>3, <2>1 DEF TCBTables
<1>4. CASE OS_SchedRoundRobin
  <2>1. os.prioCur \in Prio
    BY <1>4, CoreAssumption DEF OS_SchedRoundRobin, Prio
  <2> QED BY <1>3, <1>4, <2>1 DEF OS_SchedRoundRobin
<1>5. CASE OS_TickListUpdate
  <2>1. os' = TickDown(os) /\ crit'.op = "tick"
    BY <1>5 DEF OS_TickListUpdate, TickLoop
  <2> QED BY <1>0, <1>1, <2>1, TickDownGood
<1>6. CASE OS_TickTaskPend
  <2>1. os' = OS_TASK_SW(os) /\ crit'.op = "none"
    BY <1>6 DEF OS_TickTaskPend, Free
  <2> QED BY <1>0, <1>1, <2>1, TaskSwGood
<1>7. ~PendListLoop
  BY DEF PendListLoop
<1>8. ASSUME NEW t \in Task, OSSched(t) \/ OSSchedLock(t) \/ OSSchedUnlock(t)
      PROVE  Kept
  BY <1>0, <1>1, <1>8, TaskSwGood DEF OSSched, OSSchedLock, OSSchedUnlock
<1>9. ASSUME NEW t \in Task, OSSchedRoundRobinYield(t) PROVE Kept
  BY <1>3, <1>9 DEF OSSchedRoundRobinYield
<1>10. ASSUME NEW t \in Task, OS_TickListUpdateLoop(t)
       PROVE  Kept
  <2>1. os' = TickExpire(os, t) /\ os.tick[t] > 0
    BY <1>10 DEF OS_TickListUpdateLoop, KInv, LoopsEnd
  <2>2. os.pendObj[t] = NoObj
    BY <1>0, <2>1 DEF Good, TicksAgree, PendAgrees, NoTimedWait
  <2>3. Wakes(os, os', t)
    BY <1>0, <2>1, TickExpireWakes
  <2>4. os'.pendObj = os.pendObj
    BY <1>0, <2>2, <2>3 DEF Wakes
  <2>5. \A u \in Task : os'.state[u] \subseteq os.state[u]
    BY <1>0, <2>3 DEF Wakes
  <2>6. crit'.op = "tick"
    BY <1>10 DEF OS_TickListUpdateLoop, KInv, KTypeOK
  <2> QED BY <2>4, <2>5, <2>6, FewerReasons
<1>11. ASSUME NEW t \in Task, NEW n \in 1..MaxDly, OSTimeDly(t, n)
       PROVE  Kept
  <2>1. os.state[t] = {} /\ t # Idle /\ os' = Delay(os, t, n) /\ UNCHANGED crit
    BY <1>11, RunningReady DEF OSTimeDly
  <2>2. os'.state = [os.state EXCEPT ![t] = {"DLY"}] /\ os'.pendObj = os.pendObj
    BY <1>0, <2>1, DelayGood DEF Blocks
  <2> QED BY <1>0, <2>1, <2>2 DEF NoTimedWait
<1>12. ASSUME NEW t \in Task, NEW u \in Task, OSTaskSuspend(t, u)
       PROVE  Kept
  <2>1. os' = OS_TaskSuspend(os, u) /\ u \in Task \ {Idle} /\ UNCHANGED crit
        /\ os.susp[u] < MaxSusp /\ os.state[u] # {"DEL"}
    BY <1>12 DEF OSTaskSuspend, Exists
  <2>2. /\ os'.state = [os.state EXCEPT ![u] = @ \cup {"SUSPENDED"}]
        /\ os'.pendObj = os.pendObj
    BY <1>0, <2>1, SuspendGood
  <2> QED BY <1>0, <2>1, <2>2 DEF NoTimedWait
<1>13. ASSUME NEW t \in Task, NEW u \in Task, OSTaskResume(t, u)
       PROVE  Kept
  <2>1. os' = OS_TaskResume(os, u) /\ UNCHANGED crit /\ os \in TCBTables
    BY <1>13 DEF OSTaskResume, KInv, KTypeOK
  <2>2. os'.pendObj = os.pendObj
    BY <1>0, <2>1, ResumeGood
  <2>3. \A v \in Task : os'.state[v] \subseteq os.state[v]
    BY <2>1, ResumeFewer
  <2> QED BY <2>1, <2>2, <2>3, FewerReasons
<1>14. ASSUME NEW t \in Task, NEW o \in Obj, NEW opt \in Options PROVE ~PendAbort(t, o, opt)
  BY DEF PendAbort
<1>15. ASSUME NEW t \in Task, NEW u \in Task
       PROVE  ~\E p \in Prio, self \in BOOLEAN : OSTaskChangePrio(t, u, p, self)
  BY DEF OSTaskChangePrio
<1> HIDE DEF Kept
<1> QED
  BY <1>2, <1>4, <1>5, <1>6, <1>7, <1>8, <1>9, <1>10, <1>11, <1>12, <1>13, <1>14, <1>15
  DEF KNext, KStep, KCall

(* A walk of a pend list in a call or an interrupt handler.                *)
LEMMA TellsInv ==
  ASSUME KInv, crit = Free, os.cur \in Task,
         NEW s \in Obj, NEW D \in SUBSET Waiters(os, s), NEW status,
         Told(os, os', status, s, D),
         UNCHANGED pc \/ (pc[os.cur] = "run" /\ Goto(os.cur, "sched")),
         UNCHANGED <<nest, lock, crit>>
  PROVE  /\ KInv' /\ SamePlaces
         /\ Places => Places'
         /\ NobodySuspended => NobodySuspended'
<1>1. /\ pc \in [Task -> Where] /\ crit.op = "none"
      /\ \/ pc' = pc
         \/ pc[os.cur] = "run" /\ pc' = [pc EXCEPT ![os.cur] = "sched"]
      /\ Good(os) /\ Good(os') /\ os'.cur = os.cur /\ D \in SUBSET Task
  BY DEF Free, Goto, KInv, KTypeOK, Told, Waiters
<1>2. /\ \A t \in Task : os'.state[t] = os.state[t] \/ os'.state[t] = os.state[t] \ {"DLY", "PEND"}
      /\ \A t \in Task : os'.pendObj[t] = os.pendObj[t] \/ os'.pendObj[t] = NoObj
  BY <1>1 DEF Told
<1>3. KTypeOK'
  BY <1>1 DEF KInv, KTypeOK, Good, Where
<1>4. \A t \in Task : os.state[t] = {} => os'.state[t] = {}
  BY <1>2
<1>5. TickTaskRuns' /\ RunningIsReady' /\ LockedIsReady' /\ LoopsEnd'
  BY <1>1, <1>4 DEF KInv, TickTaskRuns, RunningIsReady, LockedIsReady, LoopsEnd
<1>6. SamePlaces
  BY <1>1 DEF SamePlaces, InPend
<1>7. Places => Places'
  BY <1>1, <1>2, <1>6 DEF Places, SamePlaces
<1>8. NobodySuspended => NobodySuspended'
  BY <1>2 DEF NobodySuspended
<1> QED BY <1>1, <1>3, <1>5, <1>6, <1>7, <1>8 DEF KInv

-----------------------------------------------------------------------------
(* Calls on objects that may have been deleted.                            *)

(* What was deleted with care: nobody is in a call on it.                  *)
Lost == gone \ Careless

CallsAgree == CallTypeOK /\ \A t \in Task : called[t] \notin Lost

LostAreEmpty == \A o \in Lost : os.pend[o] = << >>

LEMMA InitCalls == CallInit => CallsAgree /\ LostAreEmpty
  BY DEF CallInit, CallsAgree, CallTypeOK, Lost, LostAreEmpty

LEMMA CallsStutter ==
  ASSUME CallsAgree, UNCHANGED callvars PROVE CallsAgree' /\ UNCHANGED gone
  BY DEF callvars, CallsAgree, CallTypeOK, Lost

(* A call begins and ends; tasks that are in none are in none.             *)
LEMMA CheckCalls ==
  ASSUME CallsAgree, NEW t \in Task, NEW o \in Obj, Check(t, o)
  PROVE  CallsAgree' /\ UNCHANGED gone
  BY DEF Check, CallsAgree, CallTypeOK, Lost

LEMMA ResetCalls ==
  ASSUME CallsAgree, NEW t, called' = [called EXCEPT ![t] = NoObj],
         NEW S \in SUBSET Obj, gone' = S,
         \A u \in Task \ {t} : called[u] \notin S \ Careless
  PROVE  CallsAgree'
<1>1. called \in [Task -> Obj \cup {NoObj}] /\ NoObj \notin Obj
  BY CoreAssumption DEF CallsAgree, CallTypeOK
<1> QED BY <1>1 DEF CallsAgree, CallTypeOK, Lost

LEMMA WithinCalls ==
  ASSUME CallsAgree, NEW t \in Task, NEW o, Within(t, o), UNCHANGED gone
  PROVE  CallsAgree' /\ Running(t) /\ o \notin Lost
<1>1. gone \in SUBSET Obj /\ \A u \in Task : called[u] \notin gone \ Careless
  BY DEF CallsAgree, CallTypeOK, Lost
<1> QED BY <1>1, ResetCalls DEF Within, Lost

LEMMA PassedCalls ==
  ASSUME CallsAgree, NEW o \in Obj, Passed(o)
  PROVE  CallsAgree' /\ UNCHANGED gone /\ o \in Obj \ Lost
<1>1. CASE \E t \in Task : Within(t, o)
  BY <1>1, WithinCalls DEF Passed
<1>2. CASE o \notin gone /\ UNCHANGED called
  BY <1>2, CallsStutter DEF Passed, callvars, Lost
<1> QED BY <1>1, <1>2 DEF Passed

LEMMA DeleteCalls ==
  ASSUME CallsAgree, NEW t \in Task, NEW o \in Obj, Delete(t, o)
  PROVE  /\ CallsAgree' /\ Running(t)
         /\ gone' = gone \cup {o} /\ Lost' \subseteq Lost \cup {o}
<1>1. /\ gone \cup {o} \in SUBSET Obj
      /\ \A u \in Task \ {t} : called[u] \notin (gone \cup {o}) \ Careless
  BY DEF Delete, CallsAgree, CallTypeOK, Lost
<1>2. CallsAgree'
  BY <1>1, ResetCalls DEF Delete, Within
<1> QED BY <1>2 DEF Delete, Within, Lost

LEMMA CreateCalls ==
  ASSUME CallsAgree, Orderly, NEW t \in Task, NEW o \in Obj, Create(t, o)
  PROVE  /\ CallsAgree' /\ Running(t) /\ o \in Lost
         /\ gone' = gone \ {o} /\ Lost' = Lost \ {o}
  BY DEF Create, Orderly, CallsAgree, CallTypeOK, Lost

(* The kernel's steps delete and create nothing.                           *)
LEMMA CNextCalls ==
  ASSUME CallsAgree, CNext
  PROVE  CallsAgree' /\ UNCHANGED gone /\ (KNext \/ UNCHANGED kvars)
<1>1. CASE KStep /\ UNCHANGED callvars
  BY <1>1, CallsStutter DEF KNext
<1>2. ASSUME NEW t \in Task, KCall(t), UNCHANGED callvars
      PROVE  CallsAgree' /\ UNCHANGED gone /\ KNext
  BY <1>2, CallsStutter DEF KNext
<1>3. ASSUME NEW t \in Task, Refused(t) PROVE CallsAgree' /\ UNCHANGED gone
  BY <1>3, WithinCalls DEF Refused
<1>4. ASSUME NEW t \in Task, NEW o \in Obj, Check(t, o)
      PROVE  CallsAgree' /\ UNCHANGED gone
  BY <1>4, CheckCalls
<1>5. ASSUME NEW t \in Task, NEW o \in Obj, Within(t, o), UNCHANGED gone,
             NEW opt \in Options, PendAbort(t, o, opt)
      PROVE  CallsAgree' /\ KNext
  BY <1>5, WithinCalls DEF KNext
<1> QED BY <1>1, <1>2, <1>3, <1>4, <1>5 DEF CNext

(* What the kernel does fills no list that is empty.                       *)
LEMMA LostStayEmpty ==
  ASSUME CallsAgree, LostAreEmpty, UNCHANGED gone, EmptyStays PROVE LostAreEmpty'
  BY DEF CallsAgree, CallTypeOK, Lost, LostAreEmpty, EmptyStays
=============================================================================
