---------------------------- MODULE OSTickProof ----------------------------
(***************************************************************************)
(* Theorems about the tick wheel, for every set of tasks, every width of   *)
(* OS_TICK and every number of spokes: the wheel agrees with the states of *)
(* the tasks, and delays and timeouts end at their tick, as AbsTick says.  *)
(***************************************************************************)
EXTENDS OSTick, FiniteSetTheorems, SequenceTheorems, WellFoundedInduction, TLAPS

(* The constants, and that no match time has passed when it is given: the  *)
(* error return of OS_TickListInsert() leaves a ready task delayed         *)
(* (os_time.c:126).                                                        *)
TimesAhead == TickAssumption /\ ~PastMatch

(* The sequence s holds each member of S once.                             *)
Listed(s, S) ==
  /\ s \in Seq(Task)
  /\ \A i, j \in 1..Len(s) : s[i] = s[j] => i = j
  /\ \A i \in 1..Len(s) : s[i] \in S
  /\ \A t \in S : \E i \in 1..Len(s) : s[i] = t

SortedBy(s, f) == \A i, j \in 1..Len(s) : i < j => f[s[i]] =< f[s[j]]

(* What is to be in spoke k, and the ticks each task has left.             *)
Entries(k) == {t \in Task : "DLY" \in state[t] /\ match[t] % WheelSize = k}
Left == [t \in Task |-> Remain(match[t])]

(* The invariant.  Until the time is set the spokes are sorted, the match  *)
(* times are ahead, and age tells where TickCtrPrev is.                    *)
IInv ==
  /\ TypeOK
  /\ \A k \in Spoke : Listed(wheel[k], Entries(k))
  /\ rdy = {t \in Task : state[t] = {}}
  /\ ~set => \A k \in Spoke : SortedBy(wheel[k], Left)
  /\ ~set => \A t \in Task : "DLY" \in state[t] => Left[t] # 0
  /\ ~set => \A t \in Task : age[t] < W => prev[t] = (ctr - age[t]) % W

-----------------------------------------------------------------------------
(* Arithmetic modulo the width of the counter.                             *)

(* Powers of two, as the numbers of subsets of the first n numbers.        *)
LEMMA PowersOfTwo ==
  ASSUME NEW n \in Nat
  PROVE  2 ^ n \in Nat \ {0} /\ 2 ^ (n + 1) = 2 * (2 ^ n)
<1> DEFINE S == 1..n
           T == 1..n + 1
           e == n + 1
           A == SUBSET S
           B == {X \cup {e} : X \in A}
           f == [X \in A |-> X \cup {e}]
<1>1. /\ IsFiniteSet(A) /\ Cardinality(A) = 2 ^ n
      /\ IsFiniteSet(SUBSET T) /\ Cardinality(SUBSET T) = 2 ^ (n + 1)
  <2>1. /\ IsFiniteSet(S) /\ Cardinality(S) = n
        /\ IsFiniteSet(T) /\ Cardinality(T) = n + 1
    BY FS_Interval
  <2> HIDE DEF S, T
  <2> QED BY <2>1, FS_SUBSET
<1>2. e \notin S /\ T = S \cup {e}
  OBVIOUS
<1> HIDE DEF S, T, e
<1>3. SUBSET T = A \cup B
  <2>1. ASSUME NEW X \in SUBSET T, e \in X PROVE X \in B
    <3>1. X \ {e} \in A /\ X = (X \ {e}) \cup {e}
      BY <1>2, <2>1
    <3> QED BY <3>1
  <2> QED BY <1>2, <2>1
<1>4. A \cap B = {}
  BY <1>2
<1>5. f \in Bijection(A, B)
  <2>1. ASSUME NEW X \in A, NEW Y \in A, f[X] = f[Y] PROVE X = Y
    BY <1>2, <2>1
  <2>2. f \in [A -> B] /\ \A Z \in B : \E X \in A : f[X] = Z
    OBVIOUS
  <2> QED BY <2>1, <2>2 DEF Bijection, Injection, Surjection, IsInjective
<1>6. IsFiniteSet(B) /\ Cardinality(B) = Cardinality(A)
  BY <1>1, <1>5, FS_Bijection DEF ExistsBijection
<1>7. Cardinality(A) \in Nat /\ Cardinality(A) # 0
  <2>1. A # {}
    OBVIOUS
  <2> QED BY <1>1, <2>1, FS_EmptySet, FS_CardinalityType
<1>8. Cardinality(SUBSET T) = Cardinality(A) + Cardinality(A)
  <2>1. Cardinality(A \cup B) = Cardinality(A) + Cardinality(B) - Cardinality(A \cap B)
    BY <1>1, <1>6, FS_Union
  <2>2. Cardinality(A \cap B) = 0
    BY <1>4, FS_EmptySet
  <2>3. Cardinality(SUBSET T) = Cardinality(A \cup B)
    BY <1>3, Zenon
  <2> HIDE DEF A, B
  <2> QED BY <1>6, <1>7, <2>1, <2>2, <2>3
<1> QED BY <1>1, <1>7, <1>8

LEMMA Widths ==
  ASSUME TickAssumption
  PROVE  /\ W \in Nat \ {0} /\ W = 2 * OS_TICK_TH_INIT /\ OS_TICK_TH_INIT \in Nat \ {0}
         /\ OS_TICK_TH_RDY \in Int /\ OS_TICK_TH_RDY =< W - 2
         /\ WheelSize \in Nat \ {0} /\ MaxOwed \in Nat \ {0}
<1>1. /\ Bits - 1 \in Nat /\ (Bits - 1) + 1 = Bits
      /\ Bits \div 2 - 1 \in Nat /\ (Bits \div 2 - 1) + 1 = Bits \div 2
  BY DEF TickAssumption
<1>2. /\ 2 ^ (Bits - 1) \in Nat \ {0} /\ 2 ^ Bits = 2 * (2 ^ (Bits - 1))
      /\ 2 ^ (Bits \div 2 - 1) \in Nat \ {0}
      /\ 2 ^ (Bits \div 2) = 2 * (2 ^ (Bits \div 2 - 1))
  BY <1>1, PowersOfTwo
<1> QED BY <1>2 DEF W, OS_TICK_TH_INIT, OS_TICK_TH_RDY, TickAssumption

LEMMA ModIs ==
  ASSUME NEW n \in Nat \ {0}, NEW a \in Int, -n =< a, a < 2 * n
  PROVE  a % n = IF a < 0 THEN a + n ELSE IF a < n THEN a ELSE a - n
<1>1. CASE a < 0
  BY <1>1
<1>2. CASE 0 =< a /\ a < n
  BY <1>2
<1>3. CASE n =< a
  BY <1>3
<1> QED BY <1>1, <1>2, <1>3

LEMMA PlusIs ==
  ASSUME NEW n \in Nat \ {0}, NEW a \in 0..n - 1, NEW b \in 0..n - 1
  PROVE  (a + b) % n = IF a + b < n THEN a + b ELSE a + b - n
<1>1. CASE a + b < n
  BY <1>1
<1>2. CASE a + b >= n
  BY <1>2
<1> QED BY <1>1, <1>2

LEMMA MinusIs ==
  ASSUME NEW n \in Nat \ {0}, NEW a \in 0..n - 1, NEW b \in 0..n - 1
  PROVE  (a - b) % n = IF a >= b THEN a - b ELSE a - b + n
<1>1. CASE a >= b
  BY <1>1
<1>2. CASE a < b
  BY <1>2
<1> QED BY <1>1, <1>2

LEMMA ModIn == ASSUME NEW n \in Nat \ {0}, NEW a \in Int PROVE a % n \in 0..n - 1
OBVIOUS

(* What is left until a match time, without the modulus.                   *)
LEMMA RemainIs ==
  ASSUME TickAssumption, ctr \in OS_TICK, NEW m \in OS_TICK
  PROVE  /\ Remain(m) = IF m >= ctr THEN m - ctr ELSE m - ctr + W
         /\ Remain(m) \in 0..W - 1
<1>1. W \in Nat \ {0} /\ m - ctr \in Int /\ -W =< m - ctr /\ m - ctr < 2 * W
  BY Widths DEF OS_TICK
<1>2. Remain(m) = IF m - ctr < 0 THEN m - ctr + W ELSE IF m - ctr < W THEN m - ctr ELSE m - ctr - W
  BY <1>1, ModIs DEF Remain
<1> QED BY <1>1, <1>2 DEF OS_TICK

(* The match time of a delay of that many ticks.                           *)
LEMMA MatchAfter ==
  ASSUME TickAssumption, ctr \in OS_TICK, NEW n \in OS_TICK
  PROVE  (ctr + n) % W \in OS_TICK /\ Remain((ctr + n) % W) = n
<1> DEFINE m == (ctr + n) % W
<1>1. /\ W \in Nat \ {0} /\ ctr + n \in Int /\ -W =< ctr + n /\ ctr + n < 2 * W
      /\ ctr \in 0..W - 1 /\ n \in 0..W - 1
  BY Widths DEF OS_TICK
<1>2. m = IF ctr + n < W THEN ctr + n ELSE ctr + n - W
  BY <1>1, PlusIs
<1>3. m \in OS_TICK
  BY <1>1, <1>2 DEF OS_TICK
<1> HIDE DEF m
<1>4. Remain(m) = IF m >= ctr THEN m - ctr ELSE m - ctr + W
  BY <1>3, RemainIs
<1>5. Remain(m) = n
  BY <1>1, <1>2, <1>4
<1> QED BY <1>3, <1>5 DEF m

-----------------------------------------------------------------------------
(* The lists of the spokes.                                                *)

LEMMA Least ==
  ASSUME NEW T \in SUBSET Nat, T # {}
  PROVE  \E m \in T : \A n \in T : m =< n
<1>1. PICK m \in T : \A n \in T : ~(<<n, m>> \in OpToRel(<, Nat))
  BY NatLessThanWellFounded, WFMin
<1>2. \A n \in T : ~(n < m)
  BY <1>1 DEF OpToRel
<1> QED BY <1>2

(* A finite set of numbers in increasing order.                            *)
LEMMA Enumerated ==
  ASSUME NEW K \in SUBSET Nat, IsFiniteSet(K)
  PROVE  \E p \in [1..Cardinality(K) -> K] :
           \A i, j \in 1..Cardinality(K) : i < j => p[i] < p[j]
<1> DEFINE Ordered(T, n, p) == /\ p \in [1..n -> T]
                               /\ \A i, j \in 1..n : i < j => p[i] < p[j]
           Sized(T, n) == IsFiniteSet(T) /\ Cardinality(T) = n
           Bad == {n \in Nat : \E T \in SUBSET Nat :
                                 Sized(T, n) /\ ~\E p : Ordered(T, n, p)}
<1>1. ASSUME Bad # {} PROVE FALSE
  <2>1. PICK n \in Bad : \A k \in Bad : n =< k
    <3> HIDE DEF Bad
    <3>1. Bad \in SUBSET Nat
      BY DEF Bad
    <3> QED BY <1>1, <3>1, Least
  <2>2. PICK T \in SUBSET Nat : Sized(T, n) /\ ~\E p : Ordered(T, n, p)
    BY <2>1
  <2>3. n \in Nat \ {0}
    <3>1. ASSUME n = 0 PROVE FALSE
      <4>1. Ordered(T, 0, [i \in 1..0 |-> 0])
        OBVIOUS
      <4> QED BY <2>2, <3>1, <4>1
    <3> QED BY <2>1, <3>1
  <2>4. T # {}
    BY <2>2, <2>3, FS_EmptySet
  <2>5. PICK m \in T : \A k \in T : m =< k
    BY <2>4, Least
  <2>6. Sized(T \ {m}, n - 1)
    BY <2>2, <2>5, FS_RemoveElement
  <2>7. n - 1 \in Nat /\ n - 1 \notin Bad
    BY <2>1, <2>3
  <2>8. PICK q : Ordered(T \ {m}, n - 1, q)
    <3>1. T \ {m} \in SUBSET Nat
      OBVIOUS
    <3> QED BY <2>6, <2>7, <3>1
  <2> DEFINE p == [i \in 1..n |-> IF i = 1 THEN m ELSE q[i - 1]]
  <2>9. \A i \in 1..n : i # 1 => i - 1 \in 1..n - 1 /\ p[i] = q[i - 1]
    BY <2>3
  <2>10. p \in [1..n -> T]
    BY <2>5, <2>8, <2>9
  <2>11. p[1] = m
    BY <2>3
  <2> HIDE DEF p
  <2>12. ASSUME NEW i \in 1..n, NEW j \in 1..n, i < j PROVE p[i] < p[j]
    <3>1. j # 1 /\ j - 1 \in 1..n - 1 /\ p[j] = q[j - 1]
      BY <2>9, <2>12
    <3>2. CASE i = 1
      <4>1. p[j] \in T /\ p[j] # m /\ p[j] \in Nat /\ m \in Nat
        BY <2>5, <2>8, <3>1
      <4> QED BY <2>5, <2>11, <3>2, <4>1
    <3>3. CASE i # 1
      <4>1. i - 1 \in 1..n - 1 /\ p[i] = q[i - 1] /\ i - 1 < j - 1
        BY <2>9, <2>12, <3>3
      <4> QED BY <2>8, <3>1, <4>1
    <3> QED BY <3>2, <3>3
  <2> QED BY <2>2, <2>10, <2>12
<1>2. Cardinality(K) \in Nat
  BY FS_CardinalityType
<1> QED BY <1>1, <1>2

(* Without keeps the entries that are not in S, each once, in their order. *)
LEMMA WithoutIs ==
  ASSUME NEW s \in Seq(Task), NEW S
  PROVE  LET r == Without(s, S)
         IN  /\ r \in Seq(Task)
             /\ \E p \in [1..Len(r) -> 1..Len(s)] :
                  /\ \A i \in 1..Len(r) : r[i] = s[p[i]] /\ r[i] \notin S
                  /\ \A i, j \in 1..Len(r) : i < j => p[i] < p[j]
                  /\ \A j \in 1..Len(s) : s[j] \notin S => \E i \in 1..Len(r) : p[i] = j
<1> DEFINE keep == {i \in DOMAIN s : s[i] \notin S}
           c == Cardinality(keep)
           pos == CHOOSE p \in [1..c -> keep] : \A i, j \in DOMAIN p : i < j => p[i] < p[j]
           r == [i \in DOMAIN pos |-> s[pos[i]]]
<1>1. Len(s) \in Nat /\ DOMAIN s = 1..Len(s) /\ \A i \in 1..Len(s) : s[i] \in Task
  BY LenProperties
<1>2. keep \in SUBSET Nat /\ IsFiniteSet(keep) /\ keep \subseteq 1..Len(s)
  <2>1. keep \in SUBSET (1..Len(s)) /\ IsFiniteSet(1..Len(s))
    BY <1>1, FS_Interval
  <2>2. 1..Len(s) \in SUBSET Nat
    BY <1>1
  <2> HIDE DEF keep
  <2>3. IsFiniteSet(keep)
    BY <2>1, FS_Subset
  <2> QED BY <2>1, <2>2, <2>3
<1>3. Without(s, S) = r
  BY DEF Without
<1>4. c \in Nat
  BY <1>2, FS_CardinalityType
<1>5. pos \in [1..c -> keep] /\ \A i, j \in 1..c : i < j => pos[i] < pos[j]
  <2> HIDE DEF keep
  <2>1. \E p \in [1..c -> keep] : \A i, j \in 1..c : i < j => p[i] < p[j]
    BY <1>2, Enumerated
  <2>2. \E p \in [1..c -> keep] : \A i, j \in DOMAIN p : i < j => p[i] < p[j]
    BY <2>1
  <2> HIDE DEF c
  <2> QED BY <2>2
<1>6. \A j \in keep : \E i \in 1..c : pos[i] = j
  <2> HIDE DEF pos, keep
  <2>1. \A i, j \in 1..c : pos[i] = pos[j] => i = j
    <3> SUFFICES ASSUME NEW i \in 1..c, NEW j \in 1..c, pos[i] = pos[j] PROVE i = j
      OBVIOUS
    <3>1. pos[i] \in Nat /\ pos[j] \in Nat
      BY <1>2, <1>5
    <3> QED BY <1>4, <1>5, <3>1
  <2>2. pos \in Injection(1..c, keep)
    BY <1>5, <2>1 DEF Injection, IsInjective
  <2>3. Cardinality(1..c) = c
    BY <1>4, FS_Interval
  <2>4. pos \in Surjection(1..c, keep)
    BY <1>2, <2>2, <2>3, FS_Injection
  <2> QED BY <2>4 DEF Surjection
<1> HIDE DEF pos, c
<1>7. r \in Seq(Task) /\ Len(r) = c
  <2>1. r \in [1..c -> Task]
    BY <1>1, <1>2, <1>5
  <2> HIDE DEF r
  <2> QED BY <1>4, <2>1
<1>8. \A i \in 1..c : pos[i] \in 1..Len(s) /\ r[i] = s[pos[i]] /\ r[i] \notin S
  BY <1>1, <1>5
<1>9. pos \in [1..c -> 1..Len(s)]
  BY <1>2, <1>5
<1>10. \A j \in 1..Len(s) : s[j] \notin S => \E i \in 1..c : pos[i] = j
  BY <1>1, <1>6
<1> HIDE DEF r, keep
<1>11. \E p \in [1..Len(r) -> 1..Len(s)] :
         /\ \A i \in 1..Len(r) : r[i] = s[p[i]] /\ r[i] \notin S
         /\ \A i, j \in 1..Len(r) : i < j => p[i] < p[j]
         /\ \A j \in 1..Len(s) : s[j] \notin S => \E i \in 1..Len(r) : p[i] = j
  <2>1. /\ pos \in [1..Len(r) -> 1..Len(s)]
        /\ \A i \in 1..Len(r) : r[i] = s[pos[i]] /\ r[i] \notin S
        /\ \A i, j \in 1..Len(r) : i < j => pos[i] < pos[j]
        /\ \A j \in 1..Len(s) : s[j] \notin S => \E i \in 1..Len(r) : pos[i] = j
    BY <1>5, <1>7, <1>8, <1>9, <1>10
  <2> QED BY <2>1, Zenon
<1> DEFINE x == Without(s, S)
<1>12. x = r
  BY <1>3
<1> HIDE DEF x
<1>13. /\ x \in Seq(Task)
       /\ \E p \in [1..Len(x) -> 1..Len(s)] :
            /\ \A i \in 1..Len(x) : x[i] = s[p[i]] /\ x[i] \notin S
            /\ \A i, j \in 1..Len(x) : i < j => p[i] < p[j]
            /\ \A j \in 1..Len(s) : s[j] \notin S => \E i \in 1..Len(x) : p[i] = j
  BY <1>7, <1>11, <1>12, SMTT(30)
<1> QED BY <1>13 DEF x

LEMMA WithoutKeeps ==
  ASSUME NEW s, NEW T, Listed(s, T), NEW S
  PROVE  /\ Listed(Without(s, S), T \ S)
         /\ \A f : SortedBy(s, f) => SortedBy(Without(s, S), f)
<1> DEFINE r == Without(s, S)
<1>1. /\ s \in Seq(Task)
      /\ \A i, j \in 1..Len(s) : s[i] = s[j] => i = j
      /\ \A i \in 1..Len(s) : s[i] \in T
      /\ \A t \in T : \E i \in 1..Len(s) : s[i] = t
  BY DEF Listed
<1>2. /\ r \in Seq(Task)
      /\ \E p \in [1..Len(r) -> 1..Len(s)] :
           /\ \A i \in 1..Len(r) : r[i] = s[p[i]] /\ r[i] \notin S
           /\ \A i, j \in 1..Len(r) : i < j => p[i] < p[j]
           /\ \A j \in 1..Len(s) : s[j] \notin S => \E i \in 1..Len(r) : p[i] = j
  BY <1>1, WithoutIs
<1> HIDE DEF r
<1>3. PICK p \in [1..Len(r) -> 1..Len(s)] :
        /\ \A i \in 1..Len(r) : r[i] = s[p[i]] /\ r[i] \notin S
        /\ \A i, j \in 1..Len(r) : i < j => p[i] < p[j]
        /\ \A j \in 1..Len(s) : s[j] \notin S => \E i \in 1..Len(r) : p[i] = j
  BY <1>2
<1>4. Len(r) \in Nat /\ Len(s) \in Nat /\ \A i \in 1..Len(r) : p[i] \in 1..Len(s)
  BY <1>1, <1>2, <1>3
<1>5. ASSUME NEW i \in 1..Len(r), NEW j \in 1..Len(r), r[i] = r[j] PROVE i = j
  <2>1. p[i] = p[j]
    BY <1>1, <1>3, <1>4, <1>5
  <2> QED BY <1>3, <1>4, <2>1
<1>6. \A i \in 1..Len(r) : r[i] \in T \ S
  BY <1>1, <1>3, <1>4
<1>7. ASSUME NEW t \in T \ S PROVE \E i \in 1..Len(r) : r[i] = t
  <2>1. PICK j \in 1..Len(s) : s[j] = t
    BY <1>1
  <2> QED BY <1>3, <2>1
<1>8. Listed(r, T \ S)
  BY <1>2, <1>5, <1>6, <1>7 DEF Listed
<1>9. ASSUME NEW f, SortedBy(s, f) PROVE SortedBy(r, f)
  BY <1>3, <1>4, <1>9, SMTT(30) DEF SortedBy
<1> QED BY <1>8, <1>9 DEF r

(* InsertAt of SequencesExt, element by element.                          *)
LEMMA InsertAtElements ==
  ASSUME NEW s \in Seq(Task), NEW e \in Task, NEW i \in 1..Len(s) + 1
  PROVE  /\ InsertAt(s, i, e) \in Seq(Task)
         /\ Len(InsertAt(s, i, e)) = Len(s) + 1
         /\ \A j \in 1..Len(s) + 1 :
              InsertAt(s, i, e)[j] =
                IF j < i THEN s[j] ELSE IF j = i THEN e ELSE s[j - 1]
<1> DEFINE a == SubSeq(s, 1, i - 1)
           b == SubSeq(s, i, Len(s))
           c == a \o <<e>>
<1>0. Len(s) \in Nat
  BY LenProperties
<1>1. a \in Seq(Task) /\ Len(a) = i - 1 /\ \A j \in 1..i - 1 : a[j] = s[j]
  OBVIOUS
<1>2. b \in Seq(Task) /\ Len(b) = Len(s) - i + 1
      /\ \A j \in 1..Len(s) - i + 1 : b[j] = s[i + j - 1]
  OBVIOUS
<1>3. InsertAt(s, i, e) = c \o b
  BY DEF InsertAt
<1> HIDE DEF a, b
<1>4. c \in Seq(Task) /\ Len(c) = i
      /\ \A j \in 1..i : c[j] = IF j < i THEN s[j] ELSE e
  BY <1>0, <1>1
<1> HIDE DEF c
<1>5. c \o b \in Seq(Task) /\ Len(c \o b) = Len(c) + Len(b)
      /\ \A j \in 1..Len(c) + Len(b) :
           (c \o b)[j] = IF j =< Len(c) THEN c[j] ELSE b[j - Len(c)]
  BY <1>2, <1>4, ConcatProperties
<1>6. Len(c) + Len(b) = Len(s) + 1
  BY <1>0, <1>2, <1>4
<1>7. ASSUME NEW j \in 1..Len(s) + 1
      PROVE  (c \o b)[j] = IF j < i THEN s[j] ELSE IF j = i THEN e ELSE s[j - 1]
  <2>1. CASE j =< i
    BY <2>1, <1>0, <1>4, <1>5, <1>6
  <2>2. CASE ~(j =< i)
    <3>1. j - Len(c) \in 1..Len(s) - i + 1 /\ i + (j - Len(c)) - 1 = j - 1
      BY <2>2, <1>0, <1>4
    <3>2. b[j - Len(c)] = s[j - 1]
      BY <3>1, <1>2
    <3> QED BY <3>2, <2>2, <1>0, <1>4, <1>5, <1>6
  <2> QED BY <2>1, <2>2
<1> QED BY <1>3, <1>5, <1>6, <1>7

(* The place SpokeInsert chooses exists, whatever order the list is in.    *)
LEMMA PlaceExists ==
  ASSUME NEW s \in Seq(Task), NEW f \in [Task -> Int], NEW n \in Int
  PROVE  \E i \in 1..Len(s) + 1 :
           /\ \A j \in 1..i - 1 : n > f[s[j]]
           /\ i =< Len(s) => n =< f[s[i]]
<1> DEFINE T == {i \in 1..Len(s) + 1 : i =< Len(s) => n =< f[s[i]]}
<1>1. Len(s) \in Nat /\ \A i \in 1..Len(s) : s[i] \in Task
  BY LenProperties
<1>2. Len(s) + 1 \in T /\ T \in SUBSET Nat
  BY <1>1
<1>3. PICK i \in T : \A j \in T : i =< j
  BY <1>2, Least
<1>4. ASSUME NEW j \in 1..i - 1 PROVE n > f[s[j]]
  <2>1. j \in 1..Len(s) /\ j \notin T
    BY <1>1, <1>3
  <2>2. ~(n =< f[s[j]]) /\ f[s[j]] \in Int
    BY <1>1, <2>1
  <2> QED BY <2>2
<1>5. i \in 1..Len(s) + 1 /\ (i =< Len(s) => n =< f[s[i]])
  BY <1>3
<1> QED BY <1>4, <1>5

LEMMA InsertKeeps ==
  ASSUME NEW S, NEW s, Listed(s, S), NEW t \in Task \ S, NEW m,
         Left \in [Task -> Int], Remain(m) \in Int
  PROVE  LET r == SpokeInsert(s, t, m)
         IN  /\ Listed(r, S \cup {t})
             /\ \A f : (/\ f \in [Task -> Int] /\ f[t] = Remain(m)
                        /\ \A u \in Task \ {t} : f[u] = Left[u])
                          => (SortedBy(s, f) => SortedBy(r, f))
<1> DEFINE ok(i) == /\ \A j \in 1..i - 1 : Remain(m) > Left[s[j]]
                    /\ i =< Len(s) => Remain(m) =< Left[s[i]]
           okc(i) == /\ \A j \in 1..i - 1 : Remain(m) > Remain(match[s[j]])
                     /\ i =< Len(s) => Remain(m) =< Remain(match[s[i]])
           i == CHOOSE k \in 1..Len(s) + 1 : okc(k)
           r == InsertAt(s, i, t)
<1>1. /\ s \in Seq(Task) /\ Len(s) \in Nat
      /\ \A j, k \in 1..Len(s) : s[j] = s[k] => j = k
      /\ \A j \in 1..Len(s) : s[j] \in S /\ s[j] \in Task
      /\ \A x \in S : \E j \in 1..Len(s) : s[j] = x
  <2>1. s \in Seq(Task)
    BY DEF Listed
  <2>2. Len(s) \in Nat /\ \A j \in 1..Len(s) : s[j] \in Task
    BY <2>1, LenProperties
  <2> QED BY <2>1, <2>2 DEF Listed
<1>2. \A u \in Task : Left[u] = Remain(match[u])
  BY DEF Left
<1>3. i \in 1..Len(s) + 1 /\ ok(i)
  <2>1. \E k \in 1..Len(s) + 1 : ok(k)
    BY <1>1, PlaceExists
  <2>2. \A k \in 1..Len(s) + 1 : ok(k) <=> okc(k)
    <3> SUFFICES ASSUME NEW k \in 1..Len(s) + 1 PROVE ok(k) <=> okc(k)
      OBVIOUS
    <3>1. \A j \in 1..k - 1 : Left[s[j]] = Remain(match[s[j]])
      <4>1. \A j \in 1..k - 1 : j \in 1..Len(s)
        BY <1>1
      <4> QED BY <1>1, <1>2, <4>1
    <3>2. k =< Len(s) => Left[s[k]] = Remain(match[s[k]])
      <4>1. k =< Len(s) => k \in 1..Len(s)
        BY <1>1
      <4> QED BY <1>1, <1>2, <4>1
    <3> QED BY <3>1, <3>2
  <2> HIDE DEF ok, okc
  <2>3. i \in 1..Len(s) + 1 /\ okc(i)
    BY <2>1, <2>2
  <2> QED BY <2>2, <2>3
<1>4. SpokeInsert(s, t, m) = r
  BY DEF SpokeInsert
<1> HIDE DEF i, okc
<1>5. /\ r \in Seq(Task) /\ Len(r) = Len(s) + 1
      /\ \A j \in 1..Len(s) + 1 : r[j] = IF j < i THEN s[j] ELSE IF j = i THEN t ELSE s[j - 1]
  BY <1>1, <1>3, InsertAtElements
<1> HIDE DEF r
<1> DEFINE at(l) == IF l < i THEN l ELSE l - 1
<1>6. /\ \A l \in 1..Len(r) : l # i => at(l) \in 1..Len(s) /\ r[l] = s[at(l)]
      /\ r[i] = t /\ i \in 1..Len(r)
  BY <1>1, <1>3, <1>5, SMTT(30)
<1>7. ASSUME NEW j \in 1..Len(r), NEW k \in 1..Len(r), r[j] = r[k]
      PROVE  j = k
  <2>1. CASE j = i \/ k = i
    <3>1. \A l \in 1..Len(r) : l # i => r[l] # t
      BY <1>1, <1>6
    <3> QED BY <1>6, <1>7, <2>1, <3>1
  <2>2. CASE j # i /\ k # i
    <3>1. at(j) \in 1..Len(s) /\ at(k) \in 1..Len(s) /\ s[at(j)] = s[at(k)]
      BY <1>6, <1>7, <2>2
    <3> HIDE DEF at
    <3>2. at(j) = at(k)
      BY <1>1, <3>1
    <3>3. i \in Int /\ j \in Int /\ k \in Int
      BY <1>1, <1>3, <1>5
    <3> QED BY <2>2, <3>2, <3>3 DEF at
  <2> QED BY <2>1, <2>2
<1>8. \A j \in 1..Len(r) : r[j] \in S \cup {t}
  BY <1>1, <1>6
<1>9. ASSUME NEW x \in S \cup {t} PROVE \E j \in 1..Len(r) : r[j] = x
  <2>1. CASE x = t
    BY <1>6, <2>1
  <2>2. CASE x # t
    <3>1. PICK k \in 1..Len(s) : s[k] = x
      BY <1>1, <2>2
    <3>2. CASE k < i
      <4>1. k \in 1..Len(s) + 1
        BY <1>1
      <4> QED BY <1>5, <3>1, <3>2, <4>1
    <3>3. CASE ~(k < i)
      <4>1. k + 1 \in 1..Len(r) /\ ~(k + 1 < i) /\ k + 1 # i /\ (k + 1) - 1 = k
        BY <1>1, <1>3, <1>5, <3>3
      <4>2. r[k + 1] = s[k]
        BY <1>5, <4>1
      <4> QED BY <3>1, <4>1, <4>2
    <3> QED BY <3>2, <3>3
  <2> QED BY <2>1, <2>2
<1>10. Listed(r, S \cup {t})
  BY <1>5, <1>7, <1>8, <1>9 DEF Listed
<1>11. ASSUME NEW f \in [Task -> Int], f[t] = Remain(m),
              \A u \in Task \ {t} : f[u] = Left[u], SortedBy(s, f)
       PROVE  SortedBy(r, f)
  <2>1. \A l \in 1..Len(s) : f[s[l]] = Left[s[l]] /\ f[s[l]] \in Int
    BY <1>1, <1>11
  <2>2. \A j, k \in 1..Len(s) : j < k => f[s[j]] =< f[s[k]]
    BY <1>11 DEF SortedBy
  <2> SUFFICES ASSUME NEW j \in 1..Len(r), NEW k \in 1..Len(r), j < k
               PROVE  f[r[j]] =< f[r[k]]
    BY DEF SortedBy
  <2>3. CASE j = i
    <3>1. k - 1 \in 1..Len(s) /\ r[k] = s[k - 1] /\ i \in 1..Len(s) /\ i =< k - 1
      <4>1. k \in 1..Len(s) + 1 /\ ~(k < i) /\ k # i /\ k \in Int /\ i \in Int
        BY <1>1, <1>3, <1>5, <2>3
      <4>2. k - 1 \in 1..Len(s) /\ i \in 1..Len(s) /\ i =< k - 1
        BY <1>1, <1>3, <2>3, <4>1
      <4> QED BY <1>5, <4>1, <4>2
    <3>2. f[r[j]] =< f[s[i]] /\ f[r[j]] \in Int
      BY <1>3, <1>6, <1>11, <2>1, <2>3, <3>1
    <3>3. f[s[i]] =< f[s[k - 1]] /\ f[s[i]] \in Int /\ f[s[k - 1]] \in Int
      <4>1. CASE i = k - 1
        BY <2>1, <3>1, <4>1
      <4>2. CASE i < k - 1
        BY <2>1, <2>2, <3>1, <4>2
      <4>3. i = k - 1 \/ i < k - 1
        BY <1>1, <1>5, <3>1
      <4> QED BY <4>1, <4>2, <4>3
    <3>4. f[r[k]] = f[s[k - 1]]
      BY <3>1
    <3> QED BY <3>2, <3>3, <3>4
  <2>4. CASE k = i
    <3>1. j \in 1..i - 1 /\ j \in 1..Len(s) /\ r[j] = s[j]
      <4>1. j \in 1..Len(s) + 1 /\ j < i /\ j \in 1..i - 1 /\ j \in 1..Len(s)
        <5>1. Len(r) = Len(s) + 1 /\ Len(s) \in Nat /\ i \in 1..Len(s) + 1
          BY <1>1, <1>3, <1>5
        <5> QED BY <2>4, <5>1
      <4> QED BY <1>5, <4>1
    <3> QED BY <1>3, <1>6, <1>11, <2>1, <2>4, <3>1
  <2>5. CASE j # i /\ k # i
    <3>1. /\ at(j) \in 1..Len(s) /\ at(k) \in 1..Len(s) /\ at(j) < at(k)
          /\ r[j] = s[at(j)] /\ r[k] = s[at(k)]
      <4>1. j \in Int /\ k \in Int /\ i \in Int
        BY <1>1, <1>3, <1>5
      <4>2. at(j) < at(k)
        BY <2>5, <4>1
      <4> QED BY <1>6, <2>5, <4>2
    <3> HIDE DEF at
    <3> QED BY <2>2, <3>1
  <2> QED BY <2>3, <2>4, <2>5
<1> QED BY <1>4, <1>10, <1>11

-----------------------------------------------------------------------------
(* Steps that insert into the wheel, and that remove from it.              *)

Bit == {"DLY", "PEND", "SUSPENDED"}

(* The ticks until each wait ends, as AbsTick sees them.                   *)
Waits == [t \in Task |-> IF "DLY" \in state[t] THEN Remain(match[t]) ELSE 0]

LEMMA Typed ==
  ASSUME TickAssumption, IInv
  PROVE  /\ ctr \in OS_TICK /\ wheel \in [Spoke -> Seq(Task)]
         /\ state \in [Task -> SUBSET Bit]
         /\ match \in [Task -> OS_TICK] /\ prev \in [Task -> OS_TICK]
         /\ rdy \subseteq Task /\ owed \in 0..MaxOwed /\ age \in [Task -> -W..W]
         /\ set \in BOOLEAN
         /\ Left \in [Task -> 0..W - 1]
         /\ \A t \in Task : Left[t] = Remain(match[t])
         /\ \A m \in OS_TICK : m % WheelSize \in Spoke
<1>1. TypeOK
  BY DEF IInv
<1>2. \A t \in Task : match[t] \in OS_TICK /\ Remain(match[t]) \in 0..W - 1
  BY <1>1, RemainIs DEF TypeOK
<1>3. \A m \in OS_TICK : m % WheelSize \in Spoke
  <2>1. \A m \in OS_TICK : m \in Int
    BY Widths DEF OS_TICK
  <2>2. WheelSize \in Nat \ {0}
    BY Widths
  <2> QED BY <2>1, <2>2, ModIn DEF Spoke
<1> QED BY <1>1, <1>2, <1>3 DEF TypeOK, Bit, Left

LEMMA InsertStep ==
  ASSUME TickAssumption, IInv, NEW t \in Task, "DLY" \notin state[t],
         NEW m \in OS_TICK, NEW bits \in SUBSET Bit, "DLY" \in bits,
         state' = [state EXCEPT ![t] = bits],
         match' = [match EXCEPT ![t] = m],
         wheel' = [wheel EXCEPT ![m % WheelSize] = SpokeInsert(@, t, m)],
         ctr' = ctr
  PROVE  /\ wheel' \in [Spoke -> Seq(Task)] /\ match' \in [Task -> OS_TICK]
         /\ \A k \in Spoke : Listed(wheel[k], Entries(k))'
         /\ ~set => \A k \in Spoke : SortedBy(wheel'[k], Left')
         /\ Left' = [Left EXCEPT ![t] = Remain(m)]
         /\ Waits' = [Waits EXCEPT ![t] = Remain(m)]
<1> DEFINE h == m % WheelSize
           new == SpokeInsert(wheel[h], t, m)
<1>1. /\ wheel \in [Spoke -> Seq(Task)] /\ state \in [Task -> SUBSET Bit]
      /\ match \in [Task -> OS_TICK] /\ h \in Spoke
      /\ Left \in [Task -> Int] /\ Remain(m) \in Int
      /\ \A u \in Task : Left[u] = Remain(match[u])
  <2>1. Left \in [Task -> 0..W - 1] /\ Remain(m) \in 0..W - 1
    BY Typed, RemainIs
  <2>2. \A u \in Task : Left[u] \in Int
    BY <2>1, Widths
  <2>3. Left \in [Task -> Int]
    BY <2>1, <2>2
  <2>4. Remain(m) \in Int
    BY <2>1, Widths
  <2> QED BY <2>3, <2>4, Typed
<1>2. /\ state'[t] = bits /\ match'[t] = m
      /\ \A u \in Task \ {t} : state'[u] = state[u] /\ match'[u] = match[u]
      /\ wheel'[h] = new /\ \A k \in Spoke \ {h} : wheel'[k] = wheel[k]
      /\ match' \in [Task -> OS_TICK]
  BY <1>1
<1>3. Left' = [Left EXCEPT ![t] = Remain(m)]
  <2>2. Left' = [u \in Task |-> (match'[u] - ctr) % W]
    BY DEF Left, Remain
  <2>3. Left = [u \in Task |-> (match[u] - ctr) % W]
    BY DEF Left, Remain
  <2>4. \A u \in Task : Left'[u] = [Left EXCEPT ![t] = Remain(m)][u]
    BY <1>2, <2>2, <2>3 DEF Remain
  <2> QED BY <1>1, <2>2, <2>4
<1>4. /\ Entries(h)' = Entries(h) \cup {t} /\ t \notin Entries(h)
      /\ \A k \in Spoke \ {h} : Entries(k)' = Entries(k)
  BY <1>2 DEF Entries
<1>5. /\ \A k \in Spoke : Listed(wheel[k], Entries(k))
      /\ ~set => \A k \in Spoke : SortedBy(wheel[k], Left)
  BY DEF IInv
<1>6. /\ Listed(new, Entries(h) \cup {t})
      /\ \A f : (/\ f \in [Task -> Int] /\ f[t] = Remain(m)
                 /\ \A u \in Task \ {t} : f[u] = Left[u])
                   => (SortedBy(wheel[h], f) => SortedBy(new, f))
  <2> HIDE DEF h
  <2>1. Listed(wheel[h], Entries(h)) /\ t \in Task \ Entries(h)
    BY <1>1, <1>4, <1>5
  <2> QED BY <1>1, <2>1, InsertKeeps
<1> HIDE DEF new, h
<1>7. ASSUME NEW k \in Spoke PROVE Listed(wheel[k], Entries(k))'
  <2>1. CASE k = h
    BY <1>2, <1>4, <1>6, <2>1 DEF Listed
  <2>2. CASE k # h
    BY <1>2, <1>4, <1>5, <2>2 DEF Listed
  <2> QED BY <2>1, <2>2
<1>8. ASSUME ~set, NEW k \in Spoke PROVE SortedBy(wheel'[k], Left')
  <2>1. /\ Left' \in [Task -> Int] /\ Left'[t] = Remain(m)
        /\ \A u \in Task \ {t} : Left'[u] = Left[u]
    BY <1>1, <1>3
  <2>2. SortedBy(wheel[k], Left')
    <3>1. \A i \in 1..Len(wheel[k]) : wheel[k][i] \in Task \ {t}
      BY <1>4, <1>5 DEF Listed, Entries
    <3> QED BY <1>5, <1>8, <2>1, <3>1 DEF SortedBy
  <2>3. CASE k = h
    BY <1>2, <1>6, <2>1, <2>2, <2>3
  <2>4. CASE k # h
    BY <1>2, <2>2, <2>4
  <2> QED BY <2>3, <2>4
<1>9. wheel' \in [Spoke -> Seq(Task)]
  BY <1>1, <1>6 DEF Listed, h, new
<1>10. Waits' = [Waits EXCEPT ![t] = Remain(m)]
  <2>1. Waits' = [u \in Task |-> IF "DLY" \in state'[u] THEN Left'[u] ELSE 0]
    BY DEF Waits, Left
  <2>2. Waits = [u \in Task |-> IF "DLY" \in state[u] THEN Left[u] ELSE 0]
    BY DEF Waits, Left
  <2>3. \A u \in Task : Waits'[u] = [Waits EXCEPT ![t] = Remain(m)][u]
    BY <1>1, <1>2, <1>3, <2>1, <2>2
  <2> QED BY <2>1, <2>2, <2>3
<1> QED BY <1>2, <1>3, <1>7, <1>8, <1>9, <1>10

LEMMA RemoveStep ==
  ASSUME TickAssumption, IInv, NEW S \in SUBSET Task, OS_TickListRemove(S),
         \A u \in Task : "DLY" \in state'[u] <=> "DLY" \in state[u] /\ u \notin S,
         ~set => \A u, v \in Task \ S : Left[u] # 0 /\ Left[u] =< Left[v]
                                          => Left'[u] =< Left'[v]
  PROVE  /\ wheel' \in [Spoke -> Seq(Task)] /\ match' \in [Task -> OS_TICK]
         /\ \A k \in Spoke : Listed(wheel[k], Entries(k))'
         /\ ~set => \A k \in Spoke : SortedBy(wheel'[k], Left')
         /\ \A u \in Task \ S : match'[u] = match[u]
<1>1. /\ wheel \in [Spoke -> Seq(Task)] /\ match \in [Task -> OS_TICK]
      /\ \A k \in Spoke : Listed(wheel[k], Entries(k))
      /\ ~set => \A k \in Spoke : SortedBy(wheel[k], Left)
      /\ ~set => \A t \in Task : "DLY" \in state[t] => Left[t] # 0
      /\ 0 \in OS_TICK
  BY Typed, Widths DEF IInv, OS_TICK
<1>2. /\ wheel' = [k \in Spoke |-> Without(wheel[k], S)]
      /\ match' \in [Task -> OS_TICK] /\ \A u \in Task \ S : match'[u] = match[u]
  BY <1>1 DEF OS_TickListRemove
<1>3. ASSUME NEW k \in Spoke
      PROVE  /\ Listed(wheel'[k], Entries(k) \ S) /\ wheel'[k] \in Seq(Task)
             /\ ~set => SortedBy(wheel'[k], Left)
             /\ Entries(k)' = Entries(k) \ S
  <2>1. Listed(Without(wheel[k], S), Entries(k) \ S)
        /\ \A f : SortedBy(wheel[k], f) => SortedBy(Without(wheel[k], S), f)
    BY <1>1, WithoutKeeps
  <2>2. Entries(k)' = Entries(k) \ S
    <3>1. \A u \in Task : u \in Entries(k)' <=> u \in Entries(k) \ S
      BY <1>2 DEF Entries
    <3> QED BY <3>1 DEF Entries
  <2>3. wheel'[k] = Without(wheel[k], S)
    BY <1>2
  <2> QED BY <1>1, <2>1, <2>2, <2>3 DEF Listed
<1>4. ASSUME NEW k \in Spoke PROVE Listed(wheel[k], Entries(k))'
  BY <1>3 DEF Listed
<1>5. ASSUME ~set, NEW k \in Spoke PROVE SortedBy(wheel'[k], Left')
  <2>1. \A i \in 1..Len(wheel'[k]) : /\ wheel'[k][i] \in Task \ S
                                     /\ Left[wheel'[k][i]] # 0
    BY <1>1, <1>3, <1>5 DEF Listed, Entries
  <2>2. SortedBy(wheel'[k], Left)
    BY <1>3, <1>5
  <2> QED BY <1>5, <2>1, <2>2 DEF SortedBy
<1>6. wheel' \in [Spoke -> Seq(Task)]
  BY <1>2, <1>3
<1> QED BY <1>2, <1>4, <1>5, <1>6

-----------------------------------------------------------------------------
(* The steps.  Each keeps the invariant and is a step of AbsTick.          *)

Maps == [Abs!ANext]_(Abs!avars)

LEMMA InitInv == ASSUME TickAssumption PROVE Init => IInv /\ Abs!AInit
<1> SUFFICES ASSUME Init PROVE IInv /\ Abs!AInit
  OBVIOUS
<1>1. /\ W \in Nat \ {0} /\ W = 2 * OS_TICK_TH_INIT /\ OS_TICK_TH_INIT \in Nat \ {0}
      /\ MaxOwed \in Nat
  BY Widths
<1>2. 0 \in OS_TICK /\ OS_TICK_TH_INIT \in OS_TICK /\ OS_TICK_TH_INIT \in -W..W
      /\ OS_TICK_TH_INIT \in 0..W
  BY <1>1 DEF OS_TICK
<1>3. << >> \in Seq(Task) /\ Len(<< >>) = 0
  OBVIOUS
<1>4. TypeOK
  <2>1. /\ ctr \in OS_TICK /\ owed \in 0..MaxOwed /\ set \in BOOLEAN /\ rdy \subseteq Task
        /\ match \in [Task -> OS_TICK] /\ prev \in [Task -> OS_TICK]
        /\ age \in [Task -> -W..W]
    <3>1. MaxOwed \in Nat /\ 0 \in 0..MaxOwed
      BY <1>1
    <3>2. /\ ctr = 0 /\ owed = 0 /\ set = FALSE /\ rdy = Task
          /\ match = [t \in Task |-> 0] /\ prev = [t \in Task |-> OS_TICK_TH_INIT]
          /\ age = [t \in Task |-> OS_TICK_TH_INIT]
      BY DEF Init
    <3> HIDE DEF Init
    <3> QED BY <1>2, <3>1, <3>2
  <2>2. wheel \in [Spoke -> Seq(Task)] /\ state \in [Task -> SUBSET {"DLY", "PEND", "SUSPENDED"}]
    BY <1>3 DEF Init
  <2> QED BY <2>1, <2>2 DEF TypeOK
<1>5. ASSUME NEW k \in Spoke
      PROVE  Listed(wheel[k], Entries(k)) /\ SortedBy(wheel[k], Left)
  <2>1. wheel[k] = << >> /\ Entries(k) = {}
    BY DEF Init, Entries
  <2> QED BY <1>3, <2>1 DEF Listed, SortedBy
<1>6. (ctr - OS_TICK_TH_INIT) % W = OS_TICK_TH_INIT
  <2>1. ctr = 0
    BY DEF Init
  <2>2. OS_TICK_TH_INIT \in 0..W - 1 /\ 0 \in 0..W - 1
    BY <1>1
  <2>3. (0 - OS_TICK_TH_INIT) % W = 0 - OS_TICK_TH_INIT + W
    BY <1>1, <2>2, MinusIs
  <2> QED BY <1>1, <2>1, <2>3
<1>7. IInv
  BY <1>4, <1>5, <1>6 DEF IInv, Init
<1>8. Abs!AInit
  BY <1>2 DEF Init, Abs!AInit
<1> QED BY <1>7, <1>8

(* Once the time was set AbsTick allows everything.                        *)
LEMMA OnceSet == ASSUME set' = TRUE PROVE Maps
BY DEF Maps, Abs!ANext

LEMMA SameWaits == ASSUME Waits' = Waits, UNCHANGED <<age, set>> PROVE Maps
BY DEF Maps, Abs!avars, Waits

(* Steps that leave the wheel and every wait for a time alone.             *)
LEMMA QuietStep ==
  ASSUME TickAssumption, IInv, UNCHANGED <<ctr, wheel, match, prev, age, set>>,
         state' \in [Task -> SUBSET Bit], owed' \in 0..MaxOwed,
         \A t \in Task : "DLY" \in state'[t] <=> "DLY" \in state[t],
         rdy' = {t \in Task : state'[t] = {}}
  PROVE  IInv' /\ Maps
<1>1. Left' = Left
  BY DEF Left, Remain
<1>2. Waits' = Waits
  BY DEF Waits, Remain
<1>3. \A k \in Spoke : Entries(k)' = Entries(k)
  BY DEF Entries
<1>4. TypeOK'
  BY DEF IInv, TypeOK, Bit
<1>5. \A k \in Spoke : Listed(wheel[k], Entries(k))'
  BY <1>3 DEF IInv, Listed
<1>6. ~set => /\ \A k \in Spoke : SortedBy(wheel'[k], Left')
              /\ \A t \in Task : "DLY" \in state'[t] => Left'[t] # 0
              /\ \A t \in Task : age'[t] < W => prev'[t] = (ctr' - age'[t]) % W
  BY <1>1 DEF IInv, SortedBy
<1>7. IInv'
  BY <1>4, <1>5, <1>6 DEF IInv, SortedBy
<1> QED BY <1>2, <1>7, SameWaits

LEMMA TickInterrupt ==
  ASSUME TickAssumption, IInv, OSTimeTick PROVE IInv' /\ Maps
<1>1. /\ UNCHANGED <<ctr, wheel, match, prev, age, set, state, rdy>>
      /\ owed < MaxOwed /\ owed' = owed + 1
  BY DEF OSTimeTick
<1>2. owed' \in 0..MaxOwed
  BY <1>1, Typed, Widths
<1>3. state' \in [Task -> SUBSET Bit]
  BY <1>1, Typed
<1>4. rdy' = {t \in Task : state'[t] = {}}
  BY <1>1 DEF IInv
<1> QED BY <1>1, <1>2, <1>3, <1>4, QuietStep

LEMMA TimeIsSet ==
  ASSUME TickAssumption, IInv, NEW n \in TimeSets, OSTimeSet(n) PROVE IInv' /\ Maps
<1>1. /\ ctr' = n /\ set' = TRUE /\ age' = [t \in Task |-> W]
      /\ UNCHANGED <<wheel, state, match, prev, rdy, owed>>
  BY DEF OSTimeSet
<1>2. n \in OS_TICK /\ W \in -W..W
  BY Widths DEF TickAssumption
<1>3. TypeOK'
  BY <1>1, <1>2 DEF IInv, TypeOK
<1>4. \A k \in Spoke : Listed(wheel[k], Entries(k))'
  BY <1>1 DEF IInv, Listed, Entries
<1>5. IInv'
  BY <1>1, <1>3, <1>4 DEF IInv
<1> QED BY <1>1, <1>5, OnceSet

(* A wait of n ticks begins.                                               *)
LEMMA WaitBegins ==
  ASSUME TickAssumption, IInv, NEW t \in rdy, NEW m \in OS_TICK, Remain(m) # 0,
         NEW bits \in SUBSET Bit, "DLY" \in bits,
         state' = [state EXCEPT ![t] = bits], rdy' = rdy \ {t},
         match' = [match EXCEPT ![t] = m],
         wheel' = [wheel EXCEPT ![m % WheelSize] = SpokeInsert(@, t, m)],
         UNCHANGED <<ctr, owed, set>>,
         prev' \in [Task -> OS_TICK], age' \in [Task -> -W..W],
         ~set => \A u \in Task : age'[u] < W => prev'[u] = (ctr - age'[u]) % W
  PROVE  /\ IInv' /\ Waits' = [Waits EXCEPT ![t] = Remain(m)]
         /\ Waits[t] = 0 /\ Remain(m) \in 1..W - 1
<1>1. t \in Task /\ state[t] = {}
  BY DEF IInv
<1>2. /\ wheel' \in [Spoke -> Seq(Task)] /\ match' \in [Task -> OS_TICK]
      /\ \A k \in Spoke : Listed(wheel[k], Entries(k))'
      /\ ~set => \A k \in Spoke : SortedBy(wheel'[k], Left')
      /\ Left' = [Left EXCEPT ![t] = Remain(m)]
      /\ Waits' = [Waits EXCEPT ![t] = Remain(m)]
  BY <1>1, InsertStep
<1>3. state \in [Task -> SUBSET Bit] /\ owed \in 0..MaxOwed /\ ctr \in OS_TICK
      /\ set \in BOOLEAN /\ Left \in [Task -> 0..W - 1]
  BY Typed
<1>4. state' \in [Task -> SUBSET Bit]
  BY <1>3
<1>5. \A u \in Task : u # t => state'[u] = state[u] /\ Left'[u] = Left[u]
  BY <1>2, <1>3
<1>6. state'[t] = bits /\ Left'[t] = Remain(m)
  BY <1>1, <1>2, <1>3
<1>7. rdy' = {u \in Task : state'[u] = {}}
  BY <1>5, <1>6 DEF IInv
<1>8. ~set => \A u \in Task : "DLY" \in state'[u] => Left'[u] # 0
  BY <1>5, <1>6 DEF IInv
<1>9. TypeOK'
  BY <1>2, <1>3, <1>4, <1>7 DEF TypeOK, Bit
<1>10. IInv'
  BY <1>2, <1>7, <1>8, <1>9 DEF IInv
<1>11. Waits[t] = 0
  BY <1>1 DEF Waits
<1>12. Remain(m) \in 1..W - 1
  BY <1>3, RemainIs, Widths
<1> QED BY <1>2, <1>10, <1>11, <1>12

LEMMA SleepMaps ==
  ASSUME NEW t \in Task, NEW n \in 1..W - 1,
         Waits[t] = 0, Waits' = [Waits EXCEPT ![t] = n], UNCHANGED <<age, set>>
  PROVE  Maps
<1>1. CASE set
  BY <1>1, OnceSet
<1>2. CASE ~set
  BY <1>2 DEF Maps, Abs!ANext, Abs!Promised, Abs!Sleep, Waits
<1> QED BY <1>1, <1>2

LEMMA AgesStay ==
  ASSUME TickAssumption, IInv, UNCHANGED <<prev, age>>
  PROVE  /\ prev' \in [Task -> OS_TICK] /\ age' \in [Task -> -W..W]
         /\ ~set => \A u \in Task : age'[u] < W => prev'[u] = (ctr - age'[u]) % W
BY Typed DEF IInv

LEMMA BlockStep ==
  ASSUME TickAssumption, IInv, NEW t \in Task, NEW n \in Dlys \cup {0}, OS_TaskBlock(t, n)
  PROVE  IInv' /\ Maps
<1>1. t \in rdy /\ rdy' = rdy \ {t} /\ UNCHANGED <<ctr, owed, set>> /\ state[t] = {}
  BY DEF OS_TaskBlock, IInv
<1>2. CASE n > 0
  <2>1. n \in OS_TICK \ {0}
    BY <1>2, Widths DEF TickAssumption, OS_TICK
  <2> DEFINE m == (ctr + n) % W
             bits == {"DLY", "PEND"}
  <2>2. m \in OS_TICK /\ Remain(m) = n
    BY <2>1, Typed, MatchAfter
  <2>3. TickCtrMatch(t, n, "DLY") = m
    BY DEF TickCtrMatch
  <2>4. /\ match' = [match EXCEPT ![t] = m]
        /\ wheel' = [wheel EXCEPT ![m % WheelSize] = SpokeInsert(@, t, m)]
        /\ UNCHANGED <<prev, age>>
        /\ state' = [state EXCEPT ![t] = bits]
    BY <1>2, <2>3 DEF OS_TaskBlock, OS_TickListInsert
  <2>5. bits \in SUBSET Bit /\ "DLY" \in bits
    BY DEF Bit
  <2> HIDE DEF m, bits
  <2>6. /\ IInv' /\ Waits' = [Waits EXCEPT ![t] = Remain(m)]
        /\ Waits[t] = 0 /\ Remain(m) \in 1..W - 1
    BY <1>1, <2>1, <2>2, <2>4, <2>5, AgesStay, WaitBegins
  <2> QED BY <1>1, <2>4, <2>6, SleepMaps
<1>3. CASE ~(n > 0)
  <2>1. state' = [state EXCEPT ![t] = {"PEND"}] /\ UNCHANGED <<wheel, match, prev, age>>
    BY <1>3 DEF OS_TaskBlock
  <2>2. state \in [Task -> SUBSET Bit] /\ owed \in 0..MaxOwed
    BY Typed
  <2>3. state'[t] = {"PEND"} /\ \A u \in Task : u # t => state'[u] = state[u]
    BY <2>1, <2>2
  <2>4. state' \in [Task -> SUBSET Bit]
    BY <2>1, <2>2 DEF Bit
  <2>5. \A u \in Task : "DLY" \in state'[u] <=> "DLY" \in state[u]
    BY <1>1, <2>3
  <2>6. rdy' = {u \in Task : state'[u] = {}}
    BY <1>1, <2>3 DEF IInv
  <2> QED BY <1>1, <2>1, <2>2, <2>4, <2>5, <2>6, QuietStep
<1> QED BY <1>2, <1>3

(* OSTimeDly().  A match time that has not passed is ahead.                *)
LEMMA NotOccurred ==
  ASSUME TickAssumption, ctr \in OS_TICK, NEW time \in OS_TICK, ~Occurred(time)
  PROVE  Remain(time) # 0
<1>1. CASE time = ctr
  <2>1. W \in Nat \ {0} /\ ctr \in Int /\ OS_TICK_TH_RDY \in Int /\ OS_TICK_TH_RDY =< W - 2
    BY Widths DEF OS_TICK
  <2>2. (0 - 1) % W = W - 1
    <3>1. W \in Nat \ {0} /\ 0 \in 0..W - 1 /\ 1 \in 0..W - 1
      BY Widths
    <3> QED BY <3>1, MinusIs
  <2>3. time - ctr - 1 = 0 - 1
    BY <1>1, <2>1
  <2>4. (time - ctr - 1) % W = W - 1
    BY <2>2, <2>3
  <2> QED BY <2>1, <2>4 DEF Occurred
<1>2. CASE time # ctr
  BY <1>2, RemainIs, Widths DEF OS_TICK
<1> QED BY <1>1, <1>2

(* A periodic delay ends a period after the last one, if that is ahead.    *)
LEMMA PeriodIs ==
  ASSUME TickAssumption, IInv, NEW t \in Task, NEW n \in OS_TICK \ {0}
  PROVE  LET m == PeriodicMatch(t, n)
         IN  /\ m \in OS_TICK /\ Remain(m) \in 1..n
             /\ ~set => /\ age[t] \in 0..n - 1 => Remain(m) = n - age[t]
                        /\ age[t] \in n..W - 1 => Remain(m) = n
<1> DEFINE m == PeriodicMatch(t, n)
           next == (prev[t] + n) % W
<1>1. /\ ctr \in 0..W - 1 /\ prev[t] \in 0..W - 1 /\ age[t] \in -W..W /\ n \in 1..W - 1
      /\ W \in Nat \ {0} /\ OS_TICK = 0..W - 1 /\ ctr \in OS_TICK
  <2>1. W \in Nat \ {0} /\ OS_TICK = 0..W - 1
    BY Widths DEF OS_TICK
  <2> QED BY <2>1, Typed
<1>2. next = IF prev[t] + n < W THEN prev[t] + n ELSE prev[t] + n - W
  <2>1. n \in 0..W - 1
    BY <1>1
  <2> HIDE DEF next
  <2> QED BY <1>1, <2>1, PlusIs DEF next
<1> HIDE DEF next
<1>3. next \in OS_TICK
  BY <1>1, <1>2
<1>4. Remain(next) = IF next >= ctr THEN next - ctr ELSE next - ctr + W
  BY <1>1, <1>3, RemainIs
<1>5. (next - ctr - 1) % W = IF Remain(next) = 0 THEN W - 1 ELSE Remain(next) - 1
  <2> DEFINE a == next - ctr - 1
  <2>1. /\ a \in Int /\ -W =< a /\ a < 2 * W
        /\ Remain(next) = 0 => a = 0 - 1
        /\ Remain(next) # 0 => a = Remain(next) - 1 \/ a = Remain(next) - 1 - W
        /\ Remain(next) \in 0..W - 1
    BY <1>1, <1>3, <1>4
  <2> HIDE DEF a
  <2>2. a % W = IF a < 0 THEN a + W ELSE IF a < W THEN a ELSE a - W
    BY <1>1, <2>1, ModIs
  <2>3. a % W = IF Remain(next) = 0 THEN W - 1 ELSE Remain(next) - 1
    BY <1>1, <2>1, <2>2
  <2> QED BY <2>3 DEF a
<1>6. m = IF (next - ctr - 1) % W < n THEN next ELSE (ctr + n) % W
  BY DEF PeriodicMatch, next
<1>7. (ctr + n) % W \in OS_TICK /\ Remain((ctr + n) % W) = n
  BY <1>1, MatchAfter
<1>8. \/ m = next /\ Remain(next) \in 1..n
      \/ m = (ctr + n) % W /\ (Remain(next) = 0 \/ Remain(next) > n)
  <2>1. Remain(next) \in 0..W - 1
    BY <1>1, <1>3, <1>4
  <2>2. (next - ctr - 1) % W < n <=> Remain(next) \in 1..n
    BY <1>1, <1>5, <2>1
  <2> QED BY <1>1, <1>6, <2>1, <2>2
<1>9. m \in OS_TICK /\ Remain(m) \in 1..n
  BY <1>1, <1>3, <1>7, <1>8
<1>10. ASSUME ~set, age[t] \in 0..W - 1
       PROVE  Remain(next) = IF n > age[t] THEN n - age[t]
                             ELSE IF n = age[t] THEN 0 ELSE n - age[t] + W
  <2>1. prev[t] = (ctr - age[t]) % W
    BY <1>1, <1>10 DEF IInv
  <2>2. prev[t] = IF ctr >= age[t] THEN ctr - age[t] ELSE ctr - age[t] + W
    BY <1>1, <1>10, <2>1, MinusIs
  <2> DEFINE a == age[t]
             p == prev[t]
             k == Remain(next)
  <2>3. /\ a \in 0..W - 1 /\ p \in 0..W - 1 /\ n \in 1..W - 1 /\ W \in Nat /\ ctr \in 0..W - 1
        /\ p = IF ctr >= a THEN ctr - a ELSE ctr - a + W
        /\ next = IF p + n < W THEN p + n ELSE p + n - W
        /\ k = IF next >= ctr THEN next - ctr ELSE next - ctr + W
    BY <1>1, <1>2, <1>4, <1>10, <2>2
  <2> HIDE DEF a, p, k
  <2>4. k = IF n > a THEN n - a ELSE IF n = a THEN 0 ELSE n - a + W
    <3>1. CASE ctr >= a
      BY <2>3, <3>1
    <3>2. CASE ctr < a
      BY <2>3, <3>2
    <3> QED BY <2>3, <3>1, <3>2
  <2> QED BY <2>4 DEF a, k
<1>11. ASSUME ~set, age[t] \in 0..n - 1 PROVE Remain(m) = n - age[t]
  <2>1. Remain(next) = n - age[t]
    BY <1>1, <1>10, <1>11
  <2> QED BY <1>1, <1>8, <1>11, <2>1
<1>12. ASSUME ~set, age[t] \in n..W - 1 PROVE Remain(m) = n
  <2>1. Remain(next) = 0 \/ Remain(next) > n
    BY <1>1, <1>10, <1>12
  <2> QED BY <1>1, <1>7, <1>8, <1>12, <2>1
<1> QED BY <1>9, <1>11, <1>12

LEMMA DelayStep ==
  ASSUME TimesAhead, IInv, NEW t \in Task, NEW n \in OS_TICK, NEW opt \in Options,
         OSTimeDly(t, n, opt)
  PROVE  IInv' /\ Maps
<1> DEFINE m == TickCtrMatch(t, n, opt)
           bits == {"DLY"}
<1>1. /\ t \in rdy /\ rdy' = rdy \ {t} /\ UNCHANGED <<ctr, owed, set>>
      /\ state' = [state EXCEPT ![t] = bits]
      /\ opt # "MATCH" => n > 0
      /\ opt = "MATCH" => ~Occurred(n)
      /\ OS_TickListInsert(t, n, opt)
  BY DEF OSTimeDly, TimesAhead
<1>2. /\ match' = [match EXCEPT ![t] = m]
      /\ wheel' = [wheel EXCEPT ![m % WheelSize] = SpokeInsert(@, t, m)]
      /\ opt # "PERIODIC" => UNCHANGED <<prev, age>>
      /\ opt = "PERIODIC" => /\ prev' = [prev EXCEPT ![t] = m]
                             /\ age' = IF set THEN age ELSE [age EXCEPT ![t] = -Remain(m)]
  BY <1>1 DEF OS_TickListInsert
<1>3. bits \in SUBSET Bit /\ "DLY" \in bits
  BY DEF Bit
<1>4. /\ TickAssumption /\ ctr \in OS_TICK /\ W \in Nat \ {0} /\ OS_TICK = 0..W - 1
      /\ prev \in [Task -> OS_TICK] /\ age \in [Task -> -W..W] /\ set \in BOOLEAN
  BY Typed, Widths DEF TimesAhead, OS_TICK
<1> HIDE DEF bits
<1>5. CASE opt # "PERIODIC"
  <2>1. m \in OS_TICK /\ Remain(m) # 0
    <3>1. CASE opt = "MATCH"
      <4>1. m = n
        BY <3>1 DEF TickCtrMatch
      <4> HIDE DEF m
      <4> QED BY <1>1, <1>4, <3>1, <4>1, NotOccurred
    <3>2. CASE opt = "DLY"
      <4>1. m = (ctr + n) % W
        BY <3>2 DEF TickCtrMatch
      <4>2. n # 0
        BY <1>1, <3>2
      <4> HIDE DEF m
      <4> QED BY <1>4, <4>1, <4>2, MatchAfter
    <3> QED BY <1>5, <3>1, <3>2 DEF Options
  <2> HIDE DEF m
  <2>2. /\ IInv' /\ Waits' = [Waits EXCEPT ![t] = Remain(m)]
        /\ Waits[t] = 0 /\ Remain(m) \in 1..W - 1
    BY <1>1, <1>2, <1>3, <1>4, <1>5, <2>1, AgesStay, WaitBegins
  <2> QED BY <1>1, <1>2, <1>5, <2>2, SleepMaps
<1>6. CASE opt = "PERIODIC"
  <2>1. n \in OS_TICK \ {0} /\ n \in 1..W - 1
    BY <1>1, <1>4, <1>6
  <2>2. m = PeriodicMatch(t, n)
    BY <1>6 DEF TickCtrMatch
  <2> HIDE DEF m
  <2>3. /\ m \in OS_TICK /\ Remain(m) \in 1..n
        /\ ~set => /\ age[t] \in 0..n - 1 => Remain(m) = n - age[t]
                   /\ age[t] \in n..W - 1 => Remain(m) = n
    BY <1>4, <2>1, <2>2, PeriodIs
  <2>4. prev' \in [Task -> OS_TICK] /\ age' \in [Task -> -W..W] /\ Remain(m) # 0
    <3>1. -Remain(m) \in -W..W
      BY <1>4, <2>1, <2>3
    <3>2. prev' \in [Task -> OS_TICK]
      BY <1>2, <1>4, <1>6, <2>3
    <3>3. age' \in [Task -> -W..W]
      <4>1. CASE set
        BY <1>2, <1>4, <1>6, <4>1
      <4>2. CASE ~set
        BY <1>2, <1>4, <1>6, <3>1, <4>2
      <4> QED BY <4>1, <4>2
    <3>4. Remain(m) # 0
      BY <1>4, <2>1, <2>3
    <3> QED BY <3>2, <3>3, <3>4
  <2>5. ASSUME ~set, NEW u \in Task, age'[u] < W PROVE prev'[u] = (ctr - age'[u]) % W
    <3>1. CASE u # t
      <4>1. age'[u] = age[u] /\ prev'[u] = prev[u]
        BY <1>2, <1>4, <1>6, <2>5, <3>1
      <4> QED BY <2>5, <4>1 DEF IInv
    <3>2. CASE u = t
      <4>1. age'[t] = -Remain(m) /\ prev'[t] = m
        BY <1>2, <1>4, <1>6, <2>5, <3>2
      <4>2. Remain(m) = IF m >= ctr THEN m - ctr ELSE m - ctr + W
        BY <1>4, <2>3, RemainIs
      <4>3. Remain(m) \in 0..W - 1 /\ ctr \in 0..W - 1 /\ m \in 0..W - 1
        BY <1>4, <2>1, <2>3
      <4>4. (ctr + Remain(m)) % W = IF ctr + Remain(m) < W THEN ctr + Remain(m)
                                    ELSE ctr + Remain(m) - W
        BY <1>4, <4>3, PlusIs
      <4>5. (ctr + Remain(m)) % W = m
        BY <1>4, <4>2, <4>3, <4>4
      <4>6. ctr - age'[u] = ctr + Remain(m)
        BY <3>2, <4>1, <4>3
      <4> QED BY <3>2, <4>1, <4>5, <4>6
    <3> QED BY <3>1, <3>2
  <2>6. /\ IInv' /\ Waits' = [Waits EXCEPT ![t] = Remain(m)]
        /\ Waits[t] = 0 /\ Remain(m) \in 1..W - 1
    BY <1>1, <1>2, <1>3, <1>4, <2>3, <2>4, <2>5, WaitBegins
  <2>7. CASE set
    BY <1>1, <2>6, <2>7, OnceSet
  <2>8. CASE ~set
    <3>1. Abs!SleepPeriodic(t, n)
      <4> DEFINE d == Remain(m)
      <4>1. /\ d \in 1..n
            /\ age[t] \in 0..n - 1 => d = n - age[t]
            /\ age[t] \in n..W - 1 => d = n
            /\ Waits' = [Waits EXCEPT ![t] = d]
            /\ age' = [age EXCEPT ![t] = -d]
        BY <1>2, <1>6, <2>3, <2>6, <2>8
      <4> HIDE DEF d
      <4> QED BY <2>6, <4>1 DEF Abs!SleepPeriodic, Waits
    <3>2. Abs!Promised
      <4>1. t \in Task
        BY <1>1 DEF IInv
      <4> QED BY <2>1, <3>1, <4>1 DEF Abs!Promised
    <3>3. UNCHANGED set
      BY <1>1
    <3>4. Maps
      BY <2>8, <3>2, <3>3, Zenon DEF Maps, Abs!ANext
    <3> QED BY <2>6, <3>4
  <2> QED BY <1>4, <2>6, <2>7, <2>8
<1> QED BY <1>5, <1>6

(* A task leaves the wheel before its time, or was not in it.              *)
LEMMA WaitEnds ==
  ASSUME TickAssumption, IInv, NEW u \in Task, OS_TickListRemove({u}),
         state' \in [Task -> SUBSET Bit], "DLY" \notin state'[u],
         \A t \in Task \ {u} : state'[t] = state[t],
         rdy' = {t \in Task : state'[t] = {}},
         UNCHANGED <<ctr, prev, owed, age, set>>
  PROVE  IInv' /\ Maps
<1>1. /\ Left \in [Task -> 0..W - 1] /\ owed \in 0..MaxOwed /\ set \in BOOLEAN
      /\ W \in Nat \ {0} /\ ctr \in OS_TICK /\ match \in [Task -> OS_TICK]
  BY Typed, Widths
<1>2. \A t \in Task \ {u} : match'[t] = match[t]
  BY DEF OS_TickListRemove
<1>3. \A t \in Task \ {u} : Left'[t] = Left[t]
  BY <1>2 DEF Left, Remain
<1>4. \A t \in Task : "DLY" \in state'[t] <=> "DLY" \in state[t] /\ t \notin {u}
  OBVIOUS
<1>5. ASSUME ~set PROVE IF "DLY" \in state[u] THEN Left[u] # 0 ELSE TRUE
  BY <1>5 DEF IInv
<1>6. /\ wheel' \in [Spoke -> Seq(Task)] /\ match' \in [Task -> OS_TICK]
      /\ \A k \in Spoke : Listed(wheel[k], Entries(k))'
      /\ ~set => \A k \in Spoke : SortedBy(wheel'[k], Left')
  <2>1. \A t, v \in Task \ {u} : Left[t] # 0 /\ Left[t] =< Left[v] => Left'[t] =< Left'[v]
    BY <1>3
  <2>2. {u} \in SUBSET Task
    OBVIOUS
  <2> QED BY <1>4, <2>1, <2>2, RemoveStep
<1>7. IInv'
  <2>1. ~set => \A t \in Task : "DLY" \in state'[t] => Left'[t] # 0
    BY <1>3 DEF IInv
  <2>2. ~set' => \A t \in Task : age'[t] < W => prev'[t] = (ctr' - age'[t]) % W
    BY DEF IInv
  <2>3. TypeOK'
    BY <1>6 DEF IInv, TypeOK, Bit
  <2> QED BY <1>6, <2>1, <2>2, <2>3 DEF IInv
<1>8. Waits' = [Waits EXCEPT ![u] = 0]
  <2>1. \A t \in Task : Waits'[t] = [Waits EXCEPT ![u] = 0][t]
    BY <1>2 DEF Waits, Remain
  <2> QED BY <2>1 DEF Waits
<1>9. Maps
  <2>1. CASE set
    BY <2>1, OnceSet
  <2>2. CASE "DLY" \notin state[u]
    <3>1. [Waits EXCEPT ![u] = 0] = Waits
      BY <2>2 DEF Waits
    <3> QED BY <1>8, <3>1, SameWaits
  <2>3. CASE ~set /\ "DLY" \in state[u]
    <3>1. Waits[u] > 0
      BY <1>1, <1>5, <2>3 DEF Waits, Left
    <3>2. Abs!Cancel(u)
      BY <1>8, <3>1 DEF Abs!Cancel, Waits
    <3> QED BY <2>3, <3>2 DEF Maps, Abs!ANext, Abs!Promised
  <2> QED BY <1>1, <2>1, <2>2, <2>3
<1> QED BY <1>7, <1>9

LEMMA ResumeDlyStep ==
  ASSUME TickAssumption, IInv, NEW t \in Task, NEW u \in Task, OSTimeDlyResume(t, u)
  PROVE  IInv' /\ Maps
<1>1. /\ "DLY" \in state[u] /\ "PEND" \notin state[u]
      /\ state' = [state EXCEPT ![u] = @ \ {"DLY"}]
      /\ OS_TickListRemove({u})
      /\ rdy' = IF "SUSPENDED" \in state[u] THEN rdy ELSE rdy \cup {u}
      /\ UNCHANGED <<ctr, prev, owed, age, set>>
  BY DEF OSTimeDlyResume
<1>2. state \in [Task -> SUBSET Bit] /\ rdy = {v \in Task : state[v] = {}}
  BY Typed DEF IInv
<1>3. /\ state'[u] = state[u] \ {"DLY"}
      /\ \A v \in Task \ {u} : state'[v] = state[v]
      /\ state' \in [Task -> SUBSET Bit]
  BY <1>1, <1>2
<1>4. state'[u] = {} <=> "SUSPENDED" \notin state[u]
  BY <1>1, <1>2, <1>3 DEF Bit
<1>5. rdy' = {v \in Task : state'[v] = {}}
  <2>1. \A v \in Task : v \in rdy' <=> state'[v] = {}
    BY <1>1, <1>2, <1>3, <1>4
  <2>2. rdy' \subseteq Task
    BY <1>1, <1>2
  <2> QED BY <2>1, <2>2
<1> QED BY <1>1, <1>3, <1>5, WaitEnds

LEMMA PostStep ==
  ASSUME TickAssumption, IInv, NEW u \in Task, OS_Post(u)
  PROVE  IInv' /\ Maps
<1>1. /\ "PEND" \in state[u]
      /\ state' = [state EXCEPT ![u] = @ \ {"DLY", "PEND"}]
      /\ OS_TickListRemove({u})
      /\ rdy' = IF "SUSPENDED" \in state[u] THEN rdy ELSE rdy \cup {u}
      /\ UNCHANGED <<ctr, prev, owed, age, set>>
  BY DEF OS_Post
<1>2. state \in [Task -> SUBSET Bit] /\ rdy = {v \in Task : state[v] = {}}
  BY Typed DEF IInv
<1>3. /\ state'[u] = state[u] \ {"DLY", "PEND"}
      /\ \A v \in Task \ {u} : state'[v] = state[v]
      /\ state' \in [Task -> SUBSET Bit]
  BY <1>1, <1>2
<1>4. state'[u] = {} <=> "SUSPENDED" \notin state[u]
  BY <1>1, <1>2, <1>3 DEF Bit
<1>5. rdy' = {v \in Task : state'[v] = {}}
  <2>1. \A v \in Task : v \in rdy' <=> state'[v] = {}
    BY <1>1, <1>2, <1>3, <1>4
  <2>2. rdy' \subseteq Task
    BY <1>1, <1>2
  <2> QED BY <2>1, <2>2
<1> QED BY <1>1, <1>3, <1>5, WaitEnds

LEMMA SuspendStep ==
  ASSUME TickAssumption, IInv, NEW t \in Task, NEW u \in Task, OS_TaskSuspend(t, u)
  PROVE  IInv' /\ Maps
<1>1. /\ "SUSPENDED" \notin state[u]
      /\ state' = [state EXCEPT ![u] = @ \cup {"SUSPENDED"}]
      /\ rdy' = IF state[u] = {} THEN rdy \ {u} ELSE rdy
      /\ UNCHANGED <<ctr, wheel, match, prev, owed, age, set>>
  BY DEF OS_TaskSuspend
<1>2. state \in [Task -> SUBSET Bit] /\ rdy = {v \in Task : state[v] = {}}
      /\ owed \in 0..MaxOwed
  BY Typed DEF IInv
<1>3. /\ state'[u] = state[u] \cup {"SUSPENDED"}
      /\ \A v \in Task \ {u} : state'[v] = state[v]
      /\ state' \in [Task -> SUBSET Bit]
  BY <1>1, <1>2 DEF Bit
<1>4. rdy' = {v \in Task : state'[v] = {}}
  <2>1. \A v \in Task : v \in rdy' <=> state'[v] = {}
    BY <1>1, <1>2, <1>3
  <2>2. rdy' \subseteq Task
    BY <1>1, <1>2
  <2> QED BY <2>1, <2>2
<1>5. \A v \in Task : "DLY" \in state'[v] <=> "DLY" \in state[v]
  BY <1>3
<1> QED BY <1>1, <1>2, <1>3, <1>4, <1>5, QuietStep

LEMMA ResumeStep ==
  ASSUME TickAssumption, IInv, NEW t \in Task, NEW u \in Task, OS_TaskResume(t, u)
  PROVE  IInv' /\ Maps
<1>1. /\ "SUSPENDED" \in state[u]
      /\ state' = [state EXCEPT ![u] = @ \ {"SUSPENDED"}]
      /\ UNCHANGED <<ctr, prev, owed, age, set>>
  BY DEF OS_TaskResume
<1>2. state \in [Task -> SUBSET Bit] /\ rdy = {v \in Task : state[v] = {}}
      /\ owed \in 0..MaxOwed
  BY Typed DEF IInv
<1>3. /\ state'[u] = state[u] \ {"SUSPENDED"}
      /\ \A v \in Task \ {u} : state'[v] = state[v]
      /\ state' \in [Task -> SUBSET Bit]
  BY <1>1, <1>2
<1>4. CASE state[u] = {"SUSPENDED"}
  <2>1. OS_TickListRemove({u}) /\ rdy' = rdy \cup {u} /\ state'[u] = {}
    BY <1>3, <1>4 DEF OS_TaskResume
  <2>2. rdy' = {v \in Task : state'[v] = {}}
    BY <1>2, <1>3, <2>1
  <2> QED BY <1>1, <1>3, <2>1, <2>2, WaitEnds
<1>5. CASE state[u] # {"SUSPENDED"}
  <2>1. UNCHANGED <<wheel, match, rdy>> /\ state'[u] # {}
    BY <1>1, <1>3, <1>5 DEF OS_TaskResume
  <2>2. rdy' = {v \in Task : state'[v] = {}}
    BY <1>1, <1>2, <1>3, <2>1
  <2>3. \A v \in Task : "DLY" \in state'[v] <=> "DLY" \in state[v]
    BY <1>3
  <2> QED BY <1>1, <1>2, <1>3, <2>1, <2>2, <2>3, QuietStep
<1> QED BY <1>4, <1>5

-----------------------------------------------------------------------------
(* The tick task.                                                          *)

(* One tick brings every match time one tick nearer.                       *)
LEMMA OneTick ==
  ASSUME TickAssumption, ctr \in OS_TICK
  PROVE  LET now == (ctr + 1) % W
         IN  /\ now \in OS_TICK
             /\ \A m \in OS_TICK :
                  /\ (m - now) % W = IF Remain(m) = 0 THEN W - 1 ELSE Remain(m) - 1
                  /\ Remain(m) = 1 <=> m = now
<1> DEFINE now == (ctr + 1) % W
<1>1. W \in Nat \ {0} /\ W >= 2 /\ OS_TICK = 0..W - 1 /\ 1 \in 0..W - 1 /\ ctr \in 0..W - 1
  BY Widths DEF OS_TICK
<1>2. now = IF ctr + 1 < W THEN ctr + 1 ELSE ctr + 1 - W
  BY <1>1, PlusIs
<1> HIDE DEF now
<1>3. now \in 0..W - 1
  BY <1>1, <1>2
<1>4. ASSUME NEW m \in OS_TICK
      PROVE  /\ (m - now) % W = IF Remain(m) = 0 THEN W - 1 ELSE Remain(m) - 1
             /\ Remain(m) = 1 <=> m = now
  <2>1. m \in 0..W - 1
    BY <1>1
  <2>2. (m - now) % W = IF m >= now THEN m - now ELSE m - now + W
    BY <1>1, <1>3, <2>1, MinusIs
  <2>3. Remain(m) = IF m >= ctr THEN m - ctr ELSE m - ctr + W
    BY RemainIs
  <2> DEFINE a == (m - now) % W
             b == Remain(m)
  <2>4. a = (IF m >= now THEN m - now ELSE m - now + W)
        /\ b = (IF m >= ctr THEN m - ctr ELSE m - ctr + W)
    BY <2>2, <2>3
  <2> HIDE DEF a, b
  <2>5. a = (IF b = 0 THEN W - 1 ELSE b - 1) /\ (b = 1 <=> m = now)
    BY <1>1, <1>2, <1>3, <2>1, <2>4
  <2> QED BY <2>5 DEF a, b
<1> QED BY <1>1, <1>3, <1>4 DEF now

(* In sorted spokes the walk wakes exactly those whose time it is.         *)
LEMMA DueIs ==
  ASSUME TickAssumption, IInv, ~set
  PROVE  LET now == (ctr + 1) % W
         IN  \A t \in Task : t \in Due(wheel[now % WheelSize], now)
                               <=> "DLY" \in state[t] /\ match[t] = now
<1> DEFINE now == (ctr + 1) % W
           k == now % WheelSize
           s == wheel[k]
<1>1. /\ now \in OS_TICK
      /\ \A m \in OS_TICK : Remain(m) = 1 <=> m = now
  BY Typed, OneTick
<1> HIDE DEF now
<1>2. /\ k \in Spoke /\ match \in [Task -> OS_TICK] /\ W \in Nat \ {0}
      /\ wheel \in [Spoke -> Seq(Task)]
      /\ Left \in [Task -> 0..W - 1] /\ \A t \in Task : Left[t] = Remain(match[t])
  BY <1>1, Typed, Widths
<1> HIDE DEF k
<1>3. /\ s \in Seq(Task) /\ Len(s) \in Nat /\ DOMAIN s = 1..Len(s)
      /\ \A i \in 1..Len(s) : s[i] \in Task /\ s[i] \in Entries(k)
      /\ \A t \in Entries(k) : \E i \in 1..Len(s) : s[i] = t
      /\ \A i, j \in 1..Len(s) : i < j => Left[s[i]] =< Left[s[j]]
      /\ \A t \in Task : "DLY" \in state[t] => Left[t] # 0
  <2>1. s \in Seq(Task)
    BY <1>2
  <2>2. Len(s) \in Nat /\ DOMAIN s = 1..Len(s)
    BY <2>1, LenProperties
  <2>3. Listed(s, Entries(k)) /\ SortedBy(s, Left)
    BY <1>2 DEF IInv
  <2> QED BY <2>1, <2>2, <2>3 DEF Listed, SortedBy, Entries, IInv
<1> HIDE DEF s
<1>4. ASSUME NEW t \in Task, t \in Due(s, now) PROVE "DLY" \in state[t] /\ match[t] = now
  <2>1. PICK i \in DOMAIN s : /\ s[i] = t
                              /\ \A j \in 1..i : "DLY" \in state[s[j]] => match[s[j]] = now
    BY <1>4 DEF Due
  <2>2. i \in 1..i
    BY <1>3
  <2> QED BY <1>4, <2>1, <2>2 DEF Due
<1>5. ASSUME NEW t \in Task, "DLY" \in state[t], match[t] = now PROVE t \in Due(s, now)
  <2>1. t \in Entries(k)
    BY <1>5 DEF Entries, k
  <2>2. PICK i \in 1..Len(s) : s[i] = t
    BY <1>3, <2>1
  <2>3. ASSUME NEW j \in 1..i, "DLY" \in state[s[j]] PROVE match[s[j]] = now
    <3>1. j \in 1..Len(s) /\ s[j] \in Task /\ Left[s[j]] # 0 /\ (j < i \/ j = i)
      BY <1>3, <2>3
    <3>2. Left[t] = 1
      BY <1>1, <1>2, <1>5
    <3>3. Left[s[j]] =< 1
      BY <1>3, <2>2, <3>1, <3>2
    <3>4. Left[s[j]] = 1
      BY <1>2, <3>1, <3>3
    <3> QED BY <1>1, <1>2, <3>1, <3>4
  <2>4. t \in Range(s)
    BY <1>3, <2>2 DEF Range
  <2> QED BY <1>3, <1>5, <2>2, <2>3, <2>4 DEF Due
<1> QED BY <1>4, <1>5 DEF s, k, now

LEMMA TickUpdate ==
  ASSUME TickAssumption, IInv, OS_TickListUpdate PROVE IInv' /\ Maps
<1> DEFINE now == (ctr + 1) % W
           due == Due(wheel[now % WheelSize], now)
<1>1. /\ owed > 0 /\ owed' = owed - 1 /\ ctr' = now
      /\ OS_TickListRemove(due)
      /\ state' = [t \in Task |->
                    IF t \in due THEN state[t] \ {"DLY", "PEND"} ELSE state[t]]
      /\ rdy' = rdy \cup {t \in due : "SUSPENDED" \notin state[t]}
      /\ age' = [t \in Task |-> IF age[t] < W /\ ~set THEN age[t] + 1 ELSE W]
      /\ UNCHANGED <<prev, set>>
  BY DEF OS_TickListUpdate
<1>2. /\ now \in OS_TICK
      /\ \A m \in OS_TICK :
           /\ (m - now) % W = IF Remain(m) = 0 THEN W - 1 ELSE Remain(m) - 1
           /\ Remain(m) = 1 <=> m = now
  BY Typed, OneTick
<1>3. ~set => \A t \in Task : t \in due <=> "DLY" \in state[t] /\ match[t] = now
  BY DueIs
<1>4. due \subseteq Task /\ \A t \in due : "DLY" \in state[t]
  <2> DEFINE s == wheel[now % WheelSize]
  <2>1. s \in Seq(Task)
    BY <1>2, Typed
  <2> HIDE DEF s
  <2>2. Range(s) \subseteq Task
    BY <2>1, LenProperties DEF Range
  <2>3. Due(s, now) \subseteq Task /\ \A t \in Due(s, now) : "DLY" \in state[t]
    BY <2>2 DEF Due
  <2> QED BY <2>3 DEF s
<1> HIDE DEF due, now
<1>5. /\ W \in Nat \ {0} /\ MaxOwed \in Nat /\ owed \in 0..MaxOwed /\ set \in BOOLEAN
      /\ state \in [Task -> SUBSET Bit] /\ rdy = {t \in Task : state[t] = {}}
      /\ match \in [Task -> OS_TICK] /\ Left \in [Task -> 0..W - 1]
      /\ \A t \in Task : Left[t] = Remain(match[t])
      /\ age \in [Task -> -W..W] /\ prev \in [Task -> OS_TICK]
  BY Typed, Widths DEF IInv
<1>6. \A t \in Task : state'[t] = IF t \in due THEN state[t] \ {"DLY", "PEND"} ELSE state[t]
  BY <1>1
<1>7. \A t \in Task \ due : /\ match'[t] = match[t]
                            /\ Left'[t] = IF Left[t] = 0 THEN W - 1 ELSE Left[t] - 1
  <2>1. \A t \in Task \ due : match'[t] = match[t]
    BY <1>1, <1>5 DEF OS_TickListRemove
  <2>2. \A t \in Task \ due : Left'[t] = (match[t] - now) % W
    BY <1>1, <2>1 DEF Left, Remain
  <2> QED BY <1>2, <1>5, <2>1, <2>2
<1>8. \A u \in Task : "DLY" \in state'[u] <=> "DLY" \in state[u] /\ u \notin due
  BY <1>6
<1>9. /\ wheel' \in [Spoke -> Seq(Task)] /\ match' \in [Task -> OS_TICK]
      /\ \A k \in Spoke : Listed(wheel[k], Entries(k))'
      /\ ~set => \A k \in Spoke : SortedBy(wheel'[k], Left')
  <2>1. \A u, v \in Task \ due : Left[u] # 0 /\ Left[u] =< Left[v] => Left'[u] =< Left'[v]
    BY <1>5, <1>7
  <2> QED BY <1>1, <1>4, <1>8, <2>1, RemoveStep
<1>10. rdy' = {t \in Task : state'[t] = {}}
  <2>1. ASSUME NEW t \in Task PROVE t \in rdy' <=> state'[t] = {}
    <3>1. CASE t \in due
      <4>1. state'[t] = {} <=> "SUSPENDED" \notin state[t]
        BY <1>5, <1>6, <3>1 DEF Bit
      <4>2. t \notin rdy
        BY <1>4, <1>5, <3>1
      <4> QED BY <1>1, <3>1, <4>1, <4>2
    <3>2. CASE t \notin due
      BY <1>1, <1>5, <1>6, <3>2
    <3> QED BY <3>1, <3>2
  <2>2. rdy' \subseteq Task
    BY <1>1, <1>4, <1>5
  <2> QED BY <2>1, <2>2
<1>11. state' \in [Task -> SUBSET Bit]
  BY <1>1, <1>5
<1>12. owed' \in 0..MaxOwed
  BY <1>1, <1>5
<1>13. /\ age' \in [Task -> -W..W]
       /\ \A t \in Task : age'[t] = IF age[t] < W /\ ~set THEN age[t] + 1 ELSE W
  <2>1. \A t \in Task : (IF age[t] < W /\ ~set THEN age[t] + 1 ELSE W) \in -W..W
    BY <1>5
  <2> QED BY <1>1, <2>1
<1>14. TypeOK'
  BY <1>1, <1>2, <1>5, <1>9, <1>10, <1>11, <1>12, <1>13 DEF TypeOK, Bit
<1>15. ASSUME ~set, NEW t \in Task, "DLY" \in state'[t] PROVE Left'[t] # 0 /\ Left[t] > 1
  <2>1. t \notin due /\ "DLY" \in state[t] /\ match[t] # now
    BY <1>3, <1>8, <1>15
  <2>2. Left[t] # 0 /\ Left[t] # 1 /\ Left[t] \in 0..W - 1
    BY <1>2, <1>5, <1>15, <2>1 DEF IInv
  <2> QED BY <1>5, <1>7, <2>1, <2>2
<1>16. ASSUME ~set, NEW t \in Task, age'[t] < W PROVE prev'[t] = (ctr' - age'[t]) % W
  <2>1. age[t] \in -W..W - 1 /\ age'[t] = age[t] + 1
    BY <1>5, <1>13, <1>16
  <2>2. prev[t] = (ctr - age[t]) % W
    BY <1>5, <1>16, <2>1 DEF IInv
  <2>3. ctr \in 0..W - 1 /\ 1 \in 0..W - 1
    BY Typed, Widths, SMTT(30) DEF OS_TICK
  <2>4. now = IF ctr + 1 < W THEN ctr + 1 ELSE ctr + 1 - W
    BY <1>5, <2>3, PlusIs DEF now
  <2> DEFINE a == ctr - age[t]
             b == now - age'[t]
  <2>5. /\ a \in Int /\ b \in Int /\ -W =< a /\ a < 2 * W /\ -W =< b /\ b < 2 * W
        /\ b = a \/ b = a - W
    BY <1>5, <1>13, <1>16, <2>1, <2>3, <2>4
  <2> HIDE DEF a, b
  <2>6. /\ a % W = IF a < 0 THEN a + W ELSE IF a < W THEN a ELSE a - W
        /\ b % W = IF b < 0 THEN b + W ELSE IF b < W THEN b ELSE b - W
    BY <1>5, <2>5, ModIs
  <2>7. b % W = a % W
    BY <1>5, <2>5, <2>6
  <2> QED BY <1>1, <2>2, <2>7 DEF a, b
<1>17. IInv'
  BY <1>1, <1>9, <1>10, <1>14, <1>15, <1>16 DEF IInv
<1>18. Maps
  <2>1. CASE set
    BY <1>1, <2>1, OnceSet
  <2>2. CASE ~set
    <3>1. \A t \in Task : Waits'[t] = IF Waits[t] > 0 THEN Waits[t] - 1 ELSE 0
      <4> SUFFICES ASSUME NEW t \in Task
                   PROVE  Waits'[t] = IF Waits[t] > 0 THEN Waits[t] - 1 ELSE 0
        OBVIOUS
      <4>1. /\ Waits[t] = IF "DLY" \in state[t] THEN Left[t] ELSE 0
            /\ Waits'[t] = IF "DLY" \in state'[t] THEN Left'[t] ELSE 0
        BY DEF Waits, Left
      <4>2. Left[t] \in 0..W - 1
        BY <1>5
      <4>3. CASE t \in due
        <5>1. Left[t] = 1 /\ "DLY" \in state[t] /\ "DLY" \notin state'[t]
          BY <1>2, <1>3, <1>5, <1>8, <2>2, <4>3
        <5> QED BY <4>1, <5>1
      <4>4. CASE t \notin due
        <5>1. "DLY" \in state'[t] <=> "DLY" \in state[t]
          BY <1>8, <4>4
        <5>2. CASE "DLY" \in state[t]
          BY <1>5, <1>7, <1>15, <2>2, <4>1, <4>2, <4>4, <5>1, <5>2
        <5>3. CASE "DLY" \notin state[t]
          BY <4>1, <5>1, <5>3
        <5> QED BY <5>2, <5>3
      <4> QED BY <4>3, <4>4
    <3>2. Waits' = [t \in Task |-> IF Waits[t] > 0 THEN Waits[t] - 1 ELSE 0]
      <4>1. Waits' = [t \in Task |-> Waits'[t]]
        BY DEF Waits
      <4> QED BY <3>1, <4>1
    <3>3. age' = [t \in Task |-> Abs!Older(age[t])]
      <4>1. \A t \in Task : age'[t] = Abs!Older(age[t])
        BY <1>5, <1>13, <2>2 DEF Abs!Older
      <4> QED BY <1>1, <4>1
    <3>4. Abs!Tick
      BY <3>2, <3>3 DEF Abs!Tick, Waits
    <3> QED BY <1>1, <2>2, <3>4 DEF Maps, Abs!ANext, Abs!Promised
  <2> QED BY <1>5, <2>1, <2>2
<1> QED BY <1>17, <1>18

LEMMA NextInv == ASSUME TimesAhead PROVE IInv /\ [Next]_vars => IInv' /\ Maps
<1> SUFFICES ASSUME IInv, [Next]_vars PROVE IInv' /\ Maps
  OBVIOUS
<1>1. TickAssumption /\ Dlys \subseteq OS_TICK
  BY DEF TimesAhead, TickAssumption
<1>2. CASE UNCHANGED vars
  <2>1. UNCHANGED <<ctr, wheel, match, prev, age, set, state, rdy, owed>>
    BY <1>2 DEF vars
  <2>2. /\ state' \in [Task -> SUBSET Bit] /\ owed' \in 0..MaxOwed
        /\ rdy' = {t \in Task : state'[t] = {}}
    BY <1>1, <2>1, Typed DEF IInv, TypeOK
  <2> QED BY <1>1, <2>1, <2>2, QuietStep
<1>3. CASE OSTimeTick
  BY <1>1, <1>3, TickInterrupt
<1>4. CASE OS_TickListUpdate
  BY <1>1, <1>4, TickUpdate
<1>5. ASSUME NEW n \in TimeSets, OSTimeSet(n) PROVE IInv' /\ Maps
  BY <1>1, <1>5, TimeIsSet
<1>6. ASSUME NEW t \in Task, NEW n \in Dlys, NEW opt \in Options, OSTimeDly(t, n, opt)
      PROVE  IInv' /\ Maps
  <2>1. n \in OS_TICK
    BY <1>1
  <2> QED BY <1>6, <2>1, DelayStep
<1>7. ASSUME NEW t \in Task, NEW n \in OS_TICK, OSTimeDly(t, n, "MATCH")
      PROVE  IInv' /\ Maps
  <2>1. "MATCH" \in Options
    BY DEF Options
  <2> QED BY <1>7, <2>1, DelayStep
<1>8. ASSUME NEW t \in Task, NEW n \in Dlys \cup {0}, OS_TaskBlock(t, n)
      PROVE  IInv' /\ Maps
  BY <1>1, <1>8, BlockStep
<1>9. ASSUME NEW t \in Task, OS_Post(t) PROVE IInv' /\ Maps
  BY <1>1, <1>9, PostStep
<1>10. ASSUME NEW t \in Task, NEW u \in Task, OSTimeDlyResume(t, u) PROVE IInv' /\ Maps
  BY <1>1, <1>10, ResumeDlyStep
<1>11. ASSUME NEW t \in Task, NEW u \in Task, OS_TaskSuspend(t, u) PROVE IInv' /\ Maps
  BY <1>1, <1>11, SuspendStep
<1>12. ASSUME NEW t \in Task, NEW u \in Task, OS_TaskResume(t, u) PROVE IInv' /\ Maps
  BY <1>1, <1>12, ResumeStep
<1> QED BY <1>2, <1>3, <1>4, <1>5, <1>6, <1>7, <1>8, <1>9, <1>10, <1>11, <1>12 DEF Next

LEMMA InvAgrees == ASSUME TickAssumption PROVE IInv => WheelAgrees
<1> SUFFICES ASSUME IInv PROVE WheelAgrees
  OBVIOUS
<1>1. rdy = {t \in Task : state[t] = {}}
  BY DEF IInv
<1>2. ASSUME NEW t \in Task, NEW k \in Spoke
      PROVE  Cardinality({i \in DOMAIN wheel[k] : wheel[k][i] = t}) =
               IF "DLY" \in state[t] /\ k = match[t] % WheelSize THEN 1 ELSE 0
  <2> DEFINE s == wheel[k]
             P == {i \in DOMAIN s : s[i] = t}
  <2>1. Listed(s, Entries(k))
    BY DEF IInv
  <2>2. s \in Seq(Task) /\ DOMAIN s = 1..Len(s)
    BY <2>1, LenProperties DEF Listed
  <2>3. t \in Entries(k) <=> "DLY" \in state[t] /\ k = match[t] % WheelSize
    BY DEF Entries
  <2> HIDE DEF s
  <2>4. CASE t \in Entries(k)
    <3>1. PICK i \in 1..Len(s) : s[i] = t
      BY <2>1, <2>4 DEF Listed
    <3>2. P = {i}
      BY <2>1, <2>2, <3>1 DEF Listed
    <3>3. Cardinality(P) = 1
      BY <3>2, FS_Singleton
    <3> QED BY <2>3, <2>4, <3>3 DEF s
  <2>5. CASE t \notin Entries(k)
    <3>1. P = {}
      BY <2>1, <2>2, <2>5 DEF Listed
    <3>2. Cardinality(P) = 0
      BY <3>1, FS_EmptySet
    <3> QED BY <2>3, <2>5, <3>2 DEF s
  <2> QED BY <2>4, <2>5
<1> QED BY <1>1, <1>2 DEF WheelAgrees

-----------------------------------------------------------------------------
(* The theorems.                                                           *)

(* A task is in the wheel once, in the spoke of its match time, exactly    *)
(* while its state says that it waits for a time (os_tick.c), and in the   *)
(* ready list exactly while it waits for nothing: whichever of a timeout,  *)
(* a post, a resumption, a suspension and OSTimeSet() comes first.         *)
THEOREM WheelHolds == ASSUME TimesAhead PROVE Spec => []WheelAgrees
<1>1. TickAssumption
  BY DEF TimesAhead
<1>2. (Init => IInv) /\ (IInv => WheelAgrees)
  BY <1>1, InitInv, InvAgrees
<1> QED BY <1>2, NextInv, PTL DEF Spec

(* Delays and timeouts of n ticks end at the n-th tick of the tick task    *)
(* after the call, never before it and never missed, and periodic delays a *)
(* period apart, at every width of OSTickCtr and across its wrap, however  *)
(* many tasks share a spoke, until OSTimeSet() is called.                  *)
THEOREM DelaysEndOnTime == ASSUME TimesAhead PROVE Spec => WakesOnTime
<1>1. TickAssumption
  BY DEF TimesAhead
<1>2. (Init => IInv) /\ (Init => Abs!AInit)
  BY <1>1, InitInv
<1> QED BY <1>2, NextInv, PTL DEF Spec, WakesOnTime, Abs!ASpec, Maps
=============================================================================
