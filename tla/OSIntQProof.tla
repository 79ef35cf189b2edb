---------------------------- MODULE OSIntQProof ----------------------------
(***************************************************************************)
(* Theorems about deferred posts, for every size of the ring and every set *)
(* of tasks.  The inductive invariant says where the entries lie in the    *)
(* ring, that the queue's task works on one that stays there until it is   *)
(* released, who may hold the scheduler's lock, and that OSPrioSaved and   *)
(* the task that ran last can differ only while the queue's task neither   *)
(* runs nor is ready.                                                      *)
(***************************************************************************)
EXTENDS OSIntQ, SequenceTheorems, WellFoundedInduction, TLAPS

(* The slot of the k-th entry, from 0, and the one behind them all.        *)
Place(k) == IF out + k < Size THEN out + k ELSE out + k - Size

Ring ==
  /\ in = Place(nbr)
  /\ \A k \in 0..nbr - 1 : slot[Place(k)] \in Call

(* Between its test of the count and its release of the entry, the task    *)
(* has an entry: the oldest, whatever handlers post meanwhile.             *)
WorksOnEntry ==
  /\ pc \in {"read", "make", "release"} => nbr > 0
  /\ pc \in {"make", "release"} => type = slot[out].type

LockedByRunning ==
  /\ inside \subseteq {cur}
  /\ inside # {} <=> lock > 0

SavedIsLast ==
  /\ cur # IntQTask => app = cur
  /\ listed \/ cur = IntQTask => saved = app

IInv ==
  /\ TypeOK /\ Ring /\ WorksOnEntry
  /\ LockedByRunning /\ SavedIsLast /\ EntriesKeepReady

-----------------------------------------------------------------------------
(* The ring's arithmetic and the scheduler's choice.                       *)

LEMMA Sizes == Size \in Nat /\ Size > 1
  BY IntQAssumption

LEMMA Places ==
  ASSUME out \in Slot, NEW k \in 0..Size
  PROVE  /\ Place(k) \in Slot
         /\ k < Size => Place(k + 1) = NextPtr(Place(k))
         /\ \A j \in 0..Size : j # k /\ j < Size /\ k < Size => Place(j) # Place(k)
         /\ Place(0) = out
         /\ k < Size => (out + k) % Size = Place(k)
  BY Sizes DEF Place, Slot, NextPtr

(* What the task of the queue releases is the first place.                 *)
LEMMA PlacesMove ==
  ASSUME out \in Slot, out' = NextPtr(out), NEW k \in 0..Size - 1
  PROVE  Place(k)' = Place(k + 1)
  BY Sizes DEF Place, Slot, NextPtr

LEMMA Least ==
  ASSUME NEW T \in SUBSET Nat, T # {}
  PROVE  Min(T) \in T
<1>1. PICK m \in T : \A n \in T : ~(<<n, m>> \in OpToRel(<, Nat))
  BY NatLessThanWellFounded, WFMin
<1>2. \A n \in T : ~(n < m)
  BY <1>1 DEF OpToRel
<1>3. \A n \in T : m =< n
  BY <1>2
<1> QED BY <1>3 DEF Min

(* There is always a task to run: the idle task never waits.               *)
LEMMA HighestRunnable ==
  ASSUME TypeOK
  PROVE  /\ Highest \in Thread \cup {IntQTask}
         /\ Highest = IntQTask <=> listed
<1> DEFINE T == Thread \ (waits \cup susp)
<1>1. T \in SUBSET Nat /\ Idle \in T /\ IntQTask \notin T /\ T \subseteq Thread
  BY IntQAssumption DEF TypeOK, Thread, IntQTask
<1>2. Min(T) \in T
  BY <1>1, Least
<1> QED BY <1>1, <1>2 DEF Highest, TypeOK

-----------------------------------------------------------------------------
(* Every step preserves the invariant.                                     *)

LEMMA InitInv == Init => IInv
<1> SUFFICES ASSUME Init PROVE IInv
  OBVIOUS
<1>1. TypeOK
  BY Sizes, IntQAssumption DEF Init, TypeOK, Slot, Types, Thread, IntQTask
<1>2. Ring /\ WorksOnEntry /\ EntriesKeepReady
  BY Sizes DEF Init, Ring, Place, WorksOnEntry, EntriesKeepReady
<1>3. LockedByRunning /\ SavedIsLast
  BY DEF Init, LockedByRunning, SavedIsLast, IntQTask
<1> QED BY <1>1, <1>2, <1>3 DEF IInv

(* Only handlers and the queue's task touch the ring.                      *)
LEMMA RingUnchanged ==
  ASSUME IInv, UNCHANGED <<ring, self>>
  PROVE  Ring' /\ WorksOnEntry' /\ EntriesKeepReady'
BY DEF IInv, Ring, WorksOnEntry, EntriesKeepReady, Place, ring, self

(* A switch keeps what is known of the task that runs, as long as no task  *)
(* is in a critical section.                                               *)
LEMMA SwitchInv ==
  ASSUME IInv, SwitchTo(Highest), lock = 0,
         UNCHANGED <<listed, saved, lock, inside>>
  PROVE  /\ cur' \in Thread \cup {IntQTask} /\ app' \in Thread \cup {IntQTask}
         /\ LockedByRunning' /\ SavedIsLast'
<1>1. Highest \in Thread \cup {IntQTask} /\ (Highest = IntQTask <=> listed)
  BY HighestRunnable DEF IInv
<1>2. cur' \in Thread \cup {IntQTask} /\ app' \in Thread \cup {IntQTask}
  BY <1>1 DEF SwitchTo, IInv, TypeOK
<1>3. LockedByRunning'
  BY DEF IInv, TypeOK, LockedByRunning
<1>4. SavedIsLast'
  BY <1>1 DEF SwitchTo, IInv, SavedIsLast
<1> QED BY <1>2, <1>3, <1>4

LEMMA IntEnterInv ==
  ASSUME IInv, OSIntEnter
  PROVE  IInv'
<1>1. TypeOK'
  BY IntQAssumption DEF OSIntEnter, IInv, TypeOK, ring, self, threads
<1>2. Ring' /\ WorksOnEntry' /\ EntriesKeepReady'
  BY RingUnchanged DEF OSIntEnter
<1>3. LockedByRunning' /\ SavedIsLast'
  BY DEF OSIntEnter, IInv, LockedByRunning, SavedIsLast, self, threads
<1> QED BY <1>1, <1>2, <1>3 DEF IInv

LEMMA IntExitInv ==
  ASSUME IInv, OSIntExit
  PROVE  IInv'
<1>1. Ring' /\ WorksOnEntry' /\ EntriesKeepReady'
  BY RingUnchanged DEF OSIntExit
<1>2. nest' \in 0..MaxNest
  BY IntQAssumption DEF OSIntExit, IInv, TypeOK
<1>3. CASE nest > 1 \/ lock > 0
  <2>1. TypeOK' /\ LockedByRunning' /\ SavedIsLast'
    BY <1>2, <1>3
    DEF OSIntExit, IInv, TypeOK, LockedByRunning, SavedIsLast, ring, self, threads
  <2> QED BY <1>1, <2>1 DEF IInv
<1>4. CASE ~(nest > 1 \/ lock > 0)
  <2>1. lock = 0 /\ SwitchTo(Highest) /\ UNCHANGED <<listed, saved, lock, inside>>
    BY <1>4 DEF OSIntExit, IInv, TypeOK, self, threads
  <2>2. /\ cur' \in Thread \cup {IntQTask} /\ app' \in Thread \cup {IntQTask}
        /\ LockedByRunning' /\ SavedIsLast'
    BY <2>1, SwitchInv
  <2>3. TypeOK'
    BY <1>2, <2>2 DEF OSIntExit, IInv, TypeOK, ring, self, threads
  <2> QED BY <1>1, <2>2, <2>3 DEF IInv
<1> QED BY <1>3, <1>4

LEMMA CriticalEnterInv ==
  ASSUME IInv, NEW p \in Thread, CriticalEnter(p)
  PROVE  IInv'
<1>1. Ring' /\ WorksOnEntry' /\ EntriesKeepReady'
  BY RingUnchanged DEF CriticalEnter
<1>2. TypeOK'
  BY IntQAssumption DEF CriticalEnter, IInv, TypeOK, ring, self
<1>3. LockedByRunning' /\ SavedIsLast'
  BY DEF CriticalEnter, Running, IInv, TypeOK, LockedByRunning, SavedIsLast, self
<1> QED BY <1>1, <1>2, <1>3 DEF IInv

LEMMA CriticalExitInv ==
  ASSUME IInv, NEW p \in Thread, NEW schedule \in BOOLEAN, CriticalExit(p, schedule)
  PROVE  IInv'
<1>1. Ring' /\ WorksOnEntry' /\ EntriesKeepReady'
  BY RingUnchanged DEF CriticalExit
<1>2. p = cur /\ inside = {cur} /\ lock \in 1..MaxLock
  BY IntQAssumption DEF CriticalExit, Running, IInv, TypeOK, LockedByRunning
<1>3. lock' \in 0..MaxLock /\ due' \subseteq Thread /\ inside' \subseteq {cur}
  BY <1>2, IntQAssumption DEF CriticalExit, IInv, TypeOK
<1>4. TypeOK'
  BY <1>2, <1>3 DEF CriticalExit, IInv, TypeOK, ring, self
<1>5. LockedByRunning'
  BY <1>2 DEF CriticalExit, LockedByRunning
<1>6. SavedIsLast'
  BY DEF CriticalExit, IInv, SavedIsLast, self
<1> QED BY <1>1, <1>4, <1>5, <1>6 DEF IInv

LEMMA BlockInv ==
  ASSUME IInv, NEW p \in Thread, Block(p)
  PROVE  IInv'
<1>1. Ring' /\ WorksOnEntry' /\ EntriesKeepReady'
  BY RingUnchanged DEF Block, sched
<1>2. TypeOK'
  BY DEF Block, IInv, TypeOK, Thread, ring, self, sched
<1>3. LockedByRunning' /\ SavedIsLast'
  BY DEF Block, IInv, LockedByRunning, SavedIsLast, self, sched
<1> QED BY <1>1, <1>2, <1>3 DEF IInv

(* OSSched(), of an application task or of the queue's.                    *)
LEMMA OSSchedInv ==
  ASSUME IInv, OSSched, UNCHANGED <<listed, saved, lock, inside>>
  PROVE  /\ cur' \in Thread \cup {IntQTask} /\ app' \in Thread \cup {IntQTask}
         /\ LockedByRunning' /\ SavedIsLast'
<1>1. CASE lock > 0
  BY <1>1 DEF OSSched, IInv, TypeOK, LockedByRunning, SavedIsLast
<1>2. CASE lock = 0
  BY <1>2, SwitchInv DEF OSSched
<1> QED BY <1>1, <1>2 DEF IInv, TypeOK

LEMMA SchedInv ==
  ASSUME IInv, NEW p \in Thread, Sched(p)
  PROVE  IInv'
<1>1. Ring' /\ WorksOnEntry' /\ EntriesKeepReady'
  BY RingUnchanged DEF Sched
<1>2. UNCHANGED <<listed, saved, lock, inside>> /\ OSSched
  BY DEF Sched, self
<1>3. /\ cur' \in Thread \cup {IntQTask} /\ app' \in Thread \cup {IntQTask}
      /\ LockedByRunning' /\ SavedIsLast'
  BY <1>2, OSSchedInv
<1>4. TypeOK'
  BY <1>3 DEF Sched, IInv, TypeOK, ring, self
<1> QED BY <1>1, <1>3, <1>4 DEF IInv

(* A handler's post, also between any two steps of the queue's task.       *)
LEMMA PostInv ==
  ASSUME IInv, NEW c \in Call, OS_IntQPost(c)
  PROVE  IInv'
<1>1. /\ nbr \in 0..Size - 1 /\ nbr' = nbr + 1 /\ in \in Slot /\ in = Place(nbr)
      /\ slot' = [slot EXCEPT ![in] = c] /\ out' = out /\ out \in Slot
      /\ slot \in [Slot -> Calls \cup {NoCall}] /\ in' = NextPtr(in)
  BY Sizes DEF OS_IntQPost, IInv, TypeOK, Ring
<1>2. c \in Calls
  BY IntQAssumption DEF Calls, Types
<1>3. \A k \in 0..Size : Place(k)' = Place(k)
  BY <1>1 DEF Place
<1>4. Ring'
  <2>1. in' = Place(nbr)'
    BY <1>1, <1>3, Places, Sizes DEF Place
  <2>2. ASSUME NEW k \in 0..nbr - 1
        PROVE  Place(k) # in /\ Place(k) \in Slot
    <3>1. k \in 0..Size /\ nbr \in 0..Size /\ k # nbr /\ k < Size /\ nbr < Size
      BY <1>1, Sizes
    <3> QED BY <1>1, <3>1, Places
  <2>3. ASSUME NEW k \in 0..nbr' - 1
        PROVE  slot'[Place(k)'] \in Call
    <3>1. k \in 0..Size /\ Place(k)' = Place(k)
      BY <1>1, <1>3, Sizes
    <3>2. CASE k = nbr
      BY <1>1, <3>1, <3>2
    <3>3. CASE k \in 0..nbr - 1
      BY <1>1, <2>2, <3>1, <3>3 DEF IInv, Ring
    <3> QED BY <1>1, <3>2, <3>3, Sizes
  <2> QED BY <2>1, <2>3 DEF Ring
<1>5. WorksOnEntry'
  <2>1. pc' = pc /\ type' = type
    BY DEF OS_IntQPost
  <2>2. ASSUME pc \in {"make", "release"}
        PROVE  slot'[out'] = slot[out]
    <3>1. nbr > 0 /\ out # in
      BY <1>1, <2>2, Places, Sizes DEF IInv, WorksOnEntry
    <3> QED BY <1>1, <3>1
  <2> QED BY <1>1, <2>1, <2>2 DEF IInv, WorksOnEntry
<1>6. TypeOK'
  <2>1. NextPtr(in) \in Slot
    BY <1>1, Sizes DEF NextPtr, Slot
  <2> QED
    BY <1>1, <1>2, <2>1, Sizes DEF OS_IntQPost, IInv, TypeOK, threads
<1>7. LockedByRunning' /\ SavedIsLast' /\ EntriesKeepReady'
  BY DEF OS_IntQPost, IInv, LockedByRunning, SavedIsLast, EntriesKeepReady, threads
<1> QED BY <1>4, <1>5, <1>6, <1>7 DEF IInv

LEMMA PostFullInv ==
  ASSUME IInv, OS_IntQPostFull
  PROVE  IInv'
BY DEF OS_IntQPostFull, IInv, TypeOK, Ring, Place, WorksOnEntry, LockedByRunning,
       SavedIsLast, EntriesKeepReady, self, threads, sched

LEMMA TestInv ==
  ASSUME IInv, OS_IntQTaskTest
  PROVE  IInv'
<1>1. nbr \in Nat /\ IntQTaskAt("test")
  BY DEF OS_IntQTaskTest, IInv, TypeOK
<1>2. TypeOK'
  BY DEF OS_IntQTaskTest, IInv, TypeOK, ring, threads, sched
<1>3. Ring' /\ WorksOnEntry'
  BY <1>1 DEF OS_IntQTaskTest, IInv, Ring, Place, WorksOnEntry, ring
<1>4. EntriesKeepReady'
  BY Zenon DEF OS_IntQTaskTest, EntriesKeepReady, ring
<1>5. LockedByRunning' /\ SavedIsLast'
  BY <1>1
  DEF OS_IntQTaskTest, IntQTaskAt, Running, IInv, LockedByRunning, SavedIsLast, threads, sched
<1> QED BY <1>2, <1>3, <1>4, <1>5 DEF IInv

LEMMA TaskSchedInv ==
  ASSUME IInv, OS_IntQTaskSched
  PROVE  IInv'
<1>1. Ring' /\ WorksOnEntry' /\ EntriesKeepReady'
  BY DEF OS_IntQTaskSched, IInv, Ring, Place, WorksOnEntry, EntriesKeepReady, ring
<1>2. OSSched /\ UNCHANGED <<listed, saved, lock, inside>>
  BY DEF OS_IntQTaskSched, threads
<1>3. /\ cur' \in Thread \cup {IntQTask} /\ app' \in Thread \cup {IntQTask}
      /\ LockedByRunning' /\ SavedIsLast'
  BY <1>2, OSSchedInv
<1>4. TypeOK'
  BY <1>3 DEF OS_IntQTaskSched, IInv, TypeOK, ring, threads
<1> QED BY <1>1, <1>3, <1>4 DEF IInv

(* The oldest entry, while there is one.                                   *)
LEMMA Oldest ==
  ASSUME IInv, nbr > 0
  PROVE  /\ slot[out] \in Call /\ slot[out] \in Calls
         /\ slot[out].type \in Types /\ slot[out].obj \in App
<1>1. nbr \in 0..Size /\ out \in Slot /\ 0 \in 0..nbr - 1 /\ Place(0) = out
  BY Places, Sizes DEF IInv, TypeOK
<1>2. slot[out] \in Call
  BY <1>1 DEF IInv, Ring
<1> QED BY <1>2, IntQAssumption DEF Calls, Types

LEMMA RePostTypeInv ==
  ASSUME IInv, OS_IntQRePostType
  PROVE  IInv'
<1>1. nbr > 0 /\ slot[out].type \in Types
  BY Oldest DEF OS_IntQRePostType, IntQTaskAt, IInv, WorksOnEntry
<1>2. TypeOK'
  BY <1>1 DEF OS_IntQRePostType, IInv, TypeOK, ring, threads, sched
<1>3. Ring' /\ WorksOnEntry' /\ EntriesKeepReady'
  BY <1>1
  DEF OS_IntQRePostType, IInv, Ring, Place, WorksOnEntry, EntriesKeepReady, ring
<1>4. LockedByRunning' /\ SavedIsLast'
  BY DEF OS_IntQRePostType, IInv, LockedByRunning, SavedIsLast, threads, sched
<1> QED BY <1>2, <1>3, <1>4 DEF IInv

(* Handlers have posted between the read of the type and the call: it is   *)
(* still the oldest entry that is made, whole.                             *)
LEMMA RePostInv ==
  ASSUME IInv, OS_IntQRePost
  PROVE  IInv' /\ last' = slot[out]
<1>1. nbr > 0 /\ type = slot[out].type
  BY DEF OS_IntQRePost, IntQTaskAt, IInv, WorksOnEntry
<1>2. slot[out] \in Calls /\ slot[out].obj \in App
  BY <1>1, Oldest
<1>3. last' = slot[out]
  BY <1>1, <1>2 DEF OS_IntQRePost, Calls
<1>4. TypeOK'
  <2>1. last' \in Calls
    BY <1>2, <1>3
  <2>2. waits' \subseteq App /\ susp' \subseteq App
    BY <1>2 DEF OS_IntQRePost, IInv, TypeOK
  <2> QED BY <2>1, <2>2 DEF OS_IntQRePost, IInv, TypeOK, ring, sched
<1>5. Ring' /\ WorksOnEntry' /\ EntriesKeepReady'
  BY <1>1 DEF OS_IntQRePost, IInv, Ring, Place, WorksOnEntry, EntriesKeepReady, ring
<1>6. LockedByRunning' /\ SavedIsLast'
  BY DEF OS_IntQRePost, IInv, LockedByRunning, SavedIsLast, sched
<1> QED BY <1>3, <1>4, <1>5, <1>6 DEF IInv

LEMMA ReleaseInv ==
  ASSUME IInv, OS_IntQTaskRelease
  PROVE  IInv'
<1>1. /\ nbr \in 1..Size /\ nbr' = nbr - 1 /\ out \in Slot /\ out' = NextPtr(out)
      /\ slot' = slot /\ in' = in /\ IntQTaskAt("release")
  BY Sizes DEF OS_IntQTaskRelease, IntQTaskAt, IInv, TypeOK, WorksOnEntry
<1>2. \A k \in 0..Size - 1 : Place(k)' = Place(k + 1)
  BY <1>1, PlacesMove
<1>3. Ring'
  <2>1. nbr' \in 0..Size - 1 /\ nbr' + 1 = nbr
    BY <1>1, Sizes
  <2>2. in' = Place(nbr)'
    BY <1>1, <2>1, Sizes DEF IInv, Ring, Place, NextPtr, Slot
  <2>3. ASSUME NEW k \in 0..nbr' - 1
        PROVE  slot'[Place(k)'] \in Call
    <3>1. k \in 0..Size - 1 /\ k + 1 \in 0..nbr - 1
      BY <1>1, <2>1, Sizes
    <3> QED BY <1>1, <1>2, <3>1 DEF IInv, Ring
  <2> QED BY <2>2, <2>3 DEF Ring
<1>4. NextPtr(out) \in Slot
  BY <1>1, Sizes DEF NextPtr, Slot
<1>5. TypeOK'
  BY <1>1, <1>4, Sizes DEF OS_IntQTaskRelease, IInv, TypeOK, threads, sched
<1>6. WorksOnEntry' /\ EntriesKeepReady'
  BY <1>1 DEF OS_IntQTaskRelease, IInv, WorksOnEntry, EntriesKeepReady
<1>7. LockedByRunning' /\ SavedIsLast'
  BY DEF OS_IntQTaskRelease, IInv, LockedByRunning, SavedIsLast, threads, sched
<1> QED BY <1>3, <1>5, <1>6, <1>7 DEF IInv

LEMMA NextInv ==
  ASSUME IInv, [Next]_vars
  PROVE  IInv'
<1>1. CASE OSIntEnter \/ OSIntExit
  BY <1>1, IntEnterInv, IntExitInv
<1>2. CASE ISR
  BY <1>2, PostInv, PostFullInv DEF ISR
<1>3. CASE OS_IntQTask
  BY <1>3, TestInv, TaskSchedInv, RePostTypeInv, RePostInv, ReleaseInv DEF OS_IntQTask
<1>4. ASSUME NEW p \in Thread, AppTask(p)
      PROVE  IInv'
  BY <1>4, CriticalEnterInv, CriticalExitInv, BlockInv, SchedInv DEF AppTask
<1>5. CASE UNCHANGED vars
  BY <1>5
  DEF vars, ring, self, threads, sched, IInv, TypeOK, Ring, Place, WorksOnEntry,
      LockedByRunning, SavedIsLast, EntriesKeepReady
<1> QED BY <1>1, <1>2, <1>3, <1>4, <1>5 DEF Next

LEMMA Invariance == Spec => []IInv
BY InitInv, NextInv, PTL DEF Spec

-----------------------------------------------------------------------------
(* The safety of deferred posts.                                           *)

(* Every variable keeps its type, whatever handlers post and interrupt: in *)
(* particular there is always a task that OSSched() can switch to.         *)
THEOREM TypeCorrect == Spec => []TypeOK
BY Invariance, PTL DEF IInv

(* OS_IntQPost() and OS_IntQTask() keep the queue's task in the ready list *)
(* as long as there is an entry.                                           *)
THEOREM EntriesAreServed == Spec => []EntriesKeepReady
BY Invariance, PTL DEF IInv

(* With interrupts enabled in critical sections, the lock of the scheduler *)
(* alone keeps the queue's task out of them.                               *)
THEOREM OneUserOfTables == Spec => []OneInKernel
<1>1. IInv => OneInKernel
  BY DEF IInv, LockedByRunning, OneInKernel
<1> QED BY <1>1, Invariance, PTL

(* The priority that OS_IntQPost() saves is that of the task that ran last *)
(* before the queue's task, so OS_SchedRoundRobin() is given its list.     *)
THEOREM SliceIsAccounted == Spec => []SliceOfPreempted
<1>1. IInv => SliceOfPreempted
  BY DEF IInv, TypeOK, EntriesKeepReady, SavedIsLast, SliceOfPreempted
<1> QED BY <1>1, Invariance, PTL

-----------------------------------------------------------------------------
(* The calls are made in the order of the posts.                           *)

(* One entry of those in the ring has been made.                           *)
Made == IF pc = "release" THEN 1 ELSE 0

(* The calls in n places of a ring s from o on, but for the first m.       *)
Entries(s, o, n, m) == [i \in 1..n - m |-> s[(o + m + i - 1) % Size]]

LEMMA BacklogEntries ==
  /\ Backlog = Entries(slot, out, nbr, Made)
  /\ Backlog' = Entries(slot', out', nbr', Made')
BY DEF Backlog, Entries, Made

LEMMA EntriesAre ==
  ASSUME NEW s, NEW o \in Slot, NEW n \in 0..Size, NEW m \in 0..1, m =< n
  PROVE  \A k \in m..n - 1 :
           /\ k - m + 1 \in 1..n - m
           /\ Entries(s, o, n, m)[k - m + 1]
                = s[IF o + k < Size THEN o + k ELSE o + k - Size]
<1> SUFFICES ASSUME NEW k \in m..n - 1
             PROVE  /\ k - m + 1 \in 1..n - m
                    /\ Entries(s, o, n, m)[k - m + 1]
                         = s[IF o + k < Size THEN o + k ELSE o + k - Size]
  OBVIOUS
<1>1. k - m + 1 \in 1..n - m /\ o + m + (k - m + 1) - 1 = o + k
  BY Sizes DEF Slot
<1>2. (o + k) % Size = IF o + k < Size THEN o + k ELSE o + k - Size
  BY Sizes DEF Slot
<1> QED BY <1>1, <1>2 DEF Entries

(* What is kept of the state of the ring for the proofs of the steps.      *)
LEMMA BacklogIs ==
  ASSUME IInv
  PROVE  /\ Made \in 0..1 /\ Made =< nbr /\ nbr \in 0..Size /\ out \in Slot
         /\ Backlog \in Seq(Calls) /\ Len(Backlog) = nbr - Made
         /\ \A k \in Made..nbr - 1 : Backlog[k - Made + 1] = slot[Place(k)]
<1>1. Made \in 0..1 /\ Made =< nbr /\ nbr \in 0..Size /\ out \in Slot
  BY Sizes DEF IInv, TypeOK, WorksOnEntry, Made
<1>2. \A k \in Made..nbr - 1 : Backlog[k - Made + 1] = slot[Place(k)]
  BY <1>1, BacklogEntries, EntriesAre DEF Place
<1>3. \A i \in 1..nbr - Made : Backlog[i] \in Calls
  <2> SUFFICES ASSUME NEW i \in 1..nbr - Made
               PROVE  Backlog[i] \in Calls
    OBVIOUS
  <2>1. i + Made - 1 \in Made..nbr - 1 /\ (i + Made - 1) - Made + 1 = i
        /\ i + Made - 1 \in 0..nbr - 1
    BY <1>1, Sizes
  <2>2. slot[Place(i + Made - 1)] \in Call
    BY <2>1 DEF IInv, Ring
  <2> QED BY <1>2, <2>1, <2>2, IntQAssumption DEF Calls, Types
<1>4. Backlog = [i \in 1..nbr - Made |-> Backlog[i]]
  BY DEF Backlog, Made
<1>5. nbr - Made \in Nat
  BY <1>1, Sizes
<1>6. Backlog \in [1..nbr - Made -> Calls]
  BY <1>3, <1>4
<1>7. Backlog \in Seq(Calls) /\ Len(Backlog) = nbr - Made
  BY <1>5, <1>6
<1> QED BY <1>1, <1>2, <1>7

LEMMA PostAppends ==
  ASSUME IInv, NEW c \in Call, OS_IntQPost(c)
  PROVE  Abs!APost(c)
<1>1. /\ nbr \in 0..Size - 1 /\ nbr' = nbr + 1 /\ in = Place(nbr) /\ out' = out
      /\ slot' = [slot EXCEPT ![in] = c] /\ in \in Slot
      /\ slot \in [Slot -> Calls \cup {NoCall}] /\ out \in Slot /\ pc' = pc
      /\ err' = "NONE" /\ last' = last
  BY Sizes DEF OS_IntQPost, IInv, TypeOK, Ring
<1>2. /\ Made \in 0..1 /\ Made =< nbr /\ Backlog \in Seq(Calls) /\ Len(Backlog) = nbr - Made
      /\ \A k \in Made..nbr - 1 : Backlog[k - Made + 1] = slot[Place(k)]
  BY BacklogIs
<1>3. Made' = Made /\ c \in Calls
  BY <1>1, IntQAssumption DEF Made, Calls, Types
<1>4. \A k \in Made..nbr : Backlog'[k - Made + 1] = slot'[Place(k)]
  <2>1. nbr' \in 0..Size /\ out' \in Slot /\ Made' \in 0..1 /\ Made' =< nbr'
    BY <1>1, <1>2, <1>3, Sizes
  <2>2. \A k \in Made'..nbr' - 1 : Backlog'[k - Made' + 1] = slot'[Place(k)']
    BY <2>1, BacklogEntries, EntriesAre DEF Place
  <2>3. Made'..nbr' - 1 = Made..nbr
    BY <1>1, <1>2, <1>3, Sizes
  <2> QED BY <1>1, <1>3, <2>2, <2>3 DEF Place
<1>5. \A i \in 1..nbr + 1 - Made : Backlog'[i] = Append(Backlog, c)[i]
  <2> SUFFICES ASSUME NEW i \in 1..nbr + 1 - Made
               PROVE  Backlog'[i] = Append(Backlog, c)[i]
    OBVIOUS
  <2> DEFINE k == i + Made - 1
  <2>1. k \in Made..nbr /\ k - Made + 1 = i
    BY <1>1, <1>2, Sizes
  <2>2. CASE k = nbr
    <3>1. Backlog'[i] = c
      BY <1>1, <1>4, <2>1, <2>2
    <3>2. i = Len(Backlog) + 1
      BY <1>1, <1>2, <2>2, Sizes
    <3> QED BY <1>2, <1>3, <3>1, <3>2
  <2>3. CASE k # nbr
    <3>1. k \in 0..Size /\ nbr \in 0..Size /\ k < Size /\ nbr < Size /\ k \in Made..nbr - 1
      BY <1>1, <1>2, <2>1, <2>3, Sizes
    <3>2. Place(k) # in
      BY <1>1, <2>3, <3>1, Places
    <3>3. slot'[Place(k)] = slot[Place(k)]
      BY <1>1, <3>1, <3>2, Places
    <3>4. Backlog'[i] = Backlog[i]
      BY <1>2, <1>4, <2>1, <3>1, <3>3
    <3>5. i \in 1..Len(Backlog)
      BY <1>1, <1>2, <2>1, <3>1, Sizes
    <3> QED BY <1>2, <1>3, <3>4, <3>5
  <2> QED BY <2>2, <2>3
<1>6. Backlog' = Append(Backlog, c)
  <2>1. Backlog' = [i \in 1..nbr + 1 - Made |-> Backlog'[i]]
    <3>1. Backlog' = [i \in 1..nbr' - Made' |-> Backlog'[i]]
      BY BacklogEntries DEF Entries
    <3>2. nbr' - Made' = nbr + 1 - Made
      BY <1>1, <1>2, <1>3
    <3> QED BY <3>1, <3>2, Zenon
  <2>2. Append(Backlog, c) = [i \in 1..nbr + 1 - Made |-> Append(Backlog, c)[i]]
    <3>1. /\ Append(Backlog, c) \in Seq(Calls)
          /\ Len(Append(Backlog, c)) = nbr - Made + 1 /\ nbr - Made + 1 = nbr + 1 - Made
      BY <1>1, <1>2, <1>3, AppendProperties
    <3> QED BY <3>1, LenProperties
  <2> QED BY <1>5, <2>1, <2>2
<1>7. Abs!Held < Size
  BY <1>1, <1>2, Sizes DEF Abs!Held, Made
<1> QED BY <1>1, <1>6, <1>7 DEF Abs!APost

LEMMA FullRefuses ==
  ASSUME IInv, OS_IntQPostFull
  PROVE  Abs!ARefuse
<1>1. Abs!Held = Size
  BY BacklogIs, Sizes DEF OS_IntQPostFull, Abs!Held, Made
<1>2. Backlog' = Backlog
  BY DEF OS_IntQPostFull, Backlog, self
<1> QED BY <1>1, <1>2 DEF OS_IntQPostFull, Abs!ARefuse, self

LEMMA RePostMakes ==
  ASSUME IInv, OS_IntQRePost
  PROVE  Abs!AMake
<1>1. /\ pc = "make" /\ pc' = "release" /\ Made = 0 /\ Made' = 1
      /\ slot' = slot /\ out' = out /\ nbr' = nbr /\ err' = err /\ nbr > 0
  BY DEF OS_IntQRePost, IntQTaskAt, Made, ring, IInv, WorksOnEntry
<1>2. /\ nbr \in 1..Size /\ out \in Slot /\ Backlog \in Seq(Calls) /\ Len(Backlog) = nbr
      /\ \A k \in 0..nbr - 1 : Backlog[k + 1] = slot[Place(k)]
  BY <1>1, BacklogIs
<1>3. \A k \in 1..nbr - 1 : Backlog'[k] = slot[Place(k)]
  BY <1>1, <1>2, BacklogEntries, EntriesAre DEF Place
<1>4. Head(Backlog) = slot[out] /\ Backlog # << >>
  BY <1>2, Places
<1>5. Backlog' = Tail(Backlog)
  <2>1. Backlog' = [i \in 1..nbr - 1 |-> Backlog'[i]]
    BY <1>1, BacklogEntries DEF Entries
  <2>2. Tail(Backlog) = [i \in 1..nbr - 1 |-> Backlog[i + 1]]
    <3>1. Tail(Backlog) \in [1..nbr - 1 -> Calls]
      BY <1>2, <1>4, HeadTailProperties, LenProperties
    <3> QED BY <1>2, <1>4, <3>1, HeadTailProperties
  <2> QED BY <1>2, <1>3, <2>1, <2>2
<1>6. last' = slot[out]
  BY RePostInv
<1> QED BY <1>1, <1>4, <1>5, <1>6 DEF Abs!AMake

LEMMA ReleaseFinishes ==
  ASSUME IInv, OS_IntQTaskRelease
  PROVE  Abs!ADone
<1>1. /\ pc = "release" /\ pc' = "test" /\ Made = 1 /\ Made' = 0
      /\ slot' = slot /\ out' = NextPtr(out) /\ nbr' = nbr - 1
      /\ err' = err /\ last' = last
  BY DEF OS_IntQTaskRelease, IntQTaskAt, Made
<1>2. /\ nbr \in 1..Size /\ out \in Slot
      /\ \A k \in 1..nbr - 1 : Backlog[k] = slot[Place(k)]
  BY <1>1, BacklogIs, Sizes
<1>3. out' \in Slot /\ nbr' \in 0..Size /\ nbr' \in 0..Size - 1
  BY <1>1, <1>2, Sizes DEF NextPtr, Slot
<1>4. \A k \in 0..nbr' - 1 : Backlog'[k + 1] = slot[Place(k)']
  BY <1>1, <1>3, BacklogEntries, EntriesAre DEF Place
<1>5. \A k \in 0..nbr' - 1 : Place(k)' = Place(k + 1)
  BY <1>1, <1>2, <1>3, PlacesMove, Sizes
<1>6. \A i \in 1..nbr - 1 : Backlog'[i] = Backlog[i]
  <2> SUFFICES ASSUME NEW i \in 1..nbr - 1
               PROVE  Backlog'[i] = Backlog[i]
    OBVIOUS
  <2>1. i - 1 \in 0..nbr' - 1 /\ (i - 1) + 1 = i
    BY <1>1, <1>2, Sizes
  <2> QED BY <1>2, <1>4, <1>5, <2>1
<1>7. Backlog' = Backlog
  <2>1. Backlog' = [i \in 1..nbr - 1 |-> Backlog'[i]]
    BY <1>1, <1>2, BacklogEntries, Sizes DEF Entries
  <2>2. Backlog = [i \in 1..nbr - 1 |-> Backlog[i]]
    BY <1>1, BacklogEntries DEF Entries
  <2> QED BY <1>6, <2>1, <2>2
<1> QED BY <1>1, <1>7 DEF Abs!ADone

(* No other step moves an entry.                                           *)
LEMMA NothingMoves ==
  ASSUME UNCHANGED <<ring, last>>, Made' = Made, (pc' = "release") = (pc = "release")
  PROVE  UNCHANGED Abs!avars
<1>1. Backlog' = Backlog
  BY BacklogEntries DEF ring
<1> QED BY <1>1 DEF Abs!avars, ring

LEMMA StepMaps ==
  ASSUME IInv, [Next]_vars
  PROVE  [Abs!ANext]_Abs!avars
<1>1. CASE ISR
  BY <1>1, PostAppends, FullRefuses DEF ISR, Abs!ANext
<1>2. CASE OS_IntQRePost
  BY <1>2, RePostMakes DEF Abs!ANext
<1>3. CASE OS_IntQTaskRelease
  BY <1>3, ReleaseFinishes DEF Abs!ANext
<1>4. CASE OS_IntQTaskTest \/ OS_IntQTaskSched \/ OS_IntQRePostType
  <2>1. UNCHANGED <<ring, last>> /\ pc # "release" /\ pc' # "release"
    BY <1>4
    DEF OS_IntQTaskTest, OS_IntQTaskSched, OS_IntQRePostType, IntQTaskAt
  <2> QED BY <2>1, NothingMoves DEF Made
<1>5. CASE OSIntEnter \/ OSIntExit \/ UNCHANGED vars
  <2>1. UNCHANGED <<ring, last>> /\ pc' = pc
    BY <1>5 DEF OSIntEnter, OSIntExit, self, vars
  <2> QED BY <2>1, NothingMoves DEF Made
<1>6. ASSUME NEW p \in Thread, AppTask(p)
      PROVE  UNCHANGED Abs!avars
  <2>1. UNCHANGED <<ring, last>> /\ pc' = pc
    BY <1>6 DEF AppTask, CriticalEnter, CriticalExit, Block, Sched, self
  <2> QED BY <2>1, NothingMoves DEF Made
<1> QED BY <1>1, <1>2, <1>3, <1>4, <1>5, <1>6 DEF Next, OS_IntQTask

(* The safety of ImplementsAbs: OS_IntQPost(), OS_IntQRePost() and         *)
(* OS_IntQTask() make every call that was accepted once, whole and in the  *)
(* order of the posts, and refuse one only when the ring is full.          *)
THEOREM DeferredInOrder == Spec => Abs!AInit /\ [][Abs!ANext]_Abs!avars
<1>1. Init => Abs!AInit
  BY DEF Init, Abs!AInit, Backlog
<1>2. IInv /\ [Next]_vars => [Abs!ANext]_Abs!avars
  BY StepMaps
<1> QED BY <1>1, <1>2, Invariance, PTL DEF Spec
=============================================================================
