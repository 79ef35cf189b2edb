--------------------------- MODULE OSObjectsProof ---------------------------
(***************************************************************************)
(* Theorems about message queues and event flags: the invariants of        *)
(* OSObjects, and the refinement of AbsQ, hold for every set of tasks,     *)
(* groups, queues, flags, messages and requests.                           *)
(*                                                                         *)
(* A task that is suspended while it waits for flags with a timeout leaves *)
(* OS_FlagTaskRdy() in the tick list without a wait to end, which no table *)
(* invariant survives: the theorems are about applications that suspend no *)
(* task.  They delete what a task is in a call on only if they create it   *)
(* no more (Orderly): otherwise the new object's list may have been emptied*)
(* with a task in it.                                                      *)
(***************************************************************************)
EXTENDS OSObjects, OSKernelProof

NeverSuspends == "suspend" \notin Uses

(* What a task waits for is what it asked for: the request of a pend on    *)
(* flags lasts until the pend returns, and a pend on a queue has none.     *)
WantsAgree ==
  \A t \in Task :
    /\ want[t] \in Wants \cup {NoWant}
    /\ os.pendObj[t] \in Grp => want[t] # NoWant /\ want[t].grp = os.pendObj[t]
    /\ os.pendObj[t] \in Queue => want[t] = NoWant
    /\ ~InPend(t) => want[t] = NoWant

(* Only a post of a message walks its pend list in a loop of the kernel.   *)
PostsAreToQueues == crit.op = "post" => crit.obj \in Queue

(* A step of a call whose test of the object's Type was passed.            *)
SameCalls == CallsAgree' /\ UNCHANGED gone

OInv ==
  /\ KInv /\ Places /\ NobodySuspended
  /\ TypeOK /\ msgs \in [Queue -> Seq(Msg)]
  /\ WantsAgree /\ PostsAreToQueues /\ CallsAgree /\ LostAreEmpty
  /\ NoMessageWaits /\ OkMeansEnough

-----------------------------------------------------------------------------
(* What the calls do to the kernel's tables.                               *)

LEMMA CallTypes == CallsAgree => CallTypeOK /\ Lost \subseteq Obj
  BY DEF CallsAgree, CallTypeOK, Lost

LEMMA LostStay ==
  ASSUME LostAreEmpty, UNCHANGED <<os, gone>> PROVE LostAreEmpty'
  BY DEF Lost, LostAreEmpty

LEMMA Kinds ==
  /\ Grp \subseteq Obj /\ Queue \subseteq Obj /\ NoObj \notin Obj
  /\ \A o \in Obj : o \in Grp <=> o \notin Queue
  /\ NoWant \notin Wants
  BY CoreAssumption, FlagAssumption, QAssumption, ObjectsAssumption DEF NoWant, Request

LEMMA RunningAlone ==
  ASSUME OInv, NEW t \in Task, Running(t)
  PROVE  /\ os.cur = t /\ t # Idle /\ os.state[t] = {} /\ pc[t] = "run"
         /\ os.pendObj[t] = NoObj /\ ~InPend(t) /\ want[t] = NoWant
         /\ crit = Free /\ crit.op = "none" /\ nest = 0
<1>1. os.cur = t /\ t # Idle /\ os.state[t] = {} /\ pc[t] = "run" /\ crit = Free /\ nest = 0
  BY RunningReady DEF OInv, Running
<1>2. ~InPend(t) /\ crit.op = "none"
  BY <1>1 DEF InPend, Free
<1> QED BY <1>1, <1>2 DEF OInv, Places, WantsAgree

(* A pend that blocks.                                                     *)
LEMMA BlockDoes ==
  ASSUME OInv, NEW t \in Task, NEW s \in Obj \ Lost, NEW kind \in {"FLAG", "Q"},
         NEW timeout \in Timeouts, Running(t), lock = 0,
         os' = OS_Pend(os, s, kind, timeout), Goto(t, "pend"),
         UNCHANGED <<nest, lock, crit>>, UNCHANGED gone
  PROVE  /\ KInv' /\ Places' /\ NobodySuspended' /\ LostAreEmpty' /\ InPend(t)'
         /\ \A u \in Task \ {t} : InPend(u)' <=> InPend(u)
         /\ os'.pendObj = [os.pendObj EXCEPT ![t] = s]
         /\ os'.pendStatus = [os.pendStatus EXCEPT ![t] = "OK"]
         /\ \A q \in Obj \ {s} : os'.pend[q] = os.pend[q]
<1>1. /\ os.cur = t /\ t # Idle /\ os.state[t] = {} /\ Good(os)
      /\ timeout \in 0..MaxDly /\ kind \in PendKind \ {"NOTHING"} /\ s \in Obj
      /\ crit.op = "none"
  BY RunningAlone, CoreAssumption DEF Timeouts, OInv, KInv, PendKind
<1> DEFINE bits == IF timeout > 0 THEN {"DLY", "PEND"} ELSE {"PEND"}
<1>2. /\ Good(os') /\ Blocks(os, os', t, bits)
      /\ os'.pendObj = [os.pendObj EXCEPT ![t] = s]
      /\ os'.pendStatus = [os.pendStatus EXCEPT ![t] = "OK"]
      /\ \A q \in Obj \ {s} : os'.pend[q] = os.pend[q]
  BY <1>1, PendBlocks
<1>3. "SUSPENDED" \notin bits
  OBVIOUS
<1> HIDE DEF bits
<1>4. os'.cur = os.cur /\ os'.state = [os.state EXCEPT ![t] = bits]
  BY <1>2 DEF Blocks
<1>5. KInv'
  BY <1>2, <1>4, CallInv DEF OInv
<1>6. NobodySuspended'
  BY <1>3, <1>4, FewerBits DEF OInv
<1>7. /\ pc \in [Task -> Where] /\ pc' = [pc EXCEPT ![t] = "pend"]
      /\ os.pendObj \in [Task -> Obj \cup {NoObj}]
  BY DEF Goto, OInv, KInv, KTypeOK, TCBTables
<1>8. InPend(t)' /\ \A u \in Task \ {t} : InPend(u)' <=> InPend(u)
  BY <1>7 DEF InPend
<1>9. Places'
  BY <1>1, <1>2, <1>7, <1>8 DEF Places, OInv
<1>10. LostAreEmpty'
  <2>1. Lost \subseteq Obj /\ Lost' = Lost
    BY CallTypes DEF Lost, OInv
  <2> QED BY <1>2, <2>1 DEF LostAreEmpty, OInv
<1> QED BY <1>2, <1>5, <1>6, <1>8, <1>9, <1>10

(* The return from a pend.                                                 *)
LEMMA ReturnDoes ==
  ASSUME OInv, NEW t \in Task, os.cur = t, pc[t] = "wake", nest = 0, crit = Free,
         Goto(t, "run"), UNCHANGED <<os, nest, lock, crit>>
  PROVE  /\ KInv' /\ Places' /\ NobodySuspended' /\ PostsAreToQueues'
         /\ os.state[t] = {} /\ os.pendObj[t] = NoObj /\ ~InPend(t)'
         /\ InPend(t) /\ \A u \in Task \ {t} : InPend(u)' <=> InPend(u)
<1>1. /\ pc \in [Task -> Where] /\ pc' = [pc EXCEPT ![t] = "run"] /\ crit.op = "none"
  BY DEF Goto, Free, OInv, KInv, KTypeOK
<1>2. KTypeOK'
  BY <1>1 DEF OInv, KInv, KTypeOK, Where
<1>3. TickTaskRuns' /\ RunningIsReady' /\ LockedIsReady' /\ LoopsEnd'
  BY <1>1 DEF OInv, KInv, TickTaskRuns, RunningIsReady, LockedIsReady, LoopsEnd
<1>4. os.state[t] = {} /\ os.pendObj[t] = NoObj
  BY DEF OInv, KInv, RunningIsReady, Good, PendAgrees
<1>5. /\ ~InPend(t)' /\ InPend(t) /\ \A u \in Task \ {t} : InPend(u)' <=> InPend(u)
  BY <1>1 DEF InPend
<1>6. Places'
  BY <1>1, <1>4, <1>5 DEF Places, OInv
<1> QED
  BY <1>1, <1>2, <1>3, <1>4, <1>5, <1>6
  DEF OInv, KInv, NobodySuspended, PostsAreToQueues

(* A deletion that ends the waits for o.                                   *)
LEMMA DeleteDoes ==
  ASSUME OInv, NEW t \in Task, NEW o \in Obj, PendListDel(t, o, "ALWAYS")
  PROVE  /\ KInv' /\ Places' /\ NobodySuspended' /\ PostsAreToQueues'
         /\ SamePlaces /\ crit' = Free
         /\ Told(os, os', "DEL", o, Waiters(os, o)) /\ os'.pend[o] = << >>
<1>1. /\ Running(t) /\ UNCHANGED <<nest, lock, crit>> /\ Goto(t, "sched")
      /\ os' = FoldLeft(OS_PendObjDel, os, os.pend[o])
  BY DEF PendListDel, Delete, Within
<1>2. os.cur = t /\ pc[t] = "run" /\ crit = Free /\ crit.op = "none"
  BY <1>1, RunningAlone
<1>3. Told(os, os', "DEL", o, Waiters(os, o)) /\ os'.pend[o] = << >>
  BY <1>1, AllAreTold DEF OInv, KInv
<1>4. Waiters(os, o) \in SUBSET Waiters(os, o)
  OBVIOUS
<1>5. KInv' /\ Places' /\ NobodySuspended' /\ SamePlaces
  BY <1>1, <1>2, <1>3, <1>4, TellsInv DEF OInv
<1> QED BY <1>1, <1>2, <1>3, <1>5 DEF PostsAreToQueues

(* A post of flags: what the group holds then, and the waiters it wakes.   *)
FlagsAfter(g, mask, op) == IF op = "SET" THEN flags[g] \cup mask ELSE flags[g] \ mask

Answered(g, set) == {t \in Waiters(os, g) : Satisfied(want[t], set)}

LEMMA FlagPostDoes ==
  ASSUME OInv, NEW g \in Grp, NEW mask \in Masks, NEW op \in {"SET", "CLR"},
         NEW opt \in Options, OSFlagPost(g, mask, op, opt)
  PROVE  LET set == FlagsAfter(g, mask, op)
             W   == Answered(g, set)
         IN  /\ KInv' /\ Places' /\ NobodySuspended' /\ PostsAreToQueues'
             /\ SamePlaces /\ Told(os, os', "OK", g, W)
             /\ set \subseteq Flag /\ flags' = [flags EXCEPT ![g] = set]
             /\ flagsRdy' = [t \in Task |-> IF t \in W THEN Matching(want[t], set)
                                            ELSE flagsRdy[t]]
             /\ UNCHANGED <<want, crit>> /\ crit = Free
<1> DEFINE set == FlagsAfter(g, mask, op)
           W   == Answered(g, set)
<1>1. /\ flags' = [flags EXCEPT ![g] = set]
      /\ flagsRdy' = [t \in Task |-> IF t \in Woken(g, set) THEN Matching(want[t], set)
                                     ELSE flagsRdy[t]]
      /\ os' = OS_FlagTasksRdy(os, os.pend[g], Woken(g, set))
      /\ IF os.pend[g] = << >> THEN UNCHANGED pc ELSE Return(opt)
      /\ UNCHANGED <<nest, lock, crit, want>>
      /\ (\E t \in Task : Running(t)) \/ (crit = Free /\ nest > 0)
  BY DEF OSFlagPost, OS_FlagPost, FlagsAfter
<1>2. Woken(g, set) = W
  <2>1. ListOf(os.pend[g], Waiters(os, g))
    BY PendAgreesLists, Kinds DEF OInv, KInv, Good
  <2>2. Range(os.pend[g]) = Waiters(os, g)
    BY <2>1 DEF ListOf
  <2> QED BY <2>2 DEF Woken, Answered
<1>3. set \subseteq Flag
  BY FlagAssumption DEF FlagsAfter, OInv, TypeOK, FlagTypeOK
<1> HIDE DEF set, W
<1>4. crit = Free /\ crit.op = "none" /\ os.cur \in Task
  <2>1. crit = Free
    BY <1>1 DEF Running
  <2> QED BY <2>1 DEF Free, OInv, KInv, KTypeOK, TCBTables, TickTaskRuns
<1>5. UNCHANGED pc \/ (pc[os.cur] = "run" /\ Goto(os.cur, "sched"))
  <2>1. nest > 0 \/ pc[os.cur] = "run"
    BY <1>1 DEF Running
  <2>2. UNCHANGED pc \/ (~(nest > 0) /\ Goto(os.cur, "sched"))
    BY <1>1 DEF Return
  <2> QED BY <2>1, <2>2
<1>6. Told(os, os', "OK", g, W)
  <2>1. W \in SUBSET Waiters(os, g) /\ \A t \in W : "SUSPENDED" \notin os.state[t]
    BY DEF W, Answered, OInv, NobodySuspended, Waiters
  <2>2. g \in Obj
    BY Kinds
  <2> QED BY <1>1, <1>2, <2>1, <2>2, FlagsAreTold DEF OInv, KInv
<1>7. KInv' /\ Places' /\ NobodySuspended' /\ SamePlaces
  <2>1. W \in SUBSET Waiters(os, g) /\ g \in Obj
    BY Kinds DEF W, Answered
  <2> QED BY <1>1, <1>4, <1>5, <1>6, <2>1, TellsInv DEF OInv
<1>8. PostsAreToQueues'
  BY <1>1, <1>4 DEF PostsAreToQueues
<1> QED BY <1>1, <1>2, <1>3, <1>4, <1>6, <1>7, <1>8 DEF set, W

-----------------------------------------------------------------------------
(* The invariant.                                                          *)

LEMMA InitObjects == Init => OInv
<1> SUFFICES ASSUME Init PROVE OInv
  OBVIOUS
<1>1. PICK lists : os = OS_TASK_SW(InitTables(lists))
  BY DEF Init, KInit
<1>2. /\ os.pendObj = [t \in Task |-> NoObj] /\ os.pend = [o \in Obj |-> << >>]
      /\ os.state = [t \in Task |-> {}]
  BY <1>1 DEF OS_TASK_SW, InitTables
<1>3. KInv /\ Places
  BY KInitInv, KInitPlaces DEF Init
<1>4. NobodySuspended
  BY <1>2 DEF NobodySuspended
<1>5. /\ FlagTypeOK /\ QTypeOK /\ msgs \in [Queue -> Seq(Msg)]
      /\ NoMessageWaits /\ OkMeansEnough
  BY QAssumption DEF Init, FlagInit, FlagTypeOK, QInit, QTypeOK, NoMessageWaits, OkMeansEnough
<1>6. WantsAgree /\ PostsAreToQueues /\ CallsAgree /\ LostAreEmpty
  BY <1>2, Kinds, InitCalls
  DEF Init, KInit, FlagInit, Free, WantsAgree, PostsAreToQueues
<1>7. TypeOK
  BY <1>3, <1>5, <1>6, CallTypes DEF TypeOK, KInv
<1> QED BY <1>3, <1>4, <1>5, <1>6, <1>7 DEF OInv

(* A step that leaves the kernel's tables and every wait alone.            *)
LEMMA QuietInv ==
  ASSUME OInv, UNCHANGED kvars, UNCHANGED want,
         FlagTypeOK', QTypeOK', CallsAgree', msgs' \in [Queue -> Seq(Msg)],
         NoMessageWaits', LostAreEmpty',
         \A t \in Task : InPend(t) => flagsRdy'[t] = flagsRdy[t]
  PROVE  OInv'
<1>1. KInv' /\ Places' /\ NobodySuspended' /\ PostsAreToQueues'
  BY DEF kvars, OInv, KInv, KTypeOK, TickTaskRuns, RunningIsReady, LockedIsReady, LoopsEnd,
         Places, InPend, NobodySuspended, PostsAreToQueues
<1>2. WantsAgree'
  BY DEF kvars, OInv, WantsAgree, InPend
<1>3. OkMeansEnough'
  BY DEF kvars, OInv, OkMeansEnough, InPend
<1> QED BY <1>1, <1>2, <1>3 DEF OInv, TypeOK, KInv, CallsAgree

(* The flags and requests a pend or a post names.                          *)
LEMMA FlagTypes ==
  ASSUME NEW w \in Request, NEW set \in SUBSET Flag, NEW rdy \in SUBSET Flag
  PROVE  /\ Matching(w, set) \subseteq w.flags /\ Matching(w, set) \in SUBSET Flag
         /\ Consume(w, rdy, set) \in SUBSET Flag
<1>1. w.flags \in SUBSET Flag /\ w.mode \in Modes /\ w.consume \in BOOLEAN
  BY DEF Request
<1>2. Matching(w, set) \subseteq w.flags
  BY DEF Matching
<1>3. Consume(w, rdy, set) \in {set, set \ rdy, set \cup rdy}
  BY <1>1 DEF Consume, Modes
<1> QED BY <1>1, <1>2, <1>3

LEMMA FlagPendInv ==
  ASSUME OInv, NEW t \in Task, NEW w \in Wants, w.grp \in Grp \ Lost,
         NEW timeout \in Timeouts, OSFlagPend(t, w, timeout), UNCHANGED qvars, SameCalls
  PROVE  OInv'
<1> DEFINE g   == w.grp
           rdy == Matching(w, flags[g])
<1>1. /\ Running(t) /\ UNCHANGED <<nest, lock, crit>>
      /\ w \in Request /\ g \in Grp /\ g \in Obj \ Lost /\ w # NoWant
      /\ flags \in [Grp -> SUBSET Flag] /\ flagsRdy \in [Task -> SUBSET Flag]
      /\ want \in [Task -> Request \cup {NoWant}]
  BY FlagAssumption, Kinds DEF OSFlagPend, OInv, TypeOK, FlagTypeOK
<1>2. ~InPend(t) /\ crit.op = "none"
  BY <1>1, RunningAlone
<1>3. CASE /\ flags' = [flags EXCEPT ![g] = Consume(w, rdy, @)]
           /\ flagsRdy' = [flagsRdy EXCEPT ![t] = rdy] /\ UNCHANGED <<os, pc, want>>
  <2>1. rdy \in SUBSET Flag /\ Consume(w, rdy, flags[g]) \in SUBSET Flag
    <3>1. flags[g] \in SUBSET Flag
      BY <1>1
    <3> QED BY <1>1, <3>1, FlagTypes
  <2>2. FlagTypeOK'
    BY <1>1, <1>3, <2>1 DEF FlagTypeOK
  <2>3. /\ QTypeOK' /\ msgs' \in [Queue -> Seq(Msg)] /\ NoMessageWaits' /\ LostAreEmpty'
        /\ CallsAgree' /\ UNCHANGED kvars
    BY <1>1, <1>3, LostStay DEF qvars, kvars, OInv, TypeOK, QTypeOK, NoMessageWaits, SameCalls
  <2>4. \A u \in Task : InPend(u) => flagsRdy'[u] = flagsRdy[u]
    BY <1>1, <1>2, <1>3
  <2> QED BY <1>3, <2>2, <2>3, <2>4, QuietInv
<1>4. CASE /\ lock = 0 /\ want' = [want EXCEPT ![t] = w]
           /\ flagsRdy' = [flagsRdy EXCEPT ![t] = {}]
           /\ os' = OS_Pend(os, g, "FLAG", timeout) /\ Goto(t, "pend") /\ UNCHANGED flags
  <2>1. /\ KInv' /\ Places' /\ NobodySuspended' /\ LostAreEmpty' /\ InPend(t)'
        /\ \A u \in Task \ {t} : InPend(u)' <=> InPend(u)
        /\ os'.pendObj = [os.pendObj EXCEPT ![t] = g]
        /\ os'.pendStatus = [os.pendStatus EXCEPT ![t] = "OK"]
        /\ \A q \in Obj \ {g} : os'.pend[q] = os.pend[q]
    <3> HIDE DEF g
    <3> QED BY <1>1, <1>4, BlockDoes DEF SameCalls
  <2>2. /\ os.pendObj \in [Task -> Obj \cup {NoObj}]
        /\ os.pendStatus \in [Task -> Status]
    BY DEF OInv, KInv, KTypeOK, TCBTables
  <2>3. WantsAgree'
    <3>1. ASSUME NEW u \in Task \ {t}
          PROVE  os'.pendObj[u] = os.pendObj[u] /\ want'[u] = want[u]
      BY <1>1, <1>4, <2>1, <2>2
    <3>2. os'.pendObj[t] = g /\ want'[t] = w /\ g \notin Queue
      BY <1>1, <1>4, <2>1, <2>2, Kinds
    <3> QED BY <1>1, <2>1, <3>1, <3>2 DEF WantsAgree, OInv
  <2>4. FlagTypeOK'
    BY <1>1, <1>4 DEF FlagTypeOK
  <2>5. QTypeOK' /\ msgs' \in [Queue -> Seq(Msg)] /\ CallsAgree' /\ PostsAreToQueues'
    BY <1>1, <1>2 DEF qvars, OInv, TypeOK, QTypeOK, PostsAreToQueues, SameCalls
  <2>6. NoMessageWaits'
    BY <1>1, <2>1, Kinds DEF qvars, OInv, NoMessageWaits
  <2>7. OkMeansEnough'
    <3>1. ASSUME NEW u \in Task \ {t}
          PROVE  /\ os'.pendObj[u] = os.pendObj[u] /\ want'[u] = want[u]
                 /\ os'.pendStatus[u] = os.pendStatus[u] /\ flagsRdy'[u] = flagsRdy[u]
      BY <1>1, <1>4, <2>1, <2>2
    <3>2. os'.pendObj[t] # NoObj
      BY <1>1, <2>1, <2>2, Kinds
    <3> QED BY <2>1, <3>1, <3>2 DEF OkMeansEnough, InPend, OInv
  <2> QED BY <2>1, <2>3, <2>4, <2>5, <2>6, <2>7 DEF OInv, TypeOK, KInv, CallsAgree
<1> QED BY <1>3, <1>4 DEF OSFlagPend

LEMMA FlagPendReturnInv ==
  ASSUME OInv, NEW t \in Task, want[t] # NoWant, OSFlagPendReturn(t),
         UNCHANGED qvars, SameCalls
  PROVE  OInv'
<1>1. /\ KInv' /\ Places' /\ NobodySuspended' /\ PostsAreToQueues'
      /\ os.state[t] = {} /\ os.pendObj[t] = NoObj /\ ~InPend(t)'
      /\ InPend(t) /\ \A u \in Task \ {t} : InPend(u)' <=> InPend(u)
  BY ReturnDoes DEF OSFlagPendReturn
<1>2. /\ UNCHANGED <<os, flagsRdy, qvars>> /\ want' = [want EXCEPT ![t] = NoWant]
      /\ \/ flags' = flags
         \/ flags' = [flags EXCEPT ![want[t].grp] = Consume(want[t], flagsRdy[t], @)]
      /\ want[t] \in Request
      /\ want \in [Task -> Request \cup {NoWant}]
      /\ flags \in [Grp -> SUBSET Flag] /\ flagsRdy \in [Task -> SUBSET Flag]
  BY DEF OSFlagPendReturn, OInv, TypeOK, FlagTypeOK
<1>3. FlagTypeOK'
  <2>1. want[t].grp \in Grp
    BY <1>2 DEF Request
  <2>2. Consume(want[t], flagsRdy[t], flags[want[t].grp]) \in SUBSET Flag
    <3>1. flags[want[t].grp] \in SUBSET Flag /\ flagsRdy[t] \in SUBSET Flag
      BY <1>2, <2>1
    <3> QED BY <1>2, <3>1, FlagTypes
  <2>3. flags' \in [Grp -> SUBSET Flag]
    BY <1>2, <2>2
  <2> QED BY <1>2, <2>3 DEF FlagTypeOK
<1>4. QTypeOK' /\ msgs' \in [Queue -> Seq(Msg)] /\ CallsAgree'
  BY <1>2 DEF qvars, OInv, TypeOK, QTypeOK, SameCalls
<1>5. NoMessageWaits' /\ LostAreEmpty'
  BY <1>2, LostStay DEF qvars, OInv, NoMessageWaits, SameCalls
<1>6. WantsAgree'
  <2>1. want'[t] = NoWant /\ \A u \in Task \ {t} : want'[u] = want[u]
    BY <1>2
  <2> QED BY <1>1, <1>2, <2>1, Kinds DEF WantsAgree, OInv
<1>7. OkMeansEnough'
  <2>1. want'[t] = NoWant /\ \A u \in Task \ {t} : want'[u] = want[u]
    BY <1>2
  <2> QED BY <1>1, <1>2, <2>1 DEF OkMeansEnough, InPend, OInv
<1> QED BY <1>1, <1>3, <1>4, <1>5, <1>6, <1>7 DEF OInv, TypeOK, KInv, CallsAgree

LEMMA FlagPostInv ==
  ASSUME OInv, NEW g \in Grp, NEW mask \in Masks, NEW op \in {"SET", "CLR"},
         NEW opt \in Options, OSFlagPost(g, mask, op, opt), UNCHANGED qvars, SameCalls
  PROVE  OInv'
<1> DEFINE set == FlagsAfter(g, mask, op)
           W   == Answered(g, set)
<1>1. /\ KInv' /\ Places' /\ NobodySuspended' /\ PostsAreToQueues'
      /\ SamePlaces /\ Told(os, os', "OK", g, W)
      /\ set \subseteq Flag /\ flags' = [flags EXCEPT ![g] = set]
      /\ flagsRdy' = [t \in Task |-> IF t \in W THEN Matching(want[t], set)
                                     ELSE flagsRdy[t]]
      /\ UNCHANGED <<want, crit>>
  BY FlagPostDoes
<1>2. ASSUME NEW t \in W
      PROVE  /\ t \in Task /\ want[t] \in Request /\ Satisfied(want[t], set)
             /\ Matching(want[t], set) \subseteq want[t].flags
             /\ Matching(want[t], set) \in SUBSET Flag
  <2>1. t \in Task /\ os.pendObj[t] \in Grp /\ Satisfied(want[t], set)
    BY DEF Answered, Waiters
  <2>2. want[t] \in Request
    BY <2>1, FlagAssumption DEF OInv, WantsAgree
  <2> QED BY <1>1, <2>1, <2>2, FlagTypes
<1> HIDE DEF set, W
<1>3. \A t \in Task : /\ os'.pendObj[t] = os.pendObj[t] \/ os'.pendObj[t] = NoObj
                      /\ t \notin W => /\ os'.pendObj[t] = os.pendObj[t]
                                       /\ os'.pendStatus[t] = os.pendStatus[t]
                                       /\ flagsRdy'[t] = flagsRdy[t]
                      /\ t \in W => flagsRdy'[t] = Matching(want[t], set)
  BY <1>1 DEF Told
<1>4. \A q \in Obj \ {g} : os'.pend[q] = os.pend[q]
  BY <1>1 DEF Told
<1>5. FlagTypeOK'
  <2>1. /\ flags \in [Grp -> SUBSET Flag] /\ flagsRdy \in [Task -> SUBSET Flag]
        /\ want \in [Task -> Request \cup {NoWant}]
    BY DEF OInv, TypeOK, FlagTypeOK
  <2>2. flagsRdy' \in [Task -> SUBSET Flag]
    BY <1>1, <1>2, <2>1
  <2> QED BY <1>1, <2>1, <2>2 DEF FlagTypeOK
<1>6. QTypeOK' /\ msgs' \in [Queue -> Seq(Msg)] /\ CallsAgree'
  BY DEF qvars, OInv, TypeOK, QTypeOK, SameCalls
<1>7. NoMessageWaits'
  BY <1>4, Kinds DEF qvars, OInv, NoMessageWaits
<1>8. LostAreEmpty'
  <2>1. ASSUME os.pend[g] = << >> PROVE os'.pend[g] = << >>
    <3>1. Waiters(os, g) = {}
      <4>1. ListOf(os.pend[g], Waiters(os, g))
        BY PendAgreesLists, Kinds DEF OInv, KInv, Good
      <4> QED BY <2>1, <4>1, ListOfNone
    <3>2. \A t \in Task : os'.pendObj[t] # g
      BY <1>3, <3>1, Kinds DEF Waiters
    <3>3. Waiters(os', g) = {}
      BY <3>2 DEF Waiters
    <3>4. ListOf(os'.pend[g], Waiters(os', g))
      BY <1>1, PendAgreesLists, Kinds DEF KInv, Good
    <3> QED BY <3>3, <3>4, ListOfNone
  <2>2. Lost \subseteq Obj /\ Lost' = Lost
    BY CallTypes DEF OInv, SameCalls, Lost
  <2> QED BY <1>4, <2>1, <2>2 DEF OInv, LostAreEmpty
<1>9. WantsAgree'
  BY <1>1, <1>3, Kinds DEF OInv, WantsAgree, SamePlaces
<1>10. OkMeansEnough'
  <2>1. ASSUME NEW t \in W
        PROVE  flagsRdy'[t] \subseteq want'[t].flags /\ Enough(want'[t], flagsRdy'[t])
    BY <1>1, <1>2, <1>3, <2>1 DEF Satisfied
  <2> QED BY <1>1, <1>3, <2>1 DEF OInv, OkMeansEnough, SamePlaces, InPend
<1> QED BY <1>1, <1>5, <1>6, <1>7, <1>8, <1>9, <1>10 DEF OInv, TypeOK, KInv, CallsAgree

LEMMA QPendInv ==
  ASSUME OInv, NEW t \in Task, NEW q \in Queue \ Lost, NEW timeout \in Timeouts,
         OSQPend(t, q, timeout), UNCHANGED fvars, SameCalls
  PROVE  OInv'
<1>1. /\ Running(t) /\ UNCHANGED <<nest, lock, crit, msgPtr, post, want, flags, flagsRdy>>
      /\ q \in Obj \ Lost /\ msgs \in [Queue -> Seq(Msg)]
      /\ ~InPend(t) /\ crit.op = "none" /\ want[t] = NoWant
  BY RunningAlone, Kinds DEF OSQPend, fvars, OInv
<1>2. FlagTypeOK' /\ CallsAgree' /\ UNCHANGED gone
  BY <1>1 DEF OInv, TypeOK, FlagTypeOK, SameCalls
<1>3. CASE /\ msgs[q] # << >> /\ msgs' = [msgs EXCEPT ![q] = Tail(@)]
           /\ UNCHANGED <<os, pc>>
  <2>1. /\ msgs[q] \in Seq(Msg) /\ Tail(msgs[q]) \in Seq(Msg)
        /\ Len(Tail(msgs[q])) = Len(msgs[q]) - 1 /\ Len(msgs[q]) \in Nat
    BY <1>1, <1>3
  <2>2. msgs' \in [Queue -> Seq(Msg)]
    BY <1>1, <1>3, <2>1
  <2>3. QTypeOK'
    <3>1. msgs'[q] = Tail(msgs[q]) /\ \A o \in Queue \ {q} : msgs'[o] = msgs[o]
      BY <1>1, <1>3
    <3>2. /\ Len(msgs[q]) =< Size[q] /\ Size[q] \in Nat
          /\ \A o \in Queue \ {q} : msgs[o] \in Seq(Msg) /\ Len(msgs[o]) =< Size[o]
          /\ msgPtr \in [Task -> Msg \cup {NoMsg}] /\ post \in Msg \cup {NoMsg}
      BY QAssumption DEF OInv, TypeOK, QTypeOK
    <3>3. msgs'[q] \in Seq(Msg) /\ Len(msgs'[q]) =< Size[q]
      BY <2>1, <3>1, <3>2
    <3> QED BY <1>1, <3>1, <3>2, <3>3 DEF QTypeOK
  <2>4. NoMessageWaits' /\ LostAreEmpty' /\ UNCHANGED kvars
    BY <1>1, <1>2, <1>3, LostStay DEF OInv, NoMessageWaits, kvars
  <2> QED BY <1>1, <1>2, <2>2, <2>3, <2>4, QuietInv
<1>4. CASE /\ msgs[q] = << >> /\ lock = 0 /\ os' = OS_Pend(os, q, "Q", timeout)
           /\ Goto(t, "pend") /\ UNCHANGED msgs
  <2>1. /\ KInv' /\ Places' /\ NobodySuspended' /\ LostAreEmpty' /\ InPend(t)'
        /\ \A u \in Task \ {t} : InPend(u)' <=> InPend(u)
        /\ os'.pendObj = [os.pendObj EXCEPT ![t] = q]
        /\ os'.pendStatus = [os.pendStatus EXCEPT ![t] = "OK"]
        /\ \A o \in Obj \ {q} : os'.pend[o] = os.pend[o]
    BY <1>1, <1>2, <1>4, BlockDoes
  <2>2. /\ os.pendObj \in [Task -> Obj \cup {NoObj}]
        /\ os.pendStatus \in [Task -> Status]
    BY DEF OInv, KInv, KTypeOK, TCBTables
  <2>3. ASSUME NEW u \in Task \ {t}
        PROVE  os'.pendObj[u] = os.pendObj[u] /\ os'.pendStatus[u] = os.pendStatus[u]
    BY <2>1, <2>2
  <2>4. os'.pendObj[t] = q /\ q \notin Grp
    BY <1>1, <2>1, <2>2, Kinds
  <2>5. WantsAgree'
    BY <1>1, <2>1, <2>3, <2>4 DEF WantsAgree, OInv
  <2>6. QTypeOK' /\ msgs' \in [Queue -> Seq(Msg)] /\ PostsAreToQueues'
    BY <1>1, <1>4 DEF OInv, TypeOK, QTypeOK, PostsAreToQueues
  <2>7. NoMessageWaits'
    BY <1>4, <2>1, Kinds DEF OInv, NoMessageWaits
  <2>8. OkMeansEnough'
    BY <1>1, <2>1, <2>3, <2>4 DEF OkMeansEnough, InPend, OInv
  <2> QED BY <1>2, <2>1, <2>5, <2>6, <2>7, <2>8 DEF OInv, TypeOK, KInv, CallsAgree
<1> QED BY <1>3, <1>4 DEF OSQPend

LEMMA QPendReturnInv ==
  ASSUME OInv, NEW t \in Task, want[t] = NoWant, OSQPendReturn(t), UNCHANGED fvars, SameCalls
  PROVE  OInv'
<1>1. /\ KInv' /\ Places' /\ NobodySuspended' /\ PostsAreToQueues' /\ ~InPend(t)'
      /\ \A u \in Task \ {t} : InPend(u)' <=> InPend(u)
  BY ReturnDoes DEF OSQPendReturn
<1>2. UNCHANGED <<os, flags, flagsRdy, want, qvars, gone>> /\ CallsAgree'
  BY DEF OSQPendReturn, fvars, SameCalls
<1>3. /\ FlagTypeOK' /\ QTypeOK' /\ msgs' \in [Queue -> Seq(Msg)] /\ CallsAgree'
      /\ NoMessageWaits' /\ LostAreEmpty'
  BY <1>2, LostStay DEF qvars, OInv, TypeOK, FlagTypeOK, QTypeOK, NoMessageWaits
<1>4. WantsAgree' /\ OkMeansEnough'
  BY <1>1, <1>2 DEF OInv, WantsAgree, OkMeansEnough, InPend
<1> QED BY <1>1, <1>3, <1>4 DEF OInv, TypeOK, KInv, CallsAgree

(* What a queue holds after a put.                                         *)
LEMMA PutMessage ==
  ASSUME NEW s \in Seq(Msg), NEW m \in Msg, NEW lifo
  PROVE  LET new == IF lifo THEN <<m>> \o s ELSE Append(s, m)
         IN  new \in Seq(Msg) /\ Len(new) = Len(s) + 1
<1>1. Len(s) \in Nat /\ <<m>> \in Seq(Msg) /\ Len(<<m>>) = 1
  OBVIOUS
<1>2. <<m>> \o s \in Seq(Msg) /\ Len(<<m>> \o s) = Len(s) + 1
  BY <1>1
<1>3. Append(s, m) \in Seq(Msg) /\ Len(Append(s, m)) = Len(s) + 1
  OBVIOUS
<1> QED BY <1>2, <1>3

LEMMA QPostInv ==
  ASSUME OInv, NEW q \in Queue \ Lost, NEW m \in Msg, NEW lifo \in BOOLEAN,
         NEW opt \in Options, OSQPost(q, m, lifo, opt), UNCHANGED fvars, SameCalls
  PROVE  OInv'
<1>1. /\ crit = Free /\ opt \in CallOpts
      /\ UNCHANGED <<os, pc, nest, lock, msgPtr, want, flags, flagsRdy, gone>>
      /\ (\E t \in Task : Running(t)) \/ nest > 0
      /\ msgs \in [Queue -> Seq(Msg)] /\ q \in Obj
  BY Kinds DEF OSQPost, OS_QPost, Running, OInv, fvars, SameCalls
<1>2. FlagTypeOK' /\ CallsAgree' /\ LostAreEmpty'
  BY <1>1, LostStay DEF OInv, TypeOK, FlagTypeOK, SameCalls
<1>3. CASE os.pend[q] = << >>
  <2> DEFINE new == IF lifo THEN <<m>> \o msgs[q] ELSE Append(msgs[q], m)
  <2>1. /\ Len(msgs[q]) < Size[q] /\ msgs' = [msgs EXCEPT ![q] = new]
        /\ UNCHANGED <<crit, post>>
    BY <1>3 DEF OSQPost, OS_QPost, OS_MsgQPut
  <2>2. msgs[q] \in Seq(Msg) /\ new \in Seq(Msg) /\ Len(new) = Len(msgs[q]) + 1
    <3>1. msgs[q] \in Seq(Msg)
      BY <1>1
    <3> QED BY <3>1, PutMessage
  <2> HIDE DEF new
  <2>3. msgs' \in [Queue -> Seq(Msg)]
    BY <1>1, <2>1, <2>2
  <2>4. Len(msgs[q]) \in Nat /\ Size[q] \in Nat
    BY <2>2, QAssumption
  <2>5. QTypeOK'
    BY <1>1, <2>1, <2>2, <2>4 DEF OInv, TypeOK, QTypeOK
  <2>6. NoMessageWaits' /\ UNCHANGED kvars
    BY <1>1, <1>3, <2>1 DEF OInv, NoMessageWaits, kvars
  <2> QED BY <1>1, <1>2, <2>3, <2>5, <2>6, QuietInv
<1>4. CASE os.pend[q] # << >>
  <2> DEFINE n == IF "ALL" \in opt THEN Len(os.pend[q]) ELSE 1
  <2>1. crit' = PendLoop("post", q, opt, n) /\ post' = m /\ UNCHANGED msgs
    BY <1>4 DEF OSQPost, OS_QPost
  <2>2. n = 1 \/ n = Len(os.pend[q])
    OBVIOUS
  <2> HIDE DEF n
  <2>3. os.cur \in Task
    BY <1>1 DEF Free, OInv, KInv, KTypeOK, TCBTables, TickTaskRuns
  <2>4. KInv'
    BY <1>1, <1>4, <2>1, <2>2, <2>3, StartLoopInv DEF OInv
  <2>5. crit'.op = "post" /\ crit'.obj = q
    BY <2>1 DEF PendLoop
  <2>6. nest = 0 => pc[os.cur] = "run"
    BY <1>1 DEF Running
  <2>7. Places' /\ PostsAreToQueues' /\ NobodySuspended'
    BY <1>1, <2>5, <2>6 DEF OInv, Places, InPend, PostsAreToQueues, NobodySuspended
  <2>8. QTypeOK' /\ msgs' \in [Queue -> Seq(Msg)] /\ NoMessageWaits'
    BY <1>1, <2>1 DEF OInv, TypeOK, QTypeOK, NoMessageWaits
  <2>9. WantsAgree' /\ OkMeansEnough'
    BY <1>1 DEF OInv, WantsAgree, OkMeansEnough, InPend
  <2> QED BY <1>2, <2>4, <2>7, <2>8, <2>9 DEF OInv, TypeOK, KInv, CallsAgree
<1> QED BY <1>3, <1>4

(* A queue that is emptied, or a group that is cleared, while nobody's wait*)
(* changes.                                                                *)
LEMMA EmptiedInv ==
  ASSUME OInv, UNCHANGED <<kvars, want, flagsRdy, post>>,
         msgPtr' \in [Task -> Msg \cup {NoMsg}], CallsAgree', LostAreEmpty',
         \/ UNCHANGED flags
         \/ \E g \in Grp : flags' = [flags EXCEPT ![g] = {}],
         \/ UNCHANGED msgs
         \/ \E q \in Queue : msgs' = [msgs EXCEPT ![q] = << >>]
  PROVE  OInv'
<1>1. /\ msgs \in [Queue -> Seq(Msg)] /\ flags \in [Grp -> SUBSET Flag]
      /\ want \in [Task -> Request \cup {NoWant}] /\ flagsRdy \in [Task -> SUBSET Flag]
      /\ post \in Msg \cup {NoMsg}
  BY DEF OInv, TypeOK, FlagTypeOK, QTypeOK
<1>2. FlagTypeOK'
  BY <1>1 DEF FlagTypeOK
<1>3. /\ msgs' \in [Queue -> Seq(Msg)]
      /\ \A q \in Queue : msgs'[q] = msgs[q] \/ msgs'[q] = << >>
  <2>1. << >> \in Seq(Msg)
    OBVIOUS
  <2> QED BY <1>1, <2>1
<1>4. QTypeOK'
  <2>1. ASSUME NEW q \in Queue PROVE msgs'[q] \in Seq(Msg) /\ Len(msgs'[q]) =< Size[q]
    BY <1>3, QAssumption DEF OInv, TypeOK, QTypeOK
  <2> QED BY <1>1, <2>1 DEF QTypeOK
<1>5. NoMessageWaits'
  BY <1>3 DEF kvars, OInv, NoMessageWaits
<1> QED BY <1>2, <1>3, <1>4, <1>5, QuietInv

LEMMA MsgPtrsType ==
  ASSUME OInv, MsgPtrs PROVE msgPtr' \in [Task -> Msg \cup {NoMsg}]
  BY DEF MsgPtrs, OInv, TypeOK, QTypeOK

(* A deletion that ends waits.                                             *)
LEMMA EndedInv ==
  ASSUME OInv, NEW t \in Task, NEW o \in Obj, PendListDel(t, o, "ALWAYS"),
         UNCHANGED <<want, flagsRdy, post>>, msgPtr' \in [Task -> Msg \cup {NoMsg}],
         \/ UNCHANGED flags
         \/ \E g \in Grp : flags' = [flags EXCEPT ![g] = {}],
         \/ UNCHANGED msgs
         \/ \E q \in Queue : msgs' = [msgs EXCEPT ![q] = << >>]
  PROVE  OInv'
<1>1. /\ KInv' /\ Places' /\ NobodySuspended' /\ PostsAreToQueues' /\ SamePlaces
      /\ Told(os, os', "DEL", o, Waiters(os, o)) /\ os'.pend[o] = << >>
  BY DeleteDoes
<1>2. /\ \A u \in Task : \/ os'.pendObj[u] = NoObj /\ os'.pendStatus[u] = "DEL"
                         \/ /\ os'.pendObj[u] = os.pendObj[u]
                            /\ os'.pendStatus[u] = os.pendStatus[u]
      /\ \A q \in Obj \ {o} : os'.pend[q] = os.pend[q]
  BY <1>1 DEF Told
<1>3. /\ msgs \in [Queue -> Seq(Msg)] /\ flags \in [Grp -> SUBSET Flag]
      /\ want \in [Task -> Request \cup {NoWant}] /\ flagsRdy \in [Task -> SUBSET Flag]
      /\ post \in Msg \cup {NoMsg}
  BY DEF OInv, TypeOK, FlagTypeOK, QTypeOK
<1>4. FlagTypeOK'
  BY <1>3 DEF FlagTypeOK
<1>5. /\ msgs' \in [Queue -> Seq(Msg)]
      /\ \A q \in Queue : msgs'[q] = msgs[q] \/ msgs'[q] = << >>
  <2>1. << >> \in Seq(Msg)
    OBVIOUS
  <2> QED BY <1>3, <2>1
<1>6. QTypeOK'
  <2>1. ASSUME NEW q \in Queue PROVE msgs'[q] \in Seq(Msg) /\ Len(msgs'[q]) =< Size[q]
    BY <1>5, QAssumption DEF OInv, TypeOK, QTypeOK
  <2> QED BY <1>3, <2>1 DEF QTypeOK
<1>7. NoMessageWaits' /\ LostAreEmpty' /\ CallsAgree'
  <2>1. CallsAgree' /\ Lost' \subseteq Lost \cup {o} /\ Lost \subseteq Obj
    BY DeleteCalls, CallTypes DEF PendListDel, OInv
  <2>2. LostAreEmpty'
    BY <1>1, <1>2, <2>1 DEF OInv, LostAreEmpty
  <2> QED BY <1>1, <1>2, <1>5, <2>1, <2>2, Kinds DEF OInv, NoMessageWaits
<1>8. WantsAgree'
  BY <1>1, <1>2, Kinds DEF OInv, WantsAgree, SamePlaces
<1>9. OkMeansEnough'
  BY <1>1, <1>2 DEF OInv, OkMeansEnough, SamePlaces, InPend
<1> QED BY <1>1, <1>4, <1>5, <1>6, <1>7, <1>8, <1>9 DEF OInv, TypeOK, KInv, CallsAgree

LEMMA NobodyDoes ==
  ASSUME OInv, NEW t \in Task, NEW o \in Obj, PendListDel(t, o, "NO_PEND")
  PROVE  /\ UNCHANGED kvars /\ crit = Free /\ os.pend[o] = << >>
         /\ CallsAgree' /\ LostAreEmpty'
<1>1. /\ CallsAgree' /\ Lost' \subseteq Lost \cup {o} /\ Running(t)
      /\ os.pend[o] = << >> /\ UNCHANGED <<os, pc, nest, lock, crit>>
  BY DeleteCalls DEF PendListDel, OInv
<1> QED BY <1>1 DEF kvars, OInv, Running, LostAreEmpty

LEMMA FlagDelInv ==
  ASSUME OInv, NEW t \in Task, NEW g \in Grp, NEW opt \in {"NO_PEND", "ALWAYS"},
         OSFlagDel(t, g, opt)
  PROVE  OInv'
<1>1. /\ PendListDel(t, g, opt) /\ flags' = [flags EXCEPT ![g] = {}]
      /\ UNCHANGED <<want, flagsRdy, msgs, msgPtr, post>> /\ g \in Obj
      /\ msgPtr \in [Task -> Msg \cup {NoMsg}]
  BY Kinds DEF OSFlagDel, qvars, OInv, TypeOK, QTypeOK
<1>2. CASE opt = "NO_PEND"
  <2>1. UNCHANGED kvars /\ CallsAgree' /\ LostAreEmpty'
    BY <1>1, <1>2, NobodyDoes
  <2> QED BY <1>1, <2>1, EmptiedInv
<1>3. CASE opt = "ALWAYS"
  BY <1>1, <1>3, EndedInv
<1> QED BY <1>2, <1>3

LEMMA QDelInv ==
  ASSUME OInv, NEW t \in Task, NEW q \in Queue, NEW opt \in {"NO_PEND", "ALWAYS"},
         OSQDel(t, q, opt)
  PROVE  OInv'
<1>1. /\ PendListDel(t, q, opt) /\ msgs' = [msgs EXCEPT ![q] = << >>]
      /\ UNCHANGED <<want, flagsRdy, flags, post>> /\ q \in Obj
      /\ msgPtr' \in [Task -> Msg \cup {NoMsg}]
  BY Kinds, MsgPtrsType DEF OSQDel, fvars
<1>2. CASE opt = "NO_PEND"
  <2>1. UNCHANGED kvars /\ CallsAgree' /\ LostAreEmpty'
    BY <1>1, <1>2, NobodyDoes
  <2> QED BY <1>1, <2>1, EmptiedInv
<1>3. CASE opt = "ALWAYS"
  BY <1>1, <1>3, EndedInv
<1> QED BY <1>2, <1>3

LEMMA CreateDoes ==
  ASSUME OInv, Orderly, NEW t \in Task, NEW o \in Obj, Create(t, o)
  PROVE  /\ UNCHANGED kvars /\ crit = Free /\ os.pend[o] = << >>
         /\ CallsAgree' /\ LostAreEmpty'
<1>1. CallsAgree' /\ Running(t) /\ o \in Lost /\ Lost' = Lost \ {o}
  BY CreateCalls DEF OInv
<1>2. /\ os' = [os EXCEPT !.pend[o] = << >>] /\ os.pend[o] = << >>
      /\ UNCHANGED <<pc, nest, lock, crit>> /\ os \in TCBTables
  BY <1>1 DEF Create, OInv, KInv, Good, LostAreEmpty
<1>3. os' = os
  BY <1>2 DEF TCBTables
<1> QED BY <1>1, <1>2, <1>3 DEF kvars, Running, OInv, LostAreEmpty

LEMMA CreateInv ==
  ASSUME OInv, Orderly, NEW t \in Task,
         \/ \E g \in Grp : OSFlagCreate(t, g)
         \/ \E q \in Queue : OSQCreate(t, q)
  PROVE  OInv'
<1>1. ASSUME NEW g \in Grp, OSFlagCreate(t, g) PROVE OInv'
  <2>1. /\ g \in Obj /\ Create(t, g) /\ flags' = [flags EXCEPT ![g] = {}]
        /\ UNCHANGED <<want, flagsRdy, msgs, msgPtr, post>>
        /\ msgPtr \in [Task -> Msg \cup {NoMsg}]
    BY <1>1, Kinds DEF OSFlagCreate, qvars, OInv, TypeOK, QTypeOK
  <2>2. UNCHANGED kvars /\ CallsAgree' /\ LostAreEmpty'
    BY <2>1, CreateDoes
  <2> QED BY <2>1, <2>2, EmptiedInv
<1>2. ASSUME NEW q \in Queue, OSQCreate(t, q) PROVE OInv'
  <2>1. /\ q \in Obj /\ Create(t, q) /\ msgs' = [msgs EXCEPT ![q] = << >>]
        /\ UNCHANGED <<want, flagsRdy, flags, msgPtr, post>>
        /\ msgPtr \in [Task -> Msg \cup {NoMsg}]
    BY <1>2, Kinds DEF OSQCreate, fvars, OInv, TypeOK, QTypeOK
  <2>2. UNCHANGED kvars /\ CallsAgree' /\ LostAreEmpty'
    BY <2>1, CreateDoes
  <2> QED BY <2>1, <2>2, EmptiedInv
<1> QED BY <1>1, <1>2

LEMMA QFlushInv ==
  ASSUME OInv, NEW t \in Task, NEW q \in Queue, OSQFlush(t, q), UNCHANGED fvars, SameCalls
  PROVE  OInv'
<1>1. /\ UNCHANGED <<kvars, want, flagsRdy, flags, post, gone, msgPtr>>
      /\ msgs' = [msgs EXCEPT ![q] = << >>] /\ msgPtr \in [Task -> Msg \cup {NoMsg}]
      /\ CallsAgree'
  BY DEF OSQFlush, fvars, OInv, TypeOK, QTypeOK, SameCalls
<1>2. LostAreEmpty'
  BY <1>1, LostStay DEF kvars, OInv
<1> QED BY <1>1, <1>2, EmptiedInv

(* A step of the kernel ends at most one wait, never with OK on a group.   *)
LEMMA KernelInv ==
  ASSUME OInv, NeverSuspends, KNext, KernelMsgs, UNCHANGED fvars, SameCalls
  PROVE  OInv'
<1>1. KInv' /\ EmptyStays /\ Places' /\ WaitsEffect /\ NobodySuspended'
  BY KNextInv, KNextWaits, KNextSuspends DEF OInv, NeverSuspends
<1>2. /\ UNCHANGED <<flags, want, flagsRdy, msgs>> /\ MsgPtrs
      /\ post' \in {NoMsg, post}
  BY DEF KernelMsgs, fvars
<1>3. /\ FlagTypeOK' /\ QTypeOK' /\ msgs' \in [Queue -> Seq(Msg)] /\ CallsAgree'
  BY <1>2, MsgPtrsType DEF OInv, TypeOK, FlagTypeOK, QTypeOK, SameCalls
<1>4. NoMessageWaits'
  BY <1>1, <1>2, Kinds DEF OInv, NoMessageWaits, EmptyStays
<1>5. LostAreEmpty'
  BY <1>1, LostStayEmpty DEF OInv, SameCalls
<1>6. os.pendObj \in [Task -> Obj \cup {NoObj}] /\ os.pendStatus \in [Task -> Status]
  BY DEF OInv, KInv, KTypeOK, TCBTables
<1>7. CASE WaitsStay /\ NoPost
  <2>1. PostsAreToQueues'
    BY <1>7 DEF NoPost, PostsAreToQueues
  <2>2. WantsAgree'
    BY <1>2, <1>7 DEF WaitsStay, SamePlaces, OInv, WantsAgree
  <2>3. OkMeansEnough'
    BY <1>2, <1>7 DEF WaitsStay, SamePlaces, InPend, OInv, OkMeansEnough
  <2> QED BY <1>1, <1>3, <1>4, <1>5, <2>1, <2>2, <2>3 DEF OInv, TypeOK, KInv, CallsAgree
<1>8. ASSUME NEW t \in Task, NEW status \in Status, WaitEnds(t, status),
             status = "OK" => os.pendObj[t] \in Queue, PostsAreToQueues'
      PROVE  OInv'
  <2>1. /\ SamePlaces
        /\ os'.pendObj[t] = NoObj /\ os'.pendStatus[t] = status
        /\ \A u \in Task \ {t} : /\ os'.pendObj[u] = os.pendObj[u]
                                 /\ os'.pendStatus[u] = os.pendStatus[u]
    BY <1>6, <1>8 DEF WaitEnds
  <2>2. WantsAgree'
    BY <1>2, <2>1, Kinds DEF SamePlaces, OInv, WantsAgree
  <2>3. status = "OK" => want[t] = NoWant
    BY <1>8 DEF OInv, WantsAgree
  <2>4. OkMeansEnough'
    BY <1>2, <2>1, <2>3 DEF SamePlaces, InPend, OInv, OkMeansEnough
  <2> QED BY <1>1, <1>3, <1>4, <1>5, <1>8, <2>2, <2>4 DEF OInv, TypeOK, KInv, CallsAgree
<1>9. ASSUME NEW t \in Task, NEW status \in {"TIMEOUT", "ABORT"},
             WaitEnds(t, status), NoPost
      PROVE  OInv'
  <2>1. PostsAreToQueues' /\ status \in Status /\ status # "OK"
    BY <1>9 DEF NoPost, PostsAreToQueues, Status
  <2> QED BY <1>8, <1>9, <2>1
<1>10. ASSUME NEW t \in Task, WaitEnds(t, "OK"), OneFewer,
              crit.op = "post", os.pendObj[t] = crit.obj
       PROVE  OInv'
  <2>1. /\ crit.obj \in Queue /\ "OK" \in Status
        /\ crit \in [op : {"none", "post", "abort", "tick"}, obj : Obj \cup {NoObj},
                     opt : Options, left : Nat, due : SUBSET Task]
    BY <1>10 DEF OInv, KInv, KTypeOK, PostsAreToQueues, Status
  <2>2. PostsAreToQueues'
    BY <1>10, <2>1 DEF OneFewer, Free, PostsAreToQueues
  <2> QED BY <1>8, <1>10, <2>1, <2>2
<1> QED BY <1>1, <1>7, <1>9, <1>10 DEF WaitsEffect

LEMMA StutterObjects == OInv /\ UNCHANGED vars => OInv'
<1> SUFFICES ASSUME OInv, UNCHANGED vars PROVE OInv'
  OBVIOUS
<1>1. UNCHANGED kvars /\ UNCHANGED fvars /\ UNCHANGED qvars /\ UNCHANGED os /\ SameCalls
  BY CallsStutter DEF vars, kvars, OInv, SameCalls
<1>2. LostAreEmpty'
  BY <1>1, LostStay DEF OInv, SameCalls
<1> QED
  BY <1>1, <1>2, QuietInv
  DEF fvars, qvars, kvars, OInv, TypeOK, FlagTypeOK, QTypeOK, NoMessageWaits, SameCalls

(* A test of Type, and a call that found nothing to do.                    *)
LEMMA TestedInv ==
  ASSUME OInv, UNCHANGED kvars, KernelMsgs, UNCHANGED fvars, SameCalls PROVE OInv'
<1>1. UNCHANGED <<os, flags, want, flagsRdy, msgs>> /\ post' \in {NoMsg, post}
  BY DEF kvars, fvars, KernelMsgs
<1>2. msgPtr' \in [Task -> Msg \cup {NoMsg}]
  BY MsgPtrsType DEF KernelMsgs
<1>3. LostAreEmpty' /\ CallsAgree'
  BY <1>1, LostStay DEF OInv, SameCalls
<1>4. FlagTypeOK' /\ QTypeOK' /\ msgs' \in [Queue -> Seq(Msg)] /\ NoMessageWaits'
  BY <1>1, <1>2 DEF OInv, TypeOK, FlagTypeOK, QTypeOK, NoMessageWaits
<1> QED BY <1>1, <1>3, <1>4, QuietInv

LEMMA ReturnsCalls ==
  ASSUME OInv, UNCHANGED callvars PROVE SameCalls
  BY CallsStutter DEF OInv, SameCalls

LEMMA PassedSame ==
  ASSUME OInv, NEW o \in Obj, Passed(o) PROVE SameCalls /\ o \notin Lost
  BY PassedCalls DEF OInv, SameCalls

LEMMA NextObjects == OInv /\ NeverSuspends /\ Orderly /\ [Next]_vars => OInv'
<1> SUFFICES ASSUME OInv, NeverSuspends, Orderly, [Next]_vars PROVE OInv'
  OBVIOUS
<1>1. ASSUME CNext, KernelMsgs, UNCHANGED fvars PROVE OInv'
  <2>1. SameCalls /\ (KNext \/ UNCHANGED kvars)
    BY <1>1, CNextCalls DEF OInv, SameCalls
  <2> QED BY <1>1, <2>1, KernelInv, TestedInv
<1>2. ASSUME NEW g \in Grp, Passed(g), FlagCalls(g), UNCHANGED qvars PROVE OInv'
  <2>1. SameCalls /\ g \in Grp \ Lost
    BY <1>2, PassedSame, Kinds
  <2> QED BY <1>2, <2>1, FlagPostInv, FlagPendInv DEF FlagCalls
<1>3. ASSUME NEW q \in Queue, Passed(q), QCalls(q), UNCHANGED fvars PROVE OInv'
  <2>1. SameCalls /\ q \in Queue \ Lost
    BY <1>3, PassedSame, Kinds
  <2> QED BY <1>3, <2>1, QPostInv, QPendInv, QFlushInv DEF QCalls
<1>4. ASSUME NEW t \in Task, want[t] # NoWant, OSFlagPendReturn(t), UNCHANGED qvars,
             UNCHANGED callvars
      PROVE  OInv'
  BY <1>4, FlagPendReturnInv, ReturnsCalls
<1>5. ASSUME NEW t \in Task, want[t] = NoWant, OSQPendReturn(t), UNCHANGED fvars,
             UNCHANGED callvars
      PROVE  OInv'
  BY <1>5, QPendReturnInv, ReturnsCalls
<1>6. ASSUME NEW t \in Task, NEW opt \in {"NO_PEND", "ALWAYS"},
             \/ \E g \in Grp : OSFlagDel(t, g, opt)
             \/ \E q \in Queue : OSQDel(t, q, opt)
      PROVE  OInv'
  BY <1>6, FlagDelInv, QDelInv
<1>7. ASSUME NEW t \in Task,
             \/ \E g \in Grp : OSFlagCreate(t, g)
             \/ \E q \in Queue : OSQCreate(t, q)
      PROVE  OInv'
  BY <1>7, CreateInv
<1> QED BY <1>1, <1>2, <1>3, <1>4, <1>5, <1>6, <1>7, StutterObjects DEF Next

-----------------------------------------------------------------------------
(* Whoever waits for flags is not satisfied by them.                       *)

LEMMA FewerMatch ==
  ASSUME NEW w, w.mode \in Modes, NEW a, NEW b, a \subseteq b, b \subseteq w.flags,
         ~Enough(w, b)
  PROVE  ~Enough(w, a)
<1>1. CASE w.mode \in {"SET_ALL", "CLR_ALL"}
  <2>1. a = w.flags => b = w.flags
    OBVIOUS
  <2> QED BY <1>1, <2>1 DEF Enough
<1>2. CASE w.mode \in {"SET_ANY", "CLR_ANY"}
  <2>1. w.mode \notin {"SET_ALL", "CLR_ALL"}
    BY <1>2
  <2> QED BY <2>1 DEF Enough
<1> QED BY <1>1, <1>2 DEF Modes

LEMMA ConsumedStays ==
  ASSUME NEW v \in Wants, NEW w \in Wants, v.grp = w.grp, ~Feeds(v, w),
         NEW set \in SUBSET Flag, NEW rdy \in SUBSET v.flags, ~Satisfied(w, set)
  PROVE  ~Satisfied(w, Consume(v, rdy, set))
<1>1. v.mode \in Modes /\ w.mode \in Modes /\ v.consume \in BOOLEAN
  BY FlagAssumption DEF Request
<1>2. CASE ~v.consume
  BY <1>1, <1>2 DEF Consume
<1>3. CASE v.consume /\ WantsSet(v) /\ WantsSet(w)
  <2>1. Consume(v, rdy, set) = set \ rdy
    BY <1>3 DEF Consume, WantsSet
  <2>2. Matching(w, set \ rdy) \subseteq Matching(w, set) /\ Matching(w, set) \subseteq w.flags
    BY <1>3 DEF Matching, WantsSet
  <2>3. ~Enough(w, Matching(w, set \ rdy))
    BY <1>1, <2>2, FewerMatch DEF Satisfied
  <2> QED BY <2>1, <2>3 DEF Satisfied
<1>4. CASE v.consume /\ ~WantsSet(v) /\ ~WantsSet(w)
  <2>1. Consume(v, rdy, set) = set \cup rdy
    BY <1>1, <1>4 DEF Consume, WantsSet, Modes
  <2>2. /\ Matching(w, set \cup rdy) \subseteq Matching(w, set)
        /\ Matching(w, set) \subseteq w.flags
    BY <1>4 DEF Matching, WantsSet
  <2>3. ~Enough(w, Matching(w, set \cup rdy))
    BY <1>1, <2>2, FewerMatch DEF Satisfied
  <2> QED BY <2>1, <2>3 DEF Satisfied
<1>5. CASE v.consume /\ WantsSet(v) /\ ~WantsSet(w)
  <2>1. Consume(v, rdy, set) = set \ rdy /\ rdy \cap w.flags = {}
    BY <1>5 DEF Consume, WantsSet, Feeds
  <2>2. Matching(w, set \ rdy) = Matching(w, set)
    BY <1>5, <2>1 DEF Matching, WantsSet
  <2> QED BY <2>1, <2>2 DEF Satisfied
<1>6. CASE v.consume /\ ~WantsSet(v) /\ WantsSet(w)
  <2>1. Consume(v, rdy, set) = set \cup rdy /\ rdy \cap w.flags = {}
    BY <1>1, <1>6 DEF Consume, WantsSet, Modes, Feeds
  <2>2. Matching(w, set \cup rdy) = Matching(w, set)
    BY <1>6, <2>1 DEF Matching, WantsSet
  <2> QED BY <2>1, <2>2 DEF Satisfied
<1> QED BY <1>1, <1>2, <1>3, <1>4, <1>5, <1>6

Unfed(w) == \A v \in Wants : ~Feeds(v, w)

(* The flags v consumes satisfy nobody it does not feed.                   *)
LEMMA ConsumptionWakesNobody ==
  ASSUME OInv, NoWaiterSatisfied, NEW v \in Wants, NEW rdy \in SUBSET v.flags,
         flags' = [flags EXCEPT ![v.grp] = Consume(v, rdy, @)],
         \A u \in Task : os.pendObj[u] \in Grp => want'[u] = want[u],
         UNCHANGED os
  PROVE  NoWaiterSatisfied'
<1>1. v.grp \in Grp /\ flags \in [Grp -> SUBSET Flag]
  BY FlagAssumption DEF Request, OInv, TypeOK, FlagTypeOK
<1>2. ASSUME NEW u \in Task, os.pendObj[u] \in Grp, Unfed(want'[u])
      PROVE  ~Satisfied(want'[u], flags'[os.pendObj[u]])
  <2>1. /\ want[u] \in Wants /\ want[u].grp = os.pendObj[u] /\ want'[u] = want[u]
        /\ ~Feeds(v, want[u])
    BY <1>2, Kinds DEF OInv, WantsAgree, Unfed
  <2>2. ~Satisfied(want[u], flags[os.pendObj[u]])
    BY <1>2, <2>1 DEF NoWaiterSatisfied, Unfed
  <2>3. CASE os.pendObj[u] = v.grp
    <3>1. flags'[v.grp] = Consume(v, rdy, flags[v.grp]) /\ flags[v.grp] \in SUBSET Flag
      BY <1>1
    <3>2. ~Satisfied(want[u], Consume(v, rdy, flags[v.grp]))
      BY <2>1, <2>2, <2>3, <3>1, ConsumedStays
    <3> QED BY <2>1, <2>3, <3>1, <3>2
  <2>4. CASE os.pendObj[u] # v.grp
    BY <1>1, <1>2, <2>1, <2>2, <2>4
  <2> QED BY <2>3, <2>4
<1> QED BY <1>2 DEF NoWaiterSatisfied, Unfed

(* A step that begins no wait for flags and leaves those of the groups that*)
(* are waited for.                                                         *)
LEMMA FewerWait ==
  ASSUME OInv, NoWaiterSatisfied,
         \A t \in Task : os'.pendObj[t] \in Grp =>
           /\ os'.pendObj[t] = os.pendObj[t] /\ want'[t] = want[t]
           /\ flags'[os.pendObj[t]] = flags[os.pendObj[t]]
  PROVE  NoWaiterSatisfied'
  BY DEF NoWaiterSatisfied

LEMMA EmptyMeansNone ==
  ASSUME OInv, NEW o \in Obj, os.pend[o] = << >> PROVE \A t \in Task : os.pendObj[t] # o
<1>1. ListOf(os.pend[o], Waiters(os, o))
  BY PendAgreesLists DEF OInv, KInv, Good
<1>2. Waiters(os, o) = {}
  BY <1>1, ListOfNone
<1> QED BY <1>2 DEF Waiters

LEMMA FlagPendSatisfies ==
  ASSUME OInv, NoWaiterSatisfied, NEW t \in Task, NEW w \in Wants,
         w.grp \in Grp \ Lost, NEW timeout \in Timeouts, OSFlagPend(t, w, timeout),
         UNCHANGED gone
  PROVE  NoWaiterSatisfied'
<1> DEFINE g   == w.grp
           rdy == Matching(w, flags[g])
<1>1. /\ Running(t) /\ UNCHANGED <<nest, lock, crit>> /\ g \in Grp /\ g \in Obj \ Lost
      /\ w \in Request /\ flags \in [Grp -> SUBSET Flag]
      /\ want \in [Task -> Request \cup {NoWant}]
  BY FlagAssumption, Kinds DEF OSFlagPend, OInv, TypeOK, FlagTypeOK
<1>2. CASE flags' = [flags EXCEPT ![g] = Consume(w, rdy, @)] /\ UNCHANGED <<os, want>>
  <2>1. rdy \in SUBSET w.flags
    BY DEF Matching
  <2> HIDE DEF rdy
  <2> QED BY <1>2, <2>1, ConsumptionWakesNobody
<1>3. CASE /\ ~Enough(w, rdy) /\ lock = 0 /\ want' = [want EXCEPT ![t] = w]
           /\ os' = OS_Pend(os, g, "FLAG", timeout) /\ Goto(t, "pend") /\ UNCHANGED flags
  <2>1. os'.pendObj = [os.pendObj EXCEPT ![t] = g]
    <3> HIDE DEF g
    <3> QED BY <1>1, <1>3, BlockDoes
  <2>2. os.pendObj \in [Task -> Obj \cup {NoObj}]
    BY DEF OInv, KInv, KTypeOK, TCBTables
  <2>3. ~Satisfied(w, flags[g])
    BY <1>3 DEF Satisfied
  <2>4. /\ os'.pendObj[t] = g /\ want'[t] = w
        /\ \A u \in Task \ {t} : os'.pendObj[u] = os.pendObj[u] /\ want'[u] = want[u]
    BY <1>1, <1>3, <2>1, <2>2
  <2> QED BY <1>3, <2>3, <2>4 DEF NoWaiterSatisfied
<1> QED BY <1>2, <1>3 DEF OSFlagPend

LEMMA FlagPendReturnSatisfies ==
  ASSUME OInv, NoWaiterSatisfied, NEW t \in Task, want[t] # NoWant,
         OSFlagPendReturn(t)
  PROVE  NoWaiterSatisfied'
<1>1. os.pendObj[t] = NoObj /\ InPend(t)
  BY ReturnDoes DEF OSFlagPendReturn
<1>2. /\ UNCHANGED os /\ want' = [want EXCEPT ![t] = NoWant] /\ want[t] \in Wants
      /\ want \in [Task -> Request \cup {NoWant}]
  BY DEF OSFlagPendReturn, OInv, WantsAgree, TypeOK, FlagTypeOK
<1>3. \A u \in Task : os.pendObj[u] \in Grp => want'[u] = want[u]
  BY <1>1, <1>2, Kinds
<1>4. CASE os.pendStatus[t] = "OK"
  <2>1. flags' = [flags EXCEPT ![want[t].grp] = Consume(want[t], flagsRdy[t], @)]
    BY <1>4 DEF OSFlagPendReturn
  <2>2. flagsRdy[t] \in SUBSET want[t].flags
    BY <1>1, <1>4 DEF OInv, OkMeansEnough, InPend
  <2> QED BY <1>2, <1>3, <2>1, <2>2, ConsumptionWakesNobody
<1>5. CASE os.pendStatus[t] # "OK"
  <2>1. flags' = flags
    BY <1>5 DEF OSFlagPendReturn
  <2> QED BY <1>2, <1>3, <2>1, FewerWait
<1> QED BY <1>4, <1>5

LEMMA FlagPostSatisfies ==
  ASSUME OInv, NoWaiterSatisfied, NEW g \in Grp, NEW mask \in Masks, NEW op \in {"SET", "CLR"},
         NEW opt \in Options, OSFlagPost(g, mask, op, opt)
  PROVE  NoWaiterSatisfied'
<1> DEFINE set == FlagsAfter(g, mask, op)
           W   == Answered(g, set)
<1>1. /\ Told(os, os', "OK", g, W) /\ flags' = [flags EXCEPT ![g] = set]
      /\ UNCHANGED want /\ flags \in [Grp -> SUBSET Flag]
  BY FlagPostDoes DEF OInv, TypeOK, FlagTypeOK
<1> HIDE DEF set
<1>2. ASSUME NEW t \in Task, os'.pendObj[t] \in Grp, Unfed(want'[t])
      PROVE  ~Satisfied(want'[t], flags'[os'.pendObj[t]])
  <2>1. t \notin W /\ os'.pendObj[t] = os.pendObj[t]
    BY <1>1, <1>2, Kinds DEF Told
  <2>2. CASE os.pendObj[t] = g
    <3>1. ~Satisfied(want[t], set)
      BY <2>1, <2>2 DEF Answered, Waiters
    <3> QED BY <1>1, <2>1, <2>2, <3>1
  <2>3. CASE os.pendObj[t] # g
    <3>1. ~Satisfied(want[t], flags[os.pendObj[t]])
      BY <1>1, <1>2, <2>1 DEF NoWaiterSatisfied, Unfed
    <3> QED BY <1>1, <1>2, <2>1, <2>3, <3>1
  <2> QED BY <2>2, <2>3
<1> QED BY <1>2 DEF NoWaiterSatisfied, Unfed

LEMMA QSatisfies ==
  ASSUME OInv, NoWaiterSatisfied, NEW p \in Queue \ Lost, QCalls(p), UNCHANGED fvars,
         UNCHANGED gone
  PROVE  NoWaiterSatisfied'
<1>1. UNCHANGED <<flags, want>>
  BY DEF fvars
<1>2. ASSUME UNCHANGED os PROVE NoWaiterSatisfied'
  BY <1>1, <1>2 DEF NoWaiterSatisfied
<1>3. ASSUME NEW t \in Task, NEW q \in Queue \ Lost, NEW timeout \in Timeouts,
             OSQPend(t, q, timeout)
      PROVE  NoWaiterSatisfied'
  <2>1. CASE UNCHANGED os
    BY <1>2, <2>1
  <2>2. CASE lock = 0 /\ os' = OS_Pend(os, q, "Q", timeout) /\ Goto(t, "pend")
    <3>1. Running(t) /\ q \in Obj \ Lost /\ UNCHANGED <<nest, lock, crit>>
      BY <1>3, Kinds DEF OSQPend
    <3>2. os'.pendObj = [os.pendObj EXCEPT ![t] = q]
      BY <2>2, <3>1, BlockDoes
    <3>3. os.pendObj \in [Task -> Obj \cup {NoObj}] /\ q \notin Grp
      BY Kinds DEF OInv, KInv, KTypeOK, TCBTables
    <3>4. \A u \in Task : os'.pendObj[u] \in Grp => os'.pendObj[u] = os.pendObj[u]
      BY <3>2, <3>3
    <3> QED BY <1>1, <3>4, FewerWait
  <2> QED BY <1>3, <2>1, <2>2 DEF OSQPend
<1>4. ASSUME NEW q \in Queue, NEW m \in Msg, NEW lifo \in BOOLEAN, NEW opt \in Options,
             OSQPost(q, m, lifo, opt)
      PROVE  NoWaiterSatisfied'
  BY <1>2, <1>4 DEF OSQPost, OS_QPost
<1>5. ASSUME NEW q \in Queue, NEW t \in Task, OSQFlush(t, q) PROVE NoWaiterSatisfied'
  BY <1>2, <1>5 DEF OSQFlush, kvars
<1> QED BY <1>3, <1>4, <1>5 DEF QCalls

LEMMA DeletionSatisfies ==
  ASSUME OInv, NoWaiterSatisfied, NEW t \in Task, NEW o \in Obj,
         NEW opt \in {"NO_PEND", "ALWAYS"}, PendListDel(t, o, opt), UNCHANGED want,
         \A g \in Grp \ {o} : flags'[g] = flags[g]
  PROVE  NoWaiterSatisfied'
<1>1. CASE opt = "NO_PEND"
  <2>1. UNCHANGED os /\ \A u \in Task : os.pendObj[u] # o
    BY <1>1, NobodyDoes, EmptyMeansNone DEF kvars
  <2> QED BY <2>1, FewerWait
<1>2. CASE opt = "ALWAYS"
  <2>1. Told(os, os', "DEL", o, Waiters(os, o))
    BY <1>2, DeleteDoes
  <2>2. ASSUME NEW u \in Task, os'.pendObj[u] \in Grp
        PROVE  os'.pendObj[u] = os.pendObj[u] /\ os.pendObj[u] # o
    BY <2>1, <2>2, Kinds DEF Told, Waiters
  <2> QED BY <2>2, FewerWait
<1> QED BY <1>1, <1>2

LEMMA FlagsNext ==
  OInv /\ NoWaiterSatisfied /\ NeverSuspends /\ Orderly /\ [Next]_vars
    => NoWaiterSatisfied'
<1> SUFFICES ASSUME OInv, NoWaiterSatisfied, NeverSuspends, Orderly, [Next]_vars
             PROVE  NoWaiterSatisfied'
  OBVIOUS
<1>0. flags \in [Grp -> SUBSET Flag]
  BY DEF OInv, TypeOK, FlagTypeOK
<1>1. ASSUME CNext, UNCHANGED fvars PROVE NoWaiterSatisfied'
  <2>1. UNCHANGED <<flags, want>>
    BY <1>1 DEF fvars
  <2>2. os.pendObj \in [Task -> Obj \cup {NoObj}]
    BY DEF OInv, KInv, KTypeOK, TCBTables
  <2>3. ASSUME KNext
        PROVE  \A t \in Task : os'.pendObj[t] = os.pendObj[t] \/ os'.pendObj[t] = NoObj
    <3>1. WaitsEffect
      BY <2>3, KNextWaits DEF OInv
    <3> QED BY <2>2, <3>1 DEF WaitsEffect, WaitsStay, WaitEnds
  <2>4. KNext \/ UNCHANGED os
    BY <1>1, CNextCalls DEF OInv, kvars
  <2> QED BY <2>1, <2>3, <2>4, FewerWait, Kinds
<1>2. ASSUME NEW g \in Grp, Passed(g), FlagCalls(g) PROVE NoWaiterSatisfied'
  <2>1. g \in Grp \ Lost /\ UNCHANGED gone
    BY <1>2, PassedSame, Kinds DEF SameCalls
  <2> QED BY <1>2, <2>1, FlagPostSatisfies, FlagPendSatisfies DEF FlagCalls
<1>3. ASSUME NEW q \in Queue, Passed(q), QCalls(q), UNCHANGED fvars
      PROVE  NoWaiterSatisfied'
  <2>1. q \in Queue \ Lost /\ UNCHANGED gone
    BY <1>3, PassedSame, Kinds DEF SameCalls
  <2> QED BY <1>3, <2>1, QSatisfies
<1>4. ASSUME NEW t \in Task, want[t] # NoWant, OSFlagPendReturn(t)
      PROVE  NoWaiterSatisfied'
  BY <1>4, FlagPendReturnSatisfies
<1>5. ASSUME NEW t \in Task, OSQPendReturn(t), UNCHANGED fvars
      PROVE  NoWaiterSatisfied'
  BY <1>5 DEF OSQPendReturn, fvars, NoWaiterSatisfied
<1>6. ASSUME NEW t \in Task, NEW opt \in {"NO_PEND", "ALWAYS"}, NEW g \in Grp,
             OSFlagDel(t, g, opt)
      PROVE  NoWaiterSatisfied'
  BY <1>0, <1>6, DeletionSatisfies, Kinds DEF OSFlagDel
<1>7. ASSUME NEW t \in Task, NEW opt \in {"NO_PEND", "ALWAYS"}, NEW q \in Queue,
             OSQDel(t, q, opt)
      PROVE  NoWaiterSatisfied'
  BY <1>7, DeletionSatisfies, Kinds DEF OSQDel, fvars
<1>8. ASSUME NEW t \in Task, NEW g \in Grp, OSFlagCreate(t, g) PROVE NoWaiterSatisfied'
  <2>1. /\ Create(t, g) /\ flags' = [flags EXCEPT ![g] = {}] /\ UNCHANGED want /\ g \in Obj
    BY <1>8, Kinds DEF OSFlagCreate
  <2>2. UNCHANGED os /\ \A u \in Task : os.pendObj[u] # g
    BY <2>1, CreateDoes, EmptyMeansNone DEF kvars
  <2> QED BY <1>0, <2>1, <2>2, FewerWait
<1>9. ASSUME NEW t \in Task, NEW q \in Queue, OSQCreate(t, q) PROVE NoWaiterSatisfied'
  <2>1. q \in Obj /\ Create(t, q) /\ UNCHANGED <<flags, want>>
    BY <1>9, Kinds DEF OSQCreate, fvars
  <2>2. UNCHANGED os
    BY <2>1, CreateDoes DEF kvars
  <2> QED BY <2>1, <2>2, FewerWait
<1>10. CASE UNCHANGED vars
  BY <1>10 DEF vars, kvars, fvars, NoWaiterSatisfied
<1> QED BY <1>1, <1>2, <1>3, <1>4, <1>5, <1>6, <1>7, <1>8, <1>9, <1>10 DEF Next

LEMMA FlagsInit == Init => NoWaiterSatisfied
<1> SUFFICES ASSUME Init PROVE NoWaiterSatisfied
  OBVIOUS
<1>1. PICK lists : os = OS_TASK_SW(InitTables(lists))
  BY DEF Init, KInit
<1>2. os.pendObj = [t \in Task |-> NoObj]
  BY <1>1 DEF OS_TASK_SW, InitTables
<1> QED BY <1>2, Kinds DEF NoWaiterSatisfied

-----------------------------------------------------------------------------
(* Every step is a step of AbsQ or changes nothing of it.                  *)

(* How a pend ended, by the pend table.                                    *)
LEMMA OutcomeIs ==
  ASSUME KInv, NEW t \in Task
  PROVE  Outcome(t) = IF ~InPend(t) \/ want[t] # NoWant \/ os.pendObj[t] # NoObj THEN {}
                      ELSE IF os.pendStatus[t] = "OK" THEN {msgPtr[t]} ELSE {"nothing"}
<1>1. os.pendObj[t] # NoObj <=> "PEND" \in os.state[t]
  BY DEF KInv, Good, PendAgrees
<1> QED BY <1>1 DEF Outcome, InPend

(* The same after a step.                                                  *)
LEMMA OutcomeBecomes ==
  ASSUME KInv', NEW t \in Task
  PROVE  Outcome(t)' = IF ~InPend(t)' \/ want'[t] # NoWant \/ os'.pendObj[t] # NoObj
                       THEN {}
                       ELSE IF os'.pendStatus[t] = "OK" THEN {msgPtr'[t]} ELSE {"nothing"}
<1>1. os'.pendObj[t] # NoObj <=> "PEND" \in os'.state[t]
  BY DEF KInv, Good, PendAgrees
<1> QED BY <1>1 DEF Outcome, InPend

(* A wait that AbsQ sees as before: nothing of it changed, or it is one for*)
(* flags.                                                                  *)
LEMMA SeenAlike ==
  ASSUME KInv, KInv', NEW t \in Task, InPend(t)' <=> InPend(t), want'[t] = want[t],
         \/ want[t] # NoWant
         \/ /\ os'.pendObj[t] = os.pendObj[t] /\ os'.pendStatus[t] = os.pendStatus[t]
            /\ msgPtr'[t] = msgPtr[t]
  PROVE  Outcome(t)' = Outcome(t)
  BY OutcomeIs, OutcomeBecomes

LEMMA Unseen ==
  ASSUME UNCHANGED msgs, \A q \in Queue : Handing(q)' = Handing(q),
         \A t \in Task : WaitsOn(t)' = WaitsOn(t) /\ Outcome(t)' = Outcome(t)
  PROVE  UNCHANGED Abs!avars
  BY DEF Abs!avars

LEMMA WaitersAre ==
  ASSUME KInv, NEW q \in Queue
  PROVE  /\ Abs!Waiting(q) = Waiters(os, q)
         /\ os.pend[q] = << >> <=> Abs!Waiting(q) = {}
         /\ Len(os.pend[q]) = Abs!Cardinality(Abs!Waiting(q))
<1>1. q \in Obj /\ q # NoObj
  BY Kinds
<1>2. \A t \in Task : WaitsOn(t) = q <=> os.pendObj[t] = q
  BY <1>1 DEF WaitsOn
<1>3. Abs!Waiting(q) = Waiters(os, q)
  BY <1>2 DEF Abs!Waiting, Waiters
<1>4. ListOf(os.pend[q], Waiters(os, q))
  BY <1>1, PendAgreesLists DEF KInv, Good
<1>5. Abs!Cardinality(Waiters(os, q)) = Cardinality(Waiters(os, q))
  BY DEF Abs!Cardinality, Cardinality
<1> QED BY <1>3, <1>4, <1>5, ListOfNone, ListOfLength

LEMMA TotalIs == Abs!Total = NbrUsed
  BY DEF Abs!Total, NbrUsed, Abs!MapThenSumSet, MapThenSumSet,
         Abs!MapThenFoldSet, MapThenFoldSet

(* The running task is outside any wait.                                   *)
LEMMA RunningOutside ==
  ASSUME OInv, NEW t \in Task, Running(t) PROVE Abs!Outside(t)
<1>1. pc[t] = "run" /\ os.pendObj[t] = NoObj
  BY RunningAlone
<1> QED BY <1>1, Kinds DEF Abs!Outside, Outcome, WaitsOn

(* A post hands its message over, or queues it.                            *)
LEMMA QPostMaps ==
  ASSUME OInv, NEW q \in Queue \ Lost, NEW m \in Msg, NEW lifo \in BOOLEAN,
         NEW opt \in Options, OSQPost(q, m, lifo, opt), UNCHANGED fvars
  PROVE  Abs!Queued(q, m) \/ Abs!Handed(q, m)
<1>1. crit = Free /\ crit.op = "none" /\ UNCHANGED <<os, pc, msgPtr, want>>
  BY DEF OSQPost, OS_QPost, Running, Free, fvars
<1>2. /\ UNCHANGED [t \in Task |-> WaitsOn(t)]
      /\ UNCHANGED [t \in Task |-> Outcome(t)]
  BY <1>1 DEF WaitsOn, Outcome
<1>3. CASE os.pend[q] = << >>
  <2>1. /\ Len(msgs[q]) < Size[q] /\ NbrUsed < PoolSize
        /\ \/ msgs' = [msgs EXCEPT ![q] = Append(@, m)]
           \/ msgs' = [msgs EXCEPT ![q] = <<m>> \o @]
        /\ UNCHANGED <<crit, post>>
    BY <1>3 DEF OSQPost, OS_QPost, OS_MsgQPut
  <2>2. UNCHANGED [p \in Queue |-> Handing(p)]
    BY <2>1 DEF Handing
  <2>3. Abs!Waiting(q) = {} /\ Abs!Total < PoolSize
    BY <1>3, <2>1, WaitersAre, TotalIs DEF OInv
  <2> QED BY <1>2, <2>1, <2>2, <2>3 DEF Abs!Queued
<1>4. CASE os.pend[q] # << >>
  <2> DEFINE n == IF "ALL" \in opt THEN Len(os.pend[q]) ELSE 1
  <2>1. crit' = PendLoop("post", q, opt, n) /\ post' = m /\ UNCHANGED msgs
    BY <1>4 DEF OSQPost, OS_QPost
  <2>2. n \in {1, Abs!Cardinality(Abs!Waiting(q))} /\ Abs!Waiting(q) # {}
    BY <1>4, WaitersAre DEF OInv
  <2> HIDE DEF n
  <2>3. crit'.op = "post" /\ crit'.obj = q /\ crit'.left = n
    BY <2>1 DEF PendLoop
  <2>4. ASSUME NEW p \in Queue
        PROVE  Handing(p)' = IF p = q THEN [left |-> n, msg |-> m] ELSE Handing(p)
    BY <1>1, <2>1, <2>3 DEF Handing
  <2>5. [p \in Queue |-> Handing(p)]'
          = [[p \in Queue |-> Handing(p)] EXCEPT ![q] = [left |-> n, msg |-> m]]
    BY <2>4
  <2>6. [p \in Queue |-> Handing(p)][q].left = 0
    BY <1>1 DEF Handing
  <2> QED BY <1>2, <2>1, <2>2, <2>5, <2>6 DEF Abs!Handed
<1> QED BY <1>3, <1>4

(* A pend receives the oldest message, or waits.                           *)
LEMMA QPendMaps ==
  ASSUME OInv, OInv', NEW t \in Task, NEW q \in Queue \ Lost, NEW timeout \in Timeouts,
         OSQPend(t, q, timeout), UNCHANGED fvars, SameCalls
  PROVE  Abs!Receive(t, q) \/ Abs!Wait(t, q)
<1>1. /\ Running(t) /\ UNCHANGED <<nest, lock, crit, msgPtr, post, want>>
      /\ Abs!Outside(t) /\ q \in Obj \ Lost
  BY RunningOutside, Kinds DEF OSQPend, fvars
<1>2. UNCHANGED [p \in Queue |-> Handing(p)]
  BY <1>1 DEF Handing
<1>3. CASE /\ msgs[q] # << >> /\ msgs' = [msgs EXCEPT ![q] = Tail(@)]
           /\ UNCHANGED <<os, pc>>
  <2>1. /\ UNCHANGED [u \in Task |-> WaitsOn(u)]
        /\ UNCHANGED [u \in Task |-> Outcome(u)]
    BY <1>1, <1>3 DEF WaitsOn, Outcome
  <2> QED BY <1>1, <1>2, <1>3, <2>1 DEF Abs!Receive
<1>4. CASE /\ msgs[q] = << >> /\ lock = 0 /\ os' = OS_Pend(os, q, "Q", timeout)
           /\ Goto(t, "pend") /\ UNCHANGED msgs
  <2>1. /\ InPend(t)' /\ \A u \in Task \ {t} : InPend(u)' <=> InPend(u)
        /\ os'.pendObj = [os.pendObj EXCEPT ![t] = q]
        /\ os'.pendStatus = [os.pendStatus EXCEPT ![t] = "OK"]
    BY <1>1, <1>4, BlockDoes DEF SameCalls
  <2>2. /\ os.pendObj \in [Task -> Obj \cup {NoObj}]
        /\ os.pendStatus \in [Task -> Status]
    BY DEF OInv, KInv, KTypeOK, TCBTables
  <2>3. ASSUME NEW u \in Task PROVE WaitsOn(u)' = IF u = t THEN q ELSE WaitsOn(u)
    BY <2>1, <2>2 DEF WaitsOn
  <2>4. ASSUME NEW u \in Task PROVE Outcome(u)' = Outcome(u)
    <3>1. CASE u = t
      <4>1. Outcome(t) = {}
        BY <1>1 DEF Abs!Outside
      <4>2. os'.pendObj[t] # NoObj
        BY <1>1, <2>1, <2>2, Kinds
      <4> QED BY <3>1, <4>1, <4>2, OutcomeBecomes DEF OInv
    <3>2. CASE u # t
      BY <1>1, <2>1, <2>2, <3>2, SeenAlike DEF OInv
    <3> QED BY <3>1, <3>2
  <2>5. /\ [u \in Task |-> WaitsOn(u)]' = [[u \in Task |-> WaitsOn(u)] EXCEPT ![t] = q]
        /\ UNCHANGED [u \in Task |-> Outcome(u)]
    BY <2>3, <2>4
  <2> QED BY <1>1, <1>2, <1>4, <2>5 DEF Abs!Wait
<1> QED BY <1>3, <1>4 DEF OSQPend

LEMMA QPendReturnMaps ==
  ASSUME OInv, NEW t \in Task, want[t] = NoWant, OSQPendReturn(t), UNCHANGED fvars
  PROVE  Abs!Learn(t)
<1>1. /\ UNCHANGED <<os, crit, msgs, msgPtr, post, want>>
      /\ os.state[t] = {} /\ os.pendObj[t] = NoObj /\ pc[t] = "wake"
      /\ pc' = [pc EXCEPT ![t] = "run"] /\ pc \in [Task -> Where]
  BY ReturnDoes DEF OSQPendReturn, fvars, qvars, Goto, OInv, KInv, KTypeOK
<1>2. Outcome(t) # {} /\ WaitsOn(t) = NoObj
  BY <1>1, Kinds DEF Outcome, WaitsOn
<1>3. ASSUME NEW u \in Task PROVE Outcome(u)' = IF u = t THEN {} ELSE Outcome(u)
  BY <1>1 DEF Outcome
<1>4. [u \in Task |-> Outcome(u)]' = [[u \in Task |-> Outcome(u)] EXCEPT ![t] = {}]
  BY <1>3
<1>5. /\ UNCHANGED [u \in Task |-> WaitsOn(u)]
      /\ UNCHANGED [p \in Queue |-> Handing(p)]
  BY <1>1 DEF WaitsOn, Handing
<1> QED BY <1>1, <1>2, <1>4, <1>5 DEF Abs!Learn

(* A flush, and the creation of a queue that was deleted.                  *)
LEMMA EmptiedMaps ==
  ASSUME NEW q \in Queue, UNCHANGED <<kvars, msgPtr, post, want>>,
         msgs' = [msgs EXCEPT ![q] = << >>]
  PROVE  Abs!Flush(q)
<1>1. /\ UNCHANGED [u \in Task |-> WaitsOn(u)]
      /\ UNCHANGED [u \in Task |-> Outcome(u)]
      /\ UNCHANGED [p \in Queue |-> Handing(p)]
  BY DEF kvars, WaitsOn, Outcome, Handing
<1> QED BY <1>1 DEF Abs!Flush

(* A deletion: whoever waited learns of it.                                *)
LEMMA QDelMaps ==
  ASSUME OInv, OInv', NEW t \in Task, NEW q \in Queue, NEW opt \in {"NO_PEND", "ALWAYS"},
         OSQDel(t, q, opt)
  PROVE  Abs!Flush(q) \/ Abs!Delete(q)
<1>1. /\ PendListDel(t, q, opt) /\ MsgPtrs /\ msgs' = [msgs EXCEPT ![q] = << >>]
      /\ UNCHANGED <<post, want>> /\ q \in Obj /\ q # NoObj
      /\ msgPtr \in [Task -> Msg \cup {NoMsg}]
  BY Kinds DEF OSQDel, fvars, OInv, TypeOK, QTypeOK
<1>2. CASE opt = "NO_PEND"
  <2>1. UNCHANGED kvars
    BY <1>1, <1>2, NobodyDoes
  <2>2. UNCHANGED msgPtr
    BY <1>1, <2>1 DEF MsgPtrs, kvars
  <2> QED BY <1>1, <2>1, <2>2, EmptiedMaps
<1>3. CASE opt = "ALWAYS"
  <2>1. /\ SamePlaces /\ Told(os, os', "DEL", q, Waiters(os, q))
        /\ crit = Free /\ UNCHANGED crit
    BY <1>1, <1>3, DeleteDoes DEF PendListDel, Running
  <2>2. ASSUME NEW u \in Task
        PROVE  IF WaitsOn(u) = q THEN WaitsOn(u)' = NoObj /\ Outcome(u)' = {"nothing"}
               ELSE WaitsOn(u)' = WaitsOn(u) /\ Outcome(u)' = Outcome(u)
    <3>1. WaitsOn(u) = q <=> os.pendObj[u] = q
      BY <1>1 DEF WaitsOn
    <3>2. CASE os.pendObj[u] = q
      <4>1. os'.pendObj[u] = NoObj /\ os'.pendStatus[u] = "DEL"
        BY <2>1, <3>2 DEF Told, Waiters
      <4>2. InPend(u)' /\ want'[u] = NoWant
        BY <1>1, <2>1, <3>2 DEF OInv, Places, SamePlaces, WantsAgree
      <4> QED BY <3>1, <3>2, <4>1, <4>2, OutcomeBecomes, Kinds DEF WaitsOn, OInv
    <3>3. CASE os.pendObj[u] # q
      <4>1. os'.pendObj[u] = os.pendObj[u] /\ os'.pendStatus[u] = os.pendStatus[u]
        BY <2>1, <3>3 DEF Told, Waiters
      <4>2. msgPtr'[u] = msgPtr[u]
        BY <1>1, <4>1 DEF MsgPtrs
      <4> QED BY <1>1, <2>1, <3>1, <3>3, <4>1, <4>2, SeenAlike DEF WaitsOn, OInv, SamePlaces
    <3> QED BY <3>2, <3>3
  <2>3. UNCHANGED [p \in Queue |-> Handing(p)] /\ Handing(q).left = 0
    BY <1>1, <2>1 DEF Handing, Free
  <2>4. /\ [u \in Task |-> WaitsOn(u)]'
              = [u \in Task |-> IF WaitsOn(u) = q THEN NoObj ELSE WaitsOn(u)]
        /\ [u \in Task |-> Outcome(u)]'
              = [u \in Task |-> IF WaitsOn(u) = q THEN {"nothing"} ELSE Outcome(u)]
    BY <2>2
  <2>5. \A u \in Task : [x \in Task |-> WaitsOn(x)][u] = WaitsOn(u)
    OBVIOUS
  <2> QED BY <1>1, <2>3, <2>4, <2>5 DEF Abs!Delete
<1> QED BY <1>2, <1>3

(* The calls on event flags change nothing of any queue.                   *)
LEMMA FlagPendMaps ==
  ASSUME OInv, OInv', NEW t \in Task, NEW w \in Wants, w.grp \in Grp \ Lost,
         NEW timeout \in Timeouts, OSFlagPend(t, w, timeout), UNCHANGED qvars, SameCalls
  PROVE  UNCHANGED Abs!avars
<1> DEFINE g == w.grp
<1>1. /\ Running(t) /\ UNCHANGED <<nest, lock, crit, msgs, msgPtr, post>>
      /\ g \in Obj \ Lost /\ g \notin Queue /\ w # NoWant
      /\ want \in [Task -> Request \cup {NoWant}]
  BY Kinds DEF OSFlagPend, qvars, OInv, TypeOK, FlagTypeOK
<1>2. \A q \in Queue : Handing(q)' = Handing(q)
  BY <1>1 DEF Handing
<1>3. CASE UNCHANGED <<os, pc, want>>
  BY <1>1, <1>2, <1>3, Unseen DEF WaitsOn, Outcome
<1>4. CASE /\ lock = 0 /\ want' = [want EXCEPT ![t] = w]
           /\ os' = OS_Pend(os, g, "FLAG", timeout) /\ Goto(t, "pend")
  <2>1. /\ InPend(t)' /\ \A u \in Task \ {t} : InPend(u)' <=> InPend(u)
        /\ os'.pendObj = [os.pendObj EXCEPT ![t] = g]
        /\ os'.pendStatus = [os.pendStatus EXCEPT ![t] = "OK"]
    <3> HIDE DEF g
    <3> QED BY <1>1, <1>4, BlockDoes DEF SameCalls
  <2>2. /\ os.pendObj \in [Task -> Obj \cup {NoObj}]
        /\ os.pendStatus \in [Task -> Status]
    BY DEF OInv, KInv, KTypeOK, TCBTables
  <2>3. os.pendObj[t] = NoObj /\ ~InPend(t)
    BY <1>1, RunningAlone
  <2> HIDE DEF g
  <2>4. ASSUME NEW u \in Task PROVE WaitsOn(u)' = WaitsOn(u) /\ Outcome(u)' = Outcome(u)
    <3>1. CASE u = t
      <4>1. want'[t] # NoWant /\ os'.pendObj[t] = g
        BY <1>1, <1>4, <2>1, <2>2
      <4>2. Outcome(t) = {} /\ Outcome(t)' = {}
        BY <2>3, <4>1, OutcomeIs, OutcomeBecomes DEF OInv
      <4>3. WaitsOn(t) = NoObj /\ WaitsOn(t)' = NoObj
        BY <1>1, <2>3, <4>1 DEF WaitsOn
      <4> QED BY <3>1, <4>2, <4>3
    <3>2. CASE u # t
      <4>1. os'.pendObj[u] = os.pendObj[u] /\ os'.pendStatus[u] = os.pendStatus[u]
        BY <2>1, <2>2, <3>2
      <4>2. want'[u] = want[u] /\ (InPend(u)' <=> InPend(u)) /\ msgPtr'[u] = msgPtr[u]
        BY <1>1, <1>4, <2>1, <3>2
      <4> QED BY <4>1, <4>2, SeenAlike DEF WaitsOn, OInv
    <3> QED BY <3>1, <3>2
  <2> QED BY <1>1, <1>2, <2>4, Unseen
<1> QED BY <1>3, <1>4 DEF OSFlagPend

LEMMA FlagPendReturnMaps ==
  ASSUME OInv, NEW t \in Task, want[t] # NoWant, OSFlagPendReturn(t), UNCHANGED qvars
  PROVE  UNCHANGED Abs!avars
<1>1. /\ UNCHANGED <<os, crit, msgs, msgPtr, post>>
      /\ want' = [want EXCEPT ![t] = NoWant] /\ want \in [Task -> Request \cup {NoWant}]
      /\ pc' = [pc EXCEPT ![t] = "run"] /\ pc \in [Task -> Where]
  BY DEF OSFlagPendReturn, qvars, Goto, OInv, TypeOK, FlagTypeOK, KInv, KTypeOK
<1>2. ASSUME NEW u \in Task PROVE WaitsOn(u)' = WaitsOn(u) /\ Outcome(u)' = Outcome(u)
  BY <1>1 DEF WaitsOn, Outcome
<1>3. \A q \in Queue : Handing(q)' = Handing(q)
  BY <1>1 DEF Handing
<1> QED BY <1>1, <1>2, <1>3, Unseen

(* A post of flags or the deletion of a group ends only waits for flags.   *)
LEMMA ToldMaps ==
  ASSUME OInv, OInv', NEW status \in Status, NEW g \in Grp, NEW D \in SUBSET Waiters(os, g),
         SamePlaces, Told(os, os', status, g, D),
         UNCHANGED <<want, crit, msgs, msgPtr, post>>
  PROVE  UNCHANGED Abs!avars
<1>1. ASSUME NEW u \in Task PROVE WaitsOn(u)' = WaitsOn(u) /\ Outcome(u)' = Outcome(u)
  <2>1. CASE u \in D
    <3>1. os.pendObj[u] = g /\ os'.pendObj[u] = NoObj
      BY <2>1 DEF Told, Waiters
    <3>2. want[u] # NoWant
      BY <3>1 DEF OInv, WantsAgree
    <3> QED BY <3>1, <3>2, SeenAlike, Kinds DEF WaitsOn, SamePlaces, OInv
  <2>2. CASE u \notin D
    <3>1. os'.pendObj[u] = os.pendObj[u] /\ os'.pendStatus[u] = os.pendStatus[u]
      BY <2>2 DEF Told
    <3> QED BY <3>1, SeenAlike DEF WaitsOn, SamePlaces, OInv
  <2> QED BY <2>1, <2>2
<1>2. \A q \in Queue : Handing(q)' = Handing(q)
  BY DEF Handing
<1> QED BY <1>1, <1>2, Unseen

LEMMA FlagPostMaps ==
  ASSUME OInv, OInv', NEW g \in Grp, NEW mask \in Masks, NEW op \in {"SET", "CLR"},
         NEW opt \in Options, OSFlagPost(g, mask, op, opt), UNCHANGED qvars
  PROVE  UNCHANGED Abs!avars
<1> DEFINE W == Answered(g, FlagsAfter(g, mask, op))
<1>1. /\ SamePlaces /\ Told(os, os', "OK", g, W) /\ UNCHANGED <<want, crit>>
  BY FlagPostDoes
<1>2. W \in SUBSET Waiters(os, g) /\ "OK" \in Status
  BY DEF Answered, Status
<1> HIDE DEF W
<1> QED BY <1>1, <1>2, ToldMaps DEF qvars

(* The kernel's tables do not change: neither does what AbsQ sees.         *)
LEMMA QuietMaps ==
  ASSUME UNCHANGED <<kvars, want, msgs, msgPtr, post>> PROVE UNCHANGED Abs!avars
  BY Unseen DEF kvars, WaitsOn, Outcome, Handing

LEMMA FlagDelMaps ==
  ASSUME OInv, OInv', NEW t \in Task, NEW g \in Grp, NEW opt \in {"NO_PEND", "ALWAYS"},
         OSFlagDel(t, g, opt)
  PROVE  UNCHANGED Abs!avars
<1>1. /\ PendListDel(t, g, opt) /\ UNCHANGED <<want, msgs, msgPtr, post, crit>> /\ g \in Obj
  BY Kinds DEF OSFlagDel, PendListDel, qvars
<1>2. CASE opt = "NO_PEND"
  BY <1>1, <1>2, NobodyDoes, QuietMaps
<1>3. CASE opt = "ALWAYS"
  <2>1. SamePlaces /\ Told(os, os', "DEL", g, Waiters(os, g))
    BY <1>1, <1>3, DeleteDoes
  <2>2. Waiters(os, g) \in SUBSET Waiters(os, g) /\ "DEL" \in Status
    BY DEF Status
  <2> QED BY <1>1, <2>1, <2>2, ToldMaps
<1> QED BY <1>2, <1>3

(* A wait that ends: of one on a queue AbsQ sees the outcome.              *)
LEMMA EndMaps ==
  ASSUME OInv, OInv', KernelMsgs, UNCHANGED want, NEW t \in Task, NEW status \in Status,
         WaitEnds(t, status)
  PROVE  /\ \A u \in Task \ {t} : WaitsOn(u)' = WaitsOn(u) /\ Outcome(u)' = Outcome(u)
         /\ os.pendObj[t] \in Grp => WaitsOn(t)' = WaitsOn(t) /\ Outcome(t)' = Outcome(t)
         /\ os.pendObj[t] \in Queue =>
              /\ WaitsOn(t) = os.pendObj[t] /\ WaitsOn(t)' = NoObj
              /\ Outcome(t)' = IF status # "OK" THEN {"nothing"}
                               ELSE {IF crit.op = "post" THEN post ELSE NoMsg}
<1>1. /\ os.pendObj \in [Task -> Obj \cup {NoObj}]
      /\ os.pendStatus \in [Task -> Status]
  BY DEF OInv, KInv, KTypeOK, TCBTables
<1>2. /\ os'.pendObj[t] = NoObj /\ os'.pendStatus[t] = status /\ os.pendObj[t] # NoObj
      /\ \A u \in Task \ {t} : /\ os'.pendObj[u] = os.pendObj[u]
                               /\ os'.pendStatus[u] = os.pendStatus[u]
  BY <1>1 DEF WaitEnds
<1>3. /\ msgPtr'[t] = (IF crit.op = "post" THEN post ELSE NoMsg)
      /\ \A u \in Task \ {t} : msgPtr'[u] = msgPtr[u]
  BY <1>2 DEF KernelMsgs, MsgPtrs
<1>4. \A u \in Task : InPend(u)' <=> InPend(u)
  BY DEF WaitEnds, SamePlaces
<1>5. ASSUME NEW u \in Task \ {t}
      PROVE  WaitsOn(u)' = WaitsOn(u) /\ Outcome(u)' = Outcome(u)
  BY <1>2, <1>3, <1>4, SeenAlike DEF WaitsOn, OInv
<1>6. ASSUME os.pendObj[t] \in Grp
      PROVE  WaitsOn(t)' = WaitsOn(t) /\ Outcome(t)' = Outcome(t)
  <2>1. want[t] # NoWant
    BY <1>6 DEF OInv, WantsAgree
  <2> QED BY <1>2, <1>4, <1>6, <2>1, SeenAlike, Kinds DEF WaitsOn, OInv
<1>7. ASSUME os.pendObj[t] \in Queue
      PROVE  /\ WaitsOn(t) = os.pendObj[t] /\ WaitsOn(t)' = NoObj
             /\ Outcome(t)' = IF status # "OK" THEN {"nothing"}
                              ELSE {IF crit.op = "post" THEN post ELSE NoMsg}
  <2>1. want'[t] = NoWant /\ InPend(t)'
    BY <1>2, <1>4, <1>7 DEF OInv, WantsAgree, Places
  <2> QED BY <1>2, <1>3, <1>7, <2>1, OutcomeBecomes, Kinds DEF WaitsOn, OInv
<1> QED BY <1>5, <1>6, <1>7

LEMMA KernelMaps ==
  ASSUME OInv, OInv', KNext, KernelMsgs, UNCHANGED fvars
  PROVE  [Abs!ANext]_(Abs!avars)
<1>1. WaitsEffect
  BY KNextWaits DEF OInv
<1>2. /\ UNCHANGED <<want, msgs>> /\ MsgPtrs
      /\ post' = IF crit' = Free THEN NoMsg ELSE post
      /\ crit \in [op : {"none", "post", "abort", "tick"}, obj : Obj \cup {NoObj},
                   opt : Options, left : Nat, due : SUBSET Task]
  BY DEF KernelMsgs, fvars, OInv, KInv, KTypeOK
<1>3. NoPost => \A q \in Queue : Handing(q)' = Handing(q)
  BY DEF NoPost, Handing
<1>4. CASE WaitsStay /\ NoPost
  <2>1. UNCHANGED msgPtr
    <3>1. msgPtr \in [Task -> Msg \cup {NoMsg}]
      BY DEF OInv, TypeOK, QTypeOK
    <3> QED BY <1>2, <1>4, <3>1 DEF MsgPtrs, WaitsStay
  <2>2. ASSUME NEW u \in Task PROVE WaitsOn(u)' = WaitsOn(u) /\ Outcome(u)' = Outcome(u)
    BY <1>2, <1>4, <2>1, SeenAlike DEF WaitsStay, SamePlaces, WaitsOn, OInv
  <2> QED BY <1>2, <1>3, <1>4, <2>2, Unseen
<1>5. ASSUME NEW t \in Task, NEW status \in {"TIMEOUT", "ABORT"},
             WaitEnds(t, status), NoPost
      PROVE  [Abs!ANext]_(Abs!avars)
  <2>1. status \in Status /\ status # "OK" /\ os.pendObj[t] \in Obj
    BY <1>5, ZenonT(60) DEF Status, WaitEnds, OInv, KInv, KTypeOK, TCBTables
  <2>2. /\ \A u \in Task \ {t} : WaitsOn(u)' = WaitsOn(u) /\ Outcome(u)' = Outcome(u)
        /\ os.pendObj[t] \in Grp => WaitsOn(t)' = WaitsOn(t) /\ Outcome(t)' = Outcome(t)
        /\ os.pendObj[t] \in Queue =>
             /\ WaitsOn(t) = os.pendObj[t] /\ WaitsOn(t)' = NoObj
             /\ Outcome(t)' = {"nothing"}
    BY <1>2, <1>5, <2>1, EndMaps
  <2>3. CASE os.pendObj[t] \in Grp
    BY <1>2, <1>3, <1>5, <2>2, <2>3, Unseen
  <2>4. CASE os.pendObj[t] \in Queue
    <3> DEFINE q == os.pendObj[t]
    <3>1. /\ [u \in Task |-> WaitsOn(u)]' = [[u \in Task |-> WaitsOn(u)] EXCEPT ![t] = NoObj]
          /\ [u \in Task |-> Outcome(u)]'
                = [[u \in Task |-> Outcome(u)] EXCEPT ![t] = {"nothing"}]
      BY <2>2, <2>4
    <3>2. /\ UNCHANGED [p \in Queue |-> Handing(p)]
          /\ [p \in Queue |-> Handing(p)][q].left = 0
          /\ [u \in Task |-> WaitsOn(u)][t] = q
      BY <1>3, <1>5, <2>2, <2>4 DEF NoPost, Handing
    <3>3. Abs!GiveUp(t, q)
      BY <1>2, <3>1, <3>2 DEF Abs!GiveUp
    <3> QED BY <2>4, <3>3 DEF Abs!ANext
  <2> QED BY <2>1, <2>3, <2>4, Kinds
<1>6. ASSUME NEW t \in Task, WaitEnds(t, "OK"), OneFewer,
             crit.op = "post", os.pendObj[t] = crit.obj
      PROVE  Abs!ANext
  <2> DEFINE q == crit.obj
             h == IF crit.left = 1 THEN [left |-> 0, msg |-> "none"]
                  ELSE [left |-> crit.left - 1, msg |-> post]
  <2>1. /\ q \in Queue /\ "OK" \in Status /\ crit.left \in Nat /\ crit.left > 0
    BY <1>2, <1>6 DEF OInv, PostsAreToQueues, Status, OneFewer
  <2>2. /\ \A u \in Task \ {t} : WaitsOn(u)' = WaitsOn(u) /\ Outcome(u)' = Outcome(u)
        /\ WaitsOn(t) = q /\ WaitsOn(t)' = NoObj /\ Outcome(t)' = {post}
    BY <1>2, <1>6, <2>1, EndMaps
  <2>3. ASSUME NEW p \in Queue PROVE Handing(p)' = IF p = q THEN h ELSE Handing(p)
    <3>1. CASE crit.left > 1 /\ crit' = [crit EXCEPT !.left = @ - 1]
      <4>1. /\ crit'.op = "post" /\ crit'.obj = crit.obj /\ crit'.left = crit.left - 1
            /\ crit' # Free /\ crit.left # 1
        BY <1>2, <1>6, <3>1 DEF Free
      <4> QED BY <1>2, <1>6, <4>1 DEF Handing
    <3>2. CASE crit.left = 1 /\ crit' = Free
      BY <1>6, <3>2 DEF Handing, Free
    <3> QED BY <1>6, <3>1, <3>2 DEF OneFewer
  <2>4. Handing(q) = [left |-> crit.left, msg |-> post]
    BY <1>6 DEF Handing
  <2>5. h = IF Handing(q).left = 1 THEN Abs!Nothing
            ELSE [left |-> Handing(q).left - 1, msg |-> Handing(q).msg]
    BY <2>4 DEF Abs!Nothing
  <2> HIDE DEF h
  <2>6. /\ [u \in Task |-> WaitsOn(u)]' = [[u \in Task |-> WaitsOn(u)] EXCEPT ![t] = NoObj]
        /\ [u \in Task |-> Outcome(u)]' = [[u \in Task |-> Outcome(u)] EXCEPT ![t] = {post}]
        /\ [p \in Queue |-> Handing(p)]' = [[p \in Queue |-> Handing(p)] EXCEPT ![q] = h]
    BY <2>2, <2>3
  <2>7. /\ [p \in Queue |-> Handing(p)][q] = Handing(q) /\ Handing(q).left > 0
        /\ Handing(q).msg = post /\ [u \in Task |-> WaitsOn(u)][t] = q
    BY <2>1, <2>2, <2>4
  <2>8. Abs!Hand(t, q)
    BY <1>2, <2>5, <2>6, <2>7 DEF Abs!Hand
  <2> QED BY <2>1, <2>8 DEF Abs!ANext
<1> QED BY <1>1, <1>4, <1>5, <1>6 DEF WaitsEffect

LEMMA InitMaps == Init => Abs!AInit
<1> SUFFICES ASSUME Init PROVE Abs!AInit
  OBVIOUS
<1>1. PICK lists : os = OS_TASK_SW(InitTables(lists))
  BY DEF Init, KInit
<1>2. os.pendObj = [t \in Task |-> NoObj]
  BY <1>1 DEF OS_TASK_SW, InitTables
<1>3. /\ [t \in Task |-> WaitsOn(t)] = [t \in Task |-> NoObj]
      /\ [t \in Task |-> Outcome(t)] = [t \in Task |-> {}]
  BY <1>2, Kinds DEF Init, KInit, WaitsOn, Outcome
<1>4. [q \in Queue |-> Handing(q)] = [q \in Queue |-> Abs!Nothing]
  BY DEF Init, KInit, Free, Handing, Abs!Nothing
<1> QED BY <1>3, <1>4 DEF Init, QInit, Abs!AInit

(* A test of Type is nothing to a queue.                                   *)
LEMMA TestedMaps ==
  ASSUME OInv, UNCHANGED kvars, KernelMsgs, UNCHANGED fvars PROVE UNCHANGED Abs!avars
<1>1. /\ UNCHANGED <<os, pc, crit, want, msgs>> /\ MsgPtrs
      /\ post' = IF crit' = Free THEN NoMsg ELSE post
  BY DEF kvars, fvars, KernelMsgs
<1>2. UNCHANGED msgPtr
  <2>1. msgPtr \in [Task -> Msg \cup {NoMsg}]
    BY DEF OInv, TypeOK, QTypeOK
  <2> QED BY <1>1, <2>1 DEF MsgPtrs
<1>3. \A q \in Queue : Handing(q)' = Handing(q)
  BY <1>1 DEF Handing, Free
<1> QED BY <1>1, <1>2, <1>3, Unseen DEF WaitsOn, Outcome

LEMMA NextMaps ==
  OInv /\ OInv' /\ Orderly /\ [Next]_vars => [Abs!ANext]_(Abs!avars)
<1> SUFFICES ASSUME OInv, OInv', Orderly, [Next]_vars PROVE [Abs!ANext]_(Abs!avars)
  OBVIOUS
<1>1. ASSUME CNext, KernelMsgs, UNCHANGED fvars PROVE [Abs!ANext]_(Abs!avars)
  <2>1. KNext \/ UNCHANGED kvars
    BY <1>1, CNextCalls DEF OInv
  <2> QED BY <1>1, <2>1, KernelMaps, TestedMaps
<1>2. ASSUME NEW g \in Grp, Passed(g), FlagCalls(g), UNCHANGED qvars
      PROVE  UNCHANGED Abs!avars
  <2>1. g \in Grp \ Lost /\ SameCalls
    BY <1>2, PassedSame, Kinds
  <2> QED BY <1>2, <2>1, FlagPostMaps, FlagPendMaps DEF FlagCalls
<1>3. ASSUME NEW q \in Queue, Passed(q), QCalls(q), UNCHANGED fvars PROVE Abs!ANext
  <2>0. q \in Queue \ Lost /\ SameCalls
    BY <1>3, PassedSame, Kinds
  <2>1. ASSUME NEW m \in Msg, NEW lifo \in BOOLEAN, NEW opt \in Options,
               OSQPost(q, m, lifo, opt)
        PROVE  Abs!ANext
    BY <1>3, <2>0, <2>1, QPostMaps DEF Abs!ANext
  <2>2. ASSUME NEW t \in Task, NEW timeout \in Timeouts, OSQPend(t, q, timeout)
        PROVE  Abs!ANext
    BY <1>3, <2>0, <2>2, QPendMaps DEF Abs!ANext
  <2>3. ASSUME NEW t \in Task, OSQFlush(t, q) PROVE Abs!ANext
    BY <1>3, <2>3, EmptiedMaps DEF OSQFlush, fvars, Abs!ANext
  <2> QED BY <1>3, <2>1, <2>2, <2>3 DEF QCalls
<1>4. ASSUME NEW t \in Task, want[t] # NoWant, OSFlagPendReturn(t), UNCHANGED qvars
      PROVE  UNCHANGED Abs!avars
  BY <1>4, FlagPendReturnMaps
<1>5. ASSUME NEW t \in Task, want[t] = NoWant, OSQPendReturn(t), UNCHANGED fvars
      PROVE  Abs!ANext
  BY <1>5, QPendReturnMaps DEF Abs!ANext
<1>6. ASSUME NEW t \in Task, NEW opt \in {"NO_PEND", "ALWAYS"}, NEW g \in Grp,
             OSFlagDel(t, g, opt)
      PROVE  UNCHANGED Abs!avars
  BY <1>6, FlagDelMaps
<1>7. ASSUME NEW t \in Task, NEW opt \in {"NO_PEND", "ALWAYS"}, NEW q \in Queue,
             OSQDel(t, q, opt)
      PROVE  Abs!ANext
  BY <1>7, QDelMaps DEF Abs!ANext
<1>8. ASSUME NEW t \in Task, NEW g \in Grp, OSFlagCreate(t, g)
      PROVE  UNCHANGED Abs!avars
  BY <1>8, CreateDoes, QuietMaps, Kinds DEF OSFlagCreate, qvars
<1>9. ASSUME NEW t \in Task, NEW q \in Queue, OSQCreate(t, q) PROVE Abs!ANext
  BY <1>9, CreateDoes, EmptiedMaps, Kinds DEF OSQCreate, fvars, Abs!ANext
<1>10. CASE UNCHANGED vars
  BY <1>10, QuietMaps DEF vars, fvars, qvars
<1> QED BY <1>1, <1>2, <1>3, <1>4, <1>5, <1>6, <1>7, <1>8, <1>9, <1>10 DEF Next

-----------------------------------------------------------------------------
(***************************************************************************)
(* Which task runs: like a post on a semaphore, a post of flags or of a    *)
(* message, a deletion and a pend that blocks end in OSSched().            *)
(***************************************************************************)

(* What leaves the tasks' states, their priorities and the scheduler alone.*)
LEMMA SameDispatched ==
  ASSUME Dispatched, \A u \in Task : os'.state[u] = os.state[u],
         os'.cur = os.cur, os'.prio = os.prio, UNCHANGED <<pc, nest, lock, crit>>
  PROVE  Dispatched'
  BY DEF Dispatched

LEMMA FlagPostDispatched ==
  ASSUME OInv, AlwaysSched, Dispatched, NEW g \in Grp, NEW mask \in Masks,
         NEW op \in {"SET", "CLR"}, NEW opt \in Options, OSFlagPost(g, mask, op, opt)
  PROVE  Dispatched'
<1> DEFINE W == Answered(g, FlagsAfter(g, mask, op))
<1>1. Told(os, os', "OK", g, W)
  BY FlagPostDoes
<1>2. W \subseteq Waiters(os, g)
  BY DEF Answered
<1> HIDE DEF W
<1>3. /\ IF os.pend[g] = << >> THEN UNCHANGED pc ELSE Return(opt)
      /\ UNCHANGED <<nest, lock, crit>> /\ opt \in CallOpts
  BY DEF OSFlagPost, OS_FlagPost
<1>4. os'.cur = os.cur /\ os'.prio = os.prio /\ os.cur \in Task
  <2>1. crit.op = "none"
    BY DEF OSFlagPost, Running, Free
  <2>2. os.cur \in Task
    BY <2>1 DEF OInv, KInv, KTypeOK, TCBTables, TickTaskRuns
  <2> QED BY <1>1, <2>2 DEF Told
<1>5. CASE os.pend[g] = << >>
  <2>1. ListOf(os.pend[g], Waiters(os, g))
    BY PendAgreesLists, Kinds DEF OInv, KInv, Good
  <2>2. W = {}
    BY <1>2, <1>5, <2>1 DEF ListOf, Range
  <2>3. \A u \in Task : os'.state[u] = os.state[u]
    BY <1>1, <2>2 DEF Told
  <2> QED BY <1>3, <1>4, <1>5, <2>3, SameDispatched
<1>6. CASE os.pend[g] # << >>
  BY <1>3, <1>4, <1>6, ReturnDispatched DEF OInv
<1> QED BY <1>5, <1>6

(* OSFlagPend() and OSQPend() up to OSSched().                             *)
LEMMA PendDispatched ==
  ASSUME OInv, Dispatched, NEW t \in Task, NEW timeout \in Timeouts, UNCHANGED gone,
         \/ \E w \in Wants : w.grp \in Grp \ Lost /\ OSFlagPend(t, w, timeout)
         \/ \E q \in Queue \ Lost : OSQPend(t, q, timeout)
  PROVE  Dispatched'
<1>1. /\ Running(t) /\ UNCHANGED <<nest, lock, crit>>
      /\ \/ UNCHANGED <<os, pc>>
         \/ \E s \in Obj \ Lost, kind \in {"FLAG", "Q"} :
              lock = 0 /\ os' = OS_Pend(os, s, kind, timeout) /\ Goto(t, "pend")
  BY Kinds DEF OSFlagPend, OSQPend
<1>2. CASE UNCHANGED <<os, pc>>
  BY <1>1, <1>2 DEF Dispatched
<1>3. ASSUME NEW s \in Obj \ Lost, NEW kind \in {"FLAG", "Q"}, lock = 0,
             os' = OS_Pend(os, s, kind, timeout), Goto(t, "pend")
      PROVE  Dispatched'
  <2>1. /\ os.cur = t /\ t # Idle /\ os.state[t] = {} /\ Good(os)
        /\ timeout \in 0..MaxDly /\ kind \in PendKind \ {"NOTHING"} /\ s \in Obj
    BY <1>1, RunningAlone, CoreAssumption DEF Timeouts, OInv, KInv, PendKind
  <2>2. Blocks(os, os', t, IF timeout > 0 THEN {"DLY", "PEND"} ELSE {"PEND"})
    BY <1>3, <2>1, PendBlocks
  <2>3. os'.cur = t
    BY <2>1, <2>2 DEF Blocks
  <2> QED BY <1>3, <2>3, OnTheWay DEF OInv
<1> QED BY <1>1, <1>2, <1>3

LEMMA QPostDispatched ==
  ASSUME OInv, Dispatched, NEW q \in Queue, NEW m \in Msg, NEW lifo \in BOOLEAN,
         NEW opt \in Options, OSQPost(q, m, lifo, opt)
  PROVE  Dispatched'
<1>1. crit = Free /\ UNCHANGED <<os, pc, nest, lock>>
  BY DEF OSQPost, OS_QPost, Running
<1>2. crit' = crit \/ crit'.op = "post"
  BY DEF OSQPost, OS_QPost, PendLoop
<1> QED BY <1>1, <1>2 DEF Dispatched, Free

LEMMA ListDelDispatched ==
  ASSUME OInv, Dispatched, NEW t \in Task, NEW o \in Obj,
         NEW opt \in {"NO_PEND", "ALWAYS"}, PendListDel(t, o, opt)
  PROVE  Dispatched'
<1>1. CASE opt = "NO_PEND"
  BY <1>1, NobodyDoes DEF kvars, Dispatched
<1>2. CASE opt = "ALWAYS"
  <2>1. os'.cur = t /\ Goto(t, "sched")
    BY <1>2, DeleteDoes DEF Told, PendListDel, Delete, Within, Running
  <2> QED BY <2>1, OnTheWay DEF OInv
<1> QED BY <1>1, <1>2

LEMMA ObjectsDispatched ==
  ASSUME OInv, Orderly, AlwaysSched, Dispatched, [Next]_vars PROVE Dispatched'
<1>1. ASSUME CNext PROVE Dispatched'
  <2>1. KNext \/ UNCHANGED kvars
    BY <1>1, CNextCalls DEF OInv
  <2> QED BY <2>1, KNextDispatched DEF OInv, kvars, Dispatched
<1>2. ASSUME NEW g \in Grp, Passed(g), FlagCalls(g) PROVE Dispatched'
  <2>1. g \in Grp \ Lost /\ UNCHANGED gone
    BY <1>2, PassedSame, Kinds DEF SameCalls
  <2> QED BY <1>2, <2>1, FlagPostDispatched, PendDispatched DEF FlagCalls
<1>3. ASSUME UNCHANGED kvars PROVE Dispatched'
  BY <1>3 DEF kvars, Dispatched
<1>4. ASSUME NEW q \in Queue, Passed(q), QCalls(q) PROVE Dispatched'
  <2>1. q \in Queue \ Lost /\ UNCHANGED gone
    BY <1>4, PassedSame, Kinds DEF SameCalls
  <2> QED BY <1>3, <1>4, <2>1, QPostDispatched, PendDispatched DEF QCalls, OSQFlush
<1>5. ASSUME NEW t \in Task, OSFlagPendReturn(t) \/ OSQPendReturn(t) PROVE Dispatched'
  BY <1>5 DEF OSFlagPendReturn, OSQPendReturn, Goto, Dispatched
<1>6. ASSUME NEW t \in Task, NEW opt \in {"NO_PEND", "ALWAYS"},
             \/ \E g \in Grp : OSFlagDel(t, g, opt)
             \/ \E q \in Queue : OSQDel(t, q, opt)
      PROVE  Dispatched'
  BY <1>6, ListDelDispatched, Kinds DEF OSFlagDel, OSQDel
<1>7. ASSUME NEW t \in Task,
             \/ \E g \in Grp : OSFlagCreate(t, g)
             \/ \E q \in Queue : OSQCreate(t, q)
      PROVE  Dispatched'
  BY <1>3, <1>7, CreateDoes, Kinds DEF OSFlagCreate, OSQCreate
<1>8. CASE UNCHANGED vars
  BY <1>3, <1>8 DEF vars
<1> QED BY <1>1, <1>2, <1>4, <1>5, <1>6, <1>7, <1>8 DEF Next

-----------------------------------------------------------------------------
(* The theorems.                                                           *)

(* Tables, flags and messages keep their types: no queue exceeds the size  *)
(* OSQCreate() gave it, no service leaves a table it indexes.              *)
THEOREM ObjectsTypeCorrect ==
  ASSUME NeverSuspends, Orderly PROVE Spec => []TypeOK
<1>1. OInv => TypeOK
  BY DEF OInv
<1> QED BY <1>1, InitObjects, NextObjects, PTL DEF Spec

(* No task waits on a queue that holds a message: OS_QPost() never queues  *)
(* past a waiter, OSQPend() never blocks past a message, and neither does  *)
(* whatever deletes a queue and creates it anew.                           *)
THEOREM MessagesArrive ==
  ASSUME NeverSuspends, Orderly PROVE Spec => []NoMessageWaits
<1>1. OInv => NoMessageWaits
  BY DEF OInv
<1> QED BY <1>1, InitObjects, NextObjects, PTL DEF Spec

(* OSFlagPend() returns OS_ERR_NONE only with flags that satisfy what its  *)
(* caller asked for: TCB.FlagsRdy is that of the post that ended the wait, *)
(* whatever happens before the task runs.                                  *)
THEOREM FlagsAnswerRequest ==
  ASSUME NeverSuspends, Orderly PROVE Spec => []OkMeansEnough
<1>1. OInv => OkMeansEnough
  BY DEF OInv
<1> QED BY <1>1, InitObjects, NextObjects, PTL DEF Spec

(* A task whose request no other feeds does not wait for flags that are as *)
(* it wants them, whatever is posted and consumed, and whichever calls on  *)
(* its group deletions come between.                                       *)
THEOREM FlagsArrive ==
  ASSUME NeverSuspends, Orderly PROVE Spec => []NoWaiterSatisfied
<1>1. OInv /\ NoWaiterSatisfied /\ [Next]_vars => OInv' /\ NoWaiterSatisfied'
  BY NextObjects, FlagsNext
<1> QED BY <1>1, InitObjects, FlagsInit, PTL DEF Spec

(* Outside interrupts and the scheduler's lock the task that executes      *)
(* application code has the highest priority of those ready, when flags and*)
(* messages are posted, awaited, given up and their objects deleted, too:  *)
(* OS_FlagPost() calls OSSched() even when it made nobody ready.  Posts and*)
(* aborts with NO_SCHED are excepted by what they ask for.                 *)
THEOREM ObjectsHighestPriorityRuns ==
  ASSUME NeverSuspends, AlwaysSched, Orderly PROVE Spec => []HighestRuns
<1>1. Init => OInv /\ Dispatched
  BY InitObjects, KInitInv DEF Init
<1>2. OInv /\ Dispatched /\ [Next]_vars => OInv' /\ Dispatched'
  BY NextObjects, ObjectsDispatched
<1>3. Dispatched => HighestRuns
  BY DispatchedHighest
<1> QED BY <1>1, <1>2, <1>3, PTL DEF Spec

(* Message queues implement AbsQ: a message is queued, or handed to one    *)
(* waiter or to all of them, and the waiter it is handed to returns with   *)
(* it; no timeout, abort, deletion or event flag takes it back, doubles it *)
(* or lets a later message overtake it.                                    *)
THEOREM QueuesKeepPromise ==
  ASSUME NeverSuspends, Orderly PROVE Spec => ImplementsAbs
<1>1. Init => OInv /\ Abs!AInit
  BY InitObjects, InitMaps
<1>2. OInv /\ [Next]_vars => OInv' /\ [Abs!ANext]_(Abs!avars)
  BY NextObjects, NextMaps
<1>3. Init /\ [][Next]_vars => Abs!AInit /\ [][Abs!ANext]_(Abs!avars)
  BY <1>1, <1>2, PTL
<1> QED BY <1>3 DEF Spec, ImplementsAbs, Abs!ASpec
=============================================================================
