------------------------------- MODULE OSFlag -------------------------------
(***************************************************************************)
(* Event flag groups (os_flag.c) on the kernel of OSKernel: a task waits   *)
(* until any or all of some flags of a group are set, or clear, and may    *)
(* consume them.                                                           *)
(***************************************************************************)
EXTENDS OSKernel

CONSTANTS Grp,     \* the event flag groups among the objects
          Flag,    \* the bits of an OS_FLAGS the application uses
          Masks,   \* the sets of flags it posts
          Wants    \* the requests it pends with, members of Request

Modes == {"SET_ALL", "SET_ANY", "CLR_ALL", "CLR_ANY"}

(* The arguments of OSFlagPend(), which the call and the TCB keep.         *)
Request == [grp : Grp, flags : SUBSET Flag, mode : Modes, consume : BOOLEAN]

ASSUME FlagAssumption ==
  /\ Grp \subseteq Obj /\ IsFiniteSet(Flag) /\ Masks \subseteq SUBSET Flag
  /\ Wants \subseteq Request /\ \A w \in Wants : w.flags # {}

VARIABLES flags,     \* p_grp->Flags of each group, as the set of bits that are set
          want,      \* FlagsPend and FlagsOpt of the task's pend, NoWant if none
          flagsRdy   \* FlagsRdy of each task

fvars == <<flags, want, flagsRdy>>

NoWant == [grp |-> NoObj, flags |-> {}, mode |-> "SET_ALL", consume |-> FALSE]

FlagTypeOK ==
  /\ flags \in [Grp -> SUBSET Flag]
  /\ want \in [Task -> Request \cup {NoWant}]
  /\ flagsRdy \in [Task -> SUBSET Flag]

FlagInit ==
  /\ flags = [g \in Grp |-> {}]
  /\ want = [t \in Task |-> NoWant]
  /\ flagsRdy = [t \in Task |-> {}]

-----------------------------------------------------------------------------
(* Requests.                                                               *)

(* The flags of request w that are as it wants them, when set are set.     *)
Matching(w, set) ==
  IF w.mode \in {"SET_ALL", "SET_ANY"} THEN w.flags \cap set ELSE w.flags \ set

Enough(w, rdy) == IF w.mode \in {"SET_ALL", "CLR_ALL"} THEN rdy = w.flags ELSE rdy # {}

Satisfied(w, set) == Enough(w, Matching(w, set))

(* The flags of the group after w consumed the flags rdy.                  *)
Consume(w, rdy, set) ==
  CASE ~w.consume -> set
    [] w.consume /\ w.mode \in {"SET_ALL", "SET_ANY"} -> set \ rdy
    [] w.consume /\ w.mode \in {"CLR_ALL", "CLR_ANY"} -> set \cup rdy

-----------------------------------------------------------------------------
(* OSFlagPend() up to its first OSSched().  Calls that may not block and   *)
(* find their flags not ready return with nothing done.                    *)
OSFlagPend(t, w, timeout) ==
  LET rdy == Matching(w, flags[w.grp])
  IN  /\ Running(t)
      /\ \/ /\ Enough(w, rdy)
            /\ flags' = [flags EXCEPT ![w.grp] = Consume(w, rdy, @)]
            /\ flagsRdy' = [flagsRdy EXCEPT ![t] = rdy]
            /\ UNCHANGED <<os, pc, want>>
         \/ /\ ~Enough(w, rdy) /\ lock = 0
            /\ want' = [want EXCEPT ![t] = w]
            /\ flagsRdy' = [flagsRdy EXCEPT ![t] = {}]
            /\ os' = OS_Pend(os, w.grp, "FLAG", timeout)
            /\ Goto(t, "pend")
            /\ UNCHANGED flags
      /\ UNCHANGED <<nest, lock, crit>>

(* The rest of OSFlagPend(): the flags are consumed now, not when the post *)
(* made the task ready, and nobody who waits for them to be clear is woken.*)
OSFlagPendReturn(t) ==
  /\ os.cur = t /\ pc[t] = "wake" /\ nest = 0 /\ crit = Free
  /\ flags' = IF os.pendStatus[t] = "OK"
              THEN [flags EXCEPT ![want[t].grp] = Consume(want[t], flagsRdy[t], @)]
              ELSE flags
  /\ want' = [want EXCEPT ![t] = NoWant]
  /\ Goto(t, "run")
  /\ UNCHANGED <<os, nest, lock, crit, flagsRdy>>

(* Mutant: the walk ends with the first task that is made ready.           *)
MutantWoken(g, set) ==
  LET sat == SelectSeq(os.pend[g], LAMBDA t : Satisfied(want[t], set))
  IN  IF sat = << >> THEN {} ELSE {Head(sat)}

(* The waiters a post makes ready.                                         *)
Woken(g, set) == {t \in Range(os.pend[g]) : Satisfied(want[t], set)}

(* OS_FlagPost() called by the running task or by an interrupt handler.    *)
(* It walks the pend list and readies those whose flags are as they want.  *)
OS_FlagPost(g, mask, op, opt) ==
  LET set == IF op = "SET" THEN flags[g] \cup mask ELSE flags[g] \ mask
      woken == Woken(g, set)
  IN  /\ opt \in CallOpts /\ "ALL" \notin opt
      /\ flags' = [flags EXCEPT ![g] = set]
      /\ flagsRdy' = [t \in Task |->
                  IF t \in woken THEN Matching(want[t], set) ELSE flagsRdy[t]]
      /\ os' = OS_FlagTasksRdy(os, os.pend[g], woken)
      /\ IF os.pend[g] = << >> THEN UNCHANGED pc ELSE Return(opt)
      /\ UNCHANGED <<nest, lock, crit, want>>

OSFlagPost(g, mask, op, opt) ==
  /\ \/ \E t \in Task : Running(t)
     \/ crit = Free /\ nest > 0
  /\ OS_FlagPost(g, mask, op, opt)

(* The calls on a group; OSFlagPendAbort() is PendAbort().                 *)
FlagCalls(g) ==
  \/ \E mask \in Masks, op \in {"SET", "CLR"}, opt \in Options :
       OSFlagPost(g, mask, op, opt)
  \/ \E t \in Task, w \in Wants, timeout \in Timeouts :
       w.grp = g /\ OSFlagPend(t, w, timeout)

-----------------------------------------------------------------------------
(* Properties of event flags.                                              *)

(* Consumption changes flags too, and wakes nobody (os_flag.c:398, 587): v *)
(* feeds w if it clears, or sets, flags that w waits for to be so.         *)
WantsSet(w) == w.mode \in {"SET_ALL", "SET_ANY"}

Feeds(v, w) ==
  /\ v.grp = w.grp /\ v.consume /\ v.flags \cap w.flags # {}
  /\ ~(WantsSet(v) <=> WantsSet(w))

(* A task whose request none feeds does not wait for flags that are as it  *)
(* wants them: OSFlagPend() does not wait for what is there, a post wakes  *)
(* all the tasks it satisfies, and what others consume, at once or when    *)
(* they return long after the post, satisfies nobody who waits.            *)
NoWaiterSatisfied ==
  \A t \in Task :
    os.pendObj[t] \in Grp /\ (\A v \in Wants : ~Feeds(v, want[t]))
      => ~Satisfied(want[t], flags[os.pendObj[t]])

(* A task that is told OK got what it asked for: from the post on until it *)
(* returns, its FlagsRdy satisfies its request, though a timeout, an abort *)
(* or another task's consumption may come before it runs again.            *)
OkMeansEnough ==
  \A t \in Task :
    pc[t] \in {"pend", "wake"} /\ want[t] # NoWant /\ os.pendObj[t] = NoObj /\ os.pendStatus[t] = "OK"
      => flagsRdy[t] \subseteq want[t].flags /\ Enough(want[t], flagsRdy[t])
=============================================================================
