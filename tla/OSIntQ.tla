------------------------------- MODULE OSIntQ -------------------------------
(***************************************************************************)
(* Deferred posts (os_int.c, with OS_CFG_ISR_POST_DEFERRED_EN): what an    *)
(* interrupt handler asks of the kernel is put into a ring, and a task of  *)
(* priority 0 makes the calls.  Interrupts are then enabled in the         *)
(* kernel's critical sections, which only lock the scheduler (os.h:87).    *)
(*                                                                         *)
(* There is one application task of each priority, and of the kernel's     *)
(* tables only what the scheduler looks at is kept.  Handlers name the     *)
(* task they suspend: a null pointer would be the queue's task itself.     *)
(***************************************************************************)
EXTENDS Naturals, FiniteSetsExt, SequencesExt

CONSTANTS Size,     \* OSCfg_IntQSize
          App,      \* priorities of the application tasks
          Idle,     \* the idle task's priority
          Call,     \* what interrupt handlers call: records [type, obj]
          NoCall,
          MaxNest,  \* bound on nested interrupts (the code: 250)
          MaxLock   \* bound on OSSchedLockNestingCtr (the code: 250)

IntQTask == 0   \* its priority

ASSUME IntQAssumption ==
  /\ Size \in Nat \ {0, 1}
  /\ App \subseteq Nat \ {0} /\ IsFiniteSet(App)
  /\ Idle \in Nat \ {0} /\ \A p \in App : p < Idle
  /\ Call \subseteq [type : {"SIGNAL", "SUSPEND"}, obj : App]
  /\ NoCall \notin Call
  /\ MaxNest \in Nat /\ MaxLock \in Nat

Slot == 0..Size - 1
Thread == App \cup {Idle}

VARIABLES slot,     \* the ring's entries
          in, out,  \* OSIntQInPtr and OSIntQOutPtr
          nbr,      \* OSIntQNbrEntries
          err,      \* what the last OS_IntQPost() returned
          listed,   \* the task of the queue is in OSRdyList[0]
          pc,       \* where it is
          type,     \* the Type that OS_IntQRePost() read
          last,     \* the last call that was made
          waits,    \* priorities of the tasks that wait for their signal
          susp,     \* and of those that are suspended
          inside,   \* application tasks in a critical section
          due,      \* those that are about to call the scheduler
          cur,      \* OSPrioCur
          saved,    \* OSPrioSaved
          nest,     \* OSIntNestingCtr
          lock,     \* OSSchedLockNestingCtr
          app       \* history: the application task that ran last

ring == <<slot, in, out, nbr, err>>
self == <<listed, pc, type, last>>
threads == <<waits, susp, inside, due>>
sched == <<cur, saved, nest, lock, app>>
vars == <<ring, self, threads, sched>>

Types == {"SIGNAL", "SUSPEND"}
Calls == [type : Types, obj : App]

TypeOK ==
  /\ slot \in [Slot -> Calls \cup {NoCall}]
  /\ in \in Slot /\ out \in Slot
  /\ nbr \in 0..Size
  /\ err \in {"NONE", "INT_Q_FULL"}
  /\ listed \in BOOLEAN
  /\ pc \in {"test", "read", "make", "release", "sched"}
  /\ type \in Types
  /\ last \in Calls \cup {NoCall}
  /\ waits \subseteq App /\ susp \subseteq App
  /\ inside \subseteq Thread /\ due \subseteq Thread
  /\ cur \in Thread \cup {IntQTask}
  /\ saved \in Thread \cup {IntQTask}
  /\ nest \in 0..MaxNest /\ lock \in 0..MaxLock
  /\ app \in Thread \cup {IntQTask}

(* The queue's task is created ready and is the first to run.              *)
Init ==
  /\ slot = [i \in Slot |-> NoCall]
  /\ in = 0 /\ out = 0 /\ nbr = 0 /\ err = "NONE"
  /\ listed = TRUE /\ pc = "test" /\ type = "SIGNAL" /\ last = NoCall
  /\ waits = {} /\ susp = {} /\ inside = {} /\ due = {}
  /\ cur = IntQTask /\ saved = 0 /\ nest = 0 /\ lock = 0 /\ app = 0

NextPtr(i) == IF i = Size - 1 THEN 0 ELSE i + 1

-----------------------------------------------------------------------------
(* Scheduling.                                                             *)

(* OSTCBHighRdyPtr.                                                        *)
Highest == IF listed THEN IntQTask ELSE Min(Thread \ (waits \cup susp))

SwitchTo(p) ==
  /\ cur' = p
  /\ app' = IF p = IntQTask THEN app ELSE p

OSSched ==
  IF lock > 0 THEN UNCHANGED <<cur, app>> ELSE SwitchTo(Highest)

OSIntEnter ==
  /\ nest < MaxNest
  /\ nest' = nest + 1
  /\ UNCHANGED <<ring, self, threads, cur, saved, lock, app>>

(* Mutant: the scheduler switches although it is locked.                   *)
MutantIntExit ==
  /\ nest > 0
  /\ nest' = nest - 1
  /\ IF nest > 1 THEN UNCHANGED <<cur, app>> ELSE SwitchTo(Highest)
  /\ UNCHANGED <<ring, self, threads, saved, lock>>

OSIntExit ==
  /\ nest > 0
  /\ nest' = nest - 1
  /\ IF nest > 1 \/ lock > 0 THEN UNCHANGED <<cur, app>>
                             ELSE SwitchTo(Highest)
  /\ UNCHANGED <<ring, self, threads, saved, lock>>

-----------------------------------------------------------------------------
(* Application tasks, as far as the queue can tell.                        *)

Running(p) == nest = 0 /\ cur = p

(* OS_CRITICAL_ENTER() or OSSchedLock().                                   *)
CriticalEnter(p) ==
  /\ Running(p) /\ p \notin due
  /\ lock < MaxLock
  /\ lock' = lock + 1
  /\ inside' = inside \cup {p}
  /\ UNCHANGED <<ring, self, waits, susp, due, cur, saved, nest, app>>

(* OS_CRITICAL_EXIT() and OSSchedUnlock() call the scheduler when there is *)
(* something in the queue, or always; OS_CRITICAL_EXIT_NO_SCHED() does not.*)
CriticalExit(p, schedule) ==
  /\ Running(p) /\ p \in inside
  /\ lock' = lock - 1
  /\ inside' = IF lock = 1 THEN inside \ {p} ELSE inside
  /\ due' = IF lock = 1 /\ schedule THEN due \cup {p} ELSE due
  /\ UNCHANGED <<ring, self, waits, susp, cur, saved, nest, app>>

(* OSTaskSemPend(): the task waits for its signal.                         *)
Block(p) ==
  /\ Running(p) /\ p # Idle /\ p \notin due
  /\ lock = 0
  /\ waits' = waits \cup {p}
  /\ due' = due \cup {p}
  /\ UNCHANGED <<ring, self, susp, inside, sched>>

Sched(p) ==
  /\ Running(p) /\ p \in due
  /\ due' = due \ {p}
  /\ UNCHANGED <<ring, self, waits, susp, inside, saved, nest, lock>>
  /\ OSSched

-----------------------------------------------------------------------------
(* The queue.                                                              *)

(* Mutant: the saved priority is overwritten whoever was interrupted.      *)
MutantIntQPost(c) ==
  /\ nest > 0
  /\ nbr < Size
  /\ nbr' = nbr + 1
  /\ slot' = [slot EXCEPT ![in] = c]
  /\ in' = NextPtr(in)
  /\ listed' = TRUE
  /\ saved' = cur
  /\ err' = "NONE"
  /\ UNCHANGED <<out, pc, type, last, threads, cur, nest, lock, app>>

OS_IntQPost(c) ==
  /\ nest > 0
  /\ nbr < Size
  /\ nbr' = nbr + 1
  /\ slot' = [slot EXCEPT ![in] = c]
  /\ in' = NextPtr(in)
  /\ listed' = TRUE
  /\ saved' = IF cur = IntQTask THEN saved ELSE cur
  /\ err' = "NONE"
  /\ UNCHANGED <<out, pc, type, last, threads, cur, nest, lock, app>>

OS_IntQPostFull ==
  /\ nest > 0
  /\ nbr = Size
  /\ err' = "INT_Q_FULL"
  /\ UNCHANGED <<slot, in, out, nbr, self, threads, sched>>

IntQTaskAt(place) == Running(IntQTask) /\ pc = place

OS_IntQTaskTest ==
  /\ IntQTaskAt("test")
  /\ pc' = IF nbr = 0 THEN "sched" ELSE "read"
  /\ listed' = (nbr > 0)
  /\ UNCHANGED <<ring, type, last, threads, sched>>

(* Mutant: the task leaves the ready list only here, whatever was posted.  *)
MutantTaskSched ==
  /\ IntQTaskAt("sched")
  /\ pc' = "test"
  /\ listed' = FALSE
  /\ UNCHANGED <<ring, type, last, threads, saved, nest, lock>>
  /\ OSSched

OS_IntQTaskSched ==
  /\ IntQTaskAt("sched")
  /\ pc' = "test"
  /\ UNCHANGED <<ring, listed, type, last, threads, saved, nest, lock>>
  /\ OSSched

(* The entry is read while interrupt handlers post.                        *)
OS_IntQRePostType ==
  /\ IntQTaskAt("read")
  /\ pc' = "make"
  /\ type' = slot[out].type
  /\ UNCHANGED <<ring, listed, last, threads, sched>>

(* The call, made by the queue's task.                                     *)
OS_IntQRePost ==
  LET obj == slot[out].obj
  IN  /\ IntQTaskAt("make")
      /\ pc' = "release"
      /\ last' = [type |-> type, obj |-> obj]
      /\ waits' = IF type = "SIGNAL" THEN waits \ {obj} ELSE waits
      /\ susp' = IF type = "SUSPEND" THEN susp \cup {obj} ELSE susp
      /\ UNCHANGED <<ring, listed, type, inside, due, sched>>

(* Mutant: the last entry stays at the head.                               *)
MutantTaskRelease ==
  /\ IntQTaskAt("release")
  /\ pc' = "test"
  /\ out' = IF nbr = 1 THEN out ELSE NextPtr(out)
  /\ nbr' = nbr - 1
  /\ UNCHANGED <<slot, in, err, listed, type, last, threads, sched>>

OS_IntQTaskRelease ==
  /\ IntQTaskAt("release")
  /\ pc' = "test"
  /\ out' = NextPtr(out)
  /\ nbr' = nbr - 1
  /\ UNCHANGED <<slot, in, err, listed, type, last, threads, sched>>

OS_IntQTask ==
  \/ OS_IntQTaskTest \/ OS_IntQTaskSched
  \/ OS_IntQRePostType \/ OS_IntQRePost \/ OS_IntQTaskRelease

ISR == (\E c \in Call : OS_IntQPost(c)) \/ OS_IntQPostFull

AppTask(p) ==
  \/ CriticalEnter(p) \/ Block(p) \/ Sched(p)
  \/ \E schedule \in BOOLEAN : CriticalExit(p, schedule)

Next == OSIntEnter \/ OSIntExit \/ ISR \/ OS_IntQTask \/ \E p \in Thread : AppTask(p)

(* Interrupt handlers end, the tick never stops coming, and it does not    *)
(* fall into a critical section each time: an exit without scheduling      *)
(* leaves the queue's task to it.  Tasks go on however often they are      *)
(* interrupted.                                                            *)
Fairness ==
  /\ WF_vars(OSIntEnter) /\ WF_vars(OSIntExit)
  /\ SF_vars(OSIntEnter /\ lock = 0)
  /\ SF_vars(OS_IntQTask)
  /\ \A p \in Thread : SF_vars(\E schedule \in BOOLEAN : CriticalExit(p, schedule))

Spec == Init /\ [][Next]_vars
FairSpec == Spec /\ Fairness

-----------------------------------------------------------------------------
(* Properties.                                                             *)

(* As long as there is something in the queue its task is in the ready     *)
(* list, whenever handlers post and in whatever order the task tests the   *)
(* count, leaves the list and calls the scheduler.                         *)
EntriesKeepReady == nbr > 0 => listed

(* While an application task is in a critical section of the kernel, the   *)
(* queue's task does not run and so makes no call: interrupt handlers post *)
(* in there, and the kernel's tables still have one user.                  *)
OneInKernel ==
  /\ inside \subseteq {cur}
  /\ inside # {} => lock > 0

(* The priority whose time slice a deferred tick accounts for, OSPrioSaved,*)
(* is that of the task the queue's task preempted.                         *)
SliceOfPreempted == nbr > 0 => saved = app

(* The entries of the queue that are still to be made, oldest first.       *)
Backlog ==
  LET made == IF pc = "release" THEN 1 ELSE 0
  IN  [i \in 1..nbr - made |-> slot[(out + made + i - 1) % Size]]

(* Deferred calls are made once each, in the order of the posts, none      *)
(* overwritten while it is read, and all of them in the end.               *)
Abs == INSTANCE AbsIntQ WITH
  backlog <- Backlog,
  busy <- pc = "release"

ImplementsAbs == Abs!ASpec
=============================================================================
