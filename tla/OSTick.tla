------------------------------- MODULE OSTick -------------------------------
(***************************************************************************)
(* The tick wheel of uC/OS-III (os_tick.c) and the delays that use it      *)
(* (os_time.c): OSTickCtr with its width, the spokes, match times.  OSCore *)
(* abstracts all this to the ticks each task has left; here it is shown    *)
(* that the wheel keeps that promise.                                      *)
(*                                                                         *)
(* Which ready task runs is OSKernel's subject: here any ready task may    *)
(* call a service.  state[t] is the set of bits of TaskState, as in OSCore.*)
(* One action is one critical section.                                     *)
(***************************************************************************)
EXTENDS Integers, SequencesExt

CONSTANTS Task,       \* application tasks
          Bits,       \* the width of OS_TICK (the code: 32), even
          WheelSize,  \* OSCfg_TickWheelSize
          Dlys,       \* the delays and timeouts the application uses
          Opts,       \* the options it passes, among Options
          PastMatch,  \* whether match times may have passed at the call
          TimeSets,   \* the times it sets the counter to
          MaxOwed     \* bound on ticks the tick task is behind

Options == {"DLY", "PERIODIC", "MATCH"}   \* TIMEOUT is the same as DLY
W == 2 ^ Bits
OS_TICK == 0..W - 1
OS_TICK_TH_INIT == 2 ^ (Bits - 1)
OS_TICK_TH_RDY == W - 2 ^ (Bits \div 2)

TickAssumption ==
  /\ Bits \in Nat \ {0} /\ Bits % 2 = 0
  /\ WheelSize \in Nat \ {0} /\ MaxOwed \in Nat \ {0}
  /\ Dlys \subseteq OS_TICK \ {0} /\ TimeSets \subseteq OS_TICK
  /\ Opts \subseteq Options /\ PastMatch \in BOOLEAN

VARIABLES ctr,     \* OSTickCtr
          wheel,   \* OSCfg_TickWheel, the tasks of each spoke from FirstPtr on
          state,   \* TaskState of each task, as a set of bits
          match,   \* TickCtrMatch
          prev,    \* TickCtrPrev
          rdy,     \* the tasks in the ready list
          owed,    \* SemCtr of the tick task: ticks it has to process
          age,     \* history: see AbsTick
          set      \* history: whether OSTimeSet() was called

vars == <<ctr, wheel, state, match, prev, rdy, owed, age, set>>

Spoke == 0..WheelSize - 1

TypeOK ==
  /\ ctr \in OS_TICK
  /\ wheel \in [Spoke -> Seq(Task)]
  /\ state \in [Task -> SUBSET {"DLY", "PEND", "SUSPENDED"}]
  /\ match \in [Task -> OS_TICK] /\ prev \in [Task -> OS_TICK]
  /\ rdy \subseteq Task
  /\ owed \in 0..MaxOwed
  /\ age \in [Task -> -W..W]
  /\ set \in BOOLEAN

Init ==
  /\ ctr = 0
  /\ wheel = [k \in Spoke |-> << >>]
  /\ state = [t \in Task |-> {}]
  /\ match = [t \in Task |-> 0]
  /\ prev = [t \in Task |-> OS_TICK_TH_INIT]
  /\ rdy = Task
  /\ owed = 0
  /\ age = [t \in Task |-> OS_TICK_TH_INIT]
  /\ set = FALSE

-----------------------------------------------------------------------------
(* The wheel.                                                              *)

Remain(m) == (m - ctr) % W    \* TickRemain of an entry with match time m

(* MATCH: the time is taken to have occurred, and there is no delay.       *)
Occurred(time) == (time - ctr - 1) % W > OS_TICK_TH_RDY

(* The end of the period that began at TickCtrPrev, unless it has passed.  *)
PeriodicMatch(t, time) ==
  LET next == (prev[t] + time) % W
  IN  IF (next - ctr - 1) % W < time THEN next ELSE (ctr + time) % W

TickCtrMatch(t, time, opt) ==
  CASE opt = "MATCH"    -> time
    [] opt = "PERIODIC" -> PeriodicMatch(t, time)
    [] opt = "DLY"      -> (ctr + time) % W

(* Mutant: entries are sorted by match time, not by ticks remaining.       *)
MutantInsertAt(s, t, m) ==
  InsertAt(s, CHOOSE i \in 1..Len(s) + 1 :
                /\ \A j \in 1..i - 1 : m > match[s[j]]
                /\ i =< Len(s) => m =< match[s[i]], t)

(* A spoke's list is sorted by the ticks that remain.                      *)
SpokeInsert(s, t, m) ==
  InsertAt(s, CHOOSE i \in 1..Len(s) + 1 :
                /\ \A j \in 1..i - 1 : Remain(m) > Remain(match[s[j]])
                /\ i =< Len(s) => Remain(m) =< Remain(match[s[i]]), t)

OS_TickListInsert(t, time, opt) ==
  LET m == TickCtrMatch(t, time, opt)
  IN  /\ match' = [match EXCEPT ![t] = m]
      /\ wheel' = [wheel EXCEPT ![m % WheelSize] = SpokeInsert(@, t, m)]
      /\ IF opt = "PERIODIC"
         THEN /\ prev' = [prev EXCEPT ![t] = m]
              /\ age' = IF set THEN age ELSE [age EXCEPT ![t] = -Remain(m)]
         ELSE UNCHANGED <<prev, age>>

InTickList(t) == \E k \in Spoke : t \in Range(wheel[k])

(* A spoke's list without the tasks of S, the others in their order.       *)
Without(s, S) ==
  LET keep == {i \in DOMAIN s : s[i] \notin S}
      pos  == CHOOSE p \in [1..Cardinality(keep) -> keep] :
                \A i, j \in DOMAIN p : i < j => p[i] < p[j]
  IN  [i \in DOMAIN pos |-> s[pos[i]]]

(* The tasks of S leave the tick list; those that are not in it are left.  *)
OS_TickListRemove(S) ==
  /\ wheel' = [k \in Spoke |-> Without(wheel[k], S)]
  /\ match' = [t \in Task |-> IF t \in S /\ InTickList(t) THEN 0 ELSE match[t]]

-----------------------------------------------------------------------------
(* The tick interrupt and the tick task.                                   *)

OSTimeTick ==
  /\ owed < MaxOwed
  /\ owed' = owed + 1
  /\ UNCHANGED <<ctr, wheel, state, match, prev, rdy, age, set>>

(* The walk of the current spoke wakes tasks until it meets one that waits *)
(* for a later time; it passes over entries that wait for no time.         *)
Due(s, now) ==
  {t \in Range(s) :
    /\ "DLY" \in state[t]
    /\ \E i \in DOMAIN s : /\ s[i] = t
                           /\ \A j \in 1..i : "DLY" \in state[s[j]] => match[s[j]] = now}

OS_TickListUpdate ==
  LET now == (ctr + 1) % W
      due == Due(wheel[now % WheelSize], now)
  IN  /\ owed > 0
      /\ owed' = owed - 1
      /\ ctr' = now
      /\ OS_TickListRemove(due)
      /\ state' = [t \in Task |->
                    IF t \in due THEN state[t] \ {"DLY", "PEND"} ELSE state[t]]
      /\ rdy' = rdy \cup {t \in due : "SUSPENDED" \notin state[t]}
      /\ age' = [t \in Task |-> IF age[t] < W /\ ~set THEN age[t] + 1 ELSE W]
      /\ UNCHANGED <<prev, set>>

-----------------------------------------------------------------------------
(* The services of os_time.c.                                              *)

(* The error return of OS_TickListInsert() leaves the state it was called  *)
(* with: the caller goes on, in the ready list, as a delayed task.         *)
OSTimeDly(t, time, opt) ==
  LET err == opt = "MATCH" /\ Occurred(time)
  IN  /\ t \in rdy /\ opt \in Opts
      /\ opt # "MATCH" => time > 0
      /\ err => PastMatch
      /\ state' = [state EXCEPT ![t] = {"DLY"}]
      /\ IF err
         THEN /\ match' = [match EXCEPT ![t] = 0]
              /\ UNCHANGED <<wheel, prev, rdy, age>>
         ELSE /\ OS_TickListInsert(t, time, opt)
              /\ rdy' = rdy \ {t}
      /\ UNCHANGED <<ctr, owed, set>>

OSTimeDlyResume(t, u) ==
  /\ t \in rdy /\ u # t
  /\ "DLY" \in state[u] /\ "PEND" \notin state[u]
  /\ state' = [state EXCEPT ![u] = @ \ {"DLY"}]
  /\ OS_TickListRemove({u})
  /\ rdy' = IF "SUSPENDED" \in state[u] THEN rdy ELSE rdy \cup {u}
  /\ UNCHANGED <<ctr, prev, owed, age, set>>

OSTimeSet(ticks) ==
  /\ rdy # {} /\ ticks \in TimeSets
  /\ ctr' = ticks
  /\ set' = TRUE /\ age' = [t \in Task |-> W]
  /\ UNCHANGED <<wheel, state, match, prev, rdy, owed>>

-----------------------------------------------------------------------------
(* What the rest of the kernel does to a task that waits for a time.       *)

(* A pend with a timeout of n ticks, 0 to wait for ever.                   *)
OS_TaskBlock(t, n) ==
  /\ t \in rdy
  /\ IF n > 0
     THEN /\ OS_TickListInsert(t, n, "DLY")
          /\ state' = [state EXCEPT ![t] = {"DLY", "PEND"}]
     ELSE /\ state' = [state EXCEPT ![t] = {"PEND"}]
          /\ UNCHANGED <<wheel, match, prev, age>>
  /\ rdy' = rdy \ {t}
  /\ UNCHANGED <<ctr, owed, set>>

(* A post or an abort ends the wait of task u before its time.             *)
OS_Post(u) ==
  /\ "PEND" \in state[u]
  /\ OS_TickListRemove({u})
  /\ state' = [state EXCEPT ![u] = @ \ {"DLY", "PEND"}]
  /\ rdy' = IF "SUSPENDED" \in state[u] THEN rdy ELSE rdy \cup {u}
  /\ UNCHANGED <<ctr, prev, owed, age, set>>

(* The first suspension and the last resumption of a task.                 *)
OS_TaskSuspend(t, u) ==
  /\ t \in rdy /\ "SUSPENDED" \notin state[u]
  /\ state' = [state EXCEPT ![u] = @ \cup {"SUSPENDED"}]
  /\ rdy' = IF state[u] = {} THEN rdy \ {u} ELSE rdy
  /\ UNCHANGED <<ctr, wheel, match, prev, owed, age, set>>

OS_TaskResume(t, u) ==
  /\ t \in rdy /\ t # u /\ "SUSPENDED" \in state[u]
  /\ state' = [state EXCEPT ![u] = @ \ {"SUSPENDED"}]
  /\ IF state[u] = {"SUSPENDED"}
     THEN OS_TickListRemove({u}) /\ rdy' = rdy \cup {u}
     ELSE UNCHANGED <<wheel, match, rdy>>
  /\ UNCHANGED <<ctr, prev, owed, age, set>>

Next ==
  \/ OSTimeTick
  \/ OS_TickListUpdate
  \/ \E n \in TimeSets : OSTimeSet(n)
  \/ \E t \in Task :
       \/ \E n \in Dlys, opt \in Options \ {"MATCH"} : OSTimeDly(t, n, opt)
       \/ \E n \in OS_TICK : OSTimeDly(t, n, "MATCH")
       \/ \E n \in Dlys \cup {0} : OS_TaskBlock(t, n)
       \/ OS_Post(t)
       \/ \E u \in Task : \/ OSTimeDlyResume(t, u)
                          \/ OS_TaskSuspend(t, u)
                          \/ OS_TaskResume(t, u)

Spec == Init /\ [][Next]_vars

-----------------------------------------------------------------------------
(* Properties.                                                             *)

(* A task is in the wheel, once and in the spoke of its match time,        *)
(* exactly while its state says that it waits for a time, and in the ready *)
(* list while it waits for nothing, whichever of timeout, post, resumption *)
(* and suspension comes first.                                             *)
WheelAgrees ==
  /\ \A t \in Task : \A k \in Spoke :
       Cardinality({i \in DOMAIN wheel[k] : wheel[k][i] = t}) =
         IF "DLY" \in state[t] /\ k = match[t] % WheelSize THEN 1 ELSE 0
  /\ rdy = {t \in Task : state[t] = {}}

(* Every delay and every timeout of n ticks ends at the n-th tick after    *)
(* the call, across the wrap of OSTickCtr, whatever other tasks share its  *)
(* spoke; periodic delays end a period apart.                              *)
Abs == INSTANCE AbsTick WITH
  Horizon <- W,
  left <- [t \in Task |-> IF "DLY" \in state[t] THEN Remain(match[t]) ELSE 0]

WakesOnTime == Abs!ASpec
=============================================================================
