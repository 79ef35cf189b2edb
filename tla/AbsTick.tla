------------------------------ MODULE AbsTick ------------------------------
(***************************************************************************)
(* What delays and timeouts promise, without a tick counter or a wheel: a  *)
(* task that waits n ticks is ready again after exactly n ticks, unless    *)
(* its wait is ended before, and a periodic delay ends a period after the  *)
(* last one ended; nothing is promised any more once the time was set.     *)
(***************************************************************************)
EXTENDS Integers

CONSTANTS Task, Horizon    \* delays are shorter than Horizon

VARIABLES left,   \* ticks until the task's wait ends, 0 if it waits for none
          age,    \* ticks since the end of the task's last periodic delay,
                  \* negative before it, Horizon when that long ago or more
          set     \* whether the time was set

avars == <<left, age, set>>

AInit ==
  /\ set = FALSE
  /\ left = [t \in Task |-> 0]
  /\ age \in [Task -> 0..Horizon]

Sleep(t, n) ==
  /\ left[t] = 0
  /\ left' = [left EXCEPT ![t] = n]
  /\ UNCHANGED age

(* A delay of period n: its end is n ticks after the end of the last one,  *)
(* unless that time has passed.  When the last one did not end, or ended   *)
(* too long ago to tell, the delay is some delay of at most a period.      *)
SleepPeriodic(t, n) ==
  /\ left[t] = 0
  /\ \E d \in 1..n :
       /\ age[t] \in 0..n - 1 => d = n - age[t]
       /\ age[t] \in n..Horizon - 1 => d = n
       /\ left' = [left EXCEPT ![t] = d]
       /\ age' = [age EXCEPT ![t] = -d]

Cancel(t) ==
  /\ left[t] > 0
  /\ left' = [left EXCEPT ![t] = 0]
  /\ UNCHANGED age

Older(a) == IF a < Horizon THEN a + 1 ELSE a

Tick ==
  /\ left' = [t \in Task |-> IF left[t] > 0 THEN left[t] - 1 ELSE 0]
  /\ age' = [t \in Task |-> Older(age[t])]

Promised ==
  \/ Tick
  \/ \E t \in Task : \/ Cancel(t)
                     \/ \E n \in 1..Horizon - 1 : Sleep(t, n) \/ SleepPeriodic(t, n)

ANext == set' = TRUE \/ (~set /\ Promised /\ UNCHANGED set)

ASpec == AInit /\ [][ANext]_avars
=============================================================================
