------------------------------- MODULE AbsTmr -------------------------------
(***************************************************************************)
(* What software timers promise, without a wheel: a timer that was started *)
(* expires when its delay is over, no later and once, and a periodic one   *)
(* again after each period.  No timer that is due is passed over: time     *)
(* does not go on before all of them have expired.                         *)
(***************************************************************************)
EXTENDS Integers

CONSTANTS Tmr, Delay, Period   \* Period[t] is 0 for a one-shot timer

VARIABLE left    \* time units left of each timer that runs, Stopped if none

avars == <<left>>

Stopped == -1

AInit == left = [t \in Tmr |-> Stopped]

Start(t) == left' = [left EXCEPT ![t] = Delay[t]]

Stop(t) == left' = [left EXCEPT ![t] = Stopped]

Expire(t) ==
  /\ left[t] = 0
  /\ left' = [left EXCEPT ![t] = IF Period[t] > 0 THEN Period[t] ELSE Stopped]

Tick ==
  /\ \A t \in Tmr : left[t] # 0
  /\ left' = [t \in Tmr |-> IF left[t] > 0 THEN left[t] - 1 ELSE Stopped]

ANext == \/ Tick
         \/ \E t \in Tmr : Start(t) \/ Stop(t) \/ Expire(t)

ASpec == AInit /\ [][ANext]_avars
=============================================================================
