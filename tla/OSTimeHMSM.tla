----------------------------- MODULE OSTimeHMSM -----------------------------
(***************************************************************************)
(* The arithmetic of OSTimeDlyHMSM() (os_time.c): hours, minutes, seconds  *)
(* and milliseconds to ticks, in the unsigned integers of OS_TICK.  What   *)
(* the call does with the ticks is OSTimeDly(), see OSTick.                *)
(***************************************************************************)
EXTENDS Integers

CONSTANTS TickValues,                     \* how many values OS_TICK has (the code: 2^32)
          Rates,                          \* values of OSCfg_TickRate_Hz
          Hours, Minutes, Seconds, Millis \* the arguments used

ASSUME HMSMAssumption ==
  /\ TickValues \in Nat \ {0} /\ Rates \subseteq Nat \ {0} /\ Rates # {}
  /\ Hours \subseteq Nat /\ Minutes \subseteq Nat
  /\ Seconds \subseteq Nat /\ Millis \subseteq 0..TickValues - 1

VARIABLES call,   \* the arguments of the last call
          ticks   \* the delay it asked for, 0 when it returned an error

hmsmvars == <<call, ticks>>

(* Mutant: rounded down.                                                   *)
MutantTicks(rate, h, m, s, ms) ==
  (h * 3600 + m * 60 + s) * rate + (rate * ms) \div 1000

Ticks(rate, h, m, s, ms) ==
  LET Mod(n) == n % TickValues
  IN  Mod(Mod((h * 3600 + m * 60 + s) * rate)
          + Mod(rate * Mod(ms + 500 \div rate)) \div 1000)

HMSMInit ==
  /\ call = [rate |-> CHOOSE r \in Rates : TRUE, h |-> 0, m |-> 0, s |-> 0, ms |-> 0]
  /\ ticks = 0

OSTimeDlyHMSM(rate, h, m, s, ms) ==
  /\ h > 0 \/ m > 0 \/ s > 0 \/ ms > 0
  /\ call' = [rate |-> rate, h |-> h, m |-> m, s |-> s, ms |-> ms]
  /\ ticks' = Ticks(rate, h, m, s, ms)

HMSMNext ==
  \E rate \in Rates, h \in Hours, m \in Minutes, s \in Seconds, ms \in Millis :
    OSTimeDlyHMSM(rate, h, m, s, ms)

HMSMSpec == HMSMInit /\ [][HMSMNext]_hmsmvars

(* The time asked for, in thousandths of a tick.                           *)
Asked(c) == c.rate * ((c.h * 3600 + c.m * 60 + c.s) * 1000 + c.ms)

(* No product and no sum of the computation exceeds an OS_TICK.            *)
Fits(c) ==
  LET milli == c.rate * (c.ms + 500 \div c.rate)
  IN  /\ milli < TickValues
      /\ (c.h * 3600 + c.m * 60 + c.s) * c.rate + milli \div 1000 < TickValues

(* What becomes of "The actual delay is rounded to the nearest tick"       *)
(* (os_time.c, note 1 of OSTimeDlyHMSM()).  The half tick that is added is *)
(* 500 / rate whole milliseconds, 500 % rate thousandths of a tick less:   *)
(* at 300 Hz the 0.6 ticks of 2 ms are rounded to none.  At the rates that *)
(* divide 1000 the note holds; where the computation wraps it fails.       *)
RoundedDelay ==
  LET late == 1000 * ticks - Asked(call)
      lost == 500 % call.rate
  IN  Fits(call) => /\ late \in -499 - lost..500 - lost
                    /\ 1000 % call.rate = 0 => late \in -500..500
=============================================================================
