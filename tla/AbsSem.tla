------------------------------- MODULE AbsSem -------------------------------
(***************************************************************************)
(* What a semaphore promises, without priorities, ticks or a scheduler:    *)
(* every unit is either counted or handed to exactly one waiter, and only  *)
(* while nobody waits is there anything to count.  A waiter ends with a    *)
(* unit it was handed or without one, never both.                          *)
(***************************************************************************)
EXTENDS Naturals, FiniteSets

CONSTANTS Task, Sem, NoSem, InitCount, MaxCount,
          Deletes   \* whether semaphores and tasks are deleted

VARIABLES count,    \* units nobody has yet
          waits,    \* the semaphore each task waits on, NoSem if none
          outcome,  \* how a task's wait ended, until it learns of it
          handing   \* units posted that a waiter is about to get

avars == <<count, waits, outcome, handing>>

AInit ==
  /\ count = InitCount
  /\ waits = [t \in Task |-> NoSem]
  /\ outcome = [t \in Task |-> "none"]
  /\ handing = [s \in Sem |-> 0]

Outside(t) == waits[t] = NoSem /\ outcome[t] = "none"
Waiting(s) == {t \in Task : waits[t] = s}

Take(t, s) ==
  /\ Outside(t) /\ count[s] > 0
  /\ count' = [count EXCEPT ![s] = @ - 1]
  /\ UNCHANGED <<waits, outcome, handing>>

Wait(t, s) ==
  /\ Outside(t) /\ count[s] = 0
  /\ waits' = [waits EXCEPT ![t] = s]
  /\ UNCHANGED <<count, outcome, handing>>

(* A post counts a unit when nobody waits; otherwise it hands a unit to    *)
(* one waiter, or one to each.                                             *)
Signal(s) ==
  /\ \/ /\ Waiting(s) = {} /\ count[s] < MaxCount
        /\ count' = [count EXCEPT ![s] = @ + 1]
        /\ UNCHANGED handing
     \/ /\ Waiting(s) # {} /\ handing[s] = 0
        /\ \E n \in {1, Cardinality(Waiting(s))} :
             handing' = [handing EXCEPT ![s] = n]
        /\ UNCHANGED count
  /\ UNCHANGED <<waits, outcome>>

EndWait(t, how) ==
  /\ waits' = [waits EXCEPT ![t] = NoSem]
  /\ outcome' = [outcome EXCEPT ![t] = how]
  /\ UNCHANGED count

Hand(t, s) ==
  /\ waits[t] = s /\ handing[s] > 0
  /\ handing' = [handing EXCEPT ![s] = @ - 1]
  /\ EndWait(t, "unit")

(* A timeout or an abort; not while units are being handed out.            *)
GiveUp(t, s) ==
  /\ waits[t] = s /\ handing[s] = 0
  /\ EndWait(t, "nothing")
  /\ UNCHANGED handing

Learn(t) ==
  /\ waits[t] = NoSem /\ outcome[t] # "none"
  /\ outcome' = [outcome EXCEPT ![t] = "none"]
  /\ UNCHANGED <<count, waits, handing>>

Set(s, n) ==
  /\ Waiting(s) = {}
  /\ count' = [count EXCEPT ![s] = n]
  /\ UNCHANGED <<waits, outcome, handing>>

(* A deletion: what was counted is gone, whoever waits gets nothing.       *)
Delete(s) ==
  /\ Deletes /\ handing[s] = 0
  /\ count' = [count EXCEPT ![s] = 0]
  /\ waits' = [t \in Task |-> IF waits[t] = s THEN NoSem ELSE waits[t]]
  /\ outcome' = [t \in Task |-> IF waits[t] = s THEN "nothing" ELSE outcome[t]]
  /\ UNCHANGED handing

(* A task that is deleted waits for nothing and has nothing to learn.      *)
Vanish(t) ==
  /\ Deletes
  /\ \A s \in Sem : waits[t] = s => handing[s] = 0
  /\ waits' = [waits EXCEPT ![t] = NoSem]
  /\ outcome' = [outcome EXCEPT ![t] = "none"]
  /\ UNCHANGED <<count, handing>>

ANext ==
  \/ \E s \in Sem : \/ Signal(s) \/ Delete(s)
                    \/ \E n \in 0..MaxCount : Set(s, n)
                    \/ \E t \in Task : \/ Take(t, s) \/ Wait(t, s)
                                       \/ Hand(t, s) \/ GiveUp(t, s)
  \/ \E t \in Task : Learn(t) \/ Vanish(t)

ASpec == AInit /\ [][ANext]_avars
=============================================================================
