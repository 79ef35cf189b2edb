-------------------------------- MODULE AbsQ --------------------------------
(***************************************************************************)
(* What a message queue promises, without priorities, ticks or a scheduler:*)
(* a message waits in its queue only while no task waits there, in order;  *)
(* a posted message goes to one waiter, or to every one, and a waiter ends *)
(* with one message or with none, never both.                              *)
(***************************************************************************)
EXTENDS Naturals, Sequences, FiniteSetsExt

CONSTANTS Task, Queue, NoQueue, Size, Pool, Msg

VARIABLES queue,    \* the messages nobody has yet, oldest first
          waits,    \* the queue each task waits on, NoQueue if none
          outcome,  \* how a task's wait ended, until it learns of it:
                    \* the messages it got, {"nothing"} if none
          handing   \* messages that waiters are about to get: left copies of msg

avars == <<queue, waits, outcome, handing>>

Nothing == [left |-> 0, msg |-> "none"]

AInit ==
  /\ queue = [q \in Queue |-> << >>]
  /\ waits = [t \in Task |-> NoQueue]
  /\ outcome = [t \in Task |-> {}]
  /\ handing = [q \in Queue |-> Nothing]

Waiting(q) == {t \in Task : waits[t] = q}
Outside(t) == waits[t] = NoQueue /\ outcome[t] = {}

Receive(t, q) ==
  /\ Outside(t) /\ queue[q] # << >>
  /\ queue' = [queue EXCEPT ![q] = Tail(@)]
  /\ UNCHANGED <<waits, outcome, handing>>

Wait(t, q) ==
  /\ Outside(t) /\ queue[q] = << >>
  /\ waits' = [waits EXCEPT ![t] = q]
  /\ UNCHANGED <<queue, outcome, handing>>

(* All the queues together hold Pool messages at most.                     *)
Total == MapThenSumSet(LAMBDA q : Len(queue[q]), Queue)

Queued(q, m) ==
  /\ Waiting(q) = {} /\ Len(queue[q]) < Size[q] /\ Total < Pool
  /\ \/ queue' = [queue EXCEPT ![q] = Append(@, m)]
     \/ queue' = [queue EXCEPT ![q] = <<m>> \o @]
  /\ UNCHANGED <<waits, outcome, handing>>

Handed(q, m) ==
  /\ Waiting(q) # {} /\ handing[q].left = 0
  /\ \E n \in {1, Cardinality(Waiting(q))} :
       handing' = [handing EXCEPT ![q] = [left |-> n, msg |-> m]]
  /\ UNCHANGED <<queue, waits, outcome>>

Hand(t, q) ==
  /\ waits[t] = q /\ handing[q].left > 0
  /\ waits' = [waits EXCEPT ![t] = NoQueue]
  /\ outcome' = [outcome EXCEPT ![t] = {handing[q].msg}]
  /\ handing' = [handing EXCEPT ![q] =
                  IF @.left = 1 THEN Nothing
                  ELSE [left |-> @.left - 1, msg |-> @.msg]]
  /\ UNCHANGED queue

(* A timeout or an abort; not while messages are being handed out.         *)
GiveUp(t, q) ==
  /\ waits[t] = q /\ handing[q].left = 0
  /\ waits' = [waits EXCEPT ![t] = NoQueue]
  /\ outcome' = [outcome EXCEPT ![t] = {"nothing"}]
  /\ UNCHANGED <<queue, handing>>

Learn(t) ==
  /\ waits[t] = NoQueue /\ outcome[t] # {}
  /\ outcome' = [outcome EXCEPT ![t] = {}]
  /\ UNCHANGED <<queue, waits, handing>>

Flush(q) ==
  /\ queue' = [queue EXCEPT ![q] = << >>]
  /\ UNCHANGED <<waits, outcome, handing>>

(* A deletion: what was queued is gone, whoever waits gets nothing.        *)
Delete(q) ==
  /\ handing[q].left = 0
  /\ queue' = [queue EXCEPT ![q] = << >>]
  /\ waits' = [t \in Task |-> IF waits[t] = q THEN NoQueue ELSE waits[t]]
  /\ outcome' = [t \in Task |-> IF waits[t] = q THEN {"nothing"} ELSE outcome[t]]
  /\ UNCHANGED handing

ANext ==
  \/ \E q \in Queue : \/ Flush(q) \/ Delete(q)
                      \/ \E m \in Msg : Queued(q, m) \/ Handed(q, m)
                      \/ \E t \in Task : \/ Receive(t, q) \/ Wait(t, q)
                                         \/ Hand(t, q) \/ GiveUp(t, q)
  \/ \E t \in Task : Learn(t)

ASpec == AInit /\ [][ANext]_avars
=============================================================================
