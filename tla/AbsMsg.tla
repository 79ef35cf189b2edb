------------------------------- MODULE AbsMsg -------------------------------
(***************************************************************************)
(* What message queues promise, without blocks and links: each    *)
(* queue is a sequence of values, and all of them together hold at most as *)
(* many as there are blocks.                                               *)
(***************************************************************************)
EXTENDS Naturals, Sequences

CONSTANTS Queue, Size, Val, NoVal, Blocks

VARIABLES content,   \* the values in each queue, oldest first
          free,      \* how many more values can be queued
          ret        \* the value the last call returned, NoVal if none

avars == <<content, free, ret>>

AInit ==
  /\ content = [q \in Queue |-> << >>]
  /\ free = Blocks
  /\ ret = NoVal

APut(q, v, lifo) ==
  /\ free > 0 /\ Len(content[q]) < Size[q]
  /\ content' = [content EXCEPT ![q] = IF lifo THEN <<v>> \o @ ELSE Append(@, v)]
  /\ free' = free - 1
  /\ ret' = NoVal

AGet(q) ==
  /\ content[q] # << >>
  /\ content' = [content EXCEPT ![q] = Tail(@)]
  /\ free' = free + 1
  /\ ret' = Head(content[q])

AFreeAll(q) ==
  /\ content' = [content EXCEPT ![q] = << >>]
  /\ free' = free + Len(content[q])
  /\ ret' = NoVal

ANext == \E q \in Queue :
  \/ \E v \in Val, lifo \in BOOLEAN : APut(q, v, lifo)
  \/ AGet(q)
  \/ AFreeAll(q)

ASpec == AInit /\ [][ANext]_avars
=============================================================================
