------------------------------ MODULE AbsIntQ ------------------------------
(***************************************************************************)
(* What the interrupt queue promises: the calls that interrupt handlers    *)
(* defer are made once each and in the order of the posts; a call is       *)
(* refused only while as many as the queue holds are deferred or being     *)
(* made; and what was accepted is made in the end.                         *)
(***************************************************************************)
EXTENDS Naturals, Sequences

CONSTANTS Call, NoCall, Size

VARIABLES backlog,   \* accepted and not yet made, oldest first
          busy,      \* the last call that was made still takes a place
          last,      \* the last call that was made
          err        \* what the last post returned

avars == <<backlog, busy, last, err>>

Held == Len(backlog) + (IF busy THEN 1 ELSE 0)

AInit == backlog = << >> /\ busy = FALSE /\ last = NoCall /\ err = "NONE"

APost(c) ==
  /\ Held < Size
  /\ backlog' = Append(backlog, c)
  /\ err' = "NONE"
  /\ UNCHANGED <<busy, last>>

ARefuse ==
  /\ Held = Size
  /\ err' = "INT_Q_FULL"
  /\ UNCHANGED <<backlog, busy, last>>

AMake ==
  /\ backlog # << >> /\ ~busy
  /\ last' = Head(backlog)
  /\ backlog' = Tail(backlog)
  /\ busy' = TRUE
  /\ UNCHANGED err

ADone == busy /\ busy' = FALSE /\ UNCHANGED <<backlog, last, err>>

ANext == (\E c \in Call : APost(c)) \/ ARefuse \/ AMake \/ ADone

ASpec == AInit /\ [][ANext]_avars /\ WF_avars(AMake) /\ WF_avars(ADone)
=============================================================================
