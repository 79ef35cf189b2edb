------------------------------ MODULE MCAlone ------------------------------
(* The parts of the kernel that are modelled by themselves, for TLC: the   *)
(* memory partition, the tick wheel, HMSM delays, timers, message blocks   *)
(* and pends on several objects.  They share no variable: each behaviour   *)
(* is one of a single part, and the others keep their initial states.      *)
EXTENDS OSMem, OSPendMulti, OSTmr, OSTimeHMSM

CONSTANTS c1, c2, t1, t2, once, each, both, none, qa, qb, va, vb, nothing,
          ta, tb, oa, ob

VARIABLES part,
          tickCtr, tickWheel, tickState, tickMatch, tickPrev, tickRdy, tickOwed,
          tickAge, tickSet,
          msgNext, msgData, msgPool, msgMq, msgRet

tickVars ==
  <<tickCtr, tickWheel, tickState, tickMatch, tickPrev, tickRdy, tickOwed,
    tickAge, tickSet>>
msgVars == <<msgNext, msgData, msgPool, msgMq, msgRet>>

-----------------------------------------------------------------------------
(* The tick wheel: a counter of two bits and three spokes, which do not    *)
(* divide its range.                                                       *)
Tick == INSTANCE OSTick WITH
  Task <- {t1, t2}, Bits <- 2, WheelSize <- 3, Dlys <- {1, 2, 3},
  Opts <- {"DLY", "PERIODIC", "MATCH"}, PastMatch <- FALSE, TimeSets <- {2},
  MaxOwed <- 1,
  ctr <- tickCtr, wheel <- tickWheel, state <- tickState, match <- tickMatch,
  prev <- tickPrev, rdy <- tickRdy, owed <- tickOwed, age <- tickAge, set <- tickSet

(* Timers: a one-shot timer, a periodic one, and one with a first delay    *)
(* and a period, which meet in one spoke.                                  *)
MCConfig ==
  (once :> [dly |-> 2, period |-> 0, opt |-> "ONE_SHOT"]) @@
  (each :> [dly |-> 0, period |-> 2, opt |-> "PERIODIC"]) @@
  (both :> [dly |-> 3, period |-> 1, opt |-> "PERIODIC"])

(* Message blocks: two queues that share too few.                          *)
Msgs == INSTANCE OSMsg WITH
  Blocks <- 3, Queue <- {qa, qb}, Size <- (qa :> 2) @@ (qb :> 3), Val <- {va, vb},
  NoVal <- nothing,
  next <- msgNext, data <- msgData, pool <- msgPool, mq <- msgMq, ret <- msgRet

(* Pends on several objects: tables of one and of two objects.             *)
MCTables == {<<oa>>, <<oa, ob>>}
MCInitPrio == (ta :> 1) @@ (tb :> 0)

ASSUME AloneAssumption ==
  /\ Tick!TickAssumption /\ Msgs!MsgAssumption

-----------------------------------------------------------------------------
AloneInit ==
  /\ part \in {"mem", "tick", "hmsm", "timer", "msgs", "multi"}
  /\ IF part = "mem" THEN Init ELSE Init /\ link = [b \in Blk |-> Null]
  /\ Tick!Init /\ HMSMInit /\ TmrInit /\ Msgs!Init
  /\ MultiInit /\ ret.task = ta

Others(p) ==
  /\ part = p /\ UNCHANGED part
  /\ p # "mem" => UNCHANGED vars
  /\ p # "tick" => UNCHANGED tickVars
  /\ p # "hmsm" => UNCHANGED hmsmvars
  /\ p # "timer" => UNCHANGED tmrvars
  /\ p # "msgs" => UNCHANGED msgVars
  /\ p # "multi" => UNCHANGED multivars

AloneNext ==
  \/ Others("mem") /\ Next
  \/ Others("tick") /\ Tick!Next
  \/ Others("hmsm") /\ HMSMNext
  \/ Others("timer") /\ TmrNext
  \/ Others("msgs") /\ Msgs!Next
  \/ Others("multi") /\ MultiNext

AloneSpec ==
  AloneInit /\ [][AloneNext]_<<part, vars, tickVars, hmsmvars, tmrvars, msgVars, multivars>>

Symmetric == Permutations({c1, c2}) \cup Permutations({t1, t2})

-----------------------------------------------------------------------------
(* What the run checks of each part; the parts' modules say what it means. *)

(* Whatever a part links together agrees with the states it keeps: blocks  *)
(* with their free list, tasks and timers with the spokes of their wheels, *)
(* messages with queues and pool, tasks with the objects of their tables.  *)
LinksAgree ==
  CASE part = "mem"   -> TypeOK /\ PutIsTaken
    [] part = "tick"  -> Tick!TypeOK /\ Tick!WheelAgrees
    [] part = "timer" -> TmrTypeOK /\ RunningIsLinked
    [] part = "msgs"  -> Msgs!TypeOK /\ Msgs!EachBlockOnce
    [] part = "multi" -> MultiTypeOK /\ ListsMatchTables /\ WaitersByPriority
    [] OTHER -> TRUE

(* Delays and timeouts end at their tick: AbsTick, see OSTick.             *)
WakesOnTime ==
  Tick!Abs!AInit /\ [][part = "tick" => Tick!Abs!ANext]_(Tick!Abs!avars)

(* Queues made of blocks keep the order of their messages: AbsMsg, see     *)
(* OSMsg.                                                                  *)
QueuesKeepOrder ==
  Msgs!Abs!AInit /\ [][part = "msgs" => Msgs!Abs!ANext]_(Msgs!Abs!avars)
=============================================================================
