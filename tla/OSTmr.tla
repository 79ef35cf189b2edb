------------------------------- MODULE OSTmr -------------------------------
(***************************************************************************)
(* Software timers (os_tmr.c): the timer wheel, the timer task and the     *)
(* callbacks it runs, and the timer services.  Every service and the walk  *)
(* of the timer task hold the scheduler's lock, so that tasks see each     *)
(* other's calls whole; but a callback runs inside the walk and may call   *)
(* the services itself.  Interrupt handlers may not: they only tick.       *)
(***************************************************************************)
EXTENDS Integers, SequencesExt

CONSTANTS Tmr,        \* timer control blocks
          NoTmr,      \* the null pointer
          Config,     \* what the application creates each timer with: the
                      \* fields dly, period and opt of OSTmrCreate()
          Wrap,       \* how many values OS_TICK has (the code: 2^32)
          WheelSize,  \* OSCfg_TmrWheelSize
          UpdateCnt,  \* OSTmrUpdateCnt: ticks per update of the timers
          MaxOwed,    \* bound on updates the timer task is behind
          Careful     \* callbacks keep off the other timers of the spoke

ASSUME TmrAssumption ==
  /\ NoTmr \notin Tmr /\ Wrap \in Nat \ {0}
  /\ WheelSize \in Nat \ {0} /\ UpdateCnt \in Nat \ {0} /\ MaxOwed \in Nat \ {0}
  /\ Careful \in BOOLEAN
  /\ \A t \in Tmr :
       /\ Config[t].dly \in 0..Wrap - 1 /\ Config[t].period \in 0..Wrap - 1
       /\ \/ Config[t].opt = "PERIODIC" /\ Config[t].period > 0
          \/ Config[t].opt = "ONE_SHOT" /\ Config[t].dly > 0

VARIABLES ctr,     \* OSTmrTickCtr
          upd,     \* OSTmrUpdateCtr
          owed,    \* SemCtr of the timer task: updates it has to make
          wheel,   \* OSCfg_TmrWheel, the timers of each spoke from FirstPtr on
          st,      \* State of each timer
          match,   \* Match of each timer
          task     \* the timer task: at, the timer whose callback runs, and
                   \* p_tmr, the timer it looks at next

tvars == <<wheel, st, match>>
tmrvars == <<ctr, upd, owed, task, tvars>>

Spoke == 0..WheelSize - 1
SpokeOf(m) == m % WheelSize
Wait == [at |-> "wait", own |-> NoTmr, p_tmr |-> NoTmr]

TmrTypeOK ==
  /\ ctr \in 0..Wrap - 1 /\ upd \in 1..UpdateCnt /\ owed \in 0..MaxOwed
  /\ wheel \in [Spoke -> Seq(Tmr)]
  /\ st \in [Tmr -> {"UNUSED", "STOPPED", "RUNNING", "COMPLETED"}]
  /\ match \in [Tmr -> 0..Wrap - 1]
  /\ task \in [at : {"wait", "test", "callback", "fault"},
               own : Tmr \cup {NoTmr}, p_tmr : Tmr \cup {NoTmr}]

TmrInit ==
  /\ ctr = 0 /\ upd = UpdateCnt /\ owed = 0
  /\ wheel = [k \in Spoke |-> << >>]
  /\ st = [t \in Tmr |-> "UNUSED"]
  /\ match = [t \in Tmr |-> 0]
  /\ task = Wait

-----------------------------------------------------------------------------
(* The wheel.  wh is the wheel the timer was taken off.                    *)

Remain(m) == (m - ctr) % Wrap

(* The delay of a timer that is started: a periodic one may have none.     *)
FirstDelay(t) == IF Config[t].dly = 0 THEN Config[t].period ELSE Config[t].dly

OS_TmrLink(wh, t, delay) ==
  LET m == (ctr + delay) % Wrap
      At(s) == CHOOSE i \in 1..Len(s) + 1 :
                 /\ \A j \in 1..i - 1 : Remain(m) > Remain(match[s[j]])
                 /\ i =< Len(s) => Remain(m) =< Remain(match[s[i]])
  IN  /\ match' = [match EXCEPT ![t] = m]
      /\ wheel' = [wh EXCEPT ![SpokeOf(m)] = InsertAt(@, At(@), t)]

Place(s, t) == CHOOSE i \in DOMAIN s : s[i] = t

OS_TmrUnlink(t) == [wheel EXCEPT ![SpokeOf(match[t])] = RemoveAt(@, Place(@, t))]

Linked(t) == t \in Range(wheel[SpokeOf(match[t])])

-----------------------------------------------------------------------------
(* The services, called by a task, or by a callback of the timer task.  A  *)
(* careful callback calls them for its own timer and for timers outside    *)
(* the spoke that is being walked.                                         *)

MayCall(t) ==
  \/ task.at = "wait"
  \/ /\ task.at = "callback"
     /\ Careful => t = task.own \/ t \notin Range(wheel[SpokeOf(ctr)])

OSTmrCreate(t) ==
  /\ MayCall(t) /\ st[t] = "UNUSED"
  /\ st' = [st EXCEPT ![t] = "STOPPED"]
  /\ match' = [match EXCEPT ![t] = 0]
  /\ UNCHANGED <<ctr, upd, owed, task, wheel>>

OSTmrStart(t) ==
  /\ MayCall(t) /\ st[t] # "UNUSED"
  /\ OS_TmrLink(IF st[t] = "RUNNING" THEN OS_TmrUnlink(t) ELSE wheel, t, FirstDelay(t))
  /\ st' = [st EXCEPT ![t] = "RUNNING"]
  /\ UNCHANGED <<ctr, upd, owed, task>>

(* The callback that OSTmrStop() may run is left to the calls that follow. *)
OSTmrStop(t) ==
  /\ MayCall(t) /\ st[t] = "RUNNING"
  /\ wheel' = OS_TmrUnlink(t)
  /\ st' = [st EXCEPT ![t] = "STOPPED"]
  /\ UNCHANGED <<ctr, upd, owed, task, match>>

(* Mutant: a deleted timer stays in the wheel.                             *)
MutantTmrDel(t) ==
  /\ MayCall(t) /\ st[t] # "UNUSED"
  /\ st' = [st EXCEPT ![t] = "UNUSED"]
  /\ match' = [match EXCEPT ![t] = 0]
  /\ UNCHANGED <<ctr, upd, owed, task, wheel>>

OSTmrDel(t) ==
  /\ MayCall(t) /\ st[t] # "UNUSED"
  /\ wheel' = IF st[t] = "RUNNING" THEN OS_TmrUnlink(t) ELSE wheel
  /\ st' = [st EXCEPT ![t] = "UNUSED"]
  /\ match' = [match EXCEPT ![t] = 0]
  /\ UNCHANGED <<ctr, upd, owed, task>>

(* The time left that the application is told.                             *)
OSTmrRemainGet(t) ==
  CASE st[t] = "RUNNING" -> Remain(match[t])
    [] st[t] = "STOPPED" -> FirstDelay(t)
    [] OTHER -> 0

-----------------------------------------------------------------------------
(* The tick interrupt and the timer task.                                  *)

OSTimeTick ==
  /\ owed < MaxOwed
  /\ IF upd = 1 THEN upd' = UpdateCnt /\ owed' = owed + 1
                ELSE upd' = upd - 1 /\ UNCHANGED owed
  /\ UNCHANGED <<ctr, task, tvars>>

First(s) == IF s = << >> THEN NoTmr ELSE s[1]

(* The timer after t in its spoke.                                         *)
NextPtr(t) ==
  LET s == wheel[SpokeOf(match[t])]
      i == Place(s, t)
  IN  IF i < Len(s) THEN s[i + 1] ELSE NoTmr

(* The timer task takes the scheduler's lock and begins a walk.            *)
OS_TmrTask ==
  /\ task.at = "wait" /\ owed > 0
  /\ owed' = owed - 1
  /\ ctr' = (ctr + 1) % Wrap
  /\ task' = [at |-> "test", own |-> NoTmr, p_tmr |-> First(wheel[SpokeOf(ctr')])]
  /\ UNCHANGED <<upd, tvars>>

OS_TmrTaskDone ==
  /\ task.at = "test"
  /\ task.p_tmr # NoTmr => match[task.p_tmr] # ctr
  /\ task' = Wait
  /\ UNCHANGED <<ctr, upd, owed, tvars>>

(* Mutant: the walk ends with the first timer that is due.                 *)
MutantTmrTaskExpire ==
  LET t == task.p_tmr
  IN  /\ task.at = "test" /\ t # NoTmr
      /\ match[t] = ctr /\ Linked(t)
      /\ IF Config[t].opt = "PERIODIC"
         THEN /\ OS_TmrLink(OS_TmrUnlink(t), t, Config[t].period)
              /\ st' = [st EXCEPT ![t] = "RUNNING"]
         ELSE /\ wheel' = OS_TmrUnlink(t)
              /\ st' = [st EXCEPT ![t] = "COMPLETED"]
              /\ UNCHANGED match
      /\ task' = [at |-> "callback", own |-> t, p_tmr |-> NoTmr]
      /\ UNCHANGED <<ctr, upd, owed>>

(* A timer is due: it leaves its spoke, or moves, and its callback begins. *)
(* p_tmr_next was read before.  A timer that is in no spoke has no         *)
(* predecessor to unlink it from: OS_TmrUnlink() then writes through a     *)
(* null pointer, and what the program does from there on is not modelled.  *)
OS_TmrTaskExpire ==
  LET t == task.p_tmr
  IN  /\ task.at = "test" /\ t # NoTmr
      /\ match[t] = ctr
      /\ IF ~Linked(t)
         THEN task' = [task EXCEPT !.at = "fault"] /\ UNCHANGED tvars
         ELSE /\ IF Config[t].opt = "PERIODIC"
                 THEN /\ OS_TmrLink(OS_TmrUnlink(t), t, Config[t].period)
                      /\ st' = [st EXCEPT ![t] = "RUNNING"]
                 ELSE /\ wheel' = OS_TmrUnlink(t)
                      /\ st' = [st EXCEPT ![t] = "COMPLETED"]
                      /\ UNCHANGED match
              /\ task' = [at |-> "callback", own |-> t, p_tmr |-> NextPtr(t)]
      /\ UNCHANGED <<ctr, upd, owed>>

CallbackReturns ==
  /\ task.at = "callback"
  /\ task' = [task EXCEPT !.at = "test", !.own = NoTmr]
  /\ UNCHANGED <<ctr, upd, owed, tvars>>

TmrNext ==
  \/ OSTimeTick
  \/ OS_TmrTask
  \/ OS_TmrTaskDone
  \/ OS_TmrTaskExpire
  \/ CallbackReturns
  \/ \E t \in Tmr : \/ OSTmrCreate(t)
                    \/ OSTmrStart(t)
                    \/ OSTmrStop(t)
                    \/ OSTmrDel(t)

TmrSpec == TmrInit /\ [][TmrNext]_tmrvars

-----------------------------------------------------------------------------
(* Properties.                                                             *)

(* A timer is in the wheel, once and in the spoke of its match time,       *)
(* exactly while its state is running, whatever its callbacks and other    *)
(* tasks do to it.                                                         *)
RunningIsLinked ==
  \A t \in Tmr, k \in Spoke :
    Cardinality({i \in DOMAIN wheel[k] : wheel[k][i] = t}) =
      IF st[t] = "RUNNING" /\ k = SpokeOf(match[t]) THEN 1 ELSE 0

(* Each timer expires exactly when its delay is over, and a periodic one   *)
(* after each period, across the wrap of OSTmrTickCtr, though timers due   *)
(* at the same time start, stop and delete timers in their callbacks.      *)
Abs == INSTANCE AbsTmr WITH
  Delay <- [t \in Tmr |-> FirstDelay(t)],
  Period <- [t \in Tmr |-> IF Config[t].opt = "PERIODIC" THEN Config[t].period ELSE 0],
  left <- [t \in Tmr |-> IF st[t] = "RUNNING" THEN OSTmrRemainGet(t) ELSE -1]

ExpiresOnTime == Abs!ASpec
=============================================================================
