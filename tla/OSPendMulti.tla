---------------------------- MODULE OSPendMulti ----------------------------
(***************************************************************************)
(* Pending on several semaphores and message queues (os_pend_multi.c and   *)
(* the parts of os_core.c that walk a task's table of pend data).          *)
(*                                                                         *)
(* What an object holds is a sequence: the messages of a queue, or as many *)
(* tokens as a semaphore counts.  The tasks that wait with OSSemPend() or  *)
(* OSQPend() have a table of one entry.  Each call is a critical section;  *)
(* which of the ready tasks runs is left open.                             *)
(***************************************************************************)
EXTENDS Naturals, FiniteSetsExt, SequencesExt

CONSTANTS Task, Obj,
          PrioMax,
          Val,       \* messages, and the semaphores' token
          NoVal,     \* no message, with an aborted or deleted object
          Tables,    \* the tables of objects that tasks pend on
          InitPrio,  \* priorities of the tasks when they are created
          Limit,     \* values an object holds at most
          Uses,      \* what else is called: "abort", "timeout", "chprio", "del"
          Careless   \* objects are deleted while a task is about to pend

ASSUME MultiAssumption ==
  /\ IsFiniteSet(Task) /\ PrioMax \in Nat
  /\ NoVal \notin Val
  /\ \A tbl \in Tables : tbl \in Seq(Obj) \ {<< >>} /\ IsInjective(tbl)
  /\ InitPrio \in [Task -> 0..PrioMax]
  /\ Limit \in Nat
  /\ Uses \subseteq {"abort", "timeout", "chprio", "del"}
  /\ Careless \in BOOLEAN

VARIABLES prio,     \* Prio of each task
          table,    \* its PendDataTblPtr, empty when it does not wait
          timed,    \* tasks that wait with a timeout
          status,   \* PendStatus
          rdy,      \* the objects marked ready in its table, with messages
          pc,       \* where it is in OSPendMulti(), and for what table
          ret,      \* what the last OSPendMulti() returned, and to whom
          type,     \* objects that exist
          content,  \* Ctr or MsgQ of each object
          pend      \* its PendList

tcbs == <<prio, table, timed, status, rdy>>
objs == <<type, content, pend>>
multivars == <<tcbs, pc, ret, objs>>

Status == {"OK", "ABORT", "DEL", "TIMEOUT"}
Errors == {"NONE", "OBJ_TYPE", "PEND_WOULD_BLOCK", "PEND_ABORT", "OBJ_DEL", "TIMEOUT"}

MultiTypeOK ==
  /\ prio \in [Task -> 0..PrioMax]
  /\ table \in [Task -> Tables \cup {<< >>}]
  /\ timed \subseteq Task
  /\ status \in [Task -> Status]
  /\ \A t \in Task : rdy[t] \subseteq Obj \X (Val \cup {NoVal})
  /\ pc \in [Task -> [at : {"run", "valid", "wait"}, tbl : Tables \cup {<< >>}]]
  /\ ret \in [task : Task, n : 0..Cardinality(Obj), err : Errors]
  /\ type \subseteq Obj
  /\ \A o \in Obj : Len(content[o]) =< Limit /\ Range(content[o]) \subseteq Val
  /\ \A o \in Obj : Range(pend[o]) \subseteq Task

At(at, tbl) == [at |-> at, tbl |-> tbl]

MultiInit ==
  /\ prio = InitPrio
  /\ table = [t \in Task |-> << >>]
  /\ timed = {}
  /\ status = [t \in Task |-> "OK"]
  /\ rdy = [t \in Task |-> {}]
  /\ pc = [t \in Task |-> At("run", << >>)]
  /\ ret \in {[task |-> t, n |-> 0, err |-> "NONE"] : t \in Task}
  /\ type = Obj
  /\ content = [o \in Obj |-> << >>]
  /\ pend = [o \in Obj |-> << >>]

-----------------------------------------------------------------------------
(* Pend lists.                                                             *)

(* The entries of s that are in T.                                         *)
Only(s, T) ==
  LET upTo[i \in 0..Len(s)] ==
        IF i = 0 THEN << >>
        ELSE IF s[i] \in T THEN Append(upTo[i - 1], s[i]) ELSE upTo[i - 1]
  IN  upTo[Len(s)]

OS_PendListInsertPrio(s, t, p) ==
  Only(s, {u \in Task : p[u] =< p[t]}) \o <<t>> \o Only(s, {u \in Task : p[u] > p[t]})

(* The lists after OS_PendListRemove() of each task of W: it leaves those  *)
(* of all the objects in its table.                                        *)
OS_PendListRemove(W) ==
  [o \in Obj |-> Only(pend[o], {u \in Task : u \notin W \/ o \notin Range(table[u])})]

OS_PendListChangePrio(t) ==
  [o \in Obj |->
     IF o \in Range(table[t]) /\ Len(pend[o]) > 1
     THEN OS_PendListInsertPrio(OS_PendListRemove({t})[o], t, prio')
     ELSE pend[o]]

(* Mutant: the tick list still has the tasks.                              *)
MutantEndWaits(W, s, reason) ==
  /\ pend' = OS_PendListRemove(W)
  /\ table' = [t \in Task |-> IF t \in W THEN << >> ELSE table[t]]
  /\ timed' = timed
  /\ status' = [t \in Task |-> IF t \in W THEN s ELSE status[t]]
  /\ rdy' = [t \in Task |-> IF t \in W THEN rdy[t] \cup reason ELSE rdy[t]]
  /\ UNCHANGED <<prio, pc, ret>>

(* The waits of the tasks of W end with status s: OS_Post(), OS_PendAbort()*)
(* OS_PendObjDel() and the tick task.  Their tables get the entries of     *)
(* reason: an object and a message, or nothing after a timeout.            *)
EndWaits(W, s, reason) ==
  /\ pend' = OS_PendListRemove(W)
  /\ table' = [t \in Task |-> IF t \in W THEN << >> ELSE table[t]]
  /\ timed' = timed \ W
  /\ status' = [t \in Task |-> IF t \in W THEN s ELSE status[t]]
  /\ rdy' = [t \in Task |-> IF t \in W THEN rdy[t] \cup reason ELSE rdy[t]]
  /\ UNCHANGED <<prio, pc, ret>>

(* The tasks that a post or an abort serves: the first in the list or all. *)
Served(o, all) == IF all THEN Range(pend[o]) ELSE {Head(pend[o])}

-----------------------------------------------------------------------------
(* OSPendMulti().                                                          *)

Return(t, n, err) ==
  /\ pc' = [pc EXCEPT ![t] = At("run", << >>)]
  /\ ret' = [task |-> t, n |-> n, err |-> err]

(* The types of the objects are looked at before the critical section.     *)
OS_PendMultiValidate(t, tbl) ==
  /\ pc[t].at = "run"
  /\ IF Range(tbl) \subseteq type
     THEN /\ pc' = [pc EXCEPT ![t] = At("valid", tbl)]
          /\ UNCHANGED ret
     ELSE Return(t, 0, "OBJ_TYPE")
  /\ UNCHANGED <<tcbs, objs>>

(* Mutant: the first object decides.                                       *)
MutantAvailable(tbl) == IF content[Head(tbl)] # << >> THEN {Head(tbl)} ELSE {}

Available(tbl) == {o \in Range(tbl) \cap type : content[o] # << >>}

(* Mutant: the mark of one object is all that is kept.                     *)
MutantPendMultiGetRdy(t, tbl) ==
  /\ Available(tbl) # {}
  /\ content' = [o \in Obj |-> IF o \in Available(tbl) THEN Tail(content[o]) ELSE content[o]]
  /\ \E o \in Available(tbl) : rdy' = [rdy EXCEPT ![t] = {<<o, Head(content[o])>>}]
  /\ Return(t, Cardinality(Available(tbl)), "NONE")
  /\ UNCHANGED <<prio, table, timed, status, type, pend>>

(* One value is taken of every object that has some.                       *)
OS_PendMultiGetRdy(t, tbl) ==
  /\ Available(tbl) # {}
  /\ content' = [o \in Obj |-> IF o \in Available(tbl) THEN Tail(content[o]) ELSE content[o]]
  /\ rdy' = [rdy EXCEPT ![t] = {<<o, Head(content[o])>> : o \in Available(tbl)}]
  /\ Return(t, Cardinality(Available(tbl)), "NONE")
  /\ UNCHANGED <<prio, table, timed, status, type, pend>>

WouldBlock(t, tbl) ==
  /\ Available(tbl) = {}
  /\ rdy' = [rdy EXCEPT ![t] = {}]
  /\ Return(t, 0, "PEND_WOULD_BLOCK")
  /\ UNCHANGED <<prio, table, timed, status, objs>>

(* Objects that no longer exist are in the table, but in no list.          *)
OS_PendMultiWait(t, tbl, timeout) ==
  /\ Available(tbl) = {}
  /\ rdy' = [rdy EXCEPT ![t] = {}]
  /\ table' = [table EXCEPT ![t] = tbl]
  /\ status' = [status EXCEPT ![t] = "OK"]
  /\ timed' = IF timeout THEN timed \cup {t} ELSE timed
  /\ pend' = [o \in Obj |-> IF o \in Range(tbl) \cap type
                            THEN OS_PendListInsertPrio(pend[o], t, prio) ELSE pend[o]]
  /\ pc' = [pc EXCEPT ![t] = At("wait", << >>)]
  /\ UNCHANGED <<prio, ret, type, content>>

OSPendMulti(t) ==
  /\ pc[t].at = "valid"
  /\ \/ OS_PendMultiGetRdy(t, pc[t].tbl)
     \/ WouldBlock(t, pc[t].tbl)
     \/ \E timeout \in BOOLEAN :
          (timeout => "timeout" \in Uses) /\ OS_PendMultiWait(t, pc[t].tbl, timeout)

(* After OSSched(): one object is reported whatever the status is.         *)
OSPendMultiReturn(t) ==
  /\ pc[t].at = "wait" /\ table[t] = << >>
  /\ Return(t, 1, CASE status[t] = "OK" -> "NONE"
                    [] status[t] = "ABORT" -> "PEND_ABORT"
                    [] status[t] = "DEL" -> "OBJ_DEL"
                    [] status[t] = "TIMEOUT" -> "TIMEOUT")
  /\ status' = [status EXCEPT ![t] = "OK"]
  /\ UNCHANGED <<prio, table, timed, rdy, objs>>

-----------------------------------------------------------------------------
(* What other tasks and interrupt handlers do to the objects and waits.    *)

(* OSSemPost() and OSQPost(); a value that finds no room is refused.       *)
Post(o, v, all) ==
  /\ o \in type
  /\ IF pend[o] = << >>
     THEN /\ Len(content[o]) < Limit
          /\ content' = [content EXCEPT ![o] = Append(@, v)]
          /\ UNCHANGED <<tcbs, pc, ret, pend>>
     ELSE /\ EndWaits(Served(o, all), "OK", {<<o, v>>})
          /\ UNCHANGED content
  /\ UNCHANGED type

PendAbort(o, all) ==
  /\ "abort" \in Uses
  /\ o \in type /\ pend[o] # << >>
  /\ EndWaits(Served(o, all), "ABORT", {<<o, NoVal>>})
  /\ UNCHANGED <<type, content>>

Timeout(t) ==
  /\ t \in timed
  /\ EndWaits({t}, "TIMEOUT", {})
  /\ UNCHANGED <<type, content>>

OSTaskChangePrio(t, p) ==
  /\ "chprio" \in Uses
  /\ prio' = [prio EXCEPT ![t] = p]
  /\ pend' = OS_PendListChangePrio(t)
  /\ UNCHANGED <<table, timed, status, rdy, pc, ret, type, content>>

(* OSSemDel() and OSQDel() with OS_OPT_DEL_ALWAYS, and the object is then  *)
(* created again; OS_SemClr() and OS_QClr() empty it.                      *)
Delete(o) ==
  /\ "del" \in Uses
  /\ Careless \/ \A t \in Task : o \notin Range(pc[t].tbl)
  /\ o \in type
  /\ type' = type \ {o}
  /\ content' = [content EXCEPT ![o] = << >>]
  /\ EndWaits(Served(o, TRUE), "DEL", {<<o, NoVal>>})

Create(o) ==
  /\ o \notin type
  /\ type' = type \cup {o}
  /\ content' = [content EXCEPT ![o] = << >>]
  /\ pend' = [pend EXCEPT ![o] = << >>]
  /\ UNCHANGED <<tcbs, pc, ret>>

MultiNext ==
  \/ \E t \in Task :
       \/ \E tbl \in Tables : OS_PendMultiValidate(t, tbl)
       \/ OSPendMulti(t) \/ OSPendMultiReturn(t) \/ Timeout(t)
       \/ \E p \in 0..PrioMax : OSTaskChangePrio(t, p)
  \/ \E o \in Obj :
       \/ \E v \in Val, all \in BOOLEAN : Post(o, v, all)
       \/ \E all \in BOOLEAN : PendAbort(o, all)
       \/ Delete(o) \/ Create(o)

MultiSpec == MultiInit /\ [][MultiNext]_multivars

-----------------------------------------------------------------------------
(* Properties.                                                             *)

(* A waiting task is once in the list of each object in its table, and in  *)
(* no other: whoever ends its wait, through whichever of the objects, takes*)
(* it out of all the lists.                                                *)
ListsMatchTables == \A t \in Task, o \in Obj :
  Cardinality({i \in DOMAIN pend[o] : pend[o][i] = t})
    = (IF o \in Range(table[t]) THEN 1 ELSE 0)

(* Waiters are served by priority in every list they are in, after their   *)
(* priorities changed in the middle of a wait, too.                        *)
WaitersByPriority == \A o \in Obj : \A i, j \in DOMAIN pend[o] :
  i < j => prio[pend[o][i]] =< prio[pend[o][j]]

(* No task waits for an object that has something to give.                 *)
NobodyWaitsInVain == \A o \in Obj : content[o] # << >> => pend[o] = << >>

(* A wait that ended has one reason: exactly one object is marked in the   *)
(* task's table, or none after a timeout, though posts, aborts, deletions  *)
(* and timeouts of several objects come before the task runs.              *)
OneReason == \A t \in Task :
  pc[t].at = "wait" =>
    Cardinality(rdy[t]) = (IF table[t] # << >> \/ status[t] = "TIMEOUT" THEN 0 ELSE 1)

(* Nothing that an object held is lost: the value that leaves it is marked *)
(* in the table of a task, however many of its objects that task took from *)
(* in one call.                                                            *)
NothingLost == [][\A o \in Obj :
  content[o] # << >> /\ content'[o] = Tail(content[o]) /\ type' = type
    => \E t \in Task : <<o, Head(content[o])>> \in rdy'[t]]_multivars
=============================================================================
