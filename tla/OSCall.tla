------------------------------- MODULE OSCall -------------------------------
(***************************************************************************)
(* Calls on objects that may have been deleted.  Every service reads the   *)
(* Type of the object it is given before its critical section and not      *)
(* again inside (os_sem.c:354 and 363, os_mutex.c:382 and 392, os_flag.c,  *)
(* os_q.c): a task is preempted in between, and the object may be another  *)
(* or none when it goes on.                                                *)
(***************************************************************************)
EXTENDS OSKernel

CONSTANTS Careless,   \* the objects the application deletes although another
                      \* task may be between the two in a call on them
          Renewed     \* those it creates anew once they were deleted

ASSUME CallAssumption == Careless \subseteq Obj /\ Renewed \subseteq Obj

VARIABLES gone,    \* the objects that were deleted, whose Type is NONE
          called   \* the object whose Type the call a task is in has found
                   \* right, NoObj if none

callvars == <<gone, called>>

CallTypeOK == gone \subseteq Obj /\ called \in [Task -> Obj \cup {NoObj}]

CallInit == gone = {} /\ called = [t \in Task |-> NoObj]

-----------------------------------------------------------------------------
(* The test of Type.  On an object that was deleted it ends the call with  *)
(* OS_ERR_OBJ_TYPE.                                                        *)
Check(t, o) ==
  /\ Running(t) /\ called[t] = NoObj /\ o \notin gone
  /\ called' = [called EXCEPT ![t] = o]
  /\ UNCHANGED gone

(* The critical section that follows in the call of t.                     *)
Within(t, o) ==
  /\ Running(t) /\ called[t] = o
  /\ called' = [called EXCEPT ![t] = NoObj]

(* The critical section of a call on o that tasks and interrupt handlers   *)
(* make; no task runs between the test and the rest of a handler.          *)
Passed(o) ==
  /\ \/ \E t \in Task : Within(t, o)
     \/ nest > 0 /\ o \notin gone /\ UNCHANGED called
  /\ UNCHANGED gone

(* A call that finds nothing to do, like an abort when nobody waits and a  *)
(* deletion with OS_OPT_DEL_NO_PEND when somebody does.                    *)
Refused(t) ==
  /\ called[t] # NoObj /\ Within(t, called[t])
  /\ UNCHANGED gone

(* "This function must be used with care" (os_sem.c:153): the application  *)
(* deletes what no other task is in a call on, unless it is careless.      *)
Delete(t, o) ==
  /\ "del" \in Uses /\ Within(t, o)
  /\ o \in Careless \/ \A u \in Task \ {t} : called[u] # o
  /\ gone' = gone \cup {o}

(* Creation tests no Type.                                                 *)
Create(t, o) ==
  /\ Running(t) /\ called[t] = NoObj /\ o \in gone \cap Renewed
  /\ gone' = gone \ {o}
  /\ os' = [os EXCEPT !.pend[o] = << >>]
  /\ UNCHANGED <<pc, nest, lock, crit, called>>

(* No call that passed the test of an object reaches the one created after *)
(* it.                                                                     *)
Orderly == Careless \cap Renewed = {}

(* The kernel's steps, and the calls on objects they are common to.        *)
CNext ==
  \/ KStep /\ UNCHANGED callvars
  \/ \E t \in Task :
       \/ called[t] = NoObj /\ KCall(t) /\ UNCHANGED callvars
       \/ Refused(t) /\ UNCHANGED kvars
       \/ \E o \in Obj :
            \/ Check(t, o) /\ UNCHANGED kvars
            \/ /\ Within(t, o) /\ UNCHANGED gone
               /\ \E opt \in Options : PendAbort(t, o, opt)
=============================================================================
