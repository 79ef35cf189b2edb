----------------------------- MODULE MCTaskSync -----------------------------
(* Instances of OSTaskSync for TLC: two tasks, and one semaphore or none.  *)
EXTENDS OSTaskSync

CONSTANTS hi, mid, idle, tick, s1, none, ma, mb, nothing

MCTask == {hi, mid, idle}
MCInitPrio == (hi :> 0) @@ (mid :> 1) @@ (idle :> 2)
OneCtr == (s1 :> 0)
NoCtr == [o \in {} |-> 0]
NoOpts == {{}}
OneOpts == {{}, {"NO_SCHED"}}
MCQSize == (hi :> 1) @@ (mid :> 0) @@ (idle :> 0)
=============================================================================
