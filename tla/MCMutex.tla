------------------------------ MODULE MCMutex ------------------------------
(* Instances of OSMutex for TLC: tasks of three priorities.                *)
EXTENDS OSMutex

CONSTANTS hi, mid, low, idle, tick, m1, m2, none, nobody

MCTask == {hi, mid, low, idle}
MCInitPrio == (hi :> 0) @@ (mid :> 1) @@ (low :> 2) @@ (idle :> 3)

MutexOpts == SUBSET {"NO_SCHED"}
NoOpts == {{}}
=============================================================================
