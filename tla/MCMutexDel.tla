----------------------------- MODULE MCMutexDel -----------------------------
(* Instances of OSMutexDel for TLC: tasks of three priorities.             *)
EXTENDS OSMutexDel

CONSTANTS hi, mid, low, idle, tick, m1, m2, none, nobody

MCTask == {hi, mid, low, idle}
MCInitPrio == (hi :> 0) @@ (mid :> 1) @@ (low :> 2) @@ (idle :> 3)
NoOpts == {{}}
Symmetric == Permutations({m1, m2})
=============================================================================
