------------------------------- MODULE MCDel -------------------------------
(* Instances of OSDel for TLC: three tasks, two of them of one priority.   *)
EXTENDS OSDel

CONSTANTS hi, mid1, mid2, idle, tick, s1, none

MCTask == {hi, mid1, mid2, idle}
MCInitPrio == (hi :> 0) @@ (mid1 :> 1) @@ (mid2 :> 1) @@ (idle :> 2)
MCInitCtr == (s1 :> 1)
Mids == Permutations({mid1, mid2})
PostOpts == {{}, {"ALL"}}
=============================================================================
