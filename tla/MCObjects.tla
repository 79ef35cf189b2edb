----------------------------- MODULE MCObjects -----------------------------
(* An instance of OSObjects for TLC: two tasks, two flags of one group and *)
(* a queue of two messages.                                                *)
EXTENDS OSObjects

CONSTANTS hi, mid, idle, tick, g1, qa, none, fa, fb, ma, mb, nothing

MCTask == {hi, mid, idle}
MCInitPrio == (hi :> 0) @@ (mid :> 1) @@ (idle :> 2)
MCMasks == {{fa}, {fa, fb}}
MCSize == (qa :> 2)
MCOpts == {{}, {"ALL"}}

Symmetric == Permutations(Msg)

Ask(set, mode, consume) ==
  [grp |-> g1, flags |-> set, mode |-> mode, consume |-> consume]

(* Requests that overlap in a flag one of them consumes: the last two wait *)
(* for flags to be clear, and only one of them is fed by that consumption. *)
MCWants ==
  {Ask({fa}, "SET_ANY", TRUE), Ask({fa, fb}, "SET_ALL", FALSE),
   Ask({fa, fb}, "SET_ANY", FALSE), Ask({fa}, "CLR_ANY", FALSE),
   Ask({fb}, "CLR_ALL", FALSE)}

(* States that differ in what no step reads before it writes are one: a    *)
(* TCB keeps the results of a pend that has returned until the next one.   *)
InPend(t) == pc[t] \in {"pend", "wake"}
MCView ==
  <<[os EXCEPT !.pendStatus = [t \in Task |-> IF InPend(t) THEN @[t] ELSE "OK"]],
    pc, nest, lock, crit, flags, want, msgs, post, gone, called,
    [t \in Task |-> IF InPend(t) /\ want[t] # NoWant THEN flagsRdy[t] ELSE {}],
    [t \in Task |-> IF InPend(t) /\ want[t] = NoWant THEN msgPtr[t] ELSE NoMsg]>>
=============================================================================
