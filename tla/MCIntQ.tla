------------------------------- MODULE MCIntQ -------------------------------
(* An instance of OSIntQ for TLC: one task and the idle task; what is      *)
(* deferred are signals to the task and its suspension.                    *)
EXTENDS OSIntQ

MCCall == {[type |-> "SIGNAL", obj |-> 1], [type |-> "SUSPEND", obj |-> 1]}
=============================================================================
