------------------------------ MODULE MCValue ------------------------------
(* Value for TLC: tasks wait for 1, for 2, or for a change from 1 to 2.    *)
EXTENDS Value

MCWanted == {[on |-> "value", set |-> {1}], [on |-> "value", set |-> {2}],
             [on |-> "transition", set |-> {<<1, 2>>}]}
=============================================================================
