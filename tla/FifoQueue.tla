----------------------------- MODULE FifoQueue -----------------------------
(***************************************************************************)
(* What a queue promises: objects leave in the order in which they came,   *)
(* each of them once.                                                      *)
(***************************************************************************)
EXTENDS Sequences

CONSTANT Value
VARIABLE items

Init == items = <<>>
Push(v) == items' = Append(items, v)
Pop == items # <<>> /\ items' = Tail(items)
Next == Pop \/ \E v \in Value : Push(v)
Spec == Init /\ [][Next]_items
=============================================================================
