------------------------------ MODULE QueueUse ------------------------------
(***************************************************************************)
(* A program that uses one Queue: any legal sequence of calls, from any    *)
(* initial capacity.                                                       *)
(***************************************************************************)
EXTENDS QueueState

CONSTANTS
    InitialCapacity,    \* capacities given to the constructor
    MaxSize             \* bound: the program keeps at most MaxSize objects

ASSUME QueueUseAssumption == InitialCapacity \subseteq Nat

Init == \E c \in InitialCapacity : q = NewQueue(c)

\* push_back() and emplace_back().
Push(v) == q.size < MaxSize /\ q' = PushBack(q, v)

\* front() and then pop_front(); the caller checks empty().
Pop == q.size > 0 /\ q' = PopFront(q)

Next == Pop \/ \E v \in Value : Push(v)

Spec == Init /\ [][Next]_q
=============================================================================
