------------------------------- MODULE Queue -------------------------------
(***************************************************************************)
(* detail/Queue.h: a circular buffer that grows when it is full.  The      *)
(* executor keeps its ready entries in one and a Channel its objects.      *)
(* Pointers into the buffer are indices from 0.                            *)
(***************************************************************************)
EXTENDS Naturals, Sequences

CONSTANTS
    Value,      \* T
    Blank       \* what a cell without an object holds

ASSUME QueueAssumption == Blank \notin Value

\* Queue(capacity): storage without objects.
NewQueue(c) ==
    [buffer |-> [i \in 0..(c - 1) |-> Blank],
     capacity |-> c, head |-> 0, tail |-> 0, size |-> 0]

Full(q) == q.size = q.capacity

\* ++p, wrapped at the end of the buffer.
Advance(q, p) == IF p + 1 = q.capacity THEN 0 ELSE p + 1

FrontItem(q) == q.buffer[q.head]

BugPopFront(q) ==
    [q EXCEPT !.buffer[q.head] = Blank, !.head = Advance(q, q.head)]

PopFront(q) ==
    [buffer |-> [q.buffer EXCEPT ![q.head] = Blank],
     capacity |-> q.capacity, head |-> Advance(q, q.head), tail |-> q.tail,
     size |-> q.size - 1]

\* The lengths of first_range(), which starts at head, and of second_range(),
\* which starts at the beginning of the buffer.
FirstLength(q) ==
    IF q.size = 0 THEN 0
    ELSE IF q.head < q.tail THEN q.tail - q.head ELSE q.capacity - q.head
SecondLength(q) == IF q.size = 0 \/ q.head < q.tail THEN 0 ELSE q.tail

GrownCapacity(q) == IF 2 * q.capacity < 8 THEN 8 ELSE 2 * q.capacity

BugGrow(q) ==
    [buffer |-> [i \in 0..(GrownCapacity(q) - 1) |->
                    IF i < q.capacity THEN q.buffer[i] ELSE Blank],
     capacity |-> GrownCapacity(q), head |-> 0, tail |-> q.size,
     size |-> q.size]

\* grow(): the two ranges are moved to the beginning of a larger buffer.
Grow(q) ==
    LET first == FirstLength(q)
        moved == first + SecondLength(q)
    IN  [buffer |-> [i \in 0..(GrownCapacity(q) - 1) |->
                        IF i < first THEN q.buffer[q.head + i]
                        ELSE IF i < moved THEN q.buffer[i - first]
                        ELSE Blank],
         capacity |-> GrownCapacity(q),
         head |-> 0, tail |-> moved, size |-> moved]

\* A new object after the last one, where there is space for it.
Place(q, v) ==
    [buffer |-> [q.buffer EXCEPT ![q.tail] = v],
     capacity |-> q.capacity, head |-> q.head, tail |-> Advance(q, q.tail),
     size |-> q.size + 1]

PushBack(q, v) == Place(IF Full(q) THEN Grow(q) ELSE q, v)

----------------------------------------------------------------------------
(* What the buffer stands for.                                             *)

\* The cell at distance i from the head.
Cell(q, i) ==
    IF q.head + i < q.capacity THEN q.head + i ELSE q.head + i - q.capacity

\* The objects in the order in which they leave.
Contents(q) == [i \in 1..q.size |-> q.buffer[Cell(q, i - 1)]]

\* A queue a program can have: sizes and pointers agree, and exactly the
\* cells from head to tail hold objects.
Valid(q) ==
    /\ q = [buffer |-> q.buffer, capacity |-> q.capacity, head |-> q.head,
            tail |-> q.tail, size |-> q.size]
    /\ q.capacity \in Nat
    /\ q.buffer \in [0..(q.capacity - 1) -> Value \cup {Blank}]
    /\ q.size \in 0..q.capacity
    /\ IF q.capacity = 0 THEN q.head = 0 /\ q.tail = 0
       ELSE /\ q.head \in 0..(q.capacity - 1)
            /\ q.tail = Cell(q, q.size)
    /\ \A i \in 0..(q.capacity - 1) :
            q.buffer[Cell(q, i)] \in (IF i < q.size THEN Value ELSE {Blank})
=============================================================================
