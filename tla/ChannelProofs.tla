--------------------------- MODULE ChannelProofs ---------------------------
(***************************************************************************)
(* The circular buffer implements a FIFO queue, from every capacity and    *)
(* for every sequence of calls: wherever it wraps, and however it grows.   *)
(* A channel over it delivers in order and strands nobody, for any number  *)
(* of tasks, any objects and any bound.                                    *)
(***************************************************************************)
EXTENDS Channel, IntrusiveListProofs, FiniteSetTheorems

\* The fields of a valid queue, one by one.
LEMMA Fields ==
    ASSUME NEW r, Valid(r)
    PROVE  /\ r = [buffer |-> r.buffer, capacity |-> r.capacity, head |-> r.head,
                   tail |-> r.tail, size |-> r.size]
           /\ r.capacity \in Nat /\ r.size \in Nat /\ r.size <= r.capacity
           /\ r.head \in Nat
           /\ r.capacity > 0 => r.head < r.capacity /\ r.tail = Cell(r, r.size)
           /\ r.capacity = 0 => r.head = 0 /\ r.tail = 0
           /\ r.buffer \in [0..(r.capacity - 1) -> Value \cup {Blank}]
BY DEF Valid

\* Cell goes once around the buffer.
LEMMA Cells ==
    ASSUME NEW r, Valid(r), NEW i \in 0..(r.capacity - 1)
    PROVE  /\ Cell(r, i) \in 0..(r.capacity - 1)
           /\ \A j \in 0..(r.capacity - 1) : Cell(r, i) = Cell(r, j) => i = j
<1> DEFINE h == r.head
           c == r.capacity
           at(j) == IF h + j < c THEN h + j ELSE h + j - c
<1>1. c \in Nat /\ h \in 0..(c - 1) /\ i \in 0..(c - 1)
  BY Fields
<1>2. \A j : Cell(r, j) = at(j)
  BY DEF Cell
<1> HIDE DEF h, c
<1>3. at(i) \in 0..(c - 1)
  BY <1>1
<1>4. ASSUME NEW j \in 0..(c - 1), at(i) = at(j) PROVE i = j
  BY <1>1, <1>4
<1> HIDE DEF at
<1> QED BY <1>2, <1>3, <1>4 DEF c

\* When the head advances, every cell comes one step nearer to it.
LEMMA NextCell ==
    ASSUME NEW r, NEW p, r.capacity \in Nat, r.head \in 0..(r.capacity - 1),
           p.capacity = r.capacity, p.head = Advance(r, r.head),
           NEW i \in 0..(r.capacity - 1)
    PROVE  Cell(p, i) = Cell(r, i + 1)
BY DEF Cell, Advance

\* What is in the cells.
LEMMA CellItems ==
    ASSUME NEW r, Valid(r), NEW i \in 0..(r.capacity - 1)
    PROVE  r.buffer[Cell(r, i)] \in (IF i < r.size THEN Value ELSE {Blank})
BY DEF Valid

LEMMA ContentsType ==
    ASSUME NEW r, Valid(r)
    PROVE  /\ Contents(r) \in Seq(Value) /\ Len(Contents(r)) = r.size
           /\ \A i \in 1..r.size : Contents(r)[i] = r.buffer[Cell(r, i - 1)]
<1>1. r.size \in Nat /\ r.capacity \in Nat /\ r.size <= r.capacity
  BY Fields
<1>2. \A i \in 1..r.size : r.buffer[Cell(r, i - 1)] \in Value
  <2>1. SUFFICES ASSUME NEW i \in 1..r.size PROVE r.buffer[Cell(r, i - 1)] \in Value
    OBVIOUS
  <2>2. i - 1 \in 0..(r.capacity - 1) /\ i - 1 < r.size
    BY <1>1
  <2> QED
    BY <2>2, CellItems
<1>3. Contents(r) \in [1..r.size -> Value]
  BY <1>2 DEF Contents
<1>4. Contents(r) \in Seq(Value)
  BY <1>1, <1>3, SeqDef
<1>5. Len(Contents(r)) = r.size
  BY <1>1, <1>3, <1>4, LenProperties
<1> QED
  BY <1>4, <1>5 DEF Contents

----------------------------------------------------------------------------
(* The operations.                                                         *)

LEMMA NewSound ==
    ASSUME NEW c \in Nat
    PROVE  Valid(NewQueue(c)) /\ Contents(NewQueue(c)) = <<>>
<1> DEFINE r == NewQueue(c)
<1>1. r = [buffer |-> [i \in 0..(c - 1) |-> Blank], capacity |-> c, head |-> 0,
           tail |-> 0, size |-> 0]
  BY DEF NewQueue
<1>2. Valid(r)
  BY <1>1 DEF Valid, Cell
<1>3. Contents(r) = <<>>
  BY <1>1, <1>2, ContentsType
<1> QED
  BY <1>2, <1>3

LEMMA PopSound ==
    ASSUME NEW r, Valid(r), r.size > 0, NEW p, p = PopFront(r)
    PROVE  Valid(p) /\ Contents(p) = Tail(Contents(r))
<1> DEFINE n == r.capacity
           b == [r.buffer EXCEPT ![r.head] = Blank]
<1>1. /\ n \in Nat /\ n > 0 /\ r.size \in Nat /\ r.size <= n
      /\ r.head \in 0..(n - 1) /\ r.tail = Cell(r, r.size)
      /\ r.buffer \in [0..(n - 1) -> Value \cup {Blank}]
  BY Fields
<1>2. p = [buffer |-> b, capacity |-> n, head |-> Advance(r, r.head),
           tail |-> r.tail, size |-> r.size - 1]
  BY DEF PopFront
<1>3. /\ b \in [0..(n - 1) -> Value \cup {Blank}]
      /\ b[r.head] = Blank
      /\ \A x \in 0..(n - 1) : x # r.head => b[x] = r.buffer[x]
  BY <1>1
<1> HIDE DEF b
<1>4. Advance(r, r.head) \in 0..(n - 1)
  BY <1>1 DEF Advance
<1>5. \A i \in 0..(n - 1) : Cell(p, i) = Cell(r, i + 1)
  <2>1. p.head = Advance(r, r.head) /\ p.capacity = n
    BY <1>2
  <2> QED
    BY <1>1, <2>1, NextCell
<1>6. Cell(r, n) = r.head /\ Cell(r, 0) = r.head
  BY <1>1 DEF Cell
<1>7. \A i \in 0..(n - 2) : b[Cell(p, i)] = r.buffer[Cell(r, i + 1)]
  <2>1. SUFFICES ASSUME NEW i \in 0..(n - 2)
                 PROVE  b[Cell(p, i)] = r.buffer[Cell(r, i + 1)]
    OBVIOUS
  <2>2. i \in 0..(n - 1) /\ i + 1 \in 0..(n - 1) /\ 0 \in 0..(n - 1) /\ i + 1 # 0
    BY <1>1
  <2>3. Cell(r, i + 1) \in 0..(n - 1) /\ Cell(r, i + 1) # Cell(r, 0)
    BY <2>2, Cells
  <2> QED
    BY <1>3, <1>5, <1>6, <2>2, <2>3
<1>8. \A i \in 0..(n - 1) :
          b[Cell(p, i)] \in (IF i < r.size - 1 THEN Value ELSE {Blank})
  <2>1. SUFFICES ASSUME NEW i \in 0..(n - 1)
                 PROVE  b[Cell(p, i)] \in (IF i < r.size - 1 THEN Value ELSE {Blank})
    OBVIOUS
  <2>2. CASE i = n - 1
    BY <1>1, <1>3, <1>5, <1>6, <2>2
  <2>3. CASE i # n - 1
    <3>1. i \in 0..(n - 2) /\ i + 1 \in 0..(n - 1)
      BY <1>1, <2>3
    <3>2. r.buffer[Cell(r, i + 1)] \in (IF i + 1 < r.size THEN Value ELSE {Blank})
      BY <3>1, CellItems
    <3> QED
      BY <1>1, <1>7, <3>1, <3>2
  <2> QED
    BY <2>2, <2>3
<1>9. Valid(p)
  <2>1. r.tail = Cell(p, r.size - 1)
    BY <1>1, <1>5
  <2>2. /\ p = [buffer |-> p.buffer, capacity |-> p.capacity, head |-> p.head,
                tail |-> p.tail, size |-> p.size]
        /\ p.buffer = b /\ p.capacity = n /\ p.head = Advance(r, r.head)
        /\ p.tail = r.tail /\ p.size = r.size - 1
    BY <1>2
  <2> QED
    BY <1>1, <1>3, <1>4, <1>8, <2>1, <2>2 DEF Valid
<1>10. Contents(p) = Tail(Contents(r))
  <2>1. /\ Contents(p) \in Seq(Value) /\ Len(Contents(p)) = r.size - 1
        /\ \A i \in 1..(r.size - 1) : Contents(p)[i] = b[Cell(p, i - 1)]
    <3>1. p.size = r.size - 1 /\ p.buffer = b
      BY <1>2
    <3> QED
      BY <1>9, <3>1, ContentsType
  <2>2. /\ Contents(r) \in Seq(Value) /\ Len(Contents(r)) = r.size
        /\ \A i \in 1..r.size : Contents(r)[i] = r.buffer[Cell(r, i - 1)]
    BY ContentsType
  <2>3. \A i \in 1..(r.size - 1) : Contents(p)[i] = Contents(r)[i + 1]
    <3>1. SUFFICES ASSUME NEW i \in 1..(r.size - 1)
                   PROVE  Contents(p)[i] = Contents(r)[i + 1]
      OBVIOUS
    <3>2. /\ i - 1 \in 0..(n - 2) /\ i + 1 \in 1..r.size
          /\ (i - 1) + 1 = i /\ (i + 1) - 1 = i
      BY <1>1
    <3>3. b[Cell(p, i - 1)] = r.buffer[Cell(r, i)]
      BY <1>7, <3>2
    <3> QED
      BY <2>1, <2>2, <3>2, <3>3
  <2>4. /\ Tail(Contents(r)) \in Seq(Value) /\ Len(Tail(Contents(r))) = r.size - 1
        /\ \A i \in 1..(r.size - 1) : Tail(Contents(r))[i] = Contents(r)[i + 1]
    <3>1. Contents(r) # <<>>
      BY <1>1, <2>2
    <3> QED
      BY <2>2, <3>1, HeadTailProperties
  <2> QED
    BY <1>1, <2>1, <2>3, <2>4, SeqEqual
<1> QED
  BY <1>9, <1>10

LEMMA GrowSound ==
    ASSUME NEW r, Valid(r), Full(r), NEW g, g = Grow(r)
    PROVE  Valid(g) /\ ~Full(g) /\ Contents(g) = Contents(r)
<1> DEFINE n == r.capacity
           m == GrownCapacity(r)
           b == [i \in 0..(m - 1) |->
                    IF i < n THEN r.buffer[Cell(r, i)] ELSE Blank]
<1>1. /\ n \in Nat /\ r.size = n /\ r.head \in Nat
      /\ n > 0 => r.head < n /\ r.tail = r.head
      /\ n = 0 => r.head = 0 /\ r.tail = 0
      /\ r.buffer \in [0..(n - 1) -> Value \cup {Blank}]
  BY Fields DEF Full, Cell
<1>2. m \in Nat /\ n < m
  BY <1>1 DEF GrownCapacity
<1> HIDE DEF m
<1>3. FirstLength(r) = n - r.head /\ SecondLength(r) = r.head
  BY <1>1 DEF FirstLength, SecondLength
<1>4. g = [buffer |-> b, capacity |-> m, head |-> 0, tail |-> n, size |-> n]
  <2>1. g = [buffer |-> [i \in 0..(m - 1) |->
                            IF i < n - r.head THEN r.buffer[r.head + i]
                            ELSE IF i < n THEN r.buffer[i - (n - r.head)]
                            ELSE Blank],
             capacity |-> m, head |-> 0, tail |-> n, size |-> n]
    <3>1. FirstLength(r) + SecondLength(r) = n
      BY <1>1, <1>3
    <3> QED
      BY <1>3, <3>1 DEF Grow, m
  <2>2. \A i \in 0..(m - 1) :
            (IF i < n - r.head THEN r.buffer[r.head + i]
             ELSE IF i < n THEN r.buffer[i - (n - r.head)]
             ELSE Blank)
             = (IF i < n THEN r.buffer[Cell(r, i)] ELSE Blank)
    <3>1. SUFFICES ASSUME NEW i \in 0..(m - 1)
                   PROVE  (IF i < n - r.head THEN r.buffer[r.head + i]
                           ELSE IF i < n THEN r.buffer[i - (n - r.head)]
                           ELSE Blank)
                           = (IF i < n THEN r.buffer[Cell(r, i)] ELSE Blank)
      OBVIOUS
    <3>2. i < n => Cell(r, i) = (IF i < n - r.head THEN r.head + i
                                 ELSE i - (n - r.head))
      BY <1>1, <1>2 DEF Cell
    <3>3. i < n - r.head => i < n
      BY <1>1, <1>2
    <3> QED
      BY <3>2, <3>3
  <2> QED
    BY <2>1, <2>2
<1>5. /\ DOMAIN b = 0..(m - 1)
      /\ b = [i \in 0..(m - 1) |-> b[i]]
      /\ \A i \in 0..(m - 1) : b[i] = IF i < n THEN r.buffer[Cell(r, i)] ELSE Blank
  OBVIOUS
<1> HIDE DEF b
<1>6. \A i \in 0..(m - 1) : Cell(g, i) = i
  BY <1>2, <1>4 DEF Cell
<1>7. \A i \in 0..(n - 1) : r.buffer[Cell(r, i)] \in Value
  BY <1>1, CellItems
<1>8. Valid(g)
  <2>1. b \in [0..(m - 1) -> Value \cup {Blank}]
    BY <1>1, <1>2, <1>5, <1>7
  <2>2. n = Cell(g, n)
    BY <1>1, <1>2, <1>6
  <2>3. \A i \in 0..(m - 1) :
            b[Cell(g, i)] \in (IF i < n THEN Value ELSE {Blank})
    BY <1>1, <1>2, <1>5, <1>6, <1>7
  <2>4. /\ g = [buffer |-> g.buffer, capacity |-> g.capacity, head |-> g.head,
                tail |-> g.tail, size |-> g.size]
        /\ g.buffer = b /\ g.capacity = m /\ g.head = 0 /\ g.tail = n /\ g.size = n
    BY <1>4
  <2> QED
    BY <1>1, <1>2, <2>1, <2>2, <2>3, <2>4 DEF Valid
<1>9. Contents(g) = Contents(r)
  <2>1. /\ Contents(g) \in Seq(Value) /\ Len(Contents(g)) = n
        /\ \A i \in 1..n : Contents(g)[i] = b[Cell(g, i - 1)]
    <3>1. g.size = n /\ g.buffer = b
      BY <1>4
    <3> QED
      BY <1>8, <3>1, ContentsType
  <2>2. /\ Contents(r) \in Seq(Value) /\ Len(Contents(r)) = n
        /\ \A i \in 1..n : Contents(r)[i] = r.buffer[Cell(r, i - 1)]
    BY <1>1, ContentsType
  <2>3. \A i \in 1..n : b[Cell(g, i - 1)] = r.buffer[Cell(r, i - 1)]
    <3>1. SUFFICES ASSUME NEW i \in 1..n
                   PROVE  b[Cell(g, i - 1)] = r.buffer[Cell(r, i - 1)]
      OBVIOUS
    <3>2. i - 1 \in 0..(m - 1) /\ i - 1 < n
      BY <1>1, <1>2
    <3> QED
      BY <1>5, <1>6, <3>2
  <2> QED
    BY <1>1, <2>1, <2>2, <2>3, SeqEqual
<1>10. ~Full(g)
  BY <1>1, <1>2, <1>4 DEF Full
<1> QED
  BY <1>8, <1>9, <1>10

\* PushBack when there is space.
LEMMA PlacedSound ==
    ASSUME NEW r, Valid(r), ~Full(r), NEW v \in Value, NEW p,
           p = Place(r, v)
    PROVE  Valid(p) /\ Contents(p) = Append(Contents(r), v)
<1> DEFINE n == r.capacity
           b == [r.buffer EXCEPT ![r.tail] = v]
<1>1. /\ n \in Nat /\ n > 0 /\ r.size \in Nat /\ r.size < n
      /\ r.head \in 0..(n - 1) /\ r.tail = Cell(r, r.size)
      /\ r.buffer \in [0..(n - 1) -> Value \cup {Blank}]
  BY Fields DEF Full
<1>2. p = [buffer |-> b, capacity |-> n, head |-> r.head,
           tail |-> Advance(r, r.tail), size |-> r.size + 1]
  BY DEF Place
<1>3. r.tail \in 0..(n - 1)
  BY <1>1, Cells
<1>4. /\ b \in [0..(n - 1) -> Value \cup {Blank}]
      /\ b[r.tail] = v
      /\ \A x \in 0..(n - 1) : x # r.tail => b[x] = r.buffer[x]
  BY <1>1, <1>3
<1> HIDE DEF b
<1>5. \A i \in 0..n : Cell(p, i) = Cell(r, i)
  BY <1>1, <1>2 DEF Cell
<1>6. Advance(r, r.tail) = Cell(p, r.size + 1)
  <2> DEFINE h == r.head
             k == r.size
  <2>1. h \in 0..(n - 1) /\ k \in 0..(n - 1) /\ n \in Nat
    BY <1>1
  <2>2. r.tail = IF h + k < n THEN h + k ELSE h + k - n
    BY <1>1 DEF Cell
  <2>3. Advance(r, r.tail) = IF r.tail + 1 = n THEN 0 ELSE r.tail + 1
    BY DEF Advance
  <2>4. Cell(p, k + 1) = IF h + (k + 1) < n THEN h + (k + 1) ELSE h + (k + 1) - n
    BY <1>2 DEF Cell
  <2> HIDE DEF h, k, n
  <2> QED BY ONLY <2>1, <2>2, <2>3, <2>4 DEF k
<1>7. \A i \in 0..(n - 1) : b[Cell(p, i)] =
          IF i = r.size THEN v ELSE r.buffer[Cell(r, i)]
  <2>1. SUFFICES ASSUME NEW i \in 0..(n - 1)
                 PROVE  b[Cell(p, i)] = IF i = r.size THEN v
                                        ELSE r.buffer[Cell(r, i)]
    OBVIOUS
  <2>2. i \in 0..n /\ r.size \in 0..(n - 1)
    BY <1>1
  <2>3. /\ Cell(r, i) \in 0..(n - 1)
        /\ Cell(r, i) = Cell(r, r.size) => i = r.size
    BY <2>2, Cells
  <2> QED
    BY <1>1, <1>4, <1>5, <2>2, <2>3
<1>8. Valid(p)
  <2>1. \A i \in 0..(n - 1) :
            b[Cell(p, i)] \in (IF i < r.size + 1 THEN Value ELSE {Blank})
    <3>1. SUFFICES ASSUME NEW i \in 0..(n - 1)
                   PROVE  b[Cell(p, i)] \in (IF i < r.size + 1 THEN Value
                                             ELSE {Blank})
      OBVIOUS
    <3>2. r.buffer[Cell(r, i)] \in (IF i < r.size THEN Value ELSE {Blank})
      BY CellItems
    <3>3. CASE i < r.size
      BY <1>1, <1>7, <3>2, <3>3
    <3>4. CASE i = r.size
      BY <1>1, <1>7, <3>4
    <3>5. CASE i > r.size
      <4>1. r.buffer[Cell(r, i)] = Blank /\ i # r.size /\ ~(i < r.size + 1)
        BY <1>1, <3>2, <3>5
      <4> QED
        BY <1>7, <4>1
    <3> QED
      BY <1>1, <3>3, <3>4, <3>5
  <2>2. /\ p = [buffer |-> p.buffer, capacity |-> p.capacity, head |-> p.head,
                tail |-> p.tail, size |-> p.size]
        /\ p.buffer = b /\ p.capacity = n /\ p.head = r.head
        /\ p.tail = Advance(r, r.tail) /\ p.size = r.size + 1
    BY <1>2
  <2> QED
    <3>1. /\ p.capacity \in Nat /\ p.size \in 0..p.capacity
          /\ p.capacity # 0 /\ p.head \in 0..(p.capacity - 1)
          /\ p.buffer \in [0..(p.capacity - 1) -> Value \cup {Blank}]
      BY <1>1, <1>4, <2>2
    <3>2. p.tail = Cell(p, p.size)
      BY <1>6, <2>2
    <3>3. \A i \in 0..(p.capacity - 1) :
              p.buffer[Cell(p, i)] \in (IF i < p.size THEN Value ELSE {Blank})
      BY <2>1, <2>2
    <3> QED
      BY <2>2, <3>1, <3>2, <3>3 DEF Valid
<1>9. Contents(p) = Append(Contents(r), v)
  <2>1. /\ Contents(p) \in Seq(Value) /\ Len(Contents(p)) = r.size + 1
        /\ \A i \in 1..(r.size + 1) : Contents(p)[i] = b[Cell(p, i - 1)]
    <3>1. p.size = r.size + 1 /\ p.buffer = b
      BY <1>2
    <3> QED
      BY <1>8, <3>1, ContentsType
  <2>2. /\ Contents(r) \in Seq(Value) /\ Len(Contents(r)) = r.size
        /\ \A i \in 1..r.size : Contents(r)[i] = r.buffer[Cell(r, i - 1)]
    BY ContentsType
  <2>3. \A i \in 1..(r.size + 1) : Contents(p)[i] = Append(Contents(r), v)[i]
    <3>1. SUFFICES ASSUME NEW i \in 1..(r.size + 1)
                   PROVE  Contents(p)[i] = Append(Contents(r), v)[i]
      OBVIOUS
    <3>2. Contents(p)[i] = IF i - 1 = r.size THEN v ELSE r.buffer[Cell(r, i - 1)]
      <4>1. i - 1 \in 0..(n - 1)
        BY <1>1
      <4> QED
        BY <1>7, <2>1, <4>1
    <3> QED
      BY <1>1, <2>2, <3>2
  <2>4. Append(Contents(r), v) \in Seq(Value)
          /\ Len(Append(Contents(r), v)) = r.size + 1
    BY <2>2
  <2> QED
    BY <1>1, <2>1, <2>3, <2>4, SeqEqual
<1> QED
  BY <1>8, <1>9

LEMMA PushSound ==
    ASSUME NEW r, Valid(r), NEW v \in Value
    PROVE  Valid(PushBack(r, v)) /\ Contents(PushBack(r, v)) = Append(Contents(r), v)
<1>1. CASE Full(r)
  BY <1>1, GrowSound, PlacedSound DEF PushBack
<1>2. CASE ~Full(r)
  BY <1>2, PlacedSound DEF PushBack
<1> QED
  BY <1>1, <1>2

----------------------------------------------------------------------------
(* The buffer by itself.                                                   *)

Buffer == INSTANCE QueueUse WITH InitialCapacity <- Capacities

\* The operations of the instance are those of the channel's own buffer.
LEMMA SameNew == \A c : Buffer!NewQueue(c) = NewQueue(c)
BY DEF Buffer!NewQueue, NewQueue

LEMMA SamePop == \A r : Buffer!PopFront(r) = PopFront(r)
BY DEF Buffer!PopFront, PopFront, Buffer!Advance, Advance

LEMMA SamePush == \A r, v : Buffer!PushBack(r, v) = PushBack(r, v)
<1>1. \A r : Buffer!GrownCapacity(r) = GrownCapacity(r)
  BY DEF Buffer!GrownCapacity, GrownCapacity
<1>2. \A r : /\ Buffer!FirstLength(r) = FirstLength(r)
             /\ Buffer!SecondLength(r) = SecondLength(r)
  BY DEF Buffer!FirstLength, FirstLength, Buffer!SecondLength, SecondLength
<1>3. \A r : Buffer!Grow(r) = Grow(r)
  BY <1>1, <1>2 DEF Buffer!Grow, Grow
<1>4. \A r, v : Buffer!Place(r, v) = Place(r, v)
  BY DEF Buffer!Place, Place, Buffer!Advance, Advance
<1> QED BY <1>3, <1>4 DEF Buffer!PushBack, PushBack, Buffer!Full, Full

LEMMA BufferInit == ASSUME Buffer!Init PROVE Valid(q) /\ Contents(q) = <<>>
<1>1. PICK c \in Capacities : q = NewQueue(c)
  BY SameNew DEF Buffer!Init
<1> QED BY <1>1, ChannelAssumption, NewSound

LEMMA BufferPop ==
    ASSUME Valid(q), Buffer!Pop
    PROVE  Valid(q)' /\ Contents(q) # <<>> /\ Contents(q)' = Tail(Contents(q))
<1>1. q.size > 0 /\ q' = PopFront(q)
  BY SamePop DEF Buffer!Pop
<1>2. Valid(q') /\ Contents(q') = Tail(Contents(q))
  BY <1>1, PopSound
<1>3. Contents(q) # <<>>
  BY <1>1, ContentsType
<1> QED BY <1>2, <1>3

LEMMA BufferPush ==
    ASSUME Valid(q), NEW v \in Value, Buffer!Push(v)
    PROVE  Valid(q)' /\ Contents(q)' = Append(Contents(q), v)
<1>1. q' = PushBack(q, v)
  BY SamePush DEF Buffer!Push
<1>2. Valid(q') /\ Contents(q') = Append(Contents(q), v)
  BY <1>1, PushSound
<1> QED BY <1>2

LEMMA AlwaysValid == Buffer!Spec => []Valid(q)
<1>1. Buffer!Init => Valid(q)
  BY BufferInit
<1>2. Valid(q) /\ [Buffer!Next]_q => Valid(q)'
  BY BufferPop, BufferPush DEF Buffer!Next
<1> QED BY <1>1, <1>2, PTL DEF Buffer!Spec

\* A push or a pop of the buffer is one of a FIFO queue.
LEMMA OnePop ==
    ASSUME Valid(q), q.size > 0, q' = PopFront(q)
    PROVE  InOrder!Next
<1>1. Contents(q') = Tail(Contents(q)) /\ Contents(q) # <<>>
  BY PopSound, ContentsType
<1> QED BY <1>1 DEF InOrder!Next, InOrder!Pop

LEMMA OnePush ==
    ASSUME Valid(q), NEW v \in Value, q' = PushBack(q, v)
    PROVE  InOrder!Next
<1>1. Contents(q') = Append(Contents(q), v)
  BY PushSound
<1> QED BY <1>1 DEF InOrder!Next, InOrder!Push

\* Objects leave the buffer in the order in which they came, each of them
\* once, whatever its capacity is at first and however often it wraps and
\* grows (detail/Queue.h).
THEOREM QueueIsFifo == Buffer!Spec => Delivers
<1>1. Buffer!Init => InOrder!Init
  BY BufferInit DEF InOrder!Init
<1>2. Valid(q) /\ [Buffer!Next]_q => [InOrder!Next]_(Contents(q))
  <2> SUFFICES ASSUME Valid(q), [Buffer!Next]_q
               PROVE  InOrder!Next \/ Contents(q') = Contents(q)
    OBVIOUS
  <2>1. CASE Buffer!Pop
    BY <2>1, SamePop, OnePop DEF Buffer!Pop
  <2>2. ASSUME NEW v \in Value, Buffer!Push(v) PROVE InOrder!Next
    BY <2>2, SamePush, OnePush DEF Buffer!Push
  <2> QED BY <2>1, <2>2 DEF Buffer!Next
<1> QED BY <1>1, <1>2, AlwaysValid, PTL DEF Buffer!Spec, Delivers, InOrder!Spec
----------------------------------------------------------------------------
(* The lists of a channel.                                                 *)

LEMMA Members ==
    ASSUME NEW S, NEW s \in Seq(S)
    PROVE  /\ \A y : y \in ToSet(s) <=> Contains(s, y)
           /\ \A i \in 1..Len(s) : s[i] \in S /\ Contains(s, s[i])
           /\ \A y : Contains(s, y) => y \in S
<1>1. DOMAIN s = 1..Len(s) /\ \A i \in 1..Len(s) : s[i] \in S
  BY ElementOfSeq
<1> QED BY <1>1 DEF ToSet, Contains

LEMMA Joined ==
    ASSUME NEW S, NEW s \in Seq(S), NEW r \in Seq(S)
    PROVE  \A y : Contains(s \o r, y) <=> Contains(s, y) \/ Contains(r, y)
<1>1. /\ Len(s) \in Nat /\ Len(r) \in Nat /\ Len(s \o r) = Len(s) + Len(r)
      /\ \A i \in 1..(Len(s) + Len(r)) : (s \o r)[i] =
             IF i <= Len(s) THEN s[i] ELSE r[i - Len(s)]
  BY ConcatProperties, LenProperties
<1>2. ASSUME NEW y, Contains(s \o r, y) PROVE Contains(s, y) \/ Contains(r, y)
  <2>1. PICK i \in 1..(Len(s) + Len(r)) : (s \o r)[i] = y
    BY <1>1, <1>2 DEF Contains
  <2>2. CASE i <= Len(s)
    <3>1. i \in 1..Len(s) /\ s[i] = y
      BY <1>1, <2>1, <2>2
    <3> QED BY <3>1 DEF Contains
  <2>3. CASE i > Len(s)
    <3>1. i - Len(s) \in 1..Len(r) /\ r[i - Len(s)] = y
      BY <1>1, <2>1, <2>3
    <3> QED BY <3>1 DEF Contains
  <2> QED BY <1>1, <2>2, <2>3
<1>3. ASSUME NEW y, Contains(s, y) PROVE Contains(s \o r, y)
  <2>1. PICK i \in 1..Len(s) : s[i] = y
    BY <1>3 DEF Contains
  <2>2. i \in 1..Len(s \o r) /\ (s \o r)[i] = y
    BY <1>1, <2>1
  <2> QED BY <2>2 DEF Contains
<1>4. ASSUME NEW y, Contains(r, y) PROVE Contains(s \o r, y)
  <2>1. PICK i \in 1..Len(r) : r[i] = y
    BY <1>4 DEF Contains
  <2>2. Len(s) + i \in 1..Len(s \o r) /\ (s \o r)[Len(s) + i] = y
    BY <1>1, <2>1
  <2> QED BY <2>2 DEF Contains
<1> QED BY <1>2, <1>3, <1>4

\* A list has at most one waiter per task; two lists have no task in common.
OneEach(s) == \A i, j \in 1..Len(s) : s[i].task = s[j].task => i = j
Strangers(s, r) == \A v, w : Contains(s, v) /\ Contains(r, w) => v.task # w.task

LEMMA JoinedOneEach ==
    ASSUME NEW s \in Seq(Waiter), NEW r \in Seq(Waiter)
    PROVE  /\ s \o r \in Seq(Waiter)
           /\ OneEach(s \o r) <=> OneEach(s) /\ OneEach(r) /\ Strangers(s, r)
<1> DEFINE c == s \o r
<1>1. /\ Len(s) \in Nat /\ Len(r) \in Nat /\ Len(c) = Len(s) + Len(r) /\ c \in Seq(Waiter)
      /\ \A i \in 1..Len(c) : c[i] = IF i <= Len(s) THEN s[i] ELSE r[i - Len(s)]
  BY ConcatProperties, LenProperties
<1>2. /\ \A i \in 1..Len(s) : i \in 1..Len(c) /\ c[i] = s[i]
      /\ \A i \in 1..Len(r) : Len(s) + i \in 1..Len(c) /\ c[Len(s) + i] = r[i]
      /\ \A i \in 1..Len(c) : \/ i \in 1..Len(s)
                              \/ i - Len(s) \in 1..Len(r) /\ c[i] = r[i - Len(s)]
  BY <1>1
<1> HIDE DEF c
<1>3. ASSUME OneEach(c) PROVE OneEach(s) /\ OneEach(r) /\ Strangers(s, r)
  <2>1. OneEach(s)
    BY <1>2, <1>3 DEF OneEach
  <2>2. ASSUME NEW i \in 1..Len(r), NEW j \in 1..Len(r), r[i].task = r[j].task PROVE i = j
    <3>1. PICK x \in 1..Len(c) : x = Len(s) + i /\ c[x] = r[i]
      BY <1>2
    <3>2. PICK y \in 1..Len(c) : y = Len(s) + j /\ c[y] = r[j]
      BY <1>2
    <3>3. x = y
      BY <1>3, <2>2, <3>1, <3>2 DEF OneEach
    <3> QED BY <1>1, <3>1, <3>2, <3>3
  <2>3. ASSUME NEW i \in 1..Len(s), NEW j \in 1..Len(r), s[i].task = r[j].task PROVE FALSE
    <3>1. PICK y \in 1..Len(c) : y = Len(s) + j /\ c[y] = r[j]
      BY <1>2
    <3>2. i = y
      BY <1>2, <1>3, <2>3, <3>1 DEF OneEach
    <3> QED BY <1>1, <3>1, <3>2
  <2> QED BY <2>1, <2>2, <2>3 DEF OneEach, Strangers, Contains
<1>4. ASSUME OneEach(s), OneEach(r), Strangers(s, r) PROVE OneEach(c)
  <2> SUFFICES ASSUME NEW i \in 1..Len(c), NEW j \in 1..Len(c), c[i].task = c[j].task
               PROVE  i = j
    BY DEF OneEach
  <2>1. \A k \in 1..Len(s), l \in 1..Len(r) : s[k].task # r[l].task
    BY <1>4 DEF Strangers, Contains
  <2>2. CASE i \in 1..Len(s) /\ j \in 1..Len(s)
    BY <1>2, <1>4, <2>2 DEF OneEach
  <2>3. CASE i \notin 1..Len(s) /\ j \notin 1..Len(s)
    <3>1. PICK x \in 1..Len(r) : x = i - Len(s) /\ c[i] = r[x]
      BY <1>2, <2>3
    <3>2. PICK y \in 1..Len(r) : y = j - Len(s) /\ c[j] = r[y]
      BY <1>2, <2>3
    <3>3. x = y
      BY <1>4, <3>1, <3>2 DEF OneEach
    <3> QED BY <1>1, <3>1, <3>2, <3>3
  <2>4. ASSUME NEW k \in 1..Len(c), NEW l \in 1..Len(c), k \in 1..Len(s), l \notin 1..Len(s)
        PROVE  c[k].task # c[l].task
    <3>1. PICK y \in 1..Len(r) : c[l] = r[y]
      BY <1>2, <2>4
    <3>2. c[k] = s[k]
      BY <1>2, <2>4
    <3> QED BY <2>1, <2>4, <3>1, <3>2
  <2> QED BY <2>2, <2>3, <2>4
<1> QED BY <1>1, <1>3, <1>4 DEF c

\* What the operations do to a list with one waiter per task.
LEMMA AppendedOne ==
    ASSUME NEW s \in Seq(Waiter), OneEach(s), NEW w \in Waiter,
           \A v : Contains(s, v) => v.task # w.task
    PROVE  OneEach(Append(s, w))
<1>1. /\ Len(s) \in Nat /\ Len(Append(s, w)) = Len(s) + 1
      /\ Append(s, w)[Len(s) + 1] = w
      /\ \A i \in 1..Len(s) : Append(s, w)[i] = s[i]
  BY Appended
<1>2. \A i \in 1..Len(s) : s[i].task # w.task
  BY DEF Contains
<1>3. \A i \in 1..(Len(s) + 1) : i \in 1..Len(s) \/ i = Len(s) + 1
  BY <1>1
<1> QED BY <1>1, <1>2, <1>3 DEF OneEach

LEMMA PoppedOne ==
    ASSUME NEW s \in Seq(Waiter), OneEach(s), s # <<>>
    PROVE  /\ OneEach(Tail(s)) /\ \A v : Contains(Tail(s), v) => v.task # Head(s).task
           /\ \A v : Contains(Tail(s), v) <=> Contains(s, v) /\ v # Head(s)
<1>1. /\ Head(s) = s[1] /\ 1 \in 1..Len(s) /\ Len(s) \in Nat /\ Len(Tail(s)) = Len(s) - 1
      /\ \A i \in 1..Len(Tail(s)) : i + 1 \in 1..Len(s) /\ Tail(s)[i] = s[i + 1]
      /\ \A y : Contains(s, y) <=> Contains(Tail(s), y) \/ y = Head(s)
  BY Popped
<1>2. ASSUME NEW i \in 1..Len(Tail(s)), NEW j \in 1..Len(Tail(s)),
             Tail(s)[i].task = Tail(s)[j].task
      PROVE  i = j
  <2>1. i + 1 = j + 1
    BY <1>1, <1>2 DEF OneEach
  <2> QED BY <1>1, <2>1
<1>3. ASSUME NEW i \in 1..Len(Tail(s)), Tail(s)[i].task = Head(s).task PROVE FALSE
  <2>1. i + 1 = 1
    BY <1>1, <1>3 DEF OneEach
  <2> QED BY <1>1, <2>1
<1> QED BY <1>1, <1>2, <1>3 DEF OneEach, Contains

LEMMA UnlinkedOne ==
    ASSUME NEW s \in Seq(Waiter), OneEach(s), NEW w
    PROVE  /\ Unlink(s, w) \in Seq(Waiter) /\ OneEach(Unlink(s, w))
           /\ \A v : Contains(Unlink(s, w), v) => Contains(s, v)
           /\ s = <<>> => Unlink(s, w) = <<>>
<1> DEFINE r == Unlink(s, w)
<1>1. CASE Contains(s, w)
  <2>1. \A i, j \in 1..Len(s) : s[i] = s[j] => i = j
    BY DEF OneEach
  <2>2. /\ \A y : Contains(r, y) <=> Contains(s, y) /\ y # w
        /\ \A i, j \in 1..Len(r) : r[i] = r[j] => i = j
    BY <1>1, <2>1, UnlinkDistinct
  <2>3. r \in Seq(Waiter) /\ s # <<>>
    BY <1>1, UnlinkType DEF Contains
  <2> HIDE DEF r
  <2>4. ASSUME NEW i \in 1..Len(r), NEW j \in 1..Len(r), r[i].task = r[j].task PROVE i = j
    <3>1. Contains(s, r[i]) /\ Contains(s, r[j])
      BY <2>2 DEF Contains
    <3>2. r[i] = r[j]
      BY <2>4, <3>1 DEF Contains, OneEach
    <3> QED BY <2>2, <3>2
  <2> QED BY <2>2, <2>3, <2>4 DEF OneEach, r
<1>2. CASE ~Contains(s, w)
  BY <1>2 DEF Unlink
<1> QED BY <1>1, <1>2

\* unparkOne() and unparkAll(): who is woken goes from one list to the other.
LEMMA OldestGoes ==
    ASSUME NEW lot \in Seq(Waiter), NEW run \in Seq(Waiter)
    PROVE  /\ lot = <<>> => run \o Oldest(lot) = run /\ Without(lot, Oldest(lot)) = lot
           /\ lot # <<>> => /\ run \o Oldest(lot) = Append(run, Head(lot))
                            /\ Without(lot, Oldest(lot)) = Tail(lot)
<1>1. CASE lot = <<>>
  <2>1. Oldest(lot) = <<>> /\ Len(lot) = 0
    BY <1>1 DEF Oldest
  <2>2. Without(lot, <<>>) = SubSeq(lot, 1, Len(lot))
    BY DEF Without
  <2> QED BY <1>1, <2>1, <2>2, ConcatEmptySeq, SubSeqFull
<1>2. CASE lot # <<>>
  <2>1. Oldest(lot) = <<Head(lot)>> /\ Head(lot) \in Waiter
    BY <1>2, HeadTailProperties DEF Oldest
  <2>2. Without(lot, <<Head(lot)>>) = SubSeq(lot, 2, Len(lot))
    BY DEF Without
  <2>3. Tail(lot) = SubSeq(lot, 2, Len(lot))
    BY <1>2, TailIsSubSeq
  <2>4. run \o <<Head(lot)>> = Append(run, Head(lot))
    BY <2>1, AppendIsConcat
  <2> QED BY <1>2, <2>1, <2>2, <2>3, <2>4
<1> QED BY <1>1, <1>2

LEMMA EverybodyGoes ==
    ASSUME NEW lot \in Seq(Waiter)
    PROVE  Without(lot, Everybody(lot)) = <<>>
<1>1. Len(lot) \in Nat /\ Len(lot) + 1 \in Int /\ Len(lot) < Len(lot) + 1
  BY LenProperties
<1> QED BY <1>1, SubSeqEmpty DEF Without, Everybody
----------------------------------------------------------------------------
(* The inductive invariant of a channel.                                   *)

Lists ==
    /\ readers \in Seq(Waiter) /\ \A w : Contains(readers, w) => IsReceive(w)
    /\ writers \in Seq(Waiter) /\ \A w : Contains(writers, w) => IsSend(w)
    /\ woken \in Seq(Waiter)

Typed ==
    /\ Valid(q) /\ bounded \in BOOLEAN /\ closed \in BOOLEAN
    /\ bounded => q.capacity \in Capacities
    /\ Lists

\* No task waits twice, be it parked or woken.  run is the executor's list.
OneWait(run) ==
    /\ OneEach(readers) /\ OneEach(writers) /\ OneEach(run)
    /\ Strangers(readers, writers) /\ Strangers(readers, run) /\ Strangers(writers, run)

\* Woken tasks that will take an object, and that will fill a space.
TakersOf(run)  == {w \in ToSet(run) : IsReceive(w)}
FillersOf(run) == {w \in ToSet(run) : IsSend(w)}

\* Objects beyond what the takers take, and spaces beyond what the fillers
\* fill, are spare only where nobody is parked for them.
NoSpareObject(run, spare) ==
    readers # <<>> => ~closed /\ q.size <= Cardinality(TakersOf(run)) + spare
NoSpareSpace(run, spare) ==
    writers # <<>> =>
        /\ bounded /\ ~closed
        /\ q.capacity - q.size <= Cardinality(FillersOf(run)) + spare

IndInv ==
    /\ Typed /\ OneWait(woken)
    /\ NoSpareObject(woken, 0) /\ NoSpareSpace(woken, 0)

\* One more waiter on the executor's list, or one less, is one more taker or
\* filler, or one less.
LEMMA Counted ==
    ASSUME NEW run \in Seq(Waiter)
    PROVE  /\ IsFiniteSet(TakersOf(run)) /\ Cardinality(TakersOf(run)) \in Nat
           /\ IsFiniteSet(FillersOf(run)) /\ Cardinality(FillersOf(run)) \in Nat
<1> DEFINE f == [i \in 1..Len(run) |-> run[i]]
<1>1. Len(run) \in Nat /\ DOMAIN run = 1..Len(run)
  BY LenProperties
<1>2. IsFiniteSet(1..Len(run))
  BY <1>1, FS_Interval
<1>3. f \in Surjection(1..Len(run), ToSet(run))
  BY <1>1 DEF Surjection, ToSet
<1>4. IsFiniteSet(ToSet(run))
  BY <1>2, <1>3, FS_Surjection
<1>5. TakersOf(run) \in SUBSET ToSet(run) /\ FillersOf(run) \in SUBSET ToSet(run)
  BY DEF TakersOf, FillersOf
<1>6. IsFiniteSet(TakersOf(run)) /\ IsFiniteSet(FillersOf(run))
  BY <1>4, <1>5, FS_Subset
<1> QED BY <1>6, FS_CardinalityType

LEMMA CountedMore ==
    ASSUME NEW run \in Seq(Waiter), NEW w \in Waiter, ~Contains(run, w)
    PROVE  /\ Cardinality(TakersOf(Append(run, w))) =
                Cardinality(TakersOf(run)) + IF IsReceive(w) THEN 1 ELSE 0
           /\ Cardinality(FillersOf(Append(run, w))) =
                Cardinality(FillersOf(run)) + IF IsReceive(w) THEN 0 ELSE 1
<1>0. /\ IsFiniteSet(TakersOf(run)) /\ Cardinality(TakersOf(run)) \in Nat
      /\ IsFiniteSet(FillersOf(run)) /\ Cardinality(FillersOf(run)) \in Nat
  BY Counted
<1>1. \A y : y \in ToSet(Append(run, w)) <=> y \in ToSet(run) \/ y = w
  <2>1. /\ Append(run, w) \in Seq(Waiter)
        /\ \A y : Contains(Append(run, w), y) <=> Contains(run, y) \/ y = w
    BY Appended
  <2>2. \A y : y \in ToSet(Append(run, w)) <=> Contains(Append(run, w), y)
    BY ONLY <2>1, Members
  <2>3. \A y : y \in ToSet(run) <=> Contains(run, y)
    BY Members
  <2> QED BY ONLY <2>1, <2>2, <2>3
<1>2. w \notin TakersOf(run) /\ w \notin FillersOf(run)
  BY Members DEF TakersOf, FillersOf
<1>3. CASE IsReceive(w)
  <2>1. /\ TakersOf(Append(run, w)) = TakersOf(run) \cup {w}
        /\ FillersOf(Append(run, w)) = FillersOf(run)
    BY <1>1, <1>3 DEF TakersOf, FillersOf, IsReceive, IsSend
  <2>2. Cardinality(TakersOf(run) \cup {w}) = Cardinality(TakersOf(run)) + 1
    BY <1>0, <1>2, FS_AddElement
  <2> QED BY ONLY <1>0, <1>3, <2>1, <2>2
<1>4. CASE ~IsReceive(w)
  <2>1. /\ TakersOf(Append(run, w)) = TakersOf(run)
        /\ FillersOf(Append(run, w)) = FillersOf(run) \cup {w}
    BY <1>1, <1>4 DEF TakersOf, FillersOf, IsReceive, IsSend
  <2>2. Cardinality(FillersOf(run) \cup {w}) = Cardinality(FillersOf(run)) + 1
    BY <1>0, <1>2, FS_AddElement
  <2> QED BY ONLY <1>0, <1>4, <2>1, <2>2
<1> QED BY <1>3, <1>4

LEMMA CountedLess ==
    ASSUME NEW run \in Seq(Waiter), OneEach(run), run # <<>>
    PROVE  /\ Cardinality(TakersOf(run)) =
                Cardinality(TakersOf(Tail(run))) + IF IsReceive(Head(run)) THEN 1 ELSE 0
           /\ Cardinality(FillersOf(run)) =
                Cardinality(FillersOf(Tail(run))) + IF IsReceive(Head(run)) THEN 0 ELSE 1
<1> DEFINE w == Head(run)
<1>1. /\ Tail(run) \in Seq(Waiter) /\ w \in Waiter
      /\ \A y : Contains(run, y) <=> Contains(Tail(run), y) \/ y = w
      /\ \A y : Contains(Tail(run), y) => y.task # w.task
  BY Popped, PoppedOne, HeadTailProperties
<1> HIDE DEF w
<1>2. \A y : y \in ToSet(run) <=> y \in ToSet(Tail(run)) \/ y = w
  BY <1>1, Members
<1>a. /\ IsFiniteSet(TakersOf(Tail(run))) /\ Cardinality(TakersOf(Tail(run))) \in Nat
      /\ IsFiniteSet(FillersOf(Tail(run))) /\ Cardinality(FillersOf(Tail(run))) \in Nat
  BY <1>1, Counted
<1>3. w \notin TakersOf(Tail(run)) /\ w \notin FillersOf(Tail(run))
  BY <1>1, Members DEF TakersOf, FillersOf
<1>4. CASE IsReceive(w)
  <2>1. /\ TakersOf(run) = TakersOf(Tail(run)) \cup {w}
        /\ FillersOf(run) = FillersOf(Tail(run))
    BY <1>2, <1>4 DEF TakersOf, FillersOf, IsReceive, IsSend
  <2>2. Cardinality(TakersOf(Tail(run)) \cup {w}) = Cardinality(TakersOf(Tail(run))) + 1
    BY <1>a, <1>3, FS_AddElement
  <2> QED BY ONLY <1>a, <1>4, <2>1, <2>2 DEF w
<1>5. CASE ~IsReceive(w)
  <2>1. /\ TakersOf(run) = TakersOf(Tail(run))
        /\ FillersOf(run) = FillersOf(Tail(run)) \cup {w}
    BY <1>2, <1>5 DEF TakersOf, FillersOf, IsReceive, IsSend
  <2>2. Cardinality(FillersOf(Tail(run)) \cup {w}) = Cardinality(FillersOf(Tail(run))) + 1
    BY <1>a, <1>3, FS_AddElement
  <2> QED BY ONLY <1>a, <1>5, <2>1, <2>2 DEF w
<1> QED BY <1>4, <1>5

\* What the operations of the buffer do to its size and capacity.
LEMMA Sizes ==
    ASSUME NEW r, Valid(r)
    PROVE  /\ r.size \in Nat /\ r.capacity \in Nat /\ r.size <= r.capacity
           /\ r.size > 0 =>
                /\ Valid(PopFront(r)) /\ PopFront(r).size = r.size - 1
                /\ PopFront(r).capacity = r.capacity
           /\ \A v \in Value :
                /\ Valid(PushBack(r, v)) /\ PushBack(r, v).size = r.size + 1
                /\ ~Full(r) => PushBack(r, v).capacity = r.capacity
<1>1. r.size \in Nat /\ r.capacity \in Nat /\ r.size <= r.capacity
  BY Fields
<1>2. ASSUME r.size > 0
      PROVE  /\ Valid(PopFront(r)) /\ PopFront(r).size = r.size - 1
             /\ PopFront(r).capacity = r.capacity
  BY <1>2, PopSound DEF PopFront
<1>3. ASSUME NEW v \in Value
      PROVE  /\ Valid(PushBack(r, v)) /\ PushBack(r, v).size = r.size + 1
             /\ ~Full(r) => PushBack(r, v).capacity = r.capacity
  <2> DEFINE p == PushBack(r, v)
  <2>1. Valid(p) /\ Contents(p) = Append(Contents(r), v)
    BY PushSound
  <2> HIDE DEF p
  <2>2. Len(Contents(p)) = p.size /\ Len(Contents(r)) = r.size /\ Contents(r) \in Seq(Value)
    BY <2>1, ContentsType
  <2>3. p.size = r.size + 1
    BY <2>1, <2>2, AppendProperties
  <2>4. ~Full(r) => p.capacity = r.capacity
    BY DEF p, PushBack, Place
  <2> QED BY <2>1, <2>3, <2>4 DEF p
<1> QED BY <1>1, <1>2, <1>3

LEMMA InitInd == Init => IndInv
<1> SUFFICES ASSUME NEW c \in Capacities, q = NewQueue(c), bounded = (c > 0),
                    closed = FALSE, readers = <<>>, writers = <<>>, woken = <<>>
             PROVE  IndInv
  BY DEF Init
<1>1. Valid(q) /\ q.capacity = c /\ c \in Nat
  BY ChannelAssumption, NewSound DEF NewQueue
<1>2. Typed
  <2>1. <<>> \in Seq(Waiter) /\ \A w : ~Contains(<<>>, w)
    BY DEF Contains
  <2>2. Lists
    BY ONLY <2>1, readers = <<>>, writers = <<>>, woken = <<>> DEF Lists
  <2>3. bounded \in BOOLEAN
    BY <1>1
  <2> QED BY <1>1, <2>2, <2>3 DEF Typed
<1>3. OneWait(woken)
  BY DEF OneWait, OneEach, Strangers, Contains
<1> QED BY <1>2, <1>3 DEF IndInv, NoSpareObject, NoSpareSpace
----------------------------------------------------------------------------
(* Whoever takes an object wakes a writer, whoever sends one a reader.     *)

\* A parked waiter is woken: it only changes lists.
LEMMA WokenWriter ==
    ASSUME Lists, NEW run \in Seq(Waiter), OneWait(run), writers # <<>>
    PROVE  /\ Tail(writers) \in Seq(Waiter) /\ Head(writers) \in Waiter
           /\ Append(run, Head(writers)) \in Seq(Waiter)
           /\ Contains(writers, Head(writers)) /\ ~Contains(run, Head(writers))
           /\ \A w : Contains(Tail(writers), w) => Contains(writers, w)
           /\ OneEach(Tail(writers)) /\ OneEach(Append(run, Head(writers)))
           /\ Strangers(readers, Tail(writers))
           /\ Strangers(readers, Append(run, Head(writers)))
           /\ Strangers(Tail(writers), Append(run, Head(writers)))
<1> DEFINE w == Head(writers)
<1>1. /\ writers \in Seq(Waiter) /\ OneEach(writers) /\ OneEach(run)
      /\ Strangers(readers, writers) /\ Strangers(readers, run) /\ Strangers(writers, run)
  BY DEF Lists, OneWait
<1>2. /\ Tail(writers) \in Seq(Waiter) /\ w \in Waiter
      /\ \A v : Contains(writers, v) <=> Contains(Tail(writers), v) \/ v = w
      /\ OneEach(Tail(writers)) /\ \A v : Contains(Tail(writers), v) => v.task # w.task
  BY <1>1, Popped, PoppedOne, HeadTailProperties
<1> HIDE DEF w
<1>3. \A v : Contains(run, v) => v.task # w.task
  BY <1>1, <1>2 DEF Strangers
<1>4. /\ Append(run, w) \in Seq(Waiter) /\ OneEach(Append(run, w))
      /\ \A v : Contains(Append(run, w), v) <=> Contains(run, v) \/ v = w
  BY <1>1, <1>2, <1>3, Appended, AppendedOne
<1>5. /\ Strangers(readers, Tail(writers)) /\ Strangers(readers, Append(run, w))
      /\ Strangers(Tail(writers), Append(run, w))
  BY <1>1, <1>2, <1>4 DEF Strangers
<1> QED BY <1>2, <1>3, <1>4, <1>5 DEF w

LEMMA WokenReader ==
    ASSUME Lists, NEW run \in Seq(Waiter), OneWait(run), readers # <<>>
    PROVE  /\ Tail(readers) \in Seq(Waiter) /\ Head(readers) \in Waiter
           /\ Append(run, Head(readers)) \in Seq(Waiter)
           /\ Contains(readers, Head(readers)) /\ ~Contains(run, Head(readers))
           /\ \A w : Contains(Tail(readers), w) => Contains(readers, w)
           /\ OneEach(Tail(readers)) /\ OneEach(Append(run, Head(readers)))
           /\ Strangers(Tail(readers), writers)
           /\ Strangers(writers, Append(run, Head(readers)))
           /\ Strangers(Tail(readers), Append(run, Head(readers)))
<1> DEFINE w == Head(readers)
<1>1. /\ readers \in Seq(Waiter) /\ OneEach(readers) /\ OneEach(run)
      /\ Strangers(readers, writers) /\ Strangers(readers, run) /\ Strangers(writers, run)
  BY DEF Lists, OneWait
<1>2. /\ Tail(readers) \in Seq(Waiter) /\ w \in Waiter
      /\ \A v : Contains(readers, v) <=> Contains(Tail(readers), v) \/ v = w
      /\ OneEach(Tail(readers)) /\ \A v : Contains(Tail(readers), v) => v.task # w.task
  BY <1>1, Popped, PoppedOne, HeadTailProperties
<1> HIDE DEF w
<1>3. \A v : Contains(run, v) => v.task # w.task
  BY <1>1, <1>2 DEF Strangers
<1>4. /\ Append(run, w) \in Seq(Waiter) /\ OneEach(Append(run, w))
      /\ \A v : Contains(Append(run, w), v) <=> Contains(run, v) \/ v = w
  BY <1>1, <1>2, <1>3, Appended, AppendedOne
<1>5. /\ Strangers(Tail(readers), writers) /\ Strangers(writers, Append(run, w))
      /\ Strangers(Tail(readers), Append(run, w))
  BY <1>1, <1>2, <1>4 DEF Strangers
<1> QED BY <1>2, <1>3, <1>4, <1>5 DEF w

\* tryReceive() by a task that was woken for it, and so is not on the list
\* any more, or by another one: then spare is 0.
LEMMA TryReceiveInd ==
    ASSUME Typed, NEW run \in Seq(Waiter), OneWait(run),
           NoSpareObject(run, 1), NoSpareSpace(run, 0),
           TryReceive(run), UNCHANGED <<bounded, closed, readers>>
    PROVE  IndInv'
<1>1. /\ q.size \in Nat /\ q.capacity \in Nat /\ q.size <= q.capacity
      /\ Cardinality(TakersOf(run)) \in Nat /\ Cardinality(FillersOf(run)) \in Nat
  BY Sizes, Counted DEF Typed
<1>2. CASE Empty
  <2>1. woken' = run /\ UNCHANGED <<q, writers>> /\ q.size = 0
    BY <1>2 DEF TryReceive, Empty
  <2>2. Typed' /\ OneWait(woken)'
    BY <2>1 DEF Typed, Lists, OneWait
  <2>3. NoSpareObject(woken, 0)' /\ NoSpareSpace(woken, 0)'
    BY <1>1, <2>1 DEF NoSpareObject, NoSpareSpace, TakersOf, FillersOf
  <2> QED BY <2>2, <2>3 DEF IndInv
<1>3. CASE ~Empty
  <2>1. /\ q' = PopFront(q) /\ woken' = run \o Oldest(writers)
        /\ writers' = Without(writers, Oldest(writers)) /\ q.size > 0
    BY <1>1, <1>3 DEF TryReceive, Empty
  <2>2. Valid(q') /\ q'.size = q.size - 1 /\ q'.capacity = q.capacity
    BY <2>1, Sizes DEF Typed
  <2>3. Valid(q)' /\ (bounded => q.capacity \in Capacities)'
    BY <2>2 DEF Typed
  <2>4. CASE writers = <<>>
    <3>1. woken' = run /\ writers' = writers
      BY <2>1, <2>4, OldestGoes DEF Typed, Lists
    <3>2. Typed' /\ OneWait(woken)'
      BY <2>3, <3>1 DEF Typed, Lists, OneWait
    <3>3. NoSpareObject(woken, 0)'
      BY <1>1, <2>2, <2>4, <3>1 DEF NoSpareObject, TakersOf
    <3>4. NoSpareSpace(woken, 0)'
      BY <1>1, <2>2, <2>4, <3>1 DEF NoSpareSpace
    <3> QED BY <3>2, <3>3, <3>4 DEF IndInv
  <2>5. CASE writers # <<>>
    <3>1. woken' = Append(run, Head(writers)) /\ writers' = Tail(writers)
      BY <2>1, <2>5, OldestGoes DEF Typed, Lists
    <3>2. /\ Tail(writers) \in Seq(Waiter) /\ Head(writers) \in Waiter
          /\ Append(run, Head(writers)) \in Seq(Waiter)
          /\ Contains(writers, Head(writers)) /\ ~Contains(run, Head(writers))
          /\ \A w : Contains(Tail(writers), w) => Contains(writers, w)
          /\ OneEach(Tail(writers)) /\ OneEach(Append(run, Head(writers)))
          /\ Strangers(readers, Tail(writers))
          /\ Strangers(readers, Append(run, Head(writers)))
          /\ Strangers(Tail(writers), Append(run, Head(writers)))
      BY <2>5, WokenWriter DEF Typed
    <3>3. ~IsReceive(Head(writers))
      BY <3>2 DEF Typed, Lists, IsSend, IsReceive
    <3>4. /\ Cardinality(TakersOf(woken')) = Cardinality(TakersOf(run))
          /\ Cardinality(FillersOf(woken')) = Cardinality(FillersOf(run)) + 1
      BY <1>1, <3>1, <3>2, <3>3, CountedMore
    <3>5. Typed'
      BY <2>3, <3>1, <3>2 DEF Typed, Lists
    <3>6. OneWait(woken)'
      BY <3>1, <3>2 DEF OneWait
    <3>7. NoSpareObject(woken, 0)'
      BY <1>1, <2>2, <2>5, <3>4 DEF NoSpareObject
    <3>8. NoSpareSpace(woken, 0)'
      BY <1>1, <2>2, <2>5, <3>4 DEF NoSpareSpace
    <3> QED BY <3>5, <3>6, <3>7, <3>8 DEF IndInv
  <2> QED BY <2>4, <2>5
<1> QED BY <1>2, <1>3

\* trySend(), likewise.
LEMMA TrySendInd ==
    ASSUME Typed, NEW run \in Seq(Waiter), OneWait(run),
           NoSpareObject(run, 0), NoSpareSpace(run, 1), NEW v \in Value,
           TrySend(v, run), UNCHANGED <<bounded, closed, writers>>
    PROVE  IndInv'
<1>1. /\ q.size \in Nat /\ q.capacity \in Nat /\ q.size <= q.capacity
      /\ Cardinality(TakersOf(run)) \in Nat /\ Cardinality(FillersOf(run)) \in Nat
  BY Sizes, Counted DEF Typed
<1>2. CASE ChannelFull
  <2>1. woken' = run /\ UNCHANGED <<q, readers>>
    BY <1>2 DEF TrySend
  <2>2. Typed' /\ OneWait(woken)'
    BY <2>1 DEF Typed, Lists, OneWait
  <2>3. closed \/ q.capacity = q.size
    BY <1>2 DEF ChannelFull, Full
  <2>4. NoSpareObject(woken, 0)' /\ NoSpareSpace(woken, 0)'
    BY <1>1, <2>1, <2>3 DEF NoSpareObject, NoSpareSpace, TakersOf, FillersOf
  <2> QED BY <2>2, <2>4 DEF IndInv
<1>3. CASE ~ChannelFull
  <2>1. /\ q' = PushBack(q, v) /\ woken' = run \o Oldest(readers)
        /\ readers' = Without(readers, Oldest(readers)) /\ (bounded => ~Full(q))
    BY <1>3 DEF TrySend, ChannelFull
  <2>2. Valid(q') /\ q'.size = q.size + 1 /\ (bounded => q'.capacity = q.capacity)
    BY <2>1, Sizes DEF Typed
  <2>3. Valid(q)' /\ (bounded => q.capacity \in Capacities)'
    BY <2>2 DEF Typed
  <2>4. CASE readers = <<>>
    <3>1. woken' = run /\ readers' = readers
      BY <2>1, <2>4, OldestGoes DEF Typed, Lists
    <3>2. Typed' /\ OneWait(woken)'
      BY <2>3, <3>1 DEF Typed, Lists, OneWait
    <3>3. NoSpareObject(woken, 0)'
      BY <1>1, <2>2, <2>4, <3>1 DEF NoSpareObject
    <3>4. NoSpareSpace(woken, 0)'
      BY <1>1, <2>2, <2>4, <3>1 DEF NoSpareSpace, FillersOf
    <3> QED BY <3>2, <3>3, <3>4 DEF IndInv
  <2>5. CASE readers # <<>>
    <3>1. woken' = Append(run, Head(readers)) /\ readers' = Tail(readers)
      BY <2>1, <2>5, OldestGoes DEF Typed, Lists
    <3>2. /\ Tail(readers) \in Seq(Waiter) /\ Head(readers) \in Waiter
          /\ Append(run, Head(readers)) \in Seq(Waiter)
          /\ Contains(readers, Head(readers)) /\ ~Contains(run, Head(readers))
          /\ \A w : Contains(Tail(readers), w) => Contains(readers, w)
          /\ OneEach(Tail(readers)) /\ OneEach(Append(run, Head(readers)))
          /\ Strangers(Tail(readers), writers)
          /\ Strangers(writers, Append(run, Head(readers)))
          /\ Strangers(Tail(readers), Append(run, Head(readers)))
      BY <2>5, WokenReader DEF Typed
    <3>3. IsReceive(Head(readers))
      BY <3>2 DEF Typed, Lists
    <3>4. /\ Cardinality(TakersOf(woken')) = Cardinality(TakersOf(run)) + 1
          /\ Cardinality(FillersOf(woken')) = Cardinality(FillersOf(run))
      BY <1>1, <3>1, <3>2, <3>3, CountedMore
    <3>5. Typed'
      BY <2>3, <3>1, <3>2 DEF Typed, Lists
    <3>6. OneWait(woken)'
      BY <3>1, <3>2 DEF OneWait
    <3>7. NoSpareObject(woken, 0)'
      BY <1>1, <2>2, <2>5, <3>4 DEF NoSpareObject
    <3>8. NoSpareSpace(woken, 0)'
      BY <1>1, <2>2, <2>5, <3>4 DEF NoSpareSpace
    <3> QED BY <3>5, <3>6, <3>7, <3>8 DEF IndInv
  <2> QED BY <2>4, <2>5
<1> QED BY <1>2, <1>3

\* A task that nobody woke finds at least what it would find if it were woken.
LEMMA Unwoken ==
    ASSUME IndInv PROVE NoSpareObject(woken, 1) /\ NoSpareSpace(woken, 1)
<1>1. /\ q.size \in Nat /\ q.capacity \in Nat
      /\ Cardinality(TakersOf(woken)) \in Nat /\ Cardinality(FillersOf(woken)) \in Nat
  BY Sizes, Counted DEF IndInv, Typed, Lists
<1> QED BY <1>1 DEF IndInv, NoSpareObject, NoSpareSpace

\* The executor takes its first waiter off its list.
LEMMA Resumed ==
    ASSUME IndInv, woken # <<>>
    PROVE  /\ Tail(woken) \in Seq(Waiter) /\ Head(woken) \in Waiter
           /\ OneWait(Tail(woken))
           /\ NoSpareObject(Tail(woken), IF IsReceive(Head(woken)) THEN 1 ELSE 0)
           /\ NoSpareSpace(Tail(woken), IF IsReceive(Head(woken)) THEN 0 ELSE 1)
<1>1. /\ woken \in Seq(Waiter) /\ OneEach(woken) /\ Typed /\ OneWait(woken)
      /\ NoSpareObject(woken, 0) /\ NoSpareSpace(woken, 0)
  BY DEF IndInv, Typed, Lists, OneWait
<1>2. /\ Tail(woken) \in Seq(Waiter) /\ Head(woken) \in Waiter
      /\ OneEach(Tail(woken)) /\ \A v : Contains(Tail(woken), v) => Contains(woken, v)
  BY <1>1, Popped, PoppedOne, HeadTailProperties
<1>3. OneWait(Tail(woken))
  BY <1>1, <1>2 DEF OneWait, Strangers
<1>4. /\ q.size \in Nat /\ q.capacity \in Nat
      /\ Cardinality(TakersOf(Tail(woken))) \in Nat
      /\ Cardinality(FillersOf(Tail(woken))) \in Nat
  BY <1>1, <1>2, Sizes, Counted DEF Typed
<1>5. /\ Cardinality(TakersOf(woken)) =
           Cardinality(TakersOf(Tail(woken))) + IF IsReceive(Head(woken)) THEN 1 ELSE 0
      /\ Cardinality(FillersOf(woken)) =
           Cardinality(FillersOf(Tail(woken))) + IF IsReceive(Head(woken)) THEN 0 ELSE 1
  BY <1>1, CountedLess
<1>6. NoSpareObject(Tail(woken), IF IsReceive(Head(woken)) THEN 1 ELSE 0)
  BY <1>1, <1>4, <1>5 DEF NoSpareObject
<1>7. NoSpareSpace(Tail(woken), IF IsReceive(Head(woken)) THEN 0 ELSE 1)
  BY <1>1, <1>4, <1>5 DEF NoSpareSpace
<1> QED BY <1>2, <1>3, <1>6, <1>7
----------------------------------------------------------------------------
(* The actions.                                                            *)

\* A task that waits for nothing is nobody's.
LEMMA Outside ==
    ASSUME Lists, NEW t \in Task, Out(t)
    PROVE  \A w : Contains(readers, w) \/ Contains(writers, w) \/ Contains(woken, w)
                    => w.task # t
<1>1. \A w : /\ Contains(readers, w) => w \in ToSet(readers)
             /\ Contains(writers, w) => w \in ToSet(writers)
             /\ Contains(woken, w) => w \in ToSet(woken)
  BY Members DEF Lists
<1> QED BY <1>1 DEF Out

LEMMA ReceiveInd == ASSUME IndInv, NEW t \in Task, Receive(t) PROVE IndInv'
<1>1. Typed /\ OneWait(woken) /\ woken \in Seq(Waiter) /\ Lists
  BY DEF IndInv, Typed, Lists
<1>2. CASE ~Empty \/ closed
  <2>1. TryReceive(woken) /\ UNCHANGED <<bounded, closed, readers>>
    BY <1>2 DEF Receive
  <2>2. NoSpareObject(woken, 1) /\ NoSpareSpace(woken, 0)
    BY Unwoken DEF IndInv
  <2> QED BY <1>1, <2>1, <2>2, TryReceiveInd
<1>3. CASE ~(~Empty \/ closed)
  <2> DEFINE w == Receiving(t)
  <2>1. /\ readers' = Append(readers, w) /\ UNCHANGED <<q, bounded, closed, writers, woken>>
        /\ q.size = 0 /\ ~closed
    BY <1>3 DEF Receive, Empty
  <2>2. w \in Waiter /\ w.task = t /\ IsReceive(w)
    BY DEF Receiving, Waiter, IsReceive
  <2> HIDE DEF w
  <2>3. \A v : Contains(readers, v) \/ Contains(writers, v) \/ Contains(woken, v)
                 => v.task # w.task
    BY <1>1, <2>2, Outside DEF Receive
  <2>4. /\ readers \in Seq(Waiter) /\ OneEach(readers) /\ OneEach(writers) /\ OneEach(woken)
        /\ Strangers(readers, writers) /\ Strangers(readers, woken)
        /\ Strangers(writers, woken)
    BY <1>1 DEF Lists, OneWait
  <2>5. /\ readers' \in Seq(Waiter) /\ OneEach(readers')
        /\ \A v : Contains(readers', v) <=> Contains(readers, v) \/ v = w
    BY <2>1, <2>2, <2>3, <2>4, Appended, AppendedOne
  <2>6. Typed'
    BY <1>1, <2>1, <2>2, <2>5 DEF Typed, Lists
  <2>7. Strangers(readers', writers) /\ Strangers(readers', woken)
    BY <2>3, <2>4, <2>5 DEF Strangers
  <2>8. OneWait(woken)'
    BY <2>1, <2>4, <2>5, <2>7 DEF OneWait
  <2>9. Cardinality(TakersOf(woken)) \in Nat
    BY <1>1, Counted
  <2>10. NoSpareObject(woken, 0)' /\ NoSpareSpace(woken, 0)'
    BY <2>1, <2>9 DEF IndInv, NoSpareObject, NoSpareSpace, TakersOf, FillersOf
  <2> QED BY <2>6, <2>8, <2>10 DEF IndInv
<1> QED BY <1>2, <1>3

LEMMA SendInd ==
    ASSUME IndInv, NEW t \in Task, NEW v \in Value, Send(t, v) PROVE IndInv'
<1>1. Typed /\ OneWait(woken) /\ woken \in Seq(Waiter) /\ Lists
  BY DEF IndInv, Typed, Lists
<1>2. CASE closed \/ ~ChannelFull
  <2>1. TrySend(v, woken) /\ UNCHANGED <<bounded, closed, writers>>
    BY <1>2 DEF Send
  <2>2. NoSpareObject(woken, 0) /\ NoSpareSpace(woken, 1)
    BY Unwoken DEF IndInv
  <2> QED BY <1>1, <2>1, <2>2, TrySendInd
<1>3. CASE ~(closed \/ ~ChannelFull)
  <2> DEFINE w == Sending(t, v)
  <2>1. /\ writers' = Append(writers, w) /\ UNCHANGED <<q, bounded, closed, readers, woken>>
        /\ q.capacity = q.size /\ ~closed /\ bounded
    BY <1>3 DEF Send, ChannelFull, Full
  <2>2. w \in Waiter /\ w.task = t /\ IsSend(w)
    BY QueueAssumption DEF Sending, Waiter, IsSend
  <2> HIDE DEF w
  <2>3. \A u : Contains(readers, u) \/ Contains(writers, u) \/ Contains(woken, u)
                 => u.task # w.task
    BY <1>1, <2>2, Outside DEF Send
  <2>4. /\ writers \in Seq(Waiter) /\ OneEach(readers) /\ OneEach(writers) /\ OneEach(woken)
        /\ Strangers(readers, writers) /\ Strangers(readers, woken)
        /\ Strangers(writers, woken)
    BY <1>1 DEF Lists, OneWait
  <2>5. /\ writers' \in Seq(Waiter) /\ OneEach(writers')
        /\ \A u : Contains(writers', u) <=> Contains(writers, u) \/ u = w
    BY <2>1, <2>2, <2>3, <2>4, Appended, AppendedOne
  <2>6. Typed'
    BY <1>1, <2>1, <2>2, <2>5 DEF Typed, Lists
  <2>7. Strangers(readers, writers') /\ Strangers(writers', woken)
    BY <2>3, <2>4, <2>5 DEF Strangers
  <2>8. OneWait(woken)'
    BY <2>1, <2>4, <2>5, <2>7 DEF OneWait
  <2>9. Cardinality(FillersOf(woken)) \in Nat /\ q.size \in Nat /\ q.capacity \in Nat
    BY <1>1, Counted, Sizes DEF Typed
  <2>10. NoSpareObject(woken, 0)' /\ NoSpareSpace(woken, 0)'
    BY <2>1, <2>9 DEF IndInv, NoSpareObject, NoSpareSpace, TakersOf, FillersOf
  <2> QED BY <2>6, <2>8, <2>10 DEF IndInv
<1> QED BY <1>2, <1>3

LEMMA CallInd ==
    ASSUME IndInv, CallTryReceive \/ \E v \in Value : CallTrySend(v) PROVE IndInv'
<1>1. Typed /\ OneWait(woken) /\ woken \in Seq(Waiter)
  BY DEF IndInv, Typed, Lists
<1>2. /\ NoSpareObject(woken, 0) /\ NoSpareSpace(woken, 0)
      /\ NoSpareObject(woken, 1) /\ NoSpareSpace(woken, 1)
  BY Unwoken DEF IndInv
<1>3. CASE CallTryReceive
  BY <1>1, <1>2, <1>3, TryReceiveInd DEF CallTryReceive
<1>4. ASSUME NEW v \in Value, CallTrySend(v) PROVE IndInv'
  BY <1>1, <1>2, <1>4, TrySendInd DEF CallTrySend
<1> QED BY <1>3, <1>4

LEMMA ResumeInd == ASSUME IndInv, ResumeReader \/ ResumeWriter PROVE IndInv'
<1>1. Typed
  BY DEF IndInv
<1>2. CASE ResumeReader
  <2>1. /\ woken # <<>> /\ IsReceive(Head(woken)) /\ TryReceive(Tail(woken))
        /\ UNCHANGED <<bounded, closed, readers>>
    BY <1>2 DEF ResumeReader
  <2>2. /\ Tail(woken) \in Seq(Waiter) /\ OneWait(Tail(woken))
        /\ NoSpareObject(Tail(woken), 1) /\ NoSpareSpace(Tail(woken), 0)
    BY <2>1, Resumed
  <2> QED BY <1>1, <2>1, <2>2, TryReceiveInd
<1>3. CASE ResumeWriter
  <2>1. /\ woken # <<>> /\ IsSend(Head(woken)) /\ TrySend(Head(woken).msg, Tail(woken))
        /\ UNCHANGED <<bounded, closed, writers>>
    BY <1>3 DEF ResumeWriter
  <2>2. /\ Tail(woken) \in Seq(Waiter) /\ OneWait(Tail(woken)) /\ Head(woken) \in Waiter
        /\ NoSpareObject(Tail(woken), 0) /\ NoSpareSpace(Tail(woken), 1)
    BY <2>1, Resumed DEF IsSend, IsReceive
  <2>3. Head(woken).msg \in Value
    BY <2>1, <2>2 DEF Waiter, IsSend
  <2> QED BY <1>1, <2>1, <2>2, <2>3, TrySendInd
<1> QED BY <1>2, <1>3

LEMMA CloseInd == ASSUME IndInv, Close PROVE IndInv'
<1>1. /\ Typed /\ readers \in Seq(Waiter) /\ writers \in Seq(Waiter) /\ woken \in Seq(Waiter)
      /\ OneEach(readers) /\ OneEach(writers) /\ OneEach(woken)
      /\ Strangers(readers, writers) /\ Strangers(readers, woken) /\ Strangers(writers, woken)
  BY DEF IndInv, Typed, Lists, OneWait
<1>2. /\ readers' = <<>> /\ writers' = <<>> /\ closed' = TRUE /\ UNCHANGED <<q, bounded>>
      /\ woken' = (woken \o readers) \o writers
  BY <1>1, EverybodyGoes DEF Close, Everybody
<1>3. Strangers(woken, readers)
  BY <1>1 DEF Strangers
<1>4. /\ woken \o readers \in Seq(Waiter) /\ OneEach(woken \o readers)
      /\ \A w : Contains(woken \o readers, w) <=> Contains(woken, w) \/ Contains(readers, w)
  BY <1>1, <1>3, JoinedOneEach, Joined
<1>5. Strangers(woken \o readers, writers)
  BY <1>1, <1>4 DEF Strangers
<1>6. (woken \o readers) \o writers \in Seq(Waiter) /\ OneEach((woken \o readers) \o writers)
  BY <1>1, <1>4, <1>5, JoinedOneEach
<1>7. <<>> \in Seq(Waiter) /\ (\A w : ~Contains(<<>>, w)) /\ OneEach(<<>>)
  BY DEF Contains, OneEach
<1>8. Typed'
  BY <1>1, <1>2, <1>6, <1>7 DEF Typed, Lists
<1>9. OneWait(woken)'
  BY <1>2, <1>6, <1>7 DEF OneWait, Strangers
<1> QED BY <1>2, <1>8, <1>9 DEF IndInv, NoSpareObject, NoSpareSpace

LEMMA CancelInd == ASSUME IndInv, NEW t \in Task, Cancel(t) PROVE IndInv'
<1>1. PICK w : /\ readers' = Unlink(readers, w) /\ writers' = Unlink(writers, w)
               /\ UNCHANGED <<q, bounded, closed, woken>>
  BY DEF Cancel
<1>2. /\ Typed /\ readers \in Seq(Waiter) /\ writers \in Seq(Waiter) /\ woken \in Seq(Waiter)
      /\ OneEach(readers) /\ OneEach(writers) /\ OneEach(woken)
      /\ Strangers(readers, writers) /\ Strangers(readers, woken) /\ Strangers(writers, woken)
  BY DEF IndInv, Typed, Lists, OneWait
<1>3. /\ readers' \in Seq(Waiter) /\ OneEach(readers')
      /\ \A v : Contains(readers', v) => Contains(readers, v)
      /\ readers = <<>> => readers' = <<>>
  BY <1>1, <1>2, UnlinkedOne
<1>4. /\ writers' \in Seq(Waiter) /\ OneEach(writers')
      /\ \A v : Contains(writers', v) => Contains(writers, v)
      /\ writers = <<>> => writers' = <<>>
  BY <1>1, <1>2, UnlinkedOne
<1>5. Typed'
  BY <1>1, <1>2, <1>3, <1>4 DEF Typed, Lists
<1>6. OneWait(woken)'
  BY <1>1, <1>2, <1>3, <1>4 DEF OneWait, Strangers
<1>7. NoSpareObject(woken, 0)' /\ NoSpareSpace(woken, 0)'
  BY <1>1, <1>3, <1>4 DEF IndInv, NoSpareObject, NoSpareSpace, TakersOf, FillersOf
<1> QED BY <1>5, <1>6, <1>7 DEF IndInv

LEMMA Inductive == Spec => []IndInv
<1>1. Init => IndInv
  BY InitInd
<1>2. IndInv /\ [Next]_vars => IndInv'
  <2> SUFFICES ASSUME IndInv, [Next]_vars PROVE IndInv'
    OBVIOUS
  <2>1. CASE UNCHANGED vars
    BY <2>1 DEF vars, IndInv, Typed, Lists, OneWait, NoSpareObject, NoSpareSpace,
                TakersOf, FillersOf
  <2>2. ASSUME NEW t \in Task, Receive(t) PROVE IndInv'
    BY <2>2, ReceiveInd
  <2>3. ASSUME NEW t \in Task, Cancel(t) PROVE IndInv'
    BY <2>3, CancelInd
  <2>4. ASSUME NEW t \in Task, NEW v \in Value, Send(t, v) PROVE IndInv'
    BY <2>4, SendInd
  <2>5. CASE CallTryReceive \/ \E v \in Value : CallTrySend(v)
    BY <2>5, CallInd
  <2>6. CASE ResumeReader \/ ResumeWriter
    BY <2>6, ResumeInd
  <2>7. CASE Close
    BY <2>7, CloseInd
  <2> QED BY <2>1, <2>2, <2>3, <2>4, <2>5, <2>6, <2>7 DEF Next
<1> QED BY <1>1, <1>2, PTL DEF Spec
----------------------------------------------------------------------------
(* What it gives.                                                          *)

\* The channel's representation is sound in every reachable state: a task
\* never waits twice, each half parks its own kind of waiter, the ring buffer
\* is well formed and a bounded one never grows (Channel.h, trySend()).
THEOREM ChannelTypes == Spec => []TypeOK
<1>1. IndInv => TypeOK
  <2> SUFFICES ASSUME IndInv PROVE TypeOK
    OBVIOUS
  <2>1. /\ readers \in Seq(Waiter) /\ writers \in Seq(Waiter) /\ woken \in Seq(Waiter)
        /\ OneEach(readers) /\ OneEach(writers) /\ OneEach(woken)
        /\ Strangers(readers, writers) /\ Strangers(readers, woken) /\ Strangers(writers, woken)
    BY DEF IndInv, Typed, Lists, OneWait
  <2>2. readers \o writers \in Seq(Waiter) /\ OneEach(readers \o writers)
    BY <2>1, JoinedOneEach
  <2>3. \A w : Contains(readers \o writers, w) <=> Contains(readers, w) \/ Contains(writers, w)
    BY <2>1, Joined
  <2>4. Strangers(readers \o writers, woken)
    BY <2>1, <2>3 DEF Strangers
  <2>5. OneEach(readers \o writers \o woken)
    BY <2>1, <2>2, <2>4, JoinedOneEach
  <2>6. /\ \A w \in ToSet(readers) : IsReceive(w)
        /\ \A w \in ToSet(writers) : IsSend(w)
    BY <2>1, Members DEF IndInv, Typed, Lists
  <2> QED BY <2>1, <2>5, <2>6 DEF IndInv, Typed, TypeOK, OneEach
<1> QED BY <1>1, Inductive, PTL

\* A task parked in receive() is never left beside an object that no woken
\* receiver is on its way to take, nor on a closed channel: trySend() and
\* close() wake it (Channel.h).
THEOREM ReadersServed == Spec => []NoReaderStranded
<1>1. IndInv => NoReaderStranded
  <2> SUFFICES ASSUME IndInv, readers # <<>>
               PROVE  ~closed /\ q.size <= Cardinality(Takers)
    BY DEF NoReaderStranded
  <2>1. Cardinality(TakersOf(woken)) \in Nat
    BY Counted DEF IndInv, Typed, Lists
  <2> QED BY <2>1 DEF IndInv, NoSpareObject, TakersOf, Takers
<1> QED BY <1>1, Inductive, PTL

\* A task parked in send() is never left in front of a free space that no
\* woken sender is on its way to fill, nor on a closed channel: tryReceive()
\* and close() wake it (Channel.h).
THEOREM WritersServed == Spec => []NoWriterStranded
<1>1. IndInv => NoWriterStranded
  <2> SUFFICES ASSUME IndInv, writers # <<>>
               PROVE  ~closed /\ q.capacity - q.size <= Cardinality(Fillers)
    BY DEF NoWriterStranded
  <2>1. Cardinality(FillersOf(woken)) \in Nat
    BY Counted DEF IndInv, Typed, Lists
  <2> QED BY <2>1 DEF IndInv, NoSpareSpace, FillersOf, Fillers
<1> QED BY <1>1, Inductive, PTL

\* A step of the channel does one thing to the buffer, or nothing.
LEMMA OneAtATime ==
    ASSUME IndInv, [Next]_vars
    PROVE  \/ q' = q
           \/ q.size > 0 /\ q' = PopFront(q)
           \/ \E v \in Value : q' = PushBack(q, v)
<1>0. q.size \in Nat
  BY Sizes DEF IndInv, Typed
<1>1. ASSUME NEW run, TryReceive(run) PROVE q' = q \/ (q.size > 0 /\ q' = PopFront(q))
  BY <1>0, <1>1 DEF TryReceive, Empty
<1>2. ASSUME NEW run, NEW v, TrySend(v, run) PROVE q' = q \/ q' = PushBack(q, v)
  BY <1>2 DEF TrySend
<1>3. ASSUME NEW t \in Task, Receive(t) \/ Cancel(t)
      PROVE  q' = q \/ (q.size > 0 /\ q' = PopFront(q))
  <2>1. TryReceive(woken) \/ UNCHANGED q
    BY <1>3 DEF Receive, Cancel
  <2> QED BY <1>1, <2>1
<1>4. ASSUME NEW t \in Task, NEW v \in Value, Send(t, v)
      PROVE  q' = q \/ q' = PushBack(q, v)
  <2>1. TrySend(v, woken) \/ UNCHANGED q
    BY <1>4 DEF Send
  <2> QED BY <1>2, <2>1
<1>5. CASE CallTryReceive \/ ResumeReader \/ Close
  BY <1>1, <1>5 DEF CallTryReceive, ResumeReader, Close
<1>6. ASSUME NEW v \in Value, CallTrySend(v) PROVE q' = q \/ q' = PushBack(q, v)
  BY <1>2, <1>6 DEF CallTrySend
<1>7. ASSUME ResumeWriter PROVE q' = q \/ \E v \in Value : q' = PushBack(q, v)
  <2>1. woken # <<>> /\ IsSend(Head(woken)) /\ TrySend(Head(woken).msg, Tail(woken))
    BY <1>7 DEF ResumeWriter
  <2>2. Head(woken).msg \in Value
    BY <2>1, Resumed DEF Waiter, IsSend
  <2> QED BY <1>2, <2>1, <2>2
<1>8. CASE UNCHANGED vars
  BY <1>8 DEF vars
<1> QED BY <1>3, <1>4, <1>5, <1>6, <1>7, <1>8 DEF Next

\* Objects are received in the order in which they were sent, each of them
\* once, whoever sends and receives them, whatever the bound, across close()
\* and across receivers and senders that give up (Channel.h).
THEOREM ChannelDelivers == Spec => Delivers
<1>1. Init => InOrder!Init
  <2> SUFFICES ASSUME NEW c \in Capacities, q = NewQueue(c) PROVE Contents(q) = <<>>
    BY DEF Init, InOrder!Init
  <2> QED BY ChannelAssumption, NewSound
<1>2. IndInv /\ [Next]_vars => [InOrder!Next]_(Contents(q))
  <2> SUFFICES ASSUME IndInv, [Next]_vars PROVE InOrder!Next \/ Contents(q') = Contents(q)
    OBVIOUS
  <2>1. Valid(q)
    BY DEF IndInv, Typed
  <2> QED BY <2>1, OneAtATime, OnePop, OnePush
<1> QED BY <1>1, <1>2, Inductive, PTL DEF Spec, Delivers, InOrder!Spec
=============================================================================
