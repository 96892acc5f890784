---------------------------- MODULE IntrusiveList ----------------------------
(***************************************************************************)
(* detail/IntrusiveList.h itself: lists that are rings of pointers through *)
(* the objects they hold and through the list, from which an object can be *)
(* unlinked without knowing which list it is in.  Linked is what its users *)
(* see, and Agree says that they see it.                                   *)
(***************************************************************************)
EXTENDS Linked

CONSTANTS
    Items,  \* the objects
    Heads,  \* the lists
    Null

NodesDiffer == Items \cap Heads = {} /\ Null \notin Items \cup Heads

\* next_ and prev_ of objects and lists; a list that does not exist at present
\* is as good as an empty one.
NoLinks == LET start == [x \in Items \cup Heads |-> IF x \in Heads THEN x ELSE Null]
           IN  [next |-> start, prev |-> start]

Links == [next : [Items \cup Heads -> Items \cup Heads \cup {Null}],
          prev : [Items \cup Heads -> Items \cup Heads \cup {Null}]]

EmptyList(l, h) == l.next[h] = h
FrontOf(l, h) == l.next[h]

\* unlink(): the neighbours are joined, if there are any.
UnlinkItem(l, x) ==
    LET n == l.next[x]
        p == l.prev[x]
        linked == n # Null /\ p # Null
    IN  [next |-> [(IF linked THEN [l.next EXCEPT ![p] = n] ELSE l.next) EXCEPT ![x] = Null],
         prev |-> [(IF linked THEN [l.prev EXCEPT ![n] = p] ELSE l.prev) EXCEPT ![x] = Null]]

PushItem(l, h, x) ==
    LET u == UnlinkItem(l, x)
        last == u.prev[h]
    IN  [next |-> [u.next EXCEPT ![x] = h, ![last] = x],
         prev |-> [u.prev EXCEPT ![x] = last, ![h] = x]]

\* The list "to" is made from what is in list "from".
MoveList(l, to, from) ==
    IF EmptyList(l, from) THEN [next |-> [l.next EXCEPT ![to] = to],
                                prev |-> [l.prev EXCEPT ![to] = to]]
    ELSE [next |-> [l.next EXCEPT ![to] = l.next[from], ![from] = from,
                                  ![l.prev[from]] = to],
          prev |-> [l.prev EXCEPT ![to] = l.prev[from], ![from] = from,
                                  ![l.next[from]] = to]]

----------------------------------------------------------------------------
(* What the lists hold, as sequences.                                      *)

\* The nodes of the ring of list h, if it holds s; 0 and Len(s) + 1 are h.
At(h, s, i) == IF i \in 1..Len(s) THEN s[i] ELSE h

Ring(l, h, s) ==
    \A i \in 0..Len(s) : /\ l.next[At(h, s, i)] = At(h, s, i + 1)
                         /\ l.prev[At(h, s, i + 1)] = At(h, s, i)

Holds(lists, x) == \E h \in Heads : Contains(lists[h], x)

\* No object is in two lists, or in one of them twice.
LinkedOnce(lists) ==
    \A h, k \in Heads : \A i \in 1..Len(lists[h]), j \in 1..Len(lists[k]) :
        lists[h][i] = lists[k][j] => h = k /\ i = j

\* The pointers are those of these lists.
Agree(l, lists) ==
    /\ LinkedOnce(lists)
    /\ \A h \in Heads : Ring(l, h, lists[h])
    /\ \A x \in Items : ~Holds(lists, x) => l.next[x] = Null /\ l.prev[x] = Null

\* unlink(), push_back() and the constructor of a list from another, of lists.
WithoutItem(lists, x) == [h \in Heads |-> Unlink(lists[h], x)]
WithLast(lists, h, x) == [WithoutItem(lists, x) EXCEPT ![h] = Append(@, x)]
Moved(lists, to, from) == [lists EXCEPT ![to] = lists[from], ![from] = <<>>]
=============================================================================
