------------------------------- MODULE Linked -------------------------------
(***************************************************************************)
(* detail/IntrusiveList.h as its users see it: a list of distinct objects  *)
(* that can be taken out of the middle.  push_back() is Append, front()    *)
(* Head and pop_front() Tail.                                              *)
(***************************************************************************)
EXTENDS Naturals, Sequences, FiniteSets, SequencesExt

\* Where object x is linked in list s.
Position(s, x) == CHOOSE i \in 1..Len(s) : s[i] = x

\* unlink() of an object that may or may not be linked in list s.
Unlink(s, x) == IF Contains(s, x) THEN RemoveAt(s, Position(s, x)) ELSE s

\* The objects of list s that are in set S, in the order of the list: what is
\* left when those in front are taken off one by one and kept or not.
Sublist(s, S) ==
    LET kept == {i \in DOMAIN s : s[i] \in S}
    IN  [k \in 1..Cardinality(kept) |->
            s[CHOOSE i \in kept : Cardinality({j \in kept : j <= i}) = k]]
=============================================================================
