------------------------ MODULE IntrusiveListProofs ------------------------
(***************************************************************************)
(* What the operations on lists do, in two parts: on a list that is a      *)
(* sequence, as Linked has it and the proofs about its users need it, and  *)
(* on the pointers of detail/IntrusiveList.h, which are those of a list    *)
(* whatever is linked, unlinked or moved: what every other module takes    *)
(* for granted when it uses Linked.                                        *)
(***************************************************************************)
EXTENDS IntrusiveList, SequenceTheorems, FiniteSetTheorems, TLAPS

----------------------------------------------------------------------------
(* Lists that are sequences.                                               *)

\* unlink() keeps the type of the list: erasing a node never leaves a hole.
LEMMA UnlinkType ==
    ASSUME NEW S, NEW s \in Seq(S), NEW x
    PROVE  Unlink(s, x) \in Seq(S)
<1>1. CASE ~Contains(s, x)
  BY <1>1 DEF Unlink
<1>2. CASE Contains(s, x)
  <2> DEFINE i == Position(s, x)
  <2>1. i \in 1..Len(s)
    BY <1>2 DEF Contains, Position
  <2> HIDE DEF i
  <2>a. Len(s) \in Nat /\ \A j \in 1..Len(s) : s[j] \in S
    BY ElementOfSeq, LenProperties
  <2>2. SubSeq(s, 1, i - 1) \in Seq(S)
    <3>1. i - 1 \in Int /\ \A j \in 1..(i - 1) : s[j] \in S
      BY <2>1, <2>a
    <3> QED BY <3>1, SubSeqProperties
  <2>3. SubSeq(s, i + 1, Len(s)) \in Seq(S)
    <3>1. i + 1 \in Int /\ Len(s) \in Int /\ \A j \in (i + 1)..Len(s) : s[j] \in S
      BY <2>1, <2>a
    <3> QED BY <3>1, SubSeqProperties
  <2>4. Unlink(s, x) = SubSeq(s, 1, i - 1) \o SubSeq(s, i + 1, Len(s))
    BY <1>2 DEF Unlink, RemoveAt, i
  <2> QED BY <2>2, <2>3, <2>4, ConcatProperties
<1> QED BY <1>1, <1>2

\* unlink() of a linked object closes the gap and moves nothing else.
LEMMA UnlinkItems ==
    ASSUME NEW S, NEW s \in Seq(S), NEW x, Contains(s, x)
    PROVE  /\ Position(s, x) \in 1..Len(s) /\ s[Position(s, x)] = x
           /\ Len(Unlink(s, x)) = Len(s) - 1
           /\ \A j \in 1..(Len(s) - 1) :
                Unlink(s, x)[j] = IF j < Position(s, x) THEN s[j] ELSE s[j + 1]
<1> DEFINE i == Position(s, x)
           front == SubSeq(s, 1, i - 1)
           back == SubSeq(s, i + 1, Len(s))
<1>1. i \in 1..Len(s) /\ s[i] = x
  BY DEF Contains, Position
<1>2. Unlink(s, x) = front \o back
  BY DEF Unlink, RemoveAt
<1> HIDE DEF i
<1>3. Len(s) \in Nat /\ \A j \in 1..Len(s) : s[j] \in S
  BY ElementOfSeq, LenProperties
<1>4. /\ front \in Seq(S) /\ Len(front) = i - 1
      /\ \A j \in 1..(i - 1) : front[j] = s[j]
  <2>1. 1 \in Int /\ i - 1 \in Int /\ \A j \in 1..(i - 1) : s[j] \in S
    BY <1>1, <1>3
  <2> QED BY <2>1, <1>1, <1>3, SubSeqProperties
<1>5. /\ back \in Seq(S) /\ Len(back) = Len(s) - i
      /\ \A j \in 1..(Len(s) - i) : back[j] = s[i + j]
  <2>1. i + 1 \in Int /\ Len(s) \in Int /\ \A j \in (i + 1)..Len(s) : s[j] \in S
    BY <1>1, <1>3
  <2>2. /\ back \in Seq(S)
        /\ Len(back) = IF i + 1 <= Len(s) THEN Len(s) - (i + 1) + 1 ELSE 0
        /\ \A j \in 1..(Len(s) - (i + 1) + 1) : back[j] = s[(i + 1) + j - 1]
    BY <2>1, SubSeqProperties
  <2>3. Len(back) = Len(s) - i
    BY <2>2, <1>1, <1>3
  <2>4. ASSUME NEW j \in 1..(Len(s) - i) PROVE back[j] = s[i + j]
    <3>1. j \in 1..(Len(s) - (i + 1) + 1) /\ (i + 1) + j - 1 = i + j
      BY <1>1, <1>3
    <3> QED BY <3>1, <2>2
  <2> QED BY <2>2, <2>3, <2>4
<1> HIDE DEF front, back
<1>6. /\ Len(front \o back) = Len(front) + Len(back)
      /\ \A j \in 1..(Len(front) + Len(back)) :
            (front \o back)[j] = IF j <= Len(front) THEN front[j] ELSE back[j - Len(front)]
  BY <1>4, <1>5, ConcatProperties
<1>7. Len(front \o back) = Len(s) - 1
  BY <1>1, <1>3, <1>4, <1>5, <1>6
<1>8. ASSUME NEW j \in 1..(Len(s) - 1)
      PROVE  (front \o back)[j] = IF j < i THEN s[j] ELSE s[j + 1]
  <2>1. j \in 1..(Len(front) + Len(back))
    BY <1>1, <1>3, <1>4, <1>5
  <2>2. CASE j < i
    BY <2>1, <2>2, <1>1, <1>3, <1>4, <1>6
  <2>3. CASE ~(j < i)
    <3>1. j - (i - 1) \in 1..(Len(s) - i) /\ i + (j - (i - 1)) = j + 1
      BY <2>3, <1>1, <1>3
    <3>2. (front \o back)[j] = back[j - (i - 1)]
      BY <2>1, <2>3, <1>1, <1>3, <1>4, <1>6
    <3> QED BY <3>1, <3>2, <2>3, <1>5
  <2> QED BY <2>2, <2>3
<1> QED BY <1>1, <1>2, <1>7, <1>8 DEF i

\* Of the objects of a list, Sublist() picks those it is asked for, and of a
\* list of distinct objects each once.
LEMMA SublistItems ==
    ASSUME NEW T, NEW s \in Seq(T), NEW S
    PROVE  /\ Sublist(s, S) \in Seq(T)
           /\ \A x : Contains(Sublist(s, S), x) <=> Contains(s, x) /\ x \in S
           /\ (\A i, j \in 1..Len(s) : s[i] = s[j] => i = j)
                => \A i, j \in 1..Len(Sublist(s, S)) :
                        Sublist(s, S)[i] = Sublist(s, S)[j] => i = j
<1> DEFINE kept == {i \in DOMAIN s : s[i] \in S}
           upTo(i) == {j \in kept : j <= i}
           n == Cardinality(kept)
           rank == [i \in kept |-> Cardinality(upTo(i))]
           at(k) == CHOOSE i \in kept : Cardinality(upTo(i)) = k
           r == Sublist(s, S)
<1>1. /\ Len(s) \in Nat /\ DOMAIN s = 1..Len(s) /\ \A i \in 1..Len(s) : s[i] \in T
      /\ kept \in SUBSET (1..Len(s)) /\ \A i \in kept : i \in Int
  BY ElementOfSeq, LenProperties
<1>2. IsFiniteSet(kept) /\ n \in Nat
  <2>1. IsFiniteSet(1..Len(s))
    BY <1>1, FS_Interval
  <2> QED BY <1>1, <2>1, FS_Subset, FS_CardinalityType
<1>3. ASSUME NEW i \in kept
      PROVE  IsFiniteSet(upTo(i)) /\ Cardinality(upTo(i)) \in 1..n
  <2>1. upTo(i) \in SUBSET kept /\ i \in upTo(i)
    BY <1>1
  <2> HIDE DEF upTo, kept
  <2>2. /\ IsFiniteSet(upTo(i)) /\ Cardinality(upTo(i)) <= n
        /\ Cardinality(upTo(i)) \in Nat /\ Cardinality(upTo(i)) # 0
    BY <2>1, <1>2, FS_Subset, FS_CardinalityType, FS_EmptySet
  <2> QED BY <2>2, <1>2
<1>4. ASSUME NEW i \in kept, NEW j \in kept, i < j
      PROVE  Cardinality(upTo(i)) # Cardinality(upTo(j))
  <2>1. upTo(i) \in SUBSET upTo(j) /\ j \in upTo(j) /\ j \notin upTo(i)
    BY <1>1, <1>4
  <2>2. IsFiniteSet(upTo(j))
    BY <1>3
  <2> HIDE DEF upTo, kept
  <2> QED BY <2>1, <2>2, FS_Subset
<1>5. rank \in Injection(kept, 1..n)
  <2>1. \A i, j \in kept : rank[i] = rank[j] => i = j
    <3> SUFFICES ASSUME NEW i \in kept, NEW j \in kept, i # j PROVE rank[i] # rank[j]
      OBVIOUS
    <3>1. i < j \/ j < i
      BY <1>1
    <3> QED BY <3>1, <1>4
  <2>2. rank \in [kept -> 1..n]
    BY <1>3
  <2> HIDE DEF rank, kept
  <2> QED BY <2>1, <2>2 DEF Injection, IsInjective
<1>6. rank \in Surjection(kept, 1..n)
  <2>1. IsFiniteSet(1..n) /\ Cardinality(1..n) = n
    BY <1>2, FS_Interval
  <2> HIDE DEF rank, kept
  <2> QED BY <2>1, <1>5, FS_Injection
<1>7. ASSUME NEW k \in 1..n
      PROVE  at(k) \in kept /\ Cardinality(upTo(at(k))) = k
  <2>1. \E i \in kept : rank[i] = k
    BY <1>6 DEF Surjection
  <2>2. \E i \in kept : Cardinality(upTo(i)) = k
    BY <2>1
  <2> HIDE DEF kept, upTo, n
  <2> QED BY <2>2
<1>8. r = [k \in 1..n |-> s[at(k)]]
  BY DEF Sublist
<1> HIDE DEF r, at, rank, upTo, n
<1>9. Len(r) = n /\ DOMAIN r = 1..n /\ \A k \in 1..n : r[k] = s[at(k)]
  BY <1>2, <1>8
<1>10. r \in Seq(T)
  <2>1. \A k \in 1..n : s[at(k)] \in T
    BY <1>1, <1>7
  <2> QED BY <2>1, <1>2, <1>8
<1>11. ASSUME NEW x PROVE Contains(r, x) <=> Contains(s, x) /\ x \in S
  <2>1. ASSUME Contains(r, x) PROVE Contains(s, x) /\ x \in S
    <3>1. PICK k \in 1..n : s[at(k)] = x
      BY <2>1, <1>9 DEF Contains
    <3> QED BY <3>1, <1>1, <1>7 DEF Contains
  <2>2. ASSUME Contains(s, x), x \in S PROVE Contains(r, x)
    <3>1. PICK i \in 1..Len(s) : s[i] = x
      BY <2>2 DEF Contains
    <3>2. i \in kept
      BY <3>1, <2>2, <1>1
    <3> DEFINE k == Cardinality(upTo(i))
    <3>3. k \in 1..n
      BY <3>2, <1>3
    <3> HIDE DEF k, kept
    <3>4. at(k) = i
      <4>1. at(k) \in kept /\ Cardinality(upTo(at(k))) = k
        BY <3>3, <1>7
      <4>2. ~(at(k) < i) /\ ~(i < at(k))
        BY <4>1, <3>2, <1>4 DEF k
      <4>3. at(k) \in Int /\ i \in Int
        BY <4>1, <3>2, <1>1 DEF kept
      <4> QED BY ONLY <4>2, <4>3
    <3> QED BY <3>1, <3>3, <3>4, <1>9 DEF Contains
  <2> QED BY <2>1, <2>2
<1>12. ASSUME \A i, j \in 1..Len(s) : s[i] = s[j] => i = j,
              NEW k \in 1..n, NEW m \in 1..n, r[k] = r[m]
       PROVE  k = m
  <2>1. at(k) \in kept /\ at(m) \in kept /\ s[at(k)] = s[at(m)]
    BY <1>7, <1>9, <1>12
  <2>2. at(k) = at(m)
    BY <2>1, <1>1, <1>12
  <2> QED BY <2>2, <1>7
<1> QED BY <1>9, <1>10, <1>11, <1>12 DEF r

\* Of a list of distinct objects, unlink() leaves the others, each of them once.
LEMMA UnlinkDistinct ==
    ASSUME NEW S, NEW s \in Seq(S), NEW x, Contains(s, x),
           \A i, j \in 1..Len(s) : s[i] = s[j] => i = j
    PROVE  /\ \A y : Contains(Unlink(s, x), y) <=> Contains(s, y) /\ y # x
           /\ \A i, j \in 1..Len(Unlink(s, x)) :
                Unlink(s, x)[i] = Unlink(s, x)[j] => i = j
<1> DEFINE r == Unlink(s, x)
           k == Position(s, x)
<1>1. /\ k \in 1..Len(s) /\ s[k] = x
      /\ Len(r) = Len(s) - 1
      /\ \A j \in 1..(Len(s) - 1) : r[j] = IF j < k THEN s[j] ELSE s[j + 1]
  BY UnlinkItems
<1>2. Len(s) \in Nat
  BY LenProperties
<1> HIDE DEF r, k
<1>3. ASSUME NEW y, Contains(r, y) PROVE Contains(s, y) /\ y # x
  <2>1. PICK j \in 1..(Len(s) - 1) : r[j] = y
    BY <1>1, <1>2, <1>3 DEF Contains
  <2>2. CASE j < k
    <3>1. j \in 1..Len(s) /\ s[j] = y /\ j # k
      BY <1>1, <1>2, <2>1, <2>2
    <3> QED BY <3>1, <1>1 DEF Contains
  <2>3. CASE ~(j < k)
    <3>1. j + 1 \in 1..Len(s) /\ s[j + 1] = y /\ j + 1 # k
      BY <1>1, <1>2, <2>1, <2>3
    <3> QED BY <3>1, <1>1 DEF Contains
  <2> QED BY <2>2, <2>3
<1>4. ASSUME NEW y, Contains(s, y), y # x PROVE Contains(r, y)
  <2>1. PICK j \in 1..Len(s) : s[j] = y
    BY <1>4 DEF Contains
  <2>2. CASE j < k
    <3>1. j \in 1..(Len(s) - 1) /\ r[j] = y
      BY <1>1, <1>2, <2>1, <2>2
    <3> QED BY <3>1, <1>1 DEF Contains
  <2>3. CASE j > k
    <3>1. j - 1 \in 1..(Len(s) - 1) /\ ~(j - 1 < k) /\ (j - 1) + 1 = j
      BY <1>1, <1>2, <2>3
    <3>2. r[j - 1] = y
      BY <3>1, <1>1, <2>1
    <3> QED BY <3>1, <3>2, <1>1 DEF Contains
  <2> QED BY <2>1, <2>2, <2>3, <1>1, <1>2, <1>4
<1>5. ASSUME NEW i \in 1..Len(r), NEW j \in 1..Len(r), r[i] = r[j] PROVE i = j
  <2> DEFINE f(m) == IF m < k THEN m ELSE m + 1
  <2>1. /\ f(i) \in 1..Len(s) /\ f(j) \in 1..Len(s)
        /\ r[i] = s[f(i)] /\ r[j] = s[f(j)]
    BY <1>1, <1>2
  <2>2. f(i) = f(j)
    BY <2>1, <1>5
  <2> QED BY <2>2, <1>1, <1>2
<1> QED BY <1>3, <1>4, <1>5 DEF r

\* push_back().
LEMMA Appended ==
    ASSUME NEW S, NEW s \in Seq(S), NEW e \in S
    PROVE  /\ Append(s, e) \in Seq(S)
           /\ Len(s) \in Nat /\ Len(Append(s, e)) = Len(s) + 1
           /\ Append(s, e)[Len(s) + 1] = e
           /\ \A i \in 1..Len(s) : Append(s, e)[i] = s[i]
           /\ \A y : Contains(Append(s, e), y) <=> Contains(s, y) \/ y = e
           /\ Append(s, e) # <<>>
<1>1. /\ Append(s, e) \in Seq(S)
      /\ Len(s) \in Nat /\ Len(Append(s, e)) = Len(s) + 1
      /\ Append(s, e)[Len(s) + 1] = e
      /\ \A i \in 1..Len(s) : Append(s, e)[i] = s[i]
  BY AppendProperties, LenProperties
<1>2. ASSUME NEW y PROVE Contains(Append(s, e), y) <=> Contains(s, y) \/ y = e
  <2>1. ASSUME Contains(Append(s, e), y) PROVE Contains(s, y) \/ y = e
    <3>1. PICK i \in 1..(Len(s) + 1) : Append(s, e)[i] = y
      BY <1>1, <2>1 DEF Contains
    <3>2. i \in 1..Len(s) \/ i = Len(s) + 1
      BY <1>1
    <3> QED BY <1>1, <3>1, <3>2 DEF Contains
  <2>2. ASSUME Contains(s, y) \/ y = e PROVE Contains(Append(s, e), y)
    <3>1. 1..Len(s) \subseteq 1..(Len(s) + 1) /\ Len(s) + 1 \in 1..(Len(s) + 1)
      BY <1>1
    <3> QED BY <1>1, <2>2, <3>1 DEF Contains
  <2> QED BY <2>1, <2>2
<1>3. Append(s, e) # <<>>
  <2>1. Len(Append(s, e)) # 0
    BY <1>1
  <2> QED BY <2>1, EmptySeq
<1> QED BY <1>1, <1>2, <1>3

\* pop_front().
LEMMA Popped ==
    ASSUME NEW S, NEW s \in Seq(S), s # <<>>
    PROVE  /\ Tail(s) \in Seq(S)
           /\ Head(s) = s[1] /\ 1 \in 1..Len(s)
           /\ Len(s) \in Nat /\ Len(Tail(s)) = Len(s) - 1
           /\ \A i \in 1..Len(Tail(s)) : i + 1 \in 1..Len(s) /\ Tail(s)[i] = s[i + 1]
           /\ \A y : Contains(s, y) <=> Contains(Tail(s), y) \/ y = Head(s)
<1>1. /\ Tail(s) \in Seq(S)
      /\ Len(s) \in Nat \ {0} /\ Len(Tail(s)) = Len(s) - 1
      /\ \A i \in 1..Len(Tail(s)) : Tail(s)[i] = s[i + 1]
  BY HeadTailProperties, EmptySeq
<1>2. Head(s) = s[1]
  OBVIOUS
<1>3. \A i \in 1..Len(Tail(s)) : i + 1 \in 1..Len(s)
  BY <1>1
<1>4. ASSUME NEW y PROVE Contains(s, y) <=> Contains(Tail(s), y) \/ y = Head(s)
  <2>1. ASSUME Contains(s, y) PROVE Contains(Tail(s), y) \/ y = Head(s)
    <3>1. PICK i \in 1..Len(s) : s[i] = y
      BY <2>1 DEF Contains
    <3>2. CASE i = 1
      BY <3>1, <3>2, <1>2
    <3>3. CASE i # 1
      <4>1. i - 1 \in 1..Len(Tail(s)) /\ (i - 1) + 1 = i
        BY <1>1, <3>3
      <4> QED BY <4>1, <3>1, <1>1 DEF Contains
    <3> QED BY <3>2, <3>3
  <2>2. ASSUME Contains(Tail(s), y) \/ y = Head(s) PROVE Contains(s, y)
    <3>1. 1 \in 1..Len(s)
      BY <1>1
    <3> QED BY <1>1, <1>2, <1>3, <2>2, <3>1 DEF Contains
  <2> QED BY <2>1, <2>2
<1> QED BY <1>1, <1>2, <1>3, <1>4

----------------------------------------------------------------------------
(* Lists that are rings of pointers.                                       *)

\* Pointers and lists that agree.
Listed(l, lists) ==
    /\ l \in Links
    /\ lists \in [Heads -> Seq(Items)]
    /\ Agree(l, lists)

(* Lists that do not exist yet are empty.                                  *)
THEOREM AtFirst ==
    ASSUME NodesDiffer
    PROVE  Listed(NoLinks, [h \in Heads |-> <<>>])
<1> DEFINE none == [h \in Heads |-> <<>>]
<1>1. none \in [Heads -> Seq(Items)] /\ \A h \in Heads : Len(none[h]) = 0
  BY EmptySeq
<1>2. NoLinks \in Links
  BY DEF NoLinks, Links
<1>3. LinkedOnce(none)
  BY <1>1 DEF LinkedOnce
<1>4. ASSUME NEW h \in Heads PROVE Ring(NoLinks, h, none[h])
  <2>1. NoLinks.next[h] = h /\ NoLinks.prev[h] = h
    BY DEF NoLinks
  <2>2. 0 \notin 1..0 /\ 1 \notin 1..0 /\ \A i \in 0..0 : i = 0
    OBVIOUS
  <2> HIDE DEF none
  <2> QED BY <1>1, <2>1, <2>2 DEF Ring, At
<1>5. ASSUME NEW x \in Items PROVE NoLinks.next[x] = Null /\ NoLinks.prev[x] = Null
  BY DEF NoLinks, NodesDiffer
<1> QED BY <1>1, <1>2, <1>3, <1>4, <1>5 DEF Listed, Agree

----------------------------------------------------------------------------
(* The nodes of the rings.                                                 *)

LEMMA ItemsAreNoHeads ==
    ASSUME NodesDiffer
    PROVE  \A x \in Items : x \notin Heads /\ x # Null
BY DEF NodesDiffer

LEMMA NodeTypes ==
    ASSUME NEW s \in Seq(Items), NEW h \in Heads, NEW i \in Nat
    PROVE  /\ Len(s) \in Nat
           /\ At(h, s, i) \in Items \cup Heads
           /\ i \in 1..Len(s) => At(h, s, i) = s[i] /\ s[i] \in Items
           /\ i \notin 1..Len(s) => At(h, s, i) = h
BY ElementOfSeq, LenProperties DEF At

\* What "it is in a list" is about.
LEMMA HeldAt ==
    ASSUME NEW lists \in [Heads -> Seq(Items)], NEW x
    PROVE  Holds(lists, x) <=> \E h \in Heads : \E i \in 1..Len(lists[h]) : lists[h][i] = x
BY DEF Holds, Contains

\* A node is at one place of one ring: from its beginning, where it starts,
LEMMA OnePlace ==
    ASSUME NodesDiffer, NEW lists \in [Heads -> Seq(Items)], LinkedOnce(lists),
           NEW h \in Heads, NEW k \in Heads,
           NEW i \in 0..Len(lists[h]), NEW j \in 0..Len(lists[k]),
           At(h, lists[h], i) = At(k, lists[k], j)
    PROVE  h = k /\ i = j
<1>1. /\ i \in Nat /\ j \in Nat /\ lists[h] \in Seq(Items) /\ lists[k] \in Seq(Items)
      /\ Len(lists[h]) \in Nat /\ Len(lists[k]) \in Nat
  BY LenProperties
<1>2. /\ j \in 1..Len(lists[k]) => At(k, lists[k], j) \in Items
      /\ j \notin 1..Len(lists[k]) => At(k, lists[k], j) = k
  BY <1>1, NodeTypes
<1>3. CASE i = 0
  <2>1. At(h, lists[h], i) = h
    BY <1>1, <1>3, NodeTypes
  <2>2. j \notin 1..Len(lists[k])
    BY <1>1, <1>2, <2>1, ItemsAreNoHeads
  <2> QED BY <1>1, <1>3, <2>1, <2>2, NodeTypes
<1>4. CASE i # 0
  <2>1. i \in 1..Len(lists[h])
    BY <1>1, <1>4
  <2>2. At(h, lists[h], i) = lists[h][i] /\ lists[h][i] \in Items
    BY <1>1, <2>1, NodeTypes
  <2>3. j \in 1..Len(lists[k])
    BY <1>1, <1>2, <2>2, ItemsAreNoHeads
  <2>4. At(k, lists[k], j) = lists[k][j]
    BY <1>1, <2>3, NodeTypes
  <2>5. lists[h][i] = lists[k][j]
    BY <2>2, <2>4
  <2> QED BY ONLY <2>1, <2>3, <2>5, h \in Heads, k \in Heads, LinkedOnce(lists)
          DEF LinkedOnce
<1> QED BY <1>3, <1>4

\* or from the first object on, up to where it ends.
LEMMA OnePlaceBefore ==
    ASSUME NodesDiffer, NEW lists \in [Heads -> Seq(Items)], LinkedOnce(lists),
           NEW h \in Heads, NEW k \in Heads,
           NEW i \in 0..Len(lists[h]), NEW j \in 0..Len(lists[k]),
           At(h, lists[h], i + 1) = At(k, lists[k], j + 1)
    PROVE  h = k /\ i = j
<1>1. /\ i + 1 \in Nat /\ j + 1 \in Nat /\ lists[h] \in Seq(Items) /\ lists[k] \in Seq(Items)
      /\ Len(lists[h]) \in Nat /\ Len(lists[k]) \in Nat
  BY LenProperties
<1>2. /\ j + 1 \in 1..Len(lists[k]) => At(k, lists[k], j + 1) \in Items
      /\ j + 1 \notin 1..Len(lists[k]) => At(k, lists[k], j + 1) = k
  BY <1>1, NodeTypes
<1>3. CASE i = Len(lists[h])
  <2>1. At(h, lists[h], i + 1) = h
    BY <1>1, <1>3, NodeTypes
  <2>2. j + 1 \notin 1..Len(lists[k])
    BY <1>1, <1>2, <2>1, ItemsAreNoHeads
  <2> QED BY <1>1, <1>3, <2>1, <2>2, NodeTypes
<1>4. CASE i # Len(lists[h])
  <2>1. i + 1 \in 1..Len(lists[h])
    BY <1>1, <1>4
  <2>2. At(h, lists[h], i + 1) = lists[h][i + 1] /\ lists[h][i + 1] \in Items
    BY <1>1, <2>1, NodeTypes
  <2>3. j + 1 \in 1..Len(lists[k])
    BY <1>1, <1>2, <2>2, ItemsAreNoHeads
  <2>4. At(k, lists[k], j + 1) = lists[k][j + 1]
    BY <1>1, <2>3, NodeTypes
  <2>5. h = k /\ i + 1 = j + 1
    BY <2>1, <2>2, <2>3, <2>4 DEF LinkedOnce
  <2> QED BY <2>5
<1> QED BY <1>3, <1>4

----------------------------------------------------------------------------
(* What a list says of itself.                                             *)

(* empty() and front() read the pointers of the list alone, and are right  *)
(* about what it holds.                                                    *)
THEOREM FrontIsHead ==
    ASSUME NodesDiffer, NEW l, NEW lists, Listed(l, lists), NEW h \in Heads
    PROVE  /\ EmptyList(l, h) <=> lists[h] = <<>>
           /\ ~EmptyList(l, h) => FrontOf(l, h) = Head(lists[h]) /\ Head(lists[h]) \in Items
<1> DEFINE s == lists[h]
<1>1. s \in Seq(Items) /\ Len(s) \in Nat
  BY LenProperties DEF Listed
<1>2. 0 \in 0..Len(s) /\ 0 + 1 = 1 /\ 0 \notin 1..Len(s)
  BY <1>1
<1>3. l.next[h] = At(h, s, 1)
  <2>1. Ring(l, h, s)
    BY DEF Listed, Agree
  <2>2. At(h, s, 0) = h
    BY <1>2 DEF At
  <2> HIDE DEF s
  <2>3. l.next[At(h, s, 0)] = At(h, s, 0 + 1)
    BY <2>1, <1>2 DEF Ring
  <2> QED BY <2>2, <2>3, <1>2
<1>4. s = <<>> <=> Len(s) = 0
  BY <1>1, EmptySeq
<1> HIDE DEF s
<1>5. CASE Len(s) = 0
  <2>1. l.next[h] = h
    BY <1>3, <1>5 DEF At
  <2> QED BY <2>1, <1>4, <1>5 DEF EmptyList, s
<1>6. CASE Len(s) # 0
  <2>1. 1 \in 1..Len(s)
    BY <1>1, <1>6
  <2>2. l.next[h] = s[1] /\ s[1] \in Items
    BY <2>1, <1>1, <1>3, ElementOfSeq DEF At
  <2>3. s[1] # h
    BY <2>2, ItemsAreNoHeads
  <2>4. Head(s) = s[1]
    OBVIOUS
  <2> QED BY <2>2, <2>3, <2>4, <1>4, <1>6 DEF EmptyList, FrontOf, s
<1> QED BY <1>5, <1>6

\* What it takes to show that new pointers are those of new lists.
LEMMA ListedBy ==
    ASSUME NEW l, NEW lists,
           l \in Links, lists \in [Heads -> Seq(Items)], LinkedOnce(lists),
           \A h \in Heads : \A i \in 0..Len(lists[h]) :
               /\ l.next[At(h, lists[h], i)] = At(h, lists[h], i + 1)
               /\ l.prev[At(h, lists[h], i + 1)] = At(h, lists[h], i),
           \A x \in Items : ~Holds(lists, x) => l.next[x] = Null /\ l.prev[x] = Null
    PROVE  Listed(l, lists)
BY DEF Listed, Agree, Ring

----------------------------------------------------------------------------
(* unlink().                                                               *)

\* What becomes of the lists.
LEMMA WithoutIt ==
    ASSUME NEW lists \in [Heads -> Seq(Items)], LinkedOnce(lists), NEW x \in Items
    PROVE  /\ WithoutItem(lists, x) \in [Heads -> Seq(Items)]
           /\ LinkedOnce(WithoutItem(lists, x))
           /\ \A y : Holds(WithoutItem(lists, x), y) <=> Holds(lists, y) /\ y # x
<1> DEFINE w == WithoutItem(lists, x)
<1>1. ASSUME NEW h \in Heads
      PROVE  /\ w[h] = Unlink(lists[h], x) /\ w[h] \in Seq(Items)
             /\ \A y : Contains(w[h], y) <=> Contains(lists[h], y) /\ y # x
             /\ \A i, j \in 1..Len(w[h]) : w[h][i] = w[h][j] => i = j
  <2>1. w[h] = Unlink(lists[h], x)
    BY DEF WithoutItem
  <2>2. lists[h] \in Seq(Items)
    OBVIOUS
  <2>3. \A i, j \in 1..Len(lists[h]) : lists[h][i] = lists[h][j] => i = j
    BY DEF LinkedOnce
  <2>4. Unlink(lists[h], x) \in Seq(Items)
    BY <2>2, UnlinkType
  <2>5. CASE Contains(lists[h], x)
    BY <2>1, <2>2, <2>3, <2>4, <2>5, UnlinkDistinct
  <2>6. CASE ~Contains(lists[h], x)
    <3>1. w[h] = lists[h]
      BY <2>1, <2>6 DEF Unlink
    <3> QED BY <3>1, <2>1, <2>2, <2>3, <2>6
  <2> QED BY <2>5, <2>6
<1>2. w \in [Heads -> Seq(Items)]
  BY <1>1 DEF WithoutItem
<1> HIDE DEF w
<1>3. \A y : Holds(w, y) <=> Holds(lists, y) /\ y # x
  BY <1>1 DEF Holds
<1>4. LinkedOnce(w)
  <2> SUFFICES ASSUME NEW h \in Heads, NEW k \in Heads,
                      NEW i \in 1..Len(w[h]), NEW j \in 1..Len(w[k]), w[h][i] = w[k][j]
               PROVE  h = k /\ i = j
    BY DEF LinkedOnce
  <2>0. Contains(w[h], w[h][i]) /\ Contains(w[k], w[h][i])
    BY DEF Contains
  <2>1. Contains(lists[h], w[h][i]) /\ Contains(lists[k], w[h][i])
    BY <2>0, <1>1
  <2>2. h = k
    BY <2>1 DEF LinkedOnce, Contains
  <2> QED BY <2>2, <1>1
<1> QED BY <1>2, <1>3, <1>4 DEF w

LEMMA StillEmpty ==
    ASSUME NEW lists, NEW x, NEW h \in Heads, lists[h] = <<>>
    PROVE  WithoutItem(lists, x)[h] = <<>>
BY DEF WithoutItem, Unlink, Contains

\* The node that was the i-th of a list, if its k-th object goes.
LEMMA WithoutAt ==
    ASSUME NEW s \in Seq(Items), NEW x, Contains(s, x), NEW h \in Heads,
           NEW i \in 0..Len(s)
    PROVE  At(h, Unlink(s, x), i) = At(h, s, IF i < Position(s, x) THEN i ELSE i + 1)
<1> DEFINE r == Unlink(s, x)
           k == Position(s, x)
<1>1. /\ k \in 1..Len(s) /\ Len(r) = Len(s) - 1
      /\ \A j \in 1..(Len(s) - 1) : r[j] = IF j < k THEN s[j] ELSE s[j + 1]
  BY UnlinkItems
<1>2. Len(s) \in Nat
  BY LenProperties
<1> SUFFICES At(h, r, i) = At(h, s, IF i < k THEN i ELSE i + 1)
  OBVIOUS
<1> HIDE DEF r, k
<1>3. CASE i \in 1..Len(r)
  <2>1. i \in 1..(Len(s) - 1) /\ i \in 1..Len(s) /\ i + 1 \in 1..Len(s)
    BY <1>1, <1>2, <1>3
  <2>2. At(h, r, i) = r[i] /\ At(h, s, i) = s[i] /\ At(h, s, i + 1) = s[i + 1]
    BY <2>1, <1>3 DEF At
  <2> QED BY <2>1, <2>2, <1>1
<1>4. CASE i = 0
  <2>1. i < k /\ i \notin 1..Len(s) /\ i \notin 1..Len(r)
    BY <1>1, <1>2, <1>4
  <2> QED BY <2>1 DEF At
<1>5. CASE i = Len(s)
  <2>1. ~(i < k) /\ i + 1 \notin 1..Len(s) /\ i \notin 1..Len(r)
    BY <1>1, <1>2, <1>5
  <2> QED BY <2>1 DEF At
<1>6. i \in 1..Len(r) \/ i = 0 \/ i = Len(s)
  BY <1>1, <1>2
<1> QED BY <1>3, <1>4, <1>5, <1>6

(* unlink() of an object that may or may not be linked leaves the pointers *)
(* of the same lists without it, whichever list it was in.                 *)
THEOREM Unlinked ==
    ASSUME NodesDiffer, NEW l, NEW lists, Listed(l, lists), NEW x \in Items
    PROVE  Listed(UnlinkItem(l, x), WithoutItem(lists, x))
<1> DEFINE u == UnlinkItem(l, x)
           w == WithoutItem(lists, x)
           n == l.next[x]
           p == l.prev[x]
<1>1. /\ l \in Links /\ lists \in [Heads -> Seq(Items)] /\ LinkedOnce(lists)
      /\ \A y \in Items : ~Holds(lists, y) => l.next[y] = Null /\ l.prev[y] = Null
      /\ \A h \in Heads : Ring(l, h, lists[h])
  BY DEF Listed, Agree
<1>2. /\ w \in [Heads -> Seq(Items)] /\ LinkedOnce(w)
      /\ \A y : Holds(w, y) <=> Holds(lists, y) /\ y # x
  BY <1>1, WithoutIt
<1>3. \A h \in Heads : w[h] = Unlink(lists[h], x)
  BY DEF WithoutItem
<1> HIDE DEF w
<1>4. CASE ~Holds(lists, x)
  <2>1. n = Null /\ p = Null
    BY <1>1, <1>4
  <2>2. u = l
    BY <2>1, <1>1 DEF UnlinkItem, Links
  <2>3. \A h \in Heads : w[h] = lists[h]
    BY <1>3, <1>4 DEF Holds, Unlink
  <2>4. w = lists
    BY <2>3, <1>1, <1>2
  <2> QED BY <2>2, <2>4 DEF w
<1>5. CASE Holds(lists, x)
  <2>1. PICK g \in Heads : Contains(lists[g], x)
    BY <1>5 DEF Holds
  <2> DEFINE s == lists[g]
             k == Position(s, x)
  <2>2. s \in Seq(Items) /\ k \in 1..Len(s) /\ s[k] = x /\ Len(s) \in Nat
    BY <1>1, <2>1, LenProperties DEF Position, Contains
  <2> HIDE DEF s, k
  <2>3. /\ k - 1 \in 0..Len(s) /\ k \in 0..Len(s) /\ (k - 1) + 1 = k
        /\ k - 1 \in Nat /\ k + 1 \in Nat
    BY <2>2
  <2>4. At(g, s, k) = x
    BY <2>2 DEF At
  <2>5. n = At(g, s, k + 1) /\ p = At(g, s, k - 1)
    <3>1. Ring(l, g, s)
      BY <1>1 DEF s
    <3>2. l.next[At(g, s, k)] = At(g, s, k + 1) /\ l.prev[At(g, s, (k - 1) + 1)] = At(g, s, k - 1)
      BY <3>1, <2>3 DEF Ring
    <3> QED BY <3>2, <2>3, <2>4
  <2>6. n \in Items \cup Heads /\ p \in Items \cup Heads
    BY <2>2, <2>3, <2>5, NodeTypes
  <2>7. n # Null /\ p # Null /\ x \in Items /\ x \notin Heads
    BY <2>6 DEF NodesDiffer
  <2>8. /\ u \in Links
        /\ u.next = [[l.next EXCEPT ![p] = n] EXCEPT ![x] = Null]
        /\ u.prev = [[l.prev EXCEPT ![n] = p] EXCEPT ![x] = Null]
    BY <1>1, <2>6, <2>7 DEF UnlinkItem, Links
  \* Away from x and its neighbours nothing changes.
  <2>9. ASSUME NEW h \in Heads, NEW j \in 0..Len(lists[h]), h # g \/ (j # k - 1 /\ j # k)
        PROVE  /\ u.next[At(h, lists[h], j)] = At(h, lists[h], j + 1)
               /\ u.prev[At(h, lists[h], j + 1)] = At(h, lists[h], j)
    <3>1. At(h, lists[h], j) # p /\ At(h, lists[h], j) # x
      BY <1>1, <2>3, <2>4, <2>5, <2>9, OnePlace DEF s
    <3>2. At(h, lists[h], j + 1) # n /\ At(h, lists[h], j + 1) # x
      BY <1>1, <2>3, <2>4, <2>5, <2>9, OnePlaceBefore DEF s
    <3>3. /\ l.next[At(h, lists[h], j)] = At(h, lists[h], j + 1)
          /\ l.prev[At(h, lists[h], j + 1)] = At(h, lists[h], j)
      BY <1>1 DEF Ring
    <3>4. j \in Nat /\ j + 1 \in Nat /\ lists[h] \in Seq(Items)
      BY <1>1, LenProperties
    <3>5. At(h, lists[h], j) \in Items \cup Heads /\ At(h, lists[h], j + 1) \in Items \cup Heads
      BY <3>4, NodeTypes
    <3> QED BY <3>1, <3>2, <3>3, <3>5, <1>1, <2>8 DEF Links
  <2>10. p # x /\ n # x
    <3>1. At(g, s, k - 1) # At(g, s, k)
      BY <1>1, <2>3, OnePlace DEF s
    <3>2. PICK m \in 0..Len(s) : m + 1 = k
      BY <2>3
    <3>3. At(g, s, k + 1) # At(g, s, m + 1)
      BY <1>1, <2>3, <3>2, OnePlaceBefore DEF s
    <3> QED BY <3>1, <3>2, <3>3, <2>3, <2>4, <2>5
  <2>11. u.next[p] = n /\ u.prev[n] = p /\ u.next[x] = Null /\ u.prev[x] = Null
    BY <2>6, <2>7, <2>8, <2>10, <1>1 DEF Links
  <2>12. ASSUME NEW h \in Heads, NEW i \in 0..Len(w[h])
         PROVE  /\ u.next[At(h, w[h], i)] = At(h, w[h], i + 1)
                /\ u.prev[At(h, w[h], i + 1)] = At(h, w[h], i)
    <3>1. CASE h # g
      <4>1. w[h] = lists[h]
        BY <3>1, <2>1, <1>1, <1>3 DEF Unlink, Contains, LinkedOnce
      <4> QED BY <4>1, <3>1, <2>9
    <3>2. CASE h = g
      <4> DEFINE f(m) == IF m < k THEN m ELSE m + 1
      <4>1. w[h] = Unlink(s, x) /\ Len(w[h]) = Len(s) - 1
        <5>1. Len(Unlink(s, x)) = Len(s) - 1
          <6>1. Contains(s, x)
            BY <2>1 DEF s
          <6> QED BY <6>1, <2>2, UnlinkItems
        <5> QED BY <5>1, <3>2, <1>3 DEF s
      <4>2. i \in 0..Len(s) /\ i + 1 \in 0..Len(s)
        <5>1. i \in 0..(Len(s) - 1)
          BY <4>1, <3>2
        <5> QED BY ONLY <5>1, <2>2
      <4>3. /\ At(h, w[h], i) = At(g, s, f(i))
            /\ At(h, w[h], i + 1) = At(g, s, f(i + 1))
        BY <3>2, <4>1, <4>2, <2>1, <2>2, WithoutAt DEF s, k
      <4>4. CASE i + 1 = k
        <5>1. f(i) = k - 1 /\ f(i + 1) = k + 1
          BY <4>2, <4>4, <2>2
        <5> HIDE DEF f
        <5> QED BY <5>1, <4>3, <2>5, <2>11
      <4>5. CASE i + 1 # k
        <5>1. /\ f(i) \in 0..Len(s) /\ f(i + 1) = f(i) + 1
              /\ f(i) # k - 1 /\ f(i) # k
          BY <4>1, <4>2, <4>5, <2>2
        <5> HIDE DEF f
        <5>2. /\ u.next[At(g, lists[g], f(i))] = At(g, lists[g], f(i) + 1)
              /\ u.prev[At(g, lists[g], f(i) + 1)] = At(g, lists[g], f(i))
          BY <5>1, <2>9 DEF s
        <5> QED BY <5>1, <5>2, <4>3 DEF s
      <4> QED BY <4>4, <4>5
    <3> QED BY <3>1, <3>2
  <2>13. ASSUME NEW y \in Items, ~Holds(w, y) PROVE u.next[y] = Null /\ u.prev[y] = Null
    <3>1. CASE y = x
      BY <3>1, <2>11
    <3>2. CASE y # x
      <4>1. ~Holds(lists, y)
        BY <3>2, <2>13, <1>2
      <4>2. y # p /\ y # n
        <5>1. ASSUME NEW m \in Nat, At(g, s, m) \in Items PROVE Holds(lists, At(g, s, m))
          <6>1. m \in 1..Len(s) /\ s[m] = At(g, s, m)
            BY <5>1, <2>2, NodeTypes, ItemsAreNoHeads
          <6> QED BY <6>1, HeldAt, <1>1 DEF s
        <5> QED BY <5>1, <4>1, <2>3, <2>5
      <4> QED BY <3>2, <4>1, <4>2, <1>1, <2>6, <2>8 DEF Links
    <3> QED BY <3>1, <3>2
  <2> HIDE DEF u
  <2>14. Listed(u, w)
    BY <2>8, <2>12, <2>13, <1>2, ListedBy
  <2> QED BY <2>14 DEF u, w
<1> QED BY <1>4, <1>5

----------------------------------------------------------------------------
(* push_back().                                                            *)

\* Who is in a list afterwards.
LEMMA HeldThen ==
    ASSUME NEW lists \in [Heads -> Seq(Items)], LinkedOnce(lists), NEW x \in Items, NEW g \in Heads
    PROVE  \A y : Holds(WithLast(lists, g, x), y) <=> Holds(lists, y) \/ y = x
<1> DEFINE w == WithoutItem(lists, x)
           q == WithLast(lists, g, x)
<1>1. /\ w \in [Heads -> Seq(Items)]
      /\ \A y : Holds(w, y) <=> Holds(lists, y) /\ y # x
  BY WithoutIt
<1>2. q = [w EXCEPT ![g] = Append(w[g], x)]
  BY DEF WithLast
<1> HIDE DEF w, q
<1>3. q[g] = Append(w[g], x) /\ \A h \in Heads : h # g => q[h] = w[h]
  BY <1>1, <1>2
<1>4. \A y : Contains(q[g], y) <=> Contains(w[g], y) \/ y = x
  BY <1>1, <1>3, Appended
<1>5. \A y : Holds(q, y) <=> Holds(w, y) \/ y = x
  BY <1>3, <1>4 DEF Holds
<1>6. \A y : Holds(q, y) <=> Holds(lists, y) \/ y = x
  BY <1>1, <1>5
<1> QED BY <1>6 DEF q

LEMMA StillEmptyThen ==
    ASSUME NEW lists, NEW x, NEW g \in Heads, NEW h \in Heads, h # g, lists[h] = <<>>
    PROVE  WithLast(lists, g, x)[h] = <<>>
BY StillEmpty DEF WithLast, WithoutItem

(* push_back() leaves the pointers of the same lists with the object at    *)
(* the end of this one and in no other, where it may have been before.     *)
THEOREM PushedBack ==
    ASSUME NodesDiffer, NEW l, NEW lists, Listed(l, lists), NEW x \in Items, NEW g \in Heads
    PROVE  Listed(PushItem(l, g, x), WithLast(lists, g, x))
<1> DEFINE u == UnlinkItem(l, x)
           w == WithoutItem(lists, x)
           s == w[g]
           last == u.prev[g]
           c == Len(s)
           v == PushItem(l, g, x)
           q == WithLast(lists, g, x)
<1>1. Listed(u, w)
  BY Unlinked
<1>2. /\ u \in Links /\ w \in [Heads -> Seq(Items)] /\ LinkedOnce(w)
      /\ \A y \in Items : ~Holds(w, y) => u.next[y] = Null /\ u.prev[y] = Null
      /\ \A h \in Heads : Ring(u, h, w[h])
  BY <1>1 DEF Listed, Agree
<1>3. ~Holds(w, x)
  BY WithoutIt DEF Listed, Agree
<1>4. /\ v = [next |-> [u.next EXCEPT ![x] = g, ![last] = x],
               prev |-> [u.prev EXCEPT ![x] = last, ![g] = x]]
      /\ q = [w EXCEPT ![g] = Append(s, x)]
  BY DEF PushItem, WithLast
<1> HIDE DEF u, w, v, q
<1>5. s \in Seq(Items) /\ c \in Nat /\ c \in 0..c
  BY <1>2, LenProperties
<1>6. At(g, s, c) = last /\ At(g, s, c + 1) = g
  <2>1. At(g, s, c + 1) = g
    BY <1>5 DEF At
  <2>2. u.prev[At(g, s, c + 1)] = At(g, s, c)
    BY <1>2, <1>5 DEF Ring
  <2> QED BY <2>1, <2>2
<1>7. \A h \in Heads, i \in Nat : At(h, w[h], i) \in Items \cup Heads /\ At(h, w[h], i) # x
  <2> SUFFICES ASSUME NEW h \in Heads, NEW i \in Nat
               PROVE  At(h, w[h], i) \in Items \cup Heads /\ At(h, w[h], i) # x
    OBVIOUS
  <2>1. w[h] \in Seq(Items)
    BY <1>2
  <2>2. CASE i \in 1..Len(w[h])
    BY <2>1, <2>2, <1>2, <1>3, HeldAt, NodeTypes
  <2>3. CASE i \notin 1..Len(w[h])
    BY <2>1, <2>3, NodeTypes, ItemsAreNoHeads
  <2> QED BY <2>2, <2>3
<1>8. last \in Items \cup Heads /\ last # x /\ g # x
  BY <1>5, <1>6, <1>7, ItemsAreNoHeads
<1>9. v \in Links
  BY <1>2, <1>4, <1>8 DEF Links
<1>10. /\ Append(s, x) \in Seq(Items) /\ Len(Append(s, x)) = c + 1
       /\ Append(s, x)[c + 1] = x
       /\ \A i \in 1..c : Append(s, x)[i] = s[i]
       /\ \A y : Contains(Append(s, x), y) <=> Contains(s, y) \/ y = x
  BY <1>5, Appended
<1>11. /\ q \in [Heads -> Seq(Items)]
       /\ q[g] = Append(s, x) /\ \A h \in Heads : h # g => q[h] = w[h]
  BY <1>2, <1>4, <1>10
<1>12. \A y : Holds(q, y) <=> Holds(w, y) \/ y = x
  BY <1>10, <1>11 DEF Holds
<1>13. LinkedOnce(q)
  <2> SUFFICES ASSUME NEW h \in Heads, NEW k \in Heads,
                      NEW i \in 1..Len(q[h]), NEW j \in 1..Len(q[k]), q[h][i] = q[k][j]
               PROVE  h = k /\ i = j
    BY DEF LinkedOnce
  <2>1. \A f \in Heads : \A m \in 1..Len(q[f]) :
            \/ m \in 1..Len(w[f]) /\ q[f][m] = w[f][m] /\ w[f][m] # x
            \/ f = g /\ m = c + 1 /\ q[f][m] = x
    <3> SUFFICES ASSUME NEW f \in Heads, NEW m \in 1..Len(q[f])
                 PROVE  \/ m \in 1..Len(w[f]) /\ q[f][m] = w[f][m] /\ w[f][m] # x
                        \/ f = g /\ m = c + 1 /\ q[f][m] = x
      OBVIOUS
    <3>1. CASE m \in 1..Len(w[f])
      <4>1. w[f][m] # x
        BY <3>1, <1>2, <1>3, HeldAt
      <4>2. q[f][m] = w[f][m]
        <5>1. CASE f = g
          BY <5>1, <3>1, <1>5, <1>10, <1>11
        <5>2. CASE f # g
          BY <5>2, <1>11
        <5> QED BY <5>1, <5>2
      <4> QED BY <3>1, <4>1, <4>2
    <3>2. CASE m \notin 1..Len(w[f])
      BY <3>2, <1>5, <1>10, <1>11
    <3> QED BY <3>1, <3>2
  <2>2. CASE q[h][i] = x
    BY <2>1, <2>2
  <2>3. CASE q[h][i] # x
    <3>1. /\ i \in 1..Len(w[h]) /\ j \in 1..Len(w[k]) /\ w[h][i] = w[k][j]
      BY <2>1, <2>3
    <3> QED BY <3>1, <1>2 DEF LinkedOnce
  <2> QED BY <2>2, <2>3
<1>14. ASSUME NEW h \in Heads, NEW i \in 0..Len(q[h])
       PROVE  /\ v.next[At(h, q[h], i)] = At(h, q[h], i + 1)
              /\ v.prev[At(h, q[h], i + 1)] = At(h, q[h], i)
  \* Away from the end of this list nothing changes.
  <2>1. ASSUME h # g \/ i < c, i \in 0..Len(w[h])
        PROVE  /\ v.next[At(h, w[h], i)] = At(h, w[h], i + 1)
               /\ v.prev[At(h, w[h], i + 1)] = At(h, w[h], i)
    <3>1. i \in Nat /\ i + 1 \in Nat
      BY <2>1
    <3>2. /\ At(h, w[h], i) \in Items \cup Heads /\ At(h, w[h], i) # x
          /\ At(h, w[h], i + 1) \in Items \cup Heads /\ At(h, w[h], i + 1) # x
      BY <3>1, <1>7
    <3>3. At(h, w[h], i) # last
      BY <2>1, <1>2, <1>5, <1>6, OnePlace
    <3>4. At(h, w[h], i + 1) # g
      BY <2>1, <1>2, <1>5, <1>6, OnePlaceBefore
    <3>5. /\ u.next[At(h, w[h], i)] = At(h, w[h], i + 1)
          /\ u.prev[At(h, w[h], i + 1)] = At(h, w[h], i)
      BY <2>1, <1>2 DEF Ring
    <3> QED BY <3>2, <3>3, <3>4, <3>5, <1>2, <1>4 DEF Links
  <2>2. CASE h # g
    BY <2>1, <2>2, <1>11
  <2>3. CASE h = g
    <3>1. /\ \A m \in 0..c : At(g, q[g], m) = At(g, s, m)
          /\ At(g, q[g], c + 1) = x /\ At(g, q[g], c + 2) = g
      BY <1>5, <1>10, <1>11 DEF At
    <3>2. v.next[last] = x /\ v.prev[x] = last /\ v.next[x] = g /\ v.prev[g] = x
      BY <1>2, <1>4, <1>8 DEF Links
    <3>3. i \in 0..(c + 1)
      BY <2>3, <1>10, <1>11
    <3>4. CASE i < c
      <4>1. i \in 0..c /\ i + 1 \in 0..c /\ i \in 0..Len(w[h])
        BY <3>3, <3>4, <1>5, <2>3
      <4> QED BY <4>1, <3>1, <3>4, <2>1, <2>3
    <3>5. CASE i = c
      BY <3>1, <3>2, <3>5, <2>3, <1>5, <1>6
    <3>6. CASE i = c + 1
      <4>1. i + 1 = c + 2
        BY <3>6, <1>5
      <4> QED BY <4>1, <3>1, <3>2, <3>6, <2>3
    <3> QED BY <3>3, <3>4, <3>5, <3>6, <1>5
  <2> QED BY <2>2, <2>3
<1>15. ASSUME NEW y \in Items, ~Holds(q, y) PROVE v.next[y] = Null /\ v.prev[y] = Null
  <2>1. ~Holds(w, y) /\ y # x /\ y \notin Heads
    BY <1>12, <1>15, ItemsAreNoHeads
  <2>2. y # last
    <3>1. CASE c = 0
      BY <3>1, <2>1, <1>5, <1>6, NodeTypes
    <3>2. CASE c # 0
      <4>1. c \in 1..Len(s)
        BY <3>2, <1>5
      <4>2. Holds(w, s[c])
        BY <4>1, <1>2, HeldAt
      <4> QED BY <4>1, <4>2, <2>1, <1>5, <1>6, NodeTypes
    <3> QED BY <3>1, <3>2
  <2> QED BY <2>1, <2>2, <1>2, <1>4 DEF Links
<1>16. Listed(v, q)
  BY <1>9, <1>11, <1>13, <1>14, <1>15, ListedBy
<1> QED BY <1>16 DEF v, q

----------------------------------------------------------------------------
(* The constructor of a list from another.                                 *)

\* Who is in a list afterwards.
LEMMA HeldElsewhere ==
    ASSUME NEW lists \in [Heads -> Seq(Items)], NEW to \in Heads, NEW from \in Heads,
           to # from, lists[to] = <<>>
    PROVE  \A y : Holds(Moved(lists, to, from), y) <=> Holds(lists, y)
<1> DEFINE q == Moved(lists, to, from)
<1>1. /\ q[to] = lists[from] /\ q[from] = <<>>
      /\ \A h \in Heads : h # to /\ h # from => q[h] = lists[h]
  BY DEF Moved
<1> HIDE DEF q
<1>2. \A y : ~Contains(q[from], y) /\ ~Contains(lists[to], y)
  BY <1>1 DEF Contains
<1>3. \A y : Holds(q, y) <=> Holds(lists, y)
  BY <1>1, <1>2 DEF Holds
<1> QED BY <1>3 DEF q

(* A list made from another has the pointers of what that one held, and    *)
(* leaves it empty, without looking at any object but the ends.            *)
THEOREM MovedOver ==
    ASSUME NodesDiffer, NEW l, NEW lists, Listed(l, lists),
           NEW to \in Heads, NEW from \in Heads, to # from, lists[to] = <<>>
    PROVE  Listed(MoveList(l, to, from), Moved(lists, to, from))
<1> DEFINE s == lists[from]
           c == Len(s)
           v == MoveList(l, to, from)
           q == Moved(lists, to, from)
<1>1. /\ l \in Links /\ lists \in [Heads -> Seq(Items)] /\ LinkedOnce(lists)
      /\ \A y \in Items : ~Holds(lists, y) => l.next[y] = Null /\ l.prev[y] = Null
      /\ \A h \in Heads : Ring(l, h, lists[h])
  BY DEF Listed, Agree
<1>2. s \in Seq(Items) /\ c \in Nat
  BY <1>1, LenProperties
<1>3. /\ <<>> \in Seq(Items) /\ Len(<<>>) = 0
  BY EmptySeq
<1>4. /\ q \in [Heads -> Seq(Items)] /\ q[to] = s /\ q[from] = <<>>
      /\ \A h \in Heads : h # to /\ h # from => q[h] = lists[h]
  BY <1>1, <1>2, <1>3 DEF Moved
<1> HIDE DEF q
<1>5. l.next[to] = to /\ l.prev[to] = to
  <2>1. Ring(l, to, <<>>)
    BY <1>1
  <2>2. 0 \in 0..0 /\ 0 \notin 1..0 /\ 0 + 1 \notin 1..0
    OBVIOUS
  <2>3. At(to, <<>>, 0) = to /\ At(to, <<>>, 0 + 1) = to
    BY <1>3, <2>2 DEF At
  <2> QED BY <2>1, <2>2, <2>3, <1>3 DEF Ring
<1>6. CASE s = <<>>
  <2>0. \A h \in Heads : q[h] = lists[h]
    BY <1>4, <1>6
  <2>1. q = lists
    BY <2>0, <1>1, <1>4
  <2>2. EmptyList(l, from)
    BY <1>6, FrontIsHead
  <2>3. v = l
    BY <2>2, <1>1, <1>5 DEF MoveList, Links
  <2>4. Listed(v, q)
    BY <2>1, <2>3
  <2> QED BY <2>4 DEF v, q
<1>7. CASE s # <<>>
  <2>1. ~EmptyList(l, from)
    BY <1>7, FrontIsHead
  <2>2. c # 0 /\ 1 \in 1..c /\ c \in 1..c /\ 0 \in 0..c /\ c \in 0..c
    BY <1>2, <1>7, EmptySeq
  <2>3. s[1] \in Items /\ s[c] \in Items
    BY <2>2, <1>2, ElementOfSeq
  <2>4. l.next[from] = s[1] /\ l.prev[from] = s[c]
    <3>1. l.next[At(from, s, 0)] = At(from, s, 0 + 1) /\ l.prev[At(from, s, c + 1)] = At(from, s, c)
      BY <1>1, <2>2 DEF Ring
    <3>2. At(from, s, 0) = from /\ At(from, s, 0 + 1) = s[1]
      BY <1>2, <2>2 DEF At
    <3>3. At(from, s, c + 1) = from /\ At(from, s, c) = s[c]
      BY <1>2, <2>2 DEF At
    <3> QED BY <3>1, <3>2, <3>3
  <2>5. v = [next |-> [l.next EXCEPT ![to] = s[1], ![from] = from, ![s[c]] = to],
             prev |-> [l.prev EXCEPT ![to] = s[c], ![from] = from, ![s[1]] = to]]
    BY <2>1, <2>4 DEF MoveList
  <2> HIDE DEF v, s
  <2>6. s[1] \notin Heads /\ s[c] \notin Heads
    BY <2>3, ItemsAreNoHeads
  <2>7. v \in Links
    BY <1>1, <2>3, <2>5 DEF Links
  <2>8. /\ v.next[to] = s[1] /\ v.prev[to] = s[c]
        /\ v.next[s[c]] = to /\ v.prev[s[1]] = to
        /\ v.next[from] = from /\ v.prev[from] = from
    BY <1>1, <2>3, <2>5, <2>6 DEF Links
  <2>9. \A y : Holds(q, y) <=> Holds(lists, y)
    BY <1>1, HeldElsewhere DEF q
  <2>10. LinkedOnce(q)
    <3> SUFFICES ASSUME NEW h \in Heads, NEW k \in Heads,
                        NEW i \in 1..Len(q[h]), NEW j \in 1..Len(q[k]), q[h][i] = q[k][j]
                 PROVE  h = k /\ i = j
      BY DEF LinkedOnce
    <3> DEFINE was(f) == IF f = to THEN from ELSE f
    <3>1. h # from /\ k # from
      BY <1>3, <1>4
    <3>2. q[h] = lists[was(h)] /\ q[k] = lists[was(k)] /\ was(h) \in Heads /\ was(k) \in Heads
      BY <3>1, <1>4 DEF s
    <3>3. ASSUME NEW f \in Heads, NEW g \in Heads, q[h] = lists[f], q[k] = lists[g]
          PROVE  f = g /\ i = j
      <4>1. i \in 1..Len(lists[f]) /\ j \in 1..Len(lists[g]) /\ lists[f][i] = lists[g][j]
        BY <3>3
      <4>2. LinkedOnce(lists)
        BY <1>1
      <4> HIDE DEF q
      <4> QED BY <4>1, <4>2 DEF LinkedOnce
    <3>4. was(h) = was(k) /\ i = j
      BY <3>2, <3>3
    <3> QED BY <3>1, <3>4
  <2>11. ASSUME NEW h \in Heads, NEW i \in 0..Len(q[h])
         PROVE  /\ v.next[At(h, q[h], i)] = At(h, q[h], i + 1)
                /\ v.prev[At(h, q[h], i + 1)] = At(h, q[h], i)
    <3>1. CASE h = from
      <4>1. i = 0 /\ At(h, q[h], 0) = from /\ At(h, q[h], 0 + 1) = from
        BY <3>1, <1>3, <1>4 DEF At
      <4> QED BY <4>1, <2>8
    <3>2. CASE h = to
      <4>1. /\ i \in 0..c
            /\ \A m \in 1..c : At(h, q[h], m) = s[m] /\ At(from, s, m) = s[m]
            /\ At(h, q[h], 0) = to /\ At(h, q[h], c + 1) = to
        BY <3>2, <1>2, <1>4 DEF At
      <4>2. CASE i = 0
        BY <4>1, <4>2, <2>2, <2>8
      <4>3. ASSUME i # 0, i # c
            PROVE  v.next[s[i]] = s[i + 1] /\ v.prev[s[i + 1]] = s[i]
        <5>1. i \in 1..c /\ i + 1 \in 1..c /\ i \in 0..Len(s)
          BY <4>1, <4>3, <1>2
        <5>2. l.next[s[i]] = s[i + 1] /\ l.prev[s[i + 1]] = s[i]
          BY <5>1, <4>1, <1>1 DEF Ring, s
        <5>3. s[i] \in Items /\ s[i + 1] \in Items
          BY <5>1, <1>2, ElementOfSeq
        <5>4. s[i] \notin Heads /\ s[i + 1] \notin Heads
          BY <5>3, ItemsAreNoHeads
        <5>5. s[i] # s[c] /\ s[i + 1] # s[1]
          BY <5>1, <2>2, <4>3, <1>1, <1>2 DEF LinkedOnce, s
        <5> QED BY <5>2, <5>3, <5>4, <5>5, <2>3, <2>5, <1>1 DEF Links
      <4>4. CASE i # 0 /\ i # c
        <5>1. i \in 1..c /\ i + 1 \in 1..c
          BY <4>1, <4>4, <1>2
        <5> QED BY <5>1, <4>1, <4>3, <4>4
      <4>5. CASE i = c
        BY <4>1, <4>5, <2>2, <2>8
      <4> QED BY <4>2, <4>4, <4>5
    <3>3. CASE h # from /\ h # to
      <4>1. q[h] = lists[h] /\ i \in 0..Len(lists[h]) /\ i \in Nat /\ i + 1 \in Nat
        BY <3>3, <1>4
      <4>2. lists[h] \in Seq(Items)
        BY <1>1
      <4>3. /\ l.next[At(h, lists[h], i)] = At(h, lists[h], i + 1)
            /\ l.prev[At(h, lists[h], i + 1)] = At(h, lists[h], i)
        BY <4>1, <1>1 DEF Ring
      <4>4. \A m \in Nat : /\ At(h, lists[h], m) \in Items \cup Heads
                           /\ At(h, lists[h], m) \notin {to, from, s[1], s[c]}
        <5> SUFFICES ASSUME NEW m \in Nat
                     PROVE  /\ At(h, lists[h], m) \in Items \cup Heads
                            /\ At(h, lists[h], m) \notin {to, from, s[1], s[c]}
          OBVIOUS
        <5>1. CASE m \in 1..Len(lists[h])
          <6>1. At(h, lists[h], m) = lists[h][m] /\ lists[h][m] \in Items
            BY <5>1, <4>2, NodeTypes
          <6>2. lists[h][m] # s[1] /\ lists[h][m] # s[c]
            BY <5>1, <3>3, <2>2, <1>1 DEF LinkedOnce, s
          <6> QED BY <6>1, <6>2, ItemsAreNoHeads
        <5>2. CASE m \notin 1..Len(lists[h])
          BY <5>2, <4>2, <3>3, <2>6, NodeTypes
        <5> QED BY <5>1, <5>2
      <4> QED BY <4>1, <4>3, <4>4, <2>3, <2>5, <1>1 DEF Links
    <3> QED BY <3>1, <3>2, <3>3
  <2>12. ASSUME NEW y \in Items, ~Holds(q, y) PROVE v.next[y] = Null /\ v.prev[y] = Null
    <3>1. ~Holds(lists, y) /\ y \notin Heads
      BY <2>9, <2>12, ItemsAreNoHeads
    <3>2. y # s[1] /\ y # s[c]
      BY <3>1, <2>2, <1>1, HeldAt DEF s
    <3> QED BY <3>1, <3>2, <2>3, <2>5, <1>1 DEF Links
  <2>13. Listed(v, q)
    BY <1>4, <2>7, <2>10, <2>11, <2>12, ListedBy
  <2> QED BY <2>13 DEF v, q
<1> QED BY <1>6, <1>7
=============================================================================
