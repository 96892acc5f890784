-------------------------- MODULE ParkingLotProofs --------------------------
(***************************************************************************)
(* The executors of a thread, and the two classes that keep those who wait *)
(* in a ParkingLot and resume them through it.  Semaphore: permits are     *)
(* conserved, none lies idle, and the waiters get them in the order they   *)
(* came, for any number of tasks and permits, where nobody acquires between*)
(* the wake-up of a waiter and its turn (~Barging).  Value: nobody who    *)
(* was shown the value it has is left waiting for it, and everybody gets a *)
(* value he accepted, for any number of tasks, any values and predicates.  Executors:     *)
(* nothing submitted is left behind, for any number of them and of event   *)
(* loops and any nesting of calls.                                         *)
(***************************************************************************)
EXTENDS Semaphore, ValueState, ExecutorsState, IntrusiveListProofs, FiniteSetTheorems, TLAPS

\* The operations of Value, on what ValueState keeps.
V == INSTANCE Value

\* Those of the executors, on what ExecutorsState keeps.
E == INSTANCE Executors

\* No task is linked twice, in either list or in both, or holds meanwhile.
LineSound ==
    /\ \A i, j \in 1..Len(parked) : parked[i] = parked[j] => i = j
    /\ \A i, j \in 1..Len(woken) : woken[i] = woken[j] => i = j
    /\ \A t \in Task : Contains(parked, t) => ~Contains(woken, t)
    /\ \A t \in holders : ~Contains(parked, t) /\ ~Contains(woken, t)

Typed ==
    /\ value \in 0..(Modulus - 1)
    /\ parked \in Seq(Task) /\ woken \in Seq(Task)
    /\ holders \in SUBSET Task

\* There is a permit for everybody who is woken, and no more if somebody is
\* parked besides.
PermitsOnTheWay ==
    /\ value + Cardinality(holders) = Initial
    /\ Len(woken) <= value
    /\ parked # <<>> => value = Len(woken)

IndInv == Typed /\ LineSound /\ PermitsOnTheWay

----------------------------------------------------------------------------
(* What holders, its size and the counter have to do with each other.      *)

LEMMA Counted ==
    ASSUME IndInv
    PROVE  /\ IsFiniteSet(holders) /\ Cardinality(holders) \in Nat
           /\ value \in Nat /\ Initial \in Nat /\ Modulus \in Nat
           /\ value <= Initial /\ Initial < Modulus
           /\ Len(woken) \in Nat /\ Len(parked) \in Nat
<1>1. IsFiniteSet(Task) /\ holders \subseteq Task
  BY SemaphoreAssumption DEF IndInv, Typed
<1>2. IsFiniteSet(holders) /\ Cardinality(holders) \in Nat
  BY <1>1, FS_Subset, FS_CardinalityType
<1>3. value \in Nat /\ Initial \in Nat /\ Modulus \in Nat /\ Initial < Modulus
  BY SemaphoreAssumption DEF IndInv, Typed
<1>4. Len(woken) \in Nat /\ Len(parked) \in Nat
  BY DEF IndInv, Typed
<1> QED
  BY <1>2, <1>3, <1>4 DEF IndInv, PermitsOnTheWay

\* Arithmetic that stays below the modulus is that of numbers.
LEMMA Wrapped ==
    ASSUME NEW v \in Nat, v < Modulus
    PROVE  Wrap(v) = v
BY SemaphoreAssumption DEF Wrap

\* Who is out is on neither list.
LEMMA OutOfBoth ==
    ASSUME IndInv, NEW t \in Task, Out(t)
    PROVE  ~Contains(parked, t) /\ ~Contains(woken, t) /\ t \notin holders
<1>1. parked \in Seq(Task) /\ woken \in Seq(Task)
  BY DEF IndInv, Typed
<1>2. ~Contains(woken, t)
  <2>1. SUFFICES ASSUME NEW i \in 1..Len(woken), woken[i] = t PROVE FALSE
    BY DEF Contains
  <2>2. i \in 1..Len(Line) /\ Line[i] = t
    BY <1>1, <2>1 DEF Line
  <2> QED
    BY <2>2 DEF Out, Contains
<1>3. ~Contains(parked, t)
  <2>1. SUFFICES ASSUME NEW i \in 1..Len(parked), parked[i] = t PROVE FALSE
    BY DEF Contains
  <2>2. Len(woken) + i \in 1..Len(Line) /\ Line[Len(woken) + i] = t
    BY <1>1, <2>1 DEF Line
  <2> QED
    BY <2>2 DEF Out, Contains
<1> QED
  BY <1>2, <1>3 DEF Out

LEMMA InitInd == Init => IndInv
<1> SUFFICES ASSUME Init PROVE IndInv
  OBVIOUS
<1>1. Typed
  BY SemaphoreAssumption DEF Init, Typed
<1>2. LineSound
  BY DEF Init, LineSound, Contains
<1>3. PermitsOnTheWay
  BY SemaphoreAssumption, FS_EmptySet DEF Init, PermitsOnTheWay
<1> QED
  BY <1>1, <1>2, <1>3 DEF IndInv

----------------------------------------------------------------------------
(* One lemma per action.                                                   *)

LEMMA AcquireNowInd ==
    ASSUME IndInv, ~Barging, NEW t \in Task, AcquireNow(t)
    PROVE  IndInv'
<1>1. woken = <<>> /\ value > 0 /\ Out(t)
  BY DEF AcquireNow, AwaitReady
<1>2. parked = <<>>
  BY <1>1, Counted DEF IndInv, PermitsOnTheWay
<1>3. value' = value - 1 /\ value' \in Nat
  <2>1. value - 1 \in Nat /\ value - 1 < Modulus
    BY <1>1, Counted
  <2> QED
    BY <2>1, Wrapped DEF AcquireNow
<1>4. Cardinality(holders') = Cardinality(holders) + 1
  BY <1>1, Counted, FS_AddElement DEF AcquireNow, Out
<1>5. Typed'
  BY <1>3, Counted DEF IndInv, Typed, AcquireNow
<1>6. LineSound'
  BY <1>1, <1>2 DEF LineSound, AcquireNow, Contains
<1>7. PermitsOnTheWay'
  BY <1>1, <1>2, <1>3, <1>4, Counted DEF IndInv, PermitsOnTheWay, AcquireNow
<1> QED
  BY <1>5, <1>6, <1>7 DEF IndInv

LEMMA ParkInd ==
    ASSUME IndInv, NEW t \in Task, Park(t)
    PROVE  IndInv'
<1>1. /\ parked \in Seq(Task) /\ ~Contains(parked, t) /\ ~Contains(woken, t)
      /\ t \notin holders
  BY OutOfBoth DEF IndInv, Typed, Park
<1>2. /\ parked' = Append(parked, t)
      /\ UNCHANGED <<value, woken, holders>>
  BY DEF Park
<1>3. value = 0 /\ Len(woken) = 0
  BY Counted DEF Park, AwaitReady, IndInv, PermitsOnTheWay
<1>4. Typed'
  BY <1>2 DEF IndInv, Typed
<1>5. LineSound'
  <2>1. \A y : Contains(parked', y) <=> Contains(parked, y) \/ y = t
    BY <1>1, <1>2, Appended
  <2>2. \A i, j \in 1..Len(parked') : parked'[i] = parked'[j] => i = j
    <3>1. /\ Len(parked') = Len(parked) + 1 /\ Len(parked) \in Nat
          /\ parked'[Len(parked) + 1] = t
          /\ \A i \in 1..Len(parked) : parked'[i] = parked[i] /\ parked[i] # t
      BY <1>1, <1>2, Appended DEF Contains
    <3> QED
      BY <3>1 DEF IndInv, LineSound
  <2> QED
    BY <1>1, <1>2, <2>1, <2>2 DEF IndInv, LineSound
<1>6. PermitsOnTheWay'
  BY <1>2, <1>3 DEF IndInv, PermitsOnTheWay
<1> QED
  BY <1>4, <1>5, <1>6 DEF IndInv

LEMMA ReleaseInd ==
    ASSUME IndInv, NEW t \in Task, Release(t)
    PROVE  IndInv'
<1>1. /\ parked \in Seq(Task) /\ woken \in Seq(Task)
      /\ holders' = holders \ {t} /\ t \in holders
  BY DEF IndInv, Typed, Release
<1>2. Cardinality(holders') = Cardinality(holders) - 1
  BY <1>1, Counted, FS_RemoveElement
<1>3. value' = value + 1 /\ value + 1 < Modulus
  <2>1. Cardinality(holders) >= 1
    BY <1>1, Counted, FS_EmptySet
  <2>2. value + 1 \in Nat /\ value + 1 <= Initial
    BY <2>1, Counted DEF IndInv, PermitsOnTheWay
  <2> QED
    BY <2>2, Counted, Wrapped DEF Release
<1>4. CASE parked = <<>>
  <2>1. parked' = parked /\ woken' = woken
    BY <1>4 DEF Release, UnparkOne
  <2>2. Typed' /\ LineSound'
    BY <1>1, <1>3, <2>1, Counted DEF IndInv, Typed, LineSound
  <2>3. PermitsOnTheWay'
    BY <1>2, <1>3, <1>4, <2>1, Counted DEF IndInv, PermitsOnTheWay
  <2> QED
    BY <2>2, <2>3 DEF IndInv
<1>5. CASE parked # <<>>
  <2>1. parked' = Tail(parked) /\ woken' = Append(woken, Head(parked))
    BY <1>5 DEF Release, UnparkOne
  <2>2. Head(parked) \in Task
    BY <1>1, <1>5
  <2>3. Typed'
    BY <1>1, <1>3, <2>1, <2>2, <1>5, Popped, Counted DEF IndInv, Typed
  <2>4. LineSound'
    <3>1. /\ \A y : Contains(parked, y) <=> Contains(parked', y) \/ y = Head(parked)
          /\ Head(parked) = parked[1] /\ 1 \in 1..Len(parked)
          /\ \A i \in 1..Len(parked') : i + 1 \in 1..Len(parked)
                                         /\ parked'[i] = parked[i + 1]
          /\ Len(parked') = Len(parked) - 1 /\ Len(parked) \in Nat
      BY <1>1, <1>5, <2>1, Popped
    <3>2. /\ \A y : Contains(woken', y) <=> Contains(woken, y) \/ y = Head(parked)
          /\ Len(woken') = Len(woken) + 1 /\ Len(woken) \in Nat
          /\ woken'[Len(woken) + 1] = Head(parked)
          /\ \A i \in 1..Len(woken) : woken'[i] = woken[i]
      BY <1>1, <2>1, <2>2, Appended
    <3>3. Contains(parked, Head(parked)) /\ ~Contains(parked', Head(parked))
      BY <3>1 DEF IndInv, LineSound, Contains
    <3>4. \A i \in 1..Len(woken) : woken[i] # Head(parked)
      BY <3>3, <2>2 DEF IndInv, LineSound, Contains
    <3>5. \A i, j \in 1..Len(parked') : parked'[i] = parked'[j] => i = j
      BY <3>1 DEF IndInv, LineSound
    <3>6. \A i, j \in 1..Len(woken') : woken'[i] = woken'[j] => i = j
      BY <3>2, <3>4 DEF IndInv, LineSound
    <3>7. \A u \in Task : Contains(parked', u) => ~Contains(woken', u)
      BY <3>1, <3>2, <3>3 DEF IndInv, LineSound
    <3>8. \A u \in holders' : ~Contains(parked', u) /\ ~Contains(woken', u)
      BY <1>1, <3>1, <3>2, <3>3 DEF IndInv, LineSound
    <3> QED
      BY <3>5, <3>6, <3>7, <3>8 DEF LineSound
  <2>5. PermitsOnTheWay'
    <3>1. Len(woken') = Len(woken) + 1
      BY <1>1, <2>1, <2>2, Appended
    <3> QED
      BY <1>2, <1>3, <1>5, <3>1, Counted DEF IndInv, PermitsOnTheWay
  <2> QED
    BY <2>3, <2>4, <2>5 DEF IndInv
<1> QED
  BY <1>4, <1>5

LEMMA ResumeWaiterInd ==
    ASSUME IndInv, ResumeWaiter
    PROVE  IndInv'
<1> DEFINE t == Head(woken)
<1>1. /\ woken \in Seq(Task) /\ woken # <<>> /\ woken' = Tail(woken)
      /\ holders' = holders \cup {t} /\ parked' = parked
  BY DEF IndInv, Typed, ResumeWaiter
<1>2. /\ \A y : Contains(woken, y) <=> Contains(woken', y) \/ y = t
      /\ t = woken[1] /\ 1 \in 1..Len(woken)
      /\ \A i \in 1..Len(woken') : i + 1 \in 1..Len(woken)
                                     /\ woken'[i] = woken[i + 1]
      /\ Len(woken') = Len(woken) - 1 /\ Len(woken) \in Nat
      /\ woken' \in Seq(Task)
  BY <1>1, Popped
<1>3. t \in Task /\ t \notin holders /\ ~Contains(parked, t)
  BY <1>1, <1>2 DEF IndInv, LineSound
<1>4. ~Contains(woken', t)
  BY <1>2 DEF IndInv, LineSound, Contains
<1>5. Cardinality(holders') = Cardinality(holders) + 1
  BY <1>1, <1>3, Counted, FS_AddElement
<1>6. value' = value - 1 /\ value - 1 \in Nat
  <2>1. value - 1 \in Nat /\ value - 1 < Modulus
    BY <1>2, Counted DEF IndInv, PermitsOnTheWay
  <2> QED
    BY <2>1, Wrapped DEF ResumeWaiter
<1>7. Typed'
  BY <1>1, <1>2, <1>3, <1>6, Counted DEF IndInv, Typed
<1>8. LineSound'
  <2>1. \A i, j \in 1..Len(woken') : woken'[i] = woken'[j] => i = j
    BY <1>2 DEF IndInv, LineSound
  <2> QED
    BY <1>1, <1>2, <1>3, <1>4, <2>1 DEF IndInv, LineSound
<1>9. PermitsOnTheWay'
  BY <1>1, <1>2, <1>5, <1>6, Counted DEF IndInv, PermitsOnTheWay
<1> QED
  BY <1>7, <1>8, <1>9 DEF IndInv

LEMMA CancelInd ==
    ASSUME IndInv, NEW t \in Task, Cancel(t)
    PROVE  IndInv'
<1>1. /\ parked \in Seq(Task) /\ Contains(parked, t)
      /\ parked' = Unlink(parked, t) /\ UNCHANGED <<value, woken, holders>>
  BY DEF IndInv, Typed, Cancel
<1>2. parked' \in Seq(Task)
  BY <1>1, UnlinkType
<1>3. /\ \A y : Contains(parked', y) <=> Contains(parked, y) /\ y # t
      /\ \A i, j \in 1..Len(parked') : parked'[i] = parked'[j] => i = j
  BY <1>1, UnlinkDistinct DEF IndInv, LineSound
<1>4. Typed'
  BY <1>1, <1>2 DEF IndInv, Typed
<1>5. LineSound'
  BY <1>1, <1>3 DEF IndInv, LineSound
<1>6. PermitsOnTheWay'
  <2>1. parked # <<>>
    BY <1>1 DEF Contains
  <2> QED
    BY <1>1, <2>1 DEF IndInv, PermitsOnTheWay
<1> QED
  BY <1>4, <1>5, <1>6 DEF IndInv

LEMMA StepInd == ASSUME ~Barging PROVE IndInv /\ [Next]_vars => IndInv'
<1> SUFFICES ASSUME IndInv, [Next]_vars PROVE IndInv'
  OBVIOUS
<1>1. CASE UNCHANGED vars
  BY <1>1 DEF IndInv, Typed, LineSound, PermitsOnTheWay, vars
<1>2. CASE \E t \in Task : AcquireNow(t) \/ Park(t) \/ Release(t) \/ Cancel(t)
  BY <1>2, AcquireNowInd, ParkInd, ReleaseInd, CancelInd
<1>3. CASE ResumeWaiter
  BY <1>3, ResumeWaiterInd
<1> QED
  BY <1>1, <1>2, <1>3 DEF Next

LEMMA Inductive == ASSUME ~Barging PROVE Spec => []IndInv
BY InitInd, StepInd, PTL DEF Spec

----------------------------------------------------------------------------
\* However tasks lock, release, wait and are cancelled, permits are neither
\* lost nor made up, and no more tasks hold the semaphore than it has permits
\* (Semaphore.h:98, against :57), if a woken waiter's turn comes first.
THEOREM PermitsKept == ASSUME ~Barging PROVE Spec => []Permits
<1>1. IndInv => Permits
  BY Counted DEF IndInv, PermitsOnTheWay, Permits
<1> QED
  BY <1>1, Inductive, PTL

\* No permit lies idle beside a parked waiter: release() has woken one waiter
\* for each permit there is, and their cancellation changes nothing of that.
THEOREM PermitsUsed == ASSUME ~Barging PROVE Spec => []NoIdlePermit
<1>1. IndInv => NoIdlePermit
  BY DEF IndInv, PermitsOnTheWay, NoIdlePermit
<1> QED
  BY <1>1, Inductive, PTL

----------------------------------------------------------------------------
(* The order in which waiters are served.                                  *)

\* Taking an object out of a list changes no order.
LEMMA UnlinkOrder ==
    ASSUME NEW S, NEW s \in Seq(S), NEW x, Contains(s, x),
           NEW t, NEW u, Ahead(Unlink(s, x), u, t)
    PROVE  Ahead(s, u, t)
<1> DEFINE k == Position(s, x)
           f(m) == IF m < k THEN m ELSE m + 1
<1>1. /\ k \in 1..Len(s) /\ Len(Unlink(s, x)) = Len(s) - 1 /\ Len(s) \in Nat
      /\ \A j \in 1..(Len(s) - 1) : Unlink(s, x)[j] = IF j < k THEN s[j] ELSE s[j + 1]
  BY UnlinkItems, LenProperties
<1>2. PICK i, j \in 1..(Len(s) - 1) :
        i < j /\ Unlink(s, x)[i] = u /\ Unlink(s, x)[j] = t
  BY <1>1 DEF Ahead
<1> HIDE DEF k
<1>3. /\ f(i) \in 1..Len(s) /\ f(j) \in 1..Len(s) /\ f(i) < f(j)
      /\ s[f(i)] = u /\ s[f(j)] = t
  BY <1>1, <1>2
<1> QED
  BY <1>3 DEF Ahead

\* The items of two lists, one after the other.
LEMMA LineItems ==
    ASSUME NEW r \in Seq(Task), NEW s \in Seq(Task)
    PROVE  /\ Len(r) \in Nat /\ Len(s) \in Nat
           /\ Len(r \o s) = Len(r) + Len(s)
           /\ \A i \in 1..Len(r) : (r \o s)[i] = r[i]
           /\ \A i \in 1..Len(s) : (r \o s)[Len(r) + i] = s[i]
<1>1. /\ Len(r) \in Nat /\ Len(s) \in Nat
      /\ Len(r \o s) = Len(r) + Len(s)
      /\ \A i \in 1..(Len(r) + Len(s)) :
            (r \o s)[i] = IF i <= Len(r) THEN r[i] ELSE s[i - Len(r)]
  BY ConcatProperties, LenProperties
<1>2. ASSUME NEW i \in 1..Len(r) PROVE (r \o s)[i] = r[i]
  <2>1. i \in 1..(Len(r) + Len(s)) /\ i <= Len(r)
    BY <1>1
  <2> QED BY <1>1, <2>1
<1>3. ASSUME NEW i \in 1..Len(s) PROVE (r \o s)[Len(r) + i] = s[i]
  <2>1. /\ Len(r) + i \in 1..(Len(r) + Len(s)) /\ ~(Len(r) + i <= Len(r))
        /\ (Len(r) + i) - Len(r) = i
    BY <1>1
  <2> QED BY <1>1, <2>1
<1> QED BY <1>1, <1>2, <1>3

\* The oldest of one list at the end of another.
LEMMA HeadMovesOver ==
    ASSUME NEW r \in Seq(Task), NEW s \in Seq(Task), s # <<>>
    PROVE  Append(r, Head(s)) \o Tail(s) = r \o s
OBVIOUS

\* Who is ahead in one list after another.
LEMMA AheadInBoth ==
    ASSUME NEW r \in Seq(Task), NEW s \in Seq(Task), NEW t \in Task, NEW u \in Task
    PROVE  Ahead(r \o s, u, t) <=>
                \/ Ahead(r, u, t) \/ Ahead(s, u, t)
                \/ Contains(r, u) /\ Contains(s, t)
<1>1. ASSUME Ahead(r \o s, u, t)
      PROVE  Ahead(r, u, t) \/ Ahead(s, u, t) \/ (Contains(r, u) /\ Contains(s, t))
  <2>1. PICK i, j \in 1..(Len(r) + Len(s)) :
            i < j /\ (r \o s)[i] = u /\ (r \o s)[j] = t
    BY <1>1, LineItems DEF Ahead
  <2>2. CASE j <= Len(r)
    <3>1. i \in 1..Len(r) /\ j \in 1..Len(r) /\ r[i] = u /\ r[j] = t
      BY <2>1, <2>2, LineItems
    <3> QED BY <2>1, <3>1 DEF Ahead
  <2>3. CASE i > Len(r)
    <3>1. /\ i - Len(r) \in 1..Len(s) /\ j - Len(r) \in 1..Len(s)
          /\ i - Len(r) < j - Len(r)
          /\ Len(r) + (i - Len(r)) = i /\ Len(r) + (j - Len(r)) = j
      BY <2>1, <2>3, LineItems
    <3>2. s[i - Len(r)] = u /\ s[j - Len(r)] = t
      BY <2>1, <3>1, LineItems
    <3> QED BY <3>1, <3>2 DEF Ahead
  <2>4. CASE i <= Len(r) /\ j > Len(r)
    <3>1. /\ i \in 1..Len(r) /\ j - Len(r) \in 1..Len(s) /\ Len(r) + (j - Len(r)) = j
      BY <2>1, <2>4, LineItems
    <3>2. r[i] = u /\ s[j - Len(r)] = t
      BY <2>1, <3>1, LineItems
    <3> QED BY <3>1, <3>2 DEF Contains
  <2> QED BY <2>1, <2>2, <2>3, <2>4, LineItems
<1>2. ASSUME Ahead(r, u, t) PROVE Ahead(r \o s, u, t)
  <2>1. PICK i, j \in 1..Len(r) : i < j /\ r[i] = u /\ r[j] = t
    BY <1>2 DEF Ahead
  <2>2. /\ i \in 1..Len(r \o s) /\ j \in 1..Len(r \o s)
        /\ (r \o s)[i] = u /\ (r \o s)[j] = t
    BY <2>1, LineItems
  <2> QED BY <2>1, <2>2 DEF Ahead
<1>3. ASSUME Ahead(s, u, t) PROVE Ahead(r \o s, u, t)
  <2>1. PICK i, j \in 1..Len(s) : i < j /\ s[i] = u /\ s[j] = t
    BY <1>3 DEF Ahead
  <2>2. /\ Len(r) + i \in 1..Len(r \o s) /\ Len(r) + j \in 1..Len(r \o s)
        /\ Len(r) + i < Len(r) + j
    BY <2>1, LineItems
  <2>3. (r \o s)[Len(r) + i] = u /\ (r \o s)[Len(r) + j] = t
    BY <2>1, LineItems
  <2> QED BY <2>2, <2>3 DEF Ahead
<1>4. ASSUME Contains(r, u), Contains(s, t) PROVE Ahead(r \o s, u, t)
  <2>1. PICK i \in 1..Len(r) : r[i] = u
    BY <1>4 DEF Contains
  <2>2. PICK j \in 1..Len(s) : s[j] = t
    BY <1>4 DEF Contains
  <2>3. /\ i \in 1..Len(r \o s) /\ Len(r) + j \in 1..Len(r \o s) /\ i < Len(r) + j
        /\ (r \o s)[i] = u /\ (r \o s)[Len(r) + j] = t
    BY <2>1, <2>2, LineItems
  <2> QED BY <2>3 DEF Ahead
<1> QED BY <1>1, <1>2, <1>3, <1>4

\* Who is in one of two lists, one after the other.
LEMMA InBoth ==
    ASSUME NEW r \in Seq(Task), NEW s \in Seq(Task), NEW t
    PROVE  Contains(r \o s, t) <=> Contains(r, t) \/ Contains(s, t)
<1>1. ASSUME Contains(r \o s, t) PROVE Contains(r, t) \/ Contains(s, t)
  <2>1. PICK i \in 1..(Len(r) + Len(s)) : (r \o s)[i] = t
    BY <1>1, LineItems DEF Contains
  <2>2. CASE i <= Len(r)
    BY <2>1, <2>2, LineItems DEF Contains
  <2>3. CASE i > Len(r)
    <3>1. i - Len(r) \in 1..Len(s) /\ Len(r) + (i - Len(r)) = i
      BY <2>1, <2>3, LineItems
    <3> QED BY <2>1, <3>1, LineItems DEF Contains
  <2> QED BY <2>1, <2>2, <2>3, LineItems
<1>2. ASSUME NEW i \in 1..Len(r), r[i] = t PROVE Contains(r \o s, t)
  <2>1. i \in 1..Len(r \o s) /\ (r \o s)[i] = t
    BY <1>2, LineItems
  <2> QED BY <2>1 DEF Contains
<1>3. ASSUME NEW i \in 1..Len(s), s[i] = t PROVE Contains(r \o s, t)
  <2>1. Len(r) + i \in 1..Len(r \o s) /\ (r \o s)[Len(r) + i] = t
    BY <1>3, LineItems
  <2> QED BY <2>1 DEF Contains
<1> QED BY <1>1, <1>2, <1>3 DEF Contains

\* Nobody passes a waiter t in a step of the semaphore.
LEMMA NobodyPasses ==
    ASSUME IndInv, ~Barging, [Next]_vars, NEW t \in Task, NEW u \in Task,
           Contains(Line, t), Ahead(Line', u, t)
    PROVE  Ahead(Line, u, t)
<1>1. parked \in Seq(Task) /\ woken \in Seq(Task)
  BY DEF IndInv, Typed
<1>2. CASE UNCHANGED <<parked, woken>>
  BY <1>2 DEF Line
<1>3. CASE \E p \in Task : Park(p)
  <2>1. PICK p \in Task : Park(p)
    BY <1>3
  <2>2. /\ parked' = Append(parked, p) /\ woken' = woken
        /\ ~Contains(parked, p) /\ ~Contains(woken, p)
    BY <2>1, OutOfBoth DEF Park
  <2>3. /\ parked' \in Seq(Task) /\ Len(parked') = Len(parked) + 1 /\ Len(parked) \in Nat
        /\ parked'[Len(parked) + 1] = p
        /\ \A i \in 1..Len(parked) : parked'[i] = parked[i]
        /\ \A y : Contains(parked', y) <=> Contains(parked, y) \/ y = p
    BY <1>1, <2>2, Appended
  <2>4. t # p
    BY <1>1, <2>2, InBoth DEF Line
  <2>5. ASSUME Ahead(parked', u, t) PROVE Ahead(parked, u, t)
    <3>1. PICK i, j \in 1..(Len(parked) + 1) :
            i < j /\ parked'[i] = u /\ parked'[j] = t
      BY <2>3, <2>5 DEF Ahead
    <3>2. i \in 1..Len(parked) /\ j \in 1..Len(parked)
      BY <2>3, <2>4, <3>1
    <3> QED BY <2>3, <3>1, <3>2 DEF Ahead
  <2> QED BY <1>1, <2>2, <2>3, <2>4, <2>5, AheadInBoth DEF Line
<1>4. CASE parked # <<>> /\ \E p \in Task : Release(p)
  <2>1. parked' = Tail(parked) /\ woken' = Append(woken, Head(parked))
    BY <1>4 DEF Release, UnparkOne
  <2>2. Line' = Line
    BY <1>1, <1>4, <2>1, HeadMovesOver DEF Line
  <2> QED BY <2>2
<1>5. CASE ResumeWaiter
  <2>1. woken # <<>> /\ woken' = Tail(woken) /\ parked' = parked
    BY <1>5 DEF ResumeWaiter
  <2>2. /\ woken' \in Seq(Task) /\ Len(woken) \in Nat /\ Len(woken') = Len(woken) - 1
        /\ \A i \in 1..Len(woken') : i + 1 \in 1..Len(woken) /\ woken'[i] = woken[i + 1]
        /\ \A y : Contains(woken, y) <=> Contains(woken', y) \/ y = Head(woken)
    BY <1>1, <2>1, Popped
  <2>3. ASSUME Ahead(woken', u, t) PROVE Ahead(woken, u, t)
    <3>1. PICK i, j \in 1..Len(woken') : i < j /\ woken'[i] = u /\ woken'[j] = t
      BY <2>3 DEF Ahead
    <3>2. /\ i + 1 \in 1..Len(woken) /\ j + 1 \in 1..Len(woken) /\ i + 1 < j + 1
          /\ woken[i + 1] = u /\ woken[j + 1] = t
      BY <2>2, <3>1
    <3> QED BY <3>2 DEF Ahead
  <2> QED BY <1>1, <2>1, <2>2, <2>3, AheadInBoth DEF Line
<1>6. CASE \E p \in Task : Cancel(p)
  <2>1. PICK p \in Task : Contains(parked, p) /\ parked' = Unlink(parked, p) /\ woken' = woken
    BY <1>6 DEF Cancel
  <2>2. parked' \in Seq(Task)
    BY <1>1, <2>1, UnlinkType
  <2>3. Ahead(parked', u, t) => Ahead(parked, u, t)
    BY <1>1, <2>1, UnlinkOrder
  <2>4. Contains(parked', t) => Contains(parked, t)
    BY <1>1, <2>1, UnlinkDistinct DEF IndInv, LineSound
  <2> QED BY <1>1, <2>1, <2>2, <2>3, <2>4, AheadInBoth DEF Line
<1> QED
  BY <1>2, <1>3, <1>4, <1>5, <1>6 DEF Next, vars, AcquireNow, Release, UnparkOne

\* Only the first of those who wait gets the semaphore.
LEMMA FirstIsServed ==
    ASSUME IndInv, ~Barging, [Next]_vars, Line # <<>>
    PROVE  holders' \ holders \subseteq {Head(Line)}
<1>1. parked \in Seq(Task) /\ woken \in Seq(Task)
  BY DEF IndInv, Typed
<1>2. CASE ResumeWaiter
  <2>1. woken # <<>> /\ holders' = holders \cup {Head(woken)}
    BY <1>2 DEF ResumeWaiter
  <2>2. 1 \in 1..Len(woken) /\ Head(woken) = woken[1]
    BY <1>1, <2>1, Popped
  <2>3. Line[1] = woken[1]
    BY <1>1, <2>2, LineItems DEF Line
  <2> QED BY <2>1, <2>2, <2>3
<1>3. ASSUME NEW t \in Task, AcquireNow(t) PROVE FALSE
  <2>1. woken = <<>> /\ value > 0
    BY <1>3 DEF AcquireNow, AwaitReady
  <2>2. parked = <<>>
    BY <2>1, Counted DEF IndInv, PermitsOnTheWay
  <2> QED BY <2>1, <2>2 DEF Line
<1>4. CASE UNCHANGED holders \/ \E t \in Task : holders' = holders \ {t}
  BY <1>4
<1> QED
  BY <1>2, <1>3, <1>4 DEF Next, vars, Park, Release, Cancel

\* Waiters are served in the order they came, in every step: neither waking
\* the oldest nor cancelling any of them lets one pass another, and nobody
\* gets a permit beside the first in line (Semaphore.h:98, ParkingLot.h:82-87).
THEOREM ServedInOrder == ASSUME ~Barging PROVE Spec => FirstComeFirstServed
<1>1. IndInv /\ [Next]_vars =>
        [/\ \A t, u \in Task :
                Contains(Line, t) /\ Ahead(Line', u, t) => Ahead(Line, u, t)
         /\ Line # <<>> => holders' \ holders \subseteq {Head(Line)}]_vars
  BY NobodyPasses, FirstIsServed
<1> QED
  BY <1>1, Inductive, PTL DEF Spec, FirstComeFirstServed

----------------------------------------------------------------------------
(* Value.                                                                  *)

Once(s) == \A i, j \in 1..Len(s) : s[i] = s[j] => i = j

ValueTyped ==
    /\ value_ \in Val /\ change \in Val \X Val
    /\ wait \in [Users -> Wanted \cup {None}]
    /\ result \in [Users -> [fn : Wanted, from : Val, to : Val] \cup {None}]
    /\ made \in [Users -> [fn : Wanted, result : Val \cup {None}] \cup {None}]
    /\ cpu \in Users \cup {None} /\ missed \subseteq Users
    /\ resumed \in Seq(Users) /\ parked_ \in Seq(Users) /\ todo \in Seq(Users)

\* Who waits is linked, once and in one list; who is resumed, in none.
WaitersSound ==
    /\ Once(resumed) /\ Once(parked_) /\ Once(todo)
    /\ \A t \in Users :
         /\ ~(Contains(parked_, t) /\ Contains(todo, t))
         /\ wait[t] # None <=> Contains(parked_, t) \/ Contains(todo, t)
         /\ Contains(resumed, t) => wait[t] = None
    /\ cpu # None => wait[cpu] = None /\ ~Contains(resumed, cpu)

\* Whoever has been shown the value is parked for another one, or holds an
\* awaitable that did not accept it; the loop of set() shows it to the others.
OthersWanted ==
    \A t \in Users \ missed :
        /\ Contains(parked_, t) => ~Forgotten(t)
        /\ Contains(todo, t) => value_ = change[2]
        /\ made[t] # None /\ made[t].result = None
              => ~(made[t].fn.on = "value" /\ value_ \in made[t].fn.set)

\* The result of an awaitable that needs no waiting is one it accepted.
MadeSound ==
    \A t \in Users : made[t] # None /\ made[t].result # None
        => made[t].fn.on = "value" /\ made[t].result \in made[t].fn.set

ValueInd == ValueTyped /\ WaitersSound /\ OthersWanted /\ MadeSound /\ YieldedMatches

\* The operators on lists that Value uses are those the lemmas are about.
LEMMA ValueLists ==
    /\ \A s, x : V!Unlink(s, x) = Unlink(s, x)
    /\ \A s, S : V!Sublist(s, S) = Sublist(s, S)
    /\ \A s : V!Range(s) = {s[i] : i \in DOMAIN s}
<1>1. \A s, x : V!Unlink(s, x) = Unlink(s, x)
  BY DEF V!Unlink, Unlink, V!Position, Position, V!Contains, Contains, V!RemoveAt, RemoveAt
<1>2. \A s, S : V!Sublist(s, S) = Sublist(s, S)
  BY DEF V!Sublist, Sublist, V!Cardinality, Cardinality
<1> QED BY <1>1, <1>2 DEF V!Range

LEMMA RangeHolds ==
    ASSUME NEW s \in Seq(Users)
    PROVE  V!Range(s) = {t \in Users : Contains(s, t)}
<1>1. DOMAIN s = 1..Len(s) /\ \A i \in 1..Len(s) : s[i] \in Users
  BY ElementOfSeq, LenProperties
<1> QED BY <1>1, ValueLists DEF Contains

\* A list with one more at its end.
LEMMA OneMore ==
    ASSUME NEW s \in Seq(Users), NEW t \in Users, Once(s), ~Contains(s, t)
    PROVE  /\ Append(s, t) \in Seq(Users) /\ Once(Append(s, t))
           /\ \A x : Contains(Append(s, t), x) <=> Contains(s, x) \/ x = t
<1>1. /\ Append(s, t) \in Seq(Users)
      /\ Len(s) \in Nat /\ Len(Append(s, t)) = Len(s) + 1
      /\ Append(s, t)[Len(s) + 1] = t
      /\ \A i \in 1..Len(s) : Append(s, t)[i] = s[i] /\ s[i] # t
      /\ \A x : Contains(Append(s, t), x) <=> Contains(s, x) \/ x = t
  BY Appended DEF Contains
<1>2. Once(Append(s, t))
  BY <1>1 DEF Once
<1> QED BY <1>1, <1>2

\* A list without its first.
LEMMA OneLess ==
    ASSUME NEW s \in Seq(Users), Once(s), s # <<>>
    PROVE  /\ Tail(s) \in Seq(Users) /\ Once(Tail(s)) /\ Head(s) \in Users
           /\ Contains(s, Head(s))
           /\ \A x : Contains(Tail(s), x) <=> Contains(s, x) /\ x # Head(s)
<1>1. /\ Tail(s) \in Seq(Users)
      /\ Head(s) = s[1] /\ 1 \in 1..Len(s) /\ Len(s) \in Nat
      /\ Len(Tail(s)) = Len(s) - 1
      /\ \A i \in 1..Len(Tail(s)) : i + 1 \in 1..Len(s) /\ Tail(s)[i] = s[i + 1]
      /\ \A x : Contains(s, x) <=> Contains(Tail(s), x) \/ x = Head(s)
  BY Popped
<1>2. Once(Tail(s))
  BY <1>1 DEF Once
<1>3. ~Contains(Tail(s), Head(s))
  BY <1>1 DEF Once, Contains
<1>4. Head(s) \in Users
  BY <1>1, ElementOfSeq
<1> QED BY <1>1, <1>2, <1>3, <1>4

LEMMA OneOut ==
    ASSUME NEW s \in Seq(Users), Once(s), NEW t
    PROVE  /\ V!Unlink(s, t) \in Seq(Users) /\ Once(V!Unlink(s, t))
           /\ \A x : Contains(V!Unlink(s, t), x) <=> Contains(s, x) /\ x # t
<1>1. CASE Contains(s, t)
  BY <1>1, UnlinkType, UnlinkDistinct, ValueLists DEF Once
<1>2. CASE ~Contains(s, t)
  BY <1>2, ValueLists DEF Unlink
<1> QED BY <1>1, <1>2

LEMMA SomeOut ==
    ASSUME NEW s \in Seq(Users), Once(s), NEW S
    PROVE  /\ V!Sublist(s, S) \in Seq(Users) /\ Once(V!Sublist(s, S))
           /\ \A x : Contains(V!Sublist(s, S), x) <=> Contains(s, x) /\ x \in S
BY SublistItems, ValueLists DEF Once

LEMMA TwoLists ==
    ASSUME NEW s \in Seq(Users), NEW r \in Seq(Users), Once(s), Once(r),
           \A x : ~(Contains(s, x) /\ Contains(r, x))
    PROVE  /\ s \o r \in Seq(Users) /\ Once(s \o r)
           /\ \A x : Contains(s \o r, x) <=> Contains(s, x) \/ Contains(r, x)
<1>1. /\ s \o r \in Seq(Users) /\ Len(s) \in Nat /\ Len(r) \in Nat
      /\ Len(s \o r) = Len(s) + Len(r)
      /\ \A i \in 1..(Len(s) + Len(r)) :
            (s \o r)[i] = IF i <= Len(s) THEN s[i] ELSE r[i - Len(s)]
  BY ConcatProperties, LenProperties
<1> DEFINE c == s \o r
<1> HIDE DEF c
<1>2. ASSUME NEW x, Contains(c, x) PROVE Contains(s, x) \/ Contains(r, x)
  <2>1. PICK i \in 1..(Len(s) + Len(r)) : c[i] = x
    BY <1>1, <1>2 DEF Contains, c
  <2>2. CASE i <= Len(s)
    BY <1>1, <2>1, <2>2 DEF Contains, c
  <2>3. CASE ~(i <= Len(s))
    <3>1. i - Len(s) \in 1..Len(r)
      BY <1>1, <2>3
    <3> QED BY <1>1, <2>1, <2>3, <3>1 DEF Contains, c
  <2> QED BY <2>2, <2>3
<1>3. ASSUME NEW x, Contains(s, x) PROVE Contains(c, x)
  <2>1. PICK i \in 1..Len(s) : s[i] = x
    BY <1>3 DEF Contains
  <2>2. i \in 1..(Len(s) + Len(r)) /\ c[i] = x
    BY <1>1, <2>1 DEF c
  <2> QED BY <1>1, <2>2 DEF Contains, c
<1>4. ASSUME NEW x, Contains(r, x) PROVE Contains(c, x)
  <2>1. PICK i \in 1..Len(r) : r[i] = x
    BY <1>4 DEF Contains
  <2>2. /\ Len(s) + i \in 1..(Len(s) + Len(r)) /\ ~(Len(s) + i <= Len(s))
        /\ (Len(s) + i) - Len(s) = i
    BY <1>1
  <2>3. c[Len(s) + i] = x
    BY <1>1, <2>1, <2>2 DEF c
  <2> QED BY <1>1, <2>2, <2>3 DEF Contains, c
<1>5. ASSUME NEW i \in 1..Len(c), NEW j \in 1..Len(c), c[i] = c[j] PROVE i = j
  <2> DEFINE n == Len(s)
             m == Len(r)
  <2>1. n \in Nat /\ m \in Nat /\ i \in 1..(n + m) /\ j \in 1..(n + m)
    BY <1>1 DEF c
  <2>2. CASE i <= n /\ j <= n
    BY <1>1, <1>5, <2>1, <2>2 DEF Once, c
  <2>3. CASE ~(i <= n) /\ ~(j <= n)
    <3>1. i - n \in 1..m /\ j - n \in 1..m /\ r[i - n] = r[j - n]
      BY <1>1, <1>5, <2>1, <2>3 DEF c
    <3>2. i - n = j - n
      BY <3>1 DEF Once
    <3> QED BY ONLY <3>2, <2>1
  <2>4. CASE i <= n /\ ~(j <= n)
    <3>1. i \in 1..n /\ j - n \in 1..m /\ s[i] = r[j - n]
      BY <1>1, <1>5, <2>1, <2>4 DEF c
    <3> QED BY <3>1 DEF Contains
  <2>5. CASE ~(i <= n) /\ j <= n
    <3>1. j \in 1..n /\ i - n \in 1..m /\ s[j] = r[i - n]
      BY <1>1, <1>5, <2>1, <2>5 DEF c
    <3> QED BY <3>1 DEF Contains
  <2> QED BY <2>2, <2>3, <2>4, <2>5
<1> QED BY <1>1, <1>2, <1>3, <1>4, <1>5 DEF Once, c

LEMMA ValueInitInd ==
    ASSUME V!Init
    PROVE  ValueInd
<1>1. <<>> \in Seq(Users) /\ \A x : ~Contains(<<>>, x)
  BY EmptySeq DEF Contains
<1>2. Once(<<>>)
  BY EmptySeq DEF Once
<1>3. /\ parked_ = <<>> /\ todo = <<>> /\ resumed = <<>> /\ cpu = None /\ missed = {}
      /\ made = [t \in Users |-> None]
      /\ value_ = InitialValue /\ change = <<InitialValue, InitialValue>> /\ InitialValue \in Val
      /\ wait = [t \in Users |-> None] /\ result = [t \in Users |-> None]
  BY ValueAssumption DEF V!Init
<1>4. ValueTyped
  BY <1>1, <1>3 DEF ValueTyped
<1>5. WaitersSound
  BY <1>1, <1>2, <1>3 DEF WaitersSound
<1>6. OthersWanted
  BY <1>1, <1>3 DEF OthersWanted
<1>7. YieldedMatches /\ MadeSound
  BY <1>3 DEF YieldedMatches, MadeSound
<1> QED BY <1>4, <1>5, <1>6, <1>7 DEF ValueInd

\* Nothing of it changes but for who runs, and who has run.
LEMMA NothingParkedKeeps ==
    ASSUME ValueInd, ValueTyped', Once(resumed'),
           UNCHANGED <<value_, parked_, todo, change, made, wait, missed>>,
           \A t \in Users : Contains(resumed', t) => wait[t] = None,
           cpu' # None => wait[cpu'] = None /\ ~Contains(resumed', cpu'),
           YieldedMatches'
    PROVE  ValueInd'
<1>1. WaitersSound'
  BY DEF ValueInd, WaitersSound
<1>2. OthersWanted' /\ MadeSound'
  BY DEF ValueInd, OthersWanted, Forgotten, MadeSound
<1> QED BY <1>1, <1>2 DEF ValueInd

\* A value or transition that a predicate has accepted.
LEMMA Yielded ==
    ASSUME NEW w \in Wanted, NEW from \in Val, NEW to \in Val
    PROVE  /\ V!Yield(w, from, to) \in [fn : Wanted, from : Val, to : Val]
           /\ V!Yield(w, from, to).fn = w
           /\ V!Yield(w, from, to).from = from /\ V!Yield(w, from, to).to = to
BY DEF V!Yield

LEMMA MakeInd ==
    ASSUME ValueInd, NEW w \in Wanted, V!Make(w)
    PROVE  ValueInd'
<1> DEFINE m == [fn |-> w, result |-> V!Looked(w)]
<1>1. /\ cpu \in Users /\ made' = [made EXCEPT ![cpu] = m]
      /\ result' = [result EXCEPT ![cpu] = None] /\ missed' = missed \ {cpu}
      /\ UNCHANGED <<value_, parked_, todo, change, wait, resumed, cpu>>
      /\ wait[cpu] = None
  BY DEF V!Make, ValueInd, ValueTyped, WaitersSound
<1>2. /\ m \in [fn : Wanted, result : Val \cup {None}] /\ m.fn = w
      /\ m.result # None => w.on = "value" /\ m.result \in w.set
      /\ m.result = None => ~(w.on = "value" /\ value_ \in w.set)
  BY ValueAssumption DEF V!Looked, ValueInd, ValueTyped
<1> HIDE DEF m
<1>3. made'[cpu] = m /\ \A t \in Users : t # cpu => made'[t] = made[t]
  BY <1>1 DEF ValueInd, ValueTyped
<1>4. ValueTyped'
  BY <1>1, <1>2 DEF ValueInd, ValueTyped
<1>5. WaitersSound'
  BY <1>1 DEF ValueInd, WaitersSound
<1>6. OthersWanted'
  <2> SUFFICES ASSUME NEW t \in Users, t \notin missed'
               PROVE  /\ Contains(parked_, t) => ~Forgotten(t)
                      /\ Contains(todo, t) => value_ = change[2]
                      /\ made'[t] # None /\ made'[t].result = None
                            => ~(made'[t].fn.on = "value" /\ value_ \in made'[t].fn.set)
    BY <1>1 DEF OthersWanted, Forgotten
  <2>1. CASE t = cpu
    BY <1>1, <1>2, <1>3, <2>1 DEF ValueInd, WaitersSound
  <2>2. CASE t # cpu
    BY <1>1, <1>3, <2>2 DEF ValueInd, OthersWanted
  <2> QED BY <2>1, <2>2
<1>7. MadeSound'
  BY <1>2, <1>3 DEF ValueInd, MadeSound
<1>8. YieldedMatches'
  BY <1>1 DEF ValueInd, ValueTyped, YieldedMatches
<1> QED BY <1>4, <1>5, <1>6, <1>7, <1>8 DEF ValueInd

LEMMA AwaitReadyInd ==
    ASSUME ValueInd, V!AwaitReady
    PROVE  ValueInd'
<1> DEFINE m == made[cpu]
           y == V!Yield(m.fn, m.result, m.result)
<1>1. /\ cpu \in Users /\ m # None /\ m.result # None
      /\ result' = [result EXCEPT ![cpu] = y]
      /\ made' = [made EXCEPT ![cpu] = None]
      /\ UNCHANGED <<value_, parked_, todo, change, wait, resumed, cpu, missed>>
  BY DEF V!AwaitReady, V!Ready, ValueInd, ValueTyped
<1>2. /\ m \in [fn : Wanted, result : Val \cup {None}]
      /\ m.fn.on = "value" /\ m.result \in m.fn.set
  BY <1>1 DEF ValueInd, ValueTyped, MadeSound
<1>3. m.fn \in Wanted /\ m.result \in Val
  BY <1>1, <1>2
<1> HIDE DEF m
<1>4. y \in [fn : Wanted, from : Val, to : Val] /\ V!Accepts(y.fn, y.from, y.to)
  BY <1>2, <1>3, Yielded DEF V!Accepts, Accepts
<1> HIDE DEF y
<1>5. ValueTyped'
  BY <1>1, <1>4 DEF ValueInd, ValueTyped
<1>6. WaitersSound'
  BY <1>1 DEF ValueInd, WaitersSound
<1>7. OthersWanted' /\ MadeSound'
  BY <1>1 DEF ValueInd, ValueTyped, OthersWanted, Forgotten, MadeSound
<1>8. YieldedMatches'
  BY <1>1, <1>4 DEF ValueInd, ValueTyped, YieldedMatches, V!Accepts, Accepts
<1> QED BY <1>5, <1>6, <1>7, <1>8 DEF ValueInd

LEMMA SuspendInd ==
    ASSUME ValueInd, V!Suspend
    PROVE  ValueInd'
<1> DEFINE w == made[cpu].fn
<1>1. /\ cpu \in Users /\ cpu # None /\ made[cpu] # None /\ made[cpu].result = None
      /\ parked_' = Append(parked_, cpu)
      /\ wait' = [wait EXCEPT ![cpu] = w]
      /\ made' = [made EXCEPT ![cpu] = None]
      /\ cpu' = None
      /\ UNCHANGED <<value_, todo, change, result, resumed, missed>>
  BY DEF V!Suspend, V!Ready, ValueInd, ValueTyped
<1>2. w \in Wanted /\ w # None /\ wait[cpu] = None
  <2>1. made[cpu] \in [fn : Wanted, result : Val \cup {None}]
    BY <1>1 DEF ValueInd, ValueTyped
  <2> QED BY <1>1, <2>1, ValueAssumption DEF ValueInd, WaitersSound
<1>3. cpu \notin missed => ~(w.on = "value" /\ value_ \in w.set)
  BY <1>1 DEF ValueInd, OthersWanted
<1> HIDE DEF w
<1>4. ~Contains(parked_, cpu) /\ ~Contains(todo, cpu)
  BY <1>1, <1>2 DEF ValueInd, WaitersSound
<1>5. /\ parked_' \in Seq(Users) /\ Once(parked_')
      /\ \A x : Contains(parked_', x) <=> Contains(parked_, x) \/ x = cpu
  BY <1>1, <1>4, OneMore DEF ValueInd, ValueTyped, WaitersSound
<1>6. /\ wait'[cpu] = w /\ made'[cpu] = None
      /\ \A t \in Users : t # cpu => wait'[t] = wait[t] /\ made'[t] = made[t]
  BY <1>1 DEF ValueInd, ValueTyped
<1>7. ValueTyped'
  BY <1>1, <1>2, <1>5 DEF ValueInd, ValueTyped
<1>8. WaitersSound'
  <2>1. ASSUME NEW t \in Users
        PROVE  /\ ~(Contains(parked_', t) /\ Contains(todo', t))
               /\ wait'[t] # None <=> Contains(parked_', t) \/ Contains(todo', t)
    BY <1>1, <1>2, <1>4, <1>5, <1>6 DEF ValueInd, WaitersSound
  <2>2. ASSUME NEW t \in Users, Contains(resumed', t) PROVE wait'[t] = None
    BY <1>1, <1>6, <2>2 DEF ValueInd, WaitersSound
  <2> QED BY <1>1, <1>5, <2>1, <2>2 DEF ValueInd, WaitersSound
<1>9. OthersWanted'
  <2> SUFFICES ASSUME NEW t \in Users, t \notin missed
               PROVE  /\ Contains(parked_', t) => ~(wait'[t].on = "value" /\ value_ \in wait'[t].set)
                      /\ Contains(todo, t) => value_ = change[2]
                      /\ made'[t] # None /\ made'[t].result = None
                            => ~(made'[t].fn.on = "value" /\ value_ \in made'[t].fn.set)
    BY <1>1 DEF OthersWanted, Forgotten
  <2>1. CASE t = cpu
    BY <1>3, <1>4, <1>6, <2>1
  <2>2. CASE t # cpu
    BY <1>5, <1>6, <2>2 DEF ValueInd, OthersWanted, Forgotten
  <2> QED BY <2>1, <2>2
<1>10. MadeSound'
  BY <1>1, <1>6 DEF ValueInd, MadeSound
<1>11. YieldedMatches'
  BY <1>1 DEF ValueInd, YieldedMatches
<1> QED BY <1>7, <1>8, <1>9, <1>10, <1>11 DEF ValueInd

LEMMA AwaitOtherInd ==
    ASSUME ValueInd, V!AwaitOther
    PROVE  ValueInd'
<1>1. /\ cpu' = None /\ result' = [result EXCEPT ![cpu] = None]
      /\ UNCHANGED <<value_, parked_, todo, change, made, wait, resumed, missed>>
  BY DEF V!AwaitOther
<1>2. ValueTyped' /\ YieldedMatches'
  BY <1>1 DEF ValueInd, ValueTyped, YieldedMatches
<1> QED BY <1>1, <1>2, NothingParkedKeeps DEF ValueInd, WaitersSound

LEMMA RunInd ==
    ASSUME ValueInd, V!Run
    PROVE  ValueInd'
<1>1. /\ resumed # <<>> /\ cpu' = Head(resumed) /\ resumed' = Tail(resumed)
      /\ UNCHANGED <<value_, parked_, todo, change, made, wait, result, missed>>
  BY DEF V!Run
<1>2. /\ Tail(resumed) \in Seq(Users) /\ Once(Tail(resumed)) /\ Head(resumed) \in Users
      /\ Contains(resumed, Head(resumed))
      /\ \A x : Contains(Tail(resumed), x) <=> Contains(resumed, x) /\ x # Head(resumed)
  BY <1>1, OneLess DEF ValueInd, ValueTyped, WaitersSound
<1>3. ValueTyped' /\ YieldedMatches'
  BY <1>1, <1>2 DEF ValueInd, ValueTyped, YieldedMatches
<1>4. /\ wait[cpu'] = None /\ ~Contains(resumed', cpu')
      /\ \A t \in Users : Contains(resumed', t) => wait[t] = None
  BY <1>1, <1>2 DEF ValueInd, WaitersSound
<1> QED BY <1>1, <1>2, <1>3, <1>4, NothingParkedKeeps

LEMMA WakeInd ==
    ASSUME ValueInd, NEW t \in Users, V!Wake(t)
    PROVE  ValueInd'
<1>1. /\ wait[t] = None /\ cpu' = t
      /\ UNCHANGED <<value_, parked_, todo, change, made, wait, result, resumed, missed>>
  BY DEF V!Wake
<1>2. resumed = <<>> /\ \A x : ~Contains(<<>>, x)
  BY EmptySeq DEF V!Wake, V!InLoop, Contains
<1>3. ValueTyped' /\ YieldedMatches'
  BY <1>1 DEF ValueInd, ValueTyped, YieldedMatches
<1> QED BY <1>1, <1>2, <1>3, NothingParkedKeeps DEF ValueInd, WaitersSound

\* set() by a task: those who accept are made ready, and the others stay.
LEMMA SetInTaskInd ==
    ASSUME ValueInd, NEW v \in Val, V!SetInTask(v)
    PROVE  ValueInd'
<1> DEFINE accepting == {t \in V!Range(parked_) : V!Accepts(wait[t], value_, v)}
           chosen == V!Sublist(parked_, accepting)
           kept == V!Sublist(parked_, Users \ accepting)
<1>1. /\ value_' = v /\ parked_' = kept /\ resumed' = resumed \o chosen
      /\ wait' = [t \in Users |-> IF t \in accepting THEN None ELSE wait[t]]
      /\ result' = [t \in Users |-> IF t \in accepting THEN V!Yield(wait[t], value_, v)
                                                      ELSE result[t]]
      /\ missed' = V!MadeBefore \cup V!Range(todo)
      /\ UNCHANGED <<todo, change, made, cpu>>
  BY DEF V!SetInTask
<1>2. \A t \in Users : t \in accepting <=> Contains(parked_, t) /\ V!Accepts(wait[t], value_, v)
  BY RangeHolds DEF ValueInd, ValueTyped
<1>3. accepting \subseteq Users
  BY RangeHolds DEF ValueInd, ValueTyped
<1>4. parked_ \in Seq(Users) /\ Once(parked_) /\ resumed \in Seq(Users) /\ Once(resumed)
  BY DEF ValueInd, ValueTyped, WaitersSound
<1> HIDE DEF accepting
<1>5. /\ chosen \in Seq(Users) /\ Once(chosen)
      /\ \A x : Contains(chosen, x) <=> Contains(parked_, x) /\ x \in accepting
  BY <1>4, SomeOut
<1>6. /\ kept \in Seq(Users) /\ Once(kept)
      /\ \A x : Contains(kept, x) <=> Contains(parked_, x) /\ x \in Users \ accepting
  BY <1>4, SomeOut
<1> HIDE DEF chosen, kept
<1>7. \A x : ~(Contains(resumed, x) /\ Contains(chosen, x))
  <2> SUFFICES ASSUME NEW x, Contains(resumed, x), Contains(chosen, x) PROVE FALSE
    OBVIOUS
  <2>1. x \in Users /\ Contains(parked_, x)
    BY <1>3, <1>5
  <2> QED BY <2>1 DEF ValueInd, WaitersSound
<1>8. /\ resumed' \in Seq(Users) /\ Once(resumed')
      /\ \A x : Contains(resumed', x) <=> Contains(resumed, x) \/ Contains(chosen, x)
  BY <1>1, <1>4, <1>5, <1>7, TwoLists
<1>9. ASSUME NEW t \in Users
      PROVE  /\ t \in accepting => wait'[t] = None
             /\ t \in accepting => wait[t] # None
             /\ t \notin accepting => wait'[t] = wait[t]
  BY <1>1, <1>2 DEF ValueInd, WaitersSound
<1>10. ASSUME NEW t \in Users
       PROVE  /\ t \in accepting => /\ result'[t] = V!Yield(wait[t], value_, v)
                                    /\ wait[t] \in Wanted /\ V!Accepts(wait[t], value_, v)
              /\ t \notin accepting => result'[t] = result[t]
  <2>1. wait[t] \in Wanted \cup {None}
    BY DEF ValueInd, ValueTyped
  <2>2. result'[t] = IF t \in accepting THEN V!Yield(wait[t], value_, v) ELSE result[t]
    BY <1>1
  <2>3. t \in accepting => V!Accepts(wait[t], value_, v)
    BY <1>2
  <2>4. t \in accepting => wait[t] # None
    BY <1>9
  <2>5. t \in accepting => result'[t] = V!Yield(wait[t], value_, v)
    BY <2>2
  <2>6. t \notin accepting => result'[t] = result[t]
    BY <2>2
  <2> QED BY <2>1, <2>3, <2>4, <2>5, <2>6
<1>11. ValueTyped'
  <2>1. wait' \in [Users -> Wanted \cup {None}]
    BY <1>1 DEF ValueInd, ValueTyped
  <2>2. value_ \in Val /\ DOMAIN result' = Users /\ result' = [t \in Users |-> result'[t]]
    BY <1>1 DEF ValueInd, ValueTyped
  <2>3. ASSUME NEW t \in Users PROVE result'[t] \in [fn : Wanted, from : Val, to : Val] \cup {None}
    <3>1. CASE t \in accepting
      <4>1. result'[t] = V!Yield(wait[t], value_, v) /\ wait[t] \in Wanted
        BY <1>10, <3>1
      <4> QED BY <2>2, <4>1, Yielded
    <3>2. CASE t \notin accepting
      BY <1>10, <3>2 DEF ValueInd, ValueTyped
    <3> QED BY <3>1, <3>2
  <2>4. result' \in [Users -> [fn : Wanted, from : Val, to : Val] \cup {None}]
    BY <2>2, <2>3
  <2>5. missed' \subseteq Users
    BY <1>1, RangeHolds DEF V!MadeBefore, ValueInd, ValueTyped
  <2> QED BY <1>1, <1>6, <1>8, <2>1, <2>4, <2>5 DEF ValueInd, ValueTyped
<1>12. WaitersSound'
  <2>1. ASSUME NEW t \in Users
        PROVE  /\ ~(Contains(parked_', t) /\ Contains(todo', t))
               /\ wait'[t] # None <=> Contains(parked_', t) \/ Contains(todo', t)
    BY <1>1, <1>2, <1>6, <1>9 DEF ValueInd, WaitersSound
  <2>2. ASSUME NEW t \in Users, Contains(resumed', t) PROVE wait'[t] = None
    BY <1>5, <1>8, <1>9, <2>2 DEF ValueInd, WaitersSound
  <2>3. cpu' # None => wait'[cpu'] = None /\ ~Contains(resumed', cpu')
    BY <1>1, <1>5, <1>8, <1>9 DEF ValueInd, ValueTyped, WaitersSound
  <2> QED BY <1>1, <1>6, <1>8, <2>1, <2>2, <2>3 DEF ValueInd, WaitersSound
<1>13. OthersWanted'
  <2>1. \A t \in Users : Contains(todo, t) \/ made[t] # None => t \in missed'
    BY <1>1, RangeHolds DEF V!MadeBefore, ValueInd, ValueTyped
  <2>2. ASSUME NEW t \in Users, Contains(parked_', t) PROVE ~Forgotten(t)'
    BY <1>1, <1>2, <1>6, <1>9, <2>2 DEF Forgotten, V!Accepts, Accepts
  <2> QED BY <1>1, <2>1, <2>2 DEF OthersWanted
<1>14. YieldedMatches'
  <2> SUFFICES ASSUME NEW t \in Users, result'[t] # None
               PROVE  V!Accepts(result'[t].fn, result'[t].from, result'[t].to)
    BY DEF YieldedMatches, V!Accepts, Accepts
  <2>1. CASE t \in accepting
    <3>1. /\ result'[t] = V!Yield(wait[t], value_, v) /\ wait[t] \in Wanted
          /\ V!Accepts(wait[t], value_, v)
      BY <1>10, <2>1
    <3>2. value_ \in Val
      BY DEF ValueInd, ValueTyped
    <3> QED BY <3>1, <3>2, Yielded
  <2>2. CASE t \notin accepting
    BY <1>10, <2>2 DEF ValueInd, YieldedMatches, V!Accepts, Accepts
  <2> QED BY <2>1, <2>2
<1>15. MadeSound'
  BY <1>1 DEF ValueInd, MadeSound
<1> QED BY <1>11, <1>12, <1>13, <1>14, <1>15 DEF ValueInd

\* set() by the event loop takes the list.
LEMMA SetInd ==
    ASSUME ValueInd, NEW v \in Val, V!Set(v)
    PROVE  ValueInd'
<1>1. /\ todo = <<>> /\ cpu = None
      /\ value_' = v /\ change' = <<value_, v>> /\ todo' = parked_ /\ parked_' = <<>>
      /\ missed' = V!MadeBefore /\ UNCHANGED <<made, wait, result, resumed, cpu>>
  BY DEF V!Set, V!InLoop
<1>2. <<>> \in Seq(Users) /\ (\A x : ~Contains(<<>>, x)) /\ Once(<<>>)
  BY EmptySeq DEF Contains, Once
<1>3. ValueTyped'
  BY <1>1, <1>2 DEF ValueInd, ValueTyped, V!MadeBefore
<1>4. WaitersSound'
  BY <1>1, <1>2 DEF ValueInd, WaitersSound
<1>5. OthersWanted'
  BY <1>1, <1>2 DEF OthersWanted, V!MadeBefore, ValueInd, ValueTyped
<1>6. YieldedMatches' /\ MadeSound'
  BY <1>1 DEF ValueInd, YieldedMatches, MadeSound
<1> QED BY <1>3, <1>4, <1>5, <1>6 DEF ValueInd

LEMMA NotifyNoMatchInd ==
    ASSUME ValueInd, V!NotifyNoMatch
    PROVE  ValueInd'
<1> DEFINE h == Head(todo)
<1>1. /\ todo # <<>> /\ ~V!Accepts(wait[h], change[1], change[2])
      /\ todo' = Tail(todo) /\ parked_' = Append(parked_, h)
      /\ UNCHANGED <<value_, change, made, wait, result, resumed, cpu, missed>>
  BY DEF V!NotifyNoMatch, V!Park
<1>2. /\ Tail(todo) \in Seq(Users) /\ Once(Tail(todo)) /\ h \in Users /\ Contains(todo, h)
      /\ \A x : Contains(Tail(todo), x) <=> Contains(todo, x) /\ x # h
  BY <1>1, OneLess DEF ValueInd, ValueTyped, WaitersSound
<1> HIDE DEF h
<1>3. ~Contains(parked_, h)
  BY <1>2 DEF ValueInd, WaitersSound
<1>4. /\ parked_' \in Seq(Users) /\ Once(parked_')
      /\ \A x : Contains(parked_', x) <=> Contains(parked_, x) \/ x = h
  BY <1>1, <1>2, <1>3, OneMore DEF ValueInd, ValueTyped, WaitersSound
<1>5. ValueTyped'
  BY <1>1, <1>2, <1>4 DEF ValueInd, ValueTyped
<1>6. WaitersSound'
  BY <1>1, <1>2, <1>3, <1>4 DEF ValueInd, WaitersSound
<1>7. OthersWanted'
  BY <1>1, <1>2, <1>4 DEF ValueInd, OthersWanted, Forgotten, V!Accepts, Accepts
<1>8. YieldedMatches' /\ MadeSound'
  BY <1>1 DEF ValueInd, YieldedMatches, MadeSound
<1> QED BY <1>5, <1>6, <1>7, <1>8 DEF ValueInd

LEMMA NotifyMatchInd ==
    ASSUME ValueInd, V!NotifyMatch
    PROVE  ValueInd'
<1> DEFINE h == Head(todo)
           y == V!Yield(wait[h], change[1], change[2])
<1>1. /\ todo # <<>> /\ resumed = <<>> /\ V!Accepts(wait[h], change[1], change[2])
      /\ result' = [result EXCEPT ![h] = y]
      /\ wait' = [wait EXCEPT ![h] = None]
      /\ cpu' = h /\ todo' = Tail(todo)
      /\ UNCHANGED <<value_, parked_, change, made, resumed, missed>>
  BY DEF V!NotifyMatch
<1>2. /\ Tail(todo) \in Seq(Users) /\ Once(Tail(todo)) /\ h \in Users /\ Contains(todo, h)
      /\ \A x : Contains(Tail(todo), x) <=> Contains(todo, x) /\ x # h
  BY <1>1, OneLess DEF ValueInd, ValueTyped, WaitersSound
<1> HIDE DEF h
<1>3. ~Contains(parked_, h) /\ wait[h] \in Wanted
  BY <1>2 DEF ValueInd, ValueTyped, WaitersSound
<1>4. change[1] \in Val /\ change[2] \in Val
  BY DEF ValueInd, ValueTyped
<1>5. y \in [fn : Wanted, from : Val, to : Val] /\ V!Accepts(y.fn, y.from, y.to)
  <2>1. /\ y \in [fn : Wanted, from : Val, to : Val]
        /\ y.fn = wait[h] /\ y.from = change[1] /\ y.to = change[2]
    BY <1>3, <1>4, Yielded
  <2> QED BY <1>1, <2>1
<1> HIDE DEF y
<1>6. wait'[h] = None /\ \A t \in Users : t # h => wait'[t] = wait[t]
  BY <1>1, <1>2 DEF ValueInd, ValueTyped
<1>7. ValueTyped'
  BY <1>1, <1>2, <1>5 DEF ValueInd, ValueTyped
<1>8. WaitersSound'
  <2>1. ASSUME NEW t \in Users
        PROVE  /\ ~(Contains(parked_', t) /\ Contains(todo', t))
               /\ wait'[t] # None <=> Contains(parked_', t) \/ Contains(todo', t)
    BY <1>1, <1>2, <1>3, <1>6 DEF ValueInd, WaitersSound
  <2>2. ASSUME NEW t \in Users, Contains(resumed', t) PROVE wait'[t] = None
    BY <1>1, <1>6, <2>2 DEF ValueInd, WaitersSound
  <2> QED BY <1>1, <1>2, <1>6, <2>1, <2>2 DEF ValueInd, WaitersSound
<1>9. OthersWanted'
  <2>1. \A t \in Users : Contains(parked_, t) => wait'[t] = wait[t]
    BY <1>3, <1>6
  <2> QED BY <1>1, <1>2, <2>1 DEF ValueInd, OthersWanted, Forgotten
<1>10. YieldedMatches'
  BY <1>1, <1>2, <1>5 DEF ValueInd, ValueTyped, YieldedMatches, V!Accepts, Accepts
<1>11. MadeSound'
  BY <1>1 DEF ValueInd, MadeSound
<1> QED BY <1>7, <1>8, <1>9, <1>10, <1>11 DEF ValueInd

LEMMA ValueCancelInd ==
    ASSUME ValueInd, NEW t \in Users, V!Cancel(t)
    PROVE  ValueInd'
<1>1. /\ parked_' = V!Unlink(parked_, t) /\ todo' = V!Unlink(todo, t)
      /\ wait' = [wait EXCEPT ![t] = None]
      /\ UNCHANGED <<value_, change, made, result, resumed, cpu, missed>>
  BY DEF V!Cancel, V!UnlinkWaiter
<1>2. /\ parked_' \in Seq(Users) /\ Once(parked_')
      /\ \A x : Contains(parked_', x) <=> Contains(parked_, x) /\ x # t
  BY <1>1, OneOut DEF ValueInd, ValueTyped, WaitersSound
<1>3. /\ todo' \in Seq(Users) /\ Once(todo')
      /\ \A x : Contains(todo', x) <=> Contains(todo, x) /\ x # t
  BY <1>1, OneOut DEF ValueInd, ValueTyped, WaitersSound
<1>4. wait'[t] = None /\ \A u \in Users : u # t => wait'[u] = wait[u]
  BY <1>1 DEF ValueInd, ValueTyped
<1>5. ValueTyped'
  BY <1>1, <1>2, <1>3 DEF ValueInd, ValueTyped
<1>6. WaitersSound'
  <2>1. ASSUME NEW u \in Users
        PROVE  /\ ~(Contains(parked_', u) /\ Contains(todo', u))
               /\ wait'[u] # None <=> Contains(parked_', u) \/ Contains(todo', u)
    BY <1>2, <1>3, <1>4 DEF ValueInd, WaitersSound
  <2>2. ASSUME NEW u \in Users, Contains(resumed', u) PROVE wait'[u] = None
    BY <1>1, <1>4, <2>2 DEF ValueInd, WaitersSound
  <2>3. cpu' # None => wait'[cpu'] = None /\ ~Contains(resumed', cpu')
    BY <1>1, <1>4 DEF ValueInd, ValueTyped, WaitersSound
  <2> QED BY <1>1, <1>2, <1>3, <2>1, <2>2, <2>3 DEF ValueInd, WaitersSound
<1>7. OthersWanted'
  <2> QED BY <1>1, <1>2, <1>3, <1>4 DEF ValueInd, OthersWanted, Forgotten
<1>8. YieldedMatches' /\ MadeSound'
  BY <1>1 DEF ValueInd, YieldedMatches, MadeSound
<1> QED BY <1>5, <1>6, <1>7, <1>8 DEF ValueInd

LEMMA ValueInductive == V!Spec => []ValueInd
<1>1. ValueInd /\ [V!Next]_V!vars => ValueInd'
  <2> SUFFICES ASSUME ValueInd, [V!Next]_V!vars PROVE ValueInd'
    OBVIOUS
  <2>1. CASE \E w \in Wanted : V!Make(w)
    BY <2>1, MakeInd
  <2>2. CASE \E v \in Val : V!SetInTask(v) \/ V!Set(v)
    BY <2>2, SetInTaskInd, SetInd
  <2>3. CASE \E t \in Users : V!Wake(t) \/ V!Cancel(t)
    BY <2>3, WakeInd, ValueCancelInd
  <2>4. CASE V!AwaitReady \/ V!Suspend \/ V!AwaitOther \/ V!Run \/ V!NotifyNoMatch \/ V!NotifyMatch
    BY <2>4, AwaitReadyInd, SuspendInd, AwaitOtherInd, RunInd, NotifyNoMatchInd, NotifyMatchInd
  <2>5. CASE UNCHANGED V!vars
    BY <2>5 DEF V!vars, ValueInd, ValueTyped, WaitersSound, OthersWanted, Forgotten,
                MadeSound, YieldedMatches
  <2> QED BY <2>1, <2>2, <2>3, <2>4, <2>5 DEF V!Next
<1> QED BY <1>1, ValueInitInd, PTL DEF V!Spec

----------------------------------------------------------------------------
\* Every task that waits is linked, once and in one list, however parked_ are
\* cancelled, parked again or resumed while the loop of set() runs.
THEOREM ValueTypeCorrect == V!Spec => []V!TypeOK
<1>1. ASSUME ValueInd PROVE V!TypeOK
  <2>1. \A x : ~(Contains(parked_, x) /\ Contains(todo, x))
    <3> SUFFICES ASSUME NEW x, Contains(parked_, x), Contains(todo, x) PROVE FALSE
      OBVIOUS
    <3>1. x \in Users
      BY ElementOfSeq, <1>1 DEF Contains, ValueInd, ValueTyped
    <3> QED BY <1>1, <3>1 DEF ValueInd, WaitersSound
  <2>2. /\ parked_ \o todo \in Seq(Users) /\ Once(parked_ \o todo)
        /\ \A x : Contains(parked_ \o todo, x) <=> Contains(parked_, x) \/ Contains(todo, x)
    BY <1>1, <2>1, TwoLists DEF ValueInd, ValueTyped, WaitersSound
  <2>3. V!Range(parked_ \o todo) = {t \in Users : wait[t] # None}
    BY <1>1, <2>2, RangeHolds DEF ValueInd, WaitersSound
  <2>4. ASSUME NEW s \in Seq(Users), Once(s) PROVE V!IsInjective(s)
    BY <2>4, LenProperties DEF V!IsInjective, Once
  <2>5. V!Range(resumed) = {t \in Users : Contains(resumed, t)}
    BY <1>1, RangeHolds DEF ValueInd, ValueTyped
  <2>6. \A t \in V!Range(resumed) \cup {cpu} : t # None => wait[t] = None
    BY <1>1, <2>5 DEF ValueInd, WaitersSound
  <2>7. V!IsInjective(resumed) /\ V!IsInjective(parked_ \o todo)
    BY <1>1, <2>2, <2>4 DEF ValueInd, ValueTyped, WaitersSound
  <2> QED BY <1>1, <2>2, <2>3, <2>6, <2>7 DEF V!TypeOK, ValueInd, ValueTyped
<1> QED BY <1>1, ValueInductive, PTL

\* Whoever has been shown the value the variable has, by the constructor of his
\* awaitable or by the set() that assigned it, is not parked for it (Value.h:54).
\* Excluded are who awaits later what he made before an assignment, and whom the
\* loop of an outside set() shows another value than a task has assigned meanwhile.
THEOREM NobodyIsForgotten == V!Spec => []NoWaiterForgotten
<1>1. ASSUME ValueInd PROVE NoWaiterForgotten
  <2>1. Range(parked_) = {t \in Users : Contains(parked_, t)}
    BY <1>1, RangeHolds DEF ValueInd, ValueTyped, V!Range, Range
  <2> QED BY <1>1, <2>1 DEF ValueInd, OthersWanted, NoWaiterForgotten
<1> QED BY <1>1, ValueInductive, PTL

\* What a task gets of a value or a transition is what its predicate accepted,
\* whatever is assigned before it runs (Value.h:57 and :77).
THEOREM AcceptedIsYielded == V!Spec => []YieldedMatches
<1>1. ValueInd => YieldedMatches
  BY DEF ValueInd
<1> QED BY <1>1, ValueInductive, PTL

----------------------------------------------------------------------------
(* The executors.                                                          *)

\* A drain() of x is on the stack, as the operations say it.
LEMMA SameRunning == \A x : E!Running(x) <=> Running(x)
BY DEF E!Running, Running

LEMMA SameIdle == E!Idle = Idle
BY DEF E!Idle, Idle

USE ExecutorsAssumption, SameIdle

FrameSet == [ex : Exec, entry : Exec \cup {Work, Idle}]

\* A drain() of x is among fs.
On(fs, x) == \E i \in 1..Len(fs) : fs[i].ex = x

\* The innermost frame calls no runOnce().
Top(fs) == fs # <<>> => Head(fs).entry \notin Exec

----------------------------------------------------------------------------
(* What is done to the stack.                                              *)

\* drain() is called.
LEMMA DrainCalled ==
    ASSUME NEW fs \in Seq(FrameSet), NEW e \in Exec
    PROVE  /\ <<E!Frame(e)>> \o fs \in Seq(FrameSet) /\ Top(<<E!Frame(e)>> \o fs)
           /\ On(<<E!Frame(e)>> \o fs, e)
           /\ \A x : On(fs, x) => On(<<E!Frame(e)>> \o fs, x)
<1> DEFINE r == <<E!Frame(e)>> \o fs
<1>1. E!Frame(e) \in FrameSet /\ E!Frame(e).ex = e /\ E!Frame(e).entry = Idle
  BY DEF E!Frame, FrameSet
<1>2. /\ r \in Seq(FrameSet) /\ Len(r) = Len(fs) + 1 /\ Len(fs) \in Nat
      /\ r[1] = E!Frame(e) /\ \A i \in 1..Len(fs) : r[i + 1] = fs[i]
      /\ Head(r) = E!Frame(e)
  BY <1>1
<1> HIDE DEF r
<1>3. 1 \in 1..Len(r) /\ \A i \in 1..Len(fs) : i + 1 \in 1..Len(r)
  BY <1>2
<1>4. On(r, e) /\ \A x : On(fs, x) => On(r, x)
  BY <1>1, <1>2, <1>3 DEF On
<1>5. Top(r)
  BY <1>1, <1>2 DEF Top
<1> QED BY <1>2, <1>4, <1>5 DEF r

\* The innermost frame takes an entry, or leaves one.
LEMMA EntryMarked ==
    ASSUME NEW fs \in Seq(FrameSet), fs # <<>>, NEW v \in Exec \cup {Work, Idle}
    PROVE  /\ [fs EXCEPT ![1].entry = v] \in Seq(FrameSet)
           /\ v \notin Exec => Top([fs EXCEPT ![1].entry = v])
           /\ \A x : On(fs, x) => On([fs EXCEPT ![1].entry = v], x)
<1> DEFINE r == [fs EXCEPT ![1].entry = v]
<1>1. Len(fs) \in Nat /\ 1 \in 1..Len(fs) /\ fs[1] \in FrameSet
  BY EmptySeq, LenProperties, ElementOfSeq
<1>2. [fs[1] EXCEPT !.entry = v] \in FrameSet
  BY <1>1 DEF FrameSet
<1>3. r = [fs EXCEPT ![1] = [fs[1] EXCEPT !.entry = v]]
  OBVIOUS
<1>4. /\ r \in Seq(FrameSet) /\ Len(r) = Len(fs)
      /\ \A i \in 1..Len(fs) :
            r[i] = IF i = 1 THEN [fs[1] EXCEPT !.entry = v] ELSE fs[i]
  BY <1>1, <1>2, <1>3, ExceptSeq
<1> HIDE DEF r
<1>5. r[1].ex = fs[1].ex /\ r[1].entry = v /\ Head(r) = r[1]
  BY <1>1, <1>4 DEF FrameSet
<1>6. \A x : On(fs, x) => On(r, x)
  BY <1>4, <1>5 DEF On
<1>7. v \notin Exec => Top(r)
  BY <1>5 DEF Top
<1> QED BY <1>4, <1>6, <1>7 DEF r

\* The innermost drain() returns: it is the only one that is gone.
LEMMA DrainReturned ==
    ASSUME NEW fs \in Seq(FrameSet), fs # <<>>
    PROVE  /\ E!Unwind(Tail(fs)) \in Seq(FrameSet) /\ Top(E!Unwind(Tail(fs)))
           /\ \A x : On(fs, x) => x = Head(fs).ex \/ On(E!Unwind(Tail(fs)), x)
<1>1. /\ Tail(fs) \in Seq(FrameSet) /\ Len(Tail(fs)) = Len(fs) - 1
      /\ \A i \in 1..Len(Tail(fs)) : Tail(fs)[i] = fs[i + 1]
      /\ Head(fs) = fs[1] /\ Len(fs) \in Nat \ {0}
  BY HeadTailProperties, EmptySeq
<1>2. ASSUME NEW x, On(fs, x) PROVE x = Head(fs).ex \/ On(Tail(fs), x)
  <2>1. PICK i \in 1..Len(fs) : fs[i].ex = x
    BY <1>2 DEF On
  <2>2. CASE i = 1
    BY <2>1, <2>2, <1>1
  <2>3. CASE i # 1
    <3>1. i - 1 \in 1..Len(Tail(fs)) /\ Tail(fs)[i - 1] = fs[i]
      <4>1. i - 1 \in 1..Len(Tail(fs)) /\ (i - 1) + 1 = i
        BY <1>1, <2>3
      <4> QED BY <4>1, <1>1
    <3> QED BY <2>1, <3>1 DEF On
  <2> QED BY <2>2, <2>3
<1>3. CASE Tail(fs) # <<>> /\ Head(Tail(fs)).entry \in Exec
  <2>1. /\ E!Unwind(Tail(fs)) = [Tail(fs) EXCEPT ![1].entry = Idle]
        /\ Idle \in Exec \cup {Work, Idle} /\ Idle \notin Exec
    BY <1>3 DEF E!Unwind
  <2> DEFINE r == [Tail(fs) EXCEPT ![1].entry = Idle]
  <2>2. /\ r \in Seq(FrameSet) /\ Top(r)
        /\ \A x : On(Tail(fs), x) => On(r, x)
    <3>1. Tail(fs) \in Seq(FrameSet) /\ Tail(fs) # <<>>
      BY <1>1, <1>3
    <3> QED BY <2>1, <3>1, EntryMarked
  <2> HIDE DEF r
  <2>3. E!Unwind(Tail(fs)) = r
    BY <2>1 DEF r
  <2> QED BY <1>2, <2>2, <2>3
<1>4. CASE ~(Tail(fs) # <<>> /\ Head(Tail(fs)).entry \in Exec)
  BY <1>1, <1>2, <1>4 DEF E!Unwind, Top
<1> QED BY <1>3, <1>4

----------------------------------------------------------------------------
(* The inductive invariant: an executor with work runs or is scheduled, and *)
(* a scheduled one is queued in one that runs.                             *)

Covered == \A e \in Exec : ready[e] # <<>> => Running(e) \/ scheduled[e]
ExecutorsInd == E!TypeOK /\ ScheduledIsQueued /\ Covered

LEMMA StackTyped ==
    E!TypeOK <=> /\ ready \in [Exec -> Seq(Exec \cup {Work})]
               /\ scheduled \in [Exec -> BOOLEAN]
               /\ frames \in Seq(FrameSet) /\ Top(frames)
BY DEF E!TypeOK, FrameSet, Top

\* What a step leaves when it removes the head of the current list.
LEMMA EntryTaken ==
    ASSUME E!TypeOK, frames # <<>>, ready[E!Current] # <<>>,
           ready' = [ready EXCEPT ![E!Current] = Tail(ready[E!Current])]
    PROVE  /\ E!Current \in Exec /\ Running(E!Current)
           /\ ready' \in [Exec -> Seq(Exec \cup {Work})]
           /\ Head(ready[E!Current]) \in Exec \cup {Work}
           /\ \A x \in Exec : ready'[x] # <<>> => ready[x] # <<>>
           /\ \A x \in Exec : \A e : Contains(ready[x], e) =>
                 e = Head(ready[E!Current]) \/ Contains(ready'[x], e)
<1>1. /\ frames \in Seq(FrameSet) /\ ready \in [Exec -> Seq(Exec \cup {Work})]
  BY StackTyped
<1>2. /\ Len(frames) \in Nat /\ 1 \in 1..Len(frames) /\ Head(frames) = frames[1]
      /\ frames[1] \in FrameSet
  BY <1>1, EmptySeq, LenProperties, ElementOfSeq
<1>3. E!Current \in Exec /\ Running(E!Current)
  BY <1>2 DEF E!Current, Running, FrameSet
<1> DEFINE list == ready[E!Current]
<1>4. /\ list \in Seq(Exec \cup {Work}) /\ list # <<>>
      /\ Head(list) = list[1] /\ Tail(list) \in Seq(Exec \cup {Work})
      /\ Len(list) \in Nat /\ Len(Tail(list)) = Len(list) - 1
      /\ \A i \in 1..Len(Tail(list)) : Tail(list)[i] = list[i + 1]
      /\ Head(list) \in Exec \cup {Work}
  BY <1>1, <1>3, HeadTailProperties
<1>5. /\ ready' \in [Exec -> Seq(Exec \cup {Work})]
      /\ \A x \in Exec : ready'[x] = IF x = E!Current THEN Tail(list) ELSE ready[x]
  BY <1>1, <1>3, <1>4
<1>6. ASSUME NEW e, Contains(list, e) PROVE e = Head(list) \/ Contains(Tail(list), e)
  <2>1. PICK i \in 1..Len(list) : list[i] = e
    BY <1>6 DEF Contains
  <2>2. CASE i = 1
    BY <2>1, <2>2, <1>4
  <2>3. CASE i # 1
    <3>1. i - 1 \in 1..Len(Tail(list)) /\ (i - 1) + 1 = i
      BY <1>4, <2>3
    <3>2. Tail(list)[i - 1] = e
      BY <1>4, <2>1, <3>1
    <3> QED BY <3>1, <3>2 DEF Contains
  <2> QED BY <2>2, <2>3
<1>7. ASSUME NEW x \in Exec, NEW e, Contains(ready[x], e)
      PROVE  e = Head(list) \/ Contains(ready'[x], e)
  <2>1. CASE x = E!Current
    BY <2>1, <1>5, <1>6, <1>7
  <2>2. CASE x # E!Current
    BY <2>2, <1>5, <1>7
  <2> QED BY <2>1, <2>2
<1>8. \A x \in Exec : ready'[x] # <<>> => ready[x] # <<>>
  BY <1>4, <1>5
<1> QED BY <1>3, <1>4, <1>5, <1>7, <1>8

\* A list to which v is appended.
LEMMA IsScheduled ==
    ASSUME NEW q \in Seq(Exec \cup {Work}), NEW v \in Exec \cup {Work}
    PROVE  /\ Append(q, v) \in Seq(Exec \cup {Work})
           /\ Contains(Append(q, v), v)
           /\ \A y : Contains(q, y) => Contains(Append(q, v), y)
<1> DEFINE s == Append(q, v)
<1>1. /\ s \in Seq(Exec \cup {Work}) /\ Len(s) = Len(q) + 1 /\ Len(q) \in Nat
      /\ \A i \in 1..Len(q) : s[i] = q[i]
      /\ s[Len(q) + 1] = v
  BY AppendProperties, LenProperties
<1> HIDE DEF s
<1>2. Len(q) + 1 \in 1..Len(s) /\ \A i \in 1..Len(q) : i \in 1..Len(s)
  BY <1>1
<1>3. Contains(s, v)
  BY <1>1, <1>2 DEF Contains
<1>4. \A y : Contains(q, y) => Contains(s, y)
  BY <1>1, <1>2 DEF Contains
<1> QED BY <1>1, <1>3, <1>4 DEF s

\* The invariant after a step after which what ran runs, and what was queued
\* is queued unless its flag is down.
LEMMA ExecutorsStay ==
    ASSUME ExecutorsInd, E!TypeOK',
           \A x \in Exec : Running(x) => Running(x)',
           \A x \in Exec : scheduled'[x] =>
              \/ \E y \in Exec : Running(y)' /\ Contains(ready'[y], x)
              \/ /\ scheduled[x]
                 /\ \A y \in Exec : Contains(ready[y], x) => Contains(ready'[y], x),
           \A x \in Exec : ready'[x] # <<>> =>
              \/ Running(x)' \/ scheduled'[x]
              \/ ready[x] # <<>> /\ (scheduled[x] => scheduled'[x])
    PROVE  ExecutorsInd'
<1>1. ScheduledIsQueued'
  <2> SUFFICES ASSUME NEW x \in Exec, scheduled'[x]
               PROVE  \E y \in Exec : Running(y)' /\ Contains(ready'[y], x)
    BY DEF ScheduledIsQueued
  <2> QED BY DEF ExecutorsInd, ScheduledIsQueued
<1>2. Covered'
  BY DEF ExecutorsInd, Covered
<1> QED BY <1>1, <1>2 DEF ExecutorsInd

----------------------------------------------------------------------------
(* Every step keeps it.                                                    *)

LEMMA SubmitKeeps ==
    ASSUME ExecutorsInd, NEW e \in Exec, E!Submit(e)
    PROVE  ExecutorsInd'
<1> DEFINE list == [ready EXCEPT ![e] = Append(ready[e], Work)]
<1>1. /\ ready \in [Exec -> Seq(Exec \cup {Work})]
      /\ scheduled \in [Exec -> BOOLEAN]
      /\ frames \in Seq(FrameSet) /\ Top(frames)
  BY StackTyped DEF ExecutorsInd
<1>2. E!RunSoon(e, list)
  BY DEF E!Submit
<1>3. /\ list \in [Exec -> Seq(Exec \cup {Work})]
      /\ \A x \in Exec : x # e => list[x] = ready[x]
      /\ \A x \in Exec : \A y : Contains(ready[x], y) => Contains(list[x], y)
  <2>1. /\ Append(ready[e], Work) \in Seq(Exec \cup {Work})
        /\ \A y : Contains(ready[e], y) => Contains(Append(ready[e], Work), y)
    BY <1>1, IsScheduled
  <2>2. /\ list[e] = Append(ready[e], Work)
        /\ \A x \in Exec : x # e => list[x] = ready[x]
    BY <1>1
  <2> QED BY <1>1, <2>1, <2>2
<1> HIDE DEF list
<1>4. CASE Running(e) /\ ready' = list /\ UNCHANGED <<scheduled, frames>>
  <2>1. E!TypeOK'
    BY <1>1, <1>3, <1>4, StackTyped DEF ExecutorsInd, E!TypeOK
  <2>2. \A x \in Exec : Running(x) => Running(x)'
    BY <1>4 DEF Running
  <2> QED BY <1>3, <1>4, <2>1, <2>2, ExecutorsStay
<1>5. CASE /\ E!Defers(e)
           /\ scheduled' = [scheduled EXCEPT ![e] = TRUE]
           /\ ready' = [list EXCEPT ![E!Current] = Append(list[E!Current], e)]
           /\ UNCHANGED frames
  <2>1. E!Current \in Exec /\ Running(E!Current)
    <3>1. /\ Head(frames) = frames[1] /\ frames[1] \in FrameSet
          /\ 1 \in 1..Len(frames)
      BY <1>1, <1>5, EmptySeq, LenProperties, ElementOfSeq DEF E!Defers
    <3> QED BY <3>1 DEF E!Current, Running, FrameSet
  <2>2. /\ ready' \in [Exec -> Seq(Exec \cup {Work})]
        /\ Contains(ready'[E!Current], e)
        /\ \A x \in Exec : x # E!Current => ready'[x] = list[x]
        /\ \A x \in Exec : \A y : Contains(list[x], y) => Contains(ready'[x], y)
    <3>1. /\ Append(list[E!Current], e) \in Seq(Exec \cup {Work})
          /\ Contains(Append(list[E!Current], e), e)
          /\ \A y : Contains(list[E!Current], y) =>
                Contains(Append(list[E!Current], e), y)
      BY <1>3, <2>1, IsScheduled
    <3>2. /\ ready'[E!Current] = Append(list[E!Current], e)
          /\ \A x \in Exec : x # E!Current => ready'[x] = list[x]
      BY <1>3, <1>5, <2>1
    <3>3. ready' \in [Exec -> Seq(Exec \cup {Work})]
      BY <1>3, <1>5, <2>1, <3>1
    <3>4. ASSUME NEW x \in Exec, NEW y, Contains(list[x], y)
          PROVE  Contains(ready'[x], y)
      <4>1. CASE x = E!Current
        BY <3>1, <3>2, <3>4, <4>1
      <4>2. CASE x # E!Current
        BY <3>2, <3>4, <4>2
      <4> QED BY <4>1, <4>2
    <3>5. Contains(ready'[E!Current], e)
      BY <3>1, <3>2
    <3> QED BY <3>2, <3>3, <3>4, <3>5
  <2>3. E!TypeOK'
    BY <1>1, <1>5, <2>2 DEF ExecutorsInd, E!TypeOK
  <2>4. \A x \in Exec : Running(x) => Running(x)'
    BY <1>5 DEF Running
  <2>5. \A x \in Exec : x # e => scheduled'[x] = scheduled[x]
    BY <1>1, <1>5
  <2>6. scheduled'[e]
    BY <1>1, <1>5
  <2>7. ASSUME NEW x \in Exec, scheduled'[x]
        PROVE  \/ \E y \in Exec : Running(y)' /\ Contains(ready'[y], x)
               \/ /\ scheduled[x]
                  /\ \A y \in Exec : Contains(ready[y], x) => Contains(ready'[y], x)
    <3>1. CASE x = e
      BY <2>1, <2>2, <2>4, <3>1
    <3>2. CASE x # e
      BY <1>3, <2>2, <2>5, <2>7, <3>2
    <3> QED BY <3>1, <3>2
  <2>8. ASSUME NEW x \in Exec, ready'[x] # <<>>
        PROVE  \/ Running(x)' \/ scheduled'[x]
               \/ ready[x] # <<>> /\ (scheduled[x] => scheduled'[x])
    <3>1. CASE x = E!Current
      BY <2>1, <2>4, <3>1
    <3>2. CASE x # E!Current
      BY <1>3, <2>2, <2>5, <2>6, <2>8, <3>2
    <3> QED BY <3>1, <3>2
  <2> QED BY <2>3, <2>4, <2>7, <2>8, ExecutorsStay
<1>6. CASE ready' = list /\ E!RunOnce(e, frames)
  <2>1. /\ frames' \in Seq(FrameSet) /\ Top(frames') /\ Running(e)'
        /\ \A x \in Exec : Running(x) => Running(x)'
    <3>1. /\ frames' \in Seq(FrameSet) /\ Top(frames') /\ On(frames', e)
          /\ \A x : On(frames, x) => On(frames', x)
      BY <1>1, <1>6, DrainCalled DEF E!RunOnce
    <3> QED BY <3>1 DEF Running, On
  <2>2. /\ scheduled' \in [Exec -> BOOLEAN] /\ ~scheduled'[e]
        /\ \A x \in Exec : x # e => scheduled'[x] = scheduled[x]
    BY <1>1, <1>6 DEF E!RunOnce
  <2>3. E!TypeOK'
    BY <1>3, <1>6, <2>1, <2>2 DEF E!TypeOK, FrameSet, Top
  <2> QED BY <1>3, <1>6, <2>1, <2>2, <2>3, ExecutorsStay
<1> QED BY <1>2, <1>4, <1>5, <1>6, SameRunning DEF E!RunSoon

LEMMA DrainKeeps ==
    ASSUME ExecutorsInd, NEW e \in Exec, E!Drain(e)
    PROVE  ExecutorsInd'
<1>1. /\ ready \in [Exec -> Seq(Exec \cup {Work})] /\ frames \in Seq(FrameSet)
      /\ ready' = [ready EXCEPT ![e] = Append(ready[e], Work)]
      /\ frames' = <<E!Frame(e)>> \o frames /\ UNCHANGED scheduled
  BY StackTyped DEF ExecutorsInd, E!Drain
<1>2. /\ ready' \in [Exec -> Seq(Exec \cup {Work})]
      /\ \A x \in Exec : x # e => ready'[x] = ready[x]
      /\ \A x \in Exec : \A y : Contains(ready[x], y) => Contains(ready'[x], y)
  <2>1. /\ Append(ready[e], Work) \in Seq(Exec \cup {Work})
        /\ \A y : Contains(ready[e], y) => Contains(Append(ready[e], Work), y)
    BY <1>1, IsScheduled
  <2>2. /\ ready'[e] = Append(ready[e], Work)
        /\ \A x \in Exec : x # e => ready'[x] = ready[x]
        /\ ready' \in [Exec -> Seq(Exec \cup {Work})]
    BY <1>1, <2>1
  <2> QED BY <2>1, <2>2
<1>3. /\ frames' \in Seq(FrameSet) /\ Top(frames') /\ Running(e)'
      /\ \A x \in Exec : Running(x) => Running(x)'
  <2>1. /\ frames' \in Seq(FrameSet) /\ Top(frames') /\ On(frames', e)
        /\ \A x : On(frames, x) => On(frames', x)
    BY <1>1, DrainCalled
  <2> QED BY <2>1 DEF Running, On
<1>4. E!TypeOK'
  BY <1>1, <1>2, <1>3 DEF ExecutorsInd, E!TypeOK, FrameSet, Top
<1> QED BY <1>1, <1>2, <1>3, <1>4, ExecutorsStay

LEMMA BeginKeeps == ExecutorsInd /\ E!Begin => ExecutorsInd'
<1> SUFFICES ASSUME ExecutorsInd, E!Begin PROVE ExecutorsInd'
  OBVIOUS
<1>1. /\ E!TypeOK /\ frames \in Seq(FrameSet) /\ frames # <<>>
      /\ ready[E!Current] # <<>> /\ Head(ready[E!Current]) = Work
      /\ ready' = [ready EXCEPT ![E!Current] = Tail(ready[E!Current])]
      /\ frames' = [frames EXCEPT ![1].entry = Work] /\ UNCHANGED scheduled
  BY StackTyped DEF ExecutorsInd, E!Begin
<1>2. /\ ready' \in [Exec -> Seq(Exec \cup {Work})]
      /\ \A x \in Exec : ready'[x] # <<>> => ready[x] # <<>>
      /\ \A x \in Exec : \A y : Contains(ready[x], y) =>
            y = Work \/ Contains(ready'[x], y)
  BY <1>1, EntryTaken
<1>3. /\ frames' \in Seq(FrameSet) /\ Top(frames')
      /\ \A x \in Exec : Running(x) => Running(x)'
  <2>1. /\ frames' \in Seq(FrameSet) /\ Top(frames')
        /\ \A x : On(frames, x) => On(frames', x)
    BY <1>1, EntryMarked
  <2> QED BY <2>1 DEF Running, On
<1>4. E!TypeOK'
  BY <1>1, <1>2, <1>3 DEF E!TypeOK, FrameSet, Top
<1> QED BY <1>1, <1>2, <1>3, <1>4, ExecutorsStay

LEMMA BeginRunOnceKeeps ==
    ASSUME ExecutorsInd, NEW e \in Exec, E!BeginRunOnce(e)
    PROVE  ExecutorsInd'
<1>1. /\ E!TypeOK /\ frames \in Seq(FrameSet) /\ frames # <<>> /\ Top(frames)
      /\ scheduled \in [Exec -> BOOLEAN]
      /\ ready[E!Current] # <<>> /\ Head(ready[E!Current]) = e
      /\ ready' = [ready EXCEPT ![E!Current] = Tail(ready[E!Current])]
  BY StackTyped DEF ExecutorsInd, E!BeginRunOnce
<1>2. /\ ready' \in [Exec -> Seq(Exec \cup {Work})]
      /\ \A x \in Exec : ready'[x] # <<>> => ready[x] # <<>>
      /\ \A x \in Exec : \A y : Contains(ready[x], y) =>
            y = e \/ Contains(ready'[x], y)
  BY <1>1, EntryTaken
<1>3. /\ scheduled' = [scheduled EXCEPT ![e] = FALSE]
      /\ frames' \in Seq(FrameSet) /\ Top(frames') /\ Running(e)'
      /\ \A x \in Exec : Running(x) => Running(x)'
  <2>1. CASE Running(e)
    BY <1>1, <2>1, SameRunning DEF E!BeginRunOnce, Running
  <2>2. CASE ~Running(e)
    <3> DEFINE fs == [frames EXCEPT ![1].entry = e]
    <3>1. fs \in Seq(FrameSet) /\ \A x : On(frames, x) => On(fs, x)
      BY <1>1, EntryMarked
    <3>2. frames' = <<E!Frame(e)>> \o fs /\ scheduled' = [scheduled EXCEPT ![e] = FALSE]
      BY <2>2, SameRunning DEF E!BeginRunOnce, E!RunOnce
    <3> HIDE DEF fs
    <3>3. /\ frames' \in Seq(FrameSet) /\ Top(frames') /\ On(frames', e)
          /\ \A x : On(frames, x) => On(frames', x)
      BY <3>1, <3>2, DrainCalled
    <3> QED BY <3>2, <3>3 DEF Running, On
  <2> QED BY <2>1, <2>2
<1>4. /\ scheduled' \in [Exec -> BOOLEAN] /\ ~scheduled'[e]
      /\ \A x \in Exec : x # e => scheduled'[x] = scheduled[x]
  BY <1>1, <1>3
<1>5. E!TypeOK'
  BY <1>2, <1>3, <1>4 DEF E!TypeOK, FrameSet, Top
<1> QED BY <1>2, <1>3, <1>4, <1>5, ExecutorsStay

LEMMA EndKeeps == ExecutorsInd /\ E!End => ExecutorsInd'
<1> SUFFICES ASSUME ExecutorsInd, E!End PROVE ExecutorsInd'
  OBVIOUS
<1>1. /\ frames \in Seq(FrameSet) /\ frames # <<>>
      /\ frames' = [frames EXCEPT ![1].entry = Idle] /\ UNCHANGED <<ready, scheduled>>
  BY StackTyped DEF ExecutorsInd, E!End
<1>2. /\ frames' \in Seq(FrameSet) /\ Top(frames')
      /\ \A x \in Exec : Running(x) => Running(x)'
  <2>1. /\ frames' \in Seq(FrameSet) /\ Top(frames')
        /\ \A x : On(frames, x) => On(frames', x)
    BY <1>1, EntryMarked
  <2> QED BY <2>1 DEF Running, On
<1>3. E!TypeOK'
  BY <1>1, <1>2 DEF ExecutorsInd, E!TypeOK, FrameSet, Top
<1> QED BY <1>1, <1>2, <1>3, ExecutorsStay

LEMMA LeaveKeeps == ExecutorsInd /\ E!Leave => ExecutorsInd'
<1> SUFFICES ASSUME ExecutorsInd, E!Leave PROVE ExecutorsInd'
  OBVIOUS
<1>1. /\ frames \in Seq(FrameSet) /\ frames # <<>> /\ ready[E!Current] = <<>>
      /\ frames' = E!Unwind(Tail(frames)) /\ UNCHANGED <<ready, scheduled>>
  BY StackTyped DEF ExecutorsInd, E!Leave
<1>2. /\ frames' \in Seq(FrameSet) /\ Top(frames')
      /\ \A x \in Exec : Running(x) => x = E!Current \/ Running(x)'
  <2>1. /\ frames' \in Seq(FrameSet) /\ Top(frames')
        /\ \A x : On(frames, x) => x = E!Current \/ On(frames', x)
    BY <1>1, DrainReturned DEF E!Current
  <2> QED BY <2>1 DEF Running, On
<1>3. E!TypeOK'
  BY <1>1, <1>2 DEF ExecutorsInd, E!TypeOK, FrameSet, Top
<1>4. ScheduledIsQueued'
  <2> SUFFICES ASSUME NEW x \in Exec, scheduled[x]
               PROVE  \E y \in Exec : Running(y)' /\ Contains(ready[y], x)
    BY <1>1 DEF ScheduledIsQueued
  <2>1. PICK y \in Exec : Running(y) /\ Contains(ready[y], x)
    BY DEF ExecutorsInd, ScheduledIsQueued
  <2>2. y # E!Current
    BY <1>1, <2>1 DEF Contains
  <2> QED BY <1>2, <2>1, <2>2
<1>5. Covered'
  BY <1>1, <1>2 DEF ExecutorsInd, Covered
<1> QED BY <1>3, <1>4, <1>5 DEF ExecutorsInd

LEMMA ExecutorsInvariance == E!Spec => []ExecutorsInd
<1>1. E!Init => ExecutorsInd
  BY DEF E!Init, ExecutorsInd, E!TypeOK, ScheduledIsQueued, Covered
<1>2. ExecutorsInd /\ [E!Next]_(E!vars) => ExecutorsInd'
  <2> SUFFICES ASSUME ExecutorsInd, [E!Next]_(E!vars) PROVE ExecutorsInd'
    OBVIOUS
  <2>1. CASE UNCHANGED E!vars
    BY <2>1 DEF E!vars, ExecutorsInd, E!TypeOK, ScheduledIsQueued, Covered, Running
  <2> QED BY <2>1, SubmitKeeps, DrainKeeps, BeginKeeps, BeginRunOnceKeeps,
             EndKeeps, LeaveKeeps DEF E!Next
<1> QED BY <1>1, <1>2, PTL DEF E!Spec

\* The values of all variables, for any number of executors.
THEOREM ExecutorsTyped == E!Spec => []E!TypeOK
<1>1. ExecutorsInd => E!TypeOK
  BY DEF ExecutorsInd
<1> QED BY <1>1, ExecutorsInvariance, PTL

\* An executor that does not run but has been told to is in the list of one
\* that runs: no call to it is lost.
THEOREM CallsQueued == E!Spec => []ScheduledIsQueued
<1>1. ExecutorsInd => ScheduledIsQueued
  BY DEF ExecutorsInd
<1> QED BY <1>1, ExecutorsInvariance, PTL

\* When the thread goes back to the event loop all that was submitted to any
\* executor has run, whichever of them called which.
THEOREM AllDrained == E!Spec => []NothingLeftBehind
<1>1. ExecutorsInd => NothingLeftBehind
  <2> SUFFICES ASSUME ExecutorsInd, frames = <<>>, NEW e \in Exec
               PROVE  ready[e] = <<>> /\ ~scheduled[e]
    BY DEF NothingLeftBehind
  <2>1. \A x \in Exec : ~Running(x)
    BY DEF Running
  <2>2. ~scheduled[e]
    BY <2>1 DEF ExecutorsInd, ScheduledIsQueued
  <2> QED BY <2>1, <2>2 DEF ExecutorsInd, Covered
<1> QED BY <1>1, ExecutorsInvariance, PTL
=============================================================================
