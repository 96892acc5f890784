---------------------------- MODULE FamilyProofs ----------------------------
(***************************************************************************)
(* UnsafeNursery, Event and ParkingLot, and Shared, and what the whole     *)
(* family of Awaitable owes to those who await it.                         *)
(***************************************************************************)
EXTENDS AwaitableProofs

----------------------------------------------------------------------------
(* UnsafeNursery.                                                          *)

\* The checker in Nursery is this one.
LEMMA NurseryChecker ==
    /\ Un!Checker = Checker /\ Un!Fresh = Fresh /\ Un!BeforeSuspend = BeforeSuspend
    /\ \A c : /\ Un!Legal(c) <=> Legal(c)
              /\ Un!Pending(c) <=> Pending(c)
    /\ \A c : /\ Un!AboutToSetExecutor(c) = AboutToSetExecutor(c)
              /\ Un!AboutToSuspend(c) = AboutToSuspend(c)
              /\ Un!SuspendThrew(c) = SuspendThrew(c)
              /\ Un!AboutToCancel(c) = AboutToCancel(c)
              /\ Un!AboutToResume(c) = AboutToResume(c)
              /\ Un!Resumed(c) = Resumed(c)
              /\ Un!Reset(c) = Reset(c)
    /\ \A c, val : /\ Un!ReadyReturned(c, val) = ReadyReturned(c, val)
                   /\ Un!EarlyCancelReturned(c, val) = EarlyCancelReturned(c, val)
                   /\ Un!CancelReturned(c, val) = CancelReturned(c, val)
                   /\ Un!MustResumeReturned(c, val) = MustResumeReturned(c, val)
    /\ \A c, moves : Un!Step(c, moves) = Step(c, moves)
<1>1. \A c, moves : Un!Step(c, moves) = Step(c, moves)
  BY DEF Un!Step, Step
<1>2. Un!CheckerState = CheckerState /\ Un!BeforeSuspend = BeforeSuspend /\ Un!Fresh = Fresh
  BY DEF Un!CheckerState, CheckerState, Un!BeforeSuspend, BeforeSuspend, Un!Fresh, Fresh
<1>3. \A c : /\ Un!AboutToSetExecutor(c) = AboutToSetExecutor(c)
             /\ Un!AboutToSuspend(c) = AboutToSuspend(c)
             /\ Un!SuspendThrew(c) = SuspendThrew(c)
             /\ Un!AboutToCancel(c) = AboutToCancel(c)
             /\ Un!AboutToResume(c) = AboutToResume(c)
             /\ Un!Resumed(c) = Resumed(c)
             /\ Un!Reset(c) = Reset(c)
  BY <1>1, <1>2 DEF Un!AboutToSetExecutor, AboutToSetExecutor, Un!AboutToSuspend, AboutToSuspend,
     Un!SuspendThrew, SuspendThrew, Un!AboutToCancel, AboutToCancel, Un!AboutToResume,
     AboutToResume, Un!Resumed, Resumed, Un!Reset, Reset
<1>4. \A c, val : /\ Un!ReadyReturned(c, val) = ReadyReturned(c, val)
                  /\ Un!EarlyCancelReturned(c, val) = EarlyCancelReturned(c, val)
                  /\ Un!CancelReturned(c, val) = CancelReturned(c, val)
                  /\ Un!MustResumeReturned(c, val) = MustResumeReturned(c, val)
  BY <1>1 DEF Un!ReadyReturned, ReadyReturned, Un!EarlyCancelReturned, EarlyCancelReturned,
     Un!CancelReturned, CancelReturned, Un!MustResumeReturned, MustResumeReturned
<1> QED BY <1>1, <1>2, <1>3, <1>4 DEF Un!Checker, Checker, Un!Legal, Legal, Un!Pending, Pending

(* Its stack and its list.                                                 *)

LEMMA NurseryPush ==
    ASSUME NEW S, NEW s \in Seq(S), NEW f \in S
    PROVE  /\ <<f>> \o s \in Seq(S) /\ <<f>> \o s # <<>>
           /\ Head(<<f>> \o s) = f /\ Tail(<<f>> \o s) = s
           /\ Un!Range(<<f>> \o s) = {f} \cup Un!Range(s)
           /\ Len(<<f>> \o s) = Len(s) + 1
           /\ (<<f>> \o s)[1] = f
           /\ \A i \in 1..Len(s) : (<<f>> \o s)[i + 1] = s[i]
<1> DEFINE n == <<f>> \o s
<1>1. n \in Seq(S) /\ Len(n) = Len(s) + 1 /\ n[1] = f /\ \A i \in 1..Len(s) : n[i + 1] = s[i]
  OBVIOUS
<1>2. n # <<>> /\ Head(n) = f /\ Tail(n) = s
  OBVIOUS
<1>3. DOMAIN s = 1..Len(s) /\ DOMAIN n = 1..(Len(s) + 1)
  BY <1>1
<1>4. Un!Range(n) = {f} \cup Un!Range(s)
  <2> HIDE DEF n
  <2>1. ASSUME NEW x \in Un!Range(n) PROVE x \in {f} \cup Un!Range(s)
    <3>1. PICK i \in 1..(Len(s) + 1) : x = n[i]
      BY <1>3 DEF Un!Range
    <3>2. CASE i = 1
      BY <3>1, <3>2, <1>1
    <3>3. CASE i # 1
      <4>1. i - 1 \in 1..Len(s) /\ (i - 1) + 1 = i
        BY <3>3
      <4> QED BY <3>1, <4>1, <1>1, <1>3 DEF Un!Range
    <3> QED BY <3>2, <3>3
  <2>2. ASSUME NEW x \in Un!Range(s) PROVE x \in Un!Range(n)
    <3>1. PICK i \in 1..Len(s) : x = s[i]
      BY <1>3 DEF Un!Range
    <3>2. i + 1 \in 1..(Len(s) + 1)
      OBVIOUS
    <3> QED BY <3>1, <3>2, <1>1, <1>3 DEF Un!Range
  <2>3. f \in Un!Range(n)
    BY <1>1, <1>3 DEF Un!Range
  <2> QED BY <2>1, <2>2, <2>3
<1> QED BY <1>1, <1>2, <1>4

LEMMA NurseryPop ==
    ASSUME NEW S, NEW s \in Seq(S), s # <<>>
    PROVE  /\ Head(s) \in S /\ Tail(s) \in Seq(S)
           /\ s = <<Head(s)>> \o Tail(s)
           /\ Un!Range(s) = {Head(s)} \cup Un!Range(Tail(s))
<1>1. Head(s) \in S /\ Tail(s) \in Seq(S) /\ s = <<Head(s)>> \o Tail(s)
  OBVIOUS
<1>2. Un!Range(<<Head(s)>> \o Tail(s)) = {Head(s)} \cup Un!Range(Tail(s))
  BY <1>1, NurseryPush
<1> QED BY <1>1, <1>2

LEMMA NurseryElements ==
    ASSUME NEW S, NEW s \in Seq(S)
    PROVE  /\ Un!Range(s) \subseteq S /\ (s = <<>> <=> Un!Range(s) = {})
           /\ Un!Range(<<>>) = {}
<1>1. Un!Range(<<>>) = {} /\ Un!Range(s) \subseteq S
  BY DEF Un!Range
<1>2. s # <<>> => Head(s) \in Un!Range(s)
  BY NurseryPop
<1> QED BY <1>1, <1>2

LEMMA NurseryStacks ==
    ASSUME NEW S, NEW s \in Seq(S), NEW f \in S
    PROVE  Un!Stacked(<<f>> \o s) <=> Un!MayCall(f, s) /\ Un!Stacked(s)
<1>0. Len(s) \in Nat
  OBVIOUS
<1> DEFINE n == <<f>> \o s
<1>1. n \in Seq(S) /\ Len(n) = Len(s) + 1 /\ n[1] = f /\ \A i \in 1..Len(s) : n[i + 1] = s[i]
  BY NurseryPush
<1>2. DOMAIN s = 1..Len(s) /\ DOMAIN n = 1..(Len(s) + 1) /\ Len(s) \in Nat
  BY <1>1
<1>3. SubSeq(n, 1 + 1, Len(n)) = s
  BY <1>1, NurseryPush, TailIsSubSeq
<1>4. ASSUME NEW i \in 1..Len(s)
      PROVE  SubSeq(n, (i + 1) + 1, Len(n)) = SubSeq(s, i + 1, Len(s))
  <2>1. CASE i = Len(s)
    <3>1. SubSeq(s, i + 1, Len(s)) = <<>>
      BY <2>1, <1>2, SubSeqEmpty
    <3>2. SubSeq(n, (i + 1) + 1, Len(n)) = <<>>
      BY <2>1, <1>1, <1>2, SubSeqEmpty
    <3> QED BY <3>1, <3>2
  <2>2. CASE i # Len(s)
    <3>1. /\ (i + 1) + 1 \in 1 + 1..1 + Len(s) /\ Len(s) + 1 \in 1 + 1..1 + Len(s)
          /\ ((i + 1) + 1) - 1 = i + 1 /\ (Len(s) + 1) - 1 = Len(s)
      BY <2>2, <1>0
    <3>2. <<f>> \in Seq(S) /\ Len(<<f>>) = 1
      OBVIOUS
    <3> DEFINE m == (i + 1) + 1
               l == Len(s) + 1
    <3> HIDE DEF m, l
    <3>3. m \in Len(<<f>>) + 1..Len(<<f>>) + Len(s) /\ l \in Len(<<f>>) + 1..Len(<<f>>) + Len(s)
      BY <3>1, <3>2 DEF m, l
    <3>4. SubSeq(<<f>> \o s, m, l) = SubSeq(s, m - Len(<<f>>), l - Len(<<f>>))
      BY <3>2, <3>3, SubSeqOfConcat2
    <3>5. SubSeq(<<f>> \o s, (i + 1) + 1, Len(s) + 1) = SubSeq(s, i + 1, Len(s))
      BY <3>1, <3>2, <3>4 DEF m, l
    <3> QED BY <3>5, <1>1
  <2> QED BY <2>1, <2>2
<1> HIDE DEF n
<1>5. ASSUME Un!Stacked(n) PROVE Un!MayCall(f, s) /\ Un!Stacked(s)
  <2>1. Un!MayCall(f, s)
    <3>1. 1 \in DOMAIN n
      BY <1>2
    <3>2. Un!MayCall(n[1], SubSeq(n, 1 + 1, Len(n)))
      BY <3>1, <1>5 DEF Un!Stacked
    <3> QED BY <3>2, <1>1, <1>3
  <2>2. ASSUME NEW i \in 1..Len(s) PROVE Un!MayCall(s[i], SubSeq(s, i + 1, Len(s)))
    <3>1. i + 1 \in DOMAIN n
      BY <1>2
    <3>2. Un!MayCall(n[i + 1], SubSeq(n, (i + 1) + 1, Len(n)))
      BY <3>1, <1>5 DEF Un!Stacked
    <3> QED BY <3>2, <1>1, <1>4
  <2> QED BY <2>1, <2>2, <1>2 DEF Un!Stacked
<1>6. ASSUME Un!MayCall(f, s), Un!Stacked(s) PROVE Un!Stacked(n)
  <2> SUFFICES ASSUME NEW k \in 1..(Len(s) + 1) PROVE Un!MayCall(n[k], SubSeq(n, k + 1, Len(n)))
    BY <1>2 DEF Un!Stacked
  <2>1. CASE k = 1
    BY <2>1, <1>1, <1>3, <1>6
  <2>2. CASE k # 1
    <3>1. PICK i \in 1..Len(s) : k = i + 1
      <4>1. k - 1 \in 1..Len(s) /\ k = (k - 1) + 1
        BY <2>2, <1>2
      <4> QED BY <4>1
    <3>2. Un!MayCall(s[i], SubSeq(s, i + 1, Len(s)))
      BY <1>2, <1>6 DEF Un!Stacked
    <3> QED BY <3>1, <3>2, <1>1, <1>4
  <2> QED BY <2>1, <2>2
<1> QED BY <1>5, <1>6 DEF n

\* Where the nursery is being closed its executor runs.
LEMMA NurseryDrains ==
    ASSUME NEW S, NEW s \in Seq(S), s # <<>>, Un!Stacked(s),
           Head(s).fn \notin {"close", "destroy"},
           NEW f \in Un!Range(s), f.fn \in {"close", "destroy"}
    PROVE  \E g \in Un!Range(s) : g.fn = "drain"
<1>1. DOMAIN s = 1..Len(s) /\ Len(s) \in Nat
  OBVIOUS
<1>2. PICK i \in 1..Len(s) : f = s[i]
  BY <1>1 DEF Un!Range
<1>3. i - 1 \in 1..Len(s)
  <2>1. i # 1
    BY <1>2
  <2> QED BY <2>1, <1>1
<1>4. Un!MayCall(s[i - 1], SubSeq(s, (i - 1) + 1, Len(s)))
  BY <1>1, <1>3 DEF Un!Stacked
<1>5. SubSeq(s, (i - 1) + 1, Len(s)) # <<>> /\ Head(SubSeq(s, (i - 1) + 1, Len(s))) = f
  <2>1. (i - 1) + 1 = i /\ Len(s) \in i..Len(s)
    BY <1>1
  <2>2. Head(SubSeq(s, i, Len(s))) = s[i]
    BY <1>1, <2>1, HeadTailOfSubSeq
  <2>3. Len(SubSeq(s, i, Len(s))) # 0
    <3>1. \A k \in i..Len(s) : s[k] \in S
      BY <1>1
    <3> QED BY <1>1, <3>1, SubSeqProperties
  <2>4. SubSeq(s, i, Len(s)) # <<>>
    BY <2>3, Len(<<>>) = 0
  <2>5. SubSeq(s, (i - 1) + 1, Len(s)) = SubSeq(s, i, Len(s))
    BY <2>1
  <2> QED BY <2>2, <2>4, <2>5, <1>2
<1>6. s[i - 1].fn = "drain"
  BY <1>4, <1>5 DEF Un!MayCall
<1> QED BY <1>1, <1>3, <1>6 DEF Un!Range

LEMMA NurseryListed ==
    ASSUME NEW q \in Seq(Un!Entries), Un!Listed(q)
    PROVE  /\ \A e \in Un!Entries :
                 /\ Append(q, e) \in Seq(Un!Entries)
                 /\ Un!Range(Append(q, e)) = Un!Range(q) \cup {e}
                 /\ \/ e.do = "cancel"
                    \/ e \notin Un!Range(q) /\ \A d \in Un!Range(q) : d.do # "resume"
                    => Un!Listed(Append(q, e))
           /\ q # <<>> =>
                 /\ Head(q) \in Un!Entries /\ Tail(q) \in Seq(Un!Entries)
                 /\ Un!Range(q) = {Head(q)} \cup Un!Range(Tail(q))
                 /\ Un!Listed(Tail(q))
                 /\ Head(q).do = "resume" => \A d \in Un!Range(Tail(q)) : d.do = "cancel"
                 /\ Head(q).do = "destroy" => Head(q) \notin Un!Range(Tail(q))
<1>1. DOMAIN q = 1..Len(q) /\ Len(q) \in Nat
  OBVIOUS
<1>2. ASSUME NEW e \in Un!Entries
      PROVE  /\ Append(q, e) \in Seq(Un!Entries)
             /\ Un!Range(Append(q, e)) = Un!Range(q) \cup {e}
             /\ \/ e.do = "cancel"
                \/ e \notin Un!Range(q) /\ \A d \in Un!Range(q) : d.do # "resume"
                => Un!Listed(Append(q, e))
  <2> DEFINE n == Append(q, e)
  <2>1. /\ n \in Seq(Un!Entries) /\ Len(n) = Len(q) + 1 /\ n[Len(q) + 1] = e
        /\ \A i \in 1..Len(q) : n[i] = q[i]
    OBVIOUS
  <2>2. DOMAIN n = 1..(Len(q) + 1)
    BY <2>1
  <2> HIDE DEF n
  <2>3. Un!Range(n) = Un!Range(q) \cup {e}
    <3>1. \A i \in 1..(Len(q) + 1) : i = Len(q) + 1 \/ i \in 1..Len(q)
      BY <1>1
    <3>2. Len(q) + 1 \in 1..(Len(q) + 1) /\ \A i \in 1..Len(q) : i \in 1..(Len(q) + 1)
      BY <1>1
    <3> QED BY <1>1, <2>1, <2>2, <3>1, <3>2 DEF Un!Range
  <2>4. ASSUME \/ e.do = "cancel"
               \/ e \notin Un!Range(q) /\ \A d \in Un!Range(q) : d.do # "resume"
        PROVE  Un!Listed(n)
    <3> SUFFICES ASSUME NEW i \in 1..(Len(q) + 1), NEW j \in 1..(Len(q) + 1), i < j
                 PROVE  /\ n[i].do = "resume" => n[j].do = "cancel"
                        /\ n[i].do = "destroy" => n[j] # n[i]
      BY <2>2 DEF Un!Listed
    <3>1. i \in 1..Len(q) /\ n[i] = q[i] /\ q[i] \in Un!Range(q)
      BY <1>1, <2>1 DEF Un!Range
    <3>2. CASE j \in 1..Len(q)
      <4>1. n[j] = q[j]
        BY <3>2, <2>1
      <4> QED BY <3>1, <3>2, <4>1, <1>1 DEF Un!Listed
    <3>3. CASE j = Len(q) + 1
      <4>1. n[j] = e
        BY <3>3, <2>1
      <4> QED BY <3>1, <4>1, <2>4
    <3> QED BY <3>2, <3>3
  <2> QED BY <2>1, <2>3, <2>4 DEF n
<1>3. ASSUME q # <<>>
      PROVE  /\ Head(q) \in Un!Entries /\ Tail(q) \in Seq(Un!Entries)
             /\ Un!Range(q) = {Head(q)} \cup Un!Range(Tail(q))
             /\ Un!Listed(Tail(q))
             /\ Head(q).do = "resume" => \A d \in Un!Range(Tail(q)) : d.do = "cancel"
             /\ Head(q).do = "destroy" => Head(q) \notin Un!Range(Tail(q))
  <2> DEFINE n == Tail(q)
  <2>1. Head(q) \in Un!Entries /\ n \in Seq(Un!Entries) /\ Un!Range(q) = {Head(q)} \cup Un!Range(n)
    BY <1>3, NurseryPop
  <2>2. /\ Len(n) = Len(q) - 1 /\ Head(q) = q[1]
        /\ \A i \in 1..Len(n) : n[i] = q[i + 1]
    <3>1. Len(Tail(q)) = Len(q) - 1 /\ \A i \in 1..Len(Tail(q)) : Tail(q)[i] = q[i + 1]
      BY <1>3, HeadTailProperties
    <3>2. Head(q) = q[1]
      OBVIOUS
    <3> QED BY <3>1, <3>2
  <2>3. DOMAIN n = 1..Len(n) /\ 1 \in DOMAIN q
    BY <1>1, <1>3, <2>1
  <2> HIDE DEF n
  <2>4. \A i \in 1..Len(n) : i + 1 \in DOMAIN q /\ 1 < i + 1
    BY <1>1, <2>2
  <2>5. Un!Listed(n)
    BY <2>2, <2>3, <2>4, <1>1 DEF Un!Listed
  <2>6. ASSUME NEW d \in Un!Range(n)
        PROVE  /\ q[1].do = "resume" => d.do = "cancel"
               /\ q[1].do = "destroy" => d # q[1]
    <3>1. PICK i \in 1..Len(n) : d = n[i]
      BY <2>3 DEF Un!Range
    <3> QED BY <3>1, <2>2, <2>3, <2>4 DEF Un!Listed
  <2> QED BY <2>1, <2>2, <2>5, <2>6 DEF n
<1> QED BY <1>2, <1>3

(* What the invariant says.                                                *)

NurseryTypes ==
    /\ above \in [Joiners -> Checker] /\ below \in [{} -> Checker]
    /\ \A p \in Joiners : Legal(above[p])
    /\ v1 \in [Tasks -> {"no", "alive", "asked", "leaving", "ended"}]
    /\ v2 \in BOOLEAN /\ v7 \in BOOLEAN
    /\ v3 \in Joiners \cup {Closure, Nobody}
    /\ v4 \in {"none", "request", "error"}
    /\ v5 \in Seq(Un!Entries) /\ v6 \in Seq(Un!Frames)
    /\ v8 \in 0..MaxQueued /\ v9 \in 0..MaxLate

NurserySays ==
    /\ NurseryTypes
    /\ over \in {"no", "destroyed", "terminated", "dangling"}
    /\ over = "no" => Un!Alive
    /\ over # "no" => Un!ClosedEmpty

LEMMA NurseryMeans == Un!Inv => NurserySays
BY NurseryChecker DEF Un!Inv, Un!TypeOK, Un!ProtocolTypeOK, NurseryTypes, NurserySays

LEMMA NurseryGoesOn ==
    ASSUME NurserySays'
    PROVE  Un!Inv'
<1>1. /\ above' \in [Joiners -> Un!Checker] /\ below' \in [{} -> Un!Checker]
      /\ above' \in [DOMAIN above' -> Un!Checker] /\ below' \in [DOMAIN below' -> Un!Checker]
  BY NurseryChecker DEF NurserySays, NurseryTypes
<1>2. Un!ProtocolTypeOK'
  BY <1>1 DEF Un!ProtocolTypeOK, NurserySays
<1> QED BY <1>1, <1>2, NurseryChecker DEF Un!Inv, Un!TypeOK, NurseryTypes, NurserySays

LEMMA NurseryBegins == NurserySays => Un!Inv
<1> SUFFICES ASSUME NurserySays PROVE Un!Inv
  OBVIOUS
<1>1. /\ above \in [Joiners -> Un!Checker] /\ below \in [{} -> Un!Checker]
      /\ above \in [DOMAIN above -> Un!Checker] /\ below \in [DOMAIN below -> Un!Checker]
  BY NurseryChecker DEF NurserySays, NurseryTypes
<1>2. Un!ProtocolTypeOK
  BY <1>1 DEF Un!ProtocolTypeOK, NurserySays
<1> QED BY <1>1, <1>2, NurseryChecker DEF Un!Inv, Un!TypeOK, NurseryTypes, NurserySays

\* What is on the stack, and on the list.
LEMMA NurseryHolds ==
    ASSUME NurseryTypes
    PROVE  /\ Un!Range(v6) \subseteq Un!Frames /\ Un!Range(v5) \subseteq Un!Entries
           /\ v6 = <<>> <=> Un!Range(v6) = {}
           /\ v5 = <<>> <=> Un!Range(v5) = {}
           /\ v6 # <<>> => Head(v6) \in Un!Range(v6)
<1>1. v6 \in Seq(Un!Frames) /\ v5 \in Seq(Un!Entries)
  BY DEF NurseryTypes
<1>2. /\ Un!Range(v6) \subseteq Un!Frames
      /\ v6 = <<>> <=> Un!Range(v6) = {}
  BY <1>1, NurseryElements
<1>3. Un!Range(v5) \subseteq Un!Entries /\ (v5 = <<>> <=> Un!Range(v5) = {})
  BY <1>1, NurseryElements
<1>4. v6 # <<>> => Un!Range(v6) = {Head(v6)} \cup Un!Range(Tail(v6))
  BY <1>1, NurseryPop
<1> QED BY <1>2, <1>3, <1>4

LEMMA NurseryInit == Un!Init => Un!Inv
<1> SUFFICES ASSUME Un!Init PROVE Un!Inv
  OBVIOUS
<1>1. /\ above = [p \in Joiners |-> Fresh] /\ below = [c \in {} |-> Fresh] /\ over = "no"
      /\ v1 = [t \in Tasks |-> "no"] /\ v2 = TRUE /\ v3 = Nobody /\ v4 = "none"
      /\ v5 = <<>> /\ v6 = <<>> /\ v7 = FALSE /\ v8 = 0 /\ v9 = 0
  BY NurseryChecker DEF Un!Init, Un!ProtocolInit
<1>2. Fresh \in Checker /\ Legal(Fresh) /\ ~Pending(Fresh)
  BY DEF Fresh, Checker, CheckerState, Legal, Pending
<1>3. NurseryTypes
  <2>1. above \in [Joiners -> Checker] /\ below \in [{} -> Checker] /\ \A p \in Joiners : Legal(above[p])
    BY <1>1, <1>2
  <2>2. v8 \in 0..MaxQueued /\ v9 \in 0..MaxLate
    BY <1>1, ConstantsAssumption
  <2>3. v5 \in Seq(Un!Entries) /\ v6 \in Seq(Un!Frames)
    BY <1>1
  <2> QED BY <1>1, <2>1, <2>2, <2>3 DEF NurseryTypes
<1>4. Un!Range(v6) = {} /\ Un!Range(v5) = {}
  BY <1>1, <1>3, NurseryHolds
<1>5. Un!Living = {}
  BY <1>1 DEF Un!Living
<1>6. Un!TasksLeave({}, {})
  BY <1>1 DEF Un!TasksLeave
<1>7. Un!JoinersWait({}, {})
  BY <1>1, <1>2, NurseryChecker, ConstantsAssumption DEF Un!JoinersWait
<1>8. Un!ExecutorStays({}, {}) /\ Un!GoesOnSoon({}, {})
  BY <1>1, <1>5 DEF Un!ExecutorStays, Un!GoesOnSoon
<1>9. Un!Stacked(v6) /\ Un!Listed(v5)
  BY <1>1 DEF Un!Stacked, Un!Listed
<1>10. Un!Alive
  BY <1>1, <1>4, <1>6, <1>7, <1>8, <1>9 DEF Un!Alive
<1> QED BY <1>1, <1>3, <1>10, NurseryBegins DEF NurserySays

LEMMA NurseryStutters ==
    ASSUME Un!Inv, UNCHANGED <<above, below, over, v1, v2, v3, v4, v5, v6, v7, v8, v9>>
    PROVE  Un!Inv'
<1>1. NurserySays
  BY NurseryMeans
<1>2. NurseryTypes'
  BY <1>1 DEF NurserySays, NurseryTypes
<1>3. Un!Alive => Un!Alive'
  BY DEF Un!Alive, Un!TasksLeave, Un!JoinersWait, Un!ExecutorStays, Un!GoesOnSoon, Un!Living, Un!Pending
<1>4. Un!ClosedEmpty => Un!ClosedEmpty'
  BY DEF Un!ClosedEmpty, Un!Living
<1> QED BY <1>1, <1>2, <1>3, <1>4, NurseryGoesOn DEF NurserySays

----------------------------------------------------------------------------
(* The joiners' own steps.                                                 *)

\* A joiner that is in no call, and goes on without waiting, or waits on.
LEMMA NurseryJoinerMoves ==
    ASSUME NurserySays, over = "no", NEW p \in Joiners, NEW c \in Checker, Legal(c),
           Pending(c) <=> Pending(above[p]), Un!GoesFrom(p),
           above' = [above EXCEPT ![p] = c],
           UNCHANGED <<v3, v5, v6>>
    PROVE  /\ above' \in [Joiners -> Checker] /\ \A q \in Joiners : Legal(above'[q])
           /\ Un!JoinersWait(Un!Range(v6), Un!Range(v5))'
<1>1. /\ above \in [Joiners -> Checker] /\ \A q \in Joiners : Legal(above[q])
      /\ Un!JoinersWait(Un!Range(v6), Un!Range(v5))
  BY DEF NurserySays, NurseryTypes, Un!Alive
<1>2. /\ above' \in [Joiners -> Checker] /\ above'[p] = c
      /\ \A q \in Joiners : q # p => above'[q] = above[q]
  BY <1>1
<1>3. \A f \in Un!Range(v6) : f.fn = "earlyCancel" => f.who # p
  BY DEF Un!GoesFrom
<1>4. \A q \in Joiners : Pending(above'[q]) <=> Pending(above[q])
  BY <1>2
<1>5. Un!JoinersWait(Un!Range(v6), Un!Range(v5))'
  BY <1>1, <1>2, <1>3, <1>4, NurseryChecker DEF Un!JoinersWait, Un!Entry, Un!Frame
<1> QED BY <1>1, <1>2, <1>5

LEMMA NurseryJoinerGoes ==
    ASSUME Un!Inv, over = "no", NEW p \in Joiners, NEW c \in Checker, Legal(c),
           ~Pending(c), ~Pending(above[p]), Un!GoesFrom(p),
           above' = [above EXCEPT ![p] = c],
           UNCHANGED <<below, over, v1, v2, v3, v4, v5, v6, v7, v8, v9>>
    PROVE  Un!Inv'
<1>1. NurserySays
  BY NurseryMeans
<1>2. /\ above' \in [Joiners -> Checker] /\ \A q \in Joiners : Legal(above'[q])
      /\ Un!JoinersWait(Un!Range(v6), Un!Range(v5))'
  BY <1>1, NurseryJoinerMoves
<1>3. NurseryTypes'
  BY <1>1, <1>2 DEF NurserySays, NurseryTypes
<1>4. Un!Alive'
  BY <1>1, <1>2 DEF NurserySays, Un!Alive, Un!TasksLeave, Un!ExecutorStays, Un!GoesOnSoon, Un!Living
<1> QED BY <1>1, <1>3, <1>4, NurseryGoesOn DEF NurserySays

LEMMA NurseryReady ==
    ASSUME Un!Inv, NEW p \in Joiners, Un!Ready(p)
    PROVE  Un!Inv'
<1> DEFINE c == ReadyReturned(above[p], ~v2)
<1>1. /\ over = "no" /\ Un!GoesFrom(p) /\ above[p].state \in BeforeSuspend
      /\ Legal(c) /\ above' = [above EXCEPT ![p] = c]
      /\ UNCHANGED <<below, over, v1, v2, v3, v4, v5, v6, v7, v8, v9>>
  BY NurseryChecker DEF Un!Ready, Un!Joins, Un!Calls
<1>2. above[p] \in Checker /\ v2 \in BOOLEAN
  BY NurseryMeans DEF NurserySays, NurseryTypes
<1>3. c \in Checker /\ ~Pending(c)
  <2>1. CASE v2 = TRUE
    <3>1. c = ReadyReturned(above[p], FALSE)
      BY <2>1
    <3> QED BY <3>1, <1>2, ReadyMoves DEF Goes, Pending
  <2>2. CASE v2 = FALSE
    <3>1. c = ReadyReturned(above[p], TRUE)
      BY <2>2
    <3> QED BY <3>1, <1>2, ReadyMoves DEF Goes, Pending
  <2> QED BY <2>1, <2>2, <1>2
<1>4. ~Pending(above[p])
  BY <1>1 DEF Pending, BeforeSuspend
<1> HIDE DEF c
<1> QED BY <1>1, <1>3, <1>4, NurseryJoinerGoes

LEMMA NurseryMustResume ==
    ASSUME Un!Inv, NEW p \in Joiners, Un!MustResume(p)
    PROVE  Un!Inv'
<1> DEFINE c == MustResumeReturned(above[p], v4 # "request")
<1>1. /\ over = "no" /\ Un!GoesFrom(p) /\ Legal(c) /\ above' = [above EXCEPT ![p] = c]
      /\ UNCHANGED <<below, over, v1, v2, v3, v4, v5, v6, v7, v8, v9>>
  BY NurseryChecker DEF Un!MustResume, Un!Calls
<1>2. above[p] \in Checker
  BY NurseryMeans DEF NurserySays, NurseryTypes
<1>3. c \in Checker /\ ~Pending(c) /\ ~Pending(above[p])
  <2>1. CASE v4 # "request"
    <3>1. c = MustResumeReturned(above[p], TRUE)
      BY <2>1
    <3> QED BY <3>1, <1>1, <1>2, MustResumeMoves DEF Goes, Pending, Legal
  <2>2. CASE ~(v4 # "request")
    <3>1. c = MustResumeReturned(above[p], FALSE)
      BY <2>2
    <3> QED BY <3>1, <1>1, <1>2, MustResumeMoves DEF Goes, Pending, Legal
  <2> QED BY <2>1, <2>2
<1> HIDE DEF c
<1> QED BY <1>1, <1>3, NurseryJoinerGoes

LEMMA NurseryResume ==
    ASSUME Un!Inv, NEW p \in Joiners, Un!Resume(p)
    PROVE  Un!Inv'
<1> DEFINE c == AboutToResume(above[p])
<1>1. /\ over = "no" /\ Un!GoesFrom(p) /\ Legal(c) /\ above' = [above EXCEPT ![p] = c]
      /\ UNCHANGED <<below, over, v1, v2, v3, v4, v5, v6, v7, v8, v9>>
  BY NurseryChecker DEF Un!Resume, Un!Calls
<1>2. above[p] \in Checker
  BY NurseryMeans DEF NurserySays, NurseryTypes
<1>3. c \in Checker /\ ~Pending(c) /\ ~Pending(above[p])
  BY <1>1, <1>2, ResumeMoves DEF Goes, Pending, Legal
<1> HIDE DEF c
<1> QED BY <1>1, <1>3, NurseryJoinerGoes

LEMMA NurseryDestroy ==
    ASSUME Un!Inv, NEW p \in Joiners, Un!Destroy(p)
    PROVE  Un!Inv'
<1> DEFINE c == Reset(above[p])
<1>1. /\ over = "no" /\ Un!GoesFrom(p) /\ Legal(c) /\ above' = [above EXCEPT ![p] = c]
      /\ UNCHANGED <<below, over, v1, v2, v3, v4, v5, v6, v7, v8, v9>>
  BY NurseryChecker DEF Un!Destroy, Un!Calls
<1>2. above[p] \in Checker
  BY NurseryMeans DEF NurserySays, NurseryTypes
<1>3. c \in Checker /\ ~Pending(c) /\ ~Pending(above[p])
  BY <1>1, <1>2, ResetMoves DEF Pending, Legal
<1> HIDE DEF c
<1> QED BY <1>1, <1>3, NurseryJoinerGoes

----------------------------------------------------------------------------
(* Its calls.                                                              *)

\* The call in progress, and what it is on.
LEMMA NurseryTop ==
    ASSUME NurserySays, over = "no", v6 # <<>>
    PROVE  /\ Head(v6) \in Un!Frames /\ Tail(v6) \in Seq(Un!Frames)
           /\ v6 = <<Head(v6)>> \o Tail(v6)
           /\ Un!MayCall(Head(v6), Tail(v6)) /\ Un!Stacked(Tail(v6))
           /\ Un!Range(v6) = {Head(v6)} \cup Un!Range(Tail(v6))
           /\ Un!Range(Tail(v6)) \subseteq Un!Frames
<1>1. v6 \in Seq(Un!Frames) /\ Un!Stacked(v6)
  BY DEF NurserySays, NurseryTypes, Un!Alive
<1>2. /\ Head(v6) \in Un!Frames /\ Tail(v6) \in Seq(Un!Frames)
      /\ v6 = <<Head(v6)>> \o Tail(v6)
      /\ Un!Range(v6) = {Head(v6)} \cup Un!Range(Tail(v6))
  BY <1>1, NurseryPop
<1>3. Un!MayCall(Head(v6), Tail(v6)) /\ Un!Stacked(Tail(v6))
  BY <1>1, <1>2, NurseryStacks
<1>4. Un!Range(Tail(v6)) \subseteq Un!Frames
  BY <1>2, NurseryElements
<1> QED BY <1>2, <1>3, <1>4

\* Another call.
LEMMA NurseryCalls ==
    ASSUME NEW s \in Seq(Un!Frames), NEW f \in Un!Frames, Un!Stacked(s), Un!MayCall(f, s)
    PROVE  /\ <<f>> \o s \in Seq(Un!Frames) /\ Un!Stacked(<<f>> \o s) /\ <<f>> \o s # <<>>
           /\ Head(<<f>> \o s) = f /\ Tail(<<f>> \o s) = s
           /\ Un!Range(<<f>> \o s) = {f} \cup Un!Range(s)
BY NurseryPush, NurseryStacks

LEMMA NurseryTwoCalls ==
    ASSUME NEW S, NEW s \in Seq(S), NEW f \in S, NEW g \in S
    PROVE  /\ <<f, g>> \o s = <<f>> \o (<<g>> \o s)
           /\ (<<f>> \o <<g>>) \o s = <<f>> \o (<<g>> \o s)
           /\ (<<f>> \o <<>>) \o s = <<f>> \o s
<1>1. <<f, g>> = <<f>> \o <<g>>
  <2> DEFINE a == <<f, g>>
             b == <<f>> \o <<g>>
  <2>1. a \in Seq(S) /\ Len(a) = 2 /\ a[1] = f /\ a[2] = g
    OBVIOUS
  <2>2. b \in Seq(S) /\ Len(b) = 2 /\ b[1] = f /\ b[2] = g
    BY ConcatProperties
  <2> HIDE DEF a, b
  <2>3. \A i \in 1..Len(a) : i = 1 \/ i = 2
    BY <2>1
  <2>4. a = b
    BY <2>1, <2>2, <2>3, SeqEqual
  <2> QED BY <2>4 DEF a, b
<1> DEFINE x == <<f>>
           y == <<g>>
<1>2. x \in Seq(S) /\ y \in Seq(S)
  OBVIOUS
<1> HIDE DEF x, y
<1>3. (x \o y) \o s = x \o (y \o s)
  BY <1>2, ConcatAssociative
<1>4. x \o <<>> = x
  BY <1>2, ConcatEmptySeq
<1>5. (x \o <<>>) \o s = x \o s
  BY <1>4
<1>6. <<f, g>> \o s = (x \o y) \o s
  BY <1>1 DEF x, y
<1> QED BY <1>3, <1>5, <1>6 DEF x, y

\* A call of the nursery or its executor is no call to close it, unless it is.
NotClosing(s) == s # <<>> => Head(s).fn \notin {"close", "destroy"}

LEMMA NurseryFns ==
    /\ \A fn \in {"runSoon", "drain", "close", "destroy"} :
          /\ Un!Fn(fn) \in Un!Frames /\ Un!Fn(fn).fn = fn /\ Un!Fn(fn).list = {}
          /\ Un!Fn(fn).busy = FALSE
    /\ \A fn \in {"continuation"} : \A t \in Tasks : Un!Frame(fn, t, {}) \in Un!Frames
    /\ \A p \in Joiners \cup {Closure} : Un!Frame("resume", p, {}) \in Un!Frames
    /\ \A p \in Joiners : Un!Frame("earlyCancel", p, {}) \in Un!Frames
    /\ \A l \in SUBSET Tasks : Un!Frame("captured", Nobody, l) \in Un!Frames
    /\ \A fn, w, l : /\ Un!Frame(fn, w, l).fn = fn /\ Un!Frame(fn, w, l).who = w
                     /\ Un!Frame(fn, w, l).list = l /\ Un!Frame(fn, w, l).busy = FALSE
BY DEF Un!Fn, Un!Frame, Un!Frames

LEMMA NurseryRunSoonCalled ==
    ASSUME NEW s \in Seq(Un!Frames), NotClosing(s)
    PROVE  Un!MayCall(Un!Fn("runSoon"), s)
BY NurseryFns DEF Un!MayCall, NotClosing

\* Where foreign code runs, the nursery is not about to close.
LEMMA NurseryFree ==
    ASSUME NurserySays, Un!Free
    PROVE  over = "no" /\ NotClosing(v6)
<1>1. over = "no" /\ (v6 # <<>> => Head(v6).busy)
  BY DEF Un!Free
<1>2. v6 # <<>> => Head(v6).fn \in {"captured", "drain"}
  BY <1>1, NurseryTop DEF Un!MayCall
<1> QED BY <1>1, <1>2 DEF NotClosing

\* doCancel() captures all tasks, if there is any, and calls runSoon().
LEMMA NurseryCancels ==
    ASSUME NurseryTypes, NEW s \in Seq(Un!Frames), Un!Stacked(s), NotClosing(s)
    PROVE  LET n == (IF v4 = "none" THEN Un!DoCancel ELSE <<>>) \o s
           IN  /\ n \in Seq(Un!Frames) /\ Un!Stacked(n) /\ NotClosing(n)
               /\ Un!Range(s) \subseteq Un!Range(n)
               /\ \A f \in Un!Range(n) : \/ f \in Un!Range(s)
                                         \/ f.fn \in {"captured", "runSoon"} /\ f.list \subseteq Un!Living
               /\ v4 = "none" /\ v2 =>
                     \A t \in Un!Living : \E f \in Un!Range(n) : t \in f.list
<1> DEFINE n == (IF v4 = "none" THEN Un!DoCancel ELSE <<>>) \o s
           r == Un!Fn("runSoon")
           c == Un!Frame("captured", Nobody, Un!Living)
<1>1. CASE v4 = "none" /\ v2 /\ Un!Living # {}
  <2>1. r \in Un!Frames /\ c \in Un!Frames /\ r.fn = "runSoon" /\ r.list = {}
        /\ c.fn = "captured" /\ c.list = Un!Living /\ c.busy = FALSE
    <3>1. Un!Living \in SUBSET Tasks
      BY DEF Un!Living
    <3> QED BY <3>1, NurseryFns
  <2>2. n = <<c, r>> \o s
    BY <1>1 DEF Un!DoCancel
  <2> HIDE DEF n, r, c
  <2>3. <<c, r>> \o s = <<c>> \o (<<r>> \o s)
    BY <2>1, NurseryTwoCalls
  <2>4. /\ <<r>> \o s \in Seq(Un!Frames) /\ Un!Stacked(<<r>> \o s) /\ <<r>> \o s # <<>>
        /\ Head(<<r>> \o s) = r /\ Un!Range(<<r>> \o s) = {r} \cup Un!Range(s)
    <3>1. Un!MayCall(r, s)
      BY NurseryRunSoonCalled DEF r
    <3> QED BY <2>1, <3>1, NurseryCalls
  <2>5. Un!MayCall(c, <<r>> \o s)
    BY <2>1, <2>4 DEF Un!MayCall
  <2>6. /\ n \in Seq(Un!Frames) /\ Un!Stacked(n) /\ Head(n) = c
        /\ Un!Range(n) = {c} \cup ({r} \cup Un!Range(s))
    BY <2>1, <2>2, <2>3, <2>4, <2>5, NurseryCalls
  <2> QED BY <2>1, <2>6 DEF NotClosing, n
<1>2. CASE ~(v4 = "none" /\ v2 /\ Un!Living # {})
  <2>1. n = <<>> \o s
    BY <1>2 DEF Un!DoCancel
  <2>2. n = s
    BY <2>1, ConcatEmptySeq
  <2> QED BY <1>2, <2>2
<1> QED BY <1>1, <1>2

\* cancel(), called where the stack is s.
LEMMA NurseryAsks ==
    ASSUME NurserySays, over = "no", NEW s \in Seq(Un!Frames), Un!Stacked(s), NotClosing(s),
           Un!Range(v6) \subseteq Un!Range(s),
           \A f \in Un!Range(s) : f \in Un!Range(v6) \/ (f.fn = "earlyCancel" /\ f.list = {}),
           Un!CancelFrom(s), UNCHANGED <<v1, v2, v5, v8>>,
           v3' = v3 \/ (v3' = Closure /\ Un!Living # {})
    PROVE  /\ v4' \in {"none", "request", "error"} /\ v6' \in Seq(Un!Frames)
           /\ Un!Stacked(v6)' /\ NotClosing(v6')
           /\ Un!TasksLeave(Un!Range(v6), Un!Range(v5))'
           /\ Un!ExecutorStays(Un!Range(v6), Un!Range(v5))'
           /\ Un!GoesOnSoon(Un!Range(v6), Un!Range(v5))'
           /\ \A f \in Un!Range(v6') : \A t \in f.list : v1'[t] # "no"
           /\ Un!Range(s) \subseteq Un!Range(v6')
           /\ \A f \in Un!Range(v6') : f \in Un!Range(s) \/ f.fn \in {"captured", "runSoon"}
<1> DEFINE n == (IF v4 = "none" THEN Un!DoCancel ELSE <<>>) \o s
           N == Un!Range(n)
           F == Un!Range(v6)
           G == Un!Range(s)
           E == Un!Range(v5)
<1>1. /\ n \in Seq(Un!Frames) /\ Un!Stacked(n) /\ NotClosing(n) /\ G \subseteq N
      /\ \A f \in N : f \in G \/ (f.fn \in {"captured", "runSoon"} /\ f.list \subseteq Un!Living)
      /\ v4 = "none" /\ v2 => \A t \in Un!Living : \E f \in N : t \in f.list
  BY NurseryCancels DEF NurserySays
<1>2. v6' = n /\ v4' = IF v4 = "none" THEN "request" ELSE v4
  BY DEF Un!CancelFrom
<1>3. /\ Un!TasksLeave(F, E) /\ Un!ExecutorStays(F, E) /\ Un!GoesOnSoon(F, E)
      /\ \A f \in F : \A t \in f.list : v1[t] # "no"
      /\ v4 \in {"none", "request", "error"}
  BY DEF NurserySays, NurseryTypes, Un!Alive
<1>4. F \subseteq G /\ \A f \in G : f \in F \/ (f.fn = "earlyCancel" /\ f.list = {})
  OBVIOUS
<1>5. Un!Living' = Un!Living /\ E' = E /\ F' = N
  BY <1>2 DEF Un!Living
<1> HIDE DEF n, N, F, G, E
<1>6. Un!TasksLeave(F, E)'
  <2>1. \A f \in N : f.fn = "continuation" => f \in F
    BY <1>1, <1>4
  <2> QED BY <1>3, <1>5, <2>1 DEF Un!TasksLeave, Un!Entry
<1>7. Un!ExecutorStays(F, E)'
  <2>1. \A f \in N : f.fn = "resume" => f \in F
    BY <1>1, <1>4
  <2> QED BY <1>3, <1>5, <2>1 DEF Un!ExecutorStays, Un!Frame
<1>8. Un!GoesOnSoon(F, E)'
  <2>1. \A f \in N : f.fn \in {"close", "destroy"} => f \in F
    BY <1>1, <1>4
  <2>2. F \subseteq N
    BY <1>1, <1>4
  <2>3. ASSUME NEW t \in Tasks, v1[t] = "alive" PROVE \E f \in N : t \in f.list
    <3>1. t \in Un!Living /\ v2
      BY <1>3, <2>3 DEF Un!Living, Un!ExecutorStays
    <3>2. CASE v4 = "none"
      BY <3>1, <3>2, <1>1
    <3>3. CASE v4 # "none"
      BY <2>2, <2>3, <3>3, <1>3 DEF Un!GoesOnSoon
    <3> QED BY <3>2, <3>3
  <2>4. v4' # "none"
    BY <1>2
  <2> QED BY <1>3, <1>5, <2>1, <2>2, <2>3, <2>4 DEF Un!GoesOnSoon, Un!Entry
<1>9. \A f \in N : \A t \in f.list : v1'[t] # "no"
  BY <1>1, <1>3, <1>4 DEF Un!Living
<1> QED BY <1>1, <1>2, <1>3, <1>5, <1>6, <1>7, <1>8, <1>9 DEF n, N, F, G, E

----------------------------------------------------------------------------
(* Cancelling.                                                             *)

\* It goes on, with all that is said of it.
LEMMA NurseryKept ==
    ASSUME NurseryTypes', over' = "no", Un!Stacked(v6'), Un!Listed(v5'),
           Un!TasksLeave(Un!Range(v6), Un!Range(v5))', Un!JoinersWait(Un!Range(v6), Un!Range(v5))',
           Un!ExecutorStays(Un!Range(v6), Un!Range(v5))', Un!GoesOnSoon(Un!Range(v6), Un!Range(v5))',
           \A f \in Un!Range(v6') : \A t \in f.list : v1'[t] # "no",
           NotClosing(v6') \/ v5' = <<>>
    PROVE  Un!Inv'
<1>1. Un!Alive'
  BY DEF Un!Alive, NotClosing
<1> QED BY <1>1, NurseryGoesOn DEF NurserySays

LEMMA NurseryCancelAll ==
    ASSUME Un!Inv, Un!CancelAll
    PROVE  Un!Inv'
<1>1. /\ Un!Free /\ Un!CancelFrom(v6)
      /\ UNCHANGED <<above, below, over, v1, v2, v3, v5, v7, v8, v9>>
  BY DEF Un!CancelAll, Un!shared
<1>2. NurserySays /\ over = "no" /\ NotClosing(v6)
  BY <1>1, NurseryMeans, NurseryFree
<1>3. v6 \in Seq(Un!Frames) /\ Un!Stacked(v6)
  BY <1>2 DEF NurserySays, NurseryTypes, Un!Alive
<1>4. /\ v4' \in {"none", "request", "error"} /\ v6' \in Seq(Un!Frames)
      /\ Un!Stacked(v6)' /\ NotClosing(v6')
      /\ Un!TasksLeave(Un!Range(v6), Un!Range(v5))'
      /\ Un!ExecutorStays(Un!Range(v6), Un!Range(v5))'
      /\ Un!GoesOnSoon(Un!Range(v6), Un!Range(v5))'
      /\ \A f \in Un!Range(v6') : \A t \in f.list : v1'[t] # "no"
      /\ Un!Range(v6) \subseteq Un!Range(v6')
      /\ \A f \in Un!Range(v6') : f \in Un!Range(v6) \/ f.fn \in {"captured", "runSoon"}
  BY <1>1, <1>2, <1>3, NurseryAsks
<1>5. Un!JoinersWait(Un!Range(v6), Un!Range(v5))'
  BY <1>1, <1>2, <1>4 DEF NurserySays, Un!Alive, Un!JoinersWait, Un!Frame, Un!Entry, Un!Pending
<1>6. NurseryTypes' /\ Un!Listed(v5')
  BY <1>1, <1>2, <1>4 DEF NurserySays, NurseryTypes, Un!Alive
<1> QED BY <1>1, <1>2, <1>4, <1>5, <1>6, NurseryKept

LEMMA NurseryCancel ==
    ASSUME Un!Inv, NEW p \in Joiners, Un!Cancel(p)
    PROVE  Un!Inv'
<1> DEFINE c == AboutToCancel(above[p])
<1>1. /\ Un!Free /\ Un!CancelFrom(v6) /\ Un!GoesFrom(p)
      /\ Legal(c) /\ above' = [above EXCEPT ![p] = c]
      /\ UNCHANGED <<below, over, v1, v2, v3, v5, v7, v8, v9>>
  BY NurseryChecker DEF Un!Cancel, Un!Calls
<1>2. NurserySays /\ over = "no" /\ NotClosing(v6)
  BY <1>1, NurseryMeans, NurseryFree
<1>3. v6 \in Seq(Un!Frames) /\ Un!Stacked(v6) /\ above \in [Joiners -> Checker]
  BY <1>2 DEF NurserySays, NurseryTypes, Un!Alive
<1>4. /\ v4' \in {"none", "request", "error"} /\ v6' \in Seq(Un!Frames)
      /\ Un!Stacked(v6)' /\ NotClosing(v6')
      /\ Un!TasksLeave(Un!Range(v6), Un!Range(v5))'
      /\ Un!ExecutorStays(Un!Range(v6), Un!Range(v5))'
      /\ Un!GoesOnSoon(Un!Range(v6), Un!Range(v5))'
      /\ \A f \in Un!Range(v6') : \A t \in f.list : v1'[t] # "no"
      /\ Un!Range(v6) \subseteq Un!Range(v6')
      /\ \A f \in Un!Range(v6') : f \in Un!Range(v6) \/ f.fn \in {"captured", "runSoon"}
  BY <1>1, <1>2, <1>3, NurseryAsks
<1>5. c \in Checker /\ Pending(c) /\ Pending(above[p])
  BY <1>1, <1>3, CancelMoves DEF Goes, Pending, Legal
<1> HIDE DEF c
<1>6. /\ above' \in [Joiners -> Checker] /\ above'[p] = c
      /\ \A q \in Joiners : q # p => above'[q] = above[q]
  BY <1>1, <1>3, <1>5
<1>7. \A q \in Joiners : Pending(above'[q]) <=> Pending(above[q])
  BY <1>5, <1>6
<1>8. Un!JoinersWait(Un!Range(v6), Un!Range(v5))'
  <2>1. \A f \in Un!Range(v6) : f.fn = "earlyCancel" => f.who # p
    BY <1>1 DEF Un!GoesFrom
  <2>2. Un!JoinersWait(Un!Range(v6), Un!Range(v5))
    BY <1>2 DEF NurserySays, Un!Alive
  <2> QED BY <1>1, <1>4, <1>6, <1>7, <2>1, <2>2, NurseryChecker DEF Un!JoinersWait, Un!Frame, Un!Entry
<1>9. NurseryTypes' /\ Un!Listed(v5')
  BY <1>1, <1>2, <1>4, <1>6 DEF NurserySays, NurseryTypes, Un!Alive
<1> QED BY <1>1, <1>2, <1>4, <1>8, <1>9, NurseryKept

LEMMA NurseryEarlyCancel ==
    ASSUME Un!Inv, NEW p \in Joiners, Un!EarlyCancel(p)
    PROVE  Un!Inv'
<1> DEFINE e == Un!Frame("earlyCancel", p, {})
           s == <<e>> \o v6
<1>1. /\ Un!Free /\ Un!GoesFrom(p) /\ Legal(EarlyCancelReturned(above[p], FALSE))
      /\ Un!CancelFrom(s)
      /\ UNCHANGED <<above, below, over, v1, v2, v3, v5, v7, v8, v9>>
  BY NurseryChecker DEF Un!EarlyCancel, Un!Joins, Un!shared
<1>2. NurserySays /\ over = "no" /\ NotClosing(v6)
  BY <1>1, NurseryMeans, NurseryFree
<1>3. v6 \in Seq(Un!Frames) /\ Un!Stacked(v6) /\ above[p] \in Checker
  BY <1>2 DEF NurserySays, NurseryTypes, Un!Alive
<1>4. e \in Un!Frames /\ e.fn = "earlyCancel" /\ e.who = p /\ e.list = {} /\ e.busy = FALSE
  BY NurseryFns
<1> HIDE DEF e
<1>5. Un!MayCall(e, v6)
  <2>1. \A f \in Un!Range(v6) : f.fn = "earlyCancel" => f.who # p
    BY <1>1 DEF Un!GoesFrom
  <2> QED BY <1>2, <1>4, <2>1 DEF Un!MayCall, NotClosing
<1>6. /\ s \in Seq(Un!Frames) /\ Un!Stacked(s) /\ NotClosing(s)
      /\ Un!Range(s) = {e} \cup Un!Range(v6)
  BY <1>3, <1>4, <1>5, NurseryCalls DEF NotClosing
<1> HIDE DEF s
<1>7. /\ v4' \in {"none", "request", "error"} /\ v6' \in Seq(Un!Frames)
      /\ Un!Stacked(v6)' /\ NotClosing(v6')
      /\ Un!TasksLeave(Un!Range(v6), Un!Range(v5))'
      /\ Un!ExecutorStays(Un!Range(v6), Un!Range(v5))'
      /\ Un!GoesOnSoon(Un!Range(v6), Un!Range(v5))'
      /\ \A f \in Un!Range(v6') : \A t \in f.list : v1'[t] # "no"
      /\ Un!Range(s) \subseteq Un!Range(v6')
      /\ \A f \in Un!Range(v6') : f \in Un!Range(s) \/ f.fn \in {"captured", "runSoon"}
  BY <1>1, <1>2, <1>4, <1>6, NurseryAsks
<1>8. above[p].state \in {"Initial", "NotReady", "ReadyImmediately"}
  BY <1>1, <1>3, EarlyCancelMoves DEF Goes, Legal
<1>9. Un!JoinersWait(Un!Range(v6), Un!Range(v5))'
  <2>1. Un!JoinersWait(Un!Range(v6), Un!Range(v5))
    BY <1>2 DEF NurserySays, Un!Alive
  <2>2. \A f \in Un!Range(v6') : f.fn \in {"earlyCancel", "resume"} => f = e \/ f \in Un!Range(v6)
    BY <1>6, <1>7
  <2>3. \A q \in Joiners : Un!Frame("resume", q, {}) \in Un!Range(v6') <=> Un!Frame("resume", q, {}) \in Un!Range(v6)
    <3>1. \A q : Un!Frame("resume", q, {}).fn = "resume"
      BY NurseryFns
    <3> QED BY <1>4, <1>6, <1>7, <2>2, <3>1
  <2> QED BY <1>1, <1>4, <1>8, <2>1, <2>2, <2>3 DEF Un!JoinersWait, Un!Entry, Un!Pending
<1>10. NurseryTypes' /\ Un!Listed(v5')
  BY <1>1, <1>2, <1>7 DEF NurserySays, NurseryTypes, Un!Alive
<1> QED BY <1>1, <1>2, <1>7, <1>9, <1>10, NurseryKept

LEMMA NurseryAsyncClose ==
    ASSUME Un!Inv, Un!AsyncClose
    PROVE  Un!Inv'
<1>1. /\ Un!Free /\ v3 = Nobody
      /\ UNCHANGED <<above, below, over, v1, v5, v7, v8, v9>>
  BY DEF Un!AsyncClose, Un!shared
<1>2. NurserySays /\ over = "no" /\ NotClosing(v6)
  BY <1>1, NurseryMeans, NurseryFree
<1>3. v6 \in Seq(Un!Frames) /\ Un!Stacked(v6) /\ Un!Listed(v5)
  BY <1>2 DEF NurserySays, NurseryTypes, Un!Alive
<1>4. CASE Un!Living = {}
  <2>1. v2' = FALSE /\ UNCHANGED <<v3, v4, v6>>
    BY <1>4 DEF Un!AsyncClose
  <2>2. NurseryTypes'
    BY <1>1, <1>2, <2>1 DEF NurserySays, NurseryTypes
  <2>3. Un!Living' = {}
    BY <1>1, <1>4 DEF Un!Living
  <2>4. Un!ExecutorStays(Un!Range(v6), Un!Range(v5))'
    BY <1>1, <1>2, <2>1, <2>3 DEF NurserySays, Un!Alive, Un!ExecutorStays, Un!Frame
  <2>5. /\ Un!TasksLeave(Un!Range(v6), Un!Range(v5))' /\ Un!JoinersWait(Un!Range(v6), Un!Range(v5))'
        /\ Un!GoesOnSoon(Un!Range(v6), Un!Range(v5))'
        /\ \A f \in Un!Range(v6') : \A t \in f.list : v1'[t] # "no"
    BY <1>1, <1>2, <2>1, <2>3
       DEF NurserySays, Un!Alive, Un!TasksLeave, Un!JoinersWait, Un!GoesOnSoon, Un!Living, Un!Pending
  <2> QED BY <1>1, <1>2, <1>3, <2>1, <2>2, <2>4, <2>5, NurseryKept
<1>5. CASE Un!Living # {}
  <2>1. v3' = Closure /\ Un!CancelFrom(v6) /\ v2' = v2
    BY <1>5 DEF Un!AsyncClose
  <2>2. /\ v4' \in {"none", "request", "error"} /\ v6' \in Seq(Un!Frames)
        /\ Un!Stacked(v6)' /\ NotClosing(v6')
        /\ Un!TasksLeave(Un!Range(v6), Un!Range(v5))'
        /\ Un!ExecutorStays(Un!Range(v6), Un!Range(v5))'
        /\ Un!GoesOnSoon(Un!Range(v6), Un!Range(v5))'
        /\ \A f \in Un!Range(v6') : \A t \in f.list : v1'[t] # "no"
        /\ Un!Range(v6) \subseteq Un!Range(v6')
        /\ \A f \in Un!Range(v6') : f \in Un!Range(v6) \/ f.fn \in {"captured", "runSoon"}
    BY <1>1, <1>2, <1>3, <1>5, <2>1, NurseryAsks
  <2>3. \A q \in Joiners : q # Nobody /\ q # Closure
    BY ConstantsAssumption
  <2>4. Un!JoinersWait(Un!Range(v6), Un!Range(v5))'
    BY <1>1, <1>2, <2>1, <2>2, <2>3 DEF NurserySays, Un!Alive, Un!JoinersWait, Un!Frame, Un!Entry, Un!Pending
  <2>5. NurseryTypes'
    BY <1>1, <1>2, <2>1, <2>2 DEF NurserySays, NurseryTypes
  <2> QED BY <1>1, <1>2, <1>3, <2>2, <2>4, <2>5, NurseryKept
<1> QED BY <1>4, <1>5

----------------------------------------------------------------------------
(* The tasks.                                                              *)

LEMMA NurseryStart ==
    ASSUME Liberties = {}, Un!Inv, NEW t \in Tasks, Un!Start(t)
    PROVE  Un!Inv'
<1>1. /\ Un!Free /\ v2 /\ v1[t] = "no"
      /\ v4 = "none" => ~Un!Closing
      /\ v1' = [v1 EXCEPT ![t] = IF v4 = "none" THEN "alive" ELSE "asked"]
      /\ UNCHANGED <<above, below, over, v2, v3, v4, v5, v6, v7, v8>>
  BY DEF Un!Start, Un!shared
<1>2. NurserySays /\ over = "no" /\ NotClosing(v6) /\ v9' \in 0..MaxLate
  <2>1. NurserySays /\ over = "no" /\ NotClosing(v6)
    BY <1>1, NurseryMeans, NurseryFree
  <2>2. v9' = v9 \/ (v9 < MaxLate /\ v9' = v9 + 1)
    BY DEF Un!Start
  <2>3. v9 \in 0..MaxLate /\ MaxLate \in Nat
    BY <2>1, ConstantsAssumption DEF NurserySays, NurseryTypes
  <2>4. v9' \in 0..MaxLate
    BY <2>2, <2>3
  <2> QED BY <2>1, <2>4
<1>3. /\ v1 \in [Tasks -> {"no", "alive", "asked", "leaving", "ended"}]
      /\ Un!TasksLeave(Un!Range(v6), Un!Range(v5)) /\ Un!JoinersWait(Un!Range(v6), Un!Range(v5))
      /\ Un!ExecutorStays(Un!Range(v6), Un!Range(v5)) /\ Un!GoesOnSoon(Un!Range(v6), Un!Range(v5))
      /\ \A f \in Un!Range(v6) : \A u \in f.list : v1[u] # "no"
      /\ Un!Range(v6) \subseteq Un!Frames /\ Un!Listed(v5) /\ Un!Stacked(v6)
  BY <1>2, NurseryHolds DEF NurserySays, NurseryTypes, Un!Alive
<1>4. /\ v1' \in [Tasks -> {"no", "alive", "asked", "leaving", "ended"}]
      /\ v1'[t] = (IF v4 = "none" THEN "alive" ELSE "asked")
      /\ \A u \in Tasks : u # t => v1'[u] = v1[u]
  BY <1>1, <1>3
<1>5. Un!Living' = Un!Living \cup {t}
  BY <1>1, <1>3, <1>4 DEF Un!Living
<1>6. Un!TasksLeave(Un!Range(v6), Un!Range(v5))'
  BY <1>1, <1>3, <1>4 DEF Un!TasksLeave, Un!Entry
<1>7. Un!JoinersWait(Un!Range(v6), Un!Range(v5))'
  BY <1>1, <1>3 DEF Un!JoinersWait, Un!Frame, Un!Entry, Un!Pending
<1>8. Un!ExecutorStays(Un!Range(v6), Un!Range(v5))'
  BY <1>1, <1>3, <1>5 DEF Un!ExecutorStays, Un!Frame
<1>9. Un!GoesOnSoon(Un!Range(v6), Un!Range(v5))'
  <2>1. v4 = "none" => \A f \in Un!Range(v6) : f.fn \notin {"close", "destroy"}
    BY <1>1 DEF Un!Closing, Un!OnStack
  <2> QED BY <1>1, <1>3, <1>4, <2>1 DEF Un!GoesOnSoon, Un!Entry
<1>10. \A f \in Un!Range(v6') : \A u \in f.list : v1'[u] # "no"
  BY <1>1, <1>3, <1>4 DEF Un!Frames
<1>11. NurseryTypes'
  BY <1>1, <1>2, <1>4 DEF NurserySays, NurseryTypes
<1> QED BY <1>1, <1>2, <1>3, <1>6, <1>7, <1>8, <1>9, <1>10, <1>11, NurseryKept

\* Where continuation() of task t was called.
LEMMA NurseryLeaves ==
    ASSUME NurserySays, NEW t \in Tasks, Un!Runs(t), v1' = [v1 EXCEPT ![t] = "leaving"]
    PROVE  LET f == Un!Frame("continuation", t, {})
               s == <<f>> \o v6
           IN  /\ over = "no" /\ NotClosing(v6)
               /\ s \in Seq(Un!Frames) /\ Un!Stacked(s) /\ NotClosing(s)
               /\ Un!Range(s) = {f} \cup Un!Range(v6)
               /\ f \in Un!Frames /\ f.fn = "continuation" /\ f.who = t /\ f.list = {}
               /\ v1' \in [Tasks -> {"no", "alive", "asked", "leaving", "ended"}]
               /\ v1'[t] = "leaving" /\ \A u \in Tasks : u # t => v1'[u] = v1[u]
               /\ Un!Living' = Un!Living /\ t \in Un!Living
               /\ Un!TasksLeave(Un!Range(v6), Un!Range(v5))
               /\ v1[t] \in {"alive", "asked"}
<1> DEFINE f == Un!Frame("continuation", t, {})
           s == <<f>> \o v6
<1>1. Un!Free /\ v1[t] \in {"alive", "asked"}
  BY DEF Un!Runs
<1>2. over = "no" /\ NotClosing(v6)
  BY <1>1, NurseryFree
<1>3. /\ v1 \in [Tasks -> {"no", "alive", "asked", "leaving", "ended"}]
      /\ v6 \in Seq(Un!Frames) /\ Un!Stacked(v6)
      /\ Un!TasksLeave(Un!Range(v6), Un!Range(v5))
  BY <1>2 DEF NurserySays, NurseryTypes, Un!Alive
<1>4. f \in Un!Frames /\ f.fn = "continuation" /\ f.who = t /\ f.list = {} /\ f.busy = FALSE
  BY NurseryFns
<1> HIDE DEF f
<1>5. Un!MayCall(f, v6)
  <2>1. \A g \in Un!Range(v6) : g.fn = "continuation" => g.who # t
    BY <1>1, <1>3 DEF Un!TasksLeave
  <2> QED BY <1>2, <1>4, <2>1 DEF Un!MayCall, NotClosing
<1>6. /\ s \in Seq(Un!Frames) /\ Un!Stacked(s) /\ s # <<>> /\ Head(s) = f
      /\ Un!Range(s) = {f} \cup Un!Range(v6)
  BY <1>3, <1>4, <1>5, NurseryCalls
<1>7. NotClosing(s)
  BY <1>4, <1>6 DEF NotClosing
<1>8. /\ v1' \in [Tasks -> {"no", "alive", "asked", "leaving", "ended"}]
      /\ v1'[t] = "leaving" /\ \A u \in Tasks : u # t => v1'[u] = v1[u]
  BY <1>3
<1>9. Un!Living' = Un!Living /\ t \in Un!Living
  BY <1>1, <1>8 DEF Un!Living
<1> QED BY <1>1, <1>2, <1>3, <1>4, <1>6, <1>7, <1>8, <1>9 DEF f

\* What is said of the nursery while it calls what is in fs for t.
LEMMA NurseryTaskEnds ==
    ASSUME NurserySays, NEW t \in Tasks, Un!Runs(t), v1' = [v1 EXCEPT ![t] = "leaving"],
           UNCHANGED <<above, below, over, v2, v3, v5, v7, v8, v9>>,
           v4' \in {"none", "request", "error"}, v4 # "none" => v4' # "none",
           v6' \in Seq(Un!Frames), Un!Stacked(v6'), NotClosing(v6'),
           Un!Range(v6) \cup {Un!Frame("continuation", t, {})} \subseteq Un!Range(v6'),
           \A f \in Un!Range(v6') :
              \/ f \in Un!Range(v6) \cup {Un!Frame("continuation", t, {})}
              \/ f.fn \in {"captured", "runSoon"} /\ f.list \subseteq Un!Living,
           v4 = "none" /\ v4' # "none" =>
              \A u \in Un!Living : \E f \in Un!Range(v6') : u \in f.list
    PROVE  Un!Inv'
<1> DEFINE c == Un!Frame("continuation", t, {})
           N == Un!Range(v6')
           F == Un!Range(v6)
           E == Un!Range(v5)
<1>1. /\ c \in Un!Frames /\ c.fn = "continuation" /\ c.who = t /\ c.list = {}
      /\ v1' \in [Tasks -> {"no", "alive", "asked", "leaving", "ended"}]
      /\ v1'[t] = "leaving" /\ \A u \in Tasks : u # t => v1'[u] = v1[u]
      /\ Un!Living' = Un!Living /\ t \in Un!Living /\ v1[t] \in {"alive", "asked"}
      /\ over = "no"
  BY NurseryLeaves
<1>2. /\ Un!TasksLeave(F, E) /\ Un!JoinersWait(F, E) /\ Un!ExecutorStays(F, E) /\ Un!GoesOnSoon(F, E)
      /\ \A f \in F : \A u \in f.list : v1[u] # "no"
      /\ F \subseteq Un!Frames /\ Un!Listed(v5)
  BY <1>1, NurseryHolds DEF NurserySays, NurseryTypes, Un!Alive
<1>3. /\ F \subseteq N /\ c \in N
      /\ \A f \in N : f \in F \/ f = c \/ (f.fn \in {"captured", "runSoon"} /\ f.list \subseteq Un!Living)
      /\ v4 = "none" /\ v4' # "none" => \A u \in Un!Living : \E f \in N : u \in f.list
  OBVIOUS
<1>4. F' = N /\ E' = E
  OBVIOUS
<1> HIDE DEF c, N, F, E
<1>5. Un!TasksLeave(F, E)'
  <2>1. \A f \in N : f.fn = "continuation" => f \in F \/ f = c
    BY <1>3
  <2> QED BY <1>1, <1>2, <1>4, <2>1 DEF Un!TasksLeave, Un!Entry
<1>6. Un!JoinersWait(F, E)'
  <2>1. \A f \in N : f.fn \in {"earlyCancel", "resume"} => f \in F
    BY <1>1, <1>3
  <2>2. \A q \in Joiners : Un!Frame("resume", q, {}) \in N <=> Un!Frame("resume", q, {}) \in F
    BY <1>3, <2>1, NurseryFns
  <2> QED BY <1>2, <1>4, <2>1, <2>2 DEF Un!JoinersWait, Un!Entry, Un!Pending
<1>7. Un!ExecutorStays(F, E)'
  <2>1. \A f \in N : f.fn = "resume" => f \in F
    BY <1>1, <1>3
  <2> QED BY <1>1, <1>2, <1>4, <2>1 DEF Un!ExecutorStays, Un!Frame
<1>8. Un!GoesOnSoon(F, E)'
  <2>1. \A f \in N : f.fn \in {"close", "destroy"} => f \in F
    BY <1>1, <1>3
  <2>2. v4' # "none" => \A u \in Tasks : v1'[u] = "alive" => \E f \in N : u \in f.list
    <3> SUFFICES ASSUME v4' # "none", NEW u \in Tasks, v1'[u] = "alive" PROVE \E f \in N : u \in f.list
      OBVIOUS
    <3>1. v1[u] = "alive" /\ u \in Un!Living
      BY <1>1 DEF Un!Living
    <3> QED BY <1>2, <1>3, <3>1 DEF Un!GoesOnSoon
  <2> QED BY <1>1, <1>2, <1>3, <1>4, <2>1, <2>2 DEF Un!GoesOnSoon, Un!Entry
<1>9. \A f \in N : \A u \in f.list : v1'[u] # "no"
  <2>1. \A u \in Tasks : v1[u] # "no" => v1'[u] # "no"
    BY <1>1
  <2>2. \A u \in Un!Living : u \in Tasks /\ v1[u] # "no"
    BY DEF Un!Living
  <2> QED BY <1>1, <1>2, <1>3, <2>1, <2>2 DEF Un!Frames
<1>10. NurseryTypes'
  BY <1>1 DEF NurserySays, NurseryTypes
<1> QED BY <1>1, <1>2, <1>4, <1>5, <1>6, <1>7, <1>8, <1>9, <1>10, NurseryKept DEF N, F, E

LEMMA NurseryReturns ==
    ASSUME Un!Inv, NEW t \in Tasks, Un!Returns(t)
    PROVE  Un!Inv'
<1> DEFINE c == Un!Frame("continuation", t, {})
<1>1. /\ NurserySays /\ Un!Runs(t) /\ v1' = [v1 EXCEPT ![t] = "leaving"] /\ v6' = <<c>> \o v6
      /\ UNCHANGED <<above, below, over, v2, v3, v4, v5, v7, v8, v9>>
  BY NurseryMeans DEF Un!Returns, Un!shared
<1>2. /\ v6' \in Seq(Un!Frames) /\ Un!Stacked(v6') /\ NotClosing(v6')
      /\ Un!Range(v6') = {c} \cup Un!Range(v6)
  BY <1>1, NurseryLeaves
<1>3. v4' \in {"none", "request", "error"}
  BY <1>1 DEF NurserySays, NurseryTypes
<1> HIDE DEF c
<1>4. /\ Un!Range(v6) \cup {c} \subseteq Un!Range(v6')
      /\ \A f \in Un!Range(v6') : f \in Un!Range(v6) \cup {c}
  BY <1>2
<1> QED BY <1>1, <1>2, <1>3, <1>4, NurseryTaskEnds DEF c

LEMMA NurseryThrows ==
    ASSUME Un!Inv, NEW t \in Tasks, Un!Throws(t)
    PROVE  Un!Inv'
<1> DEFINE c == Un!Frame("continuation", t, {})
           s == <<c>> \o v6
           x == IF v4 = "none" THEN Un!DoCancel ELSE <<>>
<1>1. /\ NurserySays /\ Un!Runs(t) /\ v1' = [v1 EXCEPT ![t] = "leaving"]
      /\ v6' = x \o <<c>> \o v6 /\ v4' = "error"
      /\ UNCHANGED <<above, below, over, v2, v3, v5, v7, v8, v9>>
  BY NurseryMeans DEF Un!Throws, Un!shared
<1>2. /\ s \in Seq(Un!Frames) /\ Un!Stacked(s) /\ NotClosing(s) /\ c \in Un!Frames
      /\ Un!Range(s) = {c} \cup Un!Range(v6) /\ t \in Un!Living /\ over = "no"
  BY <1>1, NurseryLeaves
<1>3. v6' = x \o s
  <2>1. x \in Seq(Un!Frames)
    <3>1. Un!Living \in SUBSET Tasks
      BY DEF Un!Living
    <3> QED BY <3>1, NurseryFns DEF Un!DoCancel
  <2>2. v6 \in Seq(Un!Frames) /\ <<c>> \in Seq(Un!Frames)
    BY <1>1, <1>2 DEF NurserySays, NurseryTypes
  <2> HIDE DEF x, c
  <2> QED BY <1>1, <2>1, <2>2, ConcatAssociative
<1>4. /\ v6' \in Seq(Un!Frames) /\ Un!Stacked(v6') /\ NotClosing(v6')
      /\ Un!Range(s) \subseteq Un!Range(v6')
      /\ \A f \in Un!Range(v6') : \/ f \in Un!Range(s)
                                  \/ f.fn \in {"captured", "runSoon"} /\ f.list \subseteq Un!Living
      /\ v4 = "none" /\ v2 => \A u \in Un!Living : \E f \in Un!Range(v6') : u \in f.list
  BY <1>1, <1>2, <1>3, NurseryCancels DEF NurserySays
<1>5. v2
  BY <1>1, <1>2 DEF NurserySays, Un!Alive, Un!ExecutorStays
<1> HIDE DEF c, s, x
<1>6. /\ Un!Range(v6) \cup {c} \subseteq Un!Range(v6')
      /\ \A f \in Un!Range(v6') : \/ f \in Un!Range(v6) \cup {c}
                                  \/ f.fn \in {"captured", "runSoon"} /\ f.list \subseteq Un!Living
  BY <1>2, <1>4
<1> QED BY <1>1, <1>4, <1>5, <1>6, NurseryTaskEnds DEF c

----------------------------------------------------------------------------
(* The executor.                                                           *)

LEMMA NurseryFacts ==
    ASSUME NurserySays, over = "no"
    PROVE  /\ Un!TasksLeave(Un!Range(v6), Un!Range(v5)) /\ Un!JoinersWait(Un!Range(v6), Un!Range(v5))
           /\ Un!ExecutorStays(Un!Range(v6), Un!Range(v5)) /\ Un!GoesOnSoon(Un!Range(v6), Un!Range(v5))
           /\ \A f \in Un!Range(v6) : \A t \in f.list : v1[t] # "no"
           /\ Un!Range(v6) \subseteq Un!Frames /\ Un!Range(v5) \subseteq Un!Entries
           /\ Un!Listed(v5) /\ Un!Stacked(v6)
           /\ v5 \in Seq(Un!Entries) /\ v6 \in Seq(Un!Frames)
           /\ v1 \in [Tasks -> {"no", "alive", "asked", "leaving", "ended"}]
           /\ above \in [Joiners -> Checker] /\ \A p \in Joiners : Legal(above[p])
           /\ v6 # <<>> /\ Head(v6).fn \in {"close", "destroy"} => v5 = <<>>
           /\ v5 = <<>> <=> Un!Range(v5) = {}
BY NurseryHolds DEF NurserySays, NurseryTypes, Un!Alive

\* The innermost call returns, or another one takes its place.
LEMMA NurseryReplaces ==
    ASSUME NurserySays, over = "no", v6 # <<>>
    PROVE  LET f == Head(v6)
               s == Tail(v6)
           IN  /\ f \in Un!Frames /\ s \in Seq(Un!Frames) /\ Un!Stacked(s)
               /\ Un!MayCall(f, s) /\ Un!Range(v6) = {f} \cup Un!Range(s)
               /\ Un!Range(s) \subseteq Un!Frames
               /\ f.fn # "drain" => NotClosing(s)
               /\ f.fn # "drain" => /\ <<Un!Fn("runSoon")>> \o s \in Seq(Un!Frames)
                                    /\ Un!Stacked(<<Un!Fn("runSoon")>> \o s)
                                    /\ NotClosing(<<Un!Fn("runSoon")>> \o s)
                                    /\ Un!Range(<<Un!Fn("runSoon")>> \o s) = {Un!Fn("runSoon")} \cup Un!Range(s)
<1> DEFINE f == Head(v6)
           s == Tail(v6)
           r == Un!Fn("runSoon")
<1>1. /\ f \in Un!Frames /\ s \in Seq(Un!Frames) /\ Un!Stacked(s)
      /\ Un!MayCall(f, s) /\ Un!Range(v6) = {f} \cup Un!Range(s)
      /\ Un!Range(s) \subseteq Un!Frames
  BY NurseryTop
<1> HIDE DEF f, s
<1>2. f.fn # "drain" => NotClosing(s)
  BY <1>1 DEF Un!MayCall, NotClosing
<1>3. ASSUME NotClosing(s)
      PROVE  /\ <<r>> \o s \in Seq(Un!Frames) /\ Un!Stacked(<<r>> \o s) /\ NotClosing(<<r>> \o s)
             /\ Un!Range(<<r>> \o s) = {r} \cup Un!Range(s)
  <2>1. r \in Un!Frames /\ r.fn = "runSoon"
    BY NurseryFns
  <2>2. Un!MayCall(r, s)
    BY <1>1, <1>3, NurseryRunSoonCalled
  <2> HIDE DEF r
  <2> QED BY <1>1, <2>1, <2>2, NurseryCalls DEF NotClosing
<1> QED BY <1>1, <1>2, <1>3 DEF f, s

LEMMA NurseryEarlyCancelReturns ==
    ASSUME Un!Inv, Un!EarlyCancelReturns
    PROVE  Un!Inv'
<1> DEFINE f == Head(v6)
           s == Tail(v6)
           p == f.who
           c == EarlyCancelReturned(above[p], FALSE)
           S == Un!Range(s)
           F == Un!Range(v6)
           E == Un!Range(v5)
<1>1. /\ NurserySays /\ over = "no" /\ v6 # <<>> /\ f.fn = "earlyCancel" /\ v6' = s
      /\ above' = [above EXCEPT ![p] = c]
      /\ UNCHANGED <<below, over, v1, v2, v3, v4, v5, v7, v8, v9>>
  BY NurseryMeans, NurseryChecker DEF Un!EarlyCancelReturns, Un!At
<1>2. /\ f \in Un!Frames /\ s \in Seq(Un!Frames) /\ Un!Stacked(s) /\ Un!MayCall(f, s)
      /\ F = {f} \cup S /\ NotClosing(s)
  BY <1>1, NurseryReplaces
<1>3. /\ Un!TasksLeave(F, E) /\ Un!JoinersWait(F, E) /\ Un!ExecutorStays(F, E) /\ Un!GoesOnSoon(F, E)
      /\ \A g \in F : \A t \in g.list : v1[t] # "no"
      /\ Un!Listed(v5) /\ above \in [Joiners -> Checker] /\ \A q \in Joiners : Legal(above[q])
  BY <1>1, NurseryFacts
<1>4. F' = S /\ E' = E /\ Un!Living' = Un!Living
  BY <1>1 DEF Un!Living
<1>5. /\ p \in Joiners /\ above[p].state \in {"Initial", "NotReady", "ReadyImmediately"}
      /\ f.list = {}
  BY <1>1, <1>2, <1>3 DEF Un!JoinersWait, Un!MayCall
<1>6. c \in Checker /\ Legal(c) /\ ~Pending(c) /\ ~Pending(above[p])
  BY <1>3, <1>5, EarlyCancelMoves DEF Goes, Legal, Pending
<1>7. \A g \in S : g.fn = "earlyCancel" => g.who # p
  BY <1>1, <1>2 DEF Un!MayCall
<1> HIDE DEF f, s, p, c, S, F, E
<1>8. /\ above' \in [Joiners -> Checker] /\ above'[p] = c
      /\ \A q \in Joiners : q # p => above'[q] = above[q]
      /\ \A q \in Joiners : Legal(above'[q])
      /\ \A q \in Joiners : Pending(above'[q]) <=> Pending(above[q])
  BY <1>1, <1>3, <1>5, <1>6
<1>9. Un!TasksLeave(F, E)' /\ Un!ExecutorStays(F, E)'
  BY <1>1, <1>2, <1>3, <1>4 DEF Un!TasksLeave, Un!ExecutorStays, Un!Entry, Un!Frame
<1>10. Un!GoesOnSoon(F, E)'
  BY <1>1, <1>2, <1>3, <1>4, <1>5 DEF Un!GoesOnSoon, Un!Entry
<1>11. Un!JoinersWait(F, E)'
  <2>1. \A q \in Joiners : Un!Frame("resume", q, {}) \in F <=> Un!Frame("resume", q, {}) \in S
    <3>1. \A q \in Joiners : Un!Frame("resume", q, {}).fn = "resume"
      BY NurseryFns
    <3> QED BY <1>1, <1>2, <3>1
  <2> QED BY <1>1, <1>2, <1>3, <1>4, <1>7, <1>8, <2>1, NurseryChecker DEF Un!JoinersWait, Un!Entry
<1>12. NurseryTypes'
  BY <1>1, <1>2, <1>8 DEF NurserySays, NurseryTypes
<1> QED BY <1>1, <1>2, <1>3, <1>4, <1>9, <1>10, <1>11, <1>12, NurseryKept DEF F, E, S

LEMMA NurserySecondRunSoon ==
    ASSUME Un!Inv, Un!SecondRunSoon
    PROVE  Un!Inv'
<1> DEFINE f == Head(v6)
           s == Tail(v6)
           h == f.who
           e == Un!Entry("resume", h)
           r == Un!Fn("runSoon")
           S == Un!Range(s)
           F == Un!Range(v6)
           E == Un!Range(v5)
<1>1. /\ NurserySays /\ over = "no" /\ v6 # <<>> /\ f.fn = "resume"
      /\ v6' = <<r>> \o s /\ v5' = Append(v5, e)
      /\ UNCHANGED <<above, below, over, v1, v2, v3, v4, v7, v8, v9>>
  BY NurseryMeans DEF Un!SecondRunSoon, Un!At, Un!shared
<1>2. /\ f \in Un!Frames /\ Un!MayCall(f, s) /\ F = {f} \cup S
      /\ v6' \in Seq(Un!Frames) /\ Un!Stacked(v6') /\ NotClosing(v6')
      /\ Un!Range(v6') = {r} \cup S
  BY <1>1, NurseryReplaces
<1>3. /\ Un!TasksLeave(F, E) /\ Un!JoinersWait(F, E) /\ Un!ExecutorStays(F, E) /\ Un!GoesOnSoon(F, E)
      /\ \A g \in F : \A t \in g.list : v1[t] # "no"
      /\ Un!Listed(v5) /\ v5 \in Seq(Un!Entries)
  BY <1>1, NurseryFacts
<1>4. /\ f = Un!Frame("resume", h, {}) /\ h \in Joiners \cup {Closure} /\ ~v2
      /\ \A d \in E : d.do # "resume"
  BY <1>1, <1>2, <1>3 DEF Un!ExecutorStays
<1>5. \A g \in S : g.fn # "resume"
  BY <1>1, <1>2 DEF Un!MayCall
<1>6. e \in Un!Entries /\ e.do = "resume" /\ r.fn = "runSoon" /\ r.list = {}
  BY <1>4, NurseryFns DEF Un!Entry, Un!Entries
<1> HIDE DEF f, s, h, e, r, S, F, E
<1>7. v5' \in Seq(Un!Entries) /\ Un!Listed(v5') /\ Un!Range(v5') = E \cup {e}
  <2>1. e \notin E
    BY <1>4, <1>6
  <2> QED BY <1>1, <1>3, <1>4, <1>6, <2>1, NurseryListed DEF E
<1>8. F' = {r} \cup S /\ E' = E \cup {e} /\ Un!Living' = Un!Living
  BY <1>1, <1>2, <1>7 DEF F, E, Un!Living
<1>9. Un!TasksLeave(F, E)'
  <2>1. \A t \in Tasks : Un!Entry("destroy", t) # e
    BY <1>6 DEF Un!Entry
  <2>2. \A t \in Tasks : Un!Entry("destroy", t) \in E \cup {e} <=> Un!Entry("destroy", t) \in E
    BY <2>1
  <2> QED BY <1>1, <1>2, <1>3, <1>6, <1>8, <2>2 DEF Un!TasksLeave, Un!Entry
<1>10. Un!JoinersWait(F, E)'
  <2>1. \A q : Un!Entry("resume", q) = e <=> q = h
    BY DEF e, Un!Entry
  <2>2. \A q : Un!Frame("resume", q, {}) = f <=> q = h
    BY <1>4 DEF Un!Frame
  <2>3. \A q : Un!Frame("resume", q, {}).fn = "resume"
    BY NurseryFns
  <2>4. \A q \in Joiners : /\ Un!Entry("resume", q) \notin E
                           /\ Un!Frame("resume", q, {}) \notin {r} \cup S
    <3>1. \A q : Un!Entry("resume", q).do = "resume"
      BY DEF Un!Entry
    <3> QED BY <1>4, <1>5, <1>6, <2>3, <3>1
  <2>5. \A q \in Joiners : Un!Pending(above[q]) <=> v3 = q \/ q = h
    BY <1>2, <1>3, <2>2, <2>4 DEF Un!JoinersWait
  <2>6. \A g \in {r} \cup S : g.fn = "earlyCancel" => g \in F
    BY <1>2, <1>6
  <2> QED BY <1>1, <1>3, <1>8, <2>1, <2>4, <2>5, <2>6 DEF Un!JoinersWait, Un!Pending
<1>11. Un!ExecutorStays(F, E)'
  BY <1>1, <1>3, <1>4, <1>5, <1>6, <1>8 DEF Un!ExecutorStays
<1>12. Un!GoesOnSoon(F, E)'
  <2>1. f.list = {} /\ f.fn = "resume"
    BY <1>1, <1>2 DEF Un!MayCall
  <2> QED BY <1>1, <1>2, <1>3, <1>6, <1>8, <2>1 DEF Un!GoesOnSoon, Un!Entry
<1>13. \A g \in Un!Range(v6') : \A t \in g.list : v1'[t] # "no"
  BY <1>1, <1>2, <1>3, <1>6
<1>14. NurseryTypes'
  BY <1>1, <1>2, <1>7 DEF NurserySays, NurseryTypes
<1> QED BY <1>1, <1>2, <1>7, <1>9, <1>10, <1>11, <1>12, <1>13, <1>14, NurseryKept DEF F, E

\* A call that is about nobody takes the place of another one, or of none, or
\* it just returns; what is about somebody, and what will go on, stays.
LEMMA NurseryCallsChange ==
    ASSUME NurserySays, over = "no",
           UNCHANGED <<above, below, over, v1, v2, v3, v4, v5, v9>>,
           v6' \in Seq(Un!Frames), Un!Stacked(v6'), NotClosing(v6') \/ v5 = <<>>,
           v7' \in BOOLEAN, v8' \in 0..MaxQueued,
           \A f \in Un!Range(v6') :
              \/ f \in Un!Range(v6)
              \/ /\ f.fn \in {"runSoon", "captured", "drain"}
                 /\ \A t \in f.list : \E g \in Un!Range(v6) : t \in g.list,
           \A f \in Un!Range(v6) :
              \/ f \in Un!Range(v6')
              \/ /\ f.fn \in {"runSoon", "captured", "drain"}
                 /\ \A t \in f.list : \E g \in Un!Range(v6') : t \in g.list,
           v5 # <<>> => v8' > 0 \/ \E f \in Un!Range(v6') : f.fn \in {"captured", "drain", "runSoon"},
           v8' = 0 \/ (\A f \in Un!Range(v6') : f.fn # "destroy")
    PROVE  Un!Inv'
<1> DEFINE F == Un!Range(v6)
           E == Un!Range(v5)
           N == Un!Range(v6')
<1>1. /\ Un!TasksLeave(F, E) /\ Un!JoinersWait(F, E) /\ Un!ExecutorStays(F, E) /\ Un!GoesOnSoon(F, E)
      /\ \A g \in F : \A t \in g.list : v1[t] # "no"
      /\ Un!Listed(v5) /\ (v5 = <<>> <=> E = {})
  BY NurseryFacts
<1>2. /\ \A f : f.fn \notin {"runSoon", "captured", "drain"} => (f \in N <=> f \in F)
      /\ \A t : (\E f \in F : t \in f.list) <=> (\E f \in N : t \in f.list)
  <2>1. \A f : f.fn \notin {"runSoon", "captured", "drain"} => (f \in N <=> f \in F)
    OBVIOUS
  <2>2. \A t : (\E f \in F : t \in f.list) <=> (\E f \in N : t \in f.list)
    OBVIOUS
  <2> QED BY <2>1, <2>2
<1>3. F' = N /\ E' = E /\ Un!Living' = Un!Living
  BY DEF Un!Living
<1>4. v5 # <<>> => v8' > 0 \/ \E f \in N : f.fn \in {"captured", "drain", "runSoon"}
  OBVIOUS
<1>5. v8' = 0 \/ (\A f \in N : f.fn # "destroy")
  OBVIOUS
<1> HIDE DEF F, E, N
<1>6. Un!TasksLeave(F, E)' /\ Un!ExecutorStays(F, E)'
  BY <1>1, <1>2, <1>3 DEF Un!TasksLeave, Un!ExecutorStays, Un!Entry, Un!Frame
<1>7. Un!JoinersWait(F, E)'
  <2>1. \A q : Un!Frame("resume", q, {}).fn = "resume"
    BY NurseryFns
  <2>2. \A q : Un!Frame("resume", q, {}) \in N <=> Un!Frame("resume", q, {}) \in F
    BY <1>2, <2>1
  <2> QED BY <1>1, <1>2, <1>3, <2>2 DEF Un!JoinersWait, Un!Entry, Un!Pending
<1>8. Un!GoesOnSoon(F, E)'
  BY <1>1, <1>2, <1>3, <1>4, <1>5 DEF Un!GoesOnSoon, Un!Entry
<1>9. \A g \in N : \A t \in g.list : v1'[t] # "no"
  BY <1>1, <1>2
<1>10. NurseryTypes'
  BY DEF NurserySays, NurseryTypes
<1> QED BY <1>1, <1>6, <1>7, <1>8, <1>9, <1>10, NurseryKept DEF F, E, N

LEMMA NurseryRunSoonRuns ==
    ASSUME Un!Inv, Un!RunSoonRuns
    PROVE  Un!Inv'
<1> DEFINE f == Head(v6)
           s == Tail(v6)
           S == Un!Range(s)
           F == Un!Range(v6)
<1>1. /\ NurserySays /\ over = "no" /\ v6 # <<>> /\ f.fn = "runSoon"
      /\ IF Un!Running THEN v6' = s /\ v7' = v7 ELSE v6' = <<Un!Fn("drain")>> \o s /\ v7' = FALSE
      /\ UNCHANGED <<above, below, over, v1, v2, v3, v4, v5, v8, v9>>
  BY NurseryMeans DEF Un!RunSoonRuns, Un!At, Un!shared
<1>2. /\ f \in Un!Frames /\ s \in Seq(Un!Frames) /\ Un!Stacked(s) /\ Un!MayCall(f, s)
      /\ F = {f} \cup S /\ NotClosing(s)
  BY <1>1, NurseryReplaces
<1>3. f.list = {}
  BY <1>1, <1>2 DEF Un!MayCall
<1>4. /\ Un!GoesOnSoon(F, Un!Range(v5)) /\ v7 \in BOOLEAN /\ v8 \in 0..MaxQueued
      /\ v5 = <<>> <=> Un!Range(v5) = {}
  BY <1>1, NurseryFacts DEF NurserySays, NurseryTypes
<1>5. \A g \in F : g.fn = "destroy" => v8 = 0
  BY <1>4 DEF Un!GoesOnSoon
<1>6. CASE Un!Running
  <2>1. \E g \in F : g.fn \in {"captured", "drain"}
    BY <1>6 DEF Un!Running, Un!OnStack
  <2> HIDE DEF f, s, S, F
  <2>2. Un!Range(v6') = S /\ v6' = s
    BY <1>1, <1>6 DEF S
  <2>3. \E g \in S : g.fn \in {"captured", "drain"}
    BY <1>1, <1>2, <2>1
  <2>4. v8 = 0 \/ (\A g \in S : g.fn # "destroy")
    BY <1>2, <1>5
  <2>5. /\ \A g \in S : g \in F
        /\ \A g \in F : g \in S \/ (g.fn \in {"runSoon", "captured", "drain"} /\ g.list = {})
    BY <1>1, <1>2, <1>3
  <2> QED BY <1>1, <1>2, <1>4, <1>6, <2>2, <2>3, <2>4, <2>5, NurseryCallsChange DEF F
<1>7. CASE ~Un!Running
  <2> DEFINE d == Un!Fn("drain")
  <2>1. \A g \in F : g.fn \notin {"captured", "drain"}
    BY <1>7 DEF Un!Running, Un!OnStack
  <2>2. d \in Un!Frames /\ d.fn = "drain" /\ d.list = {} /\ d.busy = FALSE
    BY NurseryFns
  <2>3. v6' = <<d>> \o s /\ v7' = FALSE
    BY <1>1, <1>7
  <2> HIDE DEF f, s, S, F, d
  <2>4. Un!MayCall(d, s)
    BY <1>2, <2>1, <2>2 DEF Un!MayCall, S
  <2>5. /\ v6' \in Seq(Un!Frames) /\ Un!Stacked(v6') /\ NotClosing(v6')
        /\ Un!Range(v6') = {d} \cup S
    BY <1>2, <2>2, <2>3, <2>4, NurseryCalls DEF NotClosing, S
  <2>6. v8 = 0 \/ (\A g \in {d} \cup S : g.fn # "destroy")
    BY <1>2, <1>5, <2>2
  <2>7. /\ \A g \in {d} \cup S : g \in F \/ (g.fn \in {"runSoon", "captured", "drain"} /\ g.list = {})
        /\ \A g \in F : g \in {d} \cup S \/ (g.fn \in {"runSoon", "captured", "drain"} /\ g.list = {})
    BY <1>1, <1>2, <1>3, <2>2
  <2> QED BY <1>1, <1>4, <2>2, <2>3, <2>5, <2>6, <2>7, NurseryCallsChange DEF F
<1> QED BY <1>6, <1>7

LEMMA NurseryRunSoonDefers ==
    ASSUME Un!Inv, Un!RunSoonDefers
    PROVE  Un!Inv'
<1> DEFINE f == Head(v6)
           s == Tail(v6)
           S == Un!Range(s)
           F == Un!Range(v6)
<1>1. /\ NurserySays /\ over = "no" /\ v6 # <<>> /\ f.fn = "runSoon" /\ ~Un!Running
      /\ v8 < MaxQueued /\ v6' = s /\ v7' = TRUE /\ v8' = v8 + 1
      /\ UNCHANGED <<above, below, over, v1, v2, v3, v4, v5, v9>>
  BY NurseryMeans DEF Un!RunSoonDefers, Un!At, Un!shared
<1>2. /\ f \in Un!Frames /\ s \in Seq(Un!Frames) /\ Un!Stacked(s) /\ Un!MayCall(f, s)
      /\ F = {f} \cup S /\ NotClosing(s)
  BY <1>1, NurseryReplaces
<1>3. f.list = {}
  BY <1>1, <1>2 DEF Un!MayCall
<1>4. v8' \in 0..MaxQueued /\ v8' > 0
  BY <1>1, ConstantsAssumption DEF NurserySays, NurseryTypes
<1>5. \A g \in F : g.fn # "destroy"
  <2> SUFFICES ASSUME NEW g \in F, g.fn = "destroy" PROVE FALSE
    OBVIOUS
  <2>1. v6 \in Seq(Un!Frames) /\ Un!Stacked(v6)
    BY <1>1, NurseryFacts
  <2>2. \E d \in F : d.fn = "drain"
    BY <1>1, <2>1, NurseryDrains
  <2> QED BY <1>1, <2>2 DEF Un!Running, Un!OnStack
<1> HIDE DEF f, s, F
<1>6. /\ \A g \in S : g \in F /\ g.fn # "destroy"
      /\ \A g \in F : g \in S \/ (g.fn \in {"runSoon", "captured", "drain"} /\ g.list = {})
  BY <1>1, <1>2, <1>3, <1>5
<1> QED BY <1>1, <1>2, <1>4, <1>6, NurseryCallsChange DEF F

LEMMA NurseryRunOnce ==
    ASSUME Un!Inv, Un!RunOnce
    PROVE  Un!Inv'
<1> DEFINE d == Un!Fn("drain")
<1>1. /\ NurserySays /\ over = "no" /\ v6 = <<>> /\ v8 > 0 /\ v8' = v8 - 1
      /\ v6' = <<d>> /\ v7' = FALSE
      /\ UNCHANGED <<above, below, over, v1, v2, v3, v4, v5, v9>>
  BY NurseryMeans DEF Un!RunOnce, Un!shared
<1>2. d \in Un!Frames /\ d.fn = "drain" /\ d.list = {} /\ d.busy = FALSE
  BY NurseryFns
<1>3. v6 \in Seq(Un!Frames) /\ Un!Stacked(v6) /\ Un!Range(v6) = {}
  BY <1>1, NurseryFacts, NurseryElements
<1> HIDE DEF d
<1>4. Un!MayCall(d, v6)
  BY <1>1, <1>2, <1>3 DEF Un!MayCall
<1>5. <<d>> \o v6 = <<d>>
  <2> DEFINE x == <<d>>
  <2>1. x \in Seq(Un!Frames)
    BY <1>2
  <2> HIDE DEF x
  <2> QED BY <1>1, <2>1, ConcatEmptySeq DEF x
<1>6. /\ v6' \in Seq(Un!Frames) /\ Un!Stacked(v6') /\ NotClosing(v6') /\ Un!Range(v6') = {d}
  BY <1>1, <1>2, <1>3, <1>4, <1>5, NurseryCalls DEF NotClosing
<1>7. v8' \in 0..MaxQueued
  BY <1>1, ConstantsAssumption DEF NurserySays, NurseryTypes
<1> QED BY <1>1, <1>2, <1>3, <1>6, <1>7, NurseryCallsChange

LEMMA NurseryMarks ==
    ASSUME NurserySays, over = "no", v6 # <<>>, Head(v6).fn \in {"captured", "drain"},
           NEW b \in BOOLEAN, NEW l \in SUBSET Tasks, l # {} => Head(v6).fn = "captured",
           v6' = <<[Head(v6) EXCEPT !.busy = b, !.list = l]>> \o Tail(v6)
    PROVE  LET g == [Head(v6) EXCEPT !.busy = b, !.list = l]
           IN  /\ g \in Un!Frames /\ g.fn = Head(v6).fn /\ g.list = l /\ g.busy = b
               /\ v6' \in Seq(Un!Frames) /\ Un!Stacked(v6') /\ NotClosing(v6')
               /\ Un!Range(v6') = {g} \cup Un!Range(Tail(v6))
<1> DEFINE f == Head(v6)
           s == Tail(v6)
           g == [f EXCEPT !.busy = b, !.list = l]
<1>1. /\ f \in Un!Frames /\ s \in Seq(Un!Frames) /\ Un!Stacked(s) /\ Un!MayCall(f, s)
  BY NurseryReplaces
<1>2. v6' = <<g>> \o s /\ f.fn \in {"captured", "drain"} /\ (l # {} => f.fn = "captured")
  OBVIOUS
<1> HIDE DEF f, s
<1>3. g \in Un!Frames /\ g.fn = f.fn /\ g.list = l /\ g.busy = b
  BY <1>1 DEF Un!Frames
<1> HIDE DEF g
<1>4. Un!MayCall(g, s)
  BY <1>1, <1>2, <1>3 DEF Un!MayCall
<1>5. /\ v6' \in Seq(Un!Frames) /\ Un!Stacked(v6') /\ Head(v6') = g
      /\ Un!Range(v6') = {g} \cup Un!Range(s)
  BY <1>1, <1>2, <1>3, <1>4, NurseryCalls
<1> QED BY <1>2, <1>3, <1>5 DEF f, s, g, NotClosing

LEMMA NurseryEntryEnds ==
    ASSUME Un!Inv, Un!EntryEnds
    PROVE  Un!Inv'
<1> DEFINE f == Head(v6)
           s == Tail(v6)
           g == [f EXCEPT !.busy = FALSE, !.list = f.list]
           S == Un!Range(s)
           F == Un!Range(v6)
<1>1. /\ NurserySays /\ over = "no" /\ v6 # <<>> /\ f.busy
      /\ v6' = [v6 EXCEPT ![1].busy = FALSE]
      /\ UNCHANGED <<above, below, over, v1, v2, v3, v4, v5, v7, v8, v9>>
  BY NurseryMeans DEF Un!EntryEnds, Un!shared
<1>2. /\ f \in Un!Frames /\ s \in Seq(Un!Frames) /\ Un!MayCall(f, s) /\ F = {f} \cup S
  BY <1>1, NurseryReplaces
<1>3. v6 \in Seq(Un!Frames) /\ Un!GoesOnSoon(F, Un!Range(v5)) /\ (v5 = <<>> <=> Un!Range(v5) = {})
  BY <1>1, NurseryFacts
<1>4. /\ f.fn \in {"captured", "drain"} /\ f.list \in SUBSET Tasks
      /\ f.list # {} => f.fn = "captured"
  BY <1>1, <1>2 DEF Un!MayCall, Un!Frames
<1>5. v6' = <<g>> \o s
  <2> DEFINE h == [f EXCEPT !.busy = FALSE]
  <2>1. h = g /\ h \in Un!Frames
    BY <1>2 DEF Un!Frames
  <2>2. v6' = [v6 EXCEPT ![1] = h]
    BY <1>1, <1>3
  <2> HIDE DEF h, g
  <2>3. [v6 EXCEPT ![1] = h] = <<h>> \o s
    <3> DEFINE a == [v6 EXCEPT ![1] = h]
               b == <<h>> \o s
    <3>1. a \in Seq(Un!Frames) /\ Len(a) = Len(v6) /\ a[1] = h /\ \A i \in 2..Len(v6) : a[i] = v6[i]
      BY <1>1, <1>3, <2>1, ExceptSeq
    <3>2. b \in Seq(Un!Frames) /\ Len(b) = Len(s) + 1 /\ b[1] = h /\ \A i \in 1..Len(s) : b[i + 1] = s[i]
      BY <1>2, <2>1, NurseryPush
    <3>3. Len(s) = Len(v6) - 1 /\ \A i \in 1..Len(s) : s[i] = v6[i + 1]
      BY <1>1, <1>3, HeadTailProperties
    <3>4. \A i \in 1..Len(v6) : i = 1 \/ (i - 1 \in 1..Len(s) /\ (i - 1) + 1 = i /\ i \in 2..Len(v6))
      BY <1>1, <1>3, <3>3
    <3> HIDE DEF a, b, s
    <3>5. \A i \in 1..Len(v6) : a[i] = b[i]
      BY <3>1, <3>2, <3>3, <3>4
    <3>6. Len(a) = Len(b)
      BY <1>3, <3>1, <3>2, <3>3
    <3>7. a = b
      BY <3>1, <3>2, <3>5, <3>6, SeqEqual
    <3> QED BY <3>7 DEF a, b
  <2> QED BY <2>1, <2>2, <2>3
<1>6. /\ g.fn = f.fn /\ g.list = f.list
      /\ v6' \in Seq(Un!Frames) /\ Un!Stacked(v6') /\ NotClosing(v6')
      /\ Un!Range(v6') = {g} \cup S
  BY <1>1, <1>4, <1>5, NurseryMarks
<1>7. v7 \in BOOLEAN /\ v8 \in 0..MaxQueued
  BY <1>1 DEF NurserySays, NurseryTypes
<1> HIDE DEF f, s, g, S, F
<1>8. /\ \A h \in {g} \cup S : h \in F \/ (h.fn \in {"runSoon", "captured", "drain"}
                                            /\ \A t \in h.list : \E k \in F : t \in k.list)
      /\ \A h \in F : h \in {g} \cup S \/ (h.fn \in {"runSoon", "captured", "drain"}
                                            /\ \A t \in h.list : \E k \in {g} \cup S : t \in k.list)
  BY <1>2, <1>4, <1>6
<1>9. /\ v5 # <<>> => v8 > 0 \/ \E h \in {g} \cup S : h.fn \in {"captured", "drain", "runSoon"}
      /\ v8 = 0 \/ (\A h \in {g} \cup S : h.fn # "destroy")
  BY <1>2, <1>3, <1>4, <1>6 DEF Un!GoesOnSoon
<1> QED BY <1>1, <1>6, <1>7, <1>8, <1>9, NurseryCallsChange DEF F

LEMMA NurseryDrained ==
    ASSUME Un!Inv, Un!Drained
    PROVE  Un!Inv'
<1> DEFINE f == Head(v6)
           s == Tail(v6)
           S == Un!Range(s)
           F == Un!Range(v6)
<1>1. /\ NurserySays /\ over = "no" /\ v6 # <<>> /\ v6' = s
      /\ \/ f.fn = "captured" /\ f.list = {}
         \/ f.fn = "drain" /\ v5 = <<>>
      /\ UNCHANGED <<above, below, over, v1, v2, v3, v4, v5, v7, v8, v9>>
  BY NurseryMeans DEF Un!Drained, Un!Takes, Un!At, Un!shared
<1>2. /\ f \in Un!Frames /\ s \in Seq(Un!Frames) /\ Un!Stacked(s) /\ Un!MayCall(f, s)
      /\ F = {f} \cup S /\ (f.fn # "drain" => NotClosing(s))
  BY <1>1, NurseryReplaces
<1>3. f.list = {}
  BY <1>1, <1>2 DEF Un!MayCall
<1>4. v7 \in BOOLEAN /\ v8 \in 0..MaxQueued /\ Un!GoesOnSoon(F, Un!Range(v5))
  BY <1>1, NurseryFacts DEF NurserySays, NurseryTypes
<1>5. v5 # <<>> => \E g \in S : g.fn = "runSoon"
  <2> SUFFICES ASSUME v5 # <<>> PROVE \E g \in S : g.fn = "runSoon"
    OBVIOUS
  <2>1. s # <<>> /\ Head(s).fn = "runSoon"
    BY <1>1, <1>2 DEF Un!MayCall
  <2>2. Head(s) \in S
    <3> HIDE DEF s
    <3> QED BY <1>2, <2>1, NurseryPop
  <2> QED BY <2>1, <2>2
<1> HIDE DEF f, s, S, F
<1>6. Un!Range(v6') = S
  BY <1>1 DEF S
<1>7. /\ \A h \in S : h \in F
      /\ \A h \in F : h \in S \/ (h.fn \in {"runSoon", "captured", "drain"} /\ h.list = {})
      /\ v8 = 0 \/ (\A h \in S : h.fn # "destroy")
  BY <1>1, <1>2, <1>3, <1>4 DEF Un!GoesOnSoon
<1> QED BY <1>1, <1>2, <1>4, <1>5, <1>6, <1>7, NurseryCallsChange DEF F

LEMMA NurseryAskTask ==
    ASSUME Un!Inv, Un!AskTask
    PROVE  Un!Inv'
<1> DEFINE f == Head(v6)
           s == Tail(v6)
           S == Un!Range(s)
           F == Un!Range(v6)
           E == Un!Range(v5)
<1>1. /\ NurserySays /\ over = "no" /\ v6 # <<>> /\ f.fn = "captured"
      /\ UNCHANGED <<above, below, over, v2, v3, v4, v5, v7, v8, v9>>
  BY NurseryMeans DEF Un!AskTask, Un!Takes, Un!At, Un!shared
<1>2. PICK t \in f.list : /\ v1' = [v1 EXCEPT ![t] = IF @ = "alive" THEN "asked" ELSE @]
                          /\ v6' = Un!Busy(f.list \ {t})
  BY DEF Un!AskTask
<1> DEFINE l == f.list \ {t}
           g == [f EXCEPT !.busy = TRUE, !.list = l]
<1>3. /\ f \in Un!Frames /\ s \in Seq(Un!Frames) /\ F = {f} \cup S /\ S \subseteq Un!Frames
  BY <1>1, NurseryReplaces
<1>4. f.list \subseteq Tasks /\ l \in SUBSET Tasks /\ t \in Tasks
  BY <1>2, <1>3 DEF Un!Frames
<1>5. v6' = <<g>> \o s
  BY <1>2 DEF Un!Busy
<1>6. /\ g.fn = "captured" /\ g.list = l
      /\ v6' \in Seq(Un!Frames) /\ Un!Stacked(v6') /\ NotClosing(v6')
      /\ Un!Range(v6') = {g} \cup S
  BY <1>1, <1>4, <1>5, NurseryMarks
<1>7. /\ Un!TasksLeave(F, E) /\ Un!JoinersWait(F, E) /\ Un!ExecutorStays(F, E) /\ Un!GoesOnSoon(F, E)
      /\ \A h \in F : \A u \in h.list : v1[u] # "no"
      /\ Un!Listed(v5) /\ v1 \in [Tasks -> {"no", "alive", "asked", "leaving", "ended"}]
  BY <1>1, NurseryFacts
<1> HIDE DEF f, s, S, F, E, g
<1>8. /\ v1' \in [Tasks -> {"no", "alive", "asked", "leaving", "ended"}]
      /\ \A u \in Tasks : u # t => v1'[u] = v1[u]
      /\ v1'[t] = IF v1[t] = "alive" THEN "asked" ELSE v1[t]
  BY <1>2, <1>4, <1>7
<1>9. Un!Living' = Un!Living
  BY <1>4, <1>7, <1>8 DEF Un!Living
<1>10. F' = {g} \cup S /\ E' = E
  BY <1>1, <1>6 DEF F, E
<1>11. Un!TasksLeave(F, E)'
  <2>1. \A h \in {g} \cup S : h.fn = "continuation" => h \in F
    BY <1>3, <1>6
  <2>2. \A u \in Tasks : /\ v1[u] = "leaving" => v1'[u] = "leaving"
                         /\ v1'[u] = "ended" <=> v1[u] = "ended"
    BY <1>8
  <2> QED BY <1>7, <1>10, <2>1, <2>2 DEF Un!TasksLeave, Un!Entry
<1>12. Un!JoinersWait(F, E)'
  <2>1. \A q : Un!Frame("resume", q, {}).fn = "resume"
    BY NurseryFns
  <2>2. \A h : h.fn # "captured" => (h \in {g} \cup S <=> h \in F)
    BY <1>1, <1>3, <1>6
  <2>3. \A q : Un!Frame("resume", q, {}) \in {g} \cup S <=> Un!Frame("resume", q, {}) \in F
    BY <2>1, <2>2
  <2> QED BY <1>1, <1>7, <1>10, <2>2, <2>3 DEF Un!JoinersWait, Un!Entry, Un!Pending
<1>13. Un!ExecutorStays(F, E)'
  <2>1. \A h \in {g} \cup S : h.fn = "resume" => h \in F
    BY <1>3, <1>6
  <2> QED BY <1>1, <1>7, <1>9, <1>10, <2>1 DEF Un!ExecutorStays, Un!Frame
<1>14. Un!GoesOnSoon(F, E)'
  <2>1. \A h \in {g} \cup S : h.fn \in {"close", "destroy"} => h \in F
    BY <1>3, <1>6
  <2>2. \A u \in Tasks : v1'[u] = "alive" => v1[u] = "alive" /\ u # t
    BY <1>4, <1>8
  <2>3. v4 # "none" => \A u \in Tasks : v1'[u] = "alive" => \E h \in {g} \cup S : u \in h.list
    <3> SUFFICES ASSUME v4 # "none", NEW u \in Tasks, v1'[u] = "alive" PROVE \E h \in {g} \cup S : u \in h.list
      OBVIOUS
    <3>1. PICK h \in F : u \in h.list
      BY <1>7, <2>2 DEF Un!GoesOnSoon
    <3>2. CASE h = f
      BY <1>6, <2>2, <3>1, <3>2
    <3>3. CASE h \in S
      BY <3>1, <3>3
    <3> QED BY <1>3, <3>2, <3>3
  <2> QED BY <1>1, <1>6, <1>7, <1>9, <1>10, <2>1, <2>3 DEF Un!GoesOnSoon, Un!Entry
<1>15. \A h \in {g} \cup S : \A u \in h.list : v1'[u] # "no"
  <2>1. \A u \in Tasks : v1[u] # "no" => v1'[u] # "no"
    BY <1>8
  <2> QED BY <1>3, <1>4, <1>6, <1>7, <2>1 DEF Un!Frames
<1>16. NurseryTypes'
  BY <1>1, <1>6, <1>8 DEF NurserySays, NurseryTypes
<1> HIDE DEF l
<1> QED BY <1>1, <1>6, <1>7, <1>10, <1>11, <1>12, <1>13, <1>14, <1>15, <1>16, NurseryKept DEF F, E

\* Only what was captured is on a list of its own.
LEMMA NurseryCaptured ==
    ASSUME NEW S, NEW s \in Seq(S), Un!Stacked(s)
    PROVE  \A f \in Un!Range(s) : f.list # {} => f.fn = "captured"
BY DEF Un!Range, Un!Stacked, Un!MayCall

\* The next of the executor's own list is taken from it.
LEMMA NurseryTakes ==
    ASSUME Un!Inv, NEW do, Un!TakesEntry(do)
    PROVE  LET f == Head(v6)
               g == [f EXCEPT !.busy = TRUE, !.list = {}]
               e == Head(v5)
               S == Un!Range(Tail(v6))
               Q == Un!Range(Tail(v5))
           IN  /\ NurserySays /\ over = "no" /\ v6 # <<>> /\ v5 # <<>> /\ v5' = Tail(v5)
               /\ UNCHANGED <<below, v2, v3, v7, v8, v9>>
               /\ e.do = do /\ e \in Un!Entries /\ Un!Range(v5) = {e} \cup Q /\ v5' \in Seq(Un!Entries)
               /\ Un!Listed(v5')
               /\ do = "resume" => \A d \in Q : d.do = "cancel"
               /\ do = "destroy" => e \notin Q
               /\ f.fn = "drain" /\ Un!Range(v6) = {f} \cup S /\ f.list = {}
               /\ g.fn = "drain" /\ g.list = {} /\ Un!Busy({}) = <<g>> \o Tail(v6)
               /\ \A h \in S : h.list = {} /\ h.fn # "captured"
               /\ Un!Busy({}) \in Seq(Un!Frames) /\ Un!Stacked(Un!Busy({})) /\ NotClosing(Un!Busy({}))
               /\ Un!Range(Un!Busy({})) = {g} \cup S
<1> DEFINE f == Head(v6)
           s == Tail(v6)
           g == [f EXCEPT !.busy = TRUE, !.list = {}]
           e == Head(v5)
           S == Un!Range(s)
           Q == Un!Range(Tail(v5))
<1>1. /\ NurserySays /\ over = "no" /\ v6 # <<>> /\ v5 # <<>> /\ v5' = Tail(v5)
      /\ UNCHANGED <<below, v2, v3, v7, v8, v9>> /\ e.do = do /\ f.fn = "drain"
  BY NurseryMeans DEF Un!TakesEntry, Un!Takes, Un!At
<1>2. /\ f \in Un!Frames /\ s \in Seq(Un!Frames) /\ Un!Stacked(s) /\ Un!MayCall(f, s)
      /\ Un!Range(v6) = {f} \cup S
  BY <1>1, NurseryReplaces
<1>3. Un!Listed(v5) /\ v5 \in Seq(Un!Entries)
  BY <1>1, NurseryFacts
<1>4. /\ e \in Un!Entries /\ Un!Range(v5) = {e} \cup Q /\ v5' \in Seq(Un!Entries) /\ Un!Listed(v5')
      /\ e.do = "resume" => \A d \in Q : d.do = "cancel"
      /\ e.do = "destroy" => e \notin Q
  BY <1>1, <1>3, NurseryListed
<1>5. Un!Busy({}) = <<g>> \o s
  BY DEF Un!Busy
<1>6. g \in Un!Frames /\ g.fn = "drain" /\ g.list = {}
  BY <1>1, <1>2 DEF Un!Frames
<1>7. f.list = {} /\ \A h \in S : h.fn # "captured"
  BY <1>1, <1>2 DEF Un!MayCall
<1>8. \A h \in S : h.list = {}
  BY <1>2, <1>7, NurseryCaptured
<1> HIDE DEF f, s, g, S, Q, e
<1>9. Un!MayCall(g, s)
  BY <1>6, <1>7 DEF Un!MayCall, S
<1>10. /\ <<g>> \o s \in Seq(Un!Frames) /\ Un!Stacked(<<g>> \o s) /\ NotClosing(<<g>> \o s)
       /\ Un!Range(<<g>> \o s) = {g} \cup S
  BY <1>2, <1>6, <1>9, NurseryCalls DEF NotClosing, S
<1> QED BY <1>1, <1>2, <1>4, <1>5, <1>6, <1>7, <1>8, <1>10 DEF f, s, g, S, Q, e

LEMMA NurseryEntries ==
    /\ \A e \in Un!Entries : /\ e.do = "destroy" => e.to \in Tasks /\ e = Un!Entry("destroy", e.to)
                             /\ e.do = "resume" => e.to \in Joiners \cup {Closure} /\ e = Un!Entry("resume", e.to)
                             /\ e.do = "cancel" => e = Un!Entry("cancel", Nobody)
                             /\ e.do \in {"destroy", "resume", "cancel"}
    /\ \A do, w : Un!Entry(do, w).do = do /\ Un!Entry(do, w).to = w
    /\ \A t \in Tasks : Un!Entry("destroy", t) \in Un!Entries
    /\ \A h \in Joiners \cup {Closure} : Un!Entry("resume", h) \in Un!Entries
    /\ Un!Entry("cancel", Nobody) \in Un!Entries
BY DEF Un!Entry, Un!Entries

LEMMA NurseryDestroyFrame ==
    ASSUME Un!Inv, Un!DestroyFrame
    PROVE  Un!Inv'
<1> DEFINE f == Head(v6)
           g == [f EXCEPT !.busy = TRUE, !.list = {}]
           e == Head(v5)
           t == e.to
           S == Un!Range(Tail(v6))
           Q == Un!Range(Tail(v5))
           F == Un!Range(v6)
           E == Un!Range(v5)
<1>1. /\ Un!TakesEntry("destroy") /\ v1' = [v1 EXCEPT ![t] = "no"] /\ v6' = Un!Busy({})
      /\ UNCHANGED <<above, over, v4>>
  BY DEF Un!DestroyFrame
<1>2. /\ NurserySays /\ over = "no" /\ v5' = Tail(v5) /\ UNCHANGED <<below, v2, v3, v7, v8, v9>>
      /\ e.do = "destroy" /\ e \in Un!Entries /\ E = {e} \cup Q /\ v5' \in Seq(Un!Entries)
      /\ Un!Listed(v5') /\ e \notin Q
      /\ f.fn = "drain" /\ F = {f} \cup S /\ f.list = {} /\ g.fn = "drain" /\ g.list = {}
      /\ \A h \in S : h.list = {}
      /\ v6' \in Seq(Un!Frames) /\ Un!Stacked(v6') /\ NotClosing(v6')
      /\ Un!Range(v6') = {g} \cup S
  BY <1>1, NurseryTakes
<1>3. /\ Un!TasksLeave(F, E) /\ Un!JoinersWait(F, E) /\ Un!ExecutorStays(F, E) /\ Un!GoesOnSoon(F, E)
      /\ v1 \in [Tasks -> {"no", "alive", "asked", "leaving", "ended"}]
  BY <1>2, NurseryFacts
<1>4. t \in Tasks /\ e = Un!Entry("destroy", t)
  BY <1>2, NurseryEntries
<1>5. F' = {g} \cup S /\ E' = Q
  BY <1>2
<1> HIDE DEF f, g, e, t, S, Q, F, E
<1>6. v1[t] = "ended"
  BY <1>2, <1>3, <1>4 DEF Un!TasksLeave
<1>7. /\ v1' \in [Tasks -> {"no", "alive", "asked", "leaving", "ended"}]
      /\ v1'[t] = "no" /\ \A u \in Tasks : u # t => v1'[u] = v1[u]
  BY <1>1, <1>3, <1>4
<1>8. Un!Living' = Un!Living
  BY <1>4, <1>6, <1>7 DEF Un!Living
<1>9. Un!TasksLeave(F, E)'
  <2>1. \A h \in {g} \cup S : h.fn = "continuation" => h.who \in Tasks /\ v1'[h.who] = "leaving"
    BY <1>2, <1>3, <1>6, <1>7 DEF Un!TasksLeave
  <2>2. \A u \in Tasks : u # t => Un!Entry("destroy", u) # e
    BY <1>4, NurseryEntries
  <2>3. \A u \in Tasks : v1'[u] = "ended" <=> Un!Entry("destroy", u) \in Q
    BY <1>2, <1>3, <1>4, <1>7, <2>2 DEF Un!TasksLeave
  <2> QED BY <1>5, <2>1, <2>3 DEF Un!TasksLeave, Un!Entry
<1>10. Un!JoinersWait(F, E)'
  <2>1. \A q : Un!Frame("resume", q, {}) \in {g} \cup S <=> Un!Frame("resume", q, {}) \in F
    BY <1>2, NurseryFns
  <2>2. \A q : Un!Entry("resume", q) \in E <=> Un!Entry("resume", q) \in Q
    BY <1>2, NurseryEntries
  <2> QED BY <1>1, <1>2, <1>3, <1>5, <2>1, <2>2 DEF Un!JoinersWait, Un!Entry, Un!Pending
<1>11. Un!ExecutorStays(F, E)'
  BY <1>1, <1>2, <1>3, <1>5, <1>8 DEF Un!ExecutorStays, Un!Frame
<1>12. Un!GoesOnSoon(F, E)'
  <2>1. \A u \in Tasks : v1'[u] = "alive" => v1[u] = "alive"
    BY <1>7
  <2>2. Un!Entry("cancel", Nobody) \in E <=> Un!Entry("cancel", Nobody) \in Q
    BY <1>2, NurseryEntries
  <2> QED BY <1>1, <1>2, <1>3, <1>5, <1>8, <2>1, <2>2 DEF Un!GoesOnSoon, Un!Entry
<1>13. \A h \in {g} \cup S : \A u \in h.list : v1'[u] # "no"
  BY <1>2
<1>14. NurseryTypes'
  BY <1>1, <1>2, <1>7 DEF NurserySays, NurseryTypes
<1> QED BY <1>1, <1>2, <1>9, <1>10, <1>11, <1>12, <1>13, <1>14, NurseryKept DEF F, E

LEMMA NurseryCancelToClose ==
    ASSUME Un!Inv, Un!CancelToClose
    PROVE  Un!Inv'
<1> DEFINE f == Head(v6)
           g == [f EXCEPT !.busy = TRUE, !.list = {}]
           e == Head(v5)
           S == Un!Range(Tail(v6))
           Q == Un!Range(Tail(v5))
           F == Un!Range(v6)
           E == Un!Range(v5)
           N == Un!Range(v6')
           b == Un!Busy({})
<1>1. /\ Un!TakesEntry("cancel") /\ Un!CancelFrom(b) /\ UNCHANGED <<above, over, v1>>
  BY DEF Un!CancelToClose
<1>2. /\ NurserySays /\ over = "no" /\ v5' = Tail(v5) /\ UNCHANGED <<below, v2, v3, v7, v8, v9>>
      /\ e.do = "cancel" /\ e \in Un!Entries /\ E = {e} \cup Q /\ v5' \in Seq(Un!Entries)
      /\ Un!Listed(v5')
      /\ f.fn = "drain" /\ F = {f} \cup S /\ f.list = {} /\ g.fn = "drain" /\ g.list = {}
      /\ \A h \in S : h.list = {}
      /\ b \in Seq(Un!Frames) /\ Un!Stacked(b) /\ NotClosing(b) /\ Un!Range(b) = {g} \cup S
  BY <1>1, NurseryTakes
<1>3. /\ Un!TasksLeave(F, E) /\ Un!JoinersWait(F, E) /\ Un!ExecutorStays(F, E) /\ Un!GoesOnSoon(F, E)
      /\ v1 \in [Tasks -> {"no", "alive", "asked", "leaving", "ended"}]
  BY <1>2, NurseryFacts
<1>4. /\ v6' \in Seq(Un!Frames) /\ Un!Stacked(v6') /\ NotClosing(v6')
      /\ {g} \cup S \subseteq N
      /\ \A h \in N : h \in {g} \cup S \/ (h.fn \in {"captured", "runSoon"} /\ h.list \subseteq Un!Living)
      /\ v4 = "none" /\ v2 => \A u \in Un!Living : \E h \in N : u \in h.list
  <2> HIDE DEF g, S, b
  <2> QED BY <1>1, <1>2, NurseryCancels DEF Un!CancelFrom, NurserySays
<1>5. v4' = (IF v4 = "none" THEN "request" ELSE v4) /\ v4 \in {"none", "request", "error"}
  BY <1>1, <1>2 DEF Un!CancelFrom, NurserySays, NurseryTypes
<1>6. F' = N /\ E' = Q /\ Un!Living' = Un!Living
  BY <1>1, <1>2 DEF Un!Living
<1> HIDE DEF f, g, e, S, Q, F, E, N, b
<1>7. Un!TasksLeave(F, E)'
  <2>1. \A h \in N : h.fn = "continuation" => h \in F
    BY <1>2, <1>4
  <2>2. \A u : Un!Entry("destroy", u) \in E <=> Un!Entry("destroy", u) \in Q
    BY <1>2, NurseryEntries
  <2> QED BY <1>1, <1>3, <1>6, <2>1, <2>2 DEF Un!TasksLeave, Un!Entry
<1>8. Un!JoinersWait(F, E)'
  <2>1. \A h : h.fn \in {"earlyCancel", "resume"} => (h \in N <=> h \in F)
    BY <1>2, <1>4
  <2>2. \A q : Un!Frame("resume", q, {}) \in N <=> Un!Frame("resume", q, {}) \in F
    BY <2>1, NurseryFns
  <2>3. \A q : Un!Entry("resume", q) \in E <=> Un!Entry("resume", q) \in Q
    BY <1>2, NurseryEntries
  <2> QED BY <1>1, <1>2, <1>3, <1>6, <2>1, <2>2, <2>3 DEF Un!JoinersWait, Un!Entry, Un!Pending
<1>9. Un!ExecutorStays(F, E)'
  <2>1. \A h \in N : h.fn = "resume" => h \in F
    BY <1>2, <1>4
  <2> QED BY <1>2, <1>3, <1>6, <2>1 DEF Un!ExecutorStays, Un!Frame
<1>10. Un!GoesOnSoon(F, E)'
  <2>1. \A h \in N : h.fn \in {"close", "destroy"} => h \in F
    BY <1>2, <1>4
  <2>2. ASSUME NEW u \in Tasks, v1[u] = "alive" PROVE \E h \in N : u \in h.list
    <3>1. u \in Un!Living /\ v2
      BY <1>3, <2>2 DEF Un!Living, Un!ExecutorStays
    <3>2. CASE v4 = "none"
      BY <1>4, <3>1, <3>2
    <3>3. CASE v4 # "none"
      BY <1>2, <1>3, <1>4, <2>2, <3>3 DEF Un!GoesOnSoon
    <3> QED BY <3>2, <3>3
  <2> QED BY <1>1, <1>2, <1>3, <1>4, <1>5, <1>6, <2>1, <2>2 DEF Un!GoesOnSoon, Un!Entry
<1>11. \A h \in N : \A u \in h.list : v1'[u] # "no"
  BY <1>1, <1>2, <1>4 DEF Un!Living
<1>12. NurseryTypes'
  BY <1>1, <1>2, <1>4, <1>5 DEF NurserySays, NurseryTypes
<1> QED BY <1>1, <1>2, <1>4, <1>7, <1>8, <1>9, <1>10, <1>11, <1>12, NurseryKept DEF F, E, N

----------------------------------------------------------------------------
(* The parent is resumed, after the last task has left.                    *)

\* Whoever is resumed comes after the frames of all tasks.
LEMMA NurseryOrder ==
    ASSUME NEW q \in Seq(Un!Entries), Un!Listed(q)
    PROVE  \A i, j \in DOMAIN q : q[i].do = "resume" /\ q[j].do = "destroy" => j < i
<1> SUFFICES ASSUME NEW i \in 1..Len(q), NEW j \in 1..Len(q),
                    q[i].do = "resume", q[j].do = "destroy", ~(j < i)
             PROVE  FALSE
  OBVIOUS
<1>1. i # j
  OBVIOUS
<1>2. i < j
  BY <1>1
<1> QED BY <1>2 DEF Un!Listed

\* It is over, with what is said of it then.
LEMMA NurseryIsOver ==
    ASSUME NurseryTypes', over' \in {"destroyed", "terminated", "dangling"}, Un!Listed(v5'),
           \A f \in Un!Range(v6') : \A t \in f.list : v1'[t] # "no",
           over' = "dangling" => \A t \in Tasks : v1'[t] # "alive",
           over' = "destroyed" => v5' = <<>> /\ v8' = 0 /\ \A t \in Tasks : v1'[t] = "no"
    PROVE  Un!Inv'
<1>1. v5' \in Seq(Un!Entries)
  BY DEF NurseryTypes
<1>2. \A i, j \in DOMAIN v5' : v5'[i].do = "resume" /\ v5'[j].do = "destroy" => j < i
  BY <1>1, NurseryOrder
<1>3. over' = "destroyed" => Un!Living' = {}
  BY DEF Un!Living
<1>4. Un!ClosedEmpty'
  BY <1>2, <1>3 DEF Un!ClosedEmpty
<1> QED BY <1>4, NurseryGoesOn DEF NurserySays

LEMMA NurseryThrowsAtNobody ==
    ASSUME Un!Inv, NEW t \in Tasks, Un!ThrowsAtNobody(t)
    PROVE  Un!Inv'
<1>1. /\ NurserySays /\ over = "no" /\ over' = "terminated"
      /\ UNCHANGED <<above, below, v1, v2, v3, v4, v5, v6, v7, v8, v9>>
  BY NurseryMeans DEF Un!ThrowsAtNobody, Un!Runs, Un!Free
<1>2. Un!Listed(v5) /\ \A f \in Un!Range(v6) : \A u \in f.list : v1[u] # "no"
  BY <1>1, NurseryFacts
<1>3. NurseryTypes'
  BY <1>1 DEF NurserySays, NurseryTypes
<1> QED BY <1>1, <1>2, <1>3, NurseryIsOver

LEMMA NurseryResumeParent ==
    ASSUME Un!Inv, Un!ResumeParent
    PROVE  Un!Inv'
<1> DEFINE f == Head(v6)
           g == [f EXCEPT !.busy = TRUE, !.list = {}]
           e == Head(v5)
           h == e.to
           S == Un!Range(Tail(v6))
           Q == Un!Range(Tail(v5))
           F == Un!Range(v6)
           E == Un!Range(v5)
<1>1. /\ Un!TakesEntry("resume") /\ v6' = Un!Busy({})
      /\ above' = [p \in Joiners |-> IF p = h THEN Resumed(above[p]) ELSE above[p]]
      /\ over' = IF h = Closure /\ v4 # "request" THEN "terminated" ELSE over
      /\ UNCHANGED <<v1, v4>>
  BY NurseryChecker DEF Un!ResumeParent
<1>2. /\ NurserySays /\ over = "no" /\ v5' = Tail(v5) /\ UNCHANGED <<below, v2, v3, v7, v8, v9>>
      /\ e.do = "resume" /\ e \in Un!Entries /\ E = {e} \cup Q /\ v5' \in Seq(Un!Entries)
      /\ Un!Listed(v5') /\ \A d \in Q : d.do = "cancel"
      /\ f.fn = "drain" /\ F = {f} \cup S /\ f.list = {} /\ g.fn = "drain" /\ g.list = {}
      /\ \A k \in S : k.list = {}
      /\ v6' \in Seq(Un!Frames) /\ Un!Stacked(v6') /\ NotClosing(v6')
      /\ Un!Range(v6') = {g} \cup S
  BY <1>1, NurseryTakes
<1>3. /\ Un!TasksLeave(F, E) /\ Un!JoinersWait(F, E) /\ Un!ExecutorStays(F, E) /\ Un!GoesOnSoon(F, E)
      /\ above \in [Joiners -> Checker] /\ \A p \in Joiners : Legal(above[p])
  BY <1>2, NurseryFacts
<1>4. h \in Joiners \cup {Closure} /\ e = Un!Entry("resume", h)
  BY <1>2, NurseryEntries
<1>5. F' = {g} \cup S /\ E' = Q /\ Un!Living' = Un!Living
  BY <1>1, <1>2 DEF Un!Living
<1> HIDE DEF f, g, e, h, S, Q, F, E
<1>6. ~v2 /\ Un!Living = {} /\ v3 = Nobody /\ \A k \in F : k.fn # "resume"
  BY <1>2, <1>3 DEF Un!ExecutorStays
<1>7. \A p \in Joiners : Pending(above[p]) <=> p = h
  <2>1. \A p : Un!Entry("resume", p) = e <=> p = h
    BY <1>4, NurseryEntries
  <2>2. \A p : Un!Entry("resume", p) \notin Q
    BY <1>2, NurseryEntries
  <2>3. \A p : Un!Frame("resume", p, {}) \notin F
    BY <1>6, NurseryFns
  <2>4. \A p \in Joiners : p # Nobody
    BY ConstantsAssumption
  <2> QED BY <1>2, <1>3, <1>6, <2>1, <2>2, <2>3, <2>4, NurseryChecker DEF Un!JoinersWait
<1>8. \A p \in Joiners : Resumed(above[p]) \in Checker
                         /\ (p = h => Legal(Resumed(above[p])) /\ ~Pending(Resumed(above[p])))
  BY <1>3, <1>7, ResumeMoves DEF Goes, Legal, Pending
<1>9. /\ above' \in [Joiners -> Checker] /\ \A p \in Joiners : Legal(above'[p]) /\ ~Pending(above'[p])
      /\ \A p \in Joiners : p # h => above'[p] = above[p]
  BY <1>1, <1>3, <1>7, <1>8
<1>10. NurseryTypes'
  BY <1>1, <1>2, <1>9 DEF NurserySays, NurseryTypes
<1>11. \A k \in {g} \cup S : \A u \in k.list : v1'[u] # "no"
  BY <1>2
<1>12. CASE over' # "no"
  <2>1. over' = "terminated"
    BY <1>1, <1>2, <1>12
  <2> QED BY <1>2, <1>10, <1>11, <2>1, NurseryIsOver
<1>13. CASE over' = "no"
  <2>1. Un!TasksLeave(F, E)'
    <3>1. \A k \in {g} \cup S : k.fn = "continuation" => k \in F
      BY <1>2
    <3>2. \A u : Un!Entry("destroy", u) \in E <=> Un!Entry("destroy", u) \in Q
      BY <1>2, NurseryEntries
    <3> QED BY <1>1, <1>3, <1>5, <3>1, <3>2 DEF Un!TasksLeave, Un!Entry
  <2>2. Un!JoinersWait(F, E)'
    <3>1. \A k \in {g} \cup S : k.fn = "earlyCancel" => k \in F /\ k.who # h
      <4>1. \A k \in {g} \cup S : k.fn = "earlyCancel" => k \in F
        BY <1>2
      <4>2. \A k \in F : k.fn = "earlyCancel" => k.who \in Joiners /\ ~Pending(above[k.who])
        BY <1>3 DEF Un!JoinersWait, Pending
      <4> QED BY <1>7, <4>1, <4>2
    <3>2. \A p \in Joiners : Un!Frame("resume", p, {}) \notin {g} \cup S /\ Un!Entry("resume", p) \notin Q
      <4>1. \A k \in {g} \cup S : k.fn # "resume"
        BY <1>2, <1>6
      <4> QED BY <1>2, <4>1, NurseryFns, NurseryEntries
    <3>3. \A p \in Joiners : v3 # p
      BY <1>6, ConstantsAssumption
    <3> QED BY <1>2, <1>3, <1>5, <1>9, <3>1, <3>2, <3>3, NurseryChecker DEF Un!JoinersWait, Un!Frame, Un!Entry
  <2>3. Un!ExecutorStays(F, E)'
    BY <1>2, <1>5, <1>6 DEF Un!ExecutorStays
  <2>4. Un!GoesOnSoon(F, E)'
    <3>1. \A u \in Tasks : v1[u] # "alive"
      BY <1>6 DEF Un!Living
    <3> QED BY <1>1, <1>2, <1>3, <1>5, <1>6, <3>1 DEF Un!GoesOnSoon
  <2> QED BY <1>2, <1>10, <1>11, <1>13, <2>1, <2>2, <2>3, <2>4, NurseryKept DEF F, E
<1> QED BY <1>12, <1>13

\* continuation() of task t takes the task off, and its parent if it is the last.
LEMMA NurseryContinues ==
    ASSUME Un!Inv, Un!Continuation
    PROVE  LET f == Head(v6)
               t == f.who
               last == Un!Living = {t} /\ v3 # Nobody
               c == Un!Frame("resume", v3, {})
               C == IF last THEN {c} ELSE {}
           IN  /\ v6' \in Seq(Un!Frames) /\ Un!Stacked(v6') /\ NotClosing(v6')
               /\ Un!Range(v6') = {Un!Fn("runSoon")} \cup C \cup Un!Range(Tail(v6))
<1> DEFINE f == Head(v6)
           t == f.who
           s == Tail(v6)
           last == Un!Living = {t} /\ v3 # Nobody
           c == Un!Frame("resume", v3, {})
           r == Un!Fn("runSoon")
           x == IF last THEN <<c>> ELSE <<>>
           F == Un!Range(v6)
           S == Un!Range(s)
<1>1. /\ NurserySays /\ over = "no" /\ v6 # <<>> /\ f.fn = "continuation"
      /\ v6' = (<<r>> \o x) \o s
  BY NurseryMeans DEF Un!Continuation, Un!At
<1>2. /\ f \in Un!Frames /\ s \in Seq(Un!Frames) /\ Un!Stacked(s) /\ F = {f} \cup S
      /\ NotClosing(s) /\ <<r>> \o s \in Seq(Un!Frames) /\ Un!Stacked(<<r>> \o s)
      /\ NotClosing(<<r>> \o s) /\ Un!Range(<<r>> \o s) = {r} \cup S
  BY <1>1, NurseryReplaces
<1>3. r \in Un!Frames /\ r.fn = "runSoon"
  BY NurseryFns
<1>4. CASE ~last
  <2>1. x = <<>>
    BY <1>4
  <2>2. (<<r>> \o <<>>) \o s = <<r>> \o s
    <3> HIDE DEF r, s
    <3> QED BY <1>2, <1>3, NurseryTwoCalls
  <2> QED BY <1>1, <1>2, <1>4, <2>1, <2>2
<1>5. CASE last
  <2>1. Un!ExecutorStays(F, Un!Range(v5)) /\ v3 \in Joiners \cup {Closure, Nobody}
    BY <1>1, NurseryFacts DEF NurserySays, NurseryTypes
  <2>2. \A g \in S : g.fn # "resume"
    <3> HIDE DEF f, t, S, F
    <3> QED BY <1>2, <1>5, <2>1 DEF Un!ExecutorStays
  <2>3. c \in Un!Frames /\ c.fn = "resume" /\ c.list = {} /\ c.busy = FALSE
    BY <1>5, <2>1, NurseryFns
  <2>4. x = <<c>>
    BY <1>5
  <2> HIDE DEF c, r, s, x, last, f, t
  <2>5. Un!MayCall(c, s)
    BY <1>2, <2>2, <2>3 DEF Un!MayCall, NotClosing, S
  <2>6. /\ <<c>> \o s \in Seq(Un!Frames) /\ Un!Stacked(<<c>> \o s) /\ NotClosing(<<c>> \o s)
        /\ Un!Range(<<c>> \o s) = {c} \cup S
    BY <1>2, <2>3, <2>5, NurseryCalls DEF NotClosing
  <2>7. Un!MayCall(r, <<c>> \o s)
    BY <2>6, NurseryRunSoonCalled DEF r
  <2>8. /\ <<r>> \o (<<c>> \o s) \in Seq(Un!Frames) /\ Un!Stacked(<<r>> \o (<<c>> \o s))
        /\ NotClosing(<<r>> \o (<<c>> \o s))
        /\ Un!Range(<<r>> \o (<<c>> \o s)) = {r} \cup ({c} \cup S)
    BY <1>3, <2>6, <2>7, NurseryCalls DEF NotClosing
  <2>9. v6' = <<r>> \o (<<c>> \o s)
    <3>1. v6' = (<<r>> \o <<c>>) \o s
      BY <1>1, <2>4
    <3>2. (<<r>> \o <<c>>) \o s = <<r>> \o (<<c>> \o s)
      BY <1>2, <1>3, <2>3, NurseryTwoCalls
    <3> QED BY <3>1, <3>2
  <2> QED BY <1>5, <2>8, <2>9 DEF last, c, r, s, f, t
<1> QED BY <1>4, <1>5

LEMMA NurseryContinuation ==
    ASSUME Un!Inv, Un!Continuation
    PROVE  Un!Inv'
<1> DEFINE f == Head(v6)
           t == f.who
           last == Un!Living = {t} /\ v3 # Nobody
           c == Un!Frame("resume", v3, {})
           C == IF last THEN {c} ELSE {}
           r == Un!Fn("runSoon")
           d == Un!Entry("destroy", t)
           S == Un!Range(Tail(v6))
           F == Un!Range(v6)
           E == Un!Range(v5)
           N == Un!Range(v6')
<1>1. /\ NurserySays /\ over = "no" /\ v6 # <<>> /\ f.fn = "continuation"
      /\ v1' = [v1 EXCEPT ![t] = "ended"] /\ v5' = Append(v5, d)
      /\ v3' = (IF last THEN Nobody ELSE v3) /\ v2' = (v2 /\ ~last)
      /\ UNCHANGED <<above, below, over, v4, v7, v8, v9>>
  BY NurseryMeans DEF Un!Continuation, Un!At, Un!shared
<1>2. v6' \in Seq(Un!Frames) /\ Un!Stacked(v6') /\ NotClosing(v6') /\ N = {r} \cup C \cup S
  BY NurseryContinues
<1>3. /\ f \in Un!Frames /\ F = {f} \cup S /\ Un!MayCall(f, Tail(v6))
  BY <1>1, NurseryReplaces
<1>4. /\ Un!TasksLeave(F, E) /\ Un!JoinersWait(F, E) /\ Un!ExecutorStays(F, E) /\ Un!GoesOnSoon(F, E)
      /\ \A g \in F : \A u \in g.list : v1[u] # "no"
      /\ F \subseteq Un!Frames /\ v5 \in Seq(Un!Entries) /\ Un!Listed(v5)
      /\ v1 \in [Tasks -> {"no", "alive", "asked", "leaving", "ended"}]
  BY <1>1, NurseryFacts
<1>5. f.list = {} /\ \A g \in S : g.fn = "continuation" => g.who # t
  BY <1>1, <1>3 DEF Un!MayCall
<1>6. /\ r.fn = "runSoon" /\ r.list = {} /\ c.fn = "resume" /\ c.list = {} /\ c.who = v3
      /\ d.do = "destroy"
  BY NurseryFns, NurseryEntries
<1>7. F' = N /\ v3 \in Joiners \cup {Closure, Nobody} /\ v2 \in BOOLEAN
  BY <1>1 DEF NurserySays, NurseryTypes
<1> HIDE DEF f, t, last, S, F, E, N, r
<1>8. t \in Tasks /\ v1[t] = "leaving" /\ t \in Un!Living
  <2>1. t \in Tasks /\ v1[t] = "leaving"
    BY <1>1, <1>3, <1>4 DEF Un!TasksLeave, t
  <2> QED BY <2>1 DEF Un!Living
<1>9. v2 = TRUE /\ (\A g \in F : g.fn # "resume") /\ \A b \in E : b.do # "resume"
  BY <1>4, <1>7, <1>8 DEF Un!ExecutorStays
<1>10. d \in Un!Entries /\ d \notin E
  BY <1>4, <1>8, NurseryEntries DEF Un!TasksLeave
<1> HIDE DEF d
<1>11. v5' \in Seq(Un!Entries) /\ Un!Listed(v5') /\ E' = E \cup {d}
  <2>1. /\ Append(v5, d) \in Seq(Un!Entries) /\ Un!Range(Append(v5, d)) = Un!Range(v5) \cup {d}
        /\ Un!Listed(Append(v5, d))
    BY <1>4, <1>9, <1>10, NurseryListed DEF E
  <2> QED BY <1>1, <2>1 DEF E
<1>12. /\ v1' \in [Tasks -> {"no", "alive", "asked", "leaving", "ended"}]
       /\ v1'[t] = "ended" /\ \A u \in Tasks : u # t => v1'[u] = v1[u]
  BY <1>1, <1>4, <1>8
<1>13. Un!Living' = Un!Living \ {t}
  BY <1>12 DEF Un!Living
<1>14. C \subseteq {c} /\ (last => C = {c}) /\ (~last => C = {})
  OBVIOUS
<1> HIDE DEF C, c
<1>15. Un!TasksLeave(F, E)'
  <2>1. \A g \in N : g.fn = "continuation" => g \in S
    BY <1>2, <1>6, <1>14
  <2>2. \A u : Un!Entry("destroy", u) = d <=> u = t
    BY NurseryEntries DEF d
  <2>3. \A g \in N : g.fn = "continuation" => g.who \in Tasks /\ v1'[g.who] = "leaving"
    BY <1>3, <1>4, <1>5, <1>12, <2>1 DEF Un!TasksLeave
  <2>4. \A u \in Tasks : v1'[u] = "ended" <=> Un!Entry("destroy", u) \in E \cup {d}
    BY <1>4, <1>12, <2>2 DEF Un!TasksLeave
  <2> QED BY <1>7, <1>11, <2>3, <2>4 DEF Un!TasksLeave, Un!Entry
<1>16. Un!JoinersWait(F, E)'
  <2>1. \A g \in N : g.fn = "earlyCancel" => g \in F
    BY <1>2, <1>3, <1>6, <1>14
  <2>2. \A p : Un!Frame("resume", p, {}) = c <=> p = v3
    BY NurseryFns DEF c
  <2>3. \A p : Un!Frame("resume", p, {}) \notin F /\ Un!Frame("resume", p, {}) \notin S
               /\ Un!Frame("resume", p, {}) # r
    BY <1>3, <1>6, <1>9, NurseryFns
  <2>4. \A p : Un!Entry("resume", p) \notin E \cup {d}
    BY <1>6, <1>9, NurseryEntries
  <2>5. \A p \in Joiners : p # Nobody
    BY ConstantsAssumption
  <2>6. \A p \in Joiners : Un!Pending(above[p]) <=> v3 = p
    BY <1>4, <2>3, <2>4 DEF Un!JoinersWait
  <2>7. \A p \in Joiners : Un!Pending(above[p]) <=> v3' = p \/ Un!Frame("resume", p, {}) \in N
    BY <1>1, <1>2, <1>14, <2>2, <2>3, <2>5, <2>6
  <2> QED BY <1>1, <1>4, <1>7, <1>11, <2>1, <2>4, <2>7 DEF Un!JoinersWait, Un!Frame, Un!Entry, Un!Pending
<1>17. Un!ExecutorStays(F, E)'
  <2>1. \A g \in N : g.fn = "resume" => last /\ g = c
    BY <1>2, <1>3, <1>6, <1>9, <1>14
  <2>2. last => c = Un!Frame("resume", c.who, {}) /\ c.who \in Joiners \cup {Closure}
    BY <1>6, <1>7 DEF c, last
  <2>3. \A b \in E \cup {d} : b.do # "resume"
    BY <1>6, <1>9
  <2>4. (v3' # Nobody => Un!Living' # {}) /\ (Un!Living' # {} => v2') /\ (last => ~v2')
    BY <1>1, <1>4, <1>8, <1>9, <1>13 DEF last
  <2> QED BY <1>7, <1>11, <2>1, <2>2, <2>3, <2>4 DEF Un!ExecutorStays, Un!Frame
<1>18. Un!GoesOnSoon(F, E)'
  <2>1. r \in N /\ r.fn = "runSoon"
    BY <1>2, <1>6
  <2>2. \A g \in N : g.fn \in {"close", "destroy"} => g \in F
    BY <1>2, <1>3, <1>6, <1>14
  <2>3. v4 # "none" => \A u \in Tasks : v1'[u] = "alive" => \E g \in N : u \in g.list
    BY <1>2, <1>3, <1>4, <1>5, <1>12 DEF Un!GoesOnSoon
  <2> QED BY <1>1, <1>4, <1>7, <1>11, <1>13, <2>1, <2>2, <2>3 DEF Un!GoesOnSoon, Un!Entry
<1>19. \A g \in N : \A u \in g.list : v1'[u] # "no"
  <2>1. \A u \in Tasks : v1[u] # "no" => v1'[u] # "no"
    BY <1>12
  <2>2. \A g \in N : g \in F \/ g.list = {}
    BY <1>2, <1>3, <1>6, <1>14
  <2> QED BY <1>4, <2>1, <2>2 DEF Un!Frames
<1>20. NurseryTypes'
  BY <1>1, <1>2, <1>7, <1>11, <1>12 DEF NurserySays, NurseryTypes
<1> QED BY <1>1, <1>2, <1>11, <1>15, <1>16, <1>17, <1>18, <1>19, <1>20, NurseryKept DEF F, E, N

----------------------------------------------------------------------------
(* A joiner waits.                                                         *)

\* Where await_suspend() brings the checker.
LEMMA SuspendComesFrom ==
    ASSUME NEW a \in Checker, Legal(AboutToSuspend(AboutToSetExecutor(ReadyReturned(a, FALSE))))
    PROVE  LET c == AboutToSuspend(AboutToSetExecutor(ReadyReturned(a, FALSE)))
           IN  /\ c \in Checker /\ Pending(c) /\ ~Pending(a)
               /\ Resumed(c) \in Checker /\ Legal(Resumed(c)) /\ ~Pending(Resumed(c))
<1> DEFINE r == ReadyReturned(a, FALSE)
           x == AboutToSetExecutor(r)
           c == AboutToSuspend(x)
<1>1. /\ r \in Checker
      /\ r.state = IF a.state \in {"Initial", "NotReady"} THEN "NotReady"
                   ELSE IF a.state \in {"InitialCxlPend", "CancelPending"} THEN "CancelPending"
                   ELSE "Broken"
  BY ReadyMoves DEF Goes
<1> HIDE DEF r
<1>2. /\ x \in Checker /\ x.hasExecutor
      /\ x.state = IF r.state \in BeforeSuspend THEN r.state ELSE "Broken"
  BY <1>1, SetExecutorMoves
<1> HIDE DEF x
<1>3. /\ c \in Checker
      /\ c.state = IF x.hasExecutor /\ x.state = "NotReady" THEN "Running"
                   ELSE IF x.hasExecutor /\ x.state = "CancelPending" THEN "Cancelling" ELSE "Broken"
  BY <1>2, SuspendMoves DEF Goes
<1>4. Legal(c)
  BY DEF c, x, r
<1> HIDE DEF c
<1>5. /\ Resumed(c) \in Checker
      /\ Resumed(c).state = IF c.state = "Running" THEN "Ready"
                            ELSE IF c.state = "Cancelling" THEN "ReadyAfterCancel" ELSE "Broken"
  BY <1>3, ResumeMoves DEF Goes
<1>6. Pending(c) /\ ~Pending(a)
  BY <1>1, <1>2, <1>3, <1>4 DEF Pending, Legal
<1>7. Legal(Resumed(c)) /\ ~Pending(Resumed(c))
  BY <1>5, <1>6 DEF Pending, Legal
<1> QED BY <1>3, <1>5, <1>6, <1>7 DEF c, x, r

LEMMA NurserySuspend ==
    ASSUME Un!Inv, NEW p \in Joiners, Un!Suspend(p)
    PROVE  Un!Inv'
<1> DEFINE c == AboutToSuspend(AboutToSetExecutor(ReadyReturned(above[p], FALSE)))
           b == IF Un!Living = {} /\ Legal(c) THEN Resumed(c) ELSE c
           F == Un!Range(v6)
           E == Un!Range(v5)
<1>1. /\ Un!Free /\ Un!GoesFrom(p) /\ v3 = Nobody
      /\ Legal(b) /\ above' = [above EXCEPT ![p] = b]
      /\ IF Un!Living = {} THEN v2' = FALSE /\ v3' = v3 ELSE v3' = p /\ v2' = v2
      /\ UNCHANGED <<below, over, v1, v4, v5, v6, v7, v8, v9>>
  BY NurseryChecker DEF Un!Suspend, Un!Joins, Un!Calls
<1>2. NurserySays /\ over = "no" /\ NotClosing(v6)
  BY <1>1, NurseryMeans, NurseryFree
<1>3. /\ Un!TasksLeave(F, E) /\ Un!JoinersWait(F, E) /\ Un!ExecutorStays(F, E) /\ Un!GoesOnSoon(F, E)
      /\ \A f \in F : \A t \in f.list : v1[t] # "no"
      /\ Un!Listed(v5) /\ Un!Stacked(v6)
      /\ above \in [Joiners -> Checker] /\ \A q \in Joiners : Legal(above[q])
  BY <1>2, NurseryFacts
<1>4. F' = F /\ E' = E /\ Un!Living' = Un!Living
  BY <1>1 DEF Un!Living
<1>5. above[p] \in Checker
  BY <1>3
<1>6. Legal(c)
  BY <1>1
<1>7. c \in Checker /\ Pending(c) /\ ~Pending(above[p]) /\ Resumed(c) \in Checker /\ ~Pending(Resumed(c))
  BY <1>5, <1>6, SuspendComesFrom
<1>8. b \in Checker /\ (Pending(b) <=> Un!Living # {})
  BY <1>6, <1>7
<1> HIDE DEF b, c, F, E
<1>9. /\ above' \in [Joiners -> Checker] /\ above'[p] = b
      /\ \A q \in Joiners : q # p => above'[q] = above[q]
      /\ \A q \in Joiners : Legal(above'[q])
  BY <1>1, <1>3, <1>8
<1>10. Un!TasksLeave(F, E)' /\ Un!GoesOnSoon(F, E)'
  BY <1>1, <1>3, <1>4 DEF Un!TasksLeave, Un!GoesOnSoon, Un!Entry
<1>11. Un!ExecutorStays(F, E)'
  BY <1>1, <1>3, <1>4 DEF Un!ExecutorStays, Un!Frame
<1>12. Un!JoinersWait(F, E)'
  <2>1. \A f \in F : f.fn = "earlyCancel" => f.who # p
    BY <1>1 DEF Un!GoesFrom, F
  <2>2. \A q \in Joiners : q # Nobody
    BY ConstantsAssumption
  <2>3. \A q \in Joiners : Pending(above[q]) <=> Un!Entry("resume", q) \in E \/ Un!Frame("resume", q, {}) \in F
    BY <1>1, <1>3, <2>2, NurseryChecker DEF Un!JoinersWait
  <2>4. \A q \in Joiners : Pending(above'[q]) <=>
            v3' = q \/ Un!Entry("resume", q) \in E \/ Un!Frame("resume", q, {}) \in F
    BY <1>1, <1>7, <1>8, <1>9, <2>2, <2>3
  <2> QED BY <1>3, <1>4, <1>9, <2>1, <2>4, NurseryChecker DEF Un!JoinersWait, Un!Frame, Un!Entry
<1>13. NurseryTypes'
  BY <1>1, <1>2, <1>9 DEF NurserySays, NurseryTypes
<1> QED BY <1>1, <1>2, <1>3, <1>4, <1>10, <1>11, <1>12, <1>13, NurseryKept DEF F, E

----------------------------------------------------------------------------
(* The program closes the nursery.                                         *)

LEMMA NurseryTwoMore ==
    ASSUME NEW s \in Seq(Un!Frames), NEW f \in Un!Frames, NEW g \in Un!Frames
    PROVE  <<f, g>> \o s = <<f>> \o (<<g>> \o s)
<1>1. /\ <<f, g>> \o s = <<f>> \o (<<g>> \o s)
      /\ (<<f>> \o <<g>>) \o s = <<f>> \o (<<g>> \o s)
      /\ (<<f>> \o <<>>) \o s = <<f>> \o s
  BY NurseryTwoCalls, Zenon
<1> QED BY <1>1

LEMMA NurseryClose ==
    ASSUME Liberties = {}, Un!Inv, NEW how \in {"close", "destroy"}, Un!Close(how)
    PROVE  Un!Inv'
<1> DEFINE d == Un!Fn("drain")
           k == Un!Fn(how)
           x == Un!Entry("cancel", Nobody)
           F == Un!Range(v6)
           E == Un!Range(v5)
           N == Un!Range(v6')
<1>1. /\ Un!Free /\ ~Un!Closing /\ ~Un!Asking
      /\ how = "destroy" => ~(v8 > 0)
      /\ v5' = (IF Un!Living = {} THEN v5 ELSE Append(v5, x))
      /\ v6' = <<d, k>> \o v6
      /\ UNCHANGED <<above, below, over, v1, v2, v3, v4, v7, v8, v9>>
  BY DEF Un!Close, Un!shared
<1>2. NurserySays /\ over = "no" /\ NotClosing(v6)
  BY <1>1, NurseryMeans, NurseryFree
<1>3. /\ Un!TasksLeave(F, E) /\ Un!JoinersWait(F, E) /\ Un!ExecutorStays(F, E) /\ Un!GoesOnSoon(F, E)
      /\ \A f \in F : \A t \in f.list : v1[t] # "no"
      /\ v5 \in Seq(Un!Entries) /\ v6 \in Seq(Un!Frames) /\ Un!Listed(v5) /\ Un!Stacked(v6)
  BY <1>2, NurseryFacts
<1>4. /\ d \in Un!Frames /\ d.fn = "drain" /\ d.list = {} /\ d.busy = FALSE
      /\ k \in Un!Frames /\ k.fn = how /\ k.list = {} /\ k.busy = FALSE
      /\ x \in Un!Entries /\ x.do = "cancel"
  BY NurseryFns, NurseryEntries
<1>5. \A f \in F : f.fn \notin {"close", "destroy", "captured"}
  BY <1>1 DEF Un!Closing, Un!Asking, Un!OnStack
<1> HIDE DEF d, k, x
<1>6. /\ <<k>> \o v6 \in Seq(Un!Frames) /\ Un!Stacked(<<k>> \o v6)
      /\ Un!Range(<<k>> \o v6) = {k} \cup F
  <2>1. Un!MayCall(k, v6)
    BY <1>2, <1>4, <1>5 DEF Un!MayCall, NotClosing, F
  <2> QED BY <1>3, <1>4, <2>1, NurseryCalls DEF F
<1>7. v6' \in Seq(Un!Frames) /\ Un!Stacked(v6') /\ NotClosing(v6') /\ N = {d} \cup ({k} \cup F)
  <2>1. Un!MayCall(d, <<k>> \o v6)
    BY <1>4, <1>5, <1>6 DEF Un!MayCall
  <2>2. v6' = <<d>> \o (<<k>> \o v6)
    <3>1. v6 \in Seq(Un!Frames) /\ d \in Un!Frames /\ k \in Un!Frames
      BY <1>3, <1>4
    <3>2. <<d, k>> \o v6 = <<d>> \o (<<k>> \o v6)
      BY <3>1, NurseryTwoMore
    <3> QED BY <1>1, <3>2
  <2> QED BY <1>4, <1>6, <2>1, <2>2, NurseryCalls DEF NotClosing
<1> HIDE DEF F, E, N
<1>8. /\ v5' \in Seq(Un!Entries) /\ Un!Listed(v5')
      /\ E' = (IF Un!Living = {} THEN E ELSE E \cup {x})
  <2>1. /\ Append(v5, x) \in Seq(Un!Entries) /\ Un!Range(Append(v5, x)) = Un!Range(v5) \cup {x}
        /\ Un!Listed(Append(v5, x))
    BY <1>3, <1>4, NurseryListed
  <2> QED BY <1>1, <1>3, <2>1 DEF E
<1>9. /\ F' = N /\ Un!Living' = Un!Living /\ E \subseteq E' /\ E' \subseteq E \cup {x}
      /\ Un!Living # {} => x \in E'
  BY <1>1, <1>8 DEF F, N, Un!Living
<1>10. v8 = 0 \/ how # "destroy"
  <2>1. v8 \in Nat
    BY <1>2 DEF NurserySays, NurseryTypes
  <2> QED BY <1>1, <2>1
<1>11. Un!TasksLeave(F, E)'
  <2>1. \A f \in N : f.fn = "continuation" => f \in F
    BY <1>4, <1>7
  <2>2. \A u : Un!Entry("destroy", u) \in E' <=> Un!Entry("destroy", u) \in E
    BY <1>4, <1>9, NurseryEntries
  <2> QED BY <1>1, <1>3, <1>9, <2>1, <2>2 DEF Un!TasksLeave, Un!Entry
<1>12. Un!JoinersWait(F, E)'
  <2>1. \A f : f.fn \in {"earlyCancel", "resume"} => (f \in N <=> f \in F)
    BY <1>4, <1>7
  <2>2. \A q : Un!Frame("resume", q, {}) \in N <=> Un!Frame("resume", q, {}) \in F
    BY <2>1, NurseryFns
  <2>3. \A q : Un!Entry("resume", q) \in E' <=> Un!Entry("resume", q) \in E
    BY <1>4, <1>9, NurseryEntries
  <2> QED BY <1>1, <1>3, <1>9, <2>1, <2>2, <2>3 DEF Un!JoinersWait, Un!Frame, Un!Entry, Un!Pending
<1>13. Un!ExecutorStays(F, E)'
  <2>1. \A f \in N : f.fn = "resume" => f \in F
    BY <1>4, <1>7
  <2>2. \A b \in E' : b.do = "resume" => b \in E
    BY <1>4, <1>9
  <2> QED BY <1>1, <1>3, <1>9, <2>1, <2>2 DEF Un!ExecutorStays, Un!Frame
<1>14. Un!GoesOnSoon(F, E)'
  <2>1. \A f \in N : f.fn \in {"close", "destroy"} => f.fn = how
    BY <1>4, <1>5, <1>7
  <2>2. d \in N /\ F \subseteq N
    BY <1>7
  <2> QED BY <1>1, <1>3, <1>4, <1>9, <1>10, <2>1, <2>2 DEF Un!GoesOnSoon, Un!Entry, x
<1>15. \A f \in N : \A u \in f.list : v1'[u] # "no"
  BY <1>1, <1>3, <1>4, <1>7
<1>16. NurseryTypes'
  BY <1>1, <1>2, <1>7, <1>8 DEF NurserySays, NurseryTypes
<1> QED BY <1>1, <1>2, <1>7, <1>8, <1>11, <1>12, <1>13, <1>14, <1>15, <1>16, NurseryKept DEF F, E, N

LEMMA NurseryCloseReturns ==
    ASSUME Un!Inv, NEW how \in {"close", "destroy"}, Un!CloseReturns(how)
    PROVE  Un!Inv'
<1> DEFINE f == Head(v6)
           s == Tail(v6)
           S == Un!Range(s)
           F == Un!Range(v6)
           E == Un!Range(v5)
<1>1. /\ NurserySays /\ over = "no" /\ v6 # <<>> /\ f.fn = how /\ v6' = s /\ v2' = FALSE
      /\ over' = (IF Un!Living # {} THEN "dangling" ELSE IF how = "destroy" THEN "destroyed"
                  ELSE over)
      /\ UNCHANGED <<above, below, v1, v3, v4, v5, v7, v8, v9>>
  BY NurseryMeans DEF Un!CloseReturns, Un!At
<1>2. /\ f \in Un!Frames /\ s \in Seq(Un!Frames) /\ Un!Stacked(s) /\ Un!MayCall(f, s)
      /\ F = {f} \cup S /\ NotClosing(s)
  BY <1>1, NurseryReplaces
<1>3. /\ Un!TasksLeave(F, E) /\ Un!JoinersWait(F, E) /\ Un!ExecutorStays(F, E) /\ Un!GoesOnSoon(F, E)
      /\ Un!Listed(v5) /\ v5 = <<>> /\ E = {}
      /\ v1 \in [Tasks -> {"no", "alive", "asked", "leaving", "ended"}]
  BY <1>1, NurseryFacts
<1>4. f.list = {} /\ \A g \in S : g.list = {}
  <2>1. f.list = {} /\ \A g \in S : g.fn # "captured"
    BY <1>1, <1>2 DEF Un!MayCall
  <2> HIDE DEF s
  <2> QED BY <1>2, <2>1, NurseryCaptured
<1>5. F' = S /\ E' = {} /\ Un!Living' = Un!Living
  BY <1>1, <1>3 DEF Un!Living
<1> HIDE DEF f, s, S, F, E
<1>6. NurseryTypes'
  BY <1>1, <1>2 DEF NurserySays, NurseryTypes
<1>7. \A g \in F' : \A t \in g.list : v1'[t] # "no"
  BY <1>4, <1>5
<1>8. CASE Un!Living # {}
  <2>1. f \in F /\ \A t \in Tasks : ~\E g \in F : t \in g.list
    BY <1>2, <1>4
  <2>2. v4 # "none"
    BY <1>1, <1>3, <1>8, <2>1 DEF Un!GoesOnSoon
  <2>3. \A t \in Tasks : v1[t] # "alive"
    BY <1>3, <2>1, <2>2 DEF Un!GoesOnSoon
  <2> QED BY <1>1, <1>3, <1>6, <1>7, <1>8, <2>3, NurseryIsOver DEF F
<1>9. CASE Un!Living = {} /\ how = "destroy"
  <2>1. v8 = 0
    BY <1>1, <1>2, <1>3, <1>9 DEF Un!GoesOnSoon
  <2>2. \A t \in Tasks : v1[t] = "no"
    BY <1>3, <1>9 DEF Un!TasksLeave, Un!Living
  <2> QED BY <1>1, <1>3, <1>6, <1>7, <1>9, <2>1, <2>2, NurseryIsOver DEF F
<1>10. CASE Un!Living = {} /\ how # "destroy"
  <2>1. Un!TasksLeave(F, E)'
    BY <1>1, <1>2, <1>3, <1>5 DEF Un!TasksLeave, Un!Entry
  <2>2. Un!JoinersWait(F, E)'
    <3>1. \A g : g.fn \in {"earlyCancel", "resume"} => (g \in S <=> g \in F)
      BY <1>1, <1>2
    <3>2. \A q : Un!Frame("resume", q, {}) \in S <=> Un!Frame("resume", q, {}) \in F
      BY <3>1, NurseryFns
    <3> QED BY <1>1, <1>3, <1>5, <3>1, <3>2 DEF Un!JoinersWait, Un!Frame, Un!Entry, Un!Pending
  <2>3. Un!ExecutorStays(F, E)'
    BY <1>1, <1>2, <1>3, <1>5, <1>10 DEF Un!ExecutorStays, Un!Frame
  <2>4. Un!GoesOnSoon(F, E)'
    <3>1. \A t \in Tasks : v1[t] # "alive"
      BY <1>10 DEF Un!Living
    <3>2. \A g \in S : g.fn = "destroy" => v8 = 0
      BY <1>2, <1>3 DEF Un!GoesOnSoon
    <3> QED BY <1>1, <1>5, <1>10, <3>1, <3>2 DEF Un!GoesOnSoon
  <2>5. over' = "no"
    BY <1>1, <1>10
  <2> QED BY <1>1, <1>2, <1>3, <1>6, <1>7, <2>1, <2>2, <2>3, <2>4, <2>5, NurseryKept DEF F, E
<1> QED BY <1>8, <1>9, <1>10

----------------------------------------------------------------------------

LEMMA NurseryKeeps ==
    ASSUME Liberties = {}, Un!Inv, Un!Next
    PROVE  Un!Inv'
BY NurseryStart, NurseryReturns, NurseryThrows, NurseryThrowsAtNobody, NurseryReady,
   NurseryEarlyCancel, NurserySuspend, NurseryCancel, NurseryMustResume, NurseryResume,
   NurseryDestroy, NurseryClose, NurseryCloseReturns, NurseryCancelAll, NurseryAsyncClose,
   NurseryContinuation, NurserySecondRunSoon, NurseryRunSoonRuns, NurseryRunSoonDefers,
   NurseryRunOnce, NurseryAskTask, NurseryDestroyFrame, NurseryResumeParent,
   NurseryCancelToClose, NurseryEntryEnds, NurseryDrained, NurseryEarlyCancelReturns
   DEF Un!Next

LEMMA NurseryInvariant == ASSUME Liberties = {} PROVE Spec => [](class = "nursery" => Un!Inv)
<1>1. Init => (class = "nursery" => Un!Inv)
  BY NurseryInit DEF Init
<1>2. (class = "nursery" => Un!Inv) /\ [Next]_vars => (class = "nursery" => Un!Inv)'
  <2>1. ASSUME class = "nursery", Un!Inv, Next PROVE Un!Inv'
    BY <2>1, NurseryKeeps DEF Next
  <2>2. ASSUME class = "nursery", Un!Inv, UNCHANGED vars PROVE Un!Inv'
    BY <2>2, NurseryStutters DEF vars, shared
  <2>3. [Next]_vars => class' = class
    BY DEF Next, vars, two, three, five, seven
  <2> QED BY <2>1, <2>2, <2>3
<1> QED BY <1>1, <1>2, PTL DEF Spec

\* Whoever waits is woken, and what is closed is empty.
LEMMA NurseryIsKept == Un!Inv => Un!TypeOK /\ Un!ProtocolKept /\ Un!JoinerWoken /\ Un!ClosedEmpty
<1> SUFFICES ASSUME Un!Inv PROVE Un!TypeOK /\ Un!ProtocolKept /\ Un!JoinerWoken /\ Un!ClosedEmpty
  OBVIOUS
<1>1. NurserySays /\ Un!TypeOK
  BY NurseryMeans DEF Un!Inv
<1>2. Un!ProtocolKept
  BY <1>1, NurseryChecker DEF Un!ProtocolKept, NurserySays, NurseryTypes
<1>3. CASE over # "no"
  BY <1>1, <1>2, <1>3 DEF NurserySays, Un!JoinerWoken
<1>4. CASE over = "no"
  <2> DEFINE F == Un!Range(v6)
             E == Un!Range(v5)
  <2>1. /\ Un!JoinersWait(F, E) /\ Un!ExecutorStays(F, E) /\ Un!GoesOnSoon(F, E)
        /\ \A f \in F : \A t \in f.list : v1[t] # "no"
        /\ v5 \in Seq(Un!Entries) /\ Un!Listed(v5) /\ (v5 = <<>> <=> E = {})
    BY <1>1, <1>4, NurseryFacts
  <2> HIDE DEF F, E
  <2>2. Un!ClosedEmpty
    <3>1. \A i, j \in DOMAIN v5 : v5[i].do = "resume" /\ v5[j].do = "destroy" => j < i
      BY <2>1, NurseryOrder
    <3>2. v2 \/ Un!Living = {}
      BY <2>1 DEF Un!ExecutorStays
    <3> QED BY <1>4, <2>1, <3>1, <3>2 DEF Un!ClosedEmpty, F
  <2>3. Un!JoinerWoken
    <3>1. \A p \in Joiners : Un!Pending(above[p]) => Un!Comes(p)
      <4>1. \A p \in Joiners : p # Nobody
        BY ConstantsAssumption
      <4> QED BY <2>1, <4>1 DEF Un!JoinersWait, Un!ExecutorStays, Un!Comes, F, E
    <3>2. v3 # Nobody => Un!Comes(v3)
      BY <2>1 DEF Un!ExecutorStays, Un!Comes
    <3>3. v5 # <<>> => Un!Running \/ v8 > 0 \/ Un!OnStack({"runSoon"})
      BY <2>1 DEF Un!GoesOnSoon, Un!Running, Un!OnStack, F
    <3>4. v4 # "none" => \A t \in Tasks : v1[t] = "alive" => \E f \in F : t \in f.list
      BY <2>1 DEF Un!GoesOnSoon
    <3> QED BY <3>1, <3>2, <3>3, <3>4 DEF Un!JoinerWoken, F
  <2> QED BY <1>1, <1>2, <2>2, <2>3
<1> QED BY <1>3, <1>4

----------------------------------------------------------------------------
(* The lists of the others.                                                *)

\* The lemmas about lists, and about the pointers of those of Event.
P == INSTANCE IntrusiveListProofs WITH Items <- {Ev!Item(p) : p \in Parents},
        Heads <- {Ev!List(n) : n \in 0..Cardinality(Parents)}, Null <- <<"null", 0>>

----------------------------------------------------------------------------
(* Event and ParkingLot.                                                   *)

LEMMA EventCounts == Ev!Cardinality(Parents) = Cardinality(Parents)
BY DEF Ev!Cardinality, Cardinality

LEMMA EventReadyStep ==
    ASSUME NEW c \in Ev!Checker, NEW val \in BOOLEAN, c.state \in Ev!BeforeSuspend,
           Ev!Legal(Ev!ReadyReturned(c, val))
    PROVE  /\ Ev!ReadyReturned(c, val) \in Ev!Checker
           /\ ~Ev!Pending(c) /\ ~Ev!Pending(Ev!ReadyReturned(c, val))
BY DEF Ev!Checker, Ev!CheckerState, Ev!BeforeSuspend, Ev!Legal, Ev!ReadyReturned, Ev!Step, Ev!Pending

LEMMA EventEarlyCancelStep ==
    ASSUME NEW c \in Ev!Checker, Ev!Legal(Ev!EarlyCancelReturned(c, TRUE))
    PROVE  /\ Ev!EarlyCancelReturned(c, TRUE) \in Ev!Checker
           /\ ~Ev!Pending(c) /\ ~Ev!Pending(Ev!EarlyCancelReturned(c, TRUE))
BY DEF Ev!Checker, Ev!CheckerState, Ev!BeforeSuspend, Ev!Legal, Ev!EarlyCancelReturned, Ev!Step, Ev!Pending

LEMMA EventSetExecutorStep ==
    ASSUME NEW c \in Ev!Checker, Ev!Legal(Ev!AboutToSetExecutor(c))
    PROVE  /\ Ev!AboutToSetExecutor(c) \in Ev!Checker
           /\ ~Ev!Pending(c) /\ ~Ev!Pending(Ev!AboutToSetExecutor(c))
BY DEF Ev!Checker, Ev!CheckerState, Ev!BeforeSuspend, Ev!Legal, Ev!AboutToSetExecutor, Ev!Step, Ev!Pending

LEMMA EventSuspendStep ==
    ASSUME NEW c \in Ev!Checker, Ev!Legal(Ev!AboutToSuspend(Ev!ReadyReturned(c, FALSE)))
    PROVE  /\ Ev!AboutToSuspend(Ev!ReadyReturned(c, FALSE)) \in Ev!Checker
           /\ ~Ev!Pending(c) /\ Ev!Pending(Ev!AboutToSuspend(Ev!ReadyReturned(c, FALSE)))
<1> DEFINE d == Ev!ReadyReturned(c, FALSE)
<1>1. /\ d.state \in Ev!CheckerState /\ d.hasExecutor \in BOOLEAN /\ d \in Ev!Checker
      /\ d.state \in {"NotReady", "CancelPending"} => c.state \in Ev!BeforeSuspend
  BY DEF Ev!Checker, Ev!CheckerState, Ev!BeforeSuspend, Ev!ReadyReturned, Ev!Step
<1> HIDE DEF d
<1>2. Ev!Legal(Ev!AboutToSuspend(d))
  BY DEF d
<1>3. /\ Ev!AboutToSuspend(d) \in Ev!Checker /\ Ev!Pending(Ev!AboutToSuspend(d))
      /\ d.state \in {"NotReady", "CancelPending"}
  BY <1>1, <1>2 DEF Ev!Checker, Ev!CheckerState, Ev!Legal, Ev!AboutToSuspend, Ev!Step, Ev!Pending
<1> QED BY <1>1, <1>3 DEF d, Ev!Pending, Ev!BeforeSuspend

LEMMA EventCancelStep ==
    ASSUME NEW c \in Ev!Checker, Ev!Legal(Ev!CancelReturned(Ev!AboutToCancel(c), TRUE))
    PROVE  /\ Ev!CancelReturned(Ev!AboutToCancel(c), TRUE) \in Ev!Checker
           /\ ~Ev!Pending(Ev!CancelReturned(Ev!AboutToCancel(c), TRUE))
<1> DEFINE d == Ev!AboutToCancel(c)
<1>1. d \in Ev!Checker
  BY DEF Ev!Checker, Ev!CheckerState, Ev!AboutToCancel, Ev!Step
<1> HIDE DEF d
<1>2. Ev!Legal(Ev!CancelReturned(d, TRUE))
  BY DEF d
<1>3. Ev!CancelReturned(d, TRUE) \in Ev!Checker /\ ~Ev!Pending(Ev!CancelReturned(d, TRUE))
  BY <1>1, <1>2 DEF Ev!Checker, Ev!CheckerState, Ev!Legal, Ev!CancelReturned, Ev!Step, Ev!Pending
<1> QED BY <1>3 DEF d

LEMMA EventResumeStep ==
    ASSUME NEW c \in Ev!Checker, Ev!Legal(Ev!AboutToResume(c))
    PROVE  /\ Ev!AboutToResume(c) \in Ev!Checker
           /\ ~Ev!Pending(c) /\ ~Ev!Pending(Ev!AboutToResume(c))
BY DEF Ev!Checker, Ev!CheckerState, Ev!Legal, Ev!AboutToResume, Ev!Step, Ev!Pending

LEMMA EventResetStep ==
    ASSUME NEW c \in Ev!Checker, Ev!Legal(Ev!Reset(c))
    PROVE  Ev!Reset(c) \in Ev!Checker /\ ~Ev!Pending(Ev!Reset(c))
BY DEF Ev!Checker, Ev!CheckerState, Ev!Legal, Ev!Reset, Ev!Fresh, Ev!Step, Ev!Pending

LEMMA EventResumedStep ==
    ASSUME NEW c \in Ev!Checker, Ev!Pending(c)
    PROVE  Ev!Resumed(c) \in Ev!Checker /\ Ev!Legal(Ev!Resumed(c)) /\ ~Ev!Pending(Ev!Resumed(c))
BY DEF Ev!Checker, Ev!CheckerState, Ev!Legal, Ev!Resumed, Ev!Step, Ev!Pending

\* parked_ and the lists of the calls of unparkAll() in progress hold who
\* waits, and nobody waits for what has happened.
EventWaiting ==
    /\ P!Listed(v3, v4)
    /\ \A p \in Parents : Ev!Pending(above[p]) <=> P!Holds(v4, Ev!Item(p))
    /\ \A n \in 0..Cardinality(Parents) : n > v5 => v4[Ev!List(n)] = <<>>
    /\ v2 => v4[Ev!List(0)] = <<>>

EventInv ==
    /\ above \in [Parents -> Ev!Checker]
    /\ DOMAIN below = {}
    /\ v2 \in BOOLEAN
    /\ v5 \in 0..Cardinality(Parents)
    /\ Ev!ProtocolKept
    /\ EventWaiting

\* The names of the lists differ from those who wait, and from each other.
LEMMA EventNames ==
    /\ P!NodesDiffer
    /\ \A p, q : Ev!Item(p) = Ev!Item(q) => p = q
    /\ \A m, n : Ev!List(m) = Ev!List(n) => m = n
<1>1. \A p, n : Ev!Item(p) # Ev!List(n) /\ Ev!Item(p) # <<"null", 0>> /\ Ev!List(n) # <<"null", 0>>
  BY DEF Ev!Item, Ev!List
<1> QED BY <1>1 DEF P!NodesDiffer, Ev!Item, Ev!List

\* The two names of the operators of IntrusiveList are for the same.
LEMMA EventSameLists ==
    /\ \A l, s : Ev!L!Agree(l, s) <=> P!Agree(l, s)
    /\ \A s, x : Ev!L!Holds(s, x) <=> P!Holds(s, x)
    /\ \A s, x : Ev!L!WithoutItem(s, x) = P!WithoutItem(s, x)
    /\ \A s, h, x : Ev!L!WithLast(s, h, x) = P!WithLast(s, h, x)
    /\ \A s, h, k : Ev!L!Moved(s, h, k) = P!Moved(s, h, k)
    /\ \A l, x : Ev!L!UnlinkItem(l, x) = P!UnlinkItem(l, x)
    /\ \A l, h, x : Ev!L!PushItem(l, h, x) = P!PushItem(l, h, x)
    /\ \A l, h, k : Ev!L!MoveList(l, h, k) = P!MoveList(l, h, k)
    /\ \A l, h : Ev!L!EmptyList(l, h) <=> P!EmptyList(l, h)
    /\ \A l, h : Ev!L!FrontOf(l, h) = P!FrontOf(l, h)
    /\ Ev!L!NoLinks = P!NoLinks
<1>1. /\ \A s, x : Ev!L!Holds(s, x) <=> P!Holds(s, x)
      /\ \A s : Ev!L!LinkedOnce(s) <=> P!LinkedOnce(s)
      /\ \A s, x : Ev!L!Unlink(s, x) = P!Unlink(s, x)
      /\ \A l, x : Ev!L!UnlinkItem(l, x) = P!UnlinkItem(l, x)
      /\ \A l, h, s : Ev!L!Ring(l, h, s) <=> P!Ring(l, h, s)
      /\ \A l, h : Ev!L!EmptyList(l, h) <=> P!EmptyList(l, h)
  BY EventCounts DEF Ev!L!Holds, P!Holds, Ev!L!LinkedOnce, P!LinkedOnce, Ev!L!Unlink, P!Unlink,
         Ev!L!Position, P!Position, Ev!L!UnlinkItem, P!UnlinkItem, Ev!L!Ring, P!Ring,
         Ev!L!At, P!At, Ev!L!EmptyList, P!EmptyList, Ev!L!Contains, P!Contains, Ev!L!RemoveAt, P!RemoveAt
<1>2. \A s, x : Ev!L!WithoutItem(s, x) = P!WithoutItem(s, x)
  BY <1>1, EventCounts DEF Ev!L!WithoutItem, P!WithoutItem
<1>3. /\ \A l, h, x : Ev!L!PushItem(l, h, x) = P!PushItem(l, h, x)
      /\ \A l, h, k : Ev!L!MoveList(l, h, k) = P!MoveList(l, h, k)
  BY <1>1, EventCounts DEF Ev!L!PushItem, P!PushItem, Ev!L!MoveList, P!MoveList
<1> QED BY <1>1, <1>2, <1>3, EventCounts DEF Ev!L!Agree, P!Agree, Ev!L!WithLast, P!WithLast,
         Ev!L!Moved, P!Moved, Ev!L!FrontOf, P!FrontOf, Ev!L!NoLinks, P!NoLinks

LEMMA EventHeadNames ==
    ASSUME NEW n \in 0..Cardinality(Parents)
    PROVE  Ev!List(n) \in {Ev!List(m) : m \in 0..Cardinality(Parents)}
OBVIOUS

LEMMA EventItemNames ==
    ASSUME NEW p \in Parents
    PROVE  Ev!Item(p) \in {Ev!Item(q) : q \in Parents}
OBVIOUS

LEMMA EventInitInv ==
    ASSUME IsFiniteSet(Parents), Ev!Init
    PROVE  EventInv
<1> DEFINE none == [h \in {Ev!List(n) : n \in 0..Cardinality(Parents)} |-> <<>>]
<1>1. Cardinality(Parents) \in Nat
  BY FS_CardinalityType
<1>2. v3 = P!NoLinks /\ v4 = none /\ v5 = 0 /\ v2 = FALSE
  BY EventSameLists, EventCounts DEF Ev!Init
<1>3. P!Listed(v3, v4)
  BY <1>2, EventNames, P!AtFirst
<1>4. /\ above = [p \in Parents |-> Ev!Fresh] /\ DOMAIN below = {}
  BY DEF Ev!Init, Ev!ProtocolInit
<1>5. Ev!Fresh \in Ev!Checker /\ Ev!Legal(Ev!Fresh) /\ ~Ev!Pending(Ev!Fresh)
  BY DEF Ev!Fresh, Ev!Checker, Ev!CheckerState, Ev!Legal, Ev!Pending
<1>6. \A x : ~P!Holds(v4, x)
  BY <1>2 DEF P!Holds, P!Contains
<1>7. \A n \in 0..Cardinality(Parents) : v4[Ev!List(n)] = <<>>
  BY <1>2
<1>8. Ev!ProtocolKept
  BY <1>4, <1>5 DEF Ev!ProtocolKept
<1>9. EventWaiting
  BY <1>2, <1>3, <1>4, <1>5, <1>6, <1>7 DEF EventWaiting
<1>10. v2 \in BOOLEAN /\ v5 \in 0..Cardinality(Parents)
  <2>1. v2 \in BOOLEAN
    BY <1>2
  <2>2. v5 \in 0..Cardinality(Parents)
    BY <1>1, <1>2
  <2> QED BY <2>1, <2>2
<1>11. above \in [Parents -> Ev!Checker]
  BY <1>4, <1>5
<1> QED BY <1>4, <1>8, <1>9, <1>10, <1>11 DEF EventInv

\* A parent's checker moves on, in the way the lists tell.
LEMMA EventMovesOn ==
    ASSUME EventInv, NEW p \in Parents, NEW c \in Ev!Checker, Ev!Legal(c),
           above' = [above EXCEPT ![p] = c], UNCHANGED below
    PROVE  /\ above' \in [Parents -> Ev!Checker]
           /\ DOMAIN below' = {}
           /\ Ev!ProtocolKept'
           /\ above'[p] = c /\ \A q \in Parents : q # p => above'[q] = above[q]
BY DEF EventInv, Ev!ProtocolKept

\* It does not come to wait, nor cease to.
LEMMA EventStaysOut ==
    ASSUME EventInv, NEW p \in Parents, NEW c \in Ev!Checker, Ev!Legal(c),
           ~Ev!Pending(above[p]), ~Ev!Pending(c),
           above' = [above EXCEPT ![p] = c], UNCHANGED <<below, v2, Ev!lots>>
    PROVE  EventInv'
<1>1. /\ above' \in [Parents -> Ev!Checker] /\ DOMAIN below' = {} /\ Ev!ProtocolKept'
      /\ above'[p] = c /\ \A q \in Parents : q # p => above'[q] = above[q]
  BY EventMovesOn
<1>2. EventWaiting'
  BY <1>1 DEF EventInv, EventWaiting, Ev!lots
<1> QED BY <1>1, <1>2 DEF EventInv, Ev!lots

\* It ceases to wait and is unlinked.
LEMMA EventLeaves ==
    ASSUME IsFiniteSet(Parents), EventInv,
           NEW p \in Parents, NEW c \in Ev!Checker, Ev!Legal(c), ~Ev!Pending(c),
           above' = [above EXCEPT ![p] = c], Ev!Unlink(p), UNCHANGED <<below, v2>>
    PROVE  EventInv'
<1>1. /\ above' \in [Parents -> Ev!Checker] /\ DOMAIN below' = {} /\ Ev!ProtocolKept'
      /\ above'[p] = c /\ \A q \in Parents : q # p => above'[q] = above[q]
  BY EventMovesOn
<1>2. /\ P!Listed(v3, v4) /\ P!LinkedOnce(v4)
      /\ v4 \in [{Ev!List(n) : n \in 0..Cardinality(Parents)} -> Seq({Ev!Item(q) : q \in Parents})]
  BY DEF EventInv, EventWaiting, P!Listed, P!Agree
<1>3. v3' = P!UnlinkItem(v3, Ev!Item(p)) /\ v4' = P!WithoutItem(v4, Ev!Item(p)) /\ v5' = v5
  BY EventSameLists DEF Ev!Unlink
<1>4. P!Listed(v3', v4')
  BY <1>2, <1>3, EventNames, EventItemNames, P!Unlinked
<1>5. \A x : P!Holds(v4', x) <=> P!Holds(v4, x) /\ x # Ev!Item(p)
  BY <1>2, <1>3, EventItemNames, P!WithoutIt
<1>6. \A n \in 0..Cardinality(Parents) : v4[Ev!List(n)] = <<>> => v4'[Ev!List(n)] = <<>>
  BY <1>3, EventHeadNames, P!StillEmpty
<1>7. \A q \in Parents : Ev!Pending(above'[q]) <=> P!Holds(v4', Ev!Item(q))
  BY <1>1, <1>5, EventNames DEF EventInv, EventWaiting
<1>8. 0 \in 0..Cardinality(Parents)
  BY FS_CardinalityType
<1>9. EventWaiting'
  BY <1>3, <1>4, <1>6, <1>7, <1>8 DEF EventInv, EventWaiting
<1> QED BY <1>1, <1>3, <1>9 DEF EventInv

\* await_suspend(): it comes to wait and is linked.
LEMMA EventSuspendKeeps ==
    ASSUME IsFiniteSet(Parents), EventInv, NEW p \in Parents, Ev!Suspend(p)
    PROVE  EventInv'
<1> DEFINE c == Ev!AboutToSuspend(Ev!ReadyReturned(above[p], FALSE))
<1>1. above[p] \in Ev!Checker /\ Ev!Legal(c) /\ above' = [above EXCEPT ![p] = c] /\ UNCHANGED below
  BY DEF EventInv, Ev!Suspend, Ev!Calls
<1>2. c \in Ev!Checker /\ Ev!Pending(c)
  BY <1>1, EventSuspendStep
<1> HIDE DEF c
<1>3. /\ above' \in [Parents -> Ev!Checker] /\ DOMAIN below' = {} /\ Ev!ProtocolKept'
      /\ above'[p] = c /\ \A q \in Parents : q # p => above'[q] = above[q]
  BY <1>1, <1>2, EventMovesOn
<1>4. /\ P!Listed(v3, v4) /\ P!LinkedOnce(v4)
      /\ v4 \in [{Ev!List(n) : n \in 0..Cardinality(Parents)} -> Seq({Ev!Item(q) : q \in Parents})]
  BY DEF EventInv, EventWaiting, P!Listed, P!Agree
<1>5. /\ v3' = P!PushItem(v3, Ev!List(0), Ev!Item(p))
      /\ v4' = P!WithLast(v4, Ev!List(0), Ev!Item(p))
      /\ ~v2 /\ UNCHANGED <<v2, v5>>
  BY EventSameLists DEF Ev!Suspend
<1>6. 0 \in 0..Cardinality(Parents)
  BY FS_CardinalityType
<1>7. P!Listed(v3', v4')
  BY <1>4, <1>5, <1>6, EventNames, EventItemNames, EventHeadNames, P!PushedBack
<1>8. \A x : P!Holds(v4', x) <=> P!Holds(v4, x) \/ x = Ev!Item(p)
  <2>1. Ev!Item(p) \in {Ev!Item(r) : r \in Parents}
    BY EventItemNames
  <2>2. Ev!List(0) \in {Ev!List(n) : n \in 0..Cardinality(Parents)}
    BY <1>6
  <2>3. \A x : P!Holds(P!WithLast(v4, Ev!List(0), Ev!Item(p)), x)
                  <=> P!Holds(v4, x) \/ x = Ev!Item(p)
    BY <1>4, <2>1, <2>2, P!HeldThen
  <2> QED BY <2>3, <1>5
<1>9. ASSUME NEW n \in 0..Cardinality(Parents), n > v5 PROVE v4'[Ev!List(n)] = <<>>
  <2>1. Ev!List(n) # Ev!List(0) /\ v4[Ev!List(n)] = <<>>
    BY <1>9, <1>6, EventNames DEF EventInv, EventWaiting
  <2>2. P!WithLast(v4, Ev!List(0), Ev!Item(p))[Ev!List(n)] = <<>>
    BY <2>1, <1>6, EventHeadNames, P!StillEmptyThen
  <2> QED BY <2>2, <1>5
<1>10. \A q \in Parents : Ev!Pending(above'[q]) <=> P!Holds(v4', Ev!Item(q))
  BY <1>2, <1>3, <1>8, EventNames DEF EventInv, EventWaiting
<1>11. EventWaiting'
  BY <1>5, <1>7, <1>9, <1>10 DEF EventWaiting
<1> QED BY <1>3, <1>5, <1>11 DEF EventInv

\* The oldest of a list is one who waits.
LEMMA EventOldestWaits ==
    ASSUME EventInv, NEW n \in 0..Cardinality(Parents), ~Ev!L!EmptyList(v3, Ev!List(n))
    PROVE  Ev!Oldest(n) \in Parents /\ Ev!Pending(above[Ev!Oldest(n)])
<1> DEFINE Heads == {Ev!List(m) : m \in 0..Cardinality(Parents)}
           Items == {Ev!Item(q) : q \in Parents}
           first == Head(v4[Ev!List(n)])
<1>1. P!Listed(v3, v4) /\ v4 \in [Heads -> Seq(Items)]
  BY DEF EventInv, EventWaiting, P!Listed
<1>2. /\ ~P!EmptyList(v3, Ev!List(n)) /\ Ev!L!FrontOf(v3, Ev!List(n)) = P!FrontOf(v3, Ev!List(n))
  BY EventSameLists
<1>3. P!FrontOf(v3, Ev!List(n)) = first /\ first \in Items /\ v4[Ev!List(n)] # <<>>
  BY <1>1, <1>2, EventNames, EventHeadNames, P!FrontIsHead
<1>4. PICK p \in Parents : first = Ev!Item(p)
  BY <1>3
<1>5. Ev!Oldest(n) = p
  BY <1>2, <1>3, <1>4 DEF Ev!Oldest, Ev!Item
<1>6. P!Holds(v4, Ev!Item(p))
  <2>1. v4[Ev!List(n)] \in Seq(Items) /\ Ev!List(n) \in Heads
    BY <1>1, EventHeadNames
  <2>2. Len(v4[Ev!List(n)]) \in Nat /\ Len(v4[Ev!List(n)]) # 0 /\ first = v4[Ev!List(n)][1]
    BY <2>1, <1>3, LenProperties, EmptySeq
  <2>3. 1 \in 1..Len(v4[Ev!List(n)])
    BY <2>2
  <2> QED BY <2>1, <2>2, <2>3, <1>4 DEF P!Holds, P!Contains
<1> QED BY <1>5, <1>6 DEF EventInv, EventWaiting

\* unpark(), from unparkOne() or from the loop of unparkAll().
LEMMA EventUnparkKeeps ==
    ASSUME IsFiniteSet(Parents), EventInv, NEW n \in 0..Cardinality(Parents),
           ~Ev!L!EmptyList(v3, Ev!List(n)), Ev!Unpark(Ev!Oldest(n)), UNCHANGED <<below, v2>>
    PROVE  EventInv'
<1> DEFINE p == Ev!Oldest(n)
           c == Ev!Resumed(above[p])
<1>1. p \in Parents /\ Ev!Pending(above[p]) /\ above[p] \in Ev!Checker
  BY EventOldestWaits DEF EventInv
<1>2. c \in Ev!Checker /\ Ev!Legal(c) /\ ~Ev!Pending(c)
  BY <1>1, EventResumedStep
<1>3. above' = [above EXCEPT ![p] = c] /\ Ev!Unlink(p)
  BY DEF Ev!Unpark
<1> HIDE DEF p, c
<1> QED BY <1>1, <1>2, <1>3, EventLeaves

\* unparkAll() takes the list away.
LEMMA EventUnparkAllKeeps ==
    ASSUME IsFiniteSet(Parents), EventInv, Ev!UnparkAll
    PROVE  EventInv'
<1> DEFINE Heads == {Ev!List(m) : m \in 0..Cardinality(Parents)}
           to == Ev!List(v5 + 1)
           from == Ev!List(0)
<1>1. /\ Cardinality(Parents) \in Nat
      /\ v5 \in 0..Cardinality(Parents) /\ v5 < Cardinality(Parents)
  BY FS_CardinalityType, EventCounts DEF EventInv, Ev!UnparkAll
<1>2. 0 \in 0..Cardinality(Parents) /\ v5 + 1 \in 0..Cardinality(Parents) /\ v5 + 1 # 0
  BY <1>1
<1>3. /\ to \in Heads /\ from \in Heads /\ to # from /\ v4[to] = <<>>
  BY <1>1, <1>2, EventNames, EventHeadNames DEF EventInv, EventWaiting
<1>4. /\ P!Listed(v3, v4) /\ v4 \in [Heads -> Seq({Ev!Item(q) : q \in Parents})]
  BY DEF EventInv, EventWaiting, P!Listed
<1>5. /\ v3' = P!MoveList(v3, to, from) /\ v4' = P!Moved(v4, to, from)
      /\ v5' = v5 + 1 /\ UNCHANGED <<above, below>>
  BY EventSameLists DEF Ev!UnparkAll, Ev!shared
<1> HIDE DEF to, from
<1>6. P!Listed(v3', v4')
  BY <1>3, <1>4, <1>5, EventNames, P!MovedOver
<1>7. \A x : P!Holds(v4', x) <=> P!Holds(v4, x)
  BY <1>3, <1>4, <1>5, P!HeldElsewhere
<1>8. v4'[from] = <<>> /\ \A h \in Heads : h # to /\ h # from => v4'[h] = v4[h]
  BY <1>3, <1>4, <1>5 DEF P!Moved
<1>9. ASSUME NEW n \in 0..Cardinality(Parents), n > v5' PROVE v4'[Ev!List(n)] = <<>>
  <2>1. n > v5 /\ n # v5 + 1 /\ n # 0
    BY <1>1, <1>5, <1>9
  <2>2. Ev!List(n) # to /\ Ev!List(n) # from
    BY <2>1, EventNames DEF to, from
  <2> QED BY <2>1, <2>2, <1>8, EventHeadNames DEF EventInv, EventWaiting
<1>10. EventWaiting'
  BY <1>5, <1>6, <1>7, <1>8, <1>9 DEF EventInv, EventWaiting, from
<1>11. v5' \in 0..Cardinality(Parents) /\ DOMAIN below' = {} /\ above' \in [Parents -> Ev!Checker]
  BY <1>2, <1>5 DEF EventInv
<1>12. Ev!ProtocolKept'
  BY <1>5 DEF EventInv, Ev!ProtocolKept
<1>13. v2' \in BOOLEAN
  BY DEF Ev!UnparkAll
<1> QED BY <1>10, <1>11, <1>12, <1>13 DEF EventInv

\* unparkAll() returns when its list is empty.
LEMMA EventReturnKeeps ==
    ASSUME IsFiniteSet(Parents), EventInv, Ev!UnparkAllReturns
    PROVE  EventInv'
<1>1. /\ v5 \in 0..Cardinality(Parents) /\ v5 > 0 /\ v5' = v5 - 1
      /\ UNCHANGED <<above, below, v2, v3, v4>>
  BY DEF EventInv, Ev!UnparkAllReturns, Ev!shared
<1>2. P!Listed(v3, v4) /\ P!EmptyList(v3, Ev!List(v5))
  BY EventSameLists DEF EventInv, EventWaiting, Ev!UnparkAllReturns
<1>3. v4[Ev!List(v5)] = <<>>
  BY <1>1, <1>2, EventNames, EventHeadNames, P!FrontIsHead
<1>4. ASSUME NEW n \in 0..Cardinality(Parents), n > v5' PROVE v4[Ev!List(n)] = <<>>
  <2>1. n > v5 \/ n = v5
    BY <1>1, <1>4
  <2> QED BY <2>1, <1>3 DEF EventInv, EventWaiting
<1>5. EventWaiting'
  BY <1>1, <1>4 DEF EventInv, EventWaiting
<1>6. Ev!ProtocolKept'
  BY <1>1 DEF EventInv, Ev!ProtocolKept
<1>7. v5' \in 0..Cardinality(Parents)
  BY <1>1, FS_CardinalityType
<1> QED BY <1>1, <1>5, <1>6, <1>7 DEF EventInv

LEMMA EventStepKeeps ==
    ASSUME IsFiniteSet(Parents), EventInv, Ev!Next \/ UNCHANGED Ev!vars
    PROVE  EventInv'
<1>1. ASSUME NEW p \in Parents PROVE above[p] \in Ev!Checker
  BY DEF EventInv
<1>2. ASSUME NEW p \in Parents, Ev!Ready(p) PROVE EventInv'
  <2>1. /\ above[p].state \in Ev!BeforeSuspend /\ Ev!Legal(Ev!ReadyReturned(above[p], v2))
        /\ above' = [above EXCEPT ![p] = Ev!ReadyReturned(above[p], v2)]
        /\ UNCHANGED <<below, v2, Ev!lots>>
    BY <1>2 DEF Ev!Ready, Ev!Calls
  <2>2. v2 \in BOOLEAN
    BY DEF EventInv
  <2> QED BY <2>1, <2>2, <1>1, EventReadyStep, EventStaysOut
<1>3. ASSUME NEW p \in Parents, Ev!EarlyCancel(p) PROVE EventInv'
  BY <1>1, <1>3, EventEarlyCancelStep, EventStaysOut DEF Ev!EarlyCancel, Ev!Calls
<1>4. ASSUME NEW p \in Parents, Ev!SetExecutor(p) PROVE EventInv'
  BY <1>1, <1>4, EventSetExecutorStep, EventStaysOut DEF Ev!SetExecutor, Ev!Calls
<1>5. ASSUME NEW p \in Parents, Ev!Suspend(p) PROVE EventInv'
  BY <1>5, EventSuspendKeeps
<1>6. ASSUME NEW p \in Parents, Ev!Cancel(p) PROVE EventInv'
  BY <1>1, <1>6, EventCancelStep, EventLeaves DEF Ev!Cancel, Ev!Calls
<1>7. ASSUME NEW p \in Parents, Ev!Resume(p) PROVE EventInv'
  BY <1>1, <1>7, EventResumeStep, EventStaysOut DEF Ev!Resume, Ev!Calls
<1>8. ASSUME NEW p \in Parents, Ev!Destroy(p) PROVE EventInv'
  BY <1>1, <1>8, EventResetStep, EventLeaves DEF Ev!Destroy, Ev!Calls
<1>9. CASE Ev!UnparkOne
  <2>1. 0 \in 0..Cardinality(Parents)
    BY FS_CardinalityType
  <2> QED BY <2>1, <1>9, EventUnparkKeeps DEF Ev!UnparkOne
<1>10. CASE Ev!UnparkAll
  BY <1>10, EventUnparkAllKeeps
<1>11. CASE Ev!Wake
  BY <1>11, EventUnparkKeeps DEF Ev!Wake, EventInv
<1>12. CASE Ev!UnparkAllReturns
  BY <1>12, EventReturnKeeps
<1>13. CASE UNCHANGED Ev!vars
  BY <1>13 DEF Ev!vars, Ev!shared, Ev!lots, EventInv, Ev!ProtocolKept, EventWaiting
<1> QED BY <1>2, <1>3, <1>4, <1>5, <1>6, <1>7, <1>8, <1>9, <1>10, <1>11, <1>12, <1>13 DEF Ev!Next

LEMMA EventInvariant ==
    ASSUME IsFiniteSet(Parents)
    PROVE  Spec => [](class = "event" => EventInv)
<1>1. Init => (class = "event" => EventInv)
  BY EventInitInv DEF Init
<1>2. (class = "event" => EventInv) /\ [Next]_vars => (class = "event" => EventInv)'
  <2>1. ASSUME class = "event", EventInv, Next PROVE EventInv'
    BY <2>1, EventStepKeeps DEF Next
  <2>2. ASSUME class = "event", EventInv, UNCHANGED vars PROVE EventInv'
    <3>1. UNCHANGED Ev!vars
      BY <2>2 DEF vars, Ev!vars, shared, Ev!shared, Ev!lots
    <3> QED BY <2>2, <3>1, EventStepKeeps
  <2>3. [Next]_vars => class' = class
    BY DEF Next, vars, two, three, five, seven
  <2> QED BY <2>1, <2>2, <2>3
<1> QED BY <1>1, <1>2, PTL DEF Spec

(* Whoever waits is in a list that somebody goes through, nobody else is,  *)
(* and the pointers of parked_, and of the lists of unparkAll() calls that *)
(* are resumed within each other, are those of the lists (ParkingLot.h,    *)
(* Event.h), for any number of those who wait.                             *)
THEOREM WaitersAreLinked ==
    ASSUME IsFiniteSet(Parents)
    PROVE  Spec => [](class = "event" => Ev!WaitersLinked)
<1>1. EventInv => Ev!WaitersLinked
  BY EventSameLists, EventCounts DEF EventInv, EventWaiting, Ev!WaitersLinked, P!Listed
<1> QED BY <1>1, EventInvariant, PTL

(* An event, or a parking lot, never resumes a waiter that does not wait,  *)
(* and never twice, although each may be cancelled, or go, meanwhile.      *)
LEMMA EventIsKept == EventInv => Ev!ProtocolKept
BY DEF EventInv

----------------------------------------------------------------------------
(* Shared.                                                                 *)

\* The checker in Shared is this one.
LEMMA SharedChecker ==
    /\ Sh!Checker = Checker /\ Sh!Fresh = Fresh /\ Sh!BeforeSuspend = BeforeSuspend
    /\ \A c : /\ Sh!Legal(c) <=> Legal(c)
              /\ Sh!Pending(c) <=> Pending(c)
    /\ \A c : /\ Sh!AboutToSetExecutor(c) = AboutToSetExecutor(c)
              /\ Sh!AboutToSuspend(c) = AboutToSuspend(c)
              /\ Sh!SuspendThrew(c) = SuspendThrew(c)
              /\ Sh!AboutToCancel(c) = AboutToCancel(c)
              /\ Sh!AboutToResume(c) = AboutToResume(c)
              /\ Sh!Resumed(c) = Resumed(c)
              /\ Sh!Reset(c) = Reset(c)
    /\ \A c, val : /\ Sh!ReadyReturned(c, val) = ReadyReturned(c, val)
                   /\ Sh!EarlyCancelReturned(c, val) = EarlyCancelReturned(c, val)
                   /\ Sh!CancelReturned(c, val) = CancelReturned(c, val)
                   /\ Sh!MustResumeReturned(c, val) = MustResumeReturned(c, val)
    /\ \A c, moves : Sh!Step(c, moves) = Step(c, moves)
<1>1. \A c, moves : Sh!Step(c, moves) = Step(c, moves)
  BY DEF Sh!Step, Step
<1>2. Sh!CheckerState = CheckerState /\ Sh!BeforeSuspend = BeforeSuspend /\ Sh!Fresh = Fresh
  BY DEF Sh!CheckerState, CheckerState, Sh!BeforeSuspend, BeforeSuspend, Sh!Fresh, Fresh
<1>3. \A c : /\ Sh!AboutToSetExecutor(c) = AboutToSetExecutor(c)
             /\ Sh!AboutToSuspend(c) = AboutToSuspend(c)
             /\ Sh!SuspendThrew(c) = SuspendThrew(c)
             /\ Sh!AboutToCancel(c) = AboutToCancel(c)
             /\ Sh!AboutToResume(c) = AboutToResume(c)
             /\ Sh!Resumed(c) = Resumed(c)
             /\ Sh!Reset(c) = Reset(c)
  BY <1>1, <1>2 DEF Sh!AboutToSetExecutor, AboutToSetExecutor, Sh!AboutToSuspend, AboutToSuspend,
     Sh!SuspendThrew, SuspendThrew, Sh!AboutToCancel, AboutToCancel, Sh!AboutToResume,
     AboutToResume, Sh!Resumed, Resumed, Sh!Reset, Reset
<1>4. \A c, val : /\ Sh!ReadyReturned(c, val) = ReadyReturned(c, val)
                  /\ Sh!EarlyCancelReturned(c, val) = EarlyCancelReturned(c, val)
                  /\ Sh!CancelReturned(c, val) = CancelReturned(c, val)
                  /\ Sh!MustResumeReturned(c, val) = MustResumeReturned(c, val)
  BY <1>1 DEF Sh!ReadyReturned, ReadyReturned, Sh!EarlyCancelReturned, EarlyCancelReturned,
     Sh!CancelReturned, CancelReturned, Sh!MustResumeReturned, MustResumeReturned
<1> QED BY <1>1, <1>2, <1>3, <1>4 DEF Sh!Checker, Checker, Sh!Legal, Legal, Sh!Pending, Pending

\* Its lists are those that the lemmas are about.
LEMMA SharedLists ==
    /\ \A s, x : Sh!Contains(s, x) <=> P!Contains(s, x)
    /\ \A s, x : Sh!Unlink(s, x) = P!Unlink(s, x)
BY DEF Sh!Contains, P!Contains, Sh!Unlink, P!Unlink, Sh!Position, P!Position,
       Sh!RemoveAt, P!RemoveAt

LEMMA SharedInit ==
    ASSUME Sh!Init
    PROVE  Sh!Inv
<1>1. /\ above = [p \in Parents |-> Fresh] /\ below = [c \in {1} |-> Fresh]
      /\ calls = <<>> /\ over = "no" /\ v1 = "Incomplete" /\ v2 = <<>> /\ v3 = <<>>
      /\ v4 = [p \in Parents |-> TRUE] /\ v5 = {}
  BY SharedChecker DEF Sh!Init, Sh!ProtocolInit
<1>2. Fresh \in Checker /\ Fresh.state = "Initial" /\ ~Pending(Fresh)
  BY DEF Fresh, Checker, CheckerState, Pending
<1>3. \A S : <<>> \in Seq(S) /\ Len(<<>>) = 0
  BY EmptySeq
<1>4. \A x : ~Sh!Contains(<<>>, x)
  BY <1>3 DEF Sh!Contains
<1>8. Sh!CancelUnderWay
  BY <1>1, <1>3 DEF Sh!CancelUnderWay
<1>5. Sh!ListsSound
  BY <1>1, <1>2, <1>3, SharedChecker DEF Sh!ListsSound
<1>6. Sh!OneOperation
  BY <1>1, <1>2, SharedChecker DEF Sh!OneOperation, Sh!B
<1>7. Sh!WhoWaits
  BY <1>1, <1>2, <1>3, <1>4, SharedChecker DEF Sh!WhoWaits, Sh!Parent, Sh!B
<1> QED BY <1>5, <1>6, <1>7, <1>8 DEF Sh!Inv

\* No await_cancel() is called.
LEMMA SharedCallsThen ==
    ASSUME Sh!Inv,
           \A i \in 1..Len(calls') :
              calls'[i].fn # "await_cancel" \/ \E j \in 1..Len(calls) : calls'[i] = calls[j],
           below'[1].state \in {"Initial", "Running"} => Sh!B.state \in {"Initial", "Running"},
           below'[1].state = "Cancelling" => Sh!B.state = "Cancelling" /\ v2' = v2
    PROVE  Sh!CancelUnderWay'
BY DEF Sh!Inv, Sh!CancelUnderWay, Sh!B

\* A parent that does not wait goes from one such state to another.
LEMMA SharedParentMoves ==
    ASSUME Sh!Inv, NEW p \in Parents, NEW c \in Checker,
           above' = [above EXCEPT ![p] = c], ~Pending(above[p]),
           c.state \in {"Initial", "Ready", "Cancelled", "Done"},
           c.state = "Ready" => above[p].state \in {"Ready", "ReadyAfterCancel"},
           v4' \in [Parents -> BOOLEAN], Sh!OneOperation',
           below'[1].state = "Initial" => Sh!B.state = "Initial",
           Pending(below'[1]) => below' = below, below' \in [{1} -> Checker],
           UNCHANGED <<calls, over, v2, v3>>
    PROVE  Sh!Inv'
<1>1. /\ above \in [Parents -> Checker] /\ above' \in [Parents -> Checker]
      /\ above'[p] = c /\ \A q \in Parents : q # p => above'[q] = above[q]
  BY SharedChecker DEF Sh!Inv, Sh!ListsSound
<1>2. Sh!ListsSound'
  BY <1>1, SharedChecker DEF Sh!Inv, Sh!ListsSound
<1>3. \A q \in Parents : Sh!Parent(q)'
  BY <1>1, SharedChecker DEF Sh!Inv, Sh!WhoWaits, Sh!Parent, Sh!B, Pending
<1>4. Sh!WhoWaits'
  BY <1>1, <1>3, SharedChecker DEF Sh!Inv, Sh!WhoWaits, Sh!ListsSound, Sh!Parent, Sh!B, Pending
<1>5. Sh!CancelUnderWay'
  BY SharedCallsThen DEF Pending, Sh!B
<1> QED BY <1>2, <1>4, <1>5 DEF Sh!Inv

\* State::result().
LEMMA SharedTakesResult ==
    ASSUME Sh!Inv, NEW p \in Parents, NEW a \in Checker, NEW b \in Checker,
           Sh!TakeResult(p, a, b), ~Pending(above[p]),
           a.state \in {"ReadyImmediately", "Ready"},
           v1 = "Incomplete" => b.state \in {"ReadyImmediately", "Ready"} /\ ~Pending(Sh!B),
           v1 # "Incomplete" => b = Sh!B,
           UNCHANGED <<calls, over, v2, v3, v4>>
    PROVE  Sh!Inv'
<1> DEFINE c == AboutToResume(a)
           d == AboutToResume(b)
<1>1. c \in Checker /\ c.state = "Done"
  BY ResumeMoves DEF Goes
<1>2. d \in Checker /\ (b.state \in {"ReadyImmediately", "Ready"} => d.state = "Done")
  BY ResumeMoves DEF Goes
<1>3. /\ above' = [above EXCEPT ![p] = c]
      /\ IF v1 \in {"Incomplete", "CancelPending"}
         THEN /\ below' = [below EXCEPT ![1] = d]
              /\ \E r \in Sh!Results : v1' = r /\ v5' = v5 \cup {r}
         ELSE /\ v5' = v5 \cup {IF v1 \in Sh!Results THEN v1 ELSE "unavailable"}
              /\ below' = [below EXCEPT ![1] = b]
              /\ UNCHANGED v1
  BY SharedChecker DEF Sh!TakeResult, Sh!Calls, Sh!Below
<1> HIDE DEF c, d
<1>4. below \in [{1} -> Checker] /\ v4' \in [Parents -> BOOLEAN]
  BY SharedChecker DEF Sh!Inv, Sh!ListsSound
<1>5. CASE v1 = "Incomplete"
  <2>1. below' \in [{1} -> Checker] /\ below'[1].state = "Done" /\ ~Pending(below'[1])
    BY <1>2, <1>3, <1>4, <1>5 DEF Pending
  <2>2. PICK r \in Sh!Results : v1' = r /\ v5' = v5 \cup {r}
    BY <1>3, <1>5
  <2>3. v2' = <<>> /\ v5 \subseteq {"unavailable"}
    BY <1>5, SharedChecker DEF Sh!Inv, Sh!OneOperation, Sh!B, Sh!Results
  <2>4. Sh!OneOperation'
    BY <2>1, <2>2, <2>3, SharedChecker DEF Sh!OneOperation, Sh!B, Sh!Results
  <2> QED BY <1>1, <1>3, <1>4, <2>1, <2>4, SharedParentMoves
<1>6. CASE v1 # "Incomplete"
  <2>1. below' = below /\ v1 # "CancelPending" /\ UNCHANGED v1
    BY <1>3, <1>4, <1>6, SharedChecker DEF Sh!Inv, Sh!OneOperation, Sh!B, Sh!Results
  <2>2. Sh!OneOperation'
    BY <1>3, <1>6, <2>1, SharedChecker DEF Sh!Inv, Sh!OneOperation, Sh!B, Sh!Results
  <2> QED BY <1>1, <1>3, <1>4, <2>1, <2>2, SharedParentMoves DEF Sh!B
<1> QED BY <1>5, <1>6

\* The parents and child 1, as the invariant has them.
LEMMA SharedTypes ==
    ASSUME Sh!Inv
    PROVE  /\ \A p \in Parents : above[p] \in Checker
           /\ Sh!B \in Checker /\ below \in [{1} -> Checker] /\ above \in [Parents -> Checker]
           /\ v4 \in [Parents -> BOOLEAN]
           /\ v2 \in Seq(Parents) /\ v3 \in Seq(Parents)
           /\ v2 = <<>> \/ v3 = <<>>
           /\ \A p \in Parents : Sh!Parent(p)
           /\ v1 \in Sh!Results \cup {"Incomplete", "Cancelling", "Cancelled"}
           /\ v1 = "Incomplete" => Sh!B.state \in {"Initial", "Running", "Ready"}
           /\ Pending(Sh!B) <=> v2 # <<>>
BY SharedChecker DEF Sh!Inv, Sh!ListsSound, Sh!OneOperation, Sh!WhoWaits, Sh!B

\* Who may ask has not begun, and child 1 has not either or is running.
LEMMA SharedArrives ==
    ASSUME Liberties = {}, Sh!Inv, NEW p \in Parents, Sh!MayArrive(p)
    PROVE  /\ above[p].state = "Initial" /\ ~Pending(above[p])
           /\ v1 = "Incomplete" => Sh!B.state = IF v2 = <<>> THEN "Initial" ELSE "Running"
BY SharedTypes, SharedChecker DEF Sh!MayArrive, Sh!Unclaimed, Sh!Parent, BeforeSuspend, Pending

LEMMA SharedArriveReady ==
    ASSUME Liberties = {}, Sh!Inv, NEW p \in Parents, Sh!ArriveReady(p)
    PROVE  Sh!Inv'
<1> DEFINE a == ReadyReturned(above[p], TRUE)
           b == IF v1 # "Incomplete" THEN Sh!B ELSE ReadyReturned(Sh!B, TRUE)
<1>1. /\ above[p].state = "Initial" /\ ~Pending(above[p]) /\ above[p] \in Checker
      /\ Sh!B \in Checker
      /\ v1 = "Incomplete" => Sh!B.state = "Initial"
  BY SharedArrives, SharedTypes DEF Sh!ArriveReady, Sh!KnownReady, Sh!MustAsk
<1>2. a \in Checker /\ a.state = "ReadyImmediately"
  BY <1>1, ReadyMoves DEF Goes
<1>3. b \in Checker /\ (v1 = "Incomplete" => b.state = "ReadyImmediately")
  BY <1>1, ReadyMoves DEF Goes
<1>4. Sh!TakeResult(p, a, b) /\ UNCHANGED <<calls, over, v2, v3, v4>>
  BY <1>2, SharedChecker DEF Sh!ArriveReady, Sh!KnownReady
<1>5. v1 # "Incomplete" => b = Sh!B
  OBVIOUS
<1>6. v1 = "Incomplete" => ~Pending(Sh!B)
  BY <1>1 DEF Pending
<1> HIDE DEF a, b
<1> QED BY <1>1, <1>2, <1>3, <1>4, <1>5, <1>6, SharedTakesResult

LEMMA SharedEarlyCancel ==
    ASSUME Liberties = {}, Sh!Inv, NEW p \in Parents, Sh!EarlyCancel(p)
    PROVE  Sh!Inv'
<1> DEFINE c == EarlyCancelReturned(above[p], TRUE)
           d == EarlyCancelReturned(Sh!B, TRUE)
<1>1. /\ above[p].state = "Initial" /\ ~Pending(above[p]) /\ above[p] \in Checker
      /\ Sh!B \in Checker
      /\ v1 = "Incomplete" => Sh!B.state = IF v2 = <<>> THEN "Initial" ELSE "Running"
  BY SharedArrives, SharedTypes DEF Sh!EarlyCancel
<1>2. /\ above' = [above EXCEPT ![p] = c]
      /\ v4' = [v4 EXCEPT ![p] = FALSE]
      /\ IF Sh!MustAsk THEN below' = [below EXCEPT ![1] = d] /\ v1' = "Cancelled"
         ELSE UNCHANGED <<below, v1>>
      /\ UNCHANGED <<calls, over, v2, v3, v5>>
  BY SharedChecker DEF Sh!EarlyCancel, Sh!Calls, Sh!Below
<1>3. c \in Checker /\ c.state = "Cancelled"
  BY <1>1, EarlyCancelMoves DEF Goes
<1>4. d \in Checker /\ (Sh!MustAsk => d.state = "Cancelled")
  BY <1>1, EarlyCancelMoves DEF Goes, Sh!MustAsk, Sh!KnownReady
<1> HIDE DEF c, d
<1>5. /\ below' \in [{1} -> Checker]
      /\ Sh!MustAsk => below'[1].state = "Cancelled" /\ ~Pending(below'[1])
      /\ ~Sh!MustAsk => below' = below
  BY <1>2, <1>4, SharedTypes DEF Pending
<1>6. Sh!OneOperation'
  BY <1>1, <1>2, <1>5, SharedChecker
     DEF Sh!Inv, Sh!OneOperation, Sh!B, Sh!MustAsk, Sh!KnownReady, Sh!Results
<1>7. v4' \in [Parents -> BOOLEAN]
  BY <1>2, SharedTypes
<1>8. below'[1].state = "Initial" => Sh!B.state = "Initial"
  BY <1>5 DEF Sh!B
<1> QED BY <1>1, <1>2, <1>3, <1>5, <1>6, <1>7, <1>8, SharedParentMoves

LEMMA SharedMustResume ==
    ASSUME Sh!Inv, NEW p \in Parents, Sh!MustResume(p)
    PROVE  Sh!Inv'
<1>1. above[p] \in Checker /\ v1 # "CancelPending" /\ below' \in [{1} -> Checker]
      /\ UNCHANGED below
  BY SharedTypes DEF Sh!MustResume, Sh!Results
<1>2. PICK val \in BOOLEAN : /\ above' = [above EXCEPT ![p] = MustResumeReturned(above[p], val)]
                              /\ Legal(MustResumeReturned(above[p], val))
  BY SharedChecker DEF Sh!MustResume, Sh!Calls
<1> DEFINE c == MustResumeReturned(above[p], val)
<1>3. /\ c \in Checker /\ c.state \in {"Ready", "Cancelled"}
      /\ above[p].state = "ReadyAfterCancel"
  <2>1. CASE val = TRUE
    BY <1>1, <1>2, <2>1, MustResumeMoves DEF Goes, Legal
  <2>2. CASE val = FALSE
    BY <1>1, <1>2, <2>2, MustResumeMoves DEF Goes, Legal
  <2> QED BY <2>1, <2>2
<1> HIDE DEF c
<1>4. Sh!OneOperation' /\ v4' \in [Parents -> BOOLEAN]
      /\ UNCHANGED <<calls, over, v2, v3>>
  BY <1>1, SharedTypes, SharedChecker DEF Sh!MustResume, Sh!Inv, Sh!OneOperation, Sh!B
<1> QED BY <1>1, <1>2, <1>3, <1>4, SharedParentMoves DEF c, Pending, Sh!B

LEMMA SharedResume ==
    ASSUME Sh!Inv, NEW p \in Parents, Sh!Resume(p)
    PROVE  Sh!Inv'
<1>1. above[p] \in Checker /\ above[p].state = "Ready" /\ Sh!B \in Checker
  BY SharedTypes DEF Sh!Resume
<1>2. ~Pending(above[p]) /\ Sh!B.state # "Initial" /\ ~Pending(Sh!B)
  BY <1>1, SharedTypes, SharedChecker DEF Sh!Parent, Pending
<1>3. v1 = "Incomplete" => Sh!B.state = "Ready"
  BY <1>2, SharedTypes DEF Pending
<1>4. Sh!TakeResult(p, above[p], Sh!B) /\ UNCHANGED <<calls, over, v2, v3, v4>>
  BY DEF Sh!Resume
<1> QED BY <1>1, <1>2, <1>3, <1>4, SharedTakesResult

\* A list without somebody who is not on it is the same.
LEMMA SharedNotLinked ==
    ASSUME NEW s, NEW x, ~Sh!Contains(s, x)
    PROVE  Sh!Unlink(s, x) = s
BY DEF Sh!Unlink

LEMMA SharedDestroy ==
    ASSUME Sh!Inv, NEW p \in Parents, Sh!Destroy(p)
    PROVE  Sh!Inv'
<1> DEFINE c == Reset(above[p])
<1>1. above[p] \in Checker /\ Legal(c) /\ above' = [above EXCEPT ![p] = c]
  BY SharedTypes, SharedChecker DEF Sh!Destroy, Sh!Calls
<1>2. c \in Checker /\ c.state = "Initial" /\ above[p].state \in {"Cancelled", "Done", "Initial"}
  BY <1>1, ResetMoves DEF Legal
<1> HIDE DEF c
<1>3. ~Pending(above[p]) /\ ~Sh!Contains(v2, p) /\ ~Sh!Contains(v3, p)
  BY <1>2, SharedTypes, SharedChecker DEF Sh!Parent, Pending
<1>4. UNCHANGED <<below, calls, over, v1, v2, v3, v5>> /\ v4' \in [Parents -> BOOLEAN]
  BY <1>3, SharedNotLinked, SharedTypes DEF Sh!Destroy
<1>5. Sh!OneOperation' /\ below' \in [{1} -> Checker]
  BY <1>4, SharedTypes, SharedChecker DEF Sh!Inv, Sh!OneOperation, Sh!B
<1> QED BY <1>1, <1>2, <1>3, <1>4, <1>5, SharedParentMoves DEF Sh!B

LEMMA SharedArriveSuspend ==
    ASSUME Liberties = {}, Sh!Inv, NEW p \in Parents, Sh!ArriveSuspend(p)
    PROVE  Sh!Inv'
<1> DEFINE a == AboutToSuspend(AboutToSetExecutor(ReadyReturned(above[p], FALSE)))
           b == AboutToSuspend(AboutToSetExecutor(ReadyReturned(Sh!B, FALSE)))
           pushed == [fn |-> "await_suspend", to |-> p]
<1>1. /\ above[p].state = "Initial" /\ above[p] \in Checker /\ Sh!B \in Checker
      /\ v1 = "Incomplete" /\ Sh!B.state = IF v2 = <<>> THEN "Initial" ELSE "Running"
  BY SharedArrives, SharedTypes DEF Sh!ArriveSuspend, Sh!KnownReady
<1>2. ASSUME NEW c \in Checker, c.state = "Initial"
      PROVE  Goes(AboutToSetExecutor(ReadyReturned(c, FALSE)),
                  AboutToSuspend(AboutToSetExecutor(ReadyReturned(c, FALSE))), "Running")
  <2> DEFINE d == ReadyReturned(c, FALSE)
  <2>1. d \in Checker /\ d.state = "NotReady"
    BY <1>2, ReadyMoves DEF Goes
  <2> HIDE DEF d
  <2> DEFINE e == AboutToSetExecutor(d)
  <2>2. e \in Checker /\ e.state = "NotReady" /\ e.hasExecutor
    BY <2>1, SetExecutorMoves DEF BeforeSuspend
  <2> HIDE DEF e
  <2>3. Goes(e, AboutToSuspend(e), "Running")
    BY <2>2, SuspendMoves
  <2> QED BY <2>3 DEF d, e
<1>3. /\ above' = [above EXCEPT ![p] = a]
      /\ v2' = Append(v2, p)
      /\ IF v2 = <<>> THEN below' = [below EXCEPT ![1] = b] /\ calls' = <<pushed>> \o calls
         ELSE below' = [below EXCEPT ![1] = Sh!B] /\ UNCHANGED calls
      /\ UNCHANGED <<over, v1, v3, v4, v5>>
  BY <1>1, SharedChecker DEF Sh!ArriveSuspend, Sh!Calls, Sh!SuspendOn, Sh!Below, Sh!MustAsk,
     Sh!KnownReady, Sh!WithExecutor, Sh!HandsExecutorOn, Sh!Calling
<1>4. a \in Checker /\ a.state = "Running" /\ Pending(a)
  BY <1>1, <1>2 DEF Goes, Pending
<1>5. v2 = <<>> => b \in Checker /\ b.state = "Running"
  BY <1>1, <1>2 DEF Goes
<1> HIDE DEF a, b
<1>6. /\ above' \in [Parents -> Checker] /\ above'[p] = a
      /\ \A q \in Parents : q # p => above'[q] = above[q]
      /\ below' \in [{1} -> Checker] /\ below'[1].state = "Running" /\ Pending(below'[1])
  BY <1>1, <1>3, <1>4, <1>5, SharedTypes DEF Pending, Sh!B
<1>7. ~Sh!Contains(v2, p) /\ ~Sh!Contains(v3, p) /\ v3 = <<>>
  <2>1. v2 # <<>> => v3 = <<>>
    BY SharedTypes
  <2>2. v2 = <<>> => v3 = <<>>
    BY <1>1 DEF Sh!Inv, Sh!WhoWaits
  <2> QED BY <1>1, <2>1, <2>2, SharedTypes, SharedChecker DEF Sh!Parent, Pending
<1>8. /\ v2' \in Seq(Parents) /\ v2' # <<>>
      /\ \A q : Sh!Contains(v2', q) <=> Sh!Contains(v2, q) \/ q = p
      /\ \A i, j \in 1..Len(v2') : v2'[i] = v2'[j] => i = j
  <2>1. /\ Append(v2, p) \in Seq(Parents)
        /\ Len(v2) \in Nat /\ Len(Append(v2, p)) = Len(v2) + 1
        /\ Append(v2, p)[Len(v2) + 1] = p
        /\ \A i \in 1..Len(v2) : Append(v2, p)[i] = v2[i]
        /\ \A y : P!Contains(Append(v2, p), y) <=> P!Contains(v2, y) \/ y = p
    BY SharedTypes, P!Appended
  <2>2. \A i \in 1..Len(v2) : v2[i] # p
    BY <1>7 DEF Sh!Contains
  <2>3. \A i, j \in 1..Len(v2) : v2[i] = v2[j] => i = j
    BY DEF Sh!Inv, Sh!ListsSound
  <2>4. ASSUME NEW i \in 1..Len(v2'), NEW j \in 1..Len(v2'), v2'[i] = v2'[j] PROVE i = j
    <3>1. i \in 1..Len(v2) \/ i = Len(v2) + 1
      BY <1>3, <2>1
    <3>2. j \in 1..Len(v2) \/ j = Len(v2) + 1
      BY <1>3, <2>1
    <3> QED BY <1>3, <2>1, <2>2, <2>3, <2>4, <3>1, <3>2
  <2>5. v2' # <<>>
    BY <1>3, <2>1
  <2> QED BY <1>3, <2>1, <2>4, <2>5, SharedLists
<1>9. /\ calls' \in Seq([fn : {"await_suspend", "await_cancel", "invoke"}, to : Parents \cup {1}])
      /\ \A i \in 1..Len(calls') :
            calls'[i].fn # "await_cancel" \/ \E j \in 1..Len(calls) : calls'[i] = calls[j]
  <2> DEFINE S == [fn : {"await_suspend", "await_cancel", "invoke"}, to : Parents \cup {1}]
  <2>1. calls \in Seq(S) /\ pushed \in S
    BY DEF Sh!Inv, Sh!ListsSound
  <2>2. pushed.fn # "await_cancel"
    OBVIOUS
  <2> HIDE DEF S, pushed
  <2>3. /\ <<pushed>> \o calls \in Seq(S)
        /\ \A i \in 1..Len(<<pushed>> \o calls) :
              \/ (<<pushed>> \o calls)[i] = pushed
              \/ \E j \in 1..Len(calls) : (<<pushed>> \o calls)[i] = calls[j]
    BY <2>1, Pushed
  <2>4. calls' = calls \/ calls' = <<pushed>> \o calls
    BY <1>3
  <2>5. calls' \in Seq(S)
    BY <2>1, <2>3, <2>4
  <2>6. ASSUME NEW i \in 1..Len(calls')
        PROVE  calls'[i].fn # "await_cancel" \/ \E j \in 1..Len(calls) : calls'[i] = calls[j]
    BY <2>2, <2>3, <2>4
  <2> QED BY <2>5, <2>6 DEF S
<1> HIDE DEF pushed
<1>10. Sh!ListsSound'
  BY <1>3, <1>6, <1>8, <1>9, SharedChecker DEF Sh!Inv, Sh!ListsSound
<1>11. Sh!OneOperation'
  BY <1>1, <1>3, <1>6, <1>8, SharedChecker DEF Sh!Inv, Sh!OneOperation, Sh!B
<1>12. ASSUME NEW q \in Parents PROVE Sh!Parent(q)'
  <2>1. Sh!Parent(q)
    BY SharedTypes
  <2>2. CASE q = p
    BY <1>3, <1>4, <1>6, <1>8, <2>2, SharedChecker DEF Sh!Parent, Sh!B
  <2>3. CASE q # p
    <3>1. above'[q] = above[q] /\ (Sh!Contains(v2', q) <=> Sh!Contains(v2, q)) /\ v3' = v3
      BY <1>3, <1>6, <1>8, <2>3
    <3>2. v2 = <<>> => ~Sh!Contains(v2, q)
      BY EmptySeq DEF Sh!Contains
    <3>3. v3 = <<>> /\ ~Sh!Contains(v3, q)
      BY <1>7, EmptySeq DEF Sh!Contains
    <3>4. above[q].state \notin {"Cancelling", "Ready", "ReadyAfterCancel"}
      BY <1>1, <2>1, <3>2, <3>3, SharedChecker DEF Sh!Parent, Pending
    <3> QED BY <2>1, <3>1, <3>4, SharedChecker DEF Sh!Parent
  <2> QED BY <2>2, <2>3
<1>13. Sh!WhoWaits'
  BY <1>3, <1>6, <1>7, <1>12, SharedChecker DEF Sh!WhoWaits, Sh!B
<1>14. Sh!CancelUnderWay'
  BY <1>1, <1>6, <1>9, SharedCallsThen
<1> QED BY <1>10, <1>11, <1>13, <1>14 DEF Sh!Inv

\* invoke() takes the list of those who wait.
LEMMA SharedInvoke ==
    ASSUME Sh!Inv, Pending(Sh!B), below' \in [{1} -> Checker],
           below'[1].state \in {"Ready", "Cancelled", "Done"},
           v1' \in {"Incomplete", "Cancelled", "Exception"},
           v1' = "Incomplete" => below'[1].state = "Ready",
           \/ Sh!Invoke(v1', calls)
           \/ calls # <<>> /\ Sh!Invoke(v1', Tail(calls)),
           UNCHANGED <<above, over, v4, v5>>
    PROVE  Sh!Inv'
<1> DEFINE S == [fn : {"await_suspend", "await_cancel", "invoke"}, to : Parents \cup {1}]
           pushed == [fn |-> "invoke", to |-> 1]
<1>1. PICK rest : /\ v3' = v2 /\ v2' = <<>> /\ calls' = <<pushed>> \o rest
                  /\ rest = calls \/ (calls # <<>> /\ rest = Tail(calls))
                  /\ UNCHANGED <<above, over, v4, v5>>
  BY DEF Sh!Invoke
<1>2. /\ ~Pending(below'[1])
      /\ v2 # <<>> /\ v3 = <<>>
      /\ \A S1 : <<>> \in Seq(S1) /\ Len(<<>>) = 0
  BY SharedTypes, EmptySeq DEF Pending
<1>3. /\ calls' \in Seq(S)
      /\ \A i \in 1..Len(calls') :
            calls'[i].fn # "await_cancel" \/ \E j \in 1..Len(calls) : calls'[i] = calls[j]
  <2>1. calls \in Seq(S) /\ pushed \in S /\ pushed.fn # "await_cancel"
    BY DEF Sh!Inv, Sh!ListsSound
  <2> HIDE DEF S, pushed
  <2>2. rest \in Seq(S) /\ \A i \in 1..Len(rest) : \E j \in 1..Len(calls) : rest[i] = calls[j]
    <3>1. CASE rest = calls
      BY <2>1, <3>1
    <3>2. CASE rest # calls
      <4>1. calls # <<>> /\ rest = Tail(calls)
        BY <1>1, <3>2
      <4>2. /\ Tail(calls) \in Seq(S)
            /\ \A i \in 1..Len(Tail(calls)) : \E j \in 1..Len(calls) : Tail(calls)[i] = calls[j]
        BY <2>1, <4>1, Returned
      <4> QED BY <4>1, <4>2
    <3> QED BY <3>1, <3>2
  <2>3. /\ <<pushed>> \o rest \in Seq(S)
        /\ \A i \in 1..Len(<<pushed>> \o rest) :
              \/ (<<pushed>> \o rest)[i] = pushed
              \/ \E j \in 1..Len(rest) : (<<pushed>> \o rest)[i] = rest[j]
    BY <2>1, <2>2, Pushed
  <2>4. calls' \in Seq(S)
    BY <1>1, <2>3
  <2>5. ASSUME NEW i \in 1..Len(calls')
        PROVE  calls'[i].fn # "await_cancel" \/ \E j \in 1..Len(calls) : calls'[i] = calls[j]
    BY <1>1, <2>1, <2>2, <2>3
  <2> QED BY <2>4, <2>5
<1> HIDE DEF pushed
<1>4. Sh!ListsSound'
  BY <1>1, <1>2, <1>3, SharedChecker DEF Sh!Inv, Sh!ListsSound
<1>5. Sh!OneOperation'
  <2>1. v1 \in {"Incomplete", "Cancelling"}
    BY SharedChecker DEF Sh!Inv, Sh!OneOperation, Pending
  <2>2. v5 \subseteq {"unavailable"}
    BY <2>1 DEF Sh!Inv, Sh!OneOperation, Sh!Results
  <2> QED BY <1>1, <1>2, <2>2, SharedChecker DEF Sh!OneOperation, Sh!B, Sh!Results
<1>6. ASSUME NEW q \in Parents PROVE Sh!Parent(q)'
  <2>1. Sh!Parent(q)
    BY SharedTypes
  <2>2. ~Sh!Contains(v3, q) /\ ~Sh!Contains(<<>>, q)
    BY <1>2 DEF Sh!Contains
  <2>3. Pending(above[q]) <=> Sh!Contains(v2', q) \/ Sh!Contains(v3', q)
    BY <1>1, <2>1, <2>2, SharedChecker DEF Sh!Parent
  <2> QED BY <1>1, <1>2, <2>1, <2>3, SharedChecker DEF Sh!Parent, Sh!B
<1>7. Sh!WhoWaits'
  BY <1>1, <1>2, <1>6, SharedChecker DEF Sh!WhoWaits, Sh!B
<1>8. Sh!CancelUnderWay'
  BY <1>2, <1>3, SharedCallsThen
<1> QED BY <1>4, <1>5, <1>7, <1>8 DEF Sh!Inv

LEMMA SharedChildResumes ==
    ASSUME Sh!Inv, Sh!ChildResumes
    PROVE  Sh!Inv'
<1> DEFINE b == Resumed(Sh!B)
<1>1. /\ Sh!B \in Checker /\ Pending(Sh!B) /\ UNCHANGED <<above, over, v4, v5>>
      /\ below \in [{1} -> Checker]
  BY SharedTypes, SharedChecker DEF Sh!ChildResumes
<1>2. /\ b \in Checker
      /\ v1 = "Cancelling" <=> Sh!B.state = "Cancelling"
      /\ Sh!B.state = "Cancelling" => b.state = "ReadyAfterCancel"
      /\ Sh!B.state = "Running" => b.state = "Ready" /\ v1 = "Incomplete"
      /\ Sh!B.state \in {"Running", "Cancelling"}
  BY <1>1, ResumeMoves DEF Goes, Sh!Inv, Sh!OneOperation, Pending
<1>3. CASE v1 = "Cancelling"
  <2>1. PICK val \in BOOLEAN : /\ below' = [below EXCEPT ![1] = MustResumeReturned(b, val)]
                               /\ Sh!Invoke(IF val THEN "Incomplete" ELSE "Cancelled", calls)
    BY <1>3, SharedChecker DEF Sh!ChildResumes, Sh!Below
  <2>2. v1' = IF val THEN "Incomplete" ELSE "Cancelled"
    BY <2>1 DEF Sh!Invoke
  <2>3. /\ MustResumeReturned(b, val) \in Checker
        /\ MustResumeReturned(b, val).state = IF val THEN "Ready" ELSE "Cancelled"
    BY <1>2, <1>3, MustResumeMoves DEF Goes
  <2> HIDE DEF b
  <2>4. Sh!Invoke(v1', calls)
    BY <2>1, <2>2
  <2>5. below' \in [{1} -> Checker] /\ below'[1].state = IF val THEN "Ready" ELSE "Cancelled"
    BY <1>1, <2>1, <2>3
  <2> QED BY <1>1, <2>2, <2>4, <2>5, SharedInvoke
<1>4. CASE v1 # "Cancelling"
  <2>1. below' = [below EXCEPT ![1] = b] /\ Sh!Invoke(v1, calls) /\ v1 = "Incomplete"
    BY <1>2, <1>4, SharedChecker DEF Sh!ChildResumes, Sh!Below
  <2> HIDE DEF b
  <2>2. v1' = v1
    BY <2>1 DEF Sh!Invoke
  <2>3. below' \in [{1} -> Checker] /\ below'[1].state = "Ready"
    BY <1>1, <1>2, <1>4, <2>1
  <2> QED BY <1>1, <2>1, <2>2, <2>3, SharedInvoke
<1> QED BY <1>3, <1>4

LEMMA SharedSuspendThrows ==
    ASSUME Sh!Inv, Sh!SuspendThrows
    PROVE  Sh!Inv'
<1> DEFINE b == SuspendThrew(Sh!B)
<1>1. /\ Sh!B \in Checker /\ Pending(Sh!B) /\ UNCHANGED <<above, over, v4, v5>>
      /\ calls # <<>> /\ below' = [below EXCEPT ![1] = b] /\ Sh!Invoke("Exception", Tail(calls))
      /\ below \in [{1} -> Checker]
  BY SharedTypes, SharedChecker DEF Sh!SuspendThrows, Sh!InCall, Sh!Below
<1>2. b \in Checker /\ b.state = "Done"
  BY <1>1, SuspendMoves DEF Goes, Pending
<1> HIDE DEF b
<1>3. below' \in [{1} -> Checker] /\ below'[1].state = "Done"
  BY <1>1, <1>2
<1>4. v1' = "Exception" /\ Sh!Invoke(v1', Tail(calls))
  BY <1>1 DEF Sh!Invoke
<1> QED BY <1>1, <1>3, <1>4, SharedInvoke

LEMMA SharedWake ==
    ASSUME Sh!Inv, Sh!Wake
    PROVE  Sh!Inv'
<1> DEFINE p == Head(v3)
           c == Resumed(above[p])
<1>1. /\ v3 # <<>> /\ v3' = Tail(v3) /\ above' = [above EXCEPT ![p] = c]
      /\ UNCHANGED <<below, calls, over, v1, v2, v4, v5>>
  BY SharedChecker DEF Sh!Wake
<1>2. v3 \in Seq(Parents) /\ v2 \in Seq(Parents) /\ v2 = <<>>
  BY <1>1, SharedTypes
<1>3. /\ Tail(v3) \in Seq(Parents) /\ p = v3[1] /\ 1 \in 1..Len(v3)
      /\ Len(v3) \in Nat /\ Len(Tail(v3)) = Len(v3) - 1
      /\ \A i \in 1..Len(Tail(v3)) : i + 1 \in 1..Len(v3) /\ Tail(v3)[i] = v3[i + 1]
      /\ \A y : Sh!Contains(v3, y) <=> Sh!Contains(Tail(v3), y) \/ y = p
  BY <1>1, <1>2, P!Popped, SharedLists
<1>4. p \in Parents /\ Sh!Contains(v3, p)
  BY <1>2, <1>3, ElementOfSeq
<1>5. \A i, j \in 1..Len(v3) : v3[i] = v3[j] => i = j
  BY DEF Sh!Inv, Sh!ListsSound
<1>6. ~Sh!Contains(Tail(v3), p)
  <2>1. \A i \in 1..Len(Tail(v3)) : i + 1 # 1
    BY <1>3
  <2> QED BY <1>3, <1>5, <2>1 DEF Sh!Contains
<1>7. \A i, j \in 1..Len(Tail(v3)) : Tail(v3)[i] = Tail(v3)[j] => i = j
  <2> SUFFICES ASSUME NEW i \in 1..Len(Tail(v3)), NEW j \in 1..Len(Tail(v3)),
                      Tail(v3)[i] = Tail(v3)[j]
               PROVE  i = j
    OBVIOUS
  <2>1. i + 1 = j + 1
    BY <1>3, <1>5
  <2> QED BY <2>1
<1>8. Pending(above[p]) /\ above[p] \in Checker /\ above \in [Parents -> Checker]
  BY <1>4, SharedTypes, SharedChecker DEF Sh!Parent
<1>9. c \in Checker /\ c.state \in {"Ready", "ReadyAfterCancel"} /\ ~Pending(c)
  BY <1>8, ResumeMoves DEF Goes, Pending
<1> HIDE DEF c
<1>10. /\ above' \in [Parents -> Checker] /\ above'[p] = c
       /\ \A q \in Parents : q # p => above'[q] = above[q]
  BY <1>1, <1>4, <1>8, <1>9
<1> HIDE DEF p
<1>11. Sh!ListsSound'
  BY <1>1, <1>3, <1>7, <1>10, SharedChecker DEF Sh!Inv, Sh!ListsSound
<1>12. Sh!OneOperation'
  BY <1>1 DEF Sh!Inv, Sh!OneOperation, Sh!B
<1>13. Sh!B.state # "Initial" /\ ~Pending(Sh!B) /\ UNCHANGED Sh!B
  BY <1>1, SharedChecker DEF Sh!Inv, Sh!WhoWaits, Sh!B
<1>14. ASSUME NEW q \in Parents PROVE Sh!Parent(q)'
  <2>1. Sh!Parent(q) /\ ~Sh!Contains(v2, q)
    BY <1>2, SharedTypes, EmptySeq DEF Sh!Contains
  <2>2. CASE q = p
    BY <1>1, <1>6, <1>9, <1>10, <1>13, <2>1, <2>2, SharedChecker DEF Sh!Parent, Pending
  <2>3. CASE q # p
    BY <1>1, <1>3, <1>10, <1>13, <2>1, <2>3, SharedChecker DEF Sh!Parent
  <2> QED BY <2>2, <2>3
<1>15. Sh!WhoWaits'
  BY <1>1, <1>13, <1>14, SharedChecker DEF Sh!WhoWaits, Pending
<1>16. Sh!CancelUnderWay'
  BY <1>1 DEF Sh!Inv, Sh!CancelUnderWay, Sh!B
<1> QED BY <1>11, <1>12, <1>15, <1>16 DEF Sh!Inv

LEMMA SharedReturns ==
    ASSUME Sh!Inv, Sh!Returns
    PROVE  Sh!Inv'
<1> DEFINE S == [fn : {"await_suspend", "await_cancel", "invoke"}, to : Parents \cup {1}]
<1>1. /\ calls \in Seq(S) /\ calls # <<>> /\ calls' = Tail(calls)
      /\ UNCHANGED <<above, below, over, v1, v2, v3, v4, v5>>
  BY DEF Sh!Inv, Sh!ListsSound, Sh!Returns
<1> HIDE DEF S
<1>2. calls' \in Seq(S) /\ \A i \in 1..Len(calls') : \E j \in 1..Len(calls) : calls'[i] = calls[j]
  BY <1>1, Returned
<1>3. Sh!ListsSound'
  BY <1>1, <1>2 DEF Sh!Inv, Sh!ListsSound, S
<1>4. Sh!OneOperation' /\ Sh!WhoWaits'
  BY <1>1 DEF Sh!Inv, Sh!OneOperation, Sh!WhoWaits, Sh!Parent, Sh!B
<1>5. Sh!CancelUnderWay'
  BY <1>1, <1>2, SharedCallsThen DEF Sh!B
<1> QED BY <1>3, <1>4, <1>5 DEF Sh!Inv

LEMMA SharedUnlinked ==
    ASSUME NEW S, NEW s \in Seq(S), NEW x, \A i, j \in 1..Len(s) : s[i] = s[j] => i = j
    PROVE  /\ Sh!Unlink(s, x) \in Seq(S)
           /\ \A y : Sh!Contains(Sh!Unlink(s, x), y) <=> Sh!Contains(s, y) /\ y # x
           /\ \A i, j \in 1..Len(Sh!Unlink(s, x)) :
                Sh!Unlink(s, x)[i] = Sh!Unlink(s, x)[j] => i = j
           /\ Len(Sh!Unlink(s, x)) = IF Sh!Contains(s, x) THEN Len(s) - 1 ELSE Len(s)
<1>1. CASE Sh!Contains(s, x)
  <2>1. P!Contains(s, x)
    BY <1>1, SharedLists
  <2>2. /\ Len(P!Unlink(s, x)) = Len(s) - 1
        /\ P!Unlink(s, x) \in Seq(S)
    BY <2>1, P!UnlinkItems, P!UnlinkType
  <2>3. /\ \A y : P!Contains(P!Unlink(s, x), y) <=> P!Contains(s, y) /\ y # x
        /\ \A i, j \in 1..Len(P!Unlink(s, x)) :
                P!Unlink(s, x)[i] = P!Unlink(s, x)[j] => i = j
    BY <2>1, P!UnlinkDistinct
  <2> QED BY <1>1, <2>2, <2>3, SharedLists
<1>2. CASE ~Sh!Contains(s, x)
  BY <1>2, SharedNotLinked
<1> QED BY <1>1, <1>2

LEMMA SharedCancelLast ==
    ASSUME Sh!Inv, NEW p \in Parents, Sh!CancelLast(p)
    PROVE  Sh!Inv'
<1> DEFINE c == AboutToCancel(above[p])
           b == AboutToCancel(Sh!B)
           S == [fn : {"await_suspend", "await_cancel", "invoke"}, to : Parents \cup {1}]
           pushed == [fn |-> "await_cancel", to |-> p]
<1>1. /\ above[p] \in Checker /\ Sh!B \in Checker
      /\ above \in [Parents -> Checker] /\ below \in [{1} -> Checker]
      /\ v2 \in Seq(Parents) /\ Len(v2) = 1
  BY SharedTypes DEF Sh!CancelLast, Sh!CancelsOperation
<1>2. v2[1] = Head(v2) /\ v2 = <<v2[1]>>
  BY <1>1
<1>3. p = Head(v2)
  <2>1. ASSUME p # Head(v2) PROVE FALSE
    <3>1. Legal(Step(above[p], <<>>))
      BY <2>1, SharedChecker DEF Sh!CancelLast, Sh!Calls
    <3>2. DOMAIN <<>> = {}
      OBVIOUS
    <3>3. Step(above[p], <<>>).state = "Broken"
      BY <1>1, <3>2, StepMoves
    <3> QED BY <3>1, <3>3 DEF Legal
  <2> QED BY <2>1
<1>4. /\ Legal(c) /\ above' = [above EXCEPT ![p] = c]
      /\ below' = [below EXCEPT ![1] = b]
      /\ v1' = "Cancelling" /\ calls' = <<pushed>> \o calls
      /\ UNCHANGED <<over, v2, v3, v4, v5>>
  BY <1>3, SharedChecker DEF Sh!CancelLast, Sh!Calls, Sh!Below, Sh!Calling
<1>5. c \in Checker /\ c.state = "Cancelling" /\ above[p].state = "Running"
  BY <1>1, <1>4, CancelMoves DEF Goes, Legal
<1>6. Sh!B.state = "Running" /\ Pending(Sh!B) /\ v2 # <<>>
  <2>1. v2 # <<>>
    <3>1. Len(<<>>) = 0
      OBVIOUS
    <3>2. Len(v2) # 0
      <4>1. Len(v2) = 1
        BY <1>1
      <4> QED BY <4>1
    <3> QED BY <3>1, <3>2
  <2>2. Sh!B.state # "Cancelling"
    BY <1>3, <1>5 DEF Sh!Inv, Sh!WhoWaits
  <2> QED BY <2>1, <2>2, SharedTypes DEF Pending
<1>7. b \in Checker /\ b.state = "Cancelling"
  BY <1>1, <1>6, CancelMoves DEF Goes
<1> HIDE DEF c, b
<1>8. /\ above' \in [Parents -> Checker] /\ above'[p] = c
      /\ \A q \in Parents : q # p => above'[q] = above[q]
      /\ below' \in [{1} -> Checker] /\ below'[1] = b
      /\ Pending(b) /\ Pending(c) /\ Pending(above[p])
  BY <1>1, <1>4, <1>5, <1>7 DEF Pending
<1>9. calls \in Seq(S) /\ pushed \in S
  BY DEF Sh!Inv, Sh!ListsSound
<1> HIDE DEF S, pushed
<1>10. /\ calls' \in Seq(S)
       /\ \A i \in 1..Len(calls') :
              calls'[i] = pushed \/ \E j \in 1..Len(calls) : calls'[i] = calls[j]
  BY <1>4, <1>9, Pushed
<1>11. Sh!ListsSound'
  BY <1>4, <1>8, <1>10, SharedChecker DEF Sh!Inv, Sh!ListsSound, S
<1>12. Sh!OneOperation'
  <2>1. v1 \notin Sh!Results
    BY <1>6 DEF Sh!Inv, Sh!OneOperation, Sh!Results
  <2> QED BY <1>4, <1>6, <1>7, <1>8, <2>1, SharedChecker
          DEF Sh!Inv, Sh!OneOperation, Sh!B, Sh!Results
<1>13. ASSUME NEW q \in Parents PROVE Sh!Parent(q)'
  <2>1. Sh!Parent(q)
    BY SharedTypes
  <2>2. above[q].state \notin {"Ready", "ReadyAfterCancel"}
    BY <1>6, <2>1, SharedChecker DEF Sh!Parent
  <2>3. CASE q = p
    BY <1>4, <1>5, <1>7, <1>8, <2>1, <2>3, SharedChecker DEF Sh!Parent, Sh!B
  <2>4. CASE q # p
    BY <1>4, <1>7, <1>8, <2>1, <2>2, <2>4, SharedChecker DEF Sh!Parent, Sh!B
  <2> QED BY <2>3, <2>4
<1>14. Sh!WhoWaits'
  <2>1. v3 = <<>>
    BY <1>6, SharedTypes
  <2> QED BY <1>1, <1>3, <1>4, <1>5, <1>8, <1>13, <2>1 DEF Sh!WhoWaits, Sh!B
<1>15. Sh!CancelUnderWay'
  <2>1. ASSUME NEW i \in 1..Len(calls'), calls'[i].fn = "await_cancel" PROVE calls'[i] = pushed
    BY <1>6, <1>10, <2>1 DEF Sh!Inv, Sh!CancelUnderWay
  <2>2. pushed.to = p
    BY DEF pushed
  <2> QED BY <1>2, <1>3, <1>4, <1>7, <1>8, <2>1, <2>2 DEF Sh!CancelUnderWay, Sh!B
<1> QED BY <1>11, <1>12, <1>14, <1>15 DEF Sh!Inv

\* A parent of several is dropped.
LEMMA SharedDrop ==
    ASSUME Sh!Inv, NEW p \in Parents, Sh!Drop(p)
    PROVE  Sh!Inv'
<1> DEFINE d == AboutToCancel(above[p])
           c == CancelReturned(d, TRUE)
<1>1. /\ above[p] \in Checker /\ above \in [Parents -> Checker]
      /\ Legal(c) /\ above' = [above EXCEPT ![p] = c]
      /\ v2' = Sh!Unlink(v2, p) /\ v3' = Sh!Unlink(v3, p) /\ Len(v2) # 1
      /\ v4' = [v4 EXCEPT ![p] = FALSE]
      /\ UNCHANGED <<below, calls, over, v1, v5>>
  BY SharedTypes, SharedChecker DEF Sh!Drop, Sh!Calls, Sh!CancelsOperation
<1>2. d \in Checker /\ d.state = IF above[p].state = "Running" THEN "Cancelling" ELSE "Broken"
  BY <1>1, CancelMoves DEF Goes
<1> HIDE DEF d
<1>3. c \in Checker /\ c.state = "Cancelled" /\ above[p].state = "Running"
  BY <1>1, <1>2, CancelMoves DEF Goes, Legal
<1> HIDE DEF c
<1>4. /\ above' \in [Parents -> Checker] /\ above'[p] = c /\ ~Pending(c) /\ Pending(above[p])
      /\ \A q \in Parents : q # p => above'[q] = above[q]
  BY <1>1, <1>3 DEF Pending
<1>5. /\ v2' \in Seq(Parents) /\ v3' \in Seq(Parents)
      /\ \A y : Sh!Contains(v2', y) <=> Sh!Contains(v2, y) /\ y # p
      /\ \A y : Sh!Contains(v3', y) <=> Sh!Contains(v3, y) /\ y # p
      /\ \A i, j \in 1..Len(v2') : v2'[i] = v2'[j] => i = j
      /\ \A i, j \in 1..Len(v3') : v3'[i] = v3'[j] => i = j
      /\ Len(v2') = IF Sh!Contains(v2, p) THEN Len(v2) - 1 ELSE Len(v2)
  BY <1>1, SharedTypes, SharedUnlinked DEF Sh!Inv, Sh!ListsSound
<1>6. v2' = <<>> <=> v2 = <<>>
  <2>1. /\ Len(v2) \in Nat /\ Len(v2') \in Nat
        /\ v2 = <<>> <=> Len(v2) = 0
        /\ v2' = <<>> <=> Len(v2') = 0
    BY <1>5, SharedTypes, LenProperties, EmptySeq
  <2>2. Sh!Contains(v2, p) => Len(v2) # 0
    BY DEF Sh!Contains
  <2> QED BY <1>1, <1>5, <2>1, <2>2
<1>7. v3' # <<>> => v3 # <<>>
  <2>1. Sh!Unlink(<<>>, p) = <<>>
    BY EmptySeq, SharedNotLinked DEF Sh!Contains
  <2> QED BY <1>1, <2>1
<1>8. Sh!B.state # "Cancelling" /\ UNCHANGED Sh!B
  BY <1>1 DEF Sh!Inv, Sh!WhoWaits, Sh!B
<1>9. Sh!ListsSound'
  BY <1>1, <1>4, <1>5, SharedTypes, SharedChecker DEF Sh!Inv, Sh!ListsSound
<1>10. Sh!OneOperation'
  BY <1>1, <1>6, <1>8 DEF Sh!Inv, Sh!OneOperation
<1>11. ASSUME NEW q \in Parents PROVE Sh!Parent(q)'
  <2>1. Sh!Parent(q)
    BY SharedTypes
  <2>2. CASE q = p
    BY <1>3, <1>4, <1>5, <1>8, <2>2, SharedChecker DEF Sh!Parent
  <2>3. CASE q # p
    BY <1>4, <1>5, <1>8, <2>1, <2>3, SharedChecker DEF Sh!Parent
  <2> QED BY <2>2, <2>3
<1>12. Sh!WhoWaits'
  BY <1>7, <1>8, <1>11, SharedChecker DEF Sh!Inv, Sh!WhoWaits, Pending
<1>13. Sh!CancelUnderWay'
  BY <1>1, <1>8 DEF Sh!Inv, Sh!CancelUnderWay
<1> QED BY <1>9, <1>10, <1>12, <1>13 DEF Sh!Inv

LEMMA SharedCancelReturnsTrue ==
    ASSUME Sh!Inv, Sh!CancelReturnsTrue
    PROVE  Sh!Inv'
<1> DEFINE p == Head(calls).to
           c == CancelReturned(above[p], TRUE)
           b == CancelReturned(Sh!B, TRUE)
           S == [fn : {"await_suspend", "await_cancel", "invoke"}, to : Parents \cup {1}]
<1>1. /\ calls \in Seq(S) /\ calls # <<>> /\ Head(calls).fn = "await_cancel"
      /\ Sh!B.state = "Cancelling" /\ Sh!B \in Checker /\ below \in [{1} -> Checker]
      /\ above \in [Parents -> Checker] /\ v2 \in Seq(Parents) /\ v3 = <<>>
  BY SharedTypes DEF Sh!Inv, Sh!ListsSound, Sh!CancelReturnsTrue, Sh!InCall, Pending
<1> HIDE DEF S
<1>2. /\ calls[1] = Head(calls) /\ 1 \in 1..Len(calls) /\ Tail(calls) \in Seq(S)
      /\ \A i \in 1..Len(Tail(calls)) : \E j \in 1..Len(calls) : Tail(calls)[i] = calls[j]
  BY <1>1, Returned
<1>3. v2 = <<p>>
  BY <1>1, <1>2 DEF Sh!Inv, Sh!CancelUnderWay
<1>4. p \in Parents /\ above[p].state = "Cancelling" /\ above[p] \in Checker
  <2>1. p \in Parents
    BY <1>1, <1>3, ElementOfSeq
  <2> QED BY <1>1, <1>3, <2>1 DEF Sh!Inv, Sh!WhoWaits
<1>5. /\ above' = [above EXCEPT ![p] = c] /\ below' = [below EXCEPT ![1] = b]
      /\ v1' = "Cancelled" /\ v2' = Sh!Unlink(v2, p) /\ v4' = [v4 EXCEPT ![p] = FALSE]
      /\ calls' = Tail(calls)
      /\ UNCHANGED <<over, v3, v5>>
  BY SharedChecker DEF Sh!CancelReturnsTrue, Sh!Below, Sh!Callee
<1>6. c \in Checker /\ c.state = "Cancelled" /\ b \in Checker /\ b.state = "Cancelled"
  BY <1>1, <1>4, CancelMoves DEF Goes
<1> HIDE DEF c, b
<1>7. /\ above' \in [Parents -> Checker] /\ above'[p] = c /\ ~Pending(c) /\ Pending(above[p])
      /\ \A q \in Parents : q # p => above'[q] = above[q]
      /\ below' \in [{1} -> Checker] /\ below'[1] = b /\ ~Pending(b)
  BY <1>1, <1>4, <1>5, <1>6 DEF Pending
<1> HIDE DEF p
<1>8. v2' = <<>> /\ \A q : ~Sh!Contains(v2', q) /\ (Sh!Contains(v2, q) <=> q = p)
  <2>1. Sh!Contains(v2, p) /\ Len(v2) = 1 /\ v2[1] = p /\ \A i, j \in 1..Len(v2) : v2[i] = v2[j] => i = j
    BY <1>3 DEF Sh!Contains
  <2>2. v2' \in Seq(Parents) /\ Len(v2') = 0
    <3>1. /\ Sh!Unlink(v2, p) \in Seq(Parents)
          /\ Len(Sh!Unlink(v2, p)) = IF Sh!Contains(v2, p) THEN Len(v2) - 1 ELSE Len(v2)
      BY <1>1, <2>1, SharedUnlinked
    <3> QED BY <1>5, <2>1, <3>1
  <2>3. v2' = <<>>
    BY <2>2, EmptySeq
  <2>4. \A q : Sh!Contains(v2, q) <=> q = p
    BY <2>1 DEF Sh!Contains
  <2> QED BY <2>2, <2>3, <2>4 DEF Sh!Contains
<1>9. Sh!ListsSound'
  <2>1. <<>> \in Seq(Parents) /\ Len(<<>>) = 0 /\ v4' \in [Parents -> BOOLEAN]
    BY <1>4, <1>5, SharedTypes, EmptySeq
  <2>2. /\ \A i, j \in 1..Len(<<>>) : <<>>[i] = <<>>[j] => i = j
        /\ v3' = <<>> /\ v2' = <<>> /\ over' = over
    BY <1>1, <1>5, <1>8, <2>1
  <2>3. Sh!ListsSound
    BY DEF Sh!Inv
  <2>4. over' = "no" /\ calls' \in Seq(S)
    BY <1>2, <1>5, <2>3 DEF Sh!ListsSound
  <2> QED BY <1>7, <2>1, <2>2, <2>4, SharedChecker DEF Sh!ListsSound, S
<1>10. Sh!OneOperation'
  <2>1. v1 \notin Sh!Results
    BY <1>1 DEF Sh!Inv, Sh!OneOperation, Sh!Results
  <2> QED BY <1>5, <1>6, <1>7, <1>8, <2>1, SharedChecker
          DEF Sh!Inv, Sh!OneOperation, Sh!B, Sh!Results
<1>11. ASSUME NEW q \in Parents PROVE Sh!Parent(q)'
  <2>1. Sh!Parent(q)
    BY SharedTypes
  <2>2. CASE q = p
    BY <1>1, <1>5, <1>6, <1>7, <1>8, <2>1, <2>2, EmptySeq, SharedChecker
       DEF Sh!Parent, Sh!B, Sh!Contains
  <2>3. CASE q # p
    BY <1>5, <1>6, <1>7, <1>8, <2>1, <2>3, SharedChecker DEF Sh!Parent, Sh!B
  <2> QED BY <2>2, <2>3
<1>12. Sh!WhoWaits'
  BY <1>1, <1>5, <1>6, <1>7, <1>11 DEF Sh!WhoWaits, Sh!B
<1>13. Sh!CancelUnderWay'
  BY <1>2, <1>5, <1>6, <1>7, SharedCallsThen
<1> QED BY <1>9, <1>10, <1>12, <1>13 DEF Sh!Inv

LEMMA SharedKeeps ==
    ASSUME Liberties = {}, Sh!Inv, Sh!Next
    PROVE  Sh!Inv'
<1>1. ASSUME NEW p \in Parents PROVE ~Sh!SetExecutorAhead(p)
  BY DEF Sh!SetExecutorAhead
<1> QED
  BY <1>1, SharedArriveReady, SharedArriveSuspend, SharedEarlyCancel, SharedCancelLast, SharedDrop,
     SharedMustResume, SharedResume, SharedDestroy, SharedChildResumes, SharedSuspendThrows,
     SharedWake, SharedReturns, SharedCancelReturnsTrue DEF Sh!Next

LEMMA SharedInvariant == ASSUME Liberties = {} PROVE Spec => [](class = "shared" => Sh!Inv)
<1>1. Init => (class = "shared" => Sh!Inv)
  BY SharedInit DEF Init
<1>2. (class = "shared" => Sh!Inv) /\ [Next]_vars => (class = "shared" => Sh!Inv)'
  <2>1. ASSUME class = "shared", Sh!Inv, Next PROVE Sh!Inv'
    BY <2>1, SharedKeeps DEF Next
  <2>2. ASSUME class = "shared", Sh!Inv, UNCHANGED vars PROVE Sh!Inv'
    BY <2>2 DEF vars, shared, Sh!Inv, Sh!ListsSound, Sh!OneOperation, Sh!WhoWaits, Sh!Parent,
       Sh!CancelUnderWay, Sh!B
  <2>3. [Next]_vars => class' = class
    BY DEF Next, vars, two, three, five, seven
  <2> QED BY <2>1, <2>2, <2>3
<1> QED BY <1>1, <1>2, PTL DEF Spec

(* All who await a Shared get one result, and none of them can cancel it   *)
(* while another one wants it (Shared.h), for any number of parents, if    *)
(* none of them and not the operation takes one of the liberties of Shared.*)
THEOREM OneResultForAll == ASSUME Liberties = {} PROVE Spec => []SharedAgreed
<1>1. (class = "shared" => Sh!Inv) => SharedAgreed
  <2> SUFFICES ASSUME Sh!Inv PROVE Sh!Agreed
    BY DEF SharedAgreed
  <2>1. ~(Sh!Results \subseteq v5)
    BY DEF Sh!Inv, Sh!OneOperation, Sh!Results
  <2>2. ASSUME Sh!B.state = "Cancelling"
        PROVE  \E p \in Parents : v2 = <<p>> /\ above[p].state = "Cancelling"
    <3>1. v2 \in Seq(Parents) /\ Len(v2) = 1 /\ above[Head(v2)].state = "Cancelling"
      BY <2>2, SharedTypes DEF Sh!Inv, Sh!WhoWaits
    <3>2. v2[1] = Head(v2) /\ v2 = <<v2[1]>>
      BY <3>1
    <3>3. v2[1] \in Parents
      BY <3>1, ElementOfSeq
    <3> QED BY <3>1, <3>2, <3>3
  <2> QED BY <2>1, <2>2 DEF Sh!Agreed
<1> QED BY <1>1, SharedInvariant, PTL

----------------------------------------------------------------------------
(* What all classes of the family have in common.                          *)

LEMMA SharedIsKept == Sh!Inv => Sh!TypeOK /\ Sh!ProtocolKept /\ Sh!NobodyForgotten
<1> SUFFICES ASSUME Sh!Inv PROVE Sh!TypeOK /\ Sh!ProtocolKept /\ Sh!NobodyForgotten
  OBVIOUS
<1>1. /\ above \in [Parents -> Checker] /\ below \in [{1} -> Checker] /\ over = "no"
      /\ v2 \in Seq(Parents) /\ v3 \in Seq(Parents) /\ v4 \in [Parents -> BOOLEAN]
      /\ \A i, j \in 1..Len(v2) : v2[i] = v2[j] => i = j
      /\ \A i, j \in 1..Len(v3) : v3[i] = v3[j] => i = j
  BY SharedChecker DEF Sh!Inv, Sh!ListsSound
<1>2. /\ Sh!B.state \in {"Initial", "Running", "Cancelling", "Ready", "Cancelled", "Done"}
      /\ Pending(Sh!B) <=> v2 # <<>>
      /\ v1 \in Sh!Results \cup {"Incomplete", "Cancelling", "Cancelled"}
      /\ v5 \subseteq {"unavailable"} \cup ({v1} \cap Sh!Results)
  BY SharedChecker DEF Sh!Inv, Sh!OneOperation
<1>3. v3 # <<>> => ~Pending(Sh!B)
  BY SharedChecker DEF Sh!Inv, Sh!WhoWaits
<1>4. ASSUME NEW p \in Parents
      PROVE  /\ above[p].state \in {"Initial", "Running", "Cancelling", "Ready",
                                    "ReadyAfterCancel", "Cancelled", "Done"}
             /\ Pending(above[p]) => Sh!Contains(v2, p) \/ Sh!Contains(v3, p)
  BY SharedChecker DEF Sh!Inv, Sh!WhoWaits, Sh!Parent
<1>5. Sh!IsInjective(v2 \o v3)
  <2>1. v2 = <<>> \/ v3 = <<>>
    BY <1>2, <1>3
  <2>2. CASE v2 = <<>>
    <3>1. v2 \o v3 = v3
      BY <2>2, <1>1, ConcatEmptySeq
    <3> QED BY <3>1, <1>1 DEF Sh!IsInjective
  <2>3. CASE v3 = <<>>
    <3>1. v2 \o v3 = v2
      BY <2>3, <1>1, ConcatEmptySeq
    <3> QED BY <3>1, <1>1 DEF Sh!IsInjective
  <2> QED BY <2>1, <2>2, <2>3
<1>6. Sh!ProtocolTypeOK
  BY <1>1, SharedChecker DEF Sh!ProtocolTypeOK
<1>7. Sh!ProtocolKept
  <2>1. \A p \in Parents : Legal(above[p])
    BY <1>4 DEF Legal
  <2>2. Legal(below[1])
    BY <1>2 DEF Legal, Sh!B
  <2> QED BY <2>1, <2>2, <1>1, SharedChecker DEF Sh!ProtocolKept
<1>8. Sh!NobodyForgotten
  <2>1. ASSUME NEW p \in Parents, Sh!Contains(v2, p) PROVE v2 # <<>>
    BY <2>1, <1>1 DEF Sh!Contains
  <2> QED BY <2>1, <1>2, <1>4, SharedChecker DEF Sh!NobodyForgotten
<1> QED BY <1>1, <1>2, <1>5, <1>6, <1>7, <1>8 DEF Sh!TypeOK

LEMMA AdaptersAreKept == Ad!Inv => Ad!TypeOK /\ Ad!ProtocolKept
<1> SUFFICES ASSUME Ad!Inv PROVE Ad!TypeOK /\ Ad!ProtocolKept
  OBVIOUS
<1>1. /\ above \in [{1} -> Checker] /\ below \in [{1} -> Checker]
      /\ Legal(above[1]) /\ Legal(below[1])
      /\ v1 \in Ad!Kinds /\ v2 \in BOOLEAN /\ over \in {"no", "destroyed", "terminated"}
  BY AdaptersChecker DEF Ad!Inv, Ad!A, Ad!B
<1>2. Ad!ProtocolTypeOK
  BY <1>1, AdaptersChecker DEF Ad!ProtocolTypeOK
<1>3. Ad!ProtocolKept
  BY <1>1, AdaptersChecker DEF Ad!ProtocolKept
<1> QED BY <1>1, <1>2, <1>3 DEF Ad!TypeOK

LEMMA TryIsKept == Tr!Inv => Tr!TypeOK /\ Tr!ProtocolKept
<1> SUFFICES ASSUME Tr!Inv PROVE Tr!TypeOK /\ Tr!ProtocolKept
  OBVIOUS
<1>1. /\ above \in [{1} -> Checker] /\ below \in [Tr!Stages -> Checker]
      /\ Legal(above[1]) /\ \A s \in Tr!Stages : Legal(below[s])
      /\ over \in {"no", "destroyed", "terminated"}
  BY TryChecker DEF Tr!Inv, Tr!A
<1>2. /\ v1 \in BOOLEAN /\ v2 \in BOOLEAN /\ v3 \in Tr!Stages /\ v4 \in BOOLEAN /\ v5 \in BOOLEAN
      /\ v6 \in Tr!Stages \cup {0}
      /\ v7 \in [Tr!Stages -> {"not", "value", "exception", "cancelled"}]
  BY DEF Tr!Inv
<1>3. v7 \in [Tr!Stages -> {"not", "value", "exception", "cancelled", "twice"}]
  BY <1>2
<1>4. Tr!ProtocolTypeOK
  BY <1>1, TryChecker DEF Tr!ProtocolTypeOK
<1>5. Tr!ProtocolKept
  BY <1>1, TryChecker DEF Tr!ProtocolKept
<1> QED BY <1>2, <1>3, <1>4, <1>5 DEF Tr!TypeOK

\* An event is one or a parking lot, and outlives those who wait for it.
EventStays == v1 \in {"Event", "ParkingLot"} /\ over = "no"

LEMMA EventRemains == Spec => [](class = "event" => EventStays)
<1>1. Init => (class = "event" => EventStays)
  BY DEF Init, Ev!Init, Ev!ProtocolInit, EventStays
<1>2. (class = "event" => EventStays) /\ [Next]_vars => (class = "event" => EventStays)'
  <2>1. ASSUME class = "event", Next PROVE v1' = v1 /\ over' = over
    <3>1. Ev!Next
      BY <2>1 DEF Next
    <3> QED BY <3>1 DEF Ev!Next, Ev!Ready, Ev!EarlyCancel, Ev!SetExecutor, Ev!Suspend, Ev!Cancel,
           Ev!Resume, Ev!Destroy, Ev!UnparkOne, Ev!UnparkAll, Ev!Wake, Ev!UnparkAllReturns, Ev!shared
  <2>2. [Next]_vars => class' = class
    BY DEF Next, vars, two, three, five, seven
  <2>3. UNCHANGED vars => v1' = v1 /\ over' = over
    BY DEF vars, shared
  <2> QED BY <2>1, <2>2, <2>3 DEF EventStays
<1> QED BY <1>1, <1>2, PTL DEF Spec

LEMMA EventIsTyped == EventInv /\ EventStays => Ev!TypeOK
<1> SUFFICES ASSUME EventInv, EventStays PROVE Ev!TypeOK
  OBVIOUS
<1>1. v3 \in Ev!L!Links
  <2>1. v3 \in P!Links
    BY DEF EventInv, EventWaiting, P!Listed
  <2>2. P!Links = Ev!L!Links
    BY EventCounts DEF P!Links, Ev!L!Links
  <2> QED BY <2>1, <2>2
<1>2. Ev!ProtocolTypeOK
  <2>1. above \in [DOMAIN above -> Ev!Checker]
    BY DEF EventInv
  <2>2. below \in [DOMAIN below -> Ev!Checker]
    BY DEF EventInv
  <2> QED BY <2>1, <2>2 DEF EventStays, Ev!ProtocolTypeOK
<1> QED BY <1>1, <1>2, EventCounts DEF EventInv, EventStays, Ev!TypeOK

Classes == {"adapter", "sequence", "try", "shared", "task", "portal", "timer",
            "device", "event", "runner", "asio", "nursery"}

LEMMA OneOfTheClasses == Spec => [](class \in Classes)
<1>1. Init => class \in Classes
  BY DEF Init, Classes
<1>2. class \in Classes /\ [Next]_vars => (class \in Classes)'
  BY DEF Next, vars, two, three, five, seven
<1> QED BY <1>1, <1>2, PTL DEF Spec

LEMMA AdaptersShares ==
    ASSUME class = "adapter", Ad!Inv
    PROVE  TypeOK /\ ProtocolKept /\ NoWakeUpLost /\ CleanupRuns
<1>1. Ad!TypeOK /\ Ad!ProtocolKept /\ Ad!Shielded /\ Ad!RunsOnCancel
  BY AdaptersAreKept, AdaptersCleanUp
<1>2. ProtocolKept
  BY <1>1, AdaptersChecker DEF Ad!ProtocolKept, ProtocolKept
<1> QED BY <1>1, <1>2, Zenon DEF TypeOK, NoWakeUpLost, CleanupRuns

LEMMA SequenceShares ==
    ASSUME class = "sequence", Sq!Inv
    PROVE  TypeOK /\ ProtocolKept /\ NoWakeUpLost /\ CleanupRuns
<1>1. Sq!TypeOK /\ Sq!ProtocolKept
  BY SequenceIsKept
<1>2. ProtocolKept
  BY <1>1, SequenceChecker DEF Sq!ProtocolKept, ProtocolKept
<1> QED BY <1>1, <1>2, Zenon DEF TypeOK, NoWakeUpLost, CleanupRuns

LEMMA TryShares ==
    ASSUME class = "try", Tr!Inv
    PROVE  TypeOK /\ ProtocolKept /\ NoWakeUpLost /\ CleanupRuns
<1>1. Tr!TypeOK /\ Tr!ProtocolKept /\ Tr!BlocksRunInOrder
  BY TryIsKept, TryInOrder
<1>2. ProtocolKept
  BY <1>1, TryChecker DEF Tr!ProtocolKept, ProtocolKept
<1> QED BY <1>1, <1>2, Zenon DEF TypeOK, NoWakeUpLost, CleanupRuns

LEMMA SharedShares ==
    ASSUME class = "shared", Sh!Inv
    PROVE  TypeOK /\ ProtocolKept /\ NoWakeUpLost /\ CleanupRuns
<1>1. Sh!TypeOK /\ Sh!ProtocolKept /\ Sh!NobodyForgotten
  BY SharedIsKept
<1>2. ProtocolKept
  BY <1>1, SharedChecker DEF Sh!ProtocolKept, ProtocolKept
<1> QED BY <1>1, <1>2, Zenon DEF TypeOK, NoWakeUpLost, CleanupRuns

LEMMA TaskShares ==
    ASSUME class = "task", Ta!Inv
    PROVE  TypeOK /\ ProtocolKept /\ NoWakeUpLost /\ CleanupRuns
<1>1. Ta!TypeOK /\ Ta!ProtocolKept /\ Ta!RequestKept
  BY TaskRequests
<1>2. ProtocolKept
  BY <1>1, TaskChecker DEF Ta!ProtocolKept, ProtocolKept
<1> QED BY <1>1, <1>2, Zenon DEF TypeOK, NoWakeUpLost, CleanupRuns

LEMMA PortalShares ==
    ASSUME class = "portal", Cb!Inv
    PROVE  TypeOK /\ ProtocolKept /\ NoWakeUpLost /\ CleanupRuns
<1>1. Cb!TypeOK /\ Cb!ProtocolKept /\ Cb!CallsArrive
  BY PortalHears
<1>2. ProtocolKept
  BY <1>1, PortalChecker DEF Cb!ProtocolKept, ProtocolKept
<1> QED BY <1>1, <1>2, Zenon DEF TypeOK, NoWakeUpLost, CleanupRuns

LEMMA TimerShares ==
    ASSUME class = "timer", Ti!Inv
    PROVE  TypeOK /\ ProtocolKept /\ NoWakeUpLost /\ CleanupRuns
<1>1. Ti!TypeOK /\ Ti!ProtocolKept /\ Ti!SleepersAwaited
  BY TimerWakes
<1>2. ProtocolKept
  BY <1>1, TimerChecker DEF Ti!ProtocolKept, ProtocolKept
<1> QED BY <1>1, <1>2, Zenon DEF TypeOK, NoWakeUpLost, CleanupRuns

LEMMA DeviceShares ==
    ASSUME class = "device", Io!Inv
    PROVE  TypeOK /\ ProtocolKept /\ NoWakeUpLost /\ CleanupRuns
<1>1. Io!TypeOK /\ Io!ProtocolKept /\ Io!ReaderHeard
  BY DeviceHears
<1>2. ProtocolKept
  BY <1>1, DeviceChecker DEF Io!ProtocolKept, ProtocolKept
<1> QED BY <1>1, <1>2, Zenon DEF TypeOK, NoWakeUpLost, CleanupRuns

LEMMA EventShares ==
    ASSUME class = "event", EventInv, EventStays, Ev!WaitersLinked
    PROVE  TypeOK /\ ProtocolKept /\ NoWakeUpLost /\ CleanupRuns
<1>1. Ev!TypeOK /\ Ev!ProtocolKept /\ Ev!WaitersLinked
  BY EventIsTyped, EventIsKept
<1>2. ProtocolKept
  BY <1>1 DEF Ev!ProtocolKept, ProtocolKept, Ev!Legal, Legal
<1> QED BY <1>1, <1>2, Zenon DEF TypeOK, NoWakeUpLost, CleanupRuns

LEMMA RunnerShares ==
    ASSUME class = "runner", Ru!Inv
    PROVE  TypeOK /\ ProtocolKept /\ NoWakeUpLost /\ CleanupRuns
<1>1. Ru!TypeOK /\ Ru!ProtocolKept /\ Ru!LoopStopped
  BY RunnerStops
<1>2. ProtocolKept
  BY <1>1, RunnerChecker DEF Ru!ProtocolKept, ProtocolKept
<1> QED BY <1>1, <1>2, Zenon DEF TypeOK, NoWakeUpLost, CleanupRuns

LEMMA AsioShares ==
    ASSUME class = "asio", As!Inv
    PROVE  TypeOK /\ ProtocolKept /\ NoWakeUpLost /\ CleanupRuns
<1>1. As!TypeOK /\ As!ProtocolKept /\ As!SignalLives
  BY AsioSignals
<1>2. ProtocolKept
  BY <1>1, AsioChecker DEF As!ProtocolKept, ProtocolKept
<1> QED BY <1>1, <1>2, Zenon DEF TypeOK, NoWakeUpLost, CleanupRuns

LEMMA NurseryShares ==
    ASSUME class = "nursery", Un!Inv
    PROVE  TypeOK /\ ProtocolKept /\ NoWakeUpLost /\ CleanupRuns
<1>1. Un!TypeOK /\ Un!ProtocolKept /\ Un!JoinerWoken /\ Un!ClosedEmpty
  BY NurseryIsKept
<1>2. ProtocolKept
  BY <1>1, NurseryChecker DEF Un!ProtocolKept, ProtocolKept
<1> QED BY <1>1, <1>2, Zenon DEF TypeOK, NoWakeUpLost, CleanupRuns

(* Each class keeps its invariant.                                         *)
FamilyInv ==
    /\ class \in Classes
    /\ class = "adapter" => Ad!Inv
    /\ class = "sequence" => Sq!Inv
    /\ class = "try" => Tr!Inv
    /\ class = "shared" => Sh!Inv
    /\ class = "task" => Ta!Inv
    /\ class = "portal" => Cb!Inv
    /\ class = "timer" => Ti!Inv
    /\ class = "device" => Io!Inv
    /\ class = "event" => EventInv /\ EventStays /\ Ev!WaitersLinked
    /\ class = "runner" => Ru!Inv
    /\ class = "asio" => As!Inv
    /\ class = "nursery" => Un!Inv

LEMMA FamilyInvariant == ASSUME Liberties = {} PROVE Spec => []FamilyInv
<1>1. IsFiniteSet(Parents)
  BY ConstantsAssumption
<1>2. /\ Spec => [](class = "event" => EventInv)
      /\ Spec => [](class = "event" => Ev!WaitersLinked)
  BY <1>1, EventInvariant, WaitersAreLinked
<1> QED BY <1>2, OneOfTheClasses, EventRemains, AdaptersInvariant, SequenceInvariant,
      TryInvariant, SharedInvariant, TaskInvariant, PortalInvariant, TimerInvariant, DeviceInvariant,
      RunnerInvariant, AsioInvariant, NurseryInvariant, PTL
      DEF FamilyInv

LEMMA AllShare == FamilyInv => TypeOK /\ ProtocolKept /\ NoWakeUpLost /\ CleanupRuns
<1> SUFFICES ASSUME FamilyInv PROVE TypeOK /\ ProtocolKept /\ NoWakeUpLost /\ CleanupRuns
  OBVIOUS
<1>1. CASE class = "adapter"
  BY <1>1, AdaptersShares DEF FamilyInv
<1>2. CASE class = "sequence"
  BY <1>2, SequenceShares DEF FamilyInv
<1>3. CASE class = "try"
  BY <1>3, TryShares DEF FamilyInv
<1>4. CASE class = "shared"
  BY <1>4, SharedShares DEF FamilyInv
<1>5. CASE class = "task"
  BY <1>5, TaskShares DEF FamilyInv
<1>6. CASE class = "portal"
  BY <1>6, PortalShares DEF FamilyInv
<1>7. CASE class = "timer"
  BY <1>7, TimerShares DEF FamilyInv
<1>8. CASE class = "device"
  BY <1>8, DeviceShares DEF FamilyInv
<1>9. CASE class = "event"
  BY <1>9, EventShares DEF FamilyInv
<1>10. CASE class = "runner"
  BY <1>10, RunnerShares DEF FamilyInv
<1>11. CASE class = "asio"
  BY <1>11, AsioShares DEF FamilyInv
<1>12. CASE class = "nursery"
  BY <1>12, NurseryShares DEF FamilyInv
<1> QED BY <1>1, <1>2, <1>3, <1>4, <1>5, <1>6, <1>7, <1>8, <1>9, <1>10, <1>11, <1>12 DEF FamilyInv, Classes

----------------------------------------------------------------------------
(* What follows holds without the liberties, that is where nobody does any *)
(* of these, all of which the interfaces allow:                            *)
(*   Shared         the operation refuses to be skipped when the first     *)
(*                  parent is cancelled before it suspends ("early"), a    *)
(*                  parent hands its executor on before it suspends        *)
(*                  ("executor"), or comes when the operation has ended    *)
(*                  and nobody has asked for the result yet ("late")       *)
(*   QIODevice      a non-cancellable read is cancelled before it suspends *)
(*                  ("earlyRead"), or bytes come between the cancellation  *)
(*                  of a read and its task's turn ("slowRead")             *)
(*   Runner         the child resumes its handle when run() has given up   *)
(*                  ("endsLate")                                           *)
(*   AsioAwaitable  the operation ends inside of the emission of the       *)
(*                  signal ("inline")                                      *)
(*   UnsafeNursery  close() while it is asking its tasks to end, start()   *)
(*                  while close() is under way, the destructor while its   *)
(*                  executor is on another's list ("closesWithin",         *)
(*                  "startsLate", "goesEarly")                             *)
(* With "early", AllKeepTheProtocol is false of the code: the counterexample *)
(* is that of MCSharedEarly.cfg.                                           *)

(* The variables of each class keep their types (MCAwaitables), whichever  *)
(* class it is that stands between parents and children, without liberties.*)
THEOREM FamilyTyped == ASSUME Liberties = {} PROVE Spec => []TypeOK
BY FamilyInvariant, AllShare, PTL

(* If parents and children keep the protocol of concepts.h themselves and  *)
(* take none of the liberties above, no call of a class breaks an          *)
(* assertion of AwaitableStateChecker (detail/utility.h), of the parent's  *)
(* or the child's, for any number of parents.                              *)
THEOREM AllKeepTheProtocol == ASSUME Liberties = {} PROVE Spec => []ProtocolKept
BY FamilyInvariant, AllShare, PTL

(* Without liberties, whoever waits can still be woken: the wake-up that   *)
(* it waits for is on a list, in a callback, in a timer, or under way,     *)
(* whoever else is cancelled, resumed or destroyed meanwhile.  Nothing is  *)
(* said of a non-cancellable read of a QIODevice that is cancelled before  *)
(* it suspends ("earlyRead"): corralqiodevice.h:147 loses its wake-up.     *)
THEOREM NoWakeUpIsLost == ASSUME Liberties = {} PROVE Spec => []NoWakeUpLost
BY FamilyInvariant, AllShare, PTL

(* Without liberties, finally-blocks, what untilCancelledAnd() and         *)
(* noncancellable() guard, and the frames of a nursery's tasks, are run,   *)
(* or left, once and undisturbed (detail/exception.h, utility.h, Nursery.h).*)
THEOREM CleanupIsDone == ASSUME Liberties = {} PROVE Spec => []CleanupRuns
BY FamilyInvariant, AllShare, PTL
=============================================================================
