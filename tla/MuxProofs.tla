----------------------------- MODULE MuxProofs -----------------------------
(***************************************************************************)
(* What anyOf(), mostOf() and allOf() answer, and that they answer once,   *)
(* for any number of awaitables.                                           *)
(***************************************************************************)
EXTENDS Mux, FiniteSetTheorems, SequenceTheorems, TLAPS

USE MuxAssumption

CancelLoops == {"cancel", "earlyCancel", "outerCancel"}
StackFrame == [at : Loops \cup Calls, next : 1..(N + 1), all : BOOLEAN]
ChildState == {"NotStarted", "CancellationPending", "Running", "Cancelling"}
                  \cup Finished

----------------------------------------------------------------------------
(* What is said of a stack s of calls, and of children in the states f.    *)

\* A call of the kind "at" is in progress.
Has(s, at) == \E k \in 1..Len(s) : s[k].at = at

\* A loop that cancels has come as far as the call it waits for, and it knows
\* whether all it has seen are cancelled; the loop of reportImmediateResult()
\* leaves nobody behind.
Fits(s, f) ==
    \A k \in 1..Len(s) :
        /\ s[k].at = "await_cancel" =>
              /\ k + 1 \in 1..Len(s)
              /\ s[k + 1].at \in CancelLoops /\ s[k + 1].next = s[k].next
        /\ s[k].at \in CancelLoops /\ s[k].all =>
              \A j \in Child : j < s[k].next => f[j] = "Cancelled"
        /\ s[k].at = "report" =>
              \A j \in Child : j < s[k].next => f[j] \in Finished

\* The reports that are being made: loops of invoke() to be counted when over.
\* Frames are numbered from the outermost.
Reporting(s) == {d \in 1..Len(s) : s[Len(s) + 1 - d].at = "cancel"}
InReport(s) == Cardinality(Reporting(s))

\* A report was being made when await_cancel() was called.
CancelledWithin(s) ==
    \E k, m \in 1..Len(s) : k < m /\ s[k].at = "outerCancel" /\ s[m].at = "cancel"
OneOuter(s) ==
    \A k, m \in 1..Len(s) :
        s[k].at = "outerCancel" /\ s[m].at = "outerCancel" => k = m

\* Stacks b and s have the same loops that cancel.
SameLoops(b, s) ==
    /\ \A at \in CancelLoops : Has(b, at) <=> Has(s, at)
    /\ InReport(b) = InReport(s)
    /\ CancelledWithin(b) => CancelledWithin(s)
    /\ OneOuter(s) => OneOuter(b)

----------------------------------------------------------------------------
(* What the model does to stacks.                                          *)

\* A call begins.
LEMMA Pushed ==
    ASSUME NEW s \in Seq(StackFrame), NEW f \in StackFrame
    PROVE  /\ <<f>> \o s \in Seq(StackFrame)
           /\ Len(s) \in Nat /\ Len(<<f>> \o s) = Len(s) + 1
           /\ (<<f>> \o s)[1] = f /\ Head(<<f>> \o s) = f
           /\ \A k \in 1..Len(s) : (<<f>> \o s)[k + 1] = s[k]
           /\ <<f>> \o s # <<>> /\ Tail(<<f>> \o s) = s
<1>1. <<f>> \in Seq(StackFrame) /\ Len(<<f>>) = 1 /\ <<f>>[1] = f
  OBVIOUS
<1>2. /\ <<f>> \o s \in Seq(StackFrame)
      /\ Len(<<f>> \o s) = 1 + Len(s) /\ Len(s) \in Nat
      /\ \A k \in 1..(1 + Len(s)) :
            (<<f>> \o s)[k] = IF k <= 1 THEN <<f>>[k] ELSE s[k - 1]
  BY <1>1, ConcatProperties, LenProperties
<1>3. \A k \in 1..Len(s) : (<<f>> \o s)[k + 1] = s[k]
  BY <1>2
<1>4. (<<f>> \o s)[1] = f
  BY <1>1, <1>2
<1>5. Tail(<<f>> \o s) = s
  BY <1>1
<1>6. <<f>> \o s # <<>>
  BY <1>2, EmptySeq
<1> QED BY <1>2, <1>3, <1>4, <1>5, <1>6

\* ... and ends.
LEMMA Returned ==
    ASSUME NEW s \in Seq(StackFrame), s # <<>>
    PROVE  /\ Tail(s) \in Seq(StackFrame) /\ Head(s) \in StackFrame
           /\ Head(s) = s[1] /\ 1 \in 1..Len(s)
           /\ Len(s) \in Nat /\ Len(s) = Len(Tail(s)) + 1 /\ Len(Tail(s)) \in Nat
           /\ \A k \in 1..Len(Tail(s)) : k + 1 \in 1..Len(s) /\ Tail(s)[k] = s[k + 1]
           /\ \A k \in 1..Len(s) : k = 1 \/ k - 1 \in 1..Len(Tail(s))
<1>1. /\ Tail(s) \in Seq(StackFrame) /\ Head(s) \in StackFrame
      /\ Len(s) \in Nat \ {0} /\ Len(Tail(s)) = Len(s) - 1
      /\ \A i \in 1..Len(Tail(s)) : Tail(s)[i] = s[i + 1]
  BY HeadTailProperties, EmptySeq
<1>2. Head(s) = s[1]
  OBVIOUS
<1> QED BY <1>1, <1>2

\* The reports being made, one call more or less.
LEMMA ReportsPushed ==
    ASSUME NEW s \in Seq(StackFrame), NEW f \in StackFrame
    PROVE  /\ InReport(s) \in Nat
           /\ InReport(<<f>> \o s) = IF f.at = "cancel" THEN InReport(s) + 1 ELSE InReport(s)
<1> DEFINE t == <<f>> \o s
<1>1. /\ Len(s) \in Nat /\ Len(t) = Len(s) + 1 /\ t[1] = f
      /\ \A k \in 1..Len(s) : t[k + 1] = s[k]
  BY Pushed
<1>2. IsFiniteSet(Reporting(s)) /\ InReport(s) \in Nat /\ Len(s) + 1 \notin Reporting(s)
  <2>1. IsFiniteSet(1..Len(s)) /\ Reporting(s) \subseteq 1..Len(s)
    BY <1>1, FS_Interval DEF Reporting
  <2> QED BY <1>1, <2>1, FS_Subset, FS_CardinalityType DEF InReport
<1> HIDE DEF t
<1>3. \A d \in 1..Len(s) : t[Len(t) + 1 - d] = s[Len(s) + 1 - d]
  <2> TAKE d \in 1..Len(s)
  <2>1. Len(s) + 1 - d \in 1..Len(s) /\ Len(t) + 1 - d = (Len(s) + 1 - d) + 1
    BY <1>1
  <2> QED BY <1>1, <2>1
<1>4. t[Len(t) + 1 - (Len(s) + 1)] = f
  BY <1>1
<1>5. \A d : d \in 1..Len(t) <=> d \in 1..Len(s) \/ d = Len(s) + 1
  BY <1>1
<1>6. \A d : d \in Reporting(t) <=>
            d \in Reporting(s) \/ (d = Len(s) + 1 /\ f.at = "cancel")
  BY <1>3, <1>4, <1>5 DEF Reporting
<1>7. CASE f.at = "cancel"
  <2>1. Reporting(t) = Reporting(s) \cup {Len(s) + 1}
    BY <1>6, <1>7
  <2> QED BY <1>2, <1>7, <2>1, FS_AddElement DEF InReport, t
<1>8. CASE f.at # "cancel"
  <2>1. Reporting(t) = Reporting(s)
    BY <1>6, <1>8
  <2> QED BY <1>2, <1>8, <2>1 DEF InReport, t
<1> QED BY <1>2, <1>7, <1>8

LEMMA ReportsReturned ==
    ASSUME NEW s \in Seq(StackFrame), s # <<>>
    PROVE  /\ InReport(Tail(s)) \in Nat
           /\ InReport(s) = IF Head(s).at = "cancel" THEN InReport(Tail(s)) + 1
                            ELSE InReport(Tail(s))
<1>1. Tail(s) \in Seq(StackFrame) /\ Head(s) \in StackFrame
  BY Returned
<1>2. <<Head(s)>> \o Tail(s) = s
  OBVIOUS
<1> QED BY <1>1, <1>2, ReportsPushed

LEMMA FrameAdvanced ==
    ASSUME NEW f \in StackFrame, NEW c \in BOOLEAN, f.next <= N
    PROVE  LET g == [f EXCEPT !.next = @ + 1, !.all = @ /\ c]
           IN  /\ g \in StackFrame /\ g.at = f.at /\ g.next = f.next + 1
               /\ g.all = (f.all /\ c)
<1>1. (f.all /\ c) \in BOOLEAN /\ f.next + 1 \in 1..(N + 1)
  BY DEF StackFrame
<1> QED BY <1>1, Zenon DEF StackFrame

\* The innermost loop goes on to the next child.
LEMMA Advanced ==
    ASSUME NEW s \in Seq(StackFrame), s # <<>>, Head(s).next <= N, NEW c \in BOOLEAN
    PROVE  /\ Advance(s, c) \in Seq(StackFrame)
           /\ Len(Advance(s, c)) = Len(s) /\ Advance(s, c) # <<>>
           /\ Advance(s, c)[1].at = s[1].at /\ Advance(s, c)[1].next = s[1].next + 1
           /\ Advance(s, c)[1].all = (s[1].all /\ c)
           /\ \A k \in 1..Len(s) : k # 1 => Advance(s, c)[k] = s[k]
           /\ InReport(Advance(s, c)) = InReport(s)
<1> DEFINE f == [Head(s) EXCEPT !.next = @ + 1, !.all = @ /\ c]
<1>1. /\ Tail(s) \in Seq(StackFrame) /\ Head(s) \in StackFrame
      /\ Head(s) = s[1] /\ 1 \in 1..Len(s)
      /\ Len(s) \in Nat /\ Len(s) = Len(Tail(s)) + 1 /\ Len(Tail(s)) \in Nat
      /\ \A k \in 1..Len(Tail(s)) : k + 1 \in 1..Len(s) /\ Tail(s)[k] = s[k + 1]
      /\ \A k \in 1..Len(s) : k = 1 \/ k - 1 \in 1..Len(Tail(s))
  BY Returned
<1>2. /\ f.at = Head(s).at /\ f.next = Head(s).next + 1
      /\ f.all = (Head(s).all /\ c) /\ f \in StackFrame
  BY <1>1, FrameAdvanced, Zenon
<1>3. Advance(s, c) = <<f>> \o Tail(s)
  BY DEF Advance
<1> HIDE DEF f
<1>4. /\ <<f>> \o Tail(s) \in Seq(StackFrame) /\ <<f>> \o Tail(s) # <<>>
      /\ Len(<<f>> \o Tail(s)) = Len(Tail(s)) + 1
      /\ (<<f>> \o Tail(s))[1] = f
      /\ \A k \in 1..Len(Tail(s)) : (<<f>> \o Tail(s))[k + 1] = Tail(s)[k]
  BY <1>1, <1>2, Pushed
<1>5. \A k \in 1..Len(s) : k # 1 => Advance(s, c)[k] = s[k]
  <2> SUFFICES ASSUME NEW k \in 1..Len(s), k # 1 PROVE Advance(s, c)[k] = s[k]
    OBVIOUS
  <2>1. k - 1 \in 1..Len(Tail(s)) /\ (k - 1) + 1 = k
    BY <1>1
  <2> QED BY <1>1, <1>3, <1>4, <2>1
<1>6. InReport(Advance(s, c)) = InReport(s)
  <2>1. InReport(<<f>> \o Tail(s)) =
            IF f.at = "cancel" THEN InReport(Tail(s)) + 1 ELSE InReport(Tail(s))
    BY ONLY <1>1, <1>2, ReportsPushed
  <2>2. InReport(s) = IF Head(s).at = "cancel" THEN InReport(Tail(s)) + 1
                      ELSE InReport(Tail(s))
    BY ReportsReturned
  <2> QED BY ONLY <1>2, <1>3, <2>1, <2>2
<1>7. Advance(s, c)[1] = f /\ Head(s) = s[1]
  BY <1>1, <1>3, <1>4
<1>8. /\ Advance(s, c)[1].at = s[1].at /\ Advance(s, c)[1].next = s[1].next + 1
      /\ Advance(s, c)[1].all = (s[1].all /\ c)
  BY ONLY <1>2, <1>7
<1>9. /\ Advance(s, c) \in Seq(StackFrame) /\ Advance(s, c) # <<>>
      /\ Len(Advance(s, c)) = Len(s)
  BY <1>1, <1>3, <1>4
<1> QED BY ONLY <1>5, <1>6, <1>8, <1>9

----------------------------------------------------------------------------
(* The loops and calls on a stack, when one comes, goes on or ends.        *)

LEMMA HasPushed ==
    ASSUME NEW s \in Seq(StackFrame), NEW f \in StackFrame, NEW at
    PROVE  Has(<<f>> \o s, at) <=> f.at = at \/ Has(s, at)
<1> DEFINE t == <<f>> \o s
<1>1. /\ Len(s) \in Nat /\ Len(t) = Len(s) + 1 /\ t[1] = f
      /\ \A k \in 1..Len(s) : t[k + 1] = s[k]
  BY Pushed
<1> HIDE DEF t
<1>2. ASSUME NEW k \in 1..Len(t), t[k].at = at PROVE f.at = at \/ Has(s, at)
  <2>1. CASE k = 1
    BY <1>1, <1>2, <2>1
  <2>2. CASE k # 1
    <3>1. k - 1 \in 1..Len(s) /\ (k - 1) + 1 = k
      BY <1>1, <2>2
    <3>2. s[k - 1].at = at
      BY <1>1, <1>2, <3>1
    <3> QED BY <3>1, <3>2 DEF Has
  <2> QED BY <2>1, <2>2
<1>3. ASSUME NEW k \in 1..Len(s), s[k].at = at PROVE Has(t, at)
  <2>1. k + 1 \in 1..Len(t) /\ t[k + 1].at = at
    BY <1>1, <1>3
  <2> QED BY <2>1 DEF Has
<1>4. ASSUME f.at = at PROVE Has(t, at)
  <2>1. 1 \in 1..Len(t)
    BY <1>1
  <2> QED BY <1>1, <1>4, <2>1 DEF Has
<1> QED BY <1>2, <1>3, <1>4 DEF Has, t

LEMMA HasReturned ==
    ASSUME NEW s \in Seq(StackFrame), s # <<>>, NEW at
    PROVE  Has(s, at) <=> Head(s).at = at \/ Has(Tail(s), at)
<1>1. Tail(s) \in Seq(StackFrame) /\ Head(s) \in StackFrame
  BY Returned
<1>2. <<Head(s)>> \o Tail(s) = s
  OBVIOUS
<1> QED BY <1>1, <1>2, HasPushed

LEMMA HasAdvanced ==
    ASSUME NEW s \in Seq(StackFrame), s # <<>>, Head(s).next <= N,
           NEW c \in BOOLEAN, NEW at
    PROVE  Has(Advance(s, c), at) <=> Has(s, at)
<1>1. /\ Len(Advance(s, c)) = Len(s)
      /\ \A k \in 1..Len(s) : Advance(s, c)[k].at = s[k].at
  BY Advanced, Returned
<1> QED BY ONLY <1>1 DEF Has

\* A report is made before or after await_cancel() was called.
LEMMA WithinPushed ==
    ASSUME NEW s \in Seq(StackFrame), NEW f \in StackFrame
    PROVE  /\ CancelledWithin(<<f>> \o s) <=>
                 \/ CancelledWithin(s)
                 \/ f.at = "outerCancel" /\ Has(s, "cancel")
           /\ OneOuter(<<f>> \o s) <=>
                 /\ OneOuter(s)
                 /\ f.at = "outerCancel" => ~Has(s, "outerCancel")
<1> DEFINE t == <<f>> \o s
<1>1. /\ Len(s) \in Nat /\ Len(t) = Len(s) + 1 /\ t[1] = f
      /\ \A k \in 1..Len(s) : t[k + 1] = s[k]
  BY Pushed
<1> HIDE DEF t
<1>2. \A k \in 1..Len(t) : k # 1 => k - 1 \in 1..Len(s) /\ s[k - 1] = t[k]
  <2> SUFFICES ASSUME NEW k \in 1..Len(t), k # 1
               PROVE  k - 1 \in 1..Len(s) /\ s[k - 1] = t[k]
    OBVIOUS
  <2>1. k - 1 \in 1..Len(s) /\ (k - 1) + 1 = k
    BY <1>1
  <2> QED BY <1>1, <2>1
<1>3. \A k \in 1..Len(s) : k + 1 \in 1..Len(t) /\ t[k + 1] = s[k]
  BY <1>1
<1>4. 1 \in 1..Len(t)
  BY <1>1
<1>5. ASSUME CancelledWithin(t)
      PROVE  CancelledWithin(s) \/ (f.at = "outerCancel" /\ Has(s, "cancel"))
  <2>1. PICK k, m \in 1..Len(t) : k < m /\ t[k].at = "outerCancel" /\ t[m].at = "cancel"
    BY <1>5 DEF CancelledWithin
  <2>2. m - 1 \in 1..Len(s) /\ s[m - 1].at = "cancel"
    BY <1>2, <2>1
  <2>3. CASE k = 1
    BY <1>1, <2>1, <2>2, <2>3 DEF Has
  <2>4. CASE k # 1
    <3>1. k - 1 \in 1..Len(s) /\ s[k - 1].at = "outerCancel" /\ k - 1 < m - 1
      BY <1>2, <2>1, <2>4
    <3> QED BY <2>2, <3>1 DEF CancelledWithin
  <2> QED BY <2>3, <2>4
<1>6. ASSUME CancelledWithin(s) PROVE CancelledWithin(t)
  <2>1. PICK k, m \in 1..Len(s) : k < m /\ s[k].at = "outerCancel" /\ s[m].at = "cancel"
    BY <1>6 DEF CancelledWithin
  <2>2. /\ k + 1 \in 1..Len(t) /\ m + 1 \in 1..Len(t) /\ k + 1 < m + 1
        /\ t[k + 1].at = "outerCancel" /\ t[m + 1].at = "cancel"
    BY <1>3, <2>1
  <2> QED BY <2>2 DEF CancelledWithin
<1>7. ASSUME f.at = "outerCancel", Has(s, "cancel") PROVE CancelledWithin(t)
  <2>1. PICK m \in 1..Len(s) : s[m].at = "cancel"
    BY <1>7 DEF Has
  <2>2. m + 1 \in 1..Len(t) /\ 1 < m + 1 /\ t[m + 1].at = "cancel"
    BY <1>3, <2>1
  <2> QED BY <1>1, <1>4, <1>7, <2>2 DEF CancelledWithin
<1>8. ASSUME OneOuter(t)
      PROVE  OneOuter(s) /\ (f.at = "outerCancel" => ~Has(s, "outerCancel"))
  <2>1. ASSUME NEW k \in 1..Len(s), NEW m \in 1..Len(s),
               s[k].at = "outerCancel", s[m].at = "outerCancel"
        PROVE  k = m
    <3>1. k + 1 = m + 1
      BY <1>3, <1>8, <2>1 DEF OneOuter
    <3> QED BY <3>1
  <2>2. ASSUME f.at = "outerCancel", NEW k \in 1..Len(s), s[k].at = "outerCancel"
        PROVE  FALSE
    <3>1. k + 1 = 1
      BY <1>1, <1>3, <1>4, <1>8, <2>2 DEF OneOuter
    <3> QED BY <3>1
  <2> QED BY <2>1, <2>2 DEF OneOuter, Has
<1>9. ASSUME OneOuter(s), f.at = "outerCancel" => ~Has(s, "outerCancel")
      PROVE  OneOuter(t)
  <2> SUFFICES ASSUME NEW k \in 1..Len(t), NEW m \in 1..Len(t),
                      t[k].at = "outerCancel", t[m].at = "outerCancel"
               PROVE  k = m
    BY DEF OneOuter
  <2>1. k # 1 => k - 1 \in 1..Len(s) /\ s[k - 1].at = "outerCancel"
    BY <1>2
  <2>2. m # 1 => m - 1 \in 1..Len(s) /\ s[m - 1].at = "outerCancel"
    BY <1>2
  <2>3. k = 1 <=> m = 1
    BY <1>1, <1>9, <2>1, <2>2 DEF Has
  <2>4. CASE k # 1
    <3>1. k - 1 = m - 1
      BY <1>9, <2>1, <2>2, <2>3, <2>4 DEF OneOuter
    <3> QED BY <3>1
  <2> QED BY <2>3, <2>4
<1> QED BY <1>5, <1>6, <1>7, <1>8, <1>9 DEF t

LEMMA WithinReturned ==
    ASSUME NEW s \in Seq(StackFrame), s # <<>>
    PROVE  /\ CancelledWithin(s) <=>
                 \/ CancelledWithin(Tail(s))
                 \/ Head(s).at = "outerCancel" /\ Has(Tail(s), "cancel")
           /\ OneOuter(s) <=>
                 /\ OneOuter(Tail(s))
                 /\ Head(s).at = "outerCancel" => ~Has(Tail(s), "outerCancel")
<1>1. Tail(s) \in Seq(StackFrame) /\ Head(s) \in StackFrame
  BY Returned
<1>2. <<Head(s)>> \o Tail(s) = s
  OBVIOUS
<1>3. /\ CancelledWithin(<<Head(s)>> \o Tail(s)) <=>
            \/ CancelledWithin(Tail(s))
            \/ Head(s).at = "outerCancel" /\ Has(Tail(s), "cancel")
      /\ OneOuter(<<Head(s)>> \o Tail(s)) <=>
            /\ OneOuter(Tail(s))
            /\ Head(s).at = "outerCancel" => ~Has(Tail(s), "outerCancel")
  BY <1>1, WithinPushed
<1> QED BY ONLY <1>2, <1>3

\* The loops that cancel stay the same.
LEMMA SameAdvanced ==
    ASSUME NEW s \in Seq(StackFrame), s # <<>>, Head(s).next <= N, NEW c \in BOOLEAN
    PROVE  SameLoops(Advance(s, c), s)
<1>1. /\ Len(Advance(s, c)) = Len(s)
      /\ \A k \in 1..Len(s) : Advance(s, c)[k].at = s[k].at
      /\ InReport(Advance(s, c)) = InReport(s)
  BY Advanced, Returned
<1>2. \A at \in CancelLoops : Has(Advance(s, c), at) <=> Has(s, at)
  BY ONLY <1>1 DEF Has
<1>3. CancelledWithin(Advance(s, c)) => CancelledWithin(s)
  BY ONLY <1>1 DEF CancelledWithin
<1>4. OneOuter(s) => OneOuter(Advance(s, c))
  BY ONLY <1>1 DEF OneOuter
<1> QED BY <1>1, <1>2, <1>3, <1>4 DEF SameLoops

LEMMA SameReturned ==
    ASSUME NEW s \in Seq(StackFrame), s # <<>>, Head(s).at \notin CancelLoops
    PROVE  SameLoops(Tail(s), s)
<1>1. \A at \in CancelLoops : Has(Tail(s), at) <=> Has(s, at)
  BY HasReturned
<1>2. Head(s).at # "cancel" /\ Head(s).at # "outerCancel"
  BY DEF CancelLoops
<1> QED BY <1>1, <1>2, ReportsReturned, WithinReturned DEF SameLoops

LEMMA SameCalled ==
    ASSUME NEW s \in Seq(StackFrame), NEW f \in StackFrame, f.at \notin CancelLoops
    PROVE  SameLoops(<<f>> \o s, s)
<1>1. \A at \in CancelLoops : Has(<<f>> \o s, at) <=> Has(s, at)
  BY HasPushed
<1>2. f.at # "cancel" /\ f.at # "outerCancel"
  BY DEF CancelLoops
<1> QED BY <1>1, <1>2, ReportsPushed, WithinPushed DEF SameLoops

LEMMA SameTransitive ==
    ASSUME NEW s, NEW t, NEW u, SameLoops(s, t), SameLoops(t, u)
    PROVE  SameLoops(s, u)
BY DEF SameLoops

----------------------------------------------------------------------------
(* Loops know what they have seen.                                         *)

\* f becomes g: children that have finished stay finished, or cancelled.
Further(f, g) == \A j \in Child : /\ f[j] = "Cancelled" => g[j] = "Cancelled"
                                  /\ f[j] \in Finished => g[j] \in Finished

LEMMA FitsFurther ==
    ASSUME NEW s, NEW f, NEW g, Fits(s, f), Further(f, g)
    PROVE  Fits(s, g)
BY DEF Fits, Further

LEMMA FitsReturned ==
    ASSUME NEW s \in Seq(StackFrame), s # <<>>, NEW f, Fits(s, f)
    PROVE  Fits(Tail(s), f)
<1>1. /\ Len(s) \in Nat /\ Len(s) = Len(Tail(s)) + 1 /\ Len(Tail(s)) \in Nat
      /\ \A k \in 1..Len(Tail(s)) : k + 1 \in 1..Len(s) /\ Tail(s)[k] = s[k + 1]
  BY Returned
<1> SUFFICES ASSUME NEW k \in 1..Len(Tail(s))
             PROVE  /\ Tail(s)[k].at = "await_cancel" =>
                          /\ k + 1 \in 1..Len(Tail(s))
                          /\ Tail(s)[k + 1].at \in CancelLoops
                          /\ Tail(s)[k + 1].next = Tail(s)[k].next
                    /\ Tail(s)[k].at \in CancelLoops /\ Tail(s)[k].all =>
                          \A j \in Child : j < Tail(s)[k].next => f[j] = "Cancelled"
                    /\ Tail(s)[k].at = "report" =>
                          \A j \in Child : j < Tail(s)[k].next => f[j] \in Finished
  BY DEF Fits
<1>2. k + 1 \in 1..Len(s) /\ Tail(s)[k] = s[k + 1]
  BY <1>1
<1>3. /\ s[k + 1].at = "await_cancel" =>
            /\ (k + 1) + 1 \in 1..Len(s)
            /\ s[(k + 1) + 1].at \in CancelLoops
            /\ s[(k + 1) + 1].next = s[k + 1].next
      /\ s[k + 1].at \in CancelLoops /\ s[k + 1].all =>
            \A j \in Child : j < s[k + 1].next => f[j] = "Cancelled"
      /\ s[k + 1].at = "report" =>
            \A j \in Child : j < s[k + 1].next => f[j] \in Finished
  BY <1>2 DEF Fits
<1>4. (k + 1) + 1 \in 1..Len(s) =>
        k + 1 \in 1..Len(Tail(s)) /\ Tail(s)[k + 1] = s[(k + 1) + 1]
  BY <1>1
<1> QED BY <1>2, <1>3, <1>4

LEMMA FitsPushed ==
    ASSUME NEW s \in Seq(StackFrame), NEW c \in StackFrame, NEW f, Fits(s, f),
           c.at = "await_cancel" =>
               s # <<>> /\ s[1].at \in CancelLoops /\ s[1].next = c.next,
           c.at \in CancelLoops \cup {"report"} => c.next = 1
    PROVE  Fits(<<c>> \o s, f)
<1> DEFINE t == <<c>> \o s
<1>1. /\ Len(s) \in Nat /\ Len(t) = Len(s) + 1 /\ t[1] = c
      /\ \A k \in 1..Len(s) : t[k + 1] = s[k]
      /\ s # <<>> => Len(s) # 0
  BY Pushed, EmptySeq
<1> HIDE DEF t
<1> SUFFICES ASSUME NEW k \in 1..Len(t)
             PROVE  /\ t[k].at = "await_cancel" =>
                          /\ k + 1 \in 1..Len(t)
                          /\ t[k + 1].at \in CancelLoops /\ t[k + 1].next = t[k].next
                    /\ t[k].at \in CancelLoops /\ t[k].all =>
                          \A j \in Child : j < t[k].next => f[j] = "Cancelled"
                    /\ t[k].at = "report" =>
                          \A j \in Child : j < t[k].next => f[j] \in Finished
  BY DEF Fits, t
<1>2. CASE k = 1
  <2>1. s # <<>> => 1 \in 1..Len(s) /\ t[1 + 1] = s[1] /\ 1 + 1 \in 1..Len(t)
    BY <1>1
  <2>2. \A j \in Child : ~(j < 1)
    BY DEF Child
  <2> QED BY <1>1, <1>2, <2>1, <2>2
<1>3. CASE k # 1
  <2>1. k - 1 \in 1..Len(s) /\ (k - 1) + 1 = k
    BY <1>1, <1>3
  <2>2. /\ s[k - 1].at = "await_cancel" =>
              /\ k \in 1..Len(s)
              /\ s[k].at \in CancelLoops /\ s[k].next = s[k - 1].next
        /\ s[k - 1].at \in CancelLoops /\ s[k - 1].all =>
              \A j \in Child : j < s[k - 1].next => f[j] = "Cancelled"
        /\ s[k - 1].at = "report" =>
              \A j \in Child : j < s[k - 1].next => f[j] \in Finished
    BY <2>1 DEF Fits
  <2>3. t[k] = s[k - 1] /\ (k \in 1..Len(s) => t[k + 1] = s[k] /\ k + 1 \in 1..Len(t))
    BY <1>1, <2>1
  <2> QED BY <2>2, <2>3
<1> QED BY <1>2, <1>3

LEMMA FitsAdvanced ==
    ASSUME NEW s \in Seq(StackFrame), s # <<>>, Head(s).next \in Child,
           NEW c \in BOOLEAN, NEW f, Fits(s, f),
           Head(s).at \in Loops,
           Head(s).at \in CancelLoops /\ c => f[Head(s).next] = "Cancelled",
           Head(s).at = "report" => f[Head(s).next] \in Finished
    PROVE  Fits(Advance(s, c), f)
<1> DEFINE t == Advance(s, c)
<1>1. /\ Len(t) = Len(s) /\ Head(s) = s[1] /\ 1 \in 1..Len(s) /\ s[1].next \in Child
      /\ t[1].at = s[1].at /\ t[1].next = s[1].next + 1
      /\ t[1].all = (s[1].all /\ c)
      /\ \A k \in 1..Len(s) : k # 1 => t[k] = s[k]
      /\ Len(s) \in Nat
  BY Advanced, Returned DEF Child
<1>2. s[1].at # "await_cancel"
  BY <1>1 DEF Loops
<1>3. \A j \in Child : j < s[1].next + 1 => j < s[1].next \/ j = s[1].next
  BY <1>1 DEF Child
<1> HIDE DEF t
<1> SUFFICES ASSUME NEW k \in 1..Len(t)
             PROVE  /\ t[k].at = "await_cancel" =>
                          /\ k + 1 \in 1..Len(t)
                          /\ t[k + 1].at \in CancelLoops /\ t[k + 1].next = t[k].next
                    /\ t[k].at \in CancelLoops /\ t[k].all =>
                          \A j \in Child : j < t[k].next => f[j] = "Cancelled"
                    /\ t[k].at = "report" =>
                          \A j \in Child : j < t[k].next => f[j] \in Finished
  BY DEF Fits, t
<1>4. /\ s[k].at = "await_cancel" =>
            /\ k + 1 \in 1..Len(s)
            /\ s[k + 1].at \in CancelLoops /\ s[k + 1].next = s[k].next
      /\ s[k].at \in CancelLoops /\ s[k].all =>
            \A j \in Child : j < s[k].next => f[j] = "Cancelled"
      /\ s[k].at = "report" =>
            \A j \in Child : j < s[k].next => f[j] \in Finished
  BY <1>1 DEF Fits
<1>5. CASE k = 1
  BY <1>1, <1>2, <1>3, <1>4, <1>5, ZenonT(60)
<1>6. CASE k # 1
  <2>1. t[k] = s[k] /\ (k + 1 \in 1..Len(s) => t[k + 1] = s[k + 1])
    BY <1>1, <1>6
  <2> QED BY <1>1, <1>4, <2>1
<1> QED BY <1>5, <1>6

----------------------------------------------------------------------------
(* The inductive invariant.                                                *)

Typed ==
    /\ kind \in Kinds
    /\ state \in [Child -> ChildState]
    /\ bound \in BOOLEAN /\ parent \in BOOLEAN /\ asked \in BOOLEAN
    /\ count \in Nat /\ resumed \in Nat
    /\ exception \in Child \cup {0}
    /\ phase \in Phases
    /\ reports \in [Child -> Nat]
    /\ stack \in Seq(StackFrame)

\* Before the children know the mux only await_early_cancel() does something.
Unbound ==
    /\ ~bound =>
          /\ Len(stack) <= 1 /\ count = 0 /\ ~parent
          /\ \A k \in 1..Len(stack) : stack[k].at = "earlyCancel"
          /\ \A i \in Child :
                /\ reports[i] = 0
                /\ state[i] \in {"NotStarted", "CancellationPending", "Cancelled"}
    /\ Has(stack, "earlyCancel") => ~bound /\ asked /\ phase = "new"
    /\ phase \in {"new", "early"} => ~bound
    /\ ~asked /\ ~bound => \A i \in Child : state[i] = "NotStarted"

Reported == {i \in Child : reports[i] > 0}

\* Every report is counted, now or when its loop is over.
Counting ==
    /\ \A i \in Child : reports[i] > 0 => state[i] \in Finished
    /\ count + InReport(stack) >= Cardinality(Reported)
    /\ ~CountedTwice => count + InReport(stack) = Cardinality(Reported)

\* Whoever finishes reports, unless it was cancelled before the mux was bound.
Unreported ==
    (\E i \in Child : state[i] \in Finished /\ reports[i] = 0)
        => asked /\ ~Has(stack, "outerCancel")

HasResult == \E i \in Child : state[i] \in {"Succeeded", "Failed"}

\* Nothing is cancelled of its own accord before there is a result.
FirstResult ==
    /\ parent /\ ~asked =>
          \/ HasResult
          \/ /\ ~Has(stack, "cancel")
             /\ \A i \in Child : state[i] \in {"NotStarted", "Running"} /\ reports[i] = 0
    /\ CancelledWithin(stack) => HasResult

\* mostOf() and allOf() cancel nothing unless a child fails.
NeedAll ==
    /\ kind # "anyOf" /\ ~asked /\ exception = 0 =>
          /\ ~Has(stack, "cancel")
          /\ \A i \in Child : state[i] \in {"NotStarted", "Running", "Succeeded"}
    /\ kind # "anyOf" /\ phase = "immediate" => Child \subseteq available

\* The first exception is kept.
ExceptionKept ==
    /\ exception # 0 => state[exception] = "Failed"
    /\ exception = 0 => \A i \in Child : state[i] # "Failed"

\* The parent is resumed when the last report is counted, or await_cancel()
\* is over.
Telling ==
    /\ resumed <= 1
    /\ resumed > 0 => count >= N
    /\ Has(stack, "outerCancel") =>
          ~parent /\ resumed = 0 /\ asked /\ bound /\ phase = "suspended"
    /\ OneOuter(stack)

\* What the answer says of the children.
Answers ==
    /\ Has(stack, "report") => phase = "immediate"
    /\ phase = "immediate" =>
          /\ ~parent
          /\ Has(stack, "report") \/ \A i \in Child : state[i] \in Finished
    /\ phase = "suspended" /\ ~asked => parent
    /\ phase = "aborted" =>
          /\ resumed = 0 /\ \A i \in Child : state[i] = "Cancelled"
          /\ count >= N \/ stack = <<>>
    /\ ~CountedTwice /\ phase \in {"cancelled", "done"} =>
          \A i \in Child : state[i] \in Finished
    /\ ~CountedTwice /\ phase = "done" /\ asked => MustResume
    /\ ~CountedTwice /\ phase = "done" /\ ~asked /\ parent => HasResult
    /\ ~CountedTwice /\ phase = "cancelled" => ~MustResume

IndInv ==
    /\ Typed /\ Fits(stack, state) /\ Unbound /\ Counting /\ Unreported
    /\ FirstResult /\ NeedAll /\ ExceptionKept /\ Telling /\ Answers

----------------------------------------------------------------------------
(* A child reports: MuxBase::invoke().                                     *)

\* What the call does to the count and the stack, when b remains to be done.
LEMMA Invoked ==
    ASSUME Typed, NEW i \in Child, NEW fails \in BOOLEAN, NEW b \in Seq(StackFrame),
           SameLoops(b, stack), Has(b, "report") <=> Has(stack, "report"),
           Invoke(i, fails, b), Fits(b, state')
    PROVE  /\ stack' \in Seq(StackFrame) /\ Fits(stack', state')
           /\ count' \in Nat /\ count' \in {count, count + 1}
           /\ InReport(stack) \in Nat /\ InReport(stack') \in Nat
           /\ count' + InReport(stack') = count + InReport(stack) + 1
           /\ \A at \in {"earlyCancel", "outerCancel", "report"} :
                 Has(stack', at) <=> Has(stack, at)
           /\ Has(stack', "cancel") =>
                 \/ Has(stack, "cancel")
                 \/ CancelRest(fails /\ exception = 0) /\ count + 1 # N
           /\ CancelledWithin(stack') => CancelledWithin(stack)
           /\ OneOuter(stack) => OneOuter(stack')
           /\ \/ resumed' = resumed
              \/ parent /\ resumed' = resumed + 1 /\ count + 1 = N /\ count' = N
           /\ reports' = [reports EXCEPT ![i] = @ + 1]
           /\ exception' = IF fails /\ exception = 0 THEN i ELSE exception
<1> DEFINE first == fails /\ exception = 0
           c == Frame("cancel", 1)
<1>1. /\ count \in Nat /\ stack \in Seq(StackFrame)
      /\ \A at \in {"earlyCancel", "outerCancel", "cancel"} : Has(b, at) <=> Has(stack, at)
      /\ InReport(b) = InReport(stack)
      /\ CancelledWithin(b) => CancelledWithin(stack)
      /\ OneOuter(stack) => OneOuter(b)
  BY DEF Typed, SameLoops, CancelLoops
<1>2. InReport(stack) \in Nat /\ InReport(b) \in Nat
  <2>1. c \in StackFrame
    BY DEF Frame, StackFrame, Loops
  <2> QED BY <1>1, <2>1, ReportsPushed
<1>3. /\ reports' = [reports EXCEPT ![i] = @ + 1]
      /\ exception' = IF fails /\ exception = 0 THEN i ELSE exception
  BY DEF Invoke
<1>4. CASE count + 1 = N
  <2>1. /\ stack' = b /\ count' = N
        /\ resumed' = resumed \/ (parent /\ resumed' = resumed + 1)
    BY <1>4 DEF Invoke, ResumeParent
  <2>2. count' + InReport(stack') = count + InReport(stack) + 1
    BY ONLY <1>1, <1>2, <1>4, <2>1
  <2>3. \A at \in {"earlyCancel", "outerCancel", "report"} :
            Has(stack', at) <=> Has(stack, at)
    BY <1>1, <2>1
  <2>4. count' \in Nat /\ count' = count + 1
    BY <1>1, <1>4, <2>1
  <2> QED BY ONLY <1>1, <1>2, <1>3, <1>4, <2>1, <2>2, <2>3, <2>4,
                  Fits(b, state'), b \in Seq(StackFrame)
<1>5. CASE count + 1 # N /\ CancelRest(first)
  <2>1. stack' = <<c>> \o b /\ count' = count /\ resumed' = resumed
    BY <1>5 DEF Invoke, CountMeanwhile
  <2>2. c \in StackFrame /\ c.at = "cancel" /\ c.next = 1
    BY DEF Frame, StackFrame, Loops
  <2> HIDE DEF c
  <2>3. /\ <<c>> \o b \in Seq(StackFrame)
        /\ InReport(<<c>> \o b) = InReport(b) + 1
    BY <2>2, Pushed, ReportsPushed
  <2>4. \A at : Has(<<c>> \o b, at) <=> c.at = at \/ Has(b, at)
    BY <2>2, HasPushed, Zenon
  <2>5. /\ CancelledWithin(<<c>> \o b) => CancelledWithin(b)
        /\ OneOuter(b) => OneOuter(<<c>> \o b)
    BY <2>2, WithinPushed
  <2>6. Fits(<<c>> \o b, state')
    BY <2>2, FitsPushed
  <2>7. \A at \in {"earlyCancel", "outerCancel", "report"} :
            Has(stack', at) <=> Has(stack, at)
    BY <1>1, <2>1, <2>2, <2>4
  <2>8. count' + InReport(stack') = count + InReport(stack) + 1
    BY ONLY <1>1, <1>2, <2>1, <2>3
  <2> QED BY ONLY <1>1, <1>2, <1>3, <1>5, <2>1, <2>3, <2>5, <2>6, <2>7, <2>8
<1>6. CASE count + 1 # N /\ ~CancelRest(first)
  <2>1. stack' = b /\ count' = count + 1 /\ resumed' = resumed
    BY <1>6 DEF Invoke
  <2> QED BY <1>1, <1>2, <1>3, <2>1
<1> QED BY <1>4, <1>5, <1>6

\* Reports by one more child.
LEMMA OneMore ==
    ASSUME Typed, NEW i \in Child, reports' = [reports EXCEPT ![i] = @ + 1]
    PROVE  /\ IsFiniteSet(Reported) /\ Cardinality(Reported) \in Nat
           /\ Cardinality(Reported') \in Nat
           /\ Cardinality(Reported') <= Cardinality(Reported) + 1
           /\ ~CountedTwice' =>
                 ~CountedTwice /\ Cardinality(Reported') = Cardinality(Reported) + 1
<1>1. IsFiniteSet(Child) /\ Reported \subseteq Child
  BY FS_Interval DEF Child, Reported
<1>2. IsFiniteSet(Reported) /\ Cardinality(Reported) \in Nat
  BY <1>1, FS_Subset, FS_CardinalityType
<1>3. /\ reports \in [Child -> Nat] /\ reports'[i] = reports[i] + 1
      /\ \A j \in Child : j # i => reports'[j] = reports[j]
  BY DEF Typed
<1>4. Reported' = Reported \cup {i}
  BY <1>3 DEF Reported
<1>5. Cardinality(Reported') = IF i \in Reported THEN Cardinality(Reported)
                               ELSE Cardinality(Reported) + 1
  BY <1>2, <1>4, FS_AddElement
<1>6. ASSUME ~CountedTwice' PROVE ~CountedTwice /\ i \notin Reported
  <2>1. \A j \in Child : ~(reports'[j] > 1)
    BY <1>6 DEF CountedTwice
  <2>2. \A j \in Child : ~(reports[j] > 1)
    BY <1>3, <2>1
  <2>3. ~(reports[i] > 0)
    BY <1>3, <2>1
  <2> QED BY <2>2, <2>3 DEF CountedTwice, Reported
<1> QED BY <1>2, <1>5, <1>6

\* Child i finishes in state e and reports, or reports that it was cancelled
\* before.
LEMMA ReportInd ==
    ASSUME IndInv, NEW i \in Child, NEW e \in Finished, NEW b \in Seq(StackFrame),
           NEW fails \in BOOLEAN, fails <=> e = "Failed",
           bound, UNCHANGED <<given, bound, parent, asked, phase>>,
           state' = [state EXCEPT ![i] = e],
           Invoke(i, fails, b),
           SameLoops(b, stack), Has(b, "report") <=> Has(stack, "report"),
           Fits(b, state'),
           \/ state[i] \notin Finished
           \/ state[i] = "Cancelled" /\ e = "Cancelled",
           stack # <<>> \/ state[i] \notin Finished,
           e = "Cancelled" /\ parent /\ ~asked => HasResult,
           e = "Cancelled" /\ kind # "anyOf" /\ ~asked => exception # 0
    PROVE  IndInv'
<1>1. /\ stack' \in Seq(StackFrame) /\ Fits(stack', state')
      /\ count' \in Nat /\ count' \in {count, count + 1}
      /\ InReport(stack) \in Nat /\ InReport(stack') \in Nat
      /\ count' + InReport(stack') = count + InReport(stack) + 1
      /\ \A at \in {"earlyCancel", "outerCancel", "report"} :
            Has(stack', at) <=> Has(stack, at)
      /\ Has(stack', "cancel") =>
            \/ Has(stack, "cancel")
            \/ CancelRest(fails /\ exception = 0) /\ count + 1 # N
      /\ CancelledWithin(stack') => CancelledWithin(stack)
      /\ OneOuter(stack) => OneOuter(stack')
      /\ \/ resumed' = resumed
         \/ parent /\ resumed' = resumed + 1 /\ count + 1 = N /\ count' = N
      /\ reports' = [reports EXCEPT ![i] = @ + 1]
      /\ exception' = IF fails /\ exception = 0 THEN i ELSE exception
  BY Invoked DEF IndInv
<1>2. /\ kind' = kind /\ skippable' = skippable /\ available' = available
      /\ bound' = bound /\ parent' = parent /\ asked' = asked /\ phase' = phase
  BY DEF given
<1>3. /\ state \in [Child -> ChildState] /\ state'[i] = e
      /\ \A j \in Child : j # i => state'[j] = state[j]
      /\ \A j \in Child : state[j] \in Finished => state'[j] = state[j]
      /\ \A j \in Child : state[j] \in {"Succeeded", "Failed"} => j # i
  BY DEF IndInv, Typed, Finished
<1>4. /\ reports \in [Child -> Nat] /\ reports'[i] = reports[i] + 1
      /\ \A j \in Child : j # i => reports'[j] = reports[j]
      /\ count \in Nat /\ N \in Nat /\ i # 0
  <2>1. reports \in [Child -> Nat] /\ count \in Nat
    BY DEF IndInv, Typed
  <2>2. reports' = [reports EXCEPT ![i] = @ + 1]
    BY <1>1
  <2>3. N \in Nat /\ i # 0
    BY DEF Child
  <2> QED BY ONLY <2>1, <2>2, <2>3, i \in Child
<1>5. HasResult => HasResult'
  BY <1>3 DEF HasResult, Finished
<1>6. e \in {"Succeeded", "Failed"} => HasResult'
  BY <1>3 DEF HasResult
<1>7. Typed'
  <2>1. state' \in [Child -> ChildState] /\ reports' \in [Child -> Nat]
    <3>1. e \in ChildState
      BY DEF ChildState
    <3>2. state' \in [Child -> ChildState]
      BY ONLY <1>3, <3>1, state' = [state EXCEPT ![i] = e]
    <3>3. reports' \in [Child -> Nat]
      <4>1. reports' = [reports EXCEPT ![i] = @ + 1]
        BY <1>1
      <4> QED BY ONLY <1>4, <4>1
    <3> QED BY <3>2, <3>3
  <2>2. exception \in Child \cup {0} /\ resumed \in Nat
    BY DEF IndInv, Typed
  <2>3. exception' \in Child \cup {0} /\ resumed' \in Nat
    <3>1. exception' = IF fails /\ exception = 0 THEN i ELSE exception
      BY <1>1
    <3>2. resumed' = resumed \/ resumed' = resumed + 1
      BY <1>1
    <3> QED BY ONLY <2>2, <3>1, <3>2, i \in Child
  <2> QED BY <1>1, <1>2, <2>1, <2>3 DEF IndInv, Typed
<1>8. Unbound'
  <2>1. /\ ~Has(stack, "earlyCancel")
        /\ phase \notin {"new", "early"}
    BY DEF IndInv, Unbound
  <2>2. ~Has(stack', "earlyCancel") /\ bound'
    BY <1>1, <1>2, <2>1
  <2> QED BY <1>2, <2>1, <2>2 DEF Unbound
<1>9. Counting'
  <2>1. \A j \in Child : reports'[j] > 0 => state'[j] \in Finished
    BY <1>3, <1>4 DEF IndInv, Counting
  <2>2. /\ Cardinality(Reported) \in Nat /\ Cardinality(Reported') \in Nat
        /\ Cardinality(Reported') <= Cardinality(Reported) + 1
        /\ ~CountedTwice' =>
              ~CountedTwice /\ Cardinality(Reported') = Cardinality(Reported) + 1
    BY <1>1, OneMore DEF IndInv
  <2>3. /\ count + InReport(stack) >= Cardinality(Reported)
        /\ ~CountedTwice => count + InReport(stack) = Cardinality(Reported)
    BY DEF IndInv, Counting
  <2>4. /\ count' + InReport(stack') >= Cardinality(Reported')
        /\ ~CountedTwice' => count' + InReport(stack') = Cardinality(Reported')
    <3>1. count' + InReport(stack') = count + InReport(stack) + 1
      BY <1>1
    <3>2. count + InReport(stack) \in Nat
      <4>1. InReport(stack) \in Nat
        BY <1>1
      <4> QED BY ONLY <1>4, <4>1
    <3> DEFINE now == count + InReport(stack)
               next == count' + InReport(stack')
    <3> HIDE DEF now, next
    <3>3. /\ now \in Nat /\ next = now + 1
          /\ now >= Cardinality(Reported)
          /\ ~CountedTwice => now = Cardinality(Reported)
      BY ONLY <2>3, <3>1, <3>2 DEF now, next
    <3>4. /\ next >= Cardinality(Reported')
          /\ ~CountedTwice' => next = Cardinality(Reported')
      BY ONLY <2>2, <3>3
    <3> QED BY ONLY <3>4 DEF next
  <2> QED BY <2>1, <2>4 DEF Counting
<1>10. Unreported'
  BY <1>1, <1>2, <1>3, <1>4 DEF IndInv, Unreported
<1>11. FirstResult'
  <2>1. parent /\ ~asked => HasResult'
    BY <1>5, <1>6 DEF Finished
  <2>2. CancelledWithin(stack') => HasResult'
    BY <1>1, <1>5 DEF IndInv, FirstResult
  <2> QED BY <1>2, <2>1, <2>2 DEF FirstResult
<1>12. NeedAll'
  <2>1. ASSUME kind # "anyOf", ~asked, exception' = 0
        PROVE  /\ ~Has(stack', "cancel")
               /\ \A j \in Child : state'[j] \in {"NotStarted", "Running", "Succeeded"}
    <3>1. exception = 0 /\ ~fails
      BY <1>1, <1>4, <2>1
    <3>2. /\ ~Has(stack, "cancel")
          /\ \A j \in Child : state[j] \in {"NotStarted", "Running", "Succeeded"}
      BY <2>1, <3>1 DEF IndInv, NeedAll
    <3>3. e = "Succeeded"
      BY <2>1, <3>1 DEF Finished
    <3>4. ~(CancelRest(fails /\ exception = 0) /\ count + 1 # N)
      BY <2>1, <3>1 DEF CancelRest, MinReady
    <3> QED BY <1>1, <1>3, <3>2, <3>3, <3>4
  <2> QED BY <1>2, <2>1 DEF IndInv, NeedAll
<1>13. ExceptionKept'
  <2>1. ASSUME exception' # 0 PROVE state'[exception'] = "Failed"
    <3>1. CASE fails /\ exception = 0
      BY <1>1, <1>3, <3>1
    <3>2. CASE ~(fails /\ exception = 0)
      <4>1. exception' = exception /\ exception \in Child /\ state[exception] = "Failed"
        BY <1>1, <2>1, <3>2 DEF IndInv, Typed, ExceptionKept
      <4> QED BY <1>3, <4>1
    <3> QED BY <3>1, <3>2
  <2>2. ASSUME exception' = 0 PROVE \A j \in Child : state'[j] # "Failed"
    <3>1. exception = 0 /\ ~fails
      BY <1>1, <1>4, <2>2
    <3> QED BY <1>3, <3>1 DEF IndInv, ExceptionKept
  <2> QED BY <2>1, <2>2 DEF ExceptionKept
<1>14. Telling'
  <2>1. /\ resumed \in Nat /\ resumed <= 1 /\ (resumed > 0 => count >= N)
        /\ Has(stack, "outerCancel") =>
              ~parent /\ resumed = 0 /\ asked /\ bound /\ phase = "suspended"
        /\ OneOuter(stack)
    BY DEF IndInv, Typed, Telling
  <2>2. resumed' <= 1 /\ (resumed' > 0 => count' >= N)
    BY ONLY <1>1, <1>4, <2>1
  <2>3. Has(stack', "outerCancel") => ~parent /\ resumed' = 0
    BY <1>1, <2>1
  <2> QED BY <1>1, <1>2, <2>1, <2>2, <2>3 DEF Telling
<1>15. Answers'
  <2>1. CountedTwice => CountedTwice'
    BY <1>4 DEF CountedTwice
  <2>2. (\A j \in Child : state[j] \in Finished) => \A j \in Child : state'[j] \in Finished
    BY <1>3
  <2>3. ASSUME phase = "aborted"
        PROVE  /\ resumed' = 0 /\ \A j \in Child : state'[j] = "Cancelled"
               /\ count' >= N \/ stack' = <<>>
    <3>1. resumed = 0 /\ (\A j \in Child : state[j] = "Cancelled") /\ count >= N
      BY <2>3 DEF IndInv, Answers, Finished
    <3>2. \A j \in Child : state'[j] = "Cancelled"
      BY <1>3, <3>1 DEF Finished
    <3> QED BY <1>1, <1>4, <3>1, <3>2
  <2>4. ASSUME ~CountedTwice', phase \in {"cancelled", "done"}
        PROVE  /\ \A j \in Child : state'[j] \in Finished
               /\ MustResume' <=> MustResume
    <3>1. \A j \in Child : state[j] \in Finished
      BY <2>1, <2>4 DEF IndInv, Answers
    <3>2. /\ ~fails
          /\ \A j \in Child : state'[j] = state[j]
      BY <1>3, <3>1 DEF Finished
    <3>3. exception' = exception
      BY <1>1, <3>2
    <3> QED BY <1>2, <3>1, <3>2, <3>3 DEF MustResume
  <2>5. /\ Has(stack, "report") => phase = "immediate"
        /\ phase = "immediate" =>
              /\ ~parent
              /\ Has(stack, "report") \/ \A j \in Child : state[j] \in Finished
        /\ phase = "suspended" /\ ~asked => parent
        /\ ~CountedTwice /\ phase = "done" /\ asked => MustResume
        /\ ~CountedTwice /\ phase = "done" /\ ~asked /\ parent => HasResult
        /\ ~CountedTwice /\ phase = "cancelled" => ~MustResume
    BY DEF IndInv, Answers
  <2>6. Has(stack', "report") <=> Has(stack, "report")
    BY <1>1
  <2> QED BY <1>2, <1>5, <2>1, <2>2, <2>3, <2>4, <2>5, <2>6 DEF Answers
<1> QED BY <1>1, <1>7, <1>8, <1>9, <1>10, <1>11, <1>12, <1>13, <1>14, <1>15 DEF IndInv

\* Nobody finishes and nobody reports: a child is started or asked to stop,
\* or a call or loop is over that counts nothing.
LEMMA QuietInd ==
    ASSUME IndInv, stack # <<>>, NEW b \in Seq(StackFrame), stack' = b,
           UNCHANGED <<given, bound, count, exception, parent, resumed, asked,
                       phase, reports>>,
           state' \in [Child -> ChildState],
           \A j \in Child : state[j] \in Finished \/ state'[j] \in Finished
                                => state'[j] = state[j],
           SameLoops(b, stack), Fits(b, state'),
           Has(b, "report") => Has(stack, "report"),
           Has(stack, "report") =>
               Has(b, "report") \/ \A j \in Child : state'[j] \in Finished,
           ~bound =>
               /\ Len(b) <= 1 /\ \A k \in 1..Len(b) : b[k].at = "earlyCancel"
               /\ \A j \in Child : state'[j] \in
                     {"NotStarted", "CancellationPending", "Cancelled"}
               /\ asked,
           ~asked /\ ~Has(stack, "cancel") =>
               \A j \in Child : \/ state'[j] = state[j]
                                \/ state[j] = "NotStarted" /\ state'[j] = "Running"
                                \/ state[j] = "CancellationPending"
    PROVE  IndInv'
<1>1. /\ kind' = kind /\ skippable' = skippable /\ available' = available
      /\ bound' = bound /\ count' = count /\ exception' = exception
      /\ parent' = parent /\ resumed' = resumed /\ asked' = asked
      /\ phase' = phase /\ reports' = reports
  BY DEF given
<1>2. /\ \A at \in {"earlyCancel", "outerCancel", "cancel"} :
            Has(stack', at) <=> Has(stack, at)
      /\ InReport(stack') = InReport(stack)
      /\ CancelledWithin(stack') => CancelledWithin(stack)
      /\ OneOuter(stack) => OneOuter(stack')
  BY DEF SameLoops, CancelLoops
<1>3. /\ CountedTwice' <=> CountedTwice
      /\ Reported' = Reported
  BY <1>1 DEF CountedTwice, Reported
<1>4. HasResult' <=> HasResult
  BY DEF HasResult, Finished
<1>5. Typed'
  BY <1>1 DEF IndInv, Typed
<1>6. Unbound'
  BY <1>1, <1>2 DEF IndInv, Unbound
<1>7. Counting'
  <2>1. \A j \in Child : reports'[j] > 0 => state'[j] \in Finished
    BY <1>1 DEF IndInv, Counting
  <2>2. /\ count + InReport(stack) >= Cardinality(Reported)
        /\ ~CountedTwice => count + InReport(stack) = Cardinality(Reported)
    BY DEF IndInv, Counting
  <2> QED BY <1>1, <1>2, <1>3, <2>1, <2>2 DEF Counting
<1>8. Unreported'
  BY <1>1, <1>2 DEF IndInv, Unreported
<1>9. FirstResult'
  <2>1. ASSUME parent, ~asked, ~HasResult
        PROVE  /\ ~Has(stack', "cancel")
               /\ \A j \in Child :
                     state'[j] \in {"NotStarted", "Running"} /\ reports'[j] = 0
    <3>1. /\ ~Has(stack, "cancel")
          /\ \A j \in Child : state[j] \in {"NotStarted", "Running"} /\ reports[j] = 0
      BY <2>1 DEF IndInv, FirstResult
    <3> QED BY <1>1, <1>2, <2>1, <3>1
  <2>2. CancelledWithin(stack') => HasResult'
    BY <1>2, <1>4 DEF IndInv, FirstResult
  <2> QED BY <1>1, <1>4, <2>1, <2>2 DEF FirstResult
<1>10. NeedAll'
  <2>1. ASSUME kind # "anyOf", ~asked, exception = 0
        PROVE  /\ ~Has(stack', "cancel")
               /\ \A j \in Child : state'[j] \in {"NotStarted", "Running", "Succeeded"}
    <3>1. /\ ~Has(stack, "cancel")
          /\ \A j \in Child : state[j] \in {"NotStarted", "Running", "Succeeded"}
      BY <2>1 DEF IndInv, NeedAll
    <3> QED BY <1>2, <2>1, <3>1
  <2> QED BY <1>1, <2>1 DEF IndInv, NeedAll
<1>11. ExceptionKept'
  <2>1. exception \in Child \cup {0}
    BY DEF IndInv, Typed
  <2> QED BY <1>1, <2>1 DEF IndInv, ExceptionKept, Finished
<1>12. Telling'
  BY <1>1, <1>2 DEF IndInv, Telling
<1>13. Answers'
  <2>1. (\A j \in Child : state[j] \in Finished) => \A j \in Child : state'[j] \in Finished
    OBVIOUS
  <2>2. MustResume' <=> MustResume
    BY <1>1 DEF MustResume, Finished
  <2>3. /\ Has(stack, "report") => phase = "immediate"
        /\ phase = "immediate" =>
              /\ ~parent
              /\ Has(stack, "report") \/ \A j \in Child : state[j] \in Finished
        /\ phase = "suspended" /\ ~asked => parent
        /\ phase = "aborted" =>
              resumed = 0 /\ (\A j \in Child : state[j] = "Cancelled") /\ count >= N
        /\ ~CountedTwice /\ phase \in {"cancelled", "done"} =>
              \A j \in Child : state[j] \in Finished
        /\ ~CountedTwice /\ phase = "done" /\ asked => MustResume
        /\ ~CountedTwice /\ phase = "done" /\ ~asked /\ parent => HasResult
        /\ ~CountedTwice /\ phase = "cancelled" => ~MustResume
    BY DEF IndInv, Answers
  <2>4. (\A j \in Child : state[j] = "Cancelled") => \A j \in Child : state'[j] = "Cancelled"
    BY DEF Finished
  <2> QED BY <1>1, <1>3, <1>4, <2>1, <2>2, <2>3, <2>4 DEF Answers
<1> QED BY <1>5, <1>6, <1>7, <1>8, <1>9, <1>10, <1>11, <1>12, <1>13 DEF IndInv

----------------------------------------------------------------------------
(* The innermost call.                                                     *)

LEMMA TopOf ==
    ASSUME IndInv, NEW at, NEW i, At(at, i)
    PROVE  /\ stack \in Seq(StackFrame) /\ stack # <<>>
           /\ Head(stack) \in StackFrame /\ Head(stack) = stack[1]
           /\ Head(stack).at = at /\ Head(stack).next = i
           /\ 1 \in 1..Len(stack) /\ Has(stack, at)
<1>1. stack \in Seq(StackFrame) /\ stack # <<>>
  BY DEF IndInv, Typed, At
<1>2. /\ Head(stack) \in StackFrame /\ Head(stack) = stack[1]
      /\ 1 \in 1..Len(stack)
  BY <1>1, Returned
<1>3. Head(stack).at = at /\ Head(stack).next = i
  BY DEF At, Top
<1>4. Has(stack, at)
  BY ONLY <1>2, <1>3 DEF Has
<1> QED BY <1>1, <1>2, <1>3, <1>4

\* Everything but await_early_cancel() happens to children that know the mux.
LEMMA BoundBy ==
    ASSUME IndInv, NEW at, Has(stack, at), at # "earlyCancel"
    PROVE  bound
<1>1. PICK k \in 1..Len(stack) : stack[k].at = at
  BY DEF Has
<1> QED BY <1>1 DEF IndInv, Unbound

\* The loop goes on to the next child.
LEMMA GoesOn ==
    ASSUME IndInv, NEW at \in Loops, NEW i \in Child, At(at, i),
           NEW c \in BOOLEAN, NEW g, Further(state, g),
           at \in CancelLoops /\ c => g[i] = "Cancelled",
           at = "report" => g[i] \in Finished
    PROVE  /\ Advance(stack, c) \in Seq(StackFrame)
           /\ SameLoops(Advance(stack, c), stack)
           /\ Has(Advance(stack, c), "report") <=> Has(stack, "report")
           /\ Fits(Advance(stack, c), g)
           /\ Len(Advance(stack, c)) = Len(stack)
           /\ \A k \in 1..Len(stack) : Advance(stack, c)[k].at = stack[k].at
<1>1. /\ stack \in Seq(StackFrame) /\ stack # <<>>
      /\ Head(stack).at = at /\ Head(stack).next = i
  BY TopOf
<1>2. Head(stack).next \in Child /\ Head(stack).next <= N
  BY <1>1 DEF Child
<1>3. Fits(stack, g)
  BY FitsFurther DEF IndInv
<1>4. Fits(Advance(stack, c), g)
  BY <1>1, <1>2, <1>3, FitsAdvanced
<1> QED BY <1>1, <1>2, <1>4, Advanced, SameAdvanced, HasAdvanced

\* await_cancel() of a child returns to the loop that called it.
LEMMA ReturnsToLoop ==
    ASSUME IndInv, NEW i \in Child, At("await_cancel", i),
           NEW c \in BOOLEAN, NEW g, Further(state, g), c => g[i] = "Cancelled"
    PROVE  /\ Advance(Tail(stack), c) \in Seq(StackFrame)
           /\ SameLoops(Advance(Tail(stack), c), stack)
           /\ Has(Advance(Tail(stack), c), "report") <=> Has(stack, "report")
           /\ Fits(Advance(Tail(stack), c), g)
<1> DEFINE s == Tail(stack)
<1>1. /\ stack \in Seq(StackFrame) /\ stack # <<>> /\ Head(stack) = stack[1]
      /\ Head(stack).at = "await_cancel" /\ Head(stack).next = i
      /\ 1 \in 1..Len(stack)
  BY TopOf
<1>2. /\ s \in Seq(StackFrame) /\ Len(s) \in Nat /\ Len(stack) = Len(s) + 1
      /\ \A k \in 1..Len(s) : s[k] = stack[k + 1]
  BY <1>1, Returned
<1>3. 1 + 1 \in 1..Len(stack) /\ stack[1 + 1].at \in CancelLoops /\ stack[1 + 1].next = i
  <2>1. Fits(stack, state)
    BY DEF IndInv
  <2>2. stack[1].at = "await_cancel" =>
            /\ 1 + 1 \in 1..Len(stack)
            /\ stack[1 + 1].at \in CancelLoops /\ stack[1 + 1].next = stack[1].next
    BY ONLY <1>1, <2>1 DEF Fits
  <2> QED BY ONLY <1>1, <2>2
<1>4. 1 \in 1..Len(s) /\ s # <<>>
  <2>1. Len(s) >= 1
    BY ONLY <1>2, <1>3
  <2>2. s # <<>>
    <3>1. Len(<<>>) = 0
      BY EmptySeq
    <3>2. Len(s) # 0
      BY <1>2, <2>1
    <3> QED BY <3>1, <3>2, Zenon
  <2>3. 1 \in 1..Len(s)
    BY <1>2, <2>1
  <2> QED BY <2>2, <2>3
<1>5. Head(s) = s[1] /\ s[1] = stack[1 + 1]
  BY <1>2, <1>4, Returned
<1>6. SameLoops(s, stack)
  BY <1>1, SameReturned DEF CancelLoops
<1>7. Has(s, "report") <=> Has(stack, "report")
  BY <1>1, HasReturned
<1>8. Fits(s, g)
  BY <1>1, FitsReturned, FitsFurther DEF IndInv
<1> HIDE DEF s
<1>9. /\ Head(s).at \in CancelLoops /\ Head(s).at \in Loops /\ Head(s).at # "report"
      /\ Head(s).next \in Child /\ Head(s).next <= N /\ Head(s).next = i
  BY <1>3, <1>5 DEF Child, CancelLoops, Loops
<1>10. Fits(Advance(s, c), g)
  BY <1>2, <1>4, <1>8, <1>9, FitsAdvanced
<1>11. SameLoops(Advance(s, c), stack)
  <2>1. SameLoops(Advance(s, c), s)
    BY <1>2, <1>4, <1>9, SameAdvanced
  <2> QED BY <1>6, <2>1, SameTransitive
<1>12. Has(Advance(s, c), "report") <=> Has(stack, "report")
  BY <1>2, <1>4, <1>7, <1>9, HasAdvanced
<1>13. Advance(s, c) \in Seq(StackFrame)
  BY <1>2, <1>4, <1>9, Advanced
<1> QED BY <1>10, <1>11, <1>12, <1>13 DEF s

\* A child that finishes is further.
LEMMA FinishedIsFurther ==
    ASSUME Typed, NEW i \in Child, NEW e \in Finished,
           state' = [state EXCEPT ![i] = e],
           \/ state[i] \notin Finished
           \/ state[i] = "Cancelled" /\ e = "Cancelled"
    PROVE  Further(state, state') /\ state'[i] = e
<1>1. /\ state'[i] = e
      /\ \A j \in Child : j # i => state'[j] = state[j]
  BY DEF Typed
<1> QED BY <1>1 DEF Further, Finished

\* A child finishes in a loop, which goes on.
LEMMA FinishesInLoop ==
    ASSUME IndInv, NEW at \in Loops, NEW i \in Child, At(at, i), NEW e \in Finished,
           NEW fails \in BOOLEAN, fails <=> e = "Failed",
           bound, UNCHANGED <<given, bound, parent, asked, phase>>,
           state' = [state EXCEPT ![i] = e],
           Invoke(i, fails, Advance(stack, TRUE)),
           at \in CancelLoops => e = "Cancelled",
           \/ state[i] \notin Finished
           \/ state[i] = "Cancelled" /\ e = "Cancelled",
           e = "Cancelled" /\ parent /\ ~asked => HasResult,
           e = "Cancelled" /\ kind # "anyOf" /\ ~asked => exception # 0
    PROVE  IndInv'
<1>1. Further(state, state') /\ state'[i] = e
  BY FinishedIsFurther DEF IndInv
<1>2. /\ Advance(stack, TRUE) \in Seq(StackFrame)
      /\ SameLoops(Advance(stack, TRUE), stack)
      /\ Has(Advance(stack, TRUE), "report") <=> Has(stack, "report")
      /\ Fits(Advance(stack, TRUE), state')
  BY <1>1, GoesOn
<1>3. stack # <<>>
  BY TopOf
<1> QED BY <1>2, <1>3, ReportInd

\* How a child that reports its result finishes ...
LEMMA HowItReports ==
    ASSUME NEW i \in Child, NEW b, ReportResult(i, b)
    PROVE  \E e \in {"Succeeded", "Failed"}, fails \in BOOLEAN :
              /\ fails <=> e = "Failed"
              /\ state' = [state EXCEPT ![i] = e]
              /\ Invoke(i, fails, b)
<1>1. PICK fails \in BOOLEAN :
          /\ state' = [state EXCEPT ![i] = IF fails THEN "Failed" ELSE "Succeeded"]
          /\ Invoke(i, fails, b)
  BY DEF ReportResult
<1>2. CASE fails
  <2>1. state' = [state EXCEPT ![i] = "Failed"]
    BY <1>1, <1>2
  <2> QED BY <1>1, <1>2, <2>1
<1>3. CASE ~fails
  <2>1. state' = [state EXCEPT ![i] = "Succeeded"]
    BY <1>1, <1>3
  <2> QED BY <1>1, <1>3, <2>1
<1> QED BY <1>2, <1>3

\* ... and one that is resumed.
LEMMA HowItFinishes ==
    ASSUME NEW i \in Child, NEW from, NEW b, ChildResumed(i, from, b)
    PROVE  \E e \in Finished, fails \in BOOLEAN :
              /\ fails <=> e = "Failed"
              /\ state' = [state EXCEPT ![i] = e]
              /\ Invoke(i, fails, b)
              /\ e = "Cancelled" => from = "Cancelling"
<1>1. PICK must \in Musts(from) :
          IF must THEN ReportResult(i, b)
          ELSE /\ state' = [state EXCEPT ![i] = "Cancelled"]
               /\ Invoke(i, FALSE, b)
  BY DEF ChildResumed
<1>2. CASE must
  <2>1. PICK e \in {"Succeeded", "Failed"}, fails \in BOOLEAN :
            /\ fails <=> e = "Failed"
            /\ state' = [state EXCEPT ![i] = e]
            /\ Invoke(i, fails, b)
    BY <1>1, <1>2, HowItReports
  <2>2. e \in Finished /\ e # "Cancelled"
    BY DEF Finished
  <2> QED BY <2>1, <2>2
<1>3. CASE ~must
  <2>1. from = "Cancelling"
    BY <1>3 DEF Musts
  <2>2. state' = [state EXCEPT ![i] = "Cancelled"] /\ Invoke(i, FALSE, b)
    BY <1>1, <1>3
  <2> QED BY <2>1, <2>2 DEF Finished
<1> QED BY <1>2, <1>3

----------------------------------------------------------------------------
(* Each step at which a child reports keeps the invariant.                 *)

\* A child that is being cancelled, or was, has a reason: a result, or a
\* request.
LEMMA CancelledForAReason ==
    ASSUME IndInv, NEW i \in Child,
           state[i] \notin {"NotStarted", "Running", "Succeeded", "Failed"}
    PROVE  /\ parent /\ ~asked => HasResult
           /\ kind # "anyOf" /\ ~asked => exception # 0
BY DEF IndInv, FirstResult, NeedAll

\* So has a loop that cancels.
LEMMA LoopForAReason ==
    ASSUME IndInv, NEW at \in CancelLoops, Has(stack, at)
    PROVE  /\ parent /\ ~asked => HasResult
           /\ kind # "anyOf" /\ ~asked => exception # 0
<1>1. at = "cancel" \/ asked
  BY DEF IndInv, Unbound, Telling, CancelLoops
<1>2. CASE at = "cancel"
  BY <1>2 DEF IndInv, FirstResult, NeedAll
<1> QED BY <1>1, <1>2

LEMMA KickOffReadyInd ==
    ASSUME IndInv, NEW i \in Child, KickOffReady(i)
    PROVE  IndInv'
<1>1. /\ At("suspend", i) /\ "suspend" \in Loops /\ "suspend" \notin CancelLoops
      /\ state[i] \in {"NotStarted", "CancellationPending"}
      /\ ChildResumed(i, Started(i), Advance(stack, TRUE))
      /\ UNCHANGED <<given, bound, parent, asked, phase>>
  BY DEF KickOffReady, Loops, CancelLoops
<1>2. bound
  BY <1>1, TopOf, BoundBy
<1> DEFINE from == Started(i)
           b == Advance(stack, TRUE)
<1>3. ChildResumed(i, from, b)
  BY <1>1
<1>4. from = "Cancelling" => state[i] = "CancellationPending"
  BY <1>1 DEF Started
<1> HIDE DEF from, b
<1>5. PICK e \in Finished, fails \in BOOLEAN :
          /\ fails <=> e = "Failed"
          /\ state' = [state EXCEPT ![i] = e]
          /\ Invoke(i, fails, b)
          /\ e = "Cancelled" => from = "Cancelling"
  BY <1>3, HowItFinishes
<1>6. state[i] \notin Finished
  BY <1>1 DEF Finished
<1>7. e = "Cancelled" => state[i] = "CancellationPending"
  BY <1>5, <1>4
<1>8. /\ e = "Cancelled" /\ parent /\ ~asked => HasResult
      /\ e = "Cancelled" /\ kind # "anyOf" /\ ~asked => exception # 0
  BY <1>7, CancelledForAReason
<1> QED BY <1>1, <1>2, <1>5, <1>6, <1>8, FinishesInLoop DEF b

LEMMA SuspendCancelledInd ==
    ASSUME IndInv, NEW i \in Child, SuspendCancelled(i)
    PROVE  IndInv'
<1>1. /\ At("suspend", i) /\ "suspend" \in Loops /\ "suspend" \notin CancelLoops
      /\ state[i] = "Cancelled" /\ "Cancelled" \in Finished /\ "Cancelled" # "Failed"
      /\ Invoke(i, FALSE, Advance(stack, TRUE)) /\ state' = state
      /\ UNCHANGED <<given, bound, parent, asked, phase>>
  BY DEF SuspendCancelled, Loops, CancelLoops, Finished
<1>2. bound
  BY <1>1, TopOf, BoundBy
<1>3. state' = [state EXCEPT ![i] = "Cancelled"]
  BY <1>1 DEF IndInv, Typed
<1>4. /\ parent /\ ~asked => HasResult
      /\ kind # "anyOf" /\ ~asked => exception # 0
  BY <1>1, CancelledForAReason
<1> QED BY <1>1, <1>2, <1>3, <1>4, FinishesInLoop

LEMMA SuspendThrowsInd ==
    ASSUME IndInv, NEW i \in Child, SuspendThrows(i)
    PROVE  IndInv'
<1>1. /\ At("await_suspend", i) /\ "await_suspend" \notin CancelLoops
      /\ state[i] \notin Finished /\ "Failed" \in Finished
      /\ state' = [state EXCEPT ![i] = "Failed"]
      /\ Invoke(i, TRUE, Tail(stack))
      /\ UNCHANGED <<given, bound, parent, asked, phase>>
  BY DEF SuspendThrows, Finished, CancelLoops
<1>2. /\ stack \in Seq(StackFrame) /\ stack # <<>> /\ Head(stack).at = "await_suspend"
      /\ Tail(stack) \in Seq(StackFrame)
  BY <1>1, TopOf, Returned
<1>3. bound
  BY <1>1, TopOf, BoundBy
<1>4. SameLoops(Tail(stack), stack)
  BY <1>1, <1>2, SameReturned
<1>5. Has(Tail(stack), "report") <=> Has(stack, "report")
  BY <1>2, HasReturned
<1>6. Fits(Tail(stack), state')
  <2>1. Further(state, state')
    BY <1>1, FinishedIsFurther DEF IndInv
  <2> QED BY <1>2, <2>1, FitsReturned, FitsFurther DEF IndInv
<1> QED BY <1>1, <1>2, <1>3, <1>4, <1>5, <1>6, ReportInd

LEMMA CompleteInd ==
    ASSUME IndInv, NEW i \in Child, Complete(i)
    PROVE  IndInv'
<1>1. /\ state[i] \in {"Running", "Cancelling"} /\ state[i] \notin Finished
      /\ ChildResumed(i, state[i], stack)
      /\ UNCHANGED <<given, bound, parent, asked, phase>>
  BY DEF Complete, Finished
<1>2. bound /\ stack \in Seq(StackFrame)
  BY <1>1 DEF IndInv, Unbound, Typed
<1>3. PICK e \in Finished, fails \in BOOLEAN :
          /\ fails <=> e = "Failed"
          /\ state' = [state EXCEPT ![i] = e]
          /\ Invoke(i, fails, stack)
          /\ e = "Cancelled" => state[i] = "Cancelling"
  BY <1>1, HowItFinishes
<1>4. /\ e = "Cancelled" /\ parent /\ ~asked => HasResult
      /\ e = "Cancelled" /\ kind # "anyOf" /\ ~asked => exception # 0
  BY <1>3, CancelledForAReason
<1>5. SameLoops(stack, stack)
  BY DEF SameLoops
<1>6. Fits(stack, state')
  <2>1. Further(state, state')
    BY <1>1, <1>3, FinishedIsFurther DEF IndInv
  <2> QED BY <2>1, FitsFurther DEF IndInv
<1> QED BY <1>1, <1>2, <1>3, <1>4, <1>5, <1>6, ReportInd

LEMMA AwaitCancelTrueInd ==
    ASSUME IndInv, NEW i \in Child, AwaitCancelTrue(i)
    PROVE  IndInv'
<1>1. /\ At("await_cancel", i)
      /\ state[i] = "Cancelling" /\ state[i] \notin Finished
      /\ "Cancelled" \in Finished /\ "Cancelled" # "Failed"
      /\ state' = [state EXCEPT ![i] = "Cancelled"]
      /\ Invoke(i, FALSE, Advance(Tail(stack), TRUE))
      /\ UNCHANGED <<given, bound, parent, asked, phase>>
  BY DEF AwaitCancelTrue, Finished
<1>2. bound
  BY <1>1, TopOf, BoundBy
<1>3. Further(state, state') /\ state'[i] = "Cancelled"
  BY <1>1, FinishedIsFurther DEF IndInv
<1>4. /\ Advance(Tail(stack), TRUE) \in Seq(StackFrame)
      /\ SameLoops(Advance(Tail(stack), TRUE), stack)
      /\ Has(Advance(Tail(stack), TRUE), "report") <=> Has(stack, "report")
      /\ Fits(Advance(Tail(stack), TRUE), state')
  BY <1>1, <1>3, ReturnsToLoop
<1>5. /\ parent /\ ~asked => HasResult
      /\ kind # "anyOf" /\ ~asked => exception # 0
  BY <1>1, CancelledForAReason
<1> QED BY <1>1, <1>2, <1>4, <1>5, ReportInd

LEMMA CancelBoundInd ==
    ASSUME IndInv, NEW i \in Child, CancelUnstarted(i), bound
    PROVE  IndInv'
<1>1. PICK at \in CancelLoops : At(at, i)
  BY DEF CancelUnstarted, ToCancel, CancelLoops
<1>2. /\ at \in Loops /\ at # "report"
      /\ state[i] \notin Finished
      /\ "Cancelled" \in Finished /\ "Cancelled" # "Failed"
      /\ state' = [state EXCEPT ![i] = "Cancelled"]
      /\ Invoke(i, FALSE, Advance(stack, TRUE))
      /\ UNCHANGED <<given, bound, parent, asked, phase>>
  BY DEF CancelUnstarted, Finished, CancelLoops, Loops
<1>3. /\ parent /\ ~asked => HasResult
      /\ kind # "anyOf" /\ ~asked => exception # 0
  BY <1>1, TopOf, LoopForAReason
<1> QED BY <1>1, <1>2, <1>3, FinishesInLoop

LEMMA ReportUnneededInd ==
    ASSUME IndInv, NEW i \in Child, ReportUnneeded(i)
    PROVE  IndInv'
<1>1. /\ At("report", i) /\ "report" \in Loops /\ "report" \notin CancelLoops
      /\ "Cancelled" \in Finished /\ "Cancelled" # "Failed"
      /\ \/ state[i] = "Cancelled" /\ state' = state
         \/ /\ state[i] = "NotStarted" /\ i \notin available
            /\ state' = [state EXCEPT ![i] = "Cancelled"]
      /\ Invoke(i, FALSE, Advance(stack, TRUE))
      /\ UNCHANGED <<given, bound, parent, asked, phase>>
  BY DEF ReportUnneeded, Loops, CancelLoops, Finished
<1>2. bound /\ phase = "immediate" /\ ~parent
  BY <1>1, TopOf, BoundBy DEF IndInv, Answers
<1>3. state' = [state EXCEPT ![i] = "Cancelled"]
  BY <1>1 DEF IndInv, Typed
<1>4. state[i] = "Cancelled" \/ state[i] \notin Finished
  BY <1>1 DEF Finished
<1>5. kind # "anyOf" /\ ~asked => exception # 0
  <2>1. CASE state[i] = "Cancelled"
    BY <2>1, CancelledForAReason
  <2>2. CASE i \notin available
    BY <1>2, <2>2 DEF IndInv, NeedAll
  <2> QED BY <1>1, <2>1, <2>2
<1> QED BY <1>1, <1>2, <1>3, <1>4, <1>5, FinishesInLoop

LEMMA ReportReadyInd ==
    ASSUME IndInv, NEW i \in Child, ReportReady(i)
    PROVE  IndInv'
<1>1. /\ At("report", i) /\ "report" \in Loops /\ "report" \notin CancelLoops
      /\ state[i] \notin Finished
      /\ ReportResult(i, Advance(stack, TRUE))
      /\ UNCHANGED <<given, bound, parent, asked, phase>>
  BY DEF ReportReady, Loops, CancelLoops, Finished
<1>2. bound
  BY <1>1, TopOf, BoundBy
<1>3. PICK e \in {"Succeeded", "Failed"}, fails \in BOOLEAN :
          /\ fails <=> e = "Failed"
          /\ state' = [state EXCEPT ![i] = e]
          /\ Invoke(i, fails, Advance(stack, TRUE))
  BY <1>1, HowItReports
<1>4. e \in Finished /\ e # "Cancelled"
  BY DEF Finished
<1> QED BY <1>1, <1>2, <1>3, <1>4, FinishesInLoop

LEMMA ReportDroppedInd ==
    ASSUME IndInv, NEW i \in Child, ReportDropped(i)
    PROVE  IndInv'
<1>1. /\ At("report", i) /\ "report" \in Loops /\ "report" \notin CancelLoops
      /\ state[i] = "CancellationPending" /\ state[i] \notin Finished
      /\ "Cancelled" \in Finished /\ "Cancelled" # "Failed"
      /\ state' = [state EXCEPT ![i] = "Cancelled"]
      /\ Invoke(i, FALSE, Advance(stack, TRUE))
      /\ UNCHANGED <<given, bound, parent, asked, phase>>
  BY DEF ReportDropped, Loops, CancelLoops, Finished
<1>2. bound
  BY <1>1, TopOf, BoundBy
<1>3. /\ parent /\ ~asked => HasResult
      /\ kind # "anyOf" /\ ~asked => exception # 0
  BY <1>1, CancelledForAReason
<1> QED BY <1>1, <1>2, <1>3, FinishesInLoop

----------------------------------------------------------------------------
(* Each step at which nobody reports keeps the invariant.                  *)

\* A child that has not finished is in another state before it finishes.
LEMMA ChangesState ==
    ASSUME Typed, NEW i \in Child, state[i] \notin Finished,
           NEW e \in ChildState, e \notin Finished,
           state' = [state EXCEPT ![i] = e]
    PROVE  /\ state' \in [Child -> ChildState] /\ state'[i] = e
           /\ \A j \in Child : j # i => state'[j] = state[j]
           /\ \A j \in Child : state[j] \in Finished \/ state'[j] \in Finished
                                  => state'[j] = state[j]
           /\ Further(state, state')
<1>1. /\ state' \in [Child -> ChildState] /\ state'[i] = e
      /\ \A j \in Child : j # i => state'[j] = state[j]
  BY DEF Typed
<1> QED BY <1>1 DEF Further, Finished

LEMMA KickOffInd ==
    ASSUME IndInv, NEW i \in Child, KickOff(i)
    PROVE  IndInv'
<1> DEFINE c == Frame("await_suspend", i)
           a == Advance(stack, TRUE)
<1>1. /\ At("suspend", i) /\ "suspend" \in Loops /\ "suspend" \notin CancelLoops
      /\ state[i] \in {"NotStarted", "CancellationPending"} /\ state[i] \notin Finished
      /\ state' = [state EXCEPT ![i] = Started(i)]
      /\ stack' = <<c>> \o a
      /\ UNCHANGED <<given, bound, count, exception, parent, resumed, asked,
                     phase, reports>>
  BY DEF KickOff, Loops, CancelLoops, Finished
<1>2. bound /\ stack # <<>> /\ stack \in Seq(StackFrame)
  BY <1>1, TopOf, BoundBy
<1>3. /\ Started(i) \in ChildState /\ Started(i) \notin Finished
      /\ state[i] = "NotStarted" => Started(i) = "Running"
  BY DEF Started, ChildState, Finished
<1>4. /\ state' \in [Child -> ChildState] /\ state'[i] = Started(i)
      /\ \A j \in Child : j # i => state'[j] = state[j]
      /\ \A j \in Child : state[j] \in Finished \/ state'[j] \in Finished
                             => state'[j] = state[j]
      /\ Further(state, state')
  BY <1>1, <1>3, ChangesState DEF IndInv
<1>5. /\ a \in Seq(StackFrame) /\ SameLoops(a, stack) /\ Fits(a, state')
      /\ Has(a, "report") <=> Has(stack, "report")
  BY <1>1, <1>4, GoesOn
<1>6. /\ c \in StackFrame /\ c.at = "await_suspend" /\ c.at \notin CancelLoops
      /\ c.at # "await_cancel" /\ c.at # "report"
  BY DEF Frame, StackFrame, Calls, CancelLoops, Child
<1> HIDE DEF a, c
<1>7. SameLoops(<<c>> \o a, stack)
  BY <1>5, <1>6, SameCalled, SameTransitive
<1>8. Has(<<c>> \o a, "report") <=> Has(stack, "report")
  BY <1>5, <1>6, HasPushed
<1>9. <<c>> \o a \in Seq(StackFrame) /\ Fits(<<c>> \o a, state')
  BY <1>5, <1>6, Pushed, FitsPushed
<1>10. \A j \in Child : \/ state'[j] = state[j]
                        \/ state[j] = "NotStarted" /\ state'[j] = "Running"
                        \/ state[j] = "CancellationPending"
  BY <1>1, <1>3, <1>4
<1> QED BY <1>1, <1>2, <1>4, <1>7, <1>8, <1>9, <1>10, QuietInd

\* Calls and loops that are over when no child changes.
LEMMA NothingChanges ==
    ASSUME IndInv, UNCHANGED state
    PROVE  /\ state' \in [Child -> ChildState]
           /\ Further(state, state')
           /\ \A j \in Child : state'[j] = state[j]
BY DEF IndInv, Typed, Further

LEMMA SuspendReturnsInd ==
    ASSUME IndInv, NEW i \in Child, SuspendReturns(i)
    PROVE  IndInv'
<1>1. /\ At("await_suspend", i) /\ "await_suspend" \notin CancelLoops
      /\ stack' = Tail(stack) /\ UNCHANGED state
      /\ UNCHANGED <<given, bound, count, exception, parent, resumed, asked,
                     phase, reports>>
  BY DEF SuspendReturns, CancelLoops
<1>2. /\ stack \in Seq(StackFrame) /\ stack # <<>> /\ Head(stack).at = "await_suspend"
      /\ Tail(stack) \in Seq(StackFrame)
  BY <1>1, TopOf, Returned
<1>3. bound
  BY <1>1, TopOf, BoundBy
<1>4. SameLoops(Tail(stack), stack)
  BY <1>1, <1>2, SameReturned
<1>5. Has(Tail(stack), "report") <=> Has(stack, "report")
  BY <1>2, HasReturned
<1>6. Fits(Tail(stack), state')
  BY <1>1, <1>2, FitsReturned DEF IndInv
<1> QED BY <1>1, <1>2, <1>3, <1>4, <1>5, <1>6, NothingChanges, QuietInd

LEMMA LoopEndsInd ==
    ASSUME IndInv, LoopEnds
    PROVE  IndInv'
<1>1. PICK at \in {"suspend", "report"} : At(at, N + 1)
  BY DEF LoopEnds
<1>2. /\ at \notin CancelLoops /\ at # "earlyCancel"
      /\ stack' = Tail(stack) /\ UNCHANGED state
      /\ UNCHANGED <<given, bound, count, exception, parent, resumed, asked,
                     phase, reports>>
  BY DEF LoopEnds, CancelLoops
<1>3. /\ stack \in Seq(StackFrame) /\ stack # <<>>
      /\ Head(stack).at = at /\ Head(stack).next = N + 1
      /\ Head(stack) = stack[1] /\ 1 \in 1..Len(stack)
      /\ Tail(stack) \in Seq(StackFrame)
  BY <1>1, TopOf, Returned
<1>4. bound
  BY <1>1, <1>2, TopOf, BoundBy
<1>5. SameLoops(Tail(stack), stack)
  BY <1>2, <1>3, SameReturned
<1>6. /\ Has(Tail(stack), "report") => Has(stack, "report")
      /\ at = "suspend" /\ Has(stack, "report") => Has(Tail(stack), "report")
  BY <1>3, HasReturned
<1>7. Fits(Tail(stack), state')
  BY <1>2, <1>3, FitsReturned DEF IndInv
<1>8. at = "report" => \A j \in Child : state'[j] \in Finished
  <2>1. at = "report" => \A j \in Child : j < N + 1 => state[j] \in Finished
    BY <1>3 DEF IndInv, Fits
  <2>2. \A j \in Child : j < N + 1
    BY DEF Child
  <2> QED BY <1>2, <2>1, <2>2
<1>9. /\ state' \in [Child -> ChildState] /\ \A j \in Child : state'[j] = state[j]
  BY <1>2, NothingChanges
<1>10. Has(stack, "report") =>
          Has(Tail(stack), "report") \/ \A j \in Child : state'[j] \in Finished
  BY <1>1, <1>6, <1>8
<1> QED BY <1>2, <1>3, <1>4, <1>5, <1>6, <1>7, <1>9, <1>10, QuietInd

\* Of a loop that cancels: who it has asked, or why.
LEMMA CancelLoop ==
    ASSUME IndInv, NEW i \in Child, ToCancel(i)
    PROVE  \E at \in CancelLoops :
              /\ At(at, i) /\ at \in Loops /\ at # "report"
              /\ Has(stack, "cancel") \/ asked
              /\ ~bound => asked
<1>1. PICK at \in CancelLoops : At(at, i)
  BY DEF ToCancel, CancelLoops
<1>2. Has(stack, at)
  BY <1>1, TopOf
<1>3. Has(stack, "cancel") \/ asked
  BY <1>2 DEF IndInv, Unbound, Telling, CancelLoops
<1>4. ~bound => asked
  BY <1>2, BoundBy DEF IndInv, Unbound
<1>5. at \in Loops /\ at # "report"
  BY DEF CancelLoops, Loops
<1> QED BY <1>1, <1>3, <1>4, <1>5

\* Before bind() such a loop stays that of await_early_cancel().
LEMMA LoopStaysEarly ==
    ASSUME IndInv, ~bound, NEW b, Len(b) = Len(stack),
           \A k \in 1..Len(stack) : b[k].at = stack[k].at
    PROVE  Len(b) <= 1 /\ \A k \in 1..Len(b) : b[k].at = "earlyCancel"
BY DEF IndInv, Unbound

LEMMA CancelRefusedInd ==
    ASSUME IndInv, NEW i \in Child, CancelRefused(i)
    PROVE  IndInv'
<1> DEFINE b == Advance(stack, FALSE)
<1>1. PICK at \in CancelLoops :
          /\ At(at, i) /\ at \in Loops /\ at # "report"
          /\ Has(stack, "cancel") \/ asked
          /\ ~bound => asked
  BY CancelLoop DEF CancelRefused
<1>2. /\ state[i] \notin Finished
      /\ "CancellationPending" \in ChildState /\ "CancellationPending" \notin Finished
      /\ state' = [state EXCEPT ![i] = "CancellationPending"] /\ stack' = b
      /\ UNCHANGED <<given, bound, count, exception, parent, resumed, asked,
                     phase, reports>>
  BY DEF CancelRefused, Finished, ChildState
<1>3. /\ state' \in [Child -> ChildState] /\ state'[i] = "CancellationPending"
      /\ \A j \in Child : j # i => state'[j] = state[j]
      /\ \A j \in Child : state[j] \in Finished \/ state'[j] \in Finished
                             => state'[j] = state[j]
      /\ Further(state, state')
  BY <1>2, ChangesState DEF IndInv
<1>4. /\ b \in Seq(StackFrame) /\ SameLoops(b, stack) /\ Fits(b, state')
      /\ Has(b, "report") <=> Has(stack, "report")
      /\ Len(b) = Len(stack) /\ \A k \in 1..Len(stack) : b[k].at = stack[k].at
  BY <1>1, <1>3, GoesOn
<1>5. stack # <<>>
  BY <1>1, TopOf
<1> HIDE DEF b
<1>6. ~bound => /\ Len(b) <= 1 /\ \A k \in 1..Len(b) : b[k].at = "earlyCancel"
                /\ \A j \in Child : state'[j] \in
                      {"NotStarted", "CancellationPending", "Cancelled"}
                /\ asked
  <2> SUFFICES ASSUME ~bound
               PROVE  /\ Len(b) <= 1 /\ \A k \in 1..Len(b) : b[k].at = "earlyCancel"
                      /\ \A j \in Child : state'[j] \in
                            {"NotStarted", "CancellationPending", "Cancelled"}
                      /\ asked
    OBVIOUS
  <2>1. Len(b) <= 1 /\ \A k \in 1..Len(b) : b[k].at = "earlyCancel"
    BY <1>4, LoopStaysEarly
  <2>2. \A j \in Child : state[j] \in {"NotStarted", "CancellationPending", "Cancelled"}
    BY DEF IndInv, Unbound
  <2> QED BY <1>1, <1>3, <2>1, <2>2
<1> QED BY <1>1, <1>2, <1>3, <1>4, <1>5, <1>6, QuietInd

LEMMA CancelRunningInd ==
    ASSUME IndInv, NEW i \in Child, CancelRunning(i)
    PROVE  IndInv'
<1> DEFINE c == Frame("await_cancel", i)
<1>1. PICK at \in CancelLoops :
          /\ At(at, i) /\ at \in Loops /\ at # "report"
          /\ Has(stack, "cancel") \/ asked
          /\ ~bound => asked
  BY CancelLoop DEF CancelRunning
<1>2. /\ state[i] = "Running" /\ state[i] \notin Finished
      /\ "Cancelling" \in ChildState /\ "Cancelling" \notin Finished
      /\ state' = [state EXCEPT ![i] = "Cancelling"] /\ stack' = <<c>> \o stack
      /\ UNCHANGED <<given, bound, count, exception, parent, resumed, asked,
                     phase, reports>>
  BY DEF CancelRunning, Finished, ChildState
<1>3. /\ state' \in [Child -> ChildState]
      /\ \A j \in Child : state[j] \in Finished \/ state'[j] \in Finished
                             => state'[j] = state[j]
      /\ Further(state, state')
  BY <1>2, ChangesState DEF IndInv
<1>4. /\ stack \in Seq(StackFrame) /\ stack # <<>> /\ stack[1].at = at
      /\ stack[1].next = i
  BY <1>1, TopOf
<1>5. bound
  BY <1>2 DEF IndInv, Unbound
<1>6. /\ c \in StackFrame /\ c.at = "await_cancel" /\ c.next = i
      /\ c.at \notin CancelLoops \cup {"report"}
  BY DEF Frame, StackFrame, Calls, CancelLoops, Child
<1> HIDE DEF c
<1>7. SameLoops(<<c>> \o stack, stack)
  BY <1>4, <1>6, SameCalled
<1>8. Has(<<c>> \o stack, "report") <=> Has(stack, "report")
  BY <1>4, <1>6, HasPushed
<1>9. <<c>> \o stack \in Seq(StackFrame)
  BY <1>4, <1>6, Pushed
<1>10. Fits(<<c>> \o stack, state')
  <2>1. Fits(stack, state')
    BY <1>3, FitsFurther DEF IndInv
  <2> QED BY <1>1, <1>4, <1>6, <2>1, FitsPushed
<1> QED BY <1>1, <1>2, <1>3, <1>4, <1>5, <1>7, <1>8, <1>9, <1>10, QuietInd

LEMMA CancelNothingInd ==
    ASSUME IndInv, NEW i \in Child, CancelNothing(i)
    PROVE  IndInv'
<1> DEFINE c == state[i] = "Cancelled"
           b == Advance(stack, c)
<1>1. PICK at \in CancelLoops :
          /\ At(at, i) /\ at \in Loops /\ at # "report"
          /\ Has(stack, "cancel") \/ asked
          /\ ~bound => asked
  BY CancelLoop DEF CancelNothing
<1>2. /\ UNCHANGED state /\ stack' = b
      /\ UNCHANGED <<given, bound, count, exception, parent, resumed, asked,
                     phase, reports>>
  BY DEF CancelNothing
<1>3. /\ state' \in [Child -> ChildState] /\ Further(state, state')
      /\ \A j \in Child : state'[j] = state[j]
  BY <1>2, NothingChanges
<1>4. /\ c \in BOOLEAN /\ (c => state'[i] = "Cancelled")
  BY <1>3
<1> HIDE DEF c
<1>5. /\ b \in Seq(StackFrame) /\ SameLoops(b, stack) /\ Fits(b, state')
      /\ Has(b, "report") <=> Has(stack, "report")
      /\ Len(b) = Len(stack) /\ \A k \in 1..Len(stack) : b[k].at = stack[k].at
  BY <1>1, <1>3, <1>4, GoesOn
<1>6. stack # <<>>
  BY <1>1, TopOf
<1> HIDE DEF b
<1>7. ~bound => /\ Len(b) <= 1 /\ \A k \in 1..Len(b) : b[k].at = "earlyCancel"
                /\ \A j \in Child : state'[j] \in
                      {"NotStarted", "CancellationPending", "Cancelled"}
                /\ asked
  BY <1>1, <1>3, <1>5, LoopStaysEarly DEF IndInv, Unbound
<1> QED BY <1>1, <1>2, <1>3, <1>5, <1>6, <1>7, QuietInd

LEMMA AwaitCancelFalseInd ==
    ASSUME IndInv, NEW i \in Child, AwaitCancelFalse(i)
    PROVE  IndInv'
<1> DEFINE c == state[i] = "Cancelled"
           b == Advance(Tail(stack), c)
<1>1. /\ At("await_cancel", i) /\ UNCHANGED state /\ stack' = b
      /\ UNCHANGED <<given, bound, count, exception, parent, resumed, asked,
                     phase, reports>>
  BY DEF AwaitCancelFalse
<1>2. bound /\ stack # <<>>
  BY <1>1, TopOf, BoundBy
<1>3. /\ state' \in [Child -> ChildState] /\ Further(state, state')
      /\ \A j \in Child : state'[j] = state[j]
  BY <1>1, NothingChanges
<1>4. /\ c \in BOOLEAN /\ (c => state'[i] = "Cancelled")
  BY <1>3
<1> HIDE DEF c
<1>5. /\ b \in Seq(StackFrame) /\ SameLoops(b, stack) /\ Fits(b, state')
      /\ Has(b, "report") <=> Has(stack, "report")
  BY <1>1, <1>3, <1>4, ReturnsToLoop
<1> HIDE DEF b
<1> QED BY <1>1, <1>2, <1>3, <1>5, QuietInd

----------------------------------------------------------------------------
(* The steps of the awaiting task.                                         *)

LEMMA NoCalls ==
    ASSUME NEW f
    PROVE  /\ <<>> \in Seq(StackFrame) /\ Len(<<>>) = 0 /\ Fits(<<>>, f)
           /\ \A at : ~Has(<<>>, at)
           /\ InReport(<<>>) = 0 /\ ~CancelledWithin(<<>>) /\ OneOuter(<<>>)
<1>1. <<>> \in Seq(StackFrame) /\ Len(<<>>) = 0
  BY EmptySeq
<1>2. /\ Fits(<<>>, f) /\ ~CancelledWithin(<<>>) /\ OneOuter(<<>>)
      /\ \A at : ~Has(<<>>, at)
  BY ONLY <1>1 DEF Fits, CancelledWithin, OneOuter, Has
<1>3. Reporting(<<>>) = {}
  BY ONLY <1>1 DEF Reporting
<1> QED BY <1>1, <1>2, <1>3, FS_EmptySet DEF InReport

\* A loop begins and no other call is in progress.
LEMMA FirstCall ==
    ASSUME NEW c \in StackFrame, c.at \in Loops, c.next = 1, NEW f
    PROVE  /\ <<c>> \in Seq(StackFrame) /\ Len(<<c>>) = 1 /\ <<c>>[1] = c
           /\ Fits(<<c>>, f)
           /\ \A at : Has(<<c>>, at) <=> c.at = at
           /\ InReport(<<c>>) = IF c.at = "cancel" THEN 1 ELSE 0
           /\ ~CancelledWithin(<<c>>) /\ OneOuter(<<c>>)
<1>1. <<c>> \o <<>> = <<c>>
  OBVIOUS
<1>2. /\ <<>> \in Seq(StackFrame) /\ Len(<<>>) = 0 /\ Fits(<<>>, f)
      /\ \A at : ~Has(<<>>, at)
      /\ InReport(<<>>) = 0 /\ ~CancelledWithin(<<>>) /\ OneOuter(<<>>)
  BY NoCalls
<1>3. /\ <<c>> \o <<>> \in Seq(StackFrame) /\ Len(<<c>> \o <<>>) = Len(<<>>) + 1
      /\ (<<c>> \o <<>>)[1] = c
  BY <1>2, Pushed
<1>4. c.at # "await_cancel"
  BY DEF Loops
<1>5. Fits(<<c>> \o <<>>, f)
  BY <1>2, <1>4, FitsPushed
<1>6. \A at : Has(<<c>> \o <<>>, at) <=> c.at = at \/ Has(<<>>, at)
  BY <1>2, HasPushed
<1>7. InReport(<<c>> \o <<>>) = IF c.at = "cancel" THEN InReport(<<>>) + 1 ELSE InReport(<<>>)
  BY <1>2, ReportsPushed
<1>8. /\ CancelledWithin(<<c>> \o <<>>) <=>
            \/ CancelledWithin(<<>>)
            \/ c.at = "outerCancel" /\ Has(<<>>, "cancel")
      /\ OneOuter(<<c>> \o <<>>) <=>
            /\ OneOuter(<<>>)
            /\ c.at = "outerCancel" => ~Has(<<>>, "outerCancel")
  BY <1>2, WithinPushed
<1> QED BY <1>1, <1>2, <1>3, <1>5, <1>6, <1>7, <1>8

\* What is said of children only.
LEMMA ChildrenSame ==
    ASSUME UNCHANGED <<state, reports>>
    PROVE  /\ HasResult' <=> HasResult
           /\ CountedTwice' <=> CountedTwice
           /\ Reported' = Reported
BY DEF HasResult, CountedTwice, Reported

LEMMA InitInd == Init => IndInv
<1> SUFFICES ASSUME Init PROVE IndInv
  OBVIOUS
<1>1. /\ kind \in Kinds /\ state = [j \in Child |-> "NotStarted"]
      /\ bound = FALSE /\ parent = FALSE /\ asked = FALSE
      /\ count = 0 /\ resumed = 0 /\ exception = 0
      /\ phase = "new" /\ stack = <<>> /\ reports = [j \in Child |-> 0]
  BY DEF Init
<1>2. /\ stack \in Seq(StackFrame) /\ Len(stack) = 0 /\ Fits(stack, state)
      /\ \A at : ~Has(stack, at)
      /\ InReport(stack) = 0 /\ ~CancelledWithin(stack) /\ OneOuter(stack)
  BY <1>1, NoCalls
<1>3. \A j \in Child : state[j] = "NotStarted" /\ reports[j] = 0
  BY <1>1
<1>4. Typed
  BY <1>1, <1>2 DEF Typed, ChildState, Phases
<1>5. Unbound
  BY <1>1, <1>2, <1>3 DEF Unbound
<1>6. Counting
  <2>1. Reported = {}
    BY <1>3 DEF Reported
  <2> QED BY <1>1, <1>2, <1>3, <2>1, FS_EmptySet DEF Counting
<1>7. Unreported /\ FirstResult
  BY <1>1, <1>2, <1>3 DEF Unreported, FirstResult, Finished
<1>8. NeedAll /\ ExceptionKept
  BY <1>1, <1>2, <1>3 DEF NeedAll, ExceptionKept
<1>9. Telling /\ Answers
  BY <1>1, <1>2 DEF Telling, Answers
<1> QED BY <1>2, <1>4, <1>5, <1>6, <1>7, <1>8, <1>9 DEF IndInv

LEMMA EarlyCancelInd ==
    ASSUME IndInv, EarlyCancel
    PROVE  IndInv'
<1> DEFINE c == Frame("earlyCancel", 1)
<1>1. /\ phase = "new" /\ stack = <<>> /\ ~asked /\ asked' = TRUE
      /\ stack' = <<c>>
      /\ UNCHANGED <<state, reports>>
      /\ kind' = kind /\ available' = available /\ bound' = bound
      /\ count' = count /\ exception' = exception /\ parent' = parent
      /\ resumed' = resumed /\ phase' = phase
  BY DEF EarlyCancel, given
<1>2. c \in StackFrame /\ c.at = "earlyCancel" /\ c.at \in Loops /\ c.next = 1
  BY DEF Frame, StackFrame, Loops
<1> HIDE DEF c
<1>3. /\ stack' \in Seq(StackFrame) /\ Len(stack') = 1 /\ stack'[1] = c
      /\ Fits(stack', state')
      /\ \A at : Has(stack', at) <=> c.at = at
      /\ InReport(stack') = 0 /\ ~CancelledWithin(stack') /\ OneOuter(stack')
  BY <1>1, <1>2, FirstCall
<1>4. /\ ~Has(stack', "outerCancel") /\ ~Has(stack', "report") /\ ~Has(stack', "cancel")
  BY <1>2, <1>3
<1>5. ~bound /\ ~parent
  BY <1>1 DEF IndInv, Unbound
<1>6. InReport(stack) = 0
  BY <1>1, NoCalls
<1>7. Typed'
  BY <1>1, <1>3 DEF IndInv, Typed
<1>8. Unbound'
  <2>1. \A k \in 1..Len(stack') : stack'[k].at = "earlyCancel"
    BY <1>2, <1>3
  <2> QED BY <1>1, <1>3, <1>5, <2>1 DEF IndInv, Unbound
<1>9. Counting'
  BY <1>1, <1>3, <1>6, ChildrenSame DEF IndInv, Counting
<1>10. Unreported' /\ FirstResult'
  BY <1>1, <1>3, <1>4, <1>5 DEF Unreported, FirstResult
<1>11. NeedAll' /\ ExceptionKept'
  BY <1>1 DEF IndInv, NeedAll, ExceptionKept
<1>12. Telling' /\ Answers'
  BY <1>1, <1>3, <1>4 DEF IndInv, Telling, Answers
<1> QED BY <1>3, <1>7, <1>8, <1>9, <1>10, <1>11, <1>12 DEF IndInv

\* Enough are ready of those that all have to be.
LEMMA AllReady ==
    ASSUME MuxReady, kind # "anyOf"
    PROVE  Child \subseteq available
<1> DEFINE R == {j \in Child : IsReady(j)}
<1>1. IsFiniteSet(Child) /\ Cardinality(Child) = N /\ R \subseteq Child
  BY FS_Interval DEF Child
<1>2. Cardinality(R) >= N
  BY DEF MuxReady, MinReady
<1>3. IsFiniteSet(R) /\ Cardinality(R) <= N /\ (Cardinality(R) = N => R = Child)
  BY <1>1, FS_Subset
<1>4. Cardinality(R) \in Nat
  BY <1>3, FS_CardinalityType
<1>5. R = Child
  BY <1>2, <1>3, <1>4
<1> QED BY <1>5 DEF IsReady

LEMMA ResumeWithoutSuspendInd ==
    ASSUME IndInv, ResumeWithoutSuspend
    PROVE  IndInv'
<1> DEFINE c == Frame("report", 1)
<1>1. /\ phase = "new" /\ stack = <<>> /\ ~asked /\ MuxReady
      /\ phase' = "immediate" /\ bound' = TRUE /\ stack' = <<c>>
      /\ UNCHANGED <<state, reports>>
      /\ kind' = kind /\ available' = available
      /\ count' = count /\ exception' = exception /\ parent' = parent
      /\ resumed' = resumed /\ asked' = asked
  BY DEF ResumeWithoutSuspend, given
<1>2. c \in StackFrame /\ c.at = "report" /\ c.at \in Loops /\ c.next = 1
  BY DEF Frame, StackFrame, Loops
<1> HIDE DEF c
<1>3. /\ stack' \in Seq(StackFrame)
      /\ Fits(stack', state')
      /\ \A at : Has(stack', at) <=> c.at = at
      /\ InReport(stack') = 0 /\ ~CancelledWithin(stack') /\ OneOuter(stack')
  BY <1>1, <1>2, FirstCall
<1>4. /\ ~Has(stack', "outerCancel") /\ ~Has(stack', "cancel")
      /\ ~Has(stack', "earlyCancel") /\ Has(stack', "report")
  BY <1>2, <1>3
<1>5. ~bound /\ ~parent /\ \A j \in Child : state[j] = "NotStarted"
  BY <1>1 DEF IndInv, Unbound
<1>6. InReport(stack) = 0
  BY <1>1, NoCalls
<1>7. Typed'
  BY <1>1, <1>3 DEF IndInv, Typed, Phases
<1>8. Unbound'
  BY <1>1, <1>4 DEF Unbound
<1>9. Counting'
  BY <1>1, <1>3, <1>6, ChildrenSame DEF IndInv, Counting
<1>10. Unreported' /\ FirstResult'
  BY <1>1, <1>3, <1>4, <1>5 DEF Unreported, FirstResult, Finished
<1>11. NeedAll' /\ ExceptionKept'
  BY <1>1, <1>4, <1>5, AllReady DEF IndInv, NeedAll, ExceptionKept
<1>12. Telling' /\ Answers'
  BY <1>1, <1>3, <1>4, <1>5 DEF IndInv, Telling, Answers
<1> QED BY <1>3, <1>7, <1>8, <1>9, <1>10, <1>11, <1>12 DEF IndInv

LEMMA SuspendInd ==
    ASSUME IndInv, Suspend
    PROVE  IndInv'
<1> DEFINE c == Frame("suspend", 1)
<1>1. /\ phase \in {"new", "early"} /\ stack = <<>>
      /\ phase' = "suspended" /\ bound' = TRUE /\ parent' = TRUE /\ stack' = <<c>>
      /\ UNCHANGED <<state, reports>>
      /\ kind' = kind /\ available' = available
      /\ count' = count /\ exception' = exception
      /\ resumed' = resumed /\ asked' = asked
  BY DEF Suspend, given
<1>2. c \in StackFrame /\ c.at = "suspend" /\ c.at \in Loops /\ c.next = 1
  BY DEF Frame, StackFrame, Loops
<1> HIDE DEF c
<1>3. /\ stack' \in Seq(StackFrame)
      /\ Fits(stack', state')
      /\ \A at : Has(stack', at) <=> c.at = at
      /\ InReport(stack') = 0 /\ ~CancelledWithin(stack') /\ OneOuter(stack')
  BY <1>1, <1>2, FirstCall
<1>4. /\ ~Has(stack', "outerCancel") /\ ~Has(stack', "cancel")
      /\ ~Has(stack', "earlyCancel") /\ ~Has(stack', "report")
  BY <1>2, <1>3
<1>5. /\ ~bound /\ \A j \in Child : reports[j] = 0
      /\ ~asked => \A j \in Child : state[j] = "NotStarted"
  BY <1>1 DEF IndInv, Unbound
<1>6. InReport(stack) = 0
  BY <1>1, NoCalls
<1>7. Typed'
  BY <1>1, <1>3 DEF IndInv, Typed, Phases
<1>8. Unbound'
  BY <1>1, <1>4 DEF Unbound
<1>9. Counting'
  BY <1>1, <1>3, <1>6, ChildrenSame DEF IndInv, Counting
<1>10. Unreported' /\ FirstResult'
  BY <1>1, <1>3, <1>4, <1>5 DEF Unreported, FirstResult, Finished
<1>11. NeedAll' /\ ExceptionKept'
  BY <1>1, <1>4, <1>5 DEF IndInv, NeedAll, ExceptionKept
<1>12. Telling' /\ Answers'
  BY <1>1, <1>3, <1>4, <1>5 DEF IndInv, Telling, Answers
<1> QED BY <1>3, <1>7, <1>8, <1>9, <1>10, <1>11, <1>12 DEF IndInv

LEMMA CancelInd ==
    ASSUME IndInv, Cancel
    PROVE  IndInv'
<1> DEFINE c == Frame("outerCancel", 1)
<1>1. /\ phase = "suspended" /\ resumed = 0 /\ ~asked /\ asked' = TRUE
      /\ parent' = FALSE /\ stack' = <<c>> \o stack
      /\ UNCHANGED <<state, reports>>
      /\ kind' = kind /\ available' = available /\ bound' = bound
      /\ count' = count /\ exception' = exception
      /\ resumed' = resumed /\ phase' = phase
  BY DEF Cancel, given, OuterParent
<1>2. c \in StackFrame /\ c.at = "outerCancel" /\ c.next = 1
  BY DEF Frame, StackFrame, Loops
<1> HIDE DEF c
<1>3. stack \in Seq(StackFrame) /\ Fits(stack, state)
  BY DEF IndInv, Typed
<1>4. parent /\ bound
  BY <1>1 DEF IndInv, Answers, Unbound
<1>5. ~Has(stack, "outerCancel") /\ ~Has(stack, "earlyCancel")
  BY <1>1 DEF IndInv, Telling, Unbound
<1>6. /\ stack' \in Seq(StackFrame)
      /\ \A at : Has(stack', at) <=> c.at = at \/ Has(stack, at)
      /\ InReport(stack') = InReport(stack)
      /\ CancelledWithin(stack') <=>
            \/ CancelledWithin(stack)
            \/ c.at = "outerCancel" /\ Has(stack, "cancel")
      /\ OneOuter(stack')
  <2>1. <<c>> \o stack \in Seq(StackFrame)
    BY <1>2, <1>3, Pushed
  <2>2. InReport(<<c>> \o stack) = InReport(stack)
    BY <1>2, <1>3, ReportsPushed
  <2>3. \A at : Has(<<c>> \o stack, at) <=> c.at = at \/ Has(stack, at)
    BY <1>2, <1>3, HasPushed
  <2>4. OneOuter(stack)
    BY DEF IndInv, Telling
  <2>5. /\ CancelledWithin(<<c>> \o stack) <=>
            \/ CancelledWithin(stack)
            \/ c.at = "outerCancel" /\ Has(stack, "cancel")
        /\ OneOuter(<<c>> \o stack) <=>
            /\ OneOuter(stack)
            /\ c.at = "outerCancel" => ~Has(stack, "outerCancel")
    BY <1>2, <1>3, WithinPushed
  <2> QED BY <1>1, <1>5, <2>1, <2>2, <2>3, <2>4, <2>5
<1>7. /\ Has(stack', "report") <=> Has(stack, "report")
      /\ ~Has(stack', "earlyCancel") /\ Has(stack', "outerCancel")
  BY <1>2, <1>5, <1>6
<1>8. Fits(stack', state')
  <2>1. c.at # "await_cancel"
    BY <1>2
  <2>2. Fits(<<c>> \o stack, state)
    BY <1>2, <1>3, <2>1, FitsPushed
  <2> QED BY <1>1, <2>2
<1>9. Typed'
  BY <1>1, <1>6 DEF IndInv, Typed
<1>10. Unbound'
  BY <1>1, <1>4, <1>7 DEF IndInv, Unbound
<1>11. Counting'
  BY <1>1, <1>6, ChildrenSame DEF IndInv, Counting
<1>12. Unreported'
  BY <1>1 DEF IndInv, Unreported
<1>13. FirstResult'
  <2>1. Has(stack, "cancel") => HasResult
    BY <1>1, <1>4 DEF IndInv, FirstResult
  <2>2. CancelledWithin(stack) => HasResult
    BY DEF IndInv, FirstResult
  <2> QED BY <1>1, <1>6, <2>1, <2>2, ChildrenSame DEF FirstResult
<1>14. NeedAll' /\ ExceptionKept'
  BY <1>1 DEF IndInv, NeedAll, ExceptionKept
<1>15. Telling'
  BY <1>1, <1>4, <1>6 DEF IndInv, Telling
<1>16. Answers'
  BY <1>1, <1>7 DEF IndInv, Answers
<1> QED BY <1>8, <1>9, <1>10, <1>11, <1>12, <1>13, <1>14, <1>15, <1>16 DEF IndInv

\* When as many are counted as there are children, and no child twice, all
\* of them have finished.
LEMMA AllCounted ==
    ASSUME IndInv, count >= N, ~CountedTwice
    PROVE  /\ Reported = Child
           /\ \A j \in Child : state[j] \in Finished
<1>1. IsFiniteSet(Child) /\ Cardinality(Child) = N /\ Reported \subseteq Child
  BY FS_Interval DEF Child, Reported
<1>2. /\ IsFiniteSet(Reported) /\ Cardinality(Reported) <= N
      /\ (Cardinality(Reported) = N => Reported = Child)
  BY <1>1, FS_Subset
<1>3. Cardinality(Reported) \in Nat
  BY <1>2, FS_CardinalityType
<1>4. InReport(stack) \in Nat /\ count \in Nat
  <2>1. stack \in Seq(StackFrame) /\ count \in Nat
    BY DEF IndInv, Typed
  <2>2. Frame("cancel", 1) \in StackFrame
    BY DEF Frame, StackFrame, Loops
  <2> QED BY <2>1, <2>2, ReportsPushed
<1>5. count + InReport(stack) = Cardinality(Reported)
  BY DEF IndInv, Counting
<1>6. Reported = Child
  BY <1>2, <1>3, <1>4, <1>5
<1> QED BY <1>6 DEF IndInv, Counting, Reported

LEMMA ParentRunsInd ==
    ASSUME IndInv, ParentRuns
    PROVE  IndInv'
<1>1. /\ stack = <<>>
      /\ phase = "immediate" \/ (phase = "suspended" /\ resumed > 0)
      /\ phase' = IF asked /\ ~MustResume THEN "cancelled" ELSE "done"
      /\ UNCHANGED <<state, reports>>
      /\ kind' = kind /\ available' = available /\ bound' = bound
      /\ count' = count /\ exception' = exception /\ parent' = parent
      /\ resumed' = resumed /\ asked' = asked /\ stack' = stack
  BY DEF ParentRuns, given
<1>2. \A at : ~Has(stack, at)
  BY <1>1, NoCalls
<1>3. ~CountedTwice => \A j \in Child : state[j] \in Finished
  <2>1. CASE phase = "immediate"
    BY <1>2, <2>1 DEF IndInv, Answers
  <2>2. CASE resumed > 0
    BY <2>2, AllCounted DEF IndInv, Telling
  <2> QED BY <1>1, <2>1, <2>2
<1>4. ~CountedTwice /\ ~asked /\ parent => HasResult
  <2> SUFFICES ASSUME ~CountedTwice, ~asked, parent PROVE HasResult
    OBVIOUS
  <2>1. resumed > 0
    BY <1>1 DEF IndInv, Answers
  <2>2. Reported = Child
    BY <2>1, AllCounted DEF IndInv, Telling
  <2>3. 1 \in Child /\ reports[1] > 0
    BY <2>2 DEF Child, Reported
  <2> QED BY <2>3 DEF IndInv, FirstResult, Typed
<1>5. MustResume' <=> MustResume
  BY <1>1 DEF MustResume
<1>6. Typed'
  BY <1>1 DEF IndInv, Typed, Phases
<1>7. Fits(stack', state')
  BY <1>1 DEF IndInv
<1>8. Unbound'
  BY <1>1, <1>2 DEF IndInv, Unbound
<1>9. Counting' /\ Unreported'
  BY <1>1, ChildrenSame DEF IndInv, Counting, Unreported
<1>10. FirstResult'
  BY <1>1, ChildrenSame DEF IndInv, FirstResult
<1>11. NeedAll' /\ ExceptionKept'
  BY <1>1 DEF IndInv, NeedAll, ExceptionKept
<1>12. Telling'
  BY <1>1, <1>2 DEF IndInv, Telling
<1>13. Answers'
  BY <1>1, <1>2, <1>3, <1>4, <1>5, ChildrenSame DEF Answers
<1> QED BY <1>6, <1>7, <1>8, <1>9, <1>10, <1>11, <1>12, <1>13 DEF IndInv

----------------------------------------------------------------------------
(* await_early_cancel(), and the ends of loops.                            *)

\* A child is cancelled before it knows the mux.
LEMMA CancelUnboundInd ==
    ASSUME IndInv, NEW i \in Child, CancelUnstarted(i), ~bound
    PROVE  IndInv'
<1> DEFINE b == Advance(stack, TRUE)
<1>1. PICK at \in CancelLoops :
          /\ At(at, i) /\ at \in Loops /\ at # "report"
          /\ Has(stack, "cancel") \/ asked
          /\ ~bound => asked
  BY CancelLoop DEF CancelUnstarted
<1>2. /\ state[i] \notin Finished /\ "Cancelled" \in Finished
      /\ state' = [state EXCEPT ![i] = "Cancelled"] /\ stack' = b
      /\ kind' = kind /\ available' = available /\ bound' = bound
      /\ count' = count /\ exception' = exception /\ parent' = parent
      /\ resumed' = resumed /\ asked' = asked /\ phase' = phase
      /\ reports' = reports
  BY DEF CancelUnstarted, Finished, given
<1>3. /\ state \in [Child -> ChildState] /\ state'[i] = "Cancelled"
      /\ \A j \in Child : j # i => state'[j] = state[j]
      /\ Further(state, state')
  BY <1>2, FinishedIsFurther DEF IndInv, Typed
<1>4. /\ b \in Seq(StackFrame) /\ SameLoops(b, stack) /\ Fits(b, state')
      /\ Has(b, "report") <=> Has(stack, "report")
      /\ Len(b) = Len(stack) /\ \A k \in 1..Len(stack) : b[k].at = stack[k].at
  BY <1>1, <1>3, GoesOn
<1>5. stack # <<>>
  BY <1>1, TopOf
<1> HIDE DEF b
<1>6. asked /\ ~parent /\ \A j \in Child : reports[j] = 0
  BY <1>1 DEF IndInv, Unbound
<1>7. /\ ~Has(stack, "report") /\ ~Has(stack, "outerCancel")
      /\ \A at2 \in CancelLoops : Has(stack', at2) <=> Has(stack, at2)
      /\ InReport(stack') = InReport(stack)
      /\ OneOuter(stack') /\ ~Has(stack', "report") /\ ~Has(stack', "outerCancel")
      /\ Has(stack', "earlyCancel") <=> Has(stack, "earlyCancel")
      /\ ~CancelledWithin(stack')
  <2>1. ~Has(stack, "report") /\ ~Has(stack, "outerCancel")
    BY BoundBy
  <2>2. OneOuter(stack)
    BY DEF IndInv, Telling
  <2>3. Len(stack') <= 1
    BY <1>2, <1>4 DEF IndInv, Unbound
  <2>4. ~CancelledWithin(stack')
    BY <2>3 DEF CancelledWithin
  <2> QED BY <1>2, <1>4, <2>1, <2>2, <2>4 DEF SameLoops, CancelLoops
<1>8. Typed'
  <2>1. state' \in [Child -> ChildState]
    BY <1>2, <1>3 DEF ChildState
  <2> QED BY <1>2, <1>4, <2>1 DEF IndInv, Typed
<1>9. Unbound'
  <2>1. Len(stack') <= 1 /\ \A k \in 1..Len(stack') : stack'[k].at = "earlyCancel"
    BY <1>2, <1>4, LoopStaysEarly
  <2>2. \A j \in Child : state'[j] \in {"NotStarted", "CancellationPending", "Cancelled"}
    BY <1>3 DEF IndInv, Unbound
  <2> QED BY <1>2, <1>6, <1>7, <2>1, <2>2 DEF IndInv, Unbound
<1>10. Counting'
  <2>1. (CountedTwice' <=> CountedTwice) /\ Reported' = Reported
    BY <1>2 DEF CountedTwice, Reported
  <2> QED BY <1>2, <1>6, <1>7, <2>1 DEF IndInv, Counting
<1>11. Unreported' /\ FirstResult'
  BY <1>2, <1>6, <1>7 DEF Unreported, FirstResult
<1>12. NeedAll'
  BY <1>2, <1>6 DEF IndInv, NeedAll
<1>13. ExceptionKept'
  <2>1. exception \in Child \cup {0}
    BY DEF IndInv, Typed
  <2> QED BY <1>2, <1>3, <2>1 DEF IndInv, ExceptionKept, Finished
<1>14. Telling'
  BY <1>2, <1>7 DEF IndInv, Telling
<1>15. Answers'
  <2>1. Has(stack, "earlyCancel")
    <3>1. Has(stack, at)
      BY <1>1, TopOf
    <3> QED BY <3>1, BoundBy
  <2>2. phase = "new"
    BY <2>1 DEF IndInv, Unbound
  <2> QED BY <1>2, <1>7, <2>2 DEF Answers
<1> QED BY <1>2, <1>4, <1>8, <1>9, <1>10, <1>11, <1>12, <1>13, <1>14, <1>15 DEF IndInv

\* The stack without its innermost loop.
LEMMA LoopOver ==
    ASSUME IndInv, NEW at, NEW i, At(at, i)
    PROVE  /\ Tail(stack) \in Seq(StackFrame) /\ Fits(Tail(stack), state)
           /\ Len(stack) = Len(Tail(stack)) + 1 /\ Len(Tail(stack)) \in Nat
           /\ \A h : Has(stack, h) <=> at = h \/ Has(Tail(stack), h)
           /\ InReport(Tail(stack)) \in Nat
           /\ InReport(stack) = IF at = "cancel" THEN InReport(Tail(stack)) + 1
                                ELSE InReport(Tail(stack))
           /\ CancelledWithin(stack) <=>
                 \/ CancelledWithin(Tail(stack))
                 \/ at = "outerCancel" /\ Has(Tail(stack), "cancel")
           /\ OneOuter(stack) <=>
                 /\ OneOuter(Tail(stack))
                 /\ at = "outerCancel" => ~Has(Tail(stack), "outerCancel")
<1>1. stack \in Seq(StackFrame) /\ stack # <<>> /\ Head(stack).at = at
  BY TopOf
<1>2. \A h : Has(stack, h) <=> Head(stack).at = h \/ Has(Tail(stack), h)
  BY <1>1, HasReturned
<1>3. Tail(stack) \in Seq(StackFrame) /\ Len(stack) = Len(Tail(stack)) + 1
      /\ Len(Tail(stack)) \in Nat
  BY <1>1, Returned
<1>4. Fits(Tail(stack), state)
  BY <1>1, FitsReturned DEF IndInv
<1> QED BY <1>1, <1>2, <1>3, <1>4, ReportsReturned, WithinReturned

LEMMA CancelEndsInd ==
    ASSUME IndInv, CancelEnds
    PROVE  IndInv'
<1>1. /\ At("cancel", N + 1) /\ count' = count + 1 /\ stack' = Tail(stack)
      /\ IF count' = N THEN ResumeParent ELSE UNCHANGED resumed
      /\ UNCHANGED <<state, reports>>
      /\ kind' = kind /\ available' = available /\ bound' = bound
      /\ exception' = exception /\ parent' = parent
      /\ asked' = asked /\ phase' = phase
  BY DEF CancelEnds, given
<1>2. /\ stack' \in Seq(StackFrame) /\ Fits(stack', state')
      /\ \A h : Has(stack, h) <=> "cancel" = h \/ Has(stack', h)
      /\ InReport(stack') \in Nat /\ InReport(stack) = InReport(stack') + 1
      /\ CancelledWithin(stack) <=> CancelledWithin(stack')
      /\ OneOuter(stack) <=> OneOuter(stack')
  BY <1>1, LoopOver
<1>3. /\ Has(stack', "report") <=> Has(stack, "report")
      /\ Has(stack', "earlyCancel") <=> Has(stack, "earlyCancel")
      /\ Has(stack', "outerCancel") <=> Has(stack, "outerCancel")
      /\ Has(stack, "cancel")
  BY <1>2
<1>4. bound /\ stack # <<>>
  BY <1>1, <1>3, TopOf, BoundBy
<1>5. /\ count \in Nat /\ resumed \in Nat /\ N \in Nat
      /\ resumed <= 1 /\ (resumed > 0 => count >= N)
  BY DEF IndInv, Typed, Telling
<1>6. \/ resumed' = resumed
      \/ parent /\ resumed' = resumed + 1 /\ count + 1 = N
  BY <1>1 DEF ResumeParent
<1>7. /\ count' \in Nat /\ resumed' \in Nat
      /\ resumed' <= 1 /\ (resumed' > 0 => count' >= N)
  BY ONLY <1>1, <1>5, <1>6
<1>8. Typed'
  BY <1>1, <1>2, <1>7 DEF IndInv, Typed
<1>9. Unbound'
  BY <1>1, <1>3, <1>4 DEF IndInv, Unbound
<1>10. Counting'
  <2>1. count' + InReport(stack') = count + InReport(stack)
    BY <1>1, <1>2, <1>5
  <2>2. /\ \A j \in Child : reports[j] > 0 => state[j] \in Finished
        /\ count + InReport(stack) >= Cardinality(Reported)
        /\ ~CountedTwice => count + InReport(stack) = Cardinality(Reported)
    BY DEF IndInv, Counting
  <2> QED BY <1>1, <2>1, <2>2, ChildrenSame DEF Counting
<1>11. Unreported'
  BY <1>1, <1>3 DEF IndInv, Unreported
<1>12. FirstResult'
  BY <1>1, <1>2, <1>3, ChildrenSame DEF IndInv, FirstResult
<1>13. NeedAll' /\ ExceptionKept'
  BY <1>1, <1>3 DEF IndInv, NeedAll, ExceptionKept
<1>14. Telling'
  BY <1>1, <1>2, <1>3, <1>6, <1>7 DEF IndInv, Telling
<1>15. Answers'
  <2>1. phase = "aborted" => resumed' = 0 /\ count' >= N
    <3>1. phase = "aborted" => resumed = 0 /\ count >= N
      BY <1>4 DEF IndInv, Answers
    <3> QED BY ONLY <1>1, <1>5, <1>6, <3>1
  <2>2. MustResume' <=> MustResume
    BY <1>1 DEF MustResume
  <2> QED BY <1>1, <1>3, <2>1, <2>2, ChildrenSame DEF IndInv, Answers
<1> QED BY <1>2, <1>8, <1>9, <1>10, <1>11, <1>12, <1>13, <1>14, <1>15 DEF IndInv

\* A loop that cancels and finds that all are cancelled says so.
LEMMA AllIsTrue ==
    ASSUME IndInv, NEW at \in CancelLoops, At(at, N + 1), Top.all
    PROVE  \A j \in Child : state[j] = "Cancelled"
<1>1. /\ 1 \in 1..Len(stack) /\ stack[1].at = at /\ stack[1].next = N + 1
      /\ stack[1].all
  BY TopOf DEF Top
<1>2. \A j \in Child : j < N + 1
  BY DEF Child
<1> QED BY <1>1, <1>2 DEF IndInv, Fits

LEMMA EarlyCancelEndsInd ==
    ASSUME IndInv, EarlyCancelEnds
    PROVE  IndInv'
<1>1. /\ At("earlyCancel", N + 1) /\ stack' = Tail(stack)
      /\ phase' = IF Top.all THEN "aborted" ELSE "early"
      /\ UNCHANGED <<state, reports>>
      /\ kind' = kind /\ available' = available /\ bound' = bound
      /\ count' = count /\ exception' = exception /\ parent' = parent
      /\ resumed' = resumed /\ asked' = asked
  BY DEF EarlyCancelEnds, given
<1>2. Has(stack, "earlyCancel")
  BY <1>1, TopOf
<1>3. /\ ~bound /\ asked /\ count = 0 /\ ~parent /\ Len(stack) <= 1
  BY <1>2 DEF IndInv, Unbound
<1>4. stack' = <<>>
  <2>1. /\ Tail(stack) \in Seq(StackFrame) /\ Len(Tail(stack)) \in Nat
        /\ Len(stack) = Len(Tail(stack)) + 1
    BY <1>1, LoopOver
  <2>2. Len(Tail(stack)) = 0
    BY <1>3, <2>1
  <2>3. Tail(stack) = <<>>
    BY <2>1, <2>2, EmptySeq
  <2> QED BY <1>1, <2>3
<1>5. /\ stack' \in Seq(StackFrame) /\ Len(stack') = 0 /\ Fits(stack', state')
      /\ \A at : ~Has(stack', at)
      /\ InReport(stack') = 0 /\ ~CancelledWithin(stack') /\ OneOuter(stack')
  BY <1>4, NoCalls
<1>6. InReport(stack) = 0
  BY <1>1, <1>5, LoopOver
<1>7. resumed = 0
  BY <1>3 DEF IndInv, Typed, Telling
<1>8. Typed'
  BY <1>1, <1>5 DEF IndInv, Typed, Phases
<1>9. Unbound'
  BY <1>1, <1>3, <1>5 DEF IndInv, Unbound
<1>10. Counting'
  BY <1>1, <1>5, <1>6, ChildrenSame DEF IndInv, Counting
<1>11. Unreported' /\ FirstResult'
  BY <1>1, <1>3, <1>5 DEF Unreported, FirstResult
<1>12. NeedAll' /\ ExceptionKept'
  BY <1>1, <1>3 DEF IndInv, NeedAll, ExceptionKept
<1>13. Telling'
  BY <1>1, <1>5, <1>7 DEF Telling
<1>14. Answers'
  <2>1. phase' = "aborted" => \A j \in Child : state'[j] = "Cancelled"
    BY <1>1, AllIsTrue DEF CancelLoops
  <2> QED BY <1>1, <1>4, <1>5, <1>7, <2>1 DEF Answers
<1> QED BY <1>5, <1>8, <1>9, <1>10, <1>11, <1>12, <1>13, <1>14 DEF IndInv

LEMMA OuterCancelEndsInd ==
    ASSUME IndInv, OuterCancelEnds
    PROVE  IndInv'
<1>1. /\ At("outerCancel", N + 1) /\ stack' = Tail(stack) /\ parent' = TRUE
      /\ phase' = IF Top.all THEN "aborted" ELSE phase
      /\ resumed' = IF AnswersLate(Top.all) THEN resumed + 1 ELSE resumed
      /\ UNCHANGED <<state, reports>>
      /\ kind' = kind /\ available' = available /\ bound' = bound
      /\ count' = count /\ exception' = exception /\ asked' = asked
  BY DEF OuterCancelEnds, given
<1>2. /\ stack' \in Seq(StackFrame) /\ Fits(stack', state')
      /\ \A h : Has(stack, h) <=> "outerCancel" = h \/ Has(stack', h)
      /\ InReport(stack') = InReport(stack)
      /\ CancelledWithin(stack) <=> CancelledWithin(stack') \/ Has(stack', "cancel")
      /\ OneOuter(stack) <=> OneOuter(stack') /\ ~Has(stack', "outerCancel")
  BY <1>1, LoopOver
<1>3. /\ Has(stack', "report") <=> Has(stack, "report")
      /\ Has(stack', "earlyCancel") <=> Has(stack, "earlyCancel")
      /\ Has(stack', "cancel") <=> Has(stack, "cancel")
      /\ Has(stack, "outerCancel")
  BY <1>2
<1>4. /\ resumed = 0 /\ asked /\ bound /\ phase = "suspended"
      /\ OneOuter(stack') /\ ~Has(stack', "outerCancel")
  BY <1>2, <1>3 DEF IndInv, Telling
<1>5. ~Has(stack, "report") /\ ~Has(stack, "earlyCancel")
  BY <1>4 DEF IndInv, Answers, Unbound
<1>6. count \in Nat /\ N \in Nat /\ (resumed' = 0 \/ (~Top.all /\ count = N /\ resumed' = 1))
  BY <1>1, <1>4 DEF AnswersLate, IndInv, Typed
<1>7. ASSUME Top.all
      PROVE  /\ \A j \in Child : state[j] = "Cancelled"
             /\ count >= N
  <2>1. \A j \in Child : state[j] = "Cancelled"
    BY <1>1, <1>7, AllIsTrue DEF CancelLoops
  <2>2. ~HasResult
    BY <2>1 DEF HasResult
  <2>3. ~Has(stack, "cancel")
    BY <1>2, <1>3, <2>2 DEF IndInv, FirstResult
  <2>4. InReport(stack) = 0
    <3>1. Len(stack) \in Nat
      BY DEF IndInv, Typed
    <3>2. \A d \in 1..Len(stack) : Len(stack) + 1 - d \in 1..Len(stack)
      BY <3>1
    <3>3. Reporting(stack) = {}
      BY <2>3, <3>2 DEF Has, Reporting
    <3> QED BY <3>3, FS_EmptySet DEF InReport
  <2>5. Reported = Child
    <3>1. \A j \in Child : reports[j] \in Nat /\ reports[j] # 0
      BY <1>3, <2>1 DEF IndInv, Unreported, Typed, Finished
    <3> QED BY <3>1 DEF Reported
  <2>6. Cardinality(Child) = N
    BY FS_Interval DEF Child
  <2> QED BY <1>6, <2>1, <2>4, <2>5, <2>6 DEF IndInv, Counting
<1>8. Typed'
  BY <1>1, <1>2, <1>4, <1>6 DEF IndInv, Typed, Phases
<1>9. Unbound'
  BY <1>1, <1>3, <1>4, <1>5 DEF IndInv, Unbound
<1>10. Counting'
  BY <1>1, <1>2, ChildrenSame DEF IndInv, Counting
<1>11. Unreported'
  BY <1>1, <1>3 DEF IndInv, Unreported
<1>12. FirstResult'
  BY <1>1, <1>2, <1>4, ChildrenSame DEF IndInv, FirstResult
<1>13. NeedAll' /\ ExceptionKept'
  BY <1>1, <1>4 DEF IndInv, NeedAll, ExceptionKept
<1>14. Telling'
  BY <1>1, <1>4, <1>6 DEF Telling
<1>15. Answers'
  BY <1>1, <1>3, <1>4, <1>5, <1>6, <1>7 DEF Answers
<1> QED BY <1>2, <1>8, <1>9, <1>10, <1>11, <1>12, <1>13, <1>14, <1>15 DEF IndInv

----------------------------------------------------------------------------
(* The theorems.                                                           *)

LEMMA StutterInd ==
    ASSUME IndInv, UNCHANGED vars
    PROVE  IndInv'
<1>1. /\ UNCHANGED <<state, reports>> /\ UNCHANGED given
      /\ kind' = kind /\ available' = available /\ bound' = bound
      /\ count' = count /\ exception' = exception /\ parent' = parent
      /\ resumed' = resumed /\ asked' = asked /\ phase' = phase /\ stack' = stack
  BY DEF vars, given
<1>2. MustResume' <=> MustResume
  BY <1>1 DEF MustResume
<1>3. Typed' /\ Fits(stack', state')
  BY <1>1 DEF IndInv, Typed
<1>4. Unbound' /\ Unreported' /\ NeedAll' /\ ExceptionKept' /\ Telling'
  BY <1>1 DEF IndInv, Unbound, Unreported, NeedAll, ExceptionKept, Telling
<1>5. Counting' /\ FirstResult' /\ Answers'
  BY <1>1, <1>2, ChildrenSame DEF IndInv, Counting, FirstResult, Answers
<1> QED BY <1>3, <1>4, <1>5 DEF IndInv

LEMMA NextInd ==
    ASSUME IndInv, [Next]_vars
    PROVE  IndInv'
<1>1. ASSUME NEW i \in Child, Step(i) PROVE IndInv'
  <2>1. CASE CancelUnstarted(i)
    BY <2>1, CancelBoundInd, CancelUnboundInd
  <2>2. CASE \/ KickOffReady(i) \/ KickOff(i) \/ SuspendCancelled(i)
             \/ SuspendReturns(i) \/ SuspendThrows(i)
    BY <2>2, KickOffReadyInd, KickOffInd, SuspendCancelledInd, SuspendReturnsInd,
       SuspendThrowsInd
  <2>3. CASE \/ CancelRefused(i) \/ CancelRunning(i) \/ CancelNothing(i)
             \/ AwaitCancelTrue(i) \/ AwaitCancelFalse(i)
    BY <2>3, CancelRefusedInd, CancelRunningInd, CancelNothingInd, AwaitCancelTrueInd,
       AwaitCancelFalseInd
  <2>4. CASE ReportUnneeded(i) \/ ReportReady(i) \/ ReportDropped(i)
    BY <2>4, ReportUnneededInd, ReportReadyInd, ReportDroppedInd
  <2> QED BY <1>1, <2>1, <2>2, <2>3, <2>4 DEF Step
<1>2. ASSUME NEW i \in Child, Complete(i) PROVE IndInv'
  BY <1>2, CompleteInd
<1>3. CASE StepEnds
  BY <1>3, LoopEndsInd, CancelEndsInd, EarlyCancelEndsInd, OuterCancelEndsInd DEF StepEnds
<1>4. CASE EarlyCancel \/ ResumeWithoutSuspend \/ Suspend \/ Cancel \/ ParentRuns
  BY <1>4, EarlyCancelInd, ResumeWithoutSuspendInd, SuspendInd, CancelInd, ParentRunsInd
<1>5. CASE UNCHANGED vars
  BY <1>5, StutterInd
<1> QED BY <1>1, <1>2, <1>3, <1>4, <1>5 DEF Next

LEMMA Inductive == Spec => []IndInv
<1>1. Init => IndInv
  BY InitInd
<1>2. IndInv /\ [Next]_vars => IndInv'
  BY NextInd
<1> QED BY <1>1, <1>2, PTL DEF Spec

\* Whatever the awaitables do, the awaiting task goes on only when every child
\* has finished, unless a child was counted twice (detail/wait.h:458-475).
THEOREM RestIsFinished == Spec => []FinishedUnlessTwice
<1>1. IndInv => FinishedUnlessTwice
  <2> SUFFICES ASSUME IndInv, ~CountedTwice, Told
               PROVE  \A j \in Child : state[j] \in Finished
    BY DEF FinishedUnlessTwice, RestFinished
  <2>1. CASE resumed > 0
    BY <2>1, AllCounted DEF IndInv, Telling
  <2>2. CASE Over
    BY <2>2 DEF Over, IndInv, Answers, Finished
  <2> QED BY <2>1, <2>2 DEF Told
<1> QED BY <1>1, Inductive, PTL

\* The handle of the awaiting task is resumed once at most, and not at all if
\* a cancel function has returned true, whether a child was counted twice or
\* not (detail/wait.h:458-475).
THEOREM TaskToldOnce == Spec => []ToldOnce
<1>1. IndInv => ToldOnce
  BY DEF IndInv, Telling, Answers, ToldOnce
<1> QED BY <1>1, Inductive, PTL

\* The answer, an exception, a cancellation or results, is what the children did
\* (detail/wait.h:536-543).
THEOREM ResultsAreTheirs == Spec => []Results
<1>1. IndInv => Results
  <2> SUFFICES ASSUME IndInv, ~CountedTwice
               PROVE  /\ exception # 0 => state[exception] = "Failed"
                      /\ exception = 0 => \A i \in Child : state[i] # "Failed"
                      /\ phase = "done" /\ exception = 0 =>
                          /\ kind = "allOf" => \A i \in Child : state[i] = "Succeeded"
                          /\ kind = "mostOf" /\ ~asked =>
                                \A i \in Child : state[i] = "Succeeded"
                          /\ kind = "anyOf" /\ parent =>
                                \E i \in Child : state[i] = "Succeeded"
                      /\ phase \in {"aborted", "cancelled"} =>
                          /\ exception = 0
                          /\ kind # "allOf" => \A i \in Child : state[i] = "Cancelled"
    BY DEF Results
  <2>1. /\ exception # 0 => exception \in Child /\ state[exception] = "Failed"
        /\ exception = 0 => \A i \in Child : state[i] # "Failed"
    BY DEF IndInv, Typed, ExceptionKept
  <2>2. ASSUME phase = "done", exception = 0
        PROVE  /\ kind = "allOf" => \A i \in Child : state[i] = "Succeeded"
               /\ kind = "mostOf" /\ ~asked => \A i \in Child : state[i] = "Succeeded"
               /\ kind = "anyOf" /\ parent => \E i \in Child : state[i] = "Succeeded"
    <3>1. \A i \in Child : state[i] \in {"Cancelled", "Succeeded"}
      BY <2>1, <2>2 DEF IndInv, Answers, Finished
    <3>2. CASE ~asked
      <4>1. kind # "anyOf" => \A i \in Child : state[i] = "Succeeded"
        BY <2>2, <3>1, <3>2 DEF IndInv, NeedAll
      <4>2. parent => \E i \in Child : state[i] = "Succeeded"
        BY <2>2, <3>1, <3>2 DEF IndInv, Answers, HasResult
      <4> QED BY <3>2, <4>1, <4>2
    <3>3. CASE asked
      <4>1. MustResume
        BY <2>2, <3>3 DEF IndInv, Answers
      <4> QED BY <2>2, <3>1, <3>3, <4>1 DEF MustResume
    <3> QED BY <3>2, <3>3
  <2>3. ASSUME phase \in {"aborted", "cancelled"}
        PROVE  /\ exception = 0
               /\ kind # "allOf" => \A i \in Child : state[i] = "Cancelled"
    <3>1. CASE phase = "aborted"
      <4>1. \A i \in Child : state[i] = "Cancelled"
        BY <3>1 DEF IndInv, Answers
      <4> QED BY <2>1, <4>1
    <3>2. CASE phase = "cancelled"
      <4>1. ~MustResume
        BY <3>2 DEF IndInv, Answers
      <4>2. kind # "allOf" => \A i \in Child : state[i] = "Cancelled"
        BY <4>1 DEF MustResume
      <4>3. kind = "allOf" => exception = 0
        BY <4>1 DEF MustResume
      <4> QED BY <2>1, <4>2, <4>3
    <3> QED BY <2>3, <3>1, <3>2
  <2> QED BY <2>1, <2>2, <2>3
<1> QED BY <1>1, Inductive, PTL
=============================================================================
