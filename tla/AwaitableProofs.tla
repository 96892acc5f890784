--------------------------- MODULE AwaitableProofs ---------------------------
(***************************************************************************)
(* The classes of the family of Awaitable, each with what it keeps to: the *)
(* adapters, try blocks, what awaits asio and QIODevice, run(), tasks,     *)
(* portals, sequences and timers.                                          *)
(***************************************************************************)
EXTENDS MCAwaitables, FiniteSetTheorems, SequenceTheorems, TLAPS

----------------------------------------------------------------------------
(* What each call makes of a checker.                                      *)

\* It goes from c to d, which is in state s.
Goes(c, d, s) == d \in Checker /\ d.state = s /\ d.hasExecutor = c.hasExecutor

LEMMA StepMoves ==
    ASSUME NEW c \in Checker, NEW moves
    PROVE  /\ Step(c, moves).state = IF c.state \in DOMAIN moves THEN moves[c.state] ELSE "Broken"
           /\ Step(c, moves).hasExecutor = c.hasExecutor
           /\ Step(c, moves) = [state |-> Step(c, moves).state, hasExecutor |-> c.hasExecutor]
BY DEF Step, Checker

LEMMA ReadyMoves ==
    ASSUME NEW c \in Checker
    PROVE  /\ Goes(c, ReadyReturned(c, TRUE),
                   IF c.state \in {"Initial", "NotReady", "ReadyImmediately"} THEN "ReadyImmediately"
                   ELSE IF c.state \in {"InitialCxlPend", "CancelPending", "ReadyAfterCancel"}
                        THEN "ReadyAfterCancel" ELSE "Broken")
           /\ Goes(c, ReadyReturned(c, FALSE),
                   IF c.state \in {"Initial", "NotReady"} THEN "NotReady"
                   ELSE IF c.state \in {"InitialCxlPend", "CancelPending"} THEN "CancelPending"
                        ELSE "Broken")
BY StepMoves DEF Goes, Checker, CheckerState, ReadyReturned

LEMMA EarlyCancelMoves ==
    ASSUME NEW c \in Checker
    PROVE  /\ Goes(c, EarlyCancelReturned(c, TRUE),
                   IF c.state \in {"Initial", "NotReady", "ReadyImmediately"} THEN "Cancelled"
                   ELSE "Broken")
           /\ Goes(c, EarlyCancelReturned(c, FALSE),
                   IF c.state = "Initial" THEN "InitialCxlPend"
                   ELSE IF c.state = "NotReady" THEN "CancelPending"
                        ELSE IF c.state = "ReadyImmediately" THEN "ReadyAfterCancel" ELSE "Broken")
BY StepMoves DEF Goes, Checker, CheckerState, EarlyCancelReturned

LEMMA SuspendMoves ==
    ASSUME NEW c \in Checker
    PROVE  /\ Goes(c, AboutToSuspend(c),
                   IF c.hasExecutor /\ c.state = "NotReady" THEN "Running"
                   ELSE IF c.hasExecutor /\ c.state = "CancelPending" THEN "Cancelling" ELSE "Broken")
           /\ Goes(c, SuspendThrew(c),
                   IF c.state \in {"Running", "Cancelling"} THEN "Done" ELSE "Broken")
BY StepMoves DEF Goes, Checker, CheckerState, AboutToSuspend, SuspendThrew

LEMMA CancelMoves ==
    ASSUME NEW c \in Checker
    PROVE  /\ Goes(c, AboutToCancel(c),
                   IF c.state = "Running" THEN "Cancelling" ELSE "Broken")
           /\ Goes(c, CancelReturned(c, TRUE),
                   IF c.state = "Cancelling" THEN "Cancelled" ELSE "Broken")
BY StepMoves DEF Goes, Checker, CheckerState, AboutToCancel, CancelReturned

LEMMA MustResumeMoves ==
    ASSUME NEW c \in Checker
    PROVE  /\ Goes(c, MustResumeReturned(c, TRUE),
                   IF c.state = "ReadyAfterCancel" THEN "Ready" ELSE "Broken")
           /\ Goes(c, MustResumeReturned(c, FALSE),
                   IF c.state = "ReadyAfterCancel" THEN "Cancelled" ELSE "Broken")
BY StepMoves DEF Goes, Checker, CheckerState, MustResumeReturned

LEMMA ResumeMoves ==
    ASSUME NEW c \in Checker
    PROVE  /\ Goes(c, AboutToResume(c),
                   IF c.state \in {"ReadyImmediately", "Ready"} THEN "Done" ELSE "Broken")
           /\ Goes(c, Resumed(c),
                   IF c.state = "Running" THEN "Ready"
                   ELSE IF c.state = "Cancelling" THEN "ReadyAfterCancel" ELSE "Broken")
BY StepMoves DEF Goes, Checker, CheckerState, AboutToResume, Resumed

LEMMA SetExecutorMoves ==
    ASSUME NEW c \in Checker
    PROVE  /\ AboutToSetExecutor(c) \in Checker /\ AboutToSetExecutor(c).hasExecutor
           /\ AboutToSetExecutor(c).state = IF c.state \in BeforeSuspend THEN c.state ELSE "Broken"
<1> DEFINE d == Step(c, [s \in BeforeSuspend |-> s])
<1>1. d.state = IF c.state \in BeforeSuspend THEN c.state ELSE "Broken"
  BY StepMoves
<1>2. d = [state |-> d.state, hasExecutor |-> c.hasExecutor]
  BY StepMoves
<1>3. AboutToSetExecutor(c) = [d EXCEPT !.hasExecutor = TRUE]
  BY DEF AboutToSetExecutor
<1> HIDE DEF d
<1> QED BY <1>1, <1>2, <1>3 DEF Checker, CheckerState, BeforeSuspend

LEMMA ResetMoves ==
    ASSUME NEW c \in Checker
    PROVE  /\ Reset(c) \in Checker
           /\ Reset(c).state = IF c.state \in {"Cancelled", "Done", "Initial"} THEN "Initial"
                               ELSE "Broken"
BY StepMoves DEF Reset, Fresh, Checker, CheckerState

----------------------------------------------------------------------------
(* Stacks and lists.                                                       *)

\* A call is made,
LEMMA Pushed ==
    ASSUME NEW S, NEW s \in Seq(S), NEW x \in S
    PROVE  /\ <<x>> \o s \in Seq(S)
           /\ Head(<<x>> \o s) = x /\ Tail(<<x>> \o s) = s
           /\ \A i \in 1..Len(<<x>> \o s) :
                (<<x>> \o s)[i] = x \/ \E j \in 1..Len(s) : (<<x>> \o s)[i] = s[j]
<1>1. <<x>> \in Seq(S) /\ Len(<<x>>) = 1 /\ Len(s) \in Nat
  BY LenProperties
<1>2. <<x>> \o s \in Seq(S) /\ Len(<<x>> \o s) = 1 + Len(s) /\ (<<x>> \o s)[1] = x
      /\ Tail(<<x>> \o s) = s /\ Head(<<x>> \o s) = x
  BY <1>1
<1>3. ASSUME NEW i \in 1..Len(<<x>> \o s), i # 1
      PROVE  \E j \in 1..Len(s) : (<<x>> \o s)[i] = s[j]
  <2>1. i - 1 \in 1..Len(s) /\ (<<x>> \o s)[i] = s[i - 1]
    BY <1>1, <1>2, <1>3
  <2> QED BY <2>1
<1> QED BY <1>2, <1>3

\* and comes back.
LEMMA Returned ==
    ASSUME NEW S, NEW s \in Seq(S), s # <<>>
    PROVE  /\ Tail(s) \in Seq(S) /\ Head(s) \in S /\ Head(s) = s[1] /\ 1 \in 1..Len(s)
           /\ \A i \in 1..Len(Tail(s)) : \E j \in 1..Len(s) : Tail(s)[i] = s[j]
<1>1. /\ Tail(s) \in Seq(S) /\ Head(s) = s[1] /\ 1 \in 1..Len(s)
      /\ \A i \in 1..Len(Tail(s)) : i + 1 \in 1..Len(s) /\ Tail(s)[i] = s[i + 1]
  OBVIOUS
<1> QED BY <1>1, ElementOfSeq

----------------------------------------------------------------------------
(* The adapters.                                                           *)

\* The checker in Adapters is this one.
LEMMA AdaptersChecker ==
    /\ Ad!Checker = Checker /\ Ad!Fresh = Fresh /\ Ad!BeforeSuspend = BeforeSuspend
    /\ \A c : /\ Ad!Legal(c) <=> Legal(c)
              /\ Ad!Pending(c) <=> Pending(c)
    /\ \A c : /\ Ad!AboutToSetExecutor(c) = AboutToSetExecutor(c)
              /\ Ad!AboutToSuspend(c) = AboutToSuspend(c)
              /\ Ad!SuspendThrew(c) = SuspendThrew(c)
              /\ Ad!AboutToCancel(c) = AboutToCancel(c)
              /\ Ad!AboutToResume(c) = AboutToResume(c)
              /\ Ad!Resumed(c) = Resumed(c)
              /\ Ad!Reset(c) = Reset(c)
    /\ \A c, val : /\ Ad!ReadyReturned(c, val) = ReadyReturned(c, val)
                   /\ Ad!EarlyCancelReturned(c, val) = EarlyCancelReturned(c, val)
                   /\ Ad!CancelReturned(c, val) = CancelReturned(c, val)
                   /\ Ad!MustResumeReturned(c, val) = MustResumeReturned(c, val)
    /\ \A c, moves : Ad!Step(c, moves) = Step(c, moves)
<1>1. \A c, moves : Ad!Step(c, moves) = Step(c, moves)
  BY DEF Ad!Step, Step
<1>2. Ad!CheckerState = CheckerState /\ Ad!BeforeSuspend = BeforeSuspend /\ Ad!Fresh = Fresh
  BY DEF Ad!CheckerState, CheckerState, Ad!BeforeSuspend, BeforeSuspend, Ad!Fresh, Fresh
<1>3. \A c : /\ Ad!AboutToSetExecutor(c) = AboutToSetExecutor(c)
             /\ Ad!AboutToSuspend(c) = AboutToSuspend(c)
             /\ Ad!SuspendThrew(c) = SuspendThrew(c)
             /\ Ad!AboutToCancel(c) = AboutToCancel(c)
             /\ Ad!AboutToResume(c) = AboutToResume(c)
             /\ Ad!Resumed(c) = Resumed(c)
             /\ Ad!Reset(c) = Reset(c)
  BY <1>1, <1>2 DEF Ad!AboutToSetExecutor, AboutToSetExecutor, Ad!AboutToSuspend, AboutToSuspend,
     Ad!SuspendThrew, SuspendThrew, Ad!AboutToCancel, AboutToCancel, Ad!AboutToResume,
     AboutToResume, Ad!Resumed, Resumed, Ad!Reset, Reset
<1>4. \A c, val : /\ Ad!ReadyReturned(c, val) = ReadyReturned(c, val)
                  /\ Ad!EarlyCancelReturned(c, val) = EarlyCancelReturned(c, val)
                  /\ Ad!CancelReturned(c, val) = CancelReturned(c, val)
                  /\ Ad!MustResumeReturned(c, val) = MustResumeReturned(c, val)
  BY <1>1 DEF Ad!ReadyReturned, ReadyReturned, Ad!EarlyCancelReturned, EarlyCancelReturned,
     Ad!CancelReturned, CancelReturned, Ad!MustResumeReturned, MustResumeReturned
<1> QED BY <1>1, <1>2, <1>3, <1>4 DEF Ad!Checker, Checker, Ad!Legal, Legal, Ad!Pending, Pending

LEMMA AdaptersTypes ==
    ASSUME Ad!Inv
    PROVE  /\ above \in [{1} -> Checker] /\ below \in [{1} -> Checker]
           /\ Ad!A \in Checker /\ Ad!B \in Checker /\ Legal(Ad!A) /\ Legal(Ad!B)
           /\ v1 \in {"noncancellable", "disposable", "untilCancelledAnd", "lambda", "yield"}
           /\ v2 \in BOOLEAN
           /\ over = "no" => Ad!AtWork
<1>1. /\ above \in [{1} -> Checker] /\ below \in [{1} -> Checker] /\ Legal(Ad!A) /\ Legal(Ad!B)
      /\ v1 \in Ad!Kinds /\ v2 \in BOOLEAN
  BY AdaptersChecker DEF Ad!Inv
<1>2. over = "no" => Ad!AtWork
  BY DEF Ad!Inv
<1> QED BY <1>1, <1>2 DEF Ad!A, Ad!B, Ad!Kinds

\* One parent, and one child.
LEMMA AdaptersBoth ==
    ASSUME Ad!Inv, NEW a \in Checker, NEW b \in Checker,
           above' = [above EXCEPT ![1] = a],
           (below' = [below EXCEPT ![1] = b]) \/ (below' = below /\ b = Ad!B)
    PROVE  /\ above' \in [{1} -> Ad!Checker] /\ below' \in [{1} -> Ad!Checker]
           /\ Ad!A' = a /\ Ad!B' = b
BY AdaptersChecker, AdaptersTypes DEF Ad!A, Ad!B

\* They are at work and go on.
LEMMA AdaptersGoOn ==
    ASSUME Ad!Inv, NEW a \in Checker, NEW b \in Checker,
           above' = [above EXCEPT ![1] = a],
           (below' = [below EXCEPT ![1] = b]) \/ (below' = below /\ b = Ad!B),
           over' = "no", v1' = v1, v2' \in BOOLEAN, Legal(a), Legal(b),
           Ad!AtWork',
           IF v1 = "yield"
           THEN calls' = IF Pending(a) THEN <<[fn |-> "callable", to |-> 1]>> ELSE <<>>
           ELSE calls' \in Seq([fn : Ad!Callees, to : {1}])
    PROVE  Ad!Inv'
<1>1. /\ above' \in [{1} -> Ad!Checker] /\ below' \in [{1} -> Ad!Checker]
      /\ Ad!A' = a /\ Ad!B' = b
  BY AdaptersBoth
<1>2. Ad!Callees' = Ad!Callees /\ v1 \in Ad!Kinds
  BY DEF Ad!Callees, Ad!Inv
<1> QED BY <1>1, <1>2, AdaptersChecker DEF Ad!Inv

\* Calls go on as they were, and there are none of a yield's callable.
LEMMA AdaptersCalls ==
    ASSUME Ad!Inv, NEW a, ~Pending(a), ~Pending(Ad!A), calls' = calls
    PROVE  IF v1 = "yield"
           THEN calls' = IF Pending(a) THEN <<[fn |-> "callable", to |-> 1]>> ELSE <<>>
           ELSE calls' \in Seq([fn : Ad!Callees, to : {1}])
BY AdaptersChecker DEF Ad!Inv

LEMMA AdaptersReady ==
    ASSUME Ad!Inv, Ad!Ready
    PROVE  Ad!Inv'
<1>1. /\ over = "no" /\ Ad!AtWork /\ Ad!A \in Checker /\ Ad!B \in Checker
      /\ Ad!A.state \in BeforeSuspend /\ UNCHANGED <<calls, over, v1, v2>>
  BY AdaptersChecker, AdaptersTypes DEF Ad!Ready, Ad!Calls
<1>2. PICK val \in BOOLEAN :
        /\ above' = [above EXCEPT ![1] = ReadyReturned(Ad!A, val)]
        /\ Legal(ReadyReturned(Ad!A, val))
        /\ IF v1 \in {"noncancellable", "disposable"}
           THEN below' = [below EXCEPT ![1] = ReadyReturned(Ad!B, val)] /\ val \in Ad!ReadyAnswers(Ad!B)
           ELSE UNCHANGED below /\ ~val
  <2>1. CASE v1 \in {"noncancellable", "disposable"}
    BY <2>1, AdaptersChecker DEF Ad!Ready, Ad!Calls, Ad!Below, Ad!ReadyAnswers
  <2>2. CASE v1 \notin {"noncancellable", "disposable"}
    BY <2>2, AdaptersChecker DEF Ad!Ready, Ad!Calls
  <2> QED BY <2>1, <2>2
<1> DEFINE a == ReadyReturned(Ad!A, val)
           b == IF v1 \in {"noncancellable", "disposable"} THEN ReadyReturned(Ad!B, val) ELSE Ad!B
<1>3. /\ a \in Checker /\ a.hasExecutor = Ad!A.hasExecutor
      /\ IF val THEN \/ Ad!A.state \in {"Initial", "NotReady", "ReadyImmediately"}
                        /\ a.state = "ReadyImmediately"
                     \/ Ad!A.state \in {"InitialCxlPend", "CancelPending", "ReadyAfterCancel"}
                        /\ a.state = "ReadyAfterCancel"
         ELSE \/ Ad!A.state \in {"Initial", "NotReady"} /\ a.state = "NotReady"
              \/ Ad!A.state \in {"InitialCxlPend", "CancelPending"} /\ a.state = "CancelPending"
  BY <1>1, <1>2, ReadyMoves DEF Goes, Legal, BeforeSuspend
<1>4. /\ b \in Checker /\ b.hasExecutor = Ad!B.hasExecutor
      /\ IF v1 \in {"noncancellable", "disposable"}
         THEN b.state = IF val
                   THEN IF Ad!B.state \in {"Initial", "NotReady", "ReadyImmediately"} THEN "ReadyImmediately"
                   ELSE IF Ad!B.state \in {"InitialCxlPend", "CancelPending", "ReadyAfterCancel"}
                        THEN "ReadyAfterCancel" ELSE "Broken"
                   ELSE IF Ad!B.state \in {"Initial", "NotReady"} THEN "NotReady"
                        ELSE IF Ad!B.state \in {"InitialCxlPend", "CancelPending"} THEN "CancelPending" ELSE "Broken"
         ELSE b = Ad!B
  BY <1>1, ReadyMoves DEF Goes
<1>5. Ad!A' = a /\ Ad!B' = b
  BY <1>2, <1>3, <1>4, AdaptersBoth DEF Goes
<1> HIDE DEF a, b
<1>6. Ad!AtWork' /\ Legal(b)
  BY <1>1, <1>2, <1>3, <1>4, <1>5, AdaptersTypes, AdaptersChecker
     DEF Ad!AtWork, Ad!Unaware, Ad!Informed, Ad!Unasked, Ad!OnCancel, Ad!ReadyAnswers, BeforeSuspend,
         Pending, Legal
<1>7. ~Pending(a) /\ ~Pending(Ad!A)
  BY <1>1, <1>3 DEF Pending, BeforeSuspend
<1>8. (below' = [below EXCEPT ![1] = b]) \/ (below' = below /\ b = Ad!B)
  BY <1>2, <1>4 DEF b
<1>9. above' = [above EXCEPT ![1] = a] /\ Legal(a)
  BY <1>2 DEF a
<1> QED BY <1>1, <1>3, <1>4, <1>6, <1>7, <1>8, <1>9, AdaptersGoOn, AdaptersCalls, AdaptersTypes

LEMMA AdaptersEarlyCancel ==
    ASSUME Ad!Inv, Ad!EarlyCancel
    PROVE  Ad!Inv'
<1>1. /\ over = "no" /\ Ad!AtWork /\ Ad!A \in Checker /\ Ad!B \in Checker
      /\ v2' = (v1 = "untilCancelledAnd") /\ UNCHANGED <<calls, over, v1>>
  BY AdaptersChecker, AdaptersTypes DEF Ad!EarlyCancel, Ad!Calls
<1>2. PICK val \in BOOLEAN :
        /\ above' = [above EXCEPT ![1] = EarlyCancelReturned(Ad!A, val)]
        /\ Legal(EarlyCancelReturned(Ad!A, val))
        /\ IF v1 \in {"disposable", "lambda"}
           THEN below' = [below EXCEPT ![1] = EarlyCancelReturned(Ad!B, val)]
           ELSE below' = below /\ val = (v1 = "yield")
  BY AdaptersChecker DEF Ad!EarlyCancel, Ad!Calls, Ad!Below, Ad!AsksChildEarly
<1> DEFINE a == EarlyCancelReturned(Ad!A, val)
           b == IF v1 \in {"disposable", "lambda"} THEN EarlyCancelReturned(Ad!B, val) ELSE Ad!B
<1>3. /\ a \in Checker /\ a.hasExecutor = Ad!A.hasExecutor
      /\ Ad!A.state \in {"Initial", "NotReady", "ReadyImmediately"}
      /\ a.state = IF val THEN "Cancelled" ELSE IF Ad!A.state = "Initial" THEN "InitialCxlPend"
                   ELSE IF Ad!A.state = "NotReady" THEN "CancelPending" ELSE "ReadyAfterCancel"
  <2>1. CASE val
    <3>1. val = TRUE
      BY <2>1
    <3> QED BY <1>1, <1>2, <3>1, EarlyCancelMoves DEF Goes, Legal
  <2>2. CASE ~val
    <3>1. val = FALSE
      BY <2>2
    <3> QED BY <1>1, <1>2, <3>1, EarlyCancelMoves DEF Goes, Legal
  <2> QED BY <2>1, <2>2
<1>4. /\ b \in Checker /\ b.hasExecutor = Ad!B.hasExecutor
      /\ IF v1 \in {"disposable", "lambda"}
         THEN Ad!B.state \in {"Initial", "NotReady", "ReadyImmediately"} =>
                b.state = IF val THEN "Cancelled" ELSE IF Ad!B.state = "Initial" THEN "InitialCxlPend"
                          ELSE IF Ad!B.state = "NotReady" THEN "CancelPending" ELSE "ReadyAfterCancel"
         ELSE b = Ad!B
  BY <1>1, EarlyCancelMoves DEF Goes
<1>5. (below' = [below EXCEPT ![1] = b]) \/ (below' = below /\ b = Ad!B)
  <2>1. CASE v1 \in {"disposable", "lambda"}
    <3>1. below' = [below EXCEPT ![1] = EarlyCancelReturned(Ad!B, val)]
      BY <1>2, <2>1
    <3> QED BY <2>1, <3>1
  <2>2. CASE v1 \notin {"disposable", "lambda"}
    BY <1>2, <2>2
  <2> QED BY <2>1, <2>2
<1>6. above' = [above EXCEPT ![1] = a] /\ Legal(a)
  BY <1>2
<1> HIDE DEF a, b
<1>7. Ad!A' = a /\ Ad!B' = b
  BY <1>3, <1>4, <1>5, <1>6, AdaptersBoth
<1>8. Ad!AtWork' /\ Legal(b)
  BY <1>1, <1>2, <1>3, <1>4, <1>7, AdaptersTypes, AdaptersChecker
     DEF Ad!AtWork, Ad!Unaware, Ad!Informed, Ad!Unasked, Ad!OnCancel, Pending, Legal
<1>9. ~Pending(a) /\ ~Pending(Ad!A)
  BY <1>3 DEF Pending
<1> QED BY <1>1, <1>3, <1>4, <1>5, <1>6, <1>8, <1>9, AdaptersGoOn, AdaptersCalls

LEMMA AdaptersSetExecutor ==
    ASSUME Ad!Inv, Ad!SetExecutor
    PROVE  Ad!Inv'
<1> DEFINE a == AboutToSetExecutor(Ad!A)
           b == IF v1 = "yield" THEN Ad!B ELSE AboutToSetExecutor(Ad!B)
<1>1. /\ over = "no" /\ Ad!AtWork /\ Ad!A \in Checker /\ Ad!B \in Checker
      /\ above' = [above EXCEPT ![1] = a] /\ Legal(a)
      /\ (below' = [below EXCEPT ![1] = b]) \/ (below' = below /\ b = Ad!B)
      /\ UNCHANGED <<calls, over, v1, v2>>
  BY AdaptersChecker, AdaptersTypes DEF Ad!SetExecutor, Ad!Calls, Ad!Below
<1>2. /\ a \in Checker /\ a.hasExecutor /\ a.state = Ad!A.state /\ Ad!A.state \in BeforeSuspend
  BY <1>1, SetExecutorMoves DEF Legal
<1>3. /\ b \in Checker
      /\ IF v1 = "yield" THEN b = Ad!B
         ELSE b.hasExecutor /\ (Ad!B.state \in BeforeSuspend => b.state = Ad!B.state)
  BY <1>1, SetExecutorMoves
<1>4. Ad!A' = a /\ Ad!B' = b
  BY <1>1, <1>2, <1>3, AdaptersBoth
<1> HIDE DEF a, b
<1>5. Ad!AtWork' /\ Legal(b)
  BY <1>1, <1>2, <1>3, <1>4, AdaptersTypes, AdaptersChecker
     DEF Ad!AtWork, Ad!Unaware, Ad!Informed, Ad!Unasked, Ad!OnCancel, Pending, Legal, BeforeSuspend
<1>6. ~Pending(a) /\ ~Pending(Ad!A)
  BY <1>2 DEF Pending, BeforeSuspend
<1> QED BY <1>1, <1>2, <1>3, <1>5, <1>6, AdaptersGoOn, AdaptersCalls, AdaptersTypes

\* A call is made of the child, or comes back from it.
LEMMA AdaptersCalling ==
    ASSUME Ad!Inv, v1 # "yield"
    PROVE  /\ calls \in Seq([fn : Ad!Callees, to : {1}])
           /\ \A fn \in Ad!Callees : Ad!Calling(fn, 1) \in Seq([fn : Ad!Callees, to : {1}])
           /\ calls # <<>> => /\ Tail(calls) \in Seq([fn : Ad!Callees, to : {1}])
                              /\ Head(calls).fn \in Ad!Callees
<1> DEFINE S == [fn : Ad!Callees, to : {1}]
<1>1. calls \in Seq(S)
  BY DEF Ad!Inv
<1>2. ASSUME NEW fn \in Ad!Callees PROVE [fn |-> fn, to |-> 1] \in S
  OBVIOUS
<1>3. \A c \in S : c.fn \in Ad!Callees
  OBVIOUS
<1> HIDE DEF S
<1>4. ASSUME NEW fn \in Ad!Callees PROVE Ad!Calling(fn, 1) \in Seq(S)
  BY <1>1, <1>2, Pushed DEF Ad!Calling
<1>5. calls # <<>> => Tail(calls) \in Seq(S) /\ Head(calls) \in S
  BY <1>1, Returned
<1> QED BY <1>1, <1>3, <1>4, <1>5 DEF S

LEMMA AdaptersSuspendForwarder ==
    ASSUME Ad!Inv, Ad!SuspendForwarder
    PROVE  Ad!Inv'
<1> DEFINE a == AboutToSuspend(Ad!A)
           asked == IF v1 = "lambda" THEN ReadyReturned(Ad!B, FALSE) ELSE Ad!B
           b == AboutToSuspend(asked)
<1>1. /\ over = "no" /\ Ad!AtWork /\ Ad!A \in Checker /\ Ad!B \in Checker
      /\ v1 \in {"noncancellable", "disposable", "lambda"}
      /\ above' = [above EXCEPT ![1] = a] /\ Legal(a)
      /\ below' = [below EXCEPT ![1] = b]
      /\ calls' = Ad!Calling("await_suspend", 1)
      /\ UNCHANGED <<over, v1, v2>>
  BY AdaptersChecker, AdaptersTypes DEF Ad!SuspendForwarder, Ad!Calls, Ad!Below, Ad!Forwards
<1>2. /\ a \in Checker /\ a.hasExecutor = Ad!A.hasExecutor /\ Ad!A.hasExecutor
      /\ \/ Ad!A.state = "NotReady" /\ a.state = "Running"
         \/ Ad!A.state = "CancelPending" /\ a.state = "Cancelling"
  BY <1>1, SuspendMoves DEF Goes, Legal
<1>3. /\ asked \in Checker /\ asked.hasExecutor = Ad!B.hasExecutor
      /\ IF v1 = "lambda"
         THEN /\ Ad!B.state = "Initial" => asked.state = "NotReady"
              /\ Ad!B.state = "InitialCxlPend" => asked.state = "CancelPending"
         ELSE asked = Ad!B
  BY <1>1, ReadyMoves DEF Goes
<1> HIDE DEF asked
<1>4. /\ b \in Checker /\ b.hasExecutor = asked.hasExecutor
      /\ asked.hasExecutor /\ asked.state = "NotReady" => b.state = "Running"
      /\ asked.hasExecutor /\ asked.state = "CancelPending" => b.state = "Cancelling"
  BY <1>3, SuspendMoves DEF Goes
<1> HIDE DEF a, b
<1>5. Ad!A' = a /\ Ad!B' = b
  BY <1>1, <1>2, <1>4, AdaptersBoth
<1>6. Ad!AtWork' /\ Legal(b)
  BY <1>1, <1>2, <1>3, <1>4, <1>5, AdaptersChecker
     DEF Ad!AtWork, Ad!Unaware, Ad!Informed, Ad!Unasked, Ad!OnCancel, Pending, Legal
<1>7. calls' \in Seq([fn : Ad!Callees, to : {1}])
  BY <1>1, AdaptersCalling DEF Ad!Callees
<1> QED BY <1>1, <1>2, <1>4, <1>6, <1>7, AdaptersGoOn, AdaptersTypes

\* RunAwaitable(), for a parent that is being cancelled now.
LEMMA AdaptersRun ==
    ASSUME Ad!Inv, NEW a \in Checker, a.state = "Cancelling", a.hasExecutor, Ad!A.hasExecutor,
           v1 = "untilCancelledAnd", over = "no", Ad!B.state = "Initial",
           Ad!RunAwaitable(a), UNCHANGED <<over, v1, v2>>
    PROVE  Ad!Inv'
<1>1. Ad!B \in Checker /\ v2 \in BOOLEAN /\ Ad!B.hasExecutor
  BY AdaptersTypes DEF Ad!AtWork
<1>2. CASE above' = [above EXCEPT ![1] = Resumed(a)] /\ below' = [below EXCEPT ![1] = ReadyReturned(Ad!B, TRUE)]
           /\ calls' = calls
  <2> DEFINE c == Resumed(a)
             b == ReadyReturned(Ad!B, TRUE)
  <2>1. c \in Checker /\ c.state = "ReadyAfterCancel" /\ c.hasExecutor
    BY ResumeMoves DEF Goes
  <2>2. b \in Checker /\ b.state = "ReadyImmediately" /\ b.hasExecutor
    BY <1>1, ReadyMoves DEF Goes
  <2> HIDE DEF c, b
  <2>3. Ad!A' = c /\ Ad!B' = b
    BY <1>2, <2>1, <2>2, AdaptersBoth DEF c, b
  <2>4. Ad!AtWork' /\ Legal(b) /\ Legal(c)
    BY <2>1, <2>2, <2>3, AdaptersChecker DEF Ad!AtWork, Ad!OnCancel, Pending, Legal
  <2>5. calls' \in Seq([fn : Ad!Callees, to : {1}])
    BY <1>2, AdaptersCalling
  <2> QED BY <1>1, <1>2, <2>1, <2>2, <2>4, <2>5, AdaptersGoOn DEF c, b
<1>3. CASE above' = [above EXCEPT ![1] = a] /\ calls' = Ad!Calling("await_suspend", 1)
           /\ below' = [below EXCEPT ![1] = AboutToSuspend(ReadyReturned(Ad!B, FALSE))]
  <2> DEFINE asked == ReadyReturned(Ad!B, FALSE)
             b == AboutToSuspend(asked)
  <2>1. asked \in Checker /\ asked.state = "NotReady" /\ asked.hasExecutor
    BY <1>1, ReadyMoves DEF Goes
  <2> HIDE DEF asked
  <2>2. b \in Checker /\ b.state = "Running" /\ b.hasExecutor
    BY <2>1, SuspendMoves DEF Goes
  <2>3. below' = [below EXCEPT ![1] = b]
    BY <1>3 DEF asked
  <2> HIDE DEF b
  <2>4. Ad!A' = a /\ Ad!B' = b
    BY <1>3, <2>2, <2>3, AdaptersBoth
  <2>5. Ad!AtWork' /\ Legal(b) /\ Legal(a)
    BY <2>2, <2>4, AdaptersChecker DEF Ad!AtWork, Ad!OnCancel, Pending, Legal
  <2>6. calls' \in Seq([fn : Ad!Callees, to : {1}])
    BY <1>3, AdaptersCalling DEF Ad!Callees
  <2> QED BY <1>1, <1>3, <2>2, <2>3, <2>5, <2>6, AdaptersGoOn
<1> QED BY <1>2, <1>3, AdaptersChecker DEF Ad!RunAwaitable, Ad!Calls, Ad!Below

LEMMA AdaptersSuspendRunOnCancel ==
    ASSUME Ad!Inv, Ad!SuspendRunOnCancel
    PROVE  Ad!Inv'
<1> DEFINE a == AboutToSuspend(Ad!A)
<1>1. /\ v1 = "untilCancelledAnd" /\ Legal(a) /\ over = "no" /\ Ad!AtWork
      /\ Ad!A \in Checker /\ Ad!B \in Checker
      /\ UNCHANGED <<over, v1, v2>> /\ v2 \in BOOLEAN
      /\ IF v2 THEN Ad!RunAwaitable(a)
         ELSE above' = [above EXCEPT ![1] = a] /\ UNCHANGED <<below, calls>>
  BY AdaptersChecker, AdaptersTypes DEF Ad!SuspendRunOnCancel, Ad!RunAwaitable, Ad!Calls
<1>2. /\ a \in Checker /\ a.hasExecutor = Ad!A.hasExecutor /\ Ad!A.hasExecutor
      /\ \/ Ad!A.state = "NotReady" /\ a.state = "Running"
         \/ Ad!A.state = "CancelPending" /\ a.state = "Cancelling"
  BY <1>1, SuspendMoves DEF Goes, Legal
<1>3. /\ Ad!B.state = "Initial" /\ Ad!B.hasExecutor
      /\ v2 <=> Ad!A.state = "CancelPending"
  BY <1>1, <1>2 DEF Ad!AtWork, Ad!OnCancel
<1> HIDE DEF a
<1>4. CASE v2
  BY <1>1, <1>2, <1>3, <1>4, AdaptersRun
<1>5. CASE ~v2
  <2>1. Ad!A' = a /\ Ad!B' = Ad!B
    BY <1>1, <1>2, <1>5, AdaptersBoth
  <2>2. Ad!AtWork' /\ Legal(Ad!B)
    BY <1>1, <1>2, <1>3, <1>5, <2>1, AdaptersChecker DEF Ad!AtWork, Ad!OnCancel, Pending, Legal
  <2>3. calls' \in Seq([fn : Ad!Callees, to : {1}])
    BY <1>1, <1>5, AdaptersCalling
  <2> QED BY <1>1, <1>2, <1>5, <2>2, <2>3, AdaptersGoOn
<1> QED BY <1>1, <1>4, <1>5

LEMMA AdaptersSuspendYield ==
    ASSUME Ad!Inv, Ad!SuspendYield
    PROVE  Ad!Inv'
<1> DEFINE a == AboutToSuspend(Ad!A)
<1>1. /\ over = "no" /\ Ad!AtWork /\ Ad!A \in Checker /\ Ad!B \in Checker /\ Legal(Ad!B)
      /\ v1 = "yield" /\ v2 \in BOOLEAN
      /\ above' = [above EXCEPT ![1] = a] /\ Legal(a)
      /\ calls' = Ad!Calling("callable", 1)
      /\ UNCHANGED <<below, over, v1, v2>>
  BY AdaptersChecker, AdaptersTypes DEF Ad!SuspendYield, Ad!Calls
<1>2. /\ a \in Checker /\ a.hasExecutor = Ad!A.hasExecutor /\ Ad!A.hasExecutor
      /\ Pending(a) /\ ~Pending(Ad!A)
  BY <1>1, SuspendMoves DEF Goes, Legal, Pending
<1> HIDE DEF a
<1>3. Ad!A' = a /\ Ad!B' = Ad!B
  BY <1>1, <1>2, AdaptersBoth
<1>4. Ad!AtWork'
  BY <1>1, <1>2, <1>3, AdaptersChecker DEF Ad!AtWork
<1>5. calls' = <<[fn |-> "callable", to |-> 1]>>
  <2>1. calls = <<>>
    BY <1>1, <1>2, AdaptersChecker DEF Ad!Inv
  <2> QED BY <1>1, <2>1 DEF Ad!Calling
<1> QED BY <1>1, <1>2, <1>4, <1>5, AdaptersGoOn

LEMMA AdaptersCancel ==
    ASSUME Ad!Inv, Ad!Cancel
    PROVE  Ad!Inv'
<1> DEFINE a == AboutToCancel(Ad!A)
           b == IF v1 \in {"disposable", "lambda"} THEN AboutToCancel(Ad!B) ELSE Ad!B
<1>1. /\ Legal(a) /\ Ad!A \in Checker /\ Ad!B \in Checker /\ UNCHANGED <<over, v1, v2>>
      /\ v2 \in BOOLEAN /\ Legal(Ad!B)
  BY AdaptersChecker, AdaptersTypes DEF Ad!Cancel
<1>2. /\ a \in Checker /\ a.hasExecutor = Ad!A.hasExecutor
      /\ Ad!A.state = "Running" /\ a.state = "Cancelling"
  BY <1>1, CancelMoves DEF Goes, Legal
<1>3. CASE v1 = "untilCancelledAnd"
  <2>1. Ad!RunAwaitable(a) /\ over = "no" /\ Ad!AtWork
    BY <1>3, AdaptersChecker, AdaptersTypes DEF Ad!Cancel, Ad!RunAwaitable, Ad!Calls
  <2>2. Ad!B.state = "Initial" /\ Ad!A.hasExecutor
    BY <1>2, <1>3, <2>1, AdaptersChecker DEF Ad!AtWork, Ad!OnCancel, Pending
  <2> HIDE DEF a
  <2> QED BY <1>1, <1>2, <1>3, <2>1, <2>2, AdaptersRun
<1>4. CASE v1 # "untilCancelledAnd"
  <2>1. /\ over = "no" /\ Ad!AtWork /\ above' = [above EXCEPT ![1] = a]
        /\ IF v1 \in {"disposable", "lambda"}
           THEN below' = [below EXCEPT ![1] = AboutToCancel(Ad!B)] /\ calls' = Ad!Calling("await_cancel", 1)
           ELSE UNCHANGED <<below, calls>>
    BY <1>4, AdaptersChecker, AdaptersTypes DEF Ad!Cancel, Ad!Calls, Ad!Below
  <2>2. /\ b \in Checker /\ b.hasExecutor = Ad!B.hasExecutor
        /\ IF v1 \in {"disposable", "lambda"}
           THEN Ad!B.state = "Running" => b.state = "Cancelling"
           ELSE b = Ad!B
    BY <1>1, CancelMoves DEF Goes
  <2>3. (below' = [below EXCEPT ![1] = b]) \/ (below' = below /\ b = Ad!B)
    BY <2>1
  <2> HIDE DEF a, b
  <2>4. Ad!A' = a /\ Ad!B' = b
    BY <1>2, <2>1, <2>2, <2>3, AdaptersBoth
  <2>5. Ad!AtWork' /\ Legal(b)
    BY <1>1, <1>2, <1>4, <2>1, <2>2, <2>4, AdaptersChecker
       DEF Ad!AtWork, Ad!Unaware, Ad!Informed, Ad!Unasked, Pending, Legal
  <2>6. CASE v1 = "yield"
    <3>1. calls' = <<[fn |-> "callable", to |-> 1]>>
      BY <1>2, <2>1, <2>6, AdaptersChecker DEF Ad!Inv, Pending
    <3>2. Pending(a)
      BY <1>2 DEF Pending
    <3> QED BY <1>1, <1>2, <2>1, <2>2, <2>3, <2>5, <2>6, <3>1, <3>2, AdaptersGoOn
  <2>7. CASE v1 # "yield"
    <3>1. calls' \in Seq([fn : Ad!Callees, to : {1}])
      BY <2>1, <2>7, AdaptersCalling DEF Ad!Callees
    <3> QED BY <1>1, <1>2, <2>1, <2>2, <2>3, <2>5, <2>7, <3>1, AdaptersGoOn
  <2> QED BY <2>6, <2>7
<1> QED BY <1>3, <1>4

LEMMA AdaptersChildResumes ==
    ASSUME Ad!Inv, Ad!ChildResumes
    PROVE  Ad!Inv'
<1> DEFINE a == Resumed(Ad!A)
           b == Resumed(Ad!B)
<1>1. /\ over = "no" /\ Ad!AtWork /\ Ad!A \in Checker /\ Ad!B \in Checker /\ v2 \in BOOLEAN
      /\ v1 # "yield" /\ Pending(Ad!B)
      /\ above' = [above EXCEPT ![1] = a] /\ below' = [below EXCEPT ![1] = b]
      /\ UNCHANGED <<calls, over, v1, v2>>
  BY AdaptersChecker, AdaptersTypes DEF Ad!ChildResumes, Ad!Below, Ad!AtWork, Pending
<1>2. IF v1 = "noncancellable" THEN Ad!B.state = "Running" /\ Pending(Ad!A)
      ELSE IF v1 = "untilCancelledAnd" THEN Ad!B.state = "Running" /\ Ad!A.state = "Cancelling"
           ELSE Ad!B.state = Ad!A.state /\ Pending(Ad!A)
  BY <1>1, AdaptersTypes, AdaptersChecker
     DEF Ad!AtWork, Ad!Unaware, Ad!Informed, Ad!Unasked, Ad!OnCancel, Pending, Legal, Checker, CheckerState
<1>3. /\ a \in Checker /\ a.hasExecutor = Ad!A.hasExecutor
      /\ a.state = IF Ad!A.state = "Running" THEN "Ready" ELSE "ReadyAfterCancel"
  BY <1>1, <1>2, ResumeMoves DEF Goes, Pending
<1>4. /\ b \in Checker /\ b.hasExecutor = Ad!B.hasExecutor
      /\ b.state = IF Ad!B.state = "Running" THEN "Ready" ELSE "ReadyAfterCancel"
  BY <1>1, ResumeMoves DEF Goes, Pending
<1> HIDE DEF a, b
<1>5. Ad!A' = a /\ Ad!B' = b
  BY <1>1, <1>3, <1>4, AdaptersBoth
<1>6. Ad!AtWork' /\ Legal(a) /\ Legal(b)
  BY <1>1, <1>2, <1>3, <1>4, <1>5, AdaptersTypes, AdaptersChecker
     DEF Ad!AtWork, Ad!Unaware, Ad!Informed, Ad!Unasked, Ad!OnCancel, Pending, Legal
<1>7. calls' \in Seq([fn : Ad!Callees, to : {1}])
  BY <1>1, AdaptersCalling
<1> QED BY <1>1, <1>3, <1>4, <1>6, <1>7, AdaptersGoOn

LEMMA AdaptersReturns ==
    ASSUME Ad!Inv, Ad!Returns
    PROVE  Ad!Inv'
<1>1. /\ calls # <<>> /\ calls' = Tail(calls) /\ UNCHANGED <<below, over, v1, v2>>
      /\ IF Ad!InCall("callable") /\ over = "no" THEN above' = [above EXCEPT ![1] = Resumed(Ad!A)]
         ELSE above' = above
  BY AdaptersChecker DEF Ad!Returns
<1>2. CASE v1 = "yield"
  <2> DEFINE a == Resumed(Ad!A)
  <2>1. Pending(Ad!A) /\ calls = <<[fn |-> "callable", to |-> 1]>>
    BY <1>1, <1>2, AdaptersChecker DEF Ad!Inv
  <2>2. over = "no" /\ Ad!InCall("callable")
    BY <1>2, <2>1 DEF Ad!Inv, Ad!Gone, Ad!Failed, Pending, Ad!InCall
  <2>3. /\ a \in Checker /\ ~Pending(a) /\ Legal(a)
    BY <2>1, AdaptersTypes, ResumeMoves DEF Goes, Pending, Legal
  <2>4. above' = [above EXCEPT ![1] = a] /\ calls' = <<>>
    BY <1>1, <2>1, <2>2
  <2> HIDE DEF a
  <2>5. Ad!A' = a /\ Ad!B' = Ad!B
    BY <1>1, <2>3, <2>4, AdaptersTypes, AdaptersBoth
  <2>6. Ad!AtWork'
    BY <1>1, <1>2, <2>2, <2>3, <2>5, AdaptersTypes, AdaptersChecker DEF Ad!AtWork
  <2> QED BY <1>1, <1>2, <2>2, <2>3, <2>4, <2>6, AdaptersTypes, AdaptersGoOn
<1>3. CASE v1 # "yield"
  <2>1. Tail(calls) \in Seq([fn : Ad!Callees, to : {1}]) /\ ~Ad!InCall("callable")
    BY <1>1, <1>3, AdaptersCalling DEF Ad!Callees, Ad!InCall
  <2>2. UNCHANGED <<above, below, over, v1, v2>> /\ calls' \in Seq([fn : Ad!Callees, to : {1}])
    BY <1>1, <2>1
  <2> QED BY <1>3, <2>2 DEF Ad!Inv, Ad!Gone, Ad!Failed, Ad!AtWork, Ad!A, Ad!B, Ad!Callees, Ad!Unaware,
             Ad!Informed, Ad!Unasked, Ad!OnCancel, Ad!AsksChildEarly
<1> QED BY <1>2, <1>3

LEMMA AdaptersCancelReturnsTrue ==
    ASSUME Ad!Inv, Ad!CancelReturnsTrue
    PROVE  Ad!Inv'
<1> DEFINE a == CancelReturned(Ad!A, TRUE)
           b == CancelReturned(Ad!B, TRUE)
<1>1. /\ calls # <<>> /\ Head(calls).fn = "await_cancel" /\ calls' = Tail(calls)
      /\ Ad!A \in Checker /\ Ad!B \in Checker /\ v2 \in BOOLEAN /\ Ad!B.state = "Cancelling"
      /\ above' = [above EXCEPT ![1] = a] /\ below' = [below EXCEPT ![1] = b]
      /\ UNCHANGED <<over, v1, v2>>
  BY AdaptersChecker, AdaptersTypes DEF Ad!CancelReturnsTrue, Ad!Below, Ad!InCall
<1>2. over = "no" /\ Ad!AtWork
  BY <1>1, AdaptersTypes DEF Ad!Inv, Ad!Gone, Ad!Failed
<1>3. v1 \in {"disposable", "lambda"}
  <2>1. v1 # "yield"
    BY <1>1, <1>2 DEF Ad!AtWork
  <2>2. "await_cancel" \in Ad!Callees
    BY <1>1, <2>1, AdaptersCalling
  <2> QED BY <2>2 DEF Ad!Callees
<1>4. Ad!A.state = "Cancelling"
  BY <1>1, <1>2, <1>3, AdaptersTypes DEF Ad!AtWork, Ad!Informed, Ad!Unasked
<1>5. /\ a \in Checker /\ a.hasExecutor = Ad!A.hasExecutor /\ a.state = "Cancelled"
      /\ b \in Checker /\ b.hasExecutor = Ad!B.hasExecutor /\ b.state = "Cancelled"
  BY <1>1, <1>4, CancelMoves DEF Goes
<1> HIDE DEF a, b
<1>6. Ad!A' = a /\ Ad!B' = b
  BY <1>1, <1>5, AdaptersBoth
<1>7. Ad!AtWork' /\ Legal(a) /\ Legal(b)
  BY <1>1, <1>2, <1>3, <1>5, <1>6, AdaptersChecker DEF Ad!AtWork, Ad!Informed, Ad!Unasked, Pending, Legal
<1>8. calls' \in Seq([fn : Ad!Callees, to : {1}])
  BY <1>1, <1>3, AdaptersCalling
<1> QED BY <1>1, <1>2, <1>3, <1>5, <1>7, <1>8, AdaptersGoOn

LEMMA AdaptersSuspendThrows ==
    ASSUME Ad!Inv, Ad!SuspendThrows
    PROVE  Ad!Inv'
<1> DEFINE a == SuspendThrew(Ad!A)
           b == IF v1 = "yield" THEN Ad!B ELSE SuspendThrew(Ad!B)
<1>1. /\ over = "no" /\ Ad!AtWork /\ Ad!A \in Checker /\ Ad!B \in Checker /\ v2 \in BOOLEAN
      /\ calls # <<>> /\ calls' = Tail(calls) /\ UNCHANGED <<v1, v2>> /\ Legal(Ad!B)
      /\ IF v1 = "untilCancelledAnd" THEN over' = "terminated" /\ above' = above
         ELSE above' = [above EXCEPT ![1] = a] /\ over' = over
  BY AdaptersChecker, AdaptersTypes DEF Ad!SuspendThrows, Ad!InCall
<1>2. IF v1 = "yield" THEN below' = below ELSE below' = [below EXCEPT ![1] = b] /\ Pending(Ad!B)
  <2>1. CASE v1 = "yield"
    <3>1. ~Pending(Ad!B)
      BY <1>1, <2>1 DEF Ad!AtWork, Pending
    <3> QED BY <2>1, <3>1, AdaptersChecker DEF Ad!SuspendThrows
  <2>2. CASE v1 # "yield"
    <3>1. ~Ad!InCall("callable")
      BY <1>1, <2>2, AdaptersCalling DEF Ad!Callees, Ad!InCall
    <3> QED BY <2>2, <3>1, AdaptersChecker DEF Ad!SuspendThrows, Ad!Below
  <2> QED BY <2>1, <2>2
<1>3. Pending(Ad!A)
  <2>1. CASE v1 = "yield"
    BY <1>1, <2>1, AdaptersChecker DEF Ad!Inv
  <2>2. CASE v1 # "yield"
    BY <1>1, <1>2, <2>2, AdaptersTypes
       DEF Ad!AtWork, Ad!Unaware, Ad!Informed, Ad!Unasked, Ad!OnCancel, Pending, Legal, Checker, CheckerState
  <2> QED BY <2>1, <2>2
<1>4. /\ a \in Checker /\ a.hasExecutor = Ad!A.hasExecutor /\ a.state = "Done"
      /\ b \in Checker /\ b.hasExecutor = Ad!B.hasExecutor
      /\ IF v1 = "yield" THEN b = Ad!B ELSE b.state = "Done"
  BY <1>1, <1>2, <1>3, SuspendMoves DEF Goes, Pending
<1>5. (below' = [below EXCEPT ![1] = b]) \/ (below' = below /\ b = Ad!B)
  BY <1>2
<1> HIDE DEF a, b
<1>6. CASE v1 = "untilCancelledAnd"
  <2>1. Ad!A.state = "Cancelling" /\ below' = [below EXCEPT ![1] = b]
    BY <1>1, <1>2, <1>3, <1>6 DEF Ad!AtWork, Ad!OnCancel, Pending
  <2>2. Ad!A' = Ad!A /\ Ad!B' = b /\ below' \in [{1} -> Checker] /\ above' = above
    BY <1>1, <1>4, <1>6, <2>1, AdaptersTypes DEF Ad!A, Ad!B
  <2>3. Ad!Failed' /\ calls' \in Seq([fn : Ad!Callees, to : {1}])
    BY <1>1, <1>4, <1>6, <2>1, <2>2, AdaptersCalling DEF Ad!Failed
  <2>4. Ad!Callees' = Ad!Callees /\ v1 \in Ad!Kinds /\ above \in [{1} -> Checker] /\ Legal(Ad!A)
    BY <1>1, AdaptersTypes DEF Ad!Callees, Ad!Kinds
  <2> QED BY <1>1, <1>4, <1>6, <2>2, <2>3, <2>4, AdaptersChecker DEF Ad!Inv, Legal
<1>7. CASE v1 # "untilCancelledAnd"
  <2>1. Ad!A' = a /\ Ad!B' = b
    BY <1>1, <1>4, <1>5, <1>7, AdaptersBoth
  <2>2. Ad!AtWork' /\ Legal(a) /\ Legal(b)
    BY <1>1, <1>2, <1>3, <1>4, <1>7, <2>1, AdaptersTypes, AdaptersChecker
       DEF Ad!AtWork, Ad!Unaware, Ad!Informed, Ad!Unasked, Pending, Legal
  <2>3. CASE v1 = "yield"
    <3>1. calls = <<[fn |-> "callable", to |-> 1]>> /\ ~Pending(a)
      BY <1>3, <1>4, <2>3, AdaptersChecker DEF Ad!Inv, Pending
    <3>2. calls' = <<>>
      BY <1>1, <3>1
    <3> QED BY <1>1, <1>4, <1>5, <1>7, <2>2, <2>3, <3>1, <3>2, AdaptersGoOn
  <2>4. CASE v1 # "yield"
    <3>1. calls' \in Seq([fn : Ad!Callees, to : {1}])
      BY <1>1, <2>4, AdaptersCalling
    <3> QED BY <1>1, <1>4, <1>5, <1>7, <2>2, <2>4, <3>1, AdaptersGoOn
  <2> QED BY <2>3, <2>4
<1> QED BY <1>6, <1>7

LEMMA AdaptersMustResume ==
    ASSUME Ad!Inv, Ad!MustResume
    PROVE  Ad!Inv'
<1>1. /\ over = "no" /\ Ad!AtWork /\ Ad!A \in Checker /\ Ad!B \in Checker /\ v2 \in BOOLEAN
      /\ Legal(Ad!B) /\ UNCHANGED <<calls, v1, v2>>
      /\ over' \in IF v1 = "untilCancelledAnd" THEN {"no", "terminated"} ELSE {"no"}
  BY AdaptersChecker, AdaptersTypes DEF Ad!MustResume, Ad!Calls
<1>2. PICK val \in BOOLEAN :
        /\ above' = [above EXCEPT ![1] = MustResumeReturned(Ad!A, val)]
        /\ Legal(MustResumeReturned(Ad!A, val))
        /\ IF v1 = "lambda" THEN below' = [below EXCEPT ![1] = MustResumeReturned(Ad!B, val)]
           ELSE IF v1 = "untilCancelledAnd" THEN ~val /\ below' = [below EXCEPT ![1] = AboutToResume(Ad!B)]
           ELSE below' = below /\ val = (v1 \in {"noncancellable", "yield"})
  BY AdaptersChecker DEF Ad!MustResume, Ad!Calls, Ad!Below, Ad!AlwaysMustResume
<1> DEFINE a == MustResumeReturned(Ad!A, val)
           b == IF v1 = "lambda" THEN MustResumeReturned(Ad!B, val)
                ELSE IF v1 = "untilCancelledAnd" THEN AboutToResume(Ad!B) ELSE Ad!B
<1>3. /\ a \in Checker /\ a.hasExecutor = Ad!A.hasExecutor /\ Ad!A.state = "ReadyAfterCancel"
      /\ a.state = IF val THEN "Ready" ELSE "Cancelled"
  <2>1. CASE val
    <3>1. val = TRUE
      BY <2>1
    <3> QED BY <1>1, <1>2, <3>1, MustResumeMoves DEF Goes, Legal
  <2>2. CASE ~val
    <3>1. val = FALSE
      BY <2>2
    <3> QED BY <1>1, <1>2, <3>1, MustResumeMoves DEF Goes, Legal
  <2> QED BY <2>1, <2>2
<1>4. /\ v1 = "lambda" => Ad!B.state = "ReadyAfterCancel"
      /\ v1 = "untilCancelledAnd" => Ad!B.state \in {"ReadyImmediately", "Ready"}
  BY <1>1, <1>3 DEF Ad!AtWork, Ad!Unasked, Ad!OnCancel
<1>5. /\ b \in Checker /\ b.hasExecutor = Ad!B.hasExecutor
      /\ v1 = "lambda" => b.state = IF val THEN "Ready" ELSE "Cancelled"
      /\ v1 = "untilCancelledAnd" => b.state = "Done"
      /\ v1 \notin {"lambda", "untilCancelledAnd"} => b = Ad!B
  <2>1. CASE v1 = "lambda"
    <3>1. CASE val
      <4>1. val = TRUE
        BY <3>1
      <4> QED BY <1>1, <1>4, <2>1, <4>1, MustResumeMoves DEF Goes
    <3>2. CASE ~val
      <4>1. val = FALSE
        BY <3>2
      <4> QED BY <1>1, <1>4, <2>1, <4>1, MustResumeMoves DEF Goes
    <3> QED BY <3>1, <3>2
  <2>2. CASE v1 # "lambda"
    BY <1>1, <1>4, <2>2, ResumeMoves DEF Goes
  <2> QED BY <2>1, <2>2
<1>6. above' = [above EXCEPT ![1] = a]
      /\ ((below' = [below EXCEPT ![1] = b]) \/ (below' = below /\ b = Ad!B))
  BY <1>2
<1> HIDE DEF a, b
<1>7. Ad!A' = a /\ Ad!B' = b /\ above' \in [{1} -> Checker] /\ below' \in [{1} -> Checker]
  BY <1>3, <1>5, <1>6, AdaptersBoth, AdaptersChecker
<1>8. Ad!AtWork' /\ Legal(a) /\ Legal(b)
  BY <1>1, <1>2, <1>3, <1>5, <1>7, AdaptersTypes, AdaptersChecker
     DEF Ad!AtWork, Ad!Unaware, Ad!Informed, Ad!Unasked, Ad!OnCancel, Pending, Legal
<1>9. IF v1 = "yield"
      THEN calls' = IF Pending(a) THEN <<[fn |-> "callable", to |-> 1]>> ELSE <<>>
      ELSE calls' \in Seq([fn : Ad!Callees, to : {1}])
  <2>1. ~Pending(a) /\ ~Pending(Ad!A)
    BY <1>3 DEF Pending
  <2> QED BY <1>1, <2>1, AdaptersCalls
<1>10. CASE over' = "no"
  BY <1>1, <1>3, <1>5, <1>6, <1>8, <1>9, <1>10, AdaptersGoOn
<1>11. CASE over' = "terminated"
  <2>1. v1 = "untilCancelledAnd" /\ ~val
    BY <1>1, <1>2, <1>11
  <2>2. Ad!Failed'
    BY <1>1, <1>3, <1>5, <1>7, <2>1 DEF Ad!Failed
  <2>3. Ad!Callees' = Ad!Callees /\ v1 \in Ad!Kinds
    BY <1>1, <2>1 DEF Ad!Callees, Ad!Kinds
  <2> QED BY <1>1, <1>7, <1>8, <1>9, <1>11, <2>1, <2>2, <2>3, AdaptersChecker DEF Ad!Inv
<1> QED BY <1>1, <1>10, <1>11

LEMMA AdaptersResume ==
    ASSUME Ad!Inv, Ad!Resume
    PROVE  Ad!Inv'
<1> DEFINE a == AboutToResume(Ad!A)
           b == IF v1 = "yield" THEN Ad!B ELSE AboutToResume(Ad!B)
<1>1. /\ over = "no" /\ Ad!AtWork /\ Ad!A \in Checker /\ Ad!B \in Checker /\ v2 \in BOOLEAN
      /\ Legal(Ad!B) /\ UNCHANGED <<calls, over, v1, v2>>
      /\ above' = [above EXCEPT ![1] = a] /\ Legal(a)
  BY AdaptersChecker, AdaptersTypes DEF Ad!Resume, Ad!Calls
<1>2. /\ a \in Checker /\ a.hasExecutor = Ad!A.hasExecutor /\ a.state = "Done"
      /\ Ad!A.state \in {"ReadyImmediately", "Ready"}
  BY <1>1, ResumeMoves DEF Goes, Legal
<1>3. /\ v1 # "untilCancelledAnd"
      /\ v1 # "yield" => Ad!B.state \in {"ReadyImmediately", "Ready"}
  BY <1>1, <1>2, AdaptersTypes DEF Ad!AtWork, Ad!Unaware, Ad!Informed, Ad!Unasked, Ad!OnCancel
<1>4. (below' = [below EXCEPT ![1] = b]) \/ (below' = below /\ b = Ad!B)
  BY <1>3, AdaptersChecker, AdaptersTypes DEF Ad!Resume, Ad!Forwards, Ad!Below
<1>5. /\ b \in Checker /\ b.hasExecutor = Ad!B.hasExecutor
      /\ IF v1 = "yield" THEN b = Ad!B ELSE b.state = "Done"
  BY <1>1, <1>3, ResumeMoves DEF Goes
<1> HIDE DEF a, b
<1>6. Ad!A' = a /\ Ad!B' = b
  BY <1>1, <1>2, <1>4, <1>5, AdaptersBoth
<1>7. Ad!AtWork' /\ Legal(b)
  BY <1>1, <1>2, <1>3, <1>5, <1>6, AdaptersTypes, AdaptersChecker
     DEF Ad!AtWork, Ad!Unaware, Ad!Informed, Ad!Unasked, Pending, Legal
<1>8. ~Pending(a) /\ ~Pending(Ad!A)
  BY <1>2 DEF Pending
<1> QED BY <1>1, <1>2, <1>4, <1>5, <1>7, <1>8, AdaptersGoOn, AdaptersCalls

LEMMA AdaptersDestroy ==
    ASSUME Ad!Inv, Ad!Destroy
    PROVE  Ad!Inv'
<1> DEFINE a == Reset(Ad!A)
           b == IF v1 = "untilCancelledAnd" THEN Reset(Ad!B) ELSE Ad!B
<1>1. /\ over = "no" /\ Ad!AtWork /\ Ad!A \in Checker /\ Ad!B \in Checker /\ v2 \in BOOLEAN
      /\ v1 \in Ad!Kinds
      /\ Legal(Ad!B) /\ UNCHANGED <<calls, v1, v2>> /\ over' = "destroyed"
      /\ above' = [above EXCEPT ![1] = a] /\ Legal(a)
      /\ (below' = [below EXCEPT ![1] = b]) \/ (below' = below /\ b = Ad!B)
  BY AdaptersChecker, AdaptersTypes DEF Ad!Destroy, Ad!Calls, Ad!Below, Ad!Kinds
<1>2. a \in Checker /\ a.state = "Initial" /\ Ad!A.state \in {"Cancelled", "Done", "Initial"}
  BY <1>1, ResetMoves DEF Legal
<1>3. v1 = "untilCancelledAnd" => Ad!B.state \in {"Initial", "Done"}
  BY <1>1, <1>2 DEF Ad!AtWork, Ad!OnCancel
<1>4. /\ b \in Checker /\ IF v1 = "untilCancelledAnd" THEN b.state = "Initial" ELSE b = Ad!B
  BY <1>1, <1>3, ResetMoves
<1> HIDE DEF a, b
<1>5. Ad!A' = a /\ Ad!B' = b /\ above' \in [{1} -> Checker] /\ below' \in [{1} -> Checker]
  BY <1>1, <1>2, <1>4, AdaptersBoth, AdaptersChecker
<1>6. Ad!Gone' /\ Legal(b)
  BY <1>1, <1>2, <1>4, <1>5, AdaptersTypes
     DEF Ad!Gone, Ad!AtWork, Ad!Unaware, Ad!Informed, Ad!Unasked, Ad!AsksChildEarly, Legal
<1>7. IF v1 = "yield"
      THEN calls' = IF Pending(a) THEN <<[fn |-> "callable", to |-> 1]>> ELSE <<>>
      ELSE calls' \in Seq([fn : Ad!Callees, to : {1}])
  <2>1. ~Pending(a) /\ ~Pending(Ad!A)
    BY <1>2 DEF Pending
  <2> QED BY <1>1, <2>1, AdaptersCalls
<1>8. Ad!Callees' = Ad!Callees
  BY <1>1 DEF Ad!Callees
<1> QED BY <1>1, <1>5, <1>6, <1>7, <1>8, AdaptersChecker DEF Ad!Inv

LEMMA AdaptersInit ==
    ASSUME Ad!Init
    PROVE  Ad!Inv
<1>1. /\ above = [p \in {1} |-> Fresh] /\ below = [c \in {1} |-> Fresh] /\ calls = <<>> /\ over = "no"
      /\ v1 \in Ad!Kinds /\ v2 = FALSE
  BY AdaptersChecker DEF Ad!Init, Ad!ProtocolInit
<1>2. Fresh \in Checker /\ Fresh.state = "Initial"
  BY DEF Fresh, Checker, CheckerState
<1>3. /\ above \in [{1} -> Checker] /\ below \in [{1} -> Checker]
      /\ Ad!A = Fresh /\ Ad!B = Fresh
  BY <1>1, <1>2 DEF Ad!A, Ad!B
<1>4. Ad!AtWork
  BY <1>1, <1>2, <1>3, AdaptersChecker
     DEF Ad!AtWork, Ad!Unaware, Ad!Informed, Ad!Unasked, Ad!OnCancel, Pending
<1>5. calls \in Seq([fn : Ad!Callees, to : {1}])
  BY <1>1, EmptySeq
<1> QED BY <1>1, <1>2, <1>3, <1>4, <1>5, AdaptersChecker DEF Ad!Inv, Legal, Pending

LEMMA AdaptersKeep ==
    ASSUME Ad!Inv, Ad!Next
    PROVE  Ad!Inv'
BY AdaptersReady, AdaptersEarlyCancel, AdaptersSetExecutor, AdaptersSuspendForwarder,
   AdaptersSuspendRunOnCancel, AdaptersSuspendYield, AdaptersCancel, AdaptersMustResume,
   AdaptersResume, AdaptersDestroy, AdaptersChildResumes, AdaptersReturns, AdaptersCancelReturnsTrue,
   AdaptersSuspendThrows DEF Ad!Next, Ad!Parent, Ad!Child

LEMMA AdaptersInvariant == Spec => [](class = "adapter" => Ad!Inv)
<1>1. Init => (class = "adapter" => Ad!Inv)
  BY AdaptersInit DEF Init
<1>2. (class = "adapter" => Ad!Inv) /\ [Next]_vars => (class = "adapter" => Ad!Inv)'
  <2>1. ASSUME class = "adapter", Ad!Inv, Next PROVE Ad!Inv'
    BY <2>1, AdaptersKeep DEF Next
  <2>2. ASSUME class = "adapter", Ad!Inv, UNCHANGED vars PROVE Ad!Inv'
    BY <2>2 DEF vars, shared, Ad!Inv, Ad!Gone, Ad!Failed, Ad!AtWork, Ad!A, Ad!B, Ad!Callees, Ad!Unaware,
       Ad!Informed, Ad!Unasked, Ad!OnCancel, Ad!AsksChildEarly
  <2>3. [Next]_vars => class' = class
    BY DEF Next, vars, two, three, five, seven
  <2> QED BY <2>1, <2>2, <2>3
<1> QED BY <1>1, <1>2, PTL DEF Spec

\* What noncancellable() and untilCancelledAnd() are for.
LEMMA AdaptersCleanUp == Ad!Inv => Ad!Shielded /\ Ad!RunsOnCancel
<1> SUFFICES ASSUME Ad!Inv PROVE Ad!Shielded /\ Ad!RunsOnCancel
  OBVIOUS
<1>1. CASE over = "no"
  BY <1>1, AdaptersTypes, AdaptersChecker DEF Ad!AtWork, Ad!Unaware, Ad!OnCancel, Ad!Shielded, Ad!RunsOnCancel,
     BeforeSuspend, Legal, Checker, CheckerState
<1>2. CASE over \in {"destroyed", "terminated"}
  BY <1>2 DEF Ad!Inv, Ad!Gone, Ad!Failed, Ad!Shielded, Ad!RunsOnCancel, Ad!AsksChildEarly
<1> QED BY <1>1, <1>2 DEF Ad!Inv

----------------------------------------------------------------------------
(* Try blocks.                                                             *)

\* The checker in Try is this one.
LEMMA TryChecker ==
    /\ Tr!Checker = Checker /\ Tr!Fresh = Fresh /\ Tr!BeforeSuspend = BeforeSuspend
    /\ \A c : /\ Tr!Legal(c) <=> Legal(c)
              /\ Tr!Pending(c) <=> Pending(c)
    /\ \A c : /\ Tr!AboutToSetExecutor(c) = AboutToSetExecutor(c)
              /\ Tr!AboutToSuspend(c) = AboutToSuspend(c)
              /\ Tr!SuspendThrew(c) = SuspendThrew(c)
              /\ Tr!AboutToCancel(c) = AboutToCancel(c)
              /\ Tr!AboutToResume(c) = AboutToResume(c)
              /\ Tr!Resumed(c) = Resumed(c)
              /\ Tr!Reset(c) = Reset(c)
    /\ \A c, val : /\ Tr!ReadyReturned(c, val) = ReadyReturned(c, val)
                   /\ Tr!EarlyCancelReturned(c, val) = EarlyCancelReturned(c, val)
                   /\ Tr!CancelReturned(c, val) = CancelReturned(c, val)
                   /\ Tr!MustResumeReturned(c, val) = MustResumeReturned(c, val)
    /\ \A c, moves : Tr!Step(c, moves) = Step(c, moves)
<1>1. \A c, moves : Tr!Step(c, moves) = Step(c, moves)
  BY DEF Tr!Step, Step
<1>2. Tr!CheckerState = CheckerState /\ Tr!BeforeSuspend = BeforeSuspend /\ Tr!Fresh = Fresh
  BY DEF Tr!CheckerState, CheckerState, Tr!BeforeSuspend, BeforeSuspend, Tr!Fresh, Fresh
<1>3. \A c : /\ Tr!AboutToSetExecutor(c) = AboutToSetExecutor(c)
             /\ Tr!AboutToSuspend(c) = AboutToSuspend(c)
             /\ Tr!SuspendThrew(c) = SuspendThrew(c)
             /\ Tr!AboutToCancel(c) = AboutToCancel(c)
             /\ Tr!AboutToResume(c) = AboutToResume(c)
             /\ Tr!Resumed(c) = Resumed(c)
             /\ Tr!Reset(c) = Reset(c)
  BY <1>1, <1>2 DEF Tr!AboutToSetExecutor, AboutToSetExecutor, Tr!AboutToSuspend, AboutToSuspend,
     Tr!SuspendThrew, SuspendThrew, Tr!AboutToCancel, AboutToCancel, Tr!AboutToResume,
     AboutToResume, Tr!Resumed, Resumed, Tr!Reset, Reset
<1>4. \A c, val : /\ Tr!ReadyReturned(c, val) = ReadyReturned(c, val)
                  /\ Tr!EarlyCancelReturned(c, val) = EarlyCancelReturned(c, val)
                  /\ Tr!CancelReturned(c, val) = CancelReturned(c, val)
                  /\ Tr!MustResumeReturned(c, val) = MustResumeReturned(c, val)
  BY <1>1 DEF Tr!ReadyReturned, ReadyReturned, Tr!EarlyCancelReturned, EarlyCancelReturned,
     Tr!CancelReturned, CancelReturned, Tr!MustResumeReturned, MustResumeReturned
<1> QED BY <1>1, <1>2, <1>3, <1>4 DEF Tr!Checker, Checker, Tr!Legal, Legal, Tr!Pending, Pending

LEMMA TryTypes ==
    ASSUME Tr!Inv
    PROVE  /\ above \in [{1} -> Checker] /\ below \in [{1, 2, 3} -> Checker]
           /\ Tr!A \in Checker /\ Legal(Tr!A) /\ Tr!Task \in Checker
           /\ \A s \in {1, 2, 3} : below[s] \in Checker /\ Legal(below[s])
           /\ below[3].state # "Cancelling"
           /\ v1 \in BOOLEAN /\ v2 \in BOOLEAN /\ v3 \in {1, 2, 3} /\ v4 \in BOOLEAN /\ v5 \in BOOLEAN
           /\ v6 \in {0, 1, 2, 3} /\ v7 \in [{1, 2, 3} -> {"not", "value", "exception", "cancelled"}]
BY TryChecker DEF Tr!Inv, Tr!Stages, Tr!TRY, Tr!CATCH, Tr!FINALLY, Tr!A, Tr!Task

\* Calls come back to what called them.
LEMMA TryStack ==
    ASSUME NEW x, NEW y
    PROVE  /\ Tail(<<x>>) = <<>> /\ Tail(<<x, y>>) = <<y>>
           /\ Head(<<x>>) = x /\ Head(<<x, y>>) = x
           /\ <<x>> # <<>> /\ <<x, y>> # <<>>
           /\ <<x>> \o <<>> = <<x>> /\ <<x>> \o <<y>> = <<x, y>>
           /\ <<x, y>> \o <<>> = <<x, y>>
<1>1. Tail(<<x>>) = <<>>
  OBVIOUS
<1>2. <<x>> \o <<>> = <<x>>
  OBVIOUS
<1>3. <<x>> \o <<y>> = <<x, y>>
  <2>1. /\ <<x>> \in Seq({x, y}) /\ <<y>> \in Seq({x, y}) /\ <<x, y>> \in Seq({x, y})
        /\ Len(<<x>>) = 1 /\ Len(<<y>>) = 1 /\ Len(<<x, y>>) = 2
        /\ <<x>>[1] = x /\ <<y>>[1] = y /\ <<x, y>>[1] = x /\ <<x, y>>[2] = y
    OBVIOUS
  <2>2. /\ <<x>> \o <<y>> \in Seq({x, y}) /\ Len(<<x>> \o <<y>>) = 2
        /\ (<<x>> \o <<y>>)[1] = x /\ (<<x>> \o <<y>>)[2] = y
    BY <2>1, ConcatProperties
  <2>3. \A i \in 1..2 : (<<x>> \o <<y>>)[i] = <<x, y>>[i]
    BY <2>1, <2>2
  <2> QED BY <2>1, <2>2, <2>3, SeqEqual
<1>4. <<x, y>> \o <<>> = <<x, y>>
  OBVIOUS
<1>5. Head(<<x>>) = x /\ Head(<<x, y>>) = x
  OBVIOUS
<1>6. <<x>> # <<>> /\ <<x, y>> # <<>>
  OBVIOUS
<1>7. Tail(<<x, y>>) = <<y>>
  <2>1. <<y>> \in Seq({x, y}) /\ x \in {x, y}
    OBVIOUS
  <2>2. Tail(<<x>> \o <<y>>) = <<y>>
    BY <2>1, Pushed
  <2> QED BY <1>3, <2>2
<1> QED BY <1>1, <1>2, <1>3, <1>4, <1>5, <1>6, <1>7

TrySuspending == [fn |-> "await_suspend", to |-> 1]
TryLambda(s) == [fn |-> "lambda", to |-> s]

LEMMA TryCalls ==
    /\ Tr!Stacks = {<<>>, <<TrySuspending>>, <<TryLambda(v3)>>, <<TryLambda(v3), TrySuspending>>}
    /\ calls = <<>> => ~Tr!InCall("lambda") /\ ~Tr!InCall("await_suspend")
    /\ calls = <<TrySuspending>> =>
            ~Tr!InCall("lambda") /\ Tr!InCall("await_suspend") /\ Tail(calls) = <<>>
    /\ \A s : calls = <<TryLambda(s)>> => /\ Tr!InCall("lambda") /\ ~Tr!InCall("await_suspend")
                                          /\ Tail(calls) = <<>> /\ Tr!Callee = s
    /\ \A s : calls = <<TryLambda(s), TrySuspending>> =>
            /\ Tr!InCall("lambda") /\ ~Tr!InCall("await_suspend")
            /\ Tail(calls) = <<TrySuspending>> /\ Tr!Callee = s
<1>1. Tr!Stacks = {<<>>, <<TrySuspending>>, <<TryLambda(v3)>>, <<TryLambda(v3), TrySuspending>>}
  BY DEF Tr!Stacks, Tr!TRY, TrySuspending, TryLambda
<1>2. calls = <<>> => ~Tr!InCall("lambda") /\ ~Tr!InCall("await_suspend")
  BY DEF Tr!InCall
<1>3. calls = <<TrySuspending>> =>
            ~Tr!InCall("lambda") /\ Tr!InCall("await_suspend") /\ Tail(calls) = <<>>
  BY TryStack DEF Tr!InCall, TrySuspending
<1>4. \A s : calls = <<TryLambda(s)>> => /\ Tr!InCall("lambda") /\ ~Tr!InCall("await_suspend")
                                         /\ Tail(calls) = <<>> /\ Tr!Callee = s
  BY TryStack DEF Tr!InCall, TryLambda, Tr!Callee
<1>5. \A s : calls = <<TryLambda(s), TrySuspending>> =>
            /\ Tr!InCall("lambda") /\ ~Tr!InCall("await_suspend")
            /\ Tail(calls) = <<TrySuspending>> /\ Tr!Callee = s
  BY TryStack DEF Tr!InCall, TryLambda, Tr!Callee
<1> QED BY <1>1, <1>2, <1>3, <1>4, <1>5

LEMMA TryCallsThen ==
    /\ Tr!Stacks' = {<<>>, <<TrySuspending>>, <<TryLambda(v3')>>, <<TryLambda(v3'), TrySuspending>>}
    /\ calls' = <<>> => ~Tr!InCall("lambda")' /\ ~Tr!InCall("await_suspend")'
    /\ calls' = <<TrySuspending>> => ~Tr!InCall("lambda")' /\ Tr!InCall("await_suspend")'
    /\ \A s : calls' = <<TryLambda(s)>> => /\ Tr!InCall("lambda")' /\ ~Tr!InCall("await_suspend")'
                                           /\ Tr!Callee' = s
    /\ \A s : calls' = <<TryLambda(s), TrySuspending>> =>
            Tr!InCall("lambda")' /\ ~Tr!InCall("await_suspend")' /\ Tr!Callee' = s
<1>1. Tr!Stacks' = {<<>>, <<TrySuspending>>, <<TryLambda(v3')>>, <<TryLambda(v3'), TrySuspending>>}
  BY DEF Tr!Stacks, Tr!TRY, TrySuspending, TryLambda
<1>2. calls' = <<>> => ~Tr!InCall("lambda")' /\ ~Tr!InCall("await_suspend")'
  BY DEF Tr!InCall
<1>3. calls' = <<TrySuspending>> => ~Tr!InCall("lambda")' /\ Tr!InCall("await_suspend")'
  BY TryStack DEF Tr!InCall, TrySuspending
<1>4. \A s : calls' = <<TryLambda(s)>> => /\ Tr!InCall("lambda")' /\ ~Tr!InCall("await_suspend")'
                                          /\ Tr!Callee' = s
  BY TryStack DEF Tr!InCall, TryLambda, Tr!Callee
<1>5. \A s : calls' = <<TryLambda(s), TrySuspending>> =>
            Tr!InCall("lambda")' /\ ~Tr!InCall("await_suspend")' /\ Tr!Callee' = s
  BY TryStack DEF Tr!InCall, TryLambda, Tr!Callee
<1> QED BY <1>1, <1>2, <1>3, <1>4, <1>5


\* The parent is at a, and the task of the stage at b.
LEMMA TryBoth ==
    ASSUME Tr!Inv, NEW a \in Checker, NEW b \in Checker,
           (above' = [above EXCEPT ![1] = a]) \/ (above' = above /\ a = Tr!A),
           (below' = [below EXCEPT ![v3] = b]) \/ (below' = below /\ b = Tr!Task)
    PROVE  /\ above' \in [{1} -> Checker] /\ below' \in [{1, 2, 3} -> Checker]
           /\ Tr!A' = a /\ below'[v3] = b
           /\ \A s \in {1, 2, 3} : s # v3 => below'[s] = below[s]
<1>1. above \in [{1} -> Checker] /\ below \in [{1, 2, 3} -> Checker] /\ v3 \in {1, 2, 3}
  BY TryTypes
<1>2. above' \in [{1} -> Checker] /\ Tr!A' = a
  BY <1>1 DEF Tr!A
<1>3. below' \in [{1, 2, 3} -> Checker] /\ below'[v3] = b
      /\ \A s \in {1, 2, 3} : s # v3 => below'[s] = below[s]
  BY <1>1 DEF Tr!Task
<1> QED BY <1>2, <1>3

\* It goes on.
LEMMA TryGoesOn ==
    ASSUME above' \in [{1} -> Checker], below' \in [{1, 2, 3} -> Checker],
           Legal(Tr!A'), \A s \in {1, 2, 3} : Legal(below'[s]), below'[3].state # "Cancelling",
           v1' \in BOOLEAN, v2' \in BOOLEAN, v3' \in {1, 2, 3}, v4' \in BOOLEAN, v5' \in BOOLEAN,
           v6' \in {0, 1, 2, 3},
           v7' \in [{1, 2, 3} -> {"not", "value", "exception", "cancelled"}],
           calls' \in Tr!Stacks',
           \/ over' = "no" /\ (Tr!NotBegun' \/ Tr!UnderWay' \/ Tr!AtEnd')
           \/ over' = "destroyed" /\ Tr!A'.state = "Initial" /\ calls' = <<>>
           \/ over' = "terminated" /\ Pending(Tr!A') /\ v3' = 3 /\ v7'[3] = "exception"
    PROVE  Tr!Inv'
<1>1. Tr!Stages = {1, 2, 3} /\ Tr!Stages \cup {0} = {0, 1, 2, 3} /\ Tr!FINALLY = 3
  BY DEF Tr!Stages, Tr!TRY, Tr!CATCH, Tr!FINALLY
<1> QED BY <1>1, TryChecker DEF Tr!Inv

\* Where the calls, and what has been stored, say that it is.
LEMMA TryAt ==
    ASSUME Tr!Inv
    PROVE  /\ over = "no" /\ Tr!A.state \in BeforeSuspend => Tr!NotBegun /\ calls = <<>>
           /\ over = "no" /\ Pending(Tr!A) => Tr!UnderWay
           /\ over = "no" /\ Tr!A.state \in {"Ready", "ReadyAfterCancel", "Done", "Cancelled"} => Tr!AtEnd
           /\ calls # <<>> => over # "destroyed" /\ Tr!A.state \notin BeforeSuspend
           /\ over = "no" /\ (Pending(Tr!Task) \/ Tr!InCall("lambda")) => Tr!UnderWay
<1>1. /\ over = "no" => Tr!NotBegun \/ Tr!UnderWay \/ Tr!AtEnd
      /\ over = "destroyed" => Tr!A.state = "Initial" /\ calls = <<>>
      /\ over \in {"no", "destroyed"} \/ Pending(Tr!A)
  BY TryChecker DEF Tr!Inv
<1>2. Tr!NotBegun => Tr!A.state \in BeforeSuspend \ {"ReadyImmediately"} /\ calls = <<>>
  <2>1. Tr!NotBegun => Tr!A.state \in Tr!BeforeSuspend \ {"ReadyImmediately"} /\ calls = <<>>
    BY DEF Tr!NotBegun
  <2> QED BY <2>1, TryChecker
<1>3. Tr!UnderWay => Pending(Tr!A)
  BY TryChecker DEF Tr!UnderWay
<1>4. Tr!AtEnd => /\ Tr!A.state \in {"Ready", "ReadyAfterCancel", "Done", "Cancelled"}
                  /\ ~Pending(Tr!Task) /\ ~Tr!InCall("lambda")
  BY TryChecker DEF Tr!AtEnd
<1>5. Tr!NotBegun => ~Pending(Tr!Task) /\ ~Tr!InCall("lambda")
  <2>1. v3 \in {1, 2, 3} /\ Tr!Stages = {1, 2, 3}
    BY TryTypes DEF Tr!Stages, Tr!TRY, Tr!CATCH, Tr!FINALLY
  <2> QED BY <2>1, TryCalls DEF Tr!NotBegun, Tr!Task, Pending
<1> QED BY <1>1, <1>2, <1>3, <1>4, <1>5 DEF Pending, BeforeSuspend

\* An exception of the finally-block may be one too many.
LEMMA TryStopped ==
    ASSUME Tr!Inv, over = "terminated"
    PROVE  Pending(Tr!A) /\ v3 = 3 /\ v7[3] = "exception"
BY TryChecker DEF Tr!Inv, Tr!FINALLY

LEMMA TryReady ==
    ASSUME Tr!Inv, Tr!Ready \/ Tr!SetExecutor \/ Tr!EarlyCancel
    PROVE  Tr!Inv'
<1>1. /\ over = "no" /\ Tr!A \in Checker
      /\ UNCHANGED <<below, calls, over, v1, v2, v3, v5, v6, v7>> /\ v4' \in BOOLEAN
      /\ below \in [{1, 2, 3} -> Checker] /\ v3 \in {1, 2, 3}
  BY TryTypes DEF Tr!Ready, Tr!SetExecutor, Tr!EarlyCancel, Tr!Calls, Tr!given
<1>2. PICK a \in Checker :
        /\ above' = [above EXCEPT ![1] = a] /\ Legal(a) /\ Tr!A.state \in BeforeSuspend
        /\ \/ v4' = v4 /\ a.state = Tr!A.state
           \/ v4' = v4 /\ Tr!A.state \in {"Initial", "NotReady"} /\ a.state = "NotReady"
           \/ v4' = v4 /\ Tr!A.state \in {"InitialCxlPend", "CancelPending"} /\ a.state = "CancelPending"
           \/ v4' = TRUE /\ a.state \in {"InitialCxlPend", "CancelPending", "ReadyAfterCancel"}
              /\ (a.state = "ReadyAfterCancel" => Tr!A.state = "ReadyImmediately")
  <2>1. CASE Tr!Ready
    <3>1. above' = [above EXCEPT ![1] = ReadyReturned(Tr!A, FALSE)] /\ Legal(ReadyReturned(Tr!A, FALSE))
          /\ v4' = v4 /\ Tr!A.state \in BeforeSuspend
      BY <2>1, TryChecker DEF Tr!Ready, Tr!Calls
    <3> DEFINE a == ReadyReturned(Tr!A, FALSE)
    <3>2. a \in Checker /\ a.state = IF Tr!A.state \in {"Initial", "NotReady"} THEN "NotReady"
                ELSE IF Tr!A.state \in {"InitialCxlPend", "CancelPending"} THEN "CancelPending" ELSE "Broken"
      BY <1>1, ReadyMoves DEF Goes
    <3> HIDE DEF a
    <3> QED BY <3>1, <3>2 DEF Legal, a
  <2>2. CASE Tr!SetExecutor
    <3>1. above' = [above EXCEPT ![1] = AboutToSetExecutor(Tr!A)] /\ Legal(AboutToSetExecutor(Tr!A))
          /\ v4' = v4
      BY <2>2, TryChecker DEF Tr!SetExecutor, Tr!Calls
    <3> DEFINE a == AboutToSetExecutor(Tr!A)
    <3>2. a \in Checker /\ a.state = IF Tr!A.state \in BeforeSuspend THEN Tr!A.state ELSE "Broken"
      BY <1>1, SetExecutorMoves
    <3> HIDE DEF a
    <3> QED BY <3>1, <3>2 DEF Legal, a
  <2>3. CASE Tr!EarlyCancel
    <3>1. above' = [above EXCEPT ![1] = EarlyCancelReturned(Tr!A, FALSE)] /\ Legal(EarlyCancelReturned(Tr!A, FALSE))
          /\ v4' = TRUE
      BY <2>3, TryChecker DEF Tr!EarlyCancel, Tr!Calls
    <3> DEFINE a == EarlyCancelReturned(Tr!A, FALSE)
    <3>2. a \in Checker /\ a.state = IF Tr!A.state = "Initial" THEN "InitialCxlPend"
                ELSE IF Tr!A.state = "NotReady" THEN "CancelPending"
                ELSE IF Tr!A.state = "ReadyImmediately" THEN "ReadyAfterCancel" ELSE "Broken"
      BY <1>1, EarlyCancelMoves DEF Goes
    <3> HIDE DEF a
    <3> QED BY <3>1, <3>2 DEF Legal, a, BeforeSuspend
  <2> QED BY <2>1, <2>2, <2>3
<1>3. Tr!NotBegun /\ calls = <<>> /\ Tr!A.state # "ReadyImmediately"
  BY <1>1, <1>2, TryAt, TryChecker DEF Tr!NotBegun
<1>4. /\ above' \in [{1} -> Checker] /\ below' \in [{1, 2, 3} -> Checker] /\ Tr!A' = a
  BY <1>1, <1>2, TryBoth, TryTypes
<1>5. Tr!NotBegun'
  <2>1. /\ a.state \in BeforeSuspend \ {"ReadyImmediately"}
        /\ v4' <=> a.state \in {"InitialCxlPend", "CancelPending"}
    BY <1>2, <1>3, TryChecker DEF Tr!NotBegun, BeforeSuspend
  <2>2. \A s \in Tr!Stages : v7'[s] = "not" /\ below'[s].state = "Initial"
    BY <1>1, <1>3 DEF Tr!NotBegun
  <2>3. v3' = Tr!TRY /\ ~v5' /\ v6' = 0 /\ calls' = <<>>
    BY <1>1, <1>3 DEF Tr!NotBegun
  <2>4. Tr!Stages' = Tr!Stages
    BY DEF Tr!Stages
  <2> QED BY <1>4, <2>1, <2>2, <2>3, <2>4, TryChecker DEF Tr!NotBegun
<1> QED BY <1>1, <1>2, <1>3, <1>4, <1>5, TryGoesOn, TryTypes, TryCallsThen

LEMMA TrySuspend ==
    ASSUME Tr!Inv, Tr!Suspend
    PROVE  Tr!Inv'
<1> DEFINE a == AboutToSuspend(Tr!A)
<1>1. /\ over = "no" /\ Tr!A \in Checker /\ above' = [above EXCEPT ![1] = a] /\ Legal(a)
      /\ UNCHANGED <<below, over, v1, v2, v3, v4, v5, v6, v7>>
      /\ calls' = <<TryLambda(1), TrySuspending>> \o calls
  BY TryTypes, TryChecker DEF Tr!Suspend, Tr!Calls, Tr!given, Tr!TRY, TryLambda, TrySuspending
<1>2. /\ a \in Checker
      /\ \/ Tr!A.state = "NotReady" /\ a.state = "Running"
         \/ Tr!A.state = "CancelPending" /\ a.state = "Cancelling"
  BY <1>1, SuspendMoves DEF Goes, Legal
<1> HIDE DEF a
<1>3. Tr!NotBegun /\ calls' = <<TryLambda(1), TrySuspending>>
  BY <1>1, <1>2, TryAt, TryStack DEF BeforeSuspend
<1>4. /\ above' \in [{1} -> Checker] /\ below' \in [{1, 2, 3} -> Checker] /\ Tr!A' = a
  BY <1>1, <1>2, TryBoth, TryTypes
<1>5. v3 = 1 /\ ~v5 /\ v6 = 0 /\ (v4 <=> Tr!A.state \in {"InitialCxlPend", "CancelPending"})
      /\ \A s \in {1, 2, 3} : v7[s] = "not" /\ below[s].state = "Initial"
  BY <1>3 DEF Tr!NotBegun, Tr!Stages, Tr!TRY, Tr!CATCH, Tr!FINALLY
<1>6. Tr!Stored'
  <2>1. v7'[1] = "not" /\ v7'[2] = "not" /\ v3' = 1 /\ v6' = 0 /\ ~v5'
    BY <1>1, <1>5
  <2> QED BY <2>1 DEF Tr!Stored, Tr!TRY, Tr!CATCH, Tr!FINALLY
<1>7. Tr!InCall("lambda")' /\ ~Tr!InCall("await_suspend")' /\ Tr!Callee' = 1 /\ calls' \in Tr!Stacks'
      /\ calls' # <<>> /\ Tail(calls') # <<>>
  <2>1. calls' # <<>> /\ Tail(calls') = <<TrySuspending>>
    BY <1>3, TryStack
  <2>2. Tail(calls') # <<>>
    BY <2>1, TryStack
  <2> QED BY <1>1, <1>3, <1>5, <2>1, <2>2, TryCallsThen
<1>8. Tr!UnderWay'
  BY <1>1, <1>2, <1>4, <1>5, <1>6, <1>7, TryChecker
     DEF Tr!UnderWay, Tr!Stages, Tr!TRY, Tr!CATCH, Tr!FINALLY, Tr!Task, Pending
<1> QED BY <1>1, <1>4, <1>7, <1>8, TryGoesOn, TryTypes

\* A lambda is called only of the stage that is under way.
LEMMA TryInLambda ==
    ASSUME Tr!Inv, Tr!InCall("lambda")
    PROVE  /\ Tr!Task.state = "Initial" \/ over = "terminated"
           /\ over = "no" => Tr!UnderWay
           /\ over \in {"no", "terminated"}
           /\ calls = <<TryLambda(v3)>> \/ calls = <<TryLambda(v3), TrySuspending>>
           /\ (Tail(calls) = <<>>) \/ (Tail(calls) = <<TrySuspending>>)
<1>1. over = "no" => Tr!UnderWay
  BY TryAt
<1>2. calls \in Tr!Stacks /\ calls # <<>>
  BY TryCalls DEF Tr!Inv
<1>3. calls = <<TryLambda(v3)>> \/ calls = <<TryLambda(v3), TrySuspending>>
  BY <1>2, TryCalls
<1>4. over \in {"no", "terminated"}
  BY <1>2 DEF Tr!Inv
<1>5. Tr!UnderWay => Tr!Task.state = "Initial"
  BY DEF Tr!UnderWay
<1> QED BY <1>1, <1>3, <1>4, <1>5, TryCalls

LEMMA TryLambdaReturns ==
    ASSUME Tr!Inv, Tr!LambdaReturns
    PROVE  Tr!Inv'
<1> DEFINE b == [state |-> "Running", hasExecutor |-> TRUE]
<1>1. /\ below' = [below EXCEPT ![v3] = b] /\ calls' = Tail(calls) /\ Tr!InCall("lambda")
      /\ UNCHANGED <<above, over, v1, v2, v3, v4, v5, v6, v7>>
  BY DEF Tr!LambdaReturns, Tr!given
<1>2. b \in Checker /\ b.state = "Running" /\ Legal(b)
  BY DEF Checker, CheckerState, Legal
<1> HIDE DEF b
<1>3. /\ above' \in [{1} -> Checker] /\ below' \in [{1, 2, 3} -> Checker] /\ Tr!A' = Tr!A
      /\ below'[v3] = b /\ \A s \in {1, 2, 3} : s # v3 => below'[s] = below[s]
  BY <1>1, <1>2, TryBoth, TryTypes
<1>4. Tr!Task' = b /\ v3 \in {1, 2, 3}
  BY <1>1, <1>3, TryTypes DEF Tr!Task
<1>5. calls' \in Tr!Stacks' /\ ~Tr!InCall("lambda")'
      /\ (Tr!InCall("await_suspend")' <=> calls' # <<>>)
  BY <1>1, TryInLambda, TryCallsThen, TryStack
<1>6. ASSUME over = "no" PROVE Tr!UnderWay'
  <2>1. Tr!UnderWay /\ calls # <<>>
    BY <1>1, <1>6, TryInLambda, TryStack
  <2>2. Tr!Stored'
    <3>1. Tr!Stored
      BY <2>1 DEF Tr!UnderWay
    <3> QED BY <1>1, <3>1 DEF Tr!Stored, Tr!Outcome, Tr!HasOutcome
  <2>3. \A s \in Tr!Stages : s >= v3' => v7'[s] = "not" /\ (s > v3' => below'[s].state = "Initial")
    <3>1. \A s \in {1, 2, 3} : s >= v3 => v7[s] = "not" /\ (s > v3 => below[s].state = "Initial")
      BY <2>1 DEF Tr!UnderWay, Tr!Stages, Tr!TRY, Tr!CATCH, Tr!FINALLY
    <3> QED BY <1>1, <1>3, <1>4, <3>1 DEF Tr!Stages, Tr!TRY, Tr!CATCH, Tr!FINALLY
  <2>4. Pending(Tr!Task)'
    BY <1>2, <1>4 DEF Pending
  <2>5. Tr!Callee = v3 /\ (v3 = Tr!TRY => calls' # <<>>)
    BY <1>1, <2>1 DEF Tr!UnderWay
  <2>6. /\ b.state # "Cancelling" /\ Tr!Pending(Tr!A) /\ (v4 => Tr!A.state = "Cancelling")
        /\ (v3 = Tr!FINALLY => v2)
    BY <1>2, <2>1 DEF Tr!UnderWay
  <2>7. Tr!Pending(Tr!A)' /\ Tr!Pending(Tr!Task)'
    BY <1>3, <1>4, <2>4, <2>6, TryChecker
  <2>8. /\ v4' => Tr!A'.state = "Cancelling"
        /\ v3' = Tr!FINALLY => v2'
        /\ v3' = Tr!TRY => calls' # <<>>
        /\ Tr!Task'.state # "Cancelling"
    BY <1>1, <1>3, <1>4, <2>5, <2>6
  <2> QED BY <1>5, <2>2, <2>3, <2>7, <2>8 DEF Tr!UnderWay
<1>7. Legal(Tr!A') /\ (\A s \in {1, 2, 3} : Legal(below'[s])) /\ below'[3].state # "Cancelling"
  BY <1>2, <1>3, <1>4, TryTypes
<1>8. \/ over' = "no" /\ Tr!UnderWay'
      \/ over' = "terminated" /\ Pending(Tr!A') /\ v3' = 3 /\ v7'[3] = "exception"
  BY <1>1, <1>3, <1>6, TryInLambda, TryStopped
<1> QED BY <1>1, <1>3, <1>5, <1>7, <1>8, TryGoesOn, TryTypes

LEMMA TrySuspendEnds ==
    ASSUME Tr!Inv, Tr!SuspendEnds
    PROVE  Tr!Inv'
<1> DEFINE b == IF v4 /\ v3 # 3 /\ Pending(Tr!Task) THEN AboutToCancel(Tr!Task) ELSE Tr!Task
<1>1. /\ (below' = [below EXCEPT ![v3] = b]) \/ (below' = below /\ b = Tr!Task)
      /\ calls' = Tail(calls) /\ Tr!InCall("await_suspend")
      /\ UNCHANGED <<above, over, v1, v2, v3, v4, v5, v6, v7>>
  BY TryChecker DEF Tr!SuspendEnds, Tr!given, Tr!ForwardsEarlyCancel, Tr!FINALLY, Tr!Task
<1>2. calls' = <<>> /\ ~Tr!InCall("lambda") /\ calls # <<>>
  <2>1. calls \in Tr!Stacks /\ calls # <<>>
    BY <1>1, TryCalls DEF Tr!Inv
  <2>2. calls = <<TrySuspending>>
    BY <1>1, <2>1, TryCalls
  <2> QED BY <1>1, <2>1, <2>2, TryCalls
<1>3. over = "no" => Tr!UnderWay \/ Tr!AtEnd
  BY <1>2, TryAt DEF Tr!Inv, BeforeSuspend, Tr!NotBegun
<1>4. over = "no" /\ Pending(Tr!Task) => Tr!Task.state = "Running" /\ Tr!UnderWay
  <2>1. Tr!UnderWay => Tr!Task.state # "Cancelling"
    BY <1>1 DEF Tr!UnderWay
  <2> QED BY <2>1, TryAt DEF Pending
<1>5. Tr!Task \in Checker /\ Legal(Tr!Task) /\ v3 \in {1, 2, 3}
  BY TryTypes DEF Tr!Task
<1>6. over # "no" => over = "terminated" /\ v3 = 3
  BY <1>2, TryAt, TryStopped DEF Tr!Inv
<1>7. /\ b \in Checker
      /\ b = Tr!Task \/ (v4 /\ Tr!Task.state = "Running" /\ b.state = "Cancelling" /\ v3 # 3)
      /\ v4 /\ v3 = 1 /\ Tr!Task.state = "Running" => b.state = "Cancelling"
  <2>1. CASE v4 /\ v3 # 3 /\ Pending(Tr!Task)
    <3>1. Tr!Task.state = "Running" /\ b = AboutToCancel(Tr!Task)
      BY <1>4, <1>6, <2>1
    <3> QED BY <1>5, <2>1, <3>1, CancelMoves DEF Goes
  <2>2. CASE ~(v4 /\ v3 # 3 /\ Pending(Tr!Task))
    BY <1>5, <2>2 DEF Pending
  <2> QED BY <2>1, <2>2
<1> HIDE DEF b
<1>8. /\ above' \in [{1} -> Checker] /\ below' \in [{1, 2, 3} -> Checker] /\ Tr!A' = Tr!A
      /\ below'[v3] = b /\ \A s \in {1, 2, 3} : s # v3 => below'[s] = below[s]
  BY <1>1, <1>7, TryBoth, TryTypes
<1>9. Tr!Task' = b
  BY <1>1, <1>8 DEF Tr!Task
<1>10. calls' \in Tr!Stacks' /\ ~Tr!InCall("lambda")' /\ ~Tr!InCall("await_suspend")'
  BY <1>2, TryCallsThen
<1>11. Tr!Stored => Tr!Stored'
  BY <1>1 DEF Tr!Stored, Tr!Outcome, Tr!HasOutcome
<1>12. ASSUME Tr!AtEnd, over = "no" PROVE Tr!AtEnd'
  <2>1. b = Tr!Task
    BY <1>7, <1>12, TryChecker DEF Tr!AtEnd, Pending
  <2> QED BY <1>1, <1>2, <1>8, <1>9, <1>10, <1>11, <1>12, <2>1, TryChecker DEF Tr!AtEnd
<1>13. ASSUME Tr!UnderWay, over = "no" PROVE Tr!UnderWay'
  <2>1. \A s \in Tr!Stages : s >= v3' => v7'[s] = "not" /\ (s > v3' => below'[s].state = "Initial")
    <3>1. \A s \in {1, 2, 3} : s >= v3 => v7[s] = "not" /\ (s > v3 => below[s].state = "Initial")
      BY <1>13 DEF Tr!UnderWay, Tr!Stages, Tr!TRY, Tr!CATCH, Tr!FINALLY
    <3> QED BY <1>1, <1>5, <1>8, <3>1 DEF Tr!Stages, Tr!TRY, Tr!CATCH, Tr!FINALLY
  <2>2. Tr!Stored'
    BY <1>11, <1>13 DEF Tr!UnderWay
  <2>3. /\ Tr!Pending(Tr!A) /\ Tr!Pending(Tr!Task) /\ (v4 => Tr!A.state = "Cancelling")
        /\ (v3 = Tr!FINALLY => v2)
    BY <1>2, <1>13 DEF Tr!UnderWay
  <2>4. Pending(Tr!Task) /\ Tr!Task.state = "Running"
    BY <1>4, <1>13, <2>3, TryChecker
  <2>5. Tr!Pending(Tr!A)' /\ Tr!Pending(Tr!Task)'
    <3>1. Pending(b)
      BY <1>7, <2>4 DEF Pending
    <3> QED BY <1>8, <1>9, <2>3, <3>1, TryChecker
  <2>6. /\ v4' => Tr!A'.state = "Cancelling"
        /\ v3' = Tr!FINALLY => v2'
        /\ Tr!A'.state = "Running" => Tr!Task'.state # "Cancelling"
        /\ v4' /\ v3' = Tr!TRY => Tr!Task'.state = "Cancelling"
    BY <1>1, <1>7, <1>8, <1>9, <2>3, <2>4 DEF Tr!TRY
  <2> QED BY <1>10, <2>1, <2>2, <2>5, <2>6 DEF Tr!UnderWay
<1>14. Legal(Tr!A') /\ (\A s \in {1, 2, 3} : Legal(below'[s])) /\ below'[3].state # "Cancelling"
  <2>1. Legal(Tr!A') /\ Legal(b) /\ (v3 = 3 => b = below[3])
    BY <1>5, <1>7, <1>8, TryTypes DEF Legal, Tr!Task
  <2> QED BY <1>5, <1>8, <2>1, TryTypes
<1>15. \/ over' = "no" /\ (Tr!UnderWay' \/ Tr!AtEnd')
       \/ over' = "terminated" /\ Pending(Tr!A') /\ v3' = 3 /\ v7'[3] = "exception"
  BY <1>1, <1>3, <1>6, <1>8, <1>12, <1>13, TryStopped
<1> QED BY <1>1, <1>8, <1>10, <1>14, <1>15, TryGoesOn, TryTypes

LEMMA TryCancel ==
    ASSUME Tr!Inv, Tr!Cancel
    PROVE  Tr!Inv'
<1> DEFINE a == AboutToCancel(Tr!A)
           b == IF v3 # 3 /\ Pending(Tr!Task) THEN AboutToCancel(Tr!Task) ELSE Tr!Task
<1>1. /\ over = "no" /\ above' = [above EXCEPT ![1] = a] /\ Legal(a)
      /\ (below' = [below EXCEPT ![v3] = b]) \/ (below' = below /\ b = Tr!Task)
      /\ ~Tr!InCall("await_suspend")
      /\ UNCHANGED <<calls, over, v1, v2, v3, v4, v5, v6, v7>>
  BY TryChecker DEF Tr!Cancel, Tr!Calls, Tr!given, Tr!Cancellable, Tr!FINALLY, Tr!Task
<1>2. Tr!Task \in Checker /\ Legal(Tr!Task) /\ v3 \in {1, 2, 3} /\ Tr!A \in Checker
  BY TryTypes DEF Tr!Task
<1>3. Tr!A.state = "Running" /\ a.state = "Cancelling" /\ a \in Checker
  BY <1>1, <1>2, CancelMoves DEF Goes, Legal
<1>4. Tr!UnderWay /\ Tr!Task.state # "Cancelling"
  <2>1. Tr!UnderWay
    BY <1>1, <1>3, TryAt DEF Pending
  <2> QED BY <1>3, <2>1 DEF Tr!UnderWay
<1>5. /\ b \in Checker
      /\ b = Tr!Task \/ (Tr!Task.state = "Running" /\ b.state = "Cancelling" /\ v3 # 3)
      /\ v3 = 1 /\ Tr!Task.state = "Running" => b.state = "Cancelling"
  <2>1. CASE v3 # 3 /\ Pending(Tr!Task)
    <3>1. Tr!Task.state = "Running" /\ b = AboutToCancel(Tr!Task)
      BY <1>4, <2>1 DEF Pending
    <3> QED BY <1>2, <2>1, <3>1, CancelMoves DEF Goes
  <2>2. CASE ~(v3 # 3 /\ Pending(Tr!Task))
    BY <1>2, <2>2 DEF Pending
  <2> QED BY <2>1, <2>2
<1> HIDE DEF a, b
<1>6. /\ above' \in [{1} -> Checker] /\ below' \in [{1, 2, 3} -> Checker] /\ Tr!A' = a
      /\ below'[v3] = b /\ \A s \in {1, 2, 3} : s # v3 => below'[s] = below[s]
  BY <1>1, <1>3, <1>5, TryBoth
<1>7. Tr!Task' = b
  BY <1>1, <1>6 DEF Tr!Task
<1>8. Tr!Stored'
  <2>1. Tr!Stored
    BY <1>4 DEF Tr!UnderWay
  <2> QED BY <1>1, <2>1 DEF Tr!Stored, Tr!Outcome, Tr!HasOutcome
<1>9. \A s \in Tr!Stages : s >= v3' => v7'[s] = "not" /\ (s > v3' => below'[s].state = "Initial")
  <2>1. \A s \in {1, 2, 3} : s >= v3 => v7[s] = "not" /\ (s > v3 => below[s].state = "Initial")
    BY <1>4 DEF Tr!UnderWay, Tr!Stages, Tr!TRY, Tr!CATCH, Tr!FINALLY
  <2> QED BY <1>1, <1>2, <1>6, <2>1 DEF Tr!Stages, Tr!TRY, Tr!CATCH, Tr!FINALLY
<1>10. /\ ~Tr!InCall("await_suspend")' /\ (Tr!InCall("lambda")' <=> Tr!InCall("lambda"))
       /\ Tr!Callee' = Tr!Callee /\ calls' \in Tr!Stacks'
  BY <1>1 DEF Tr!InCall, Tr!Callee, Tr!Inv, Tr!Stacks
<1>11. /\ v3 = Tr!FINALLY => v2
       /\ Tr!InCall("lambda") => Tr!Callee = v3 /\ Tr!Task.state = "Initial"
       /\ ~Tr!InCall("lambda") => Tr!Pending(Tr!Task)
       /\ Tr!InCall("lambda") /\ v3 = Tr!TRY => Tail(calls) # <<>>
  BY <1>4 DEF Tr!UnderWay
<1>12. Tr!Pending(Tr!A)' /\ (~Tr!InCall("lambda") => Tr!Pending(Tr!Task)' /\ Tr!Task.state = "Running")
  <2>1. Pending(a)
    BY <1>3 DEF Pending
  <2>2. ~Tr!InCall("lambda") => Pending(b) /\ Tr!Task.state = "Running"
    BY <1>4, <1>5, <1>11, TryChecker DEF Pending
  <2> QED BY <1>6, <1>7, <2>1, <2>2, TryChecker
<1>13. Tr!UnderWay'
  <2>1. calls' = <<>> => ~Tr!InCall("lambda")'
    BY DEF Tr!InCall
  <2>2. v4' /\ v3' = Tr!TRY /\ calls' = <<>> => Tr!Task'.state = "Cancelling"
    BY <1>1, <1>5, <1>7, <1>10, <1>12, <2>1 DEF Tr!TRY
  <2>3. Tr!InCall("lambda") => Tr!Task'.state = "Initial"
    BY <1>5, <1>7, <1>11
  <2> QED BY <1>1, <1>3, <1>6, <1>8, <1>9, <1>10, <1>11, <1>12, <2>2, <2>3 DEF Tr!UnderWay
<1>14. (\A s \in {1, 2, 3} : Legal(below'[s])) /\ below'[3].state # "Cancelling"
  <2>1. Legal(b) /\ (v3 = 3 => b = below[3])
    BY <1>2, <1>5, TryTypes DEF Legal, Tr!Task
  <2> QED BY <1>2, <1>6, <2>1, TryTypes
<1> QED BY <1>1, <1>6, <1>10, <1>13, <1>14, TryGoesOn, TryTypes

\* Where a stage leads.
LEMMA TryContinuation ==
    ASSUME NEW ex, NEW rest, v3 \in {1, 2, 3}, Tr!Continuation(ex, rest)
    PROVE  \/ v3 = 1 /\ ex # 0 /\ v3' = 2 /\ calls' = <<TryLambda(2)>> \o rest /\ above' = above
           \/ v3 # 3 /\ v2 /\ v3' = 3 /\ calls' = <<TryLambda(3)>> \o rest /\ above' = above
           \/ /\ v3' = 3 /\ calls' = rest /\ above' = [above EXCEPT ![1] = Resumed(Tr!A)]
              /\ v3 # 3 => ~v2
<1>1. CASE v3 = 1 /\ ex # 0
  BY <1>1, TryChecker DEF Tr!Continuation, Tr!ToFinally, Tr!TRY, Tr!CATCH, Tr!FINALLY, TryLambda
<1>2. CASE v3 = 3
  BY <1>2, TryChecker DEF Tr!Continuation, Tr!ToFinally, Tr!TRY, Tr!CATCH, Tr!FINALLY, TryLambda
<1>3. CASE ~(v3 = 1 /\ ex # 0) /\ v3 # 3
  BY <1>3, TryChecker DEF Tr!Continuation, Tr!ToFinally, Tr!TRY, Tr!CATCH, Tr!FINALLY, TryLambda
<1> QED BY <1>1, <1>2, <1>3

\* A stage that has ended is followed by the next one, or by the parent.
LEMMA TryContinues ==
    ASSUME Tr!Inv, over = "no", Tr!UnderWay, over' = "no",
           UNCHANGED <<v1, v2, v4>>, v5' \in BOOLEAN, v6' \in {0, 1, 2, 3},
           NEW how \in {"value", "exception", "cancelled"}, v7' = [v7 EXCEPT ![v3] = how],
           NEW b \in Checker, b.state \in {"Initial", "Done"},
           (below' = [below EXCEPT ![v3] = b]) \/ (below' = below /\ b = Tr!Task),
           NEW ex, NEW rest \in {<<>>, <<TrySuspending>>}, Tr!Continuation(ex, rest),
           Tr!Stored'
    PROVE  Tr!Inv'
<1>1. /\ Tr!A \in Checker /\ Legal(Tr!A) /\ v3 \in {1, 2, 3} /\ v2 \in BOOLEAN /\ above \in [{1} -> Checker]
      /\ below \in [{1, 2, 3} -> Checker] /\ below[3].state # "Cancelling"
      /\ v7 \in [{1, 2, 3} -> {"not", "value", "exception", "cancelled"}]
      /\ \A s \in {1, 2, 3} : Legal(below[s])
  BY TryTypes
<1>2. /\ Pending(Tr!A) /\ (v4 => Tr!A.state = "Cancelling") /\ (v3 = 3 => v2)
      /\ \A s \in {1, 2, 3} : s >= v3 => v7[s] = "not" /\ (s > v3 => below[s].state = "Initial")
  BY TryChecker DEF Tr!UnderWay, Tr!Stages, Tr!TRY, Tr!CATCH, Tr!FINALLY
<1>3. /\ below' \in [{1, 2, 3} -> Checker]
      /\ below'[v3] = b /\ \A s \in {1, 2, 3} : s # v3 => below'[s] = below[s]
  BY <1>1 DEF Tr!Task
<1>4. (\A s \in {1, 2, 3} : Legal(below'[s])) /\ below'[3].state # "Cancelling"
  BY <1>1, <1>3 DEF Legal
<1>5. /\ v7' \in [{1, 2, 3} -> {"not", "value", "exception", "cancelled"}] /\ v7'[v3] = how
      /\ \A s \in {1, 2, 3} : s # v3 => v7'[s] = v7[s]
  BY <1>1
<1>6. ASSUME NEW t \in {2, 3}, v3' = t, v3 < t, t = 3 => v2, above' = above,
             calls' = <<TryLambda(t)>> \o rest
      PROVE  Tr!Inv'
  <2>1. calls' \in {<<TryLambda(t)>>, <<TryLambda(t), TrySuspending>>}
    <3>1. rest = <<>> => calls' = <<TryLambda(t)>>
      BY <1>6, TryStack
    <3>2. rest = <<TrySuspending>> => calls' = <<TryLambda(t), TrySuspending>>
      BY <1>6, TryStack
    <3> QED BY <3>1, <3>2
  <2>2. /\ calls' \in Tr!Stacks' /\ Tr!InCall("lambda")' /\ ~Tr!InCall("await_suspend")' /\ Tr!Callee' = t
    <3>1. CASE calls' = <<TryLambda(t)>>
      BY <1>6, <3>1, TryCallsThen
    <3>2. CASE calls' = <<TryLambda(t), TrySuspending>>
      BY <1>6, <3>2, TryCallsThen
    <3> QED BY <2>1, <3>1, <3>2
  <2>3. Tr!A' = Tr!A /\ Tr!Task' = below'[t]
    BY <1>6 DEF Tr!A, Tr!Task
  <2>4. below'[t].state = "Initial"
    <3>1. t >= v3 /\ t > v3 /\ t # v3 /\ t \in {1, 2, 3}
      BY <1>1, <1>6
    <3> QED BY <1>2, <1>3, <3>1
  <2>5. \A s \in {1, 2, 3} : s >= t => v7'[s] = "not" /\ (s > t => below'[s].state = "Initial")
    BY <1>1, <1>2, <1>3, <1>5, <1>6
  <2>6. Tr!UnderWay'
    BY <1>2, <1>6, <2>2, <2>3, <2>4, <2>5, TryChecker
       DEF Tr!UnderWay, Tr!Stages, Tr!TRY, Tr!CATCH, Tr!FINALLY
  <2> QED BY <1>1, <1>3, <1>4, <1>5, <1>6, <2>2, <2>3, <2>6, TryGoesOn, TryTypes
<1>7. ASSUME v3' = 3, calls' = rest, above' = [above EXCEPT ![1] = Resumed(Tr!A)], v3 # 3 => ~v2
      PROVE  Tr!Inv'
  <2> DEFINE a == Resumed(Tr!A)
  <2>1. a \in Checker /\ a.state \in {"Ready", "ReadyAfterCancel"}
    BY <1>1, <1>2, ResumeMoves DEF Goes, Pending
  <2> HIDE DEF a
  <2>2. above' \in [{1} -> Checker] /\ Tr!A' = a
    BY <1>1, <1>7, <2>1 DEF a, Tr!A
  <2>3. calls' \in Tr!Stacks' /\ ~Tr!InCall("lambda")'
    BY <1>7, TryCallsThen
  <2>4. Tr!Task' = below'[3] /\ below'[3].state \in {"Initial", "Done"}
    BY <1>1, <1>2, <1>3, <1>7 DEF Tr!Task
  <2>5. v2' <=> v7'[3] # "not"
    BY <1>1, <1>2, <1>5, <1>7
  <2>6. Tr!AtEnd'
    BY <1>7, <2>1, <2>2, <2>3, <2>4, <2>5, TryChecker DEF Tr!AtEnd, Tr!FINALLY, Pending
  <2> QED BY <1>3, <1>4, <1>5, <1>7, <2>1, <2>2, <2>3, <2>6, TryGoesOn, TryTypes DEF Legal
<1> QED BY <1>1, <1>2, <1>6, <1>7, TryContinuation

\* Or the finally-block has thrown over another exception.
LEMMA TryTerminates ==
    ASSUME Tr!Inv, over = "no", Tr!UnderWay, over' = "terminated", v3 = 3,
           UNCHANGED <<above, calls, v1, v2, v3, v4>>, v5' \in BOOLEAN, v6' \in {0, 1, 2, 3},
           v7' = [v7 EXCEPT ![v3] = "exception"],
           NEW b \in Checker, b.state \in {"Initial", "Done"},
           (below' = [below EXCEPT ![v3] = b]) \/ (below' = below /\ b = Tr!Task)
    PROVE  Tr!Inv'
<1>1. /\ Legal(Tr!A) /\ v2 \in BOOLEAN /\ above \in [{1} -> Checker]
      /\ below \in [{1, 2, 3} -> Checker]
      /\ v7 \in [{1, 2, 3} -> {"not", "value", "exception", "cancelled"}]
      /\ \A s \in {1, 2, 3} : Legal(below[s])
  BY TryTypes
<1>2. Pending(Tr!A)
  BY TryChecker DEF Tr!UnderWay
<1>3. /\ below' \in [{1, 2, 3} -> Checker]
      /\ below'[3] = b /\ \A s \in {1, 2, 3} : s # 3 => below'[s] = below[s]
  BY <1>1 DEF Tr!Task
<1>4. (\A s \in {1, 2, 3} : Legal(below'[s])) /\ below'[3].state # "Cancelling"
  BY <1>1, <1>3 DEF Legal
<1>5. /\ v7' \in [{1, 2, 3} -> {"not", "value", "exception", "cancelled"}] /\ v7'[3] = "exception"
  BY <1>1
<1>6. Tr!A' = Tr!A /\ calls' \in Tr!Stacks'
  BY TryCalls, TryCallsThen DEF Tr!A, Tr!Inv
<1> QED BY <1>1, <1>2, <1>3, <1>4, <1>5, <1>6, TryGoesOn, TryTypes

\* What is stored by then, of a value,
LEMMA TryValueStored ==
    ASSUME Tr!Inv, Tr!UnderWay, NEW rest, Tr!StoreSuccess(rest)
    PROVE  /\ Tr!Stored' /\ v7' = [v7 EXCEPT ![v3] = "value"] /\ v5' \in BOOLEAN /\ v6' \in {0, 1, 2, 3}
           /\ Tr!Continuation(0, rest) /\ over' = over
<1>1. /\ v7 \in [{1, 2, 3} -> {"not", "value", "exception", "cancelled"}] /\ v3 \in {1, 2, 3}
      /\ v5 \in BOOLEAN /\ v6 \in {0, 1, 2, 3}
  BY TryTypes
<1>2. /\ Tr!Stored /\ v7[v3] = "not" /\ (v3 = 1 => v7[2] = "not" /\ v7[3] = "not") /\ (v3 = 2 => v7[3] = "not")
  BY <1>1 DEF Tr!UnderWay, Tr!Stages, Tr!TRY, Tr!CATCH, Tr!FINALLY
<1>3. /\ v7' = [v7 EXCEPT ![v3] = "value"] /\ v5' = (v5 \/ v3 # 3) /\ v6' = IF v3 = 3 THEN v6 ELSE 0
      /\ Tr!Continuation(0, rest) /\ over' = over
  BY <1>1, <1>2 DEF Tr!StoreSuccess, Tr!Ends, Tr!ExceptionAfterSuccess, Tr!FINALLY
<1>4. v3' = 3
  BY <1>1, <1>3, TryContinuation
<1>5. v7'[v3] = "value" /\ \A s \in {1, 2, 3} : s # v3 => v7'[s] = v7[s]
  BY <1>1, <1>3
<1>6. v5' <=> (v5 \/ v3 # 3)
  BY <1>3
<1>7. Tr!Stored'
  BY <1>1, <1>2, <1>3, <1>4, <1>5, <1>6 DEF Tr!Stored, Tr!Outcome, Tr!HasOutcome, Tr!TRY, Tr!CATCH, Tr!FINALLY
<1> QED BY <1>1, <1>3, <1>7

\* of an exception,
LEMMA TryExceptionStored ==
    ASSUME Tr!Inv, Tr!UnderWay, NEW s \in Tr!Throwable, NEW rest, Tr!StoreException(s, rest), over = "no"
    PROVE  /\ v7' = [v7 EXCEPT ![v3] = "exception"] /\ v5' \in BOOLEAN /\ v6' \in {0, 1, 2, 3}
           /\ \/ over' = "no" /\ Tr!Continuation(s, rest) /\ Tr!Stored'
              \/ over' = "terminated" /\ v3 = 3 /\ UNCHANGED <<above, calls, v3>>
<1>1. /\ v7 \in [{1, 2, 3} -> {"not", "value", "exception", "cancelled"}] /\ v3 \in {1, 2, 3}
      /\ v5 \in BOOLEAN /\ v6 \in {0, 1, 2, 3}
  BY TryTypes
<1>2. /\ Tr!Stored /\ v7[v3] = "not" /\ (v3 = 1 => v7[2] = "not" /\ v7[3] = "not") /\ (v3 = 2 => v7[3] = "not")
  BY <1>1 DEF Tr!UnderWay, Tr!Stages, Tr!TRY, Tr!CATCH, Tr!FINALLY
<1>3. /\ v7' = [v7 EXCEPT ![v3] = "exception"] /\ v5' = v5
      /\ IF v3 = 3 /\ v6 # 0
         THEN over' = "terminated" /\ UNCHANGED <<above, calls, v3, v6>>
         ELSE v6' = s /\ over' = over /\ Tr!Continuation(s, rest)
  BY <1>1, <1>2 DEF Tr!StoreException, Tr!Ends, Tr!FINALLY
<1>4. s \in {1, 2, 3}
  BY <1>1, <1>2 DEF Tr!Throwable, Tr!Stored, Tr!CATCH
<1>5. CASE ~(v3 = 3 /\ v6 # 0)
  <2>1. v3' \in {2, 3} /\ (v3' = 2 => v3 = 1)
    BY <1>1, <1>3, <1>5, TryContinuation
  <2>2. v7'[v3] = "exception" /\ \A t \in {1, 2, 3} : t # v3 => v7'[t] = v7[t]
    BY <1>1, <1>3
  <2>3. v6' = s /\ v6' # 0 /\ v5' = v5
    BY <1>3, <1>4, <1>5
  <2>4. Tr!Stored'
    BY <1>1, <1>2, <2>1, <2>2, <2>3 DEF Tr!Stored, Tr!Outcome, Tr!HasOutcome, Tr!TRY, Tr!CATCH, Tr!FINALLY
  <2> QED BY <1>1, <1>3, <1>4, <1>5, <2>4
<1>6. CASE v3 = 3 /\ v6 # 0
  BY <1>1, <1>3, <1>6
<1> QED BY <1>5, <1>6

\* and of a cancellation.
LEMMA TryCancellationStored ==
    ASSUME Tr!Inv, Tr!UnderWay, Tr!Task.state = "Cancelling", Tr!Ends("cancelled"), NEW rest,
           Tr!Continuation(IF v3 = 1 THEN 0 ELSE v6, rest), UNCHANGED <<v5, v6>>
    PROVE  Tr!Stored' /\ v7' = [v7 EXCEPT ![v3] = "cancelled"]
<1>1. /\ v7 \in [{1, 2, 3} -> {"not", "value", "exception", "cancelled"}] /\ v3 \in {1, 2, 3}
      /\ below[3].state # "Cancelling" /\ v5 \in BOOLEAN /\ v6 \in {0, 1, 2, 3}
  BY TryTypes
<1>2. /\ Tr!Stored /\ v7[v3] = "not" /\ (v3 = 1 => v7[2] = "not" /\ v7[3] = "not") /\ (v3 = 2 => v7[3] = "not")
      /\ v3 # 3
  BY <1>1 DEF Tr!UnderWay, Tr!Stages, Tr!TRY, Tr!CATCH, Tr!FINALLY, Tr!Task
<1>3. v7' = [v7 EXCEPT ![v3] = "cancelled"]
  BY <1>1, <1>2 DEF Tr!Ends
<1>4. v3' = 3
  BY <1>1, <1>2, TryContinuation
<1>5. v7'[v3] = "cancelled" /\ \A t \in {1, 2, 3} : t # v3 => v7'[t] = v7[t]
  BY <1>1, <1>3
<1>6. Tr!Stored'
  BY <1>1, <1>2, <1>4, <1>5 DEF Tr!Stored, Tr!Outcome, Tr!HasOutcome, Tr!TRY, Tr!CATCH, Tr!FINALLY
<1> QED BY <1>3, <1>6

LEMMA TryLambdaThrows ==
    ASSUME Tr!Inv, Tr!LambdaThrows
    PROVE  Tr!Inv'
<1>1. /\ Tr!InCall("lambda") /\ over = "no" /\ Tr!StoreException(v3, Tail(calls))
      /\ UNCHANGED <<below, v1, v2, v4>>
  BY DEF Tr!LambdaThrows, Tr!given
<1>2. Tr!UnderWay /\ Tr!Task.state = "Initial" /\ Tail(calls) \in {<<>>, <<TrySuspending>>}
  BY <1>1, TryInLambda
<1>3. v3 \in Tr!Throwable /\ Tr!Task \in Checker
  BY TryTypes DEF Tr!Throwable, Tr!CATCH
<1>4. /\ v7' = [v7 EXCEPT ![v3] = "exception"] /\ v5' \in BOOLEAN /\ v6' \in {0, 1, 2, 3}
      /\ \/ over' = "no" /\ Tr!Continuation(v3, Tail(calls)) /\ Tr!Stored'
         \/ over' = "terminated" /\ v3 = 3 /\ UNCHANGED <<above, calls, v3>>
  BY <1>1, <1>2, <1>3, TryExceptionStored
<1>5. CASE over' = "no"
  BY <1>1, <1>2, <1>3, <1>4, <1>5, TryContinues
<1>6. CASE over' = "terminated"
  BY <1>1, <1>2, <1>3, <1>4, <1>6, TryTerminates
<1> QED BY <1>4, <1>5, <1>6

LEMMA TryTaskEnds ==
    ASSUME Tr!Inv, Tr!TaskEnds
    PROVE  Tr!Inv'
<1> DEFINE b == [Tr!Task EXCEPT !.state = "Done"]
<1>1. /\ over = "no" /\ Pending(Tr!Task) /\ ~Tr!InCall("await_suspend")
      /\ below' = [below EXCEPT ![v3] = b] /\ UNCHANGED <<v1, v2, v4>>
  BY TryChecker, TryTypes DEF Tr!TaskEnds, Tr!given, Tr!Task
<1>2. Tr!Task \in Checker /\ v5 \in BOOLEAN /\ v6 \in {0, 1, 2, 3}
  BY TryTypes
<1>3. b \in Checker /\ b.state = "Done"
  BY <1>2 DEF Checker, CheckerState
<1> HIDE DEF b
<1>4. Tr!UnderWay /\ calls = <<>>
  <2>1. Tr!UnderWay
    BY <1>1, TryAt
  <2>2. ~Tr!InCall("lambda") /\ calls \in Tr!Stacks
    BY <1>1, <2>1 DEF Tr!UnderWay, Tr!Inv, Pending
  <2> QED BY <1>1, <2>1, <2>2, TryCalls
<1>5. \/ Tr!StoreSuccess(calls)
      \/ \E s \in Tr!Throwable : Tr!StoreException(s, calls)
      \/ /\ Tr!Task.state = "Cancelling" /\ Tr!Ends("cancelled")
         /\ Tr!Continuation(IF v3 = 1 THEN 0 ELSE v6, calls) /\ UNCHANGED <<over, v5, v6>>
  BY DEF Tr!TaskEnds, Tr!TRY
<1>6. CASE Tr!StoreSuccess(calls)
  <2>1. /\ Tr!Stored' /\ v7' = [v7 EXCEPT ![v3] = "value"] /\ v5' \in BOOLEAN /\ v6' \in {0, 1, 2, 3}
        /\ Tr!Continuation(0, calls) /\ over' = over
    BY <1>4, <1>6, TryValueStored
  <2> QED BY <1>1, <1>3, <1>4, <2>1, TryContinues
<1>7. ASSUME NEW s \in Tr!Throwable, Tr!StoreException(s, calls) PROVE Tr!Inv'
  <2>1. /\ v7' = [v7 EXCEPT ![v3] = "exception"] /\ v5' \in BOOLEAN /\ v6' \in {0, 1, 2, 3}
        /\ \/ over' = "no" /\ Tr!Continuation(s, calls) /\ Tr!Stored'
           \/ over' = "terminated" /\ v3 = 3 /\ UNCHANGED <<above, calls, v3>>
    BY <1>1, <1>4, <1>7, TryExceptionStored
  <2>2. CASE over' = "no"
    BY <1>1, <1>3, <1>4, <2>1, <2>2, TryContinues
  <2>3. CASE over' = "terminated"
    BY <1>1, <1>3, <1>4, <2>1, <2>3, TryTerminates
  <2> QED BY <2>1, <2>2, <2>3
<1>8. CASE /\ Tr!Task.state = "Cancelling" /\ Tr!Ends("cancelled")
           /\ Tr!Continuation(IF v3 = 1 THEN 0 ELSE v6, calls) /\ UNCHANGED <<over, v5, v6>>
  <2>1. Tr!Stored' /\ v7' = [v7 EXCEPT ![v3] = "cancelled"]
    BY <1>4, <1>8, TryCancellationStored
  <2>2. /\ v5' \in BOOLEAN /\ v6' \in {0, 1, 2, 3} /\ over' = "no"
        /\ Tr!Continuation(IF v3 = 1 THEN 0 ELSE v6, calls)
    BY <1>1, <1>2, <1>8
  <2> QED BY <1>1, <1>3, <1>4, <2>1, <2>2, TryContinues
<1> QED BY <1>5, <1>6, <1>7, <1>8

LEMMA TryResume ==
    ASSUME Tr!Inv, Tr!MustResume \/ Tr!Resume
    PROVE  Tr!Inv'
<1>1. /\ over = "no" /\ Tr!A \in Checker
      /\ UNCHANGED <<below, calls, over, v1, v2, v3, v4, v5, v6, v7>> /\ ~Tr!InCall("await_suspend")
  BY TryTypes DEF Tr!MustResume, Tr!Resume, Tr!Calls, Tr!given
<1>2. PICK a \in Checker :
        /\ above' = [above EXCEPT ![1] = a] /\ Legal(a)
        /\ \/ Tr!A.state = "ReadyAfterCancel" /\ a.state \in {"Ready", "Cancelled"}
           \/ Tr!A.state \in {"ReadyImmediately", "Ready"} /\ a.state = "Done"
  <2>1. CASE Tr!MustResume
    <3>1. /\ above' = [above EXCEPT ![1] = MustResumeReturned(Tr!A, Tr!HasOutcome)]
          /\ Legal(MustResumeReturned(Tr!A, Tr!HasOutcome))
      BY <2>1, TryChecker DEF Tr!MustResume, Tr!Calls
    <3>2. CASE Tr!HasOutcome = TRUE
      <4> DEFINE a == MustResumeReturned(Tr!A, TRUE)
      <4>1. a \in Checker /\ a.state = IF Tr!A.state = "ReadyAfterCancel" THEN "Ready" ELSE "Broken"
        BY <1>1, MustResumeMoves DEF Goes
      <4>2. above' = [above EXCEPT ![1] = a] /\ Legal(a)
        BY <3>1, <3>2
      <4> HIDE DEF a
      <4> QED BY <4>1, <4>2 DEF Legal
    <3>3. CASE Tr!HasOutcome = FALSE
      <4> DEFINE a == MustResumeReturned(Tr!A, FALSE)
      <4>1. a \in Checker /\ a.state = IF Tr!A.state = "ReadyAfterCancel" THEN "Cancelled" ELSE "Broken"
        BY <1>1, MustResumeMoves DEF Goes
      <4>2. above' = [above EXCEPT ![1] = a] /\ Legal(a)
        BY <3>1, <3>3
      <4> HIDE DEF a
      <4> QED BY <4>1, <4>2 DEF Legal
    <3> QED BY <3>2, <3>3 DEF Tr!HasOutcome
  <2>2. CASE Tr!Resume
    <3> DEFINE a == AboutToResume(Tr!A)
    <3>1. above' = [above EXCEPT ![1] = a] /\ Legal(a)
      BY <2>2, TryChecker DEF Tr!Resume, Tr!Calls
    <3>2. a \in Checker /\ a.state = IF Tr!A.state \in {"ReadyImmediately", "Ready"} THEN "Done" ELSE "Broken"
      BY <1>1, ResumeMoves DEF Goes
    <3> HIDE DEF a
    <3> QED BY <3>1, <3>2 DEF Legal
  <2> QED BY <2>1, <2>2
<1>3. Tr!AtEnd
  BY <1>1, <1>2, TryAt, TryChecker DEF BeforeSuspend, Tr!NotBegun
<1>4. /\ above' \in [{1} -> Checker] /\ below' \in [{1, 2, 3} -> Checker] /\ Tr!A' = a
  BY <1>1, <1>2, TryBoth, TryTypes
<1>5. Tr!Stored' /\ Tr!Task' = Tr!Task
  <2>1. Tr!Stored
    BY <1>3 DEF Tr!AtEnd
  <2> QED BY <1>1, <2>1 DEF Tr!Stored, Tr!Outcome, Tr!HasOutcome, Tr!Task
<1>6. calls' = <<>> /\ ~Tr!InCall("lambda")' /\ calls' \in Tr!Stacks'
  <2>1. ~Tr!InCall("lambda") /\ calls \in Tr!Stacks
    BY <1>3 DEF Tr!AtEnd, Tr!Inv
  <2>2. calls = <<>>
    BY <1>1, <2>1, TryCalls
  <2> QED BY <1>1, <2>2, TryCallsThen
<1>7. Tr!AtEnd'
  BY <1>1, <1>2, <1>3, <1>4, <1>5, <1>6, TryChecker DEF Tr!AtEnd
<1> QED BY <1>1, <1>2, <1>4, <1>6, <1>7, TryGoesOn, TryTypes

LEMMA TryDestroy ==
    ASSUME Tr!Inv, Tr!Destroy
    PROVE  Tr!Inv'
<1> DEFINE a == Reset(Tr!A)
<1>1. /\ over = "no" /\ Tr!A \in Checker /\ above' = [above EXCEPT ![1] = a] /\ Legal(a)
      /\ UNCHANGED <<calls, v1, v2, v3, v4, v5, v6, v7>> /\ over' = "destroyed"
      /\ ~Pending(Tr!Task) => below' = below
  BY TryChecker, TryTypes DEF Tr!Destroy, Tr!Calls, Tr!given
<1>2. a \in Checker /\ a.state = "Initial" /\ Tr!A.state \in {"Cancelled", "Done", "Initial"}
  BY <1>1, ResetMoves DEF Legal
<1> HIDE DEF a
<1>3. (Tr!NotBegun \/ Tr!AtEnd) /\ ~Pending(Tr!Task) /\ calls = <<>>
  <2>1. ~Tr!UnderWay
    BY <1>2, TryChecker DEF Tr!UnderWay, Pending
  <2>2. Tr!NotBegun \/ Tr!AtEnd
    BY <1>1, <1>2, TryAt DEF BeforeSuspend
  <2>3. Tr!AtEnd => calls = <<>>
    BY <1>2, TryAt DEF Tr!AtEnd, BeforeSuspend
  <2>4. Tr!NotBegun => calls = <<>>
    BY DEF Tr!NotBegun
  <2> QED BY <1>1, <2>1, <2>2, <2>3, <2>4, TryAt
<1>4. below' = below
  BY <1>1, <1>3
<1>5. above' \in [{1} -> Checker] /\ Tr!A' = a
  BY <1>1, <1>2, TryTypes DEF Tr!A
<1>6. calls' = <<>> /\ calls' \in Tr!Stacks'
  BY <1>1, <1>3, TryCallsThen
<1> QED BY <1>1, <1>2, <1>4, <1>5, <1>6, TryGoesOn, TryTypes

LEMMA TryInit ==
    ASSUME Tr!Init
    PROVE  Tr!Inv
<1>1. /\ above = [p \in {1} |-> Fresh] /\ below = [s \in {1, 2, 3} |-> Fresh] /\ calls = <<>> /\ over = "no"
      /\ v1 \in BOOLEAN /\ v2 \in BOOLEAN /\ v3 = 1 /\ v4 = FALSE /\ v5 = FALSE /\ v6 = 0
      /\ v7 = [s \in {1, 2, 3} |-> "not"]
  BY TryChecker DEF Tr!Init, Tr!ProtocolInit, Tr!Stages, Tr!TRY, Tr!CATCH, Tr!FINALLY
<1>2. Fresh \in Checker /\ Fresh.state = "Initial"
  BY DEF Fresh, Checker, CheckerState
<1>3. /\ above \in [{1} -> Checker] /\ below \in [{1, 2, 3} -> Checker]
      /\ Tr!A = Fresh /\ \A s \in {1, 2, 3} : below[s] = Fresh /\ v7[s] = "not"
      /\ v7 \in [{1, 2, 3} -> {"not", "value", "exception", "cancelled"}]
  BY <1>1, <1>2 DEF Tr!A
<1>4. Tr!NotBegun
  BY <1>1, <1>2, <1>3, TryChecker DEF Tr!NotBegun, BeforeSuspend, Tr!Stages, Tr!TRY, Tr!CATCH, Tr!FINALLY
<1>5. calls \in Tr!Stacks
  BY <1>1, TryCalls
<1>6. Tr!Stages = {1, 2, 3}
  BY DEF Tr!Stages, Tr!TRY, Tr!CATCH, Tr!FINALLY
<1> QED BY <1>1, <1>2, <1>3, <1>4, <1>5, <1>6, TryChecker DEF Tr!Inv, Legal, Tr!FINALLY

LEMMA TryKeeps ==
    ASSUME Tr!Inv, Tr!Next
    PROVE  Tr!Inv'
BY TryReady, TrySuspend, TryLambdaReturns, TryLambdaThrows, TrySuspendEnds, TryTaskEnds, TryCancel,
   TryResume, TryDestroy DEF Tr!Next

LEMMA TryInvariant == Spec => [](class = "try" => Tr!Inv)
<1>1. Init => (class = "try" => Tr!Inv)
  BY TryInit DEF Init
<1>2. (class = "try" => Tr!Inv) /\ [Next]_vars => (class = "try" => Tr!Inv)'
  <2>1. ASSUME class = "try", Tr!Inv, Next PROVE Tr!Inv'
    BY <2>1, TryKeeps DEF Next
  <2>2. ASSUME class = "try", Tr!Inv, UNCHANGED vars PROVE Tr!Inv'
    <3>1. UNCHANGED <<above, below, calls, over, v1, v2, v3, v4, v5, v6, v7>>
      BY <2>2 DEF vars, shared
    <3>2. /\ Tr!A' = Tr!A /\ Tr!Task' = Tr!Task /\ Tr!Stacks' = Tr!Stacks /\ Tr!Stored' = Tr!Stored
          /\ \A fn : Tr!InCall(fn)' = Tr!InCall(fn)
          /\ Tr!Callee' = Tr!Callee
      BY <3>1 DEF Tr!A, Tr!Task, Tr!Stacks, Tr!Stored, Tr!Outcome, Tr!HasOutcome, Tr!InCall, Tr!Callee
    <3>3. (Tr!NotBegun => Tr!NotBegun') /\ (Tr!UnderWay => Tr!UnderWay') /\ (Tr!AtEnd => Tr!AtEnd')
      BY <3>1, <3>2 DEF Tr!NotBegun, Tr!UnderWay, Tr!AtEnd, Tr!Pending
    <3> QED BY <2>2, <3>1, <3>2, <3>3 DEF Tr!Inv, Tr!Pending
  <2>3. [Next]_vars => class' = class
    BY DEF Next, vars, two, three, five, seven
  <2> QED BY <2>1, <2>2, <2>3
<1> QED BY <1>1, <1>2, PTL DEF Spec

\* What try-, catch- and finally-blocks are for.
LEMMA TryInOrder == Tr!Inv => Tr!BlocksRunInOrder
<1> SUFFICES ASSUME Tr!Inv PROVE Tr!BlocksRunInOrder
  OBVIOUS
<1>1. below[Tr!FINALLY].state # "Cancelling" /\ (\A s \in Tr!Stages : v7[s] # "twice")
  BY TryTypes DEF Tr!Stages, Tr!TRY, Tr!CATCH, Tr!FINALLY
<1>2. ASSUME Tr!A.state \in {"Ready", "ReadyAfterCancel"}
      PROVE  /\ v2 <=> v7[Tr!FINALLY] # "not"
             /\ (v6 # 0) <=> Tr!Outcome = "exception"
             /\ Tr!HasOutcome <=> Tr!Outcome # "cancelled"
  <2>1. over = "no"
    BY <1>2, TryChecker DEF Tr!Inv, Pending
  <2>2. Tr!AtEnd
    BY <1>2, <2>1, TryAt
  <2>3. Tr!Stored /\ v3 = Tr!FINALLY /\ (v2 <=> v7[Tr!FINALLY] # "not")
    BY <2>2 DEF Tr!AtEnd
  <2> QED BY <2>3 DEF Tr!Stored
<1>3. over = "terminated" => v7[Tr!FINALLY] = "exception"
  BY TryStopped DEF Tr!FINALLY
<1>4. v4 /\ v3 = Tr!TRY /\ calls = <<>> /\ over = "no" => Tr!Task.state # "Running"
  <2>1. over = "no" => Tr!NotBegun \/ Tr!UnderWay \/ Tr!AtEnd
    BY DEF Tr!Inv
  <2>2. Tr!NotBegun => Tr!Task.state # "Running"
    BY TryTypes DEF Tr!NotBegun, Tr!Task, Tr!Stages, Tr!TRY, Tr!CATCH, Tr!FINALLY
  <2>3. Tr!AtEnd => v3 # Tr!TRY
    BY DEF Tr!AtEnd, Tr!TRY, Tr!FINALLY
  <2>4. Tr!UnderWay /\ v4 /\ v3 = Tr!TRY /\ calls = <<>> => Tr!Task.state # "Running"
    BY DEF Tr!UnderWay
  <2> QED BY <2>1, <2>2, <2>3, <2>4
<1> QED BY <1>1, <1>2, <1>3, <1>4 DEF Tr!BlocksRunInOrder

----------------------------------------------------------------------------
(* An operation of asio.                                                   *)

\* The checker in Asio is this one.
LEMMA AsioChecker ==
    /\ As!Checker = Checker /\ As!Fresh = Fresh /\ As!BeforeSuspend = BeforeSuspend
    /\ \A c : /\ As!Legal(c) <=> Legal(c)
              /\ As!Pending(c) <=> Pending(c)
    /\ \A c : /\ As!AboutToSetExecutor(c) = AboutToSetExecutor(c)
              /\ As!AboutToSuspend(c) = AboutToSuspend(c)
              /\ As!SuspendThrew(c) = SuspendThrew(c)
              /\ As!AboutToCancel(c) = AboutToCancel(c)
              /\ As!AboutToResume(c) = AboutToResume(c)
              /\ As!Resumed(c) = Resumed(c)
              /\ As!Reset(c) = Reset(c)
    /\ \A c, val : /\ As!ReadyReturned(c, val) = ReadyReturned(c, val)
                   /\ As!EarlyCancelReturned(c, val) = EarlyCancelReturned(c, val)
                   /\ As!CancelReturned(c, val) = CancelReturned(c, val)
                   /\ As!MustResumeReturned(c, val) = MustResumeReturned(c, val)
    /\ \A c, moves : As!Step(c, moves) = Step(c, moves)
<1>1. \A c, moves : As!Step(c, moves) = Step(c, moves)
  BY DEF As!Step, Step
<1>2. As!CheckerState = CheckerState /\ As!BeforeSuspend = BeforeSuspend /\ As!Fresh = Fresh
  BY DEF As!CheckerState, CheckerState, As!BeforeSuspend, BeforeSuspend, As!Fresh, Fresh
<1>3. \A c : /\ As!AboutToSetExecutor(c) = AboutToSetExecutor(c)
             /\ As!AboutToSuspend(c) = AboutToSuspend(c)
             /\ As!SuspendThrew(c) = SuspendThrew(c)
             /\ As!AboutToCancel(c) = AboutToCancel(c)
             /\ As!AboutToResume(c) = AboutToResume(c)
             /\ As!Resumed(c) = Resumed(c)
             /\ As!Reset(c) = Reset(c)
  BY <1>1, <1>2 DEF As!AboutToSetExecutor, AboutToSetExecutor, As!AboutToSuspend, AboutToSuspend,
     As!SuspendThrew, SuspendThrew, As!AboutToCancel, AboutToCancel, As!AboutToResume,
     AboutToResume, As!Resumed, Resumed, As!Reset, Reset
<1>4. \A c, val : /\ As!ReadyReturned(c, val) = ReadyReturned(c, val)
                  /\ As!EarlyCancelReturned(c, val) = EarlyCancelReturned(c, val)
                  /\ As!CancelReturned(c, val) = CancelReturned(c, val)
                  /\ As!MustResumeReturned(c, val) = MustResumeReturned(c, val)
  BY <1>1 DEF As!ReadyReturned, ReadyReturned, As!EarlyCancelReturned, EarlyCancelReturned,
     As!CancelReturned, CancelReturned, As!MustResumeReturned, MustResumeReturned
<1> QED BY <1>1, <1>2, <1>3, <1>4 DEF As!Checker, Checker, As!Legal, Legal, As!Pending, Pending

LEMMA AsioTypes ==
    ASSUME As!Inv
    PROVE  /\ above \in [{1} -> Checker] /\ below \in [{} -> Checker] /\ over = "no"
           /\ As!A \in Checker /\ Legal(As!A)
           /\ v1 \in {"success", "failure", "operation_aborted"} /\ v2 \in BOOLEAN /\ v3 \in BOOLEAN
           /\ v3 <=> Pending(As!A)
           /\ Pending(As!A) => v2
BY AsioChecker DEF As!Inv, As!A

\* The awaitable goes to a, whoever is called.
LEMMA AsioGoesTo ==
    ASSUME As!Inv, NEW a \in Checker, above' = [above EXCEPT ![1] = a], Legal(a),
           below' = below, over' = over,
           v1' \in {"success", "failure", "operation_aborted"}, v2' \in BOOLEAN, v3' \in BOOLEAN,
           v3' <=> Pending(a), Pending(a) => v2',
           calls' = <<>> \/ (calls' = <<[fn |-> "emit", to |-> 1]>> /\ a.state = "Cancelling")
    PROVE  As!Inv'
<1>1. above' \in [{1} -> As!Checker] /\ below' \in [{} -> As!Checker] /\ As!A' = a /\ over' = "no"
  BY AsioChecker, AsioTypes DEF As!A
<1> QED BY <1>1, AsioChecker DEF As!Inv

\* Nobody is called but while the awaitable is being cancelled.
LEMMA AsioQuiet ==
    ASSUME As!Inv, As!A.state # "Cancelling"
    PROVE  calls = <<>>
BY DEF As!Inv

\* A call of a parent that asks, and changes nothing but where it is.
LEMMA AsioAsks ==
    ASSUME As!Inv, NEW a \in Checker, above' = [above EXCEPT ![1] = a], Legal(a),
           UNCHANGED <<below, calls, over, v3>>,
           v1' \in {"success", "failure", "operation_aborted"}, v2' \in BOOLEAN,
           ~Pending(As!A), ~Pending(a)
    PROVE  As!Inv'
<1>1. calls' = <<>> /\ v3' \in BOOLEAN /\ ~v3'
  BY AsioTypes, AsioQuiet DEF Pending
<1> QED BY <1>1, AsioGoesTo

LEMMA AsioReady ==
    ASSUME As!Inv, As!Ready
    PROVE  As!Inv'
<1> DEFINE a == ReadyReturned(As!A, FALSE)
<1>1. /\ above' = [above EXCEPT ![1] = a] /\ Legal(a) /\ As!A.state \in BeforeSuspend
      /\ UNCHANGED <<below, calls, over, v1, v2, v3>> /\ As!A \in Checker
  BY AsioChecker, AsioTypes DEF As!Ready, As!Calls
<1>2. a \in Checker /\ ~Pending(a) /\ ~Pending(As!A)
  BY <1>1, ReadyMoves DEF Goes, Pending, BeforeSuspend
<1> QED BY <1>1, <1>2, AsioAsks, AsioTypes

LEMMA AsioEarlyCancel ==
    ASSUME As!Inv, As!EarlyCancel
    PROVE  As!Inv'
<1> DEFINE a == EarlyCancelReturned(As!A, TRUE)
<1>1. /\ above' = [above EXCEPT ![1] = a] /\ Legal(a)
      /\ UNCHANGED <<below, calls, over, v1, v2, v3>> /\ As!A \in Checker
  BY AsioChecker, AsioTypes DEF As!EarlyCancel, As!Calls
<1>2. a \in Checker /\ ~Pending(a) /\ ~Pending(As!A)
  BY <1>1, EarlyCancelMoves DEF Goes, Pending, Legal
<1> QED BY <1>1, <1>2, AsioAsks, AsioTypes

LEMMA AsioSetExecutor ==
    ASSUME As!Inv, As!SetExecutor
    PROVE  As!Inv'
<1> DEFINE a == AboutToSetExecutor(As!A)
<1>1. /\ above' = [above EXCEPT ![1] = a] /\ Legal(a)
      /\ UNCHANGED <<below, calls, over, v1, v2, v3>> /\ As!A \in Checker
  BY AsioChecker, AsioTypes DEF As!SetExecutor, As!Calls
<1>2. a \in Checker /\ ~Pending(a) /\ ~Pending(As!A)
  BY <1>1, SetExecutorMoves DEF Goes, Pending, Legal, BeforeSuspend
<1> QED BY <1>1, <1>2, AsioAsks, AsioTypes

LEMMA AsioSuspend ==
    ASSUME As!Inv, As!Suspend
    PROVE  As!Inv'
<1> DEFINE a == AboutToSuspend(As!A)
<1>1. /\ above' = [above EXCEPT ![1] = a] /\ Legal(a) /\ v2' = TRUE /\ v3' = TRUE
      /\ UNCHANGED <<below, calls, over, v1>> /\ As!A \in Checker
  BY AsioChecker, AsioTypes DEF As!Suspend, As!Calls
<1>2. a \in Checker /\ Pending(a) /\ As!A.state \in {"NotReady", "CancelPending"}
  BY <1>1, SuspendMoves DEF Goes, Pending, Legal
<1>3. calls' = <<>>
  BY <1>1, <1>2, AsioQuiet
<1> QED BY <1>1, <1>2, <1>3, AsioGoesTo, AsioTypes

LEMMA AsioSuspendThrows ==
    ASSUME As!Inv, As!SuspendThrows
    PROVE  As!Inv'
<1> DEFINE b == AboutToSuspend(As!A)
           a == SuspendThrew(b)
<1>1. /\ above' = [above EXCEPT ![1] = a] /\ Legal(a) /\ v2' = TRUE
      /\ UNCHANGED <<below, calls, over, v1, v3>> /\ As!A \in Checker
  BY AsioChecker, AsioTypes DEF As!SuspendThrows, As!Calls
<1>2. /\ b \in Checker
      /\ b.state = IF As!A.hasExecutor /\ As!A.state = "NotReady" THEN "Running"
                   ELSE IF As!A.hasExecutor /\ As!A.state = "CancelPending" THEN "Cancelling" ELSE "Broken"
  BY <1>1, SuspendMoves DEF Goes
<1> HIDE DEF b
<1>3. a \in Checker /\ a.state = IF b.state \in {"Running", "Cancelling"} THEN "Done" ELSE "Broken"
  BY <1>2, SuspendMoves DEF Goes
<1> HIDE DEF a
<1>4. ~Pending(a) /\ ~Pending(As!A)
  BY <1>1, <1>2, <1>3 DEF Pending, Legal
<1> QED BY <1>1, <1>3, <1>4, AsioAsks, AsioTypes

LEMMA AsioDone ==
    ASSUME Liberties = {}, As!Inv, As!Done
    PROVE  As!Inv'
<1> DEFINE a == Resumed(As!A)
<1>1. /\ above' = [above EXCEPT ![1] = a] /\ v2' = FALSE /\ v3' = FALSE
      /\ v1' \in {"success", "failure", "operation_aborted"}
      /\ UNCHANGED <<below, calls, over>> /\ As!A \in Checker /\ Pending(As!A)
  BY AsioChecker, AsioTypes DEF As!Done, As!A
<1>2. a \in Checker /\ ~Pending(a) /\ Legal(a)
  BY <1>1, ResumeMoves DEF Goes, Pending, Legal
<1>3. calls' = <<>>
  BY <1>1 DEF As!Done, As!Inv, As!InCall
<1> QED BY <1>1, <1>2, <1>3, AsioGoesTo

LEMMA AsioCancel ==
    ASSUME As!Inv, As!Cancel
    PROVE  As!Inv'
<1> DEFINE a == AboutToCancel(As!A)
<1>1. /\ above' = [above EXCEPT ![1] = a] /\ Legal(a)
      /\ UNCHANGED <<below, over, v1, v2, v3>> /\ As!A \in Checker
      /\ calls' = <<[fn |-> "emit", to |-> 1]>> \o calls
  BY AsioChecker, AsioTypes DEF As!Cancel, As!Calls, As!Calling
<1>2. a \in Checker /\ a.state = "Cancelling" /\ As!A.state = "Running"
  BY <1>1, CancelMoves DEF Goes, Legal
<1>3. calls' = <<[fn |-> "emit", to |-> 1]>>
  BY <1>1, <1>2, AsioQuiet
<1>4. Pending(a) /\ Pending(As!A)
  BY <1>2 DEF Pending
<1> QED BY <1>1, <1>2, <1>3, <1>4, AsioGoesTo, AsioTypes

LEMMA AsioCancelReturns ==
    ASSUME As!Inv, As!CancelReturns
    PROVE  As!Inv'
<1>1. /\ calls = <<[fn |-> "emit", to |-> 1]>> /\ calls' = Tail(calls)
      /\ UNCHANGED <<above, below, over, v1, v2, v3>>
  BY DEF As!CancelReturns, As!InCall, As!Inv
<1>2. calls' = <<>>
  BY <1>1
<1>3. above' = [above EXCEPT ![1] = As!A]
  BY <1>1, AsioTypes DEF As!A
<1> QED BY <1>1, <1>2, <1>3, AsioGoesTo, AsioTypes

LEMMA AsioMustResume ==
    ASSUME As!Inv, As!MustResume
    PROVE  As!Inv'
<1> DEFINE a == MustResumeReturned(As!A, v1 # "operation_aborted")
<1>1. /\ above' = [above EXCEPT ![1] = a] /\ Legal(a)
      /\ UNCHANGED <<below, calls, over, v1, v2, v3>> /\ As!A \in Checker
  BY AsioChecker, AsioTypes DEF As!MustResume, As!Calls
<1>2. PICK val \in BOOLEAN : a = MustResumeReturned(As!A, val)
  OBVIOUS
<1> HIDE DEF a
<1>3. a \in Checker /\ ~Pending(a) /\ ~Pending(As!A)
  BY <1>1, <1>2, MustResumeMoves DEF Goes, Pending, Legal
<1> QED BY <1>1, <1>3, AsioAsks, AsioTypes

LEMMA AsioResume ==
    ASSUME As!Inv, As!Resume
    PROVE  As!Inv'
<1> DEFINE a == AboutToResume(As!A)
<1>1. /\ above' = [above EXCEPT ![1] = a] /\ Legal(a)
      /\ UNCHANGED <<below, calls, over, v1, v2, v3>> /\ As!A \in Checker
  BY AsioChecker, AsioTypes DEF As!Resume, As!Calls
<1>2. a \in Checker /\ ~Pending(a) /\ ~Pending(As!A)
  BY <1>1, ResumeMoves DEF Goes, Pending, Legal
<1> QED BY <1>1, <1>2, AsioAsks, AsioTypes

LEMMA AsioDestroy ==
    ASSUME As!Inv, As!Destroy
    PROVE  As!Inv'
<1> DEFINE a == Reset(As!A)
<1>1. /\ above' = [above EXCEPT ![1] = a] /\ Legal(a) /\ v1' = "success" /\ v2' = FALSE
      /\ UNCHANGED <<below, calls, over, v3>> /\ As!A \in Checker
  BY AsioChecker, AsioTypes DEF As!Destroy, As!Calls
<1>2. a \in Checker /\ ~Pending(a) /\ ~Pending(As!A)
  BY <1>1, ResetMoves DEF Pending, Legal
<1> QED BY <1>1, <1>2, AsioAsks

LEMMA AsioInit ==
    ASSUME As!Init
    PROVE  As!Inv
<1>1. /\ above = [p \in {1} |-> Fresh] /\ below = [c \in {} |-> Fresh] /\ calls = <<>> /\ over = "no"
      /\ v1 = "success" /\ v2 = FALSE /\ v3 = FALSE
  BY AsioChecker DEF As!Init, As!ProtocolInit
<1>2. Fresh \in Checker /\ ~Pending(Fresh) /\ Legal(Fresh)
  BY DEF Fresh, Checker, CheckerState, Pending, Legal
<1>3. above \in [{1} -> As!Checker] /\ below \in [{} -> As!Checker] /\ As!A = Fresh
  BY <1>1, <1>2, AsioChecker DEF As!A
<1> QED BY <1>1, <1>2, <1>3, AsioChecker DEF As!Inv

LEMMA AsioInvariant == ASSUME Liberties = {} PROVE Spec => [](class = "asio" => As!Inv)
<1>1. Init => (class = "asio" => As!Inv)
  BY AsioInit DEF Init
<1>2. (class = "asio" => As!Inv) /\ [Next]_vars => (class = "asio" => As!Inv)'
  <2>1. ASSUME class = "asio", As!Inv, Next PROVE As!Inv'
    BY <2>1, AsioReady, AsioEarlyCancel, AsioSetExecutor, AsioSuspend, AsioSuspendThrows, AsioDone,
       AsioCancel, AsioCancelReturns, AsioMustResume, AsioResume, AsioDestroy DEF Next, As!Next
  <2>2. ASSUME class = "asio", As!Inv, UNCHANGED vars PROVE As!Inv'
    BY <2>2 DEF vars, shared, As!Inv, As!A
  <2>3. [Next]_vars => class' = class
    BY DEF Next, vars, two, three, five, seven
  <2> QED BY <2>1, <2>2, <2>3
<1> QED BY <1>1, <1>2, PTL DEF Spec

\* What asio knows of.
LEMMA AsioSignals == As!Inv => As!SignalLives /\ As!TypeOK /\ As!ProtocolKept
<1> SUFFICES ASSUME As!Inv PROVE As!SignalLives /\ As!TypeOK /\ As!ProtocolKept
  OBVIOUS
<1>1. As!SignalLives
  BY AsioChecker DEF As!Inv, As!SignalLives, As!InCall, As!Pending
<1>2. As!TypeOK
  BY DEF As!Inv, As!TypeOK, As!ProtocolTypeOK
<1>3. As!ProtocolKept
  BY DEF As!Inv, As!ProtocolKept, As!A
<1> QED BY <1>1, <1>2, <1>3

----------------------------------------------------------------------------
(* run().                                                                  *)

\* The checker in Runner is this one.
LEMMA RunnerChecker ==
    /\ Ru!Checker = Checker /\ Ru!Fresh = Fresh /\ Ru!BeforeSuspend = BeforeSuspend
    /\ \A c : /\ Ru!Legal(c) <=> Legal(c)
              /\ Ru!Pending(c) <=> Pending(c)
    /\ \A c : /\ Ru!AboutToSetExecutor(c) = AboutToSetExecutor(c)
              /\ Ru!AboutToSuspend(c) = AboutToSuspend(c)
              /\ Ru!SuspendThrew(c) = SuspendThrew(c)
              /\ Ru!AboutToCancel(c) = AboutToCancel(c)
              /\ Ru!AboutToResume(c) = AboutToResume(c)
              /\ Ru!Resumed(c) = Resumed(c)
              /\ Ru!Reset(c) = Reset(c)
    /\ \A c, val : /\ Ru!ReadyReturned(c, val) = ReadyReturned(c, val)
                   /\ Ru!EarlyCancelReturned(c, val) = EarlyCancelReturned(c, val)
                   /\ Ru!CancelReturned(c, val) = CancelReturned(c, val)
                   /\ Ru!MustResumeReturned(c, val) = MustResumeReturned(c, val)
    /\ \A c, moves : Ru!Step(c, moves) = Step(c, moves)
<1>1. \A c, moves : Ru!Step(c, moves) = Step(c, moves)
  BY DEF Ru!Step, Step
<1>2. Ru!CheckerState = CheckerState /\ Ru!BeforeSuspend = BeforeSuspend /\ Ru!Fresh = Fresh
  BY DEF Ru!CheckerState, CheckerState, Ru!BeforeSuspend, BeforeSuspend, Ru!Fresh, Fresh
<1>3. \A c : /\ Ru!AboutToSetExecutor(c) = AboutToSetExecutor(c)
             /\ Ru!AboutToSuspend(c) = AboutToSuspend(c)
             /\ Ru!SuspendThrew(c) = SuspendThrew(c)
             /\ Ru!AboutToCancel(c) = AboutToCancel(c)
             /\ Ru!AboutToResume(c) = AboutToResume(c)
             /\ Ru!Resumed(c) = Resumed(c)
             /\ Ru!Reset(c) = Reset(c)
  BY <1>1, <1>2 DEF Ru!AboutToSetExecutor, AboutToSetExecutor, Ru!AboutToSuspend, AboutToSuspend,
     Ru!SuspendThrew, SuspendThrew, Ru!AboutToCancel, AboutToCancel, Ru!AboutToResume,
     AboutToResume, Ru!Resumed, Resumed, Ru!Reset, Reset
<1>4. \A c, val : /\ Ru!ReadyReturned(c, val) = ReadyReturned(c, val)
                  /\ Ru!EarlyCancelReturned(c, val) = EarlyCancelReturned(c, val)
                  /\ Ru!CancelReturned(c, val) = CancelReturned(c, val)
                  /\ Ru!MustResumeReturned(c, val) = MustResumeReturned(c, val)
  BY <1>1 DEF Ru!ReadyReturned, ReadyReturned, Ru!EarlyCancelReturned, EarlyCancelReturned,
     Ru!CancelReturned, CancelReturned, Ru!MustResumeReturned, MustResumeReturned
<1> QED BY <1>1, <1>2, <1>3, <1>4 DEF Ru!Checker, Checker, Ru!Legal, Legal, Ru!Pending, Pending

LEMMA RunnerTypes ==
    ASSUME Ru!Inv
    PROVE  above \in [{} -> Checker] /\ below \in [{1} -> Checker] /\ Ru!B \in Checker
BY RunnerChecker DEF Ru!Inv, Ru!B

\* The child goes to b, and run() goes on.
LEMMA RunnerGoesTo ==
    ASSUME Ru!Inv, NEW b \in Checker, below' = [below EXCEPT ![1] = b], above' = above
    PROVE  above' \in [{} -> Ru!Checker] /\ below' \in [{1} -> Ru!Checker] /\ Ru!B' = b
BY RunnerTypes, RunnerChecker DEF Ru!B

\* It stays where it is.
LEMMA RunnerStays ==
    ASSUME Ru!Inv, below' = below, above' = above
    PROVE  above' \in [{} -> Ru!Checker] /\ below' \in [{1} -> Ru!Checker] /\ Ru!B' = Ru!B
BY RunnerTypes, RunnerChecker DEF Ru!B

LEMMA RunnerChildResumes ==
    ASSUME Liberties = {}, Ru!Inv, Ru!ChildResumes
    PROVE  Ru!Inv'
<1> DEFINE b == Resumed(Ru!B)
<1>1. /\ over = "no" /\ v1 \notin {"fail", "cancel", "spin"} /\ Pending(Ru!B) /\ Ru!B \in Checker
      /\ below' = [below EXCEPT ![1] = b] /\ v3' = TRUE /\ UNCHANGED <<above, calls, over, v1, v2>>
  BY RunnerChecker, RunnerTypes DEF Ru!ChildResumes, Ru!Below
<1>2. Ru!B.state = "Running" /\ v2 /\ v1 \in {"suspend", "runSoon", "loop", "drain"}
  BY <1>1 DEF Ru!Inv, Ru!Waits, Ru!Told, Pending
<1>3. b \in Checker /\ b.state = "Ready"
  BY <1>1, <1>2, ResumeMoves DEF Goes
<1> HIDE DEF b
<1>4. above' \in [{} -> Ru!Checker] /\ below' \in [{1} -> Ru!Checker] /\ Ru!B' = b
  BY <1>1, <1>3, RunnerGoesTo
<1>5. Ru!Told'
  BY <1>1, <1>2, <1>3, <1>4 DEF Ru!Told
<1> QED BY <1>1, <1>2, <1>3, <1>4, <1>5 DEF Ru!Inv

LEMMA RunnerRunStop ==
    ASSUME Ru!Inv, Ru!RunStop
    PROVE  Ru!Inv'
<1>1. v3 /\ v3' = FALSE /\ v2' = FALSE /\ UNCHANGED <<above, below, calls, over, v1>>
  BY DEF Ru!RunStop, Ru!shared
<1>2. above' \in [{} -> Ru!Checker] /\ below' \in [{1} -> Ru!Checker] /\ Ru!B' = Ru!B
  BY <1>1, RunnerStays
<1>3. Ru!B.state = "Ready" /\ v1 \in {"suspend", "runSoon", "loop", "drain"}
  BY <1>1 DEF Ru!Inv, Ru!Waits, Ru!Told
<1>4. Ru!Told'
  BY <1>1, <1>2, <1>3 DEF Ru!Told
<1> QED BY <1>1, <1>2, <1>3, <1>4 DEF Ru!Inv

LEMMA RunnerReady ==
    ASSUME Ru!Inv, Ru!Ready
    PROVE  Ru!Inv'
<1>1. PICK val \in BOOLEAN :
        /\ below' = [below EXCEPT ![1] = ReadyReturned(Ru!B, val)]
        /\ v1' = IF val THEN "resume" ELSE "suspend"
  BY RunnerChecker DEF Ru!Ready, Ru!Below
<1>2. /\ v1 = "begin" /\ over = "no" /\ ~v3 /\ v2 /\ Ru!B \in Checker /\ Ru!B.state = "Initial"
      /\ calls = <<>> /\ UNCHANGED <<above, calls, over, v2, v3>>
  BY RunnerTypes DEF Ru!Ready, Ru!From, Ru!Inv
<1> DEFINE b == ReadyReturned(Ru!B, val)
<1>3. b \in Checker /\ b.state = IF val THEN "ReadyImmediately" ELSE "NotReady"
  <2>1. CASE val = TRUE
    BY <1>2, <2>1, ReadyMoves DEF Goes
  <2>2. CASE val = FALSE
    BY <1>2, <2>2, ReadyMoves DEF Goes
  <2> QED BY <2>1, <2>2
<1> HIDE DEF b
<1>4. above' \in [{} -> Ru!Checker] /\ below' \in [{1} -> Ru!Checker] /\ Ru!B' = b
  BY <1>1, <1>2, <1>3, RunnerGoesTo DEF b
<1> QED BY <1>1, <1>2, <1>3, <1>4 DEF Ru!Inv, Ru!Waits, Ru!Told

LEMMA RunnerSuspend ==
    ASSUME Ru!Inv, Ru!Suspend
    PROVE  Ru!Inv'
<1> DEFINE c == AboutToSetExecutor(Ru!B)
           b == AboutToSuspend(c)
<1>1. /\ v1 = "suspend" /\ over = "no" /\ ~v3 /\ calls = <<>> /\ Ru!B \in Checker
      /\ below' = [below EXCEPT ![1] = b] /\ calls' = <<[fn |-> "await_suspend", to |-> 1]>> \o calls
      /\ UNCHANGED <<above, over, v1, v2, v3>>
  BY RunnerTypes, RunnerChecker DEF Ru!Suspend, Ru!From, Ru!Below, Ru!Calling
<1>2. Ru!B.state = "NotReady" /\ v2 /\ calls' = <<[fn |-> "await_suspend", to |-> 1]>>
  <2>1. <<[fn |-> "await_suspend", to |-> 1]>> # <<>>
    OBVIOUS
  <2>2. Ru!B.state = "NotReady"
    BY <1>1, <2>1 DEF Ru!Inv
  <2>3. v2
    BY <1>1, <2>2 DEF Ru!Inv, Ru!Waits, Ru!Told
  <2>4. <<[fn |-> "await_suspend", to |-> 1]>> \o <<>> = <<[fn |-> "await_suspend", to |-> 1]>>
    OBVIOUS
  <2> QED BY <1>1, <2>2, <2>3, <2>4
<1>3. c \in Checker /\ c.hasExecutor /\ c.state = "NotReady"
  BY <1>1, <1>2, SetExecutorMoves DEF BeforeSuspend
<1> HIDE DEF c
<1>4. b \in Checker /\ b.state = "Running"
  BY <1>3, SuspendMoves DEF Goes
<1> HIDE DEF b
<1>5. above' \in [{} -> Ru!Checker] /\ below' \in [{1} -> Ru!Checker] /\ Ru!B' = b
  BY <1>1, <1>4, RunnerGoesTo
<1>6. Ru!Waits' /\ v2' \in BOOLEAN /\ v3' \in BOOLEAN
  BY <1>1, <1>2, <1>4, <1>5 DEF Ru!Waits, Ru!Inv
<1> QED BY <1>1, <1>2, <1>4, <1>5, <1>6 DEF Ru!Inv

LEMMA RunnerSuspendReturns ==
    ASSUME Ru!Inv, Ru!SuspendReturns
    PROVE  Ru!Inv'
<1>1. /\ v1 = "suspend" /\ over = "no" /\ calls # <<>> /\ v1' = "runSoon" /\ calls' = <<>>
      /\ UNCHANGED <<above, below, over, v2, v3>>
  BY DEF Ru!SuspendReturns, Ru!From, Ru!InCall
<1>2. above' \in [{} -> Ru!Checker] /\ below' \in [{1} -> Ru!Checker] /\ Ru!B' = Ru!B
  BY <1>1, RunnerStays
<1>3. (Ru!Waits \/ Ru!Told) /\ Ru!Waits' = Ru!Waits /\ Ru!Told' = Ru!Told
  BY <1>1, <1>2 DEF Ru!Inv, Ru!Waits, Ru!Told
<1>4. v2' \in BOOLEAN /\ v3' \in BOOLEAN
  BY <1>1 DEF Ru!Inv
<1> QED BY <1>1, <1>2, <1>3, <1>4 DEF Ru!Inv

LEMMA RunnerSuspendThrows ==
    ASSUME Ru!Inv, Ru!SuspendThrows
    PROVE  Ru!Inv'
<1> DEFINE b == SuspendThrew(Ru!B)
<1>1. /\ over = "no" /\ ~v3 /\ Pending(Ru!B) /\ Ru!B \in Checker /\ v1' = "leave" /\ calls' = <<>>
      /\ below' = [below EXCEPT ![1] = b] /\ UNCHANGED <<above, over, v2, v3>>
  BY RunnerTypes, RunnerChecker DEF Ru!SuspendThrows, Ru!From, Ru!Below
<1>2. b \in Checker /\ b.state = "Done"
  BY <1>1, SuspendMoves DEF Goes, Pending
<1> HIDE DEF b
<1>3. above' \in [{} -> Ru!Checker] /\ below' \in [{1} -> Ru!Checker] /\ Ru!B' = b
  BY <1>1, <1>2, RunnerGoesTo
<1>4. v2' \in BOOLEAN /\ v3' \in BOOLEAN
  BY <1>1 DEF Ru!Inv
<1> QED BY <1>1, <1>2, <1>3, <1>4 DEF Ru!Inv

LEMMA RunnerGoOn ==
    ASSUME Ru!Inv, Ru!GoOn
    PROVE  Ru!Inv'
<1>1. /\ over = "no" /\ ~v3 /\ UNCHANGED <<above, below, calls, over, v2, v3>>
      /\ v1 \in {"runSoon", "loop", "drain"}
      /\ v1' \in IF v2 THEN {"loop", "drain", "fail"} ELSE {"resume"}
  BY DEF Ru!GoOn, Ru!From, Ru!Unfinished, Ru!shared
<1>2. above' \in [{} -> Ru!Checker] /\ below' \in [{1} -> Ru!Checker] /\ Ru!B' = Ru!B
  BY <1>1, RunnerStays
<1>3. /\ (Ru!Waits \/ Ru!Told) /\ Ru!Waits' = Ru!Waits /\ Ru!Told' = Ru!Told
      /\ calls = <<>> /\ v2 \in BOOLEAN
  BY <1>1, <1>2 DEF Ru!Inv, Ru!Waits, Ru!Told
<1>4. IF v2 THEN Ru!Waits ELSE Ru!B.state = "Ready"
  BY <1>1, <1>3 DEF Ru!Waits, Ru!Told
<1> QED BY <1>1, <1>2, <1>3, <1>4 DEF Ru!Inv

LEMMA RunnerFailTerminates ==
    ASSUME Ru!Inv, Ru!FailTerminates
    PROVE  Ru!Inv'
<1>1. /\ v1 = "fail" /\ over' = "terminated" /\ UNCHANGED <<above, below, calls, v1, v2, v3>>
  BY DEF Ru!FailTerminates, Ru!From
<1>2. above' \in [{} -> Ru!Checker] /\ below' \in [{1} -> Ru!Checker] /\ Ru!B' = Ru!B
  BY <1>1, RunnerStays
<1> QED BY <1>1, <1>2 DEF Ru!Inv, Ru!Waits

LEMMA RunnerFailThrows ==
    ASSUME Ru!Inv, Ru!FailThrows
    PROVE  Ru!Inv'
<1> DEFINE b == AboutToCancel(Ru!B)
<1>1. /\ v1 = "fail" /\ over = "no" /\ v1' = "cancel" /\ Ru!B \in Checker
      /\ below' = [below EXCEPT ![1] = b] /\ calls' = <<[fn |-> "await_cancel", to |-> 1]>> \o calls
      /\ UNCHANGED <<above, over, v2, v3>>
  BY RunnerTypes, RunnerChecker DEF Ru!FailThrows, Ru!From, Ru!Below, Ru!Calling
<1>2. calls' = <<[fn |-> "await_cancel", to |-> 1]>> /\ v2 /\ ~v3 /\ Ru!B.state = "Running"
  BY <1>1 DEF Ru!Inv, Ru!Waits
<1>3. b \in Checker /\ b.state = "Cancelling"
  BY <1>1, <1>2, CancelMoves DEF Goes
<1> HIDE DEF b
<1>4. above' \in [{} -> Ru!Checker] /\ below' \in [{1} -> Ru!Checker] /\ Ru!B' = b
  BY <1>1, <1>3, RunnerGoesTo
<1>5. v2' \in BOOLEAN /\ v3' \in BOOLEAN
  BY <1>1 DEF Ru!Inv
<1> QED BY <1>1, <1>2, <1>3, <1>4, <1>5 DEF Ru!Inv

LEMMA RunnerCancelReturns ==
    ASSUME Ru!Inv, Ru!CancelReturns
    PROVE  Ru!Inv'
<1>1. /\ v1 = "cancel" /\ over = "no" /\ calls' = <<>> /\ UNCHANGED <<above, over, v2, v3>>
      /\ v2 /\ ~v3 /\ Ru!B.state = "Cancelling" /\ Ru!B \in Checker
  BY RunnerTypes DEF Ru!CancelReturns, Ru!From, Ru!Inv
<1>2. v2' \in BOOLEAN /\ v3' \in BOOLEAN
  BY <1>1 DEF Ru!Inv
<1>3. CASE v1' = "spin" /\ below' = below
  <2>1. above' \in [{} -> Ru!Checker] /\ below' \in [{1} -> Ru!Checker] /\ Ru!B' = Ru!B
    BY <1>1, <1>3, RunnerStays
  <2> QED BY <1>1, <1>2, <1>3, <2>1 DEF Ru!Inv
<1>4. CASE v1' = "leave" /\ below' = [below EXCEPT ![1] = CancelReturned(Ru!B, TRUE)]
  <2> DEFINE b == CancelReturned(Ru!B, TRUE)
  <2>1. b \in Checker /\ b.state = "Cancelled"
    BY <1>1, CancelMoves DEF Goes
  <2> HIDE DEF b
  <2>2. above' \in [{} -> Ru!Checker] /\ below' \in [{1} -> Ru!Checker] /\ Ru!B' = b
    BY <1>1, <1>4, <2>1, RunnerGoesTo DEF b
  <2> QED BY <1>1, <1>2, <1>4, <2>1, <2>2 DEF Ru!Inv
<1> QED BY <1>1, <1>3, <1>4, RunnerChecker DEF Ru!CancelReturns, Ru!Below

LEMMA RunnerSpinEnds ==
    ASSUME Ru!Inv, Ru!SpinEnds
    PROVE  Ru!Inv'
<1>1. /\ v1 = "spin" /\ over = "no" /\ v1' = "leave" /\ UNCHANGED <<above, calls, over, v2, v3>>
      /\ v2 /\ ~v3 /\ calls = <<>> /\ v2' \in BOOLEAN /\ v3' \in BOOLEAN
  BY DEF Ru!SpinEnds, Ru!From, Ru!Inv
<1>2. below' = [below EXCEPT ![1] = Fresh]
  BY <1>1, RunnerChecker DEF Ru!SpinEnds, Ru!Unfinished, Ru!Below
<1>3. Fresh \in Checker /\ Fresh.state = "Initial"
  BY DEF Fresh, Checker, CheckerState
<1>4. above' \in [{} -> Ru!Checker] /\ below' \in [{1} -> Ru!Checker] /\ Ru!B' = Fresh
  BY <1>1, <1>2, <1>3, RunnerGoesTo
<1> QED BY <1>1, <1>3, <1>4 DEF Ru!Inv

LEMMA RunnerResume ==
    ASSUME Ru!Inv, Ru!Resume
    PROVE  Ru!Inv'
<1> DEFINE b == AboutToResume(Ru!B)
<1>1. /\ v1 = "resume" /\ over = "no" /\ v1' = "leave" /\ UNCHANGED <<above, calls, over, v2, v3>>
      /\ ~v3 /\ calls = <<>> /\ v2' \in BOOLEAN /\ v3' \in BOOLEAN /\ Ru!B \in Checker
      /\ Ru!B.state \in {"ReadyImmediately", "Ready"}
  BY RunnerTypes DEF Ru!Resume, Ru!From, Ru!Inv
<1>2. below' = [below EXCEPT ![1] = b]
  BY RunnerChecker DEF Ru!Resume, Ru!Below
<1>3. b \in Checker /\ b.state = "Done"
  BY <1>1, ResumeMoves DEF Goes
<1> HIDE DEF b
<1>4. above' \in [{} -> Ru!Checker] /\ below' \in [{1} -> Ru!Checker] /\ Ru!B' = b
  BY <1>1, <1>2, <1>3, RunnerGoesTo
<1> QED BY <1>1, <1>3, <1>4 DEF Ru!Inv

LEMMA RunnerLeave ==
    ASSUME Ru!Inv, Ru!Leave
    PROVE  Ru!Inv'
<1> DEFINE b == Reset(Ru!B)
<1>1. /\ v1 = "leave" /\ over' = "destroyed" /\ v1' = "left" /\ UNCHANGED <<above, calls, v2, v3>>
      /\ calls = <<>> /\ v2' \in BOOLEAN /\ v3' \in BOOLEAN /\ Ru!B \in Checker
      /\ Ru!B.state \in {"Initial", "Done", "Cancelled"}
  BY RunnerTypes DEF Ru!Leave, Ru!From, Ru!Inv
<1>2. below' = [below EXCEPT ![1] = b]
  BY RunnerChecker DEF Ru!Leave, Ru!Below
<1>3. b \in Checker /\ b.state = "Initial"
  BY <1>1, ResetMoves
<1> HIDE DEF b
<1>4. above' \in [{} -> Ru!Checker] /\ below' \in [{1} -> Ru!Checker] /\ Ru!B' = b
  BY <1>1, <1>2, <1>3, RunnerGoesTo
<1> QED BY <1>1, <1>3, <1>4 DEF Ru!Inv

LEMMA RunnerInit ==
    ASSUME Ru!Init
    PROVE  Ru!Inv
<1>1. /\ above = [p \in {} |-> Fresh] /\ below = [c \in {1} |-> Fresh] /\ calls = <<>> /\ over = "no"
      /\ v1 = "begin" /\ v2 = TRUE /\ v3 = FALSE
  BY RunnerChecker DEF Ru!Init, Ru!ProtocolInit
<1>2. Fresh \in Checker /\ Fresh.state = "Initial"
  BY DEF Fresh, Checker, CheckerState
<1>3. above \in [{} -> Ru!Checker] /\ below \in [{1} -> Ru!Checker] /\ Ru!B = Fresh
  BY <1>1, <1>2, RunnerChecker DEF Ru!B
<1> QED BY <1>1, <1>2, <1>3 DEF Ru!Inv

LEMMA RunnerInvariant == ASSUME Liberties = {} PROVE Spec => [](class = "runner" => Ru!Inv)
<1>1. Init => (class = "runner" => Ru!Inv)
  BY RunnerInit DEF Init
<1>2. (class = "runner" => Ru!Inv) /\ [Next]_vars => (class = "runner" => Ru!Inv)'
  <2>1. ASSUME class = "runner", Ru!Inv, Next PROVE Ru!Inv'
    BY <2>1, RunnerChildResumes, RunnerRunStop, RunnerReady, RunnerSuspend, RunnerSuspendReturns,
       RunnerSuspendThrows, RunnerGoOn, RunnerFailTerminates, RunnerFailThrows, RunnerCancelReturns,
       RunnerSpinEnds, RunnerResume, RunnerLeave DEF Next, Ru!Next
  <2>2. ASSUME class = "runner", Ru!Inv, UNCHANGED vars PROVE Ru!Inv'
    BY <2>2 DEF vars, shared, Ru!Inv, Ru!Waits, Ru!Told, Ru!B
  <2>3. [Next]_vars => class' = class
    BY DEF Next, vars, two, three, five, seven
  <2> QED BY <2>1, <2>2, <2>3
<1> QED BY <1>1, <1>2, PTL DEF Spec

\* What run() goes by.
LEMMA RunnerStops == Ru!Inv => Ru!LoopStopped /\ Ru!TypeOK /\ Ru!ProtocolKept
<1> SUFFICES ASSUME Ru!Inv PROVE Ru!LoopStopped /\ Ru!TypeOK /\ Ru!ProtocolKept
  OBVIOUS
<1>1. Ru!LoopStopped
  BY RunnerChecker DEF Ru!Inv, Ru!LoopStopped, Ru!Waits, Ru!Told, Pending
<1>2. Ru!TypeOK
  BY DEF Ru!Inv, Ru!TypeOK, Ru!ProtocolTypeOK
<1>3. Legal(Ru!B)
  BY DEF Ru!Inv, Ru!Waits, Ru!Told, Legal
<1>4. Ru!ProtocolKept
  BY <1>3, RunnerChecker DEF Ru!Inv, Ru!ProtocolKept, Ru!B
<1> QED BY <1>1, <1>2, <1>4

----------------------------------------------------------------------------
(* A read of a QIODevice.                                                  *)

\* The checker in Device is this one.
LEMMA DeviceChecker ==
    /\ Io!Checker = Checker /\ Io!Fresh = Fresh /\ Io!BeforeSuspend = BeforeSuspend
    /\ \A c : /\ Io!Legal(c) <=> Legal(c)
              /\ Io!Pending(c) <=> Pending(c)
    /\ \A c : /\ Io!AboutToSetExecutor(c) = AboutToSetExecutor(c)
              /\ Io!AboutToSuspend(c) = AboutToSuspend(c)
              /\ Io!SuspendThrew(c) = SuspendThrew(c)
              /\ Io!AboutToCancel(c) = AboutToCancel(c)
              /\ Io!AboutToResume(c) = AboutToResume(c)
              /\ Io!Resumed(c) = Resumed(c)
              /\ Io!Reset(c) = Reset(c)
    /\ \A c, val : /\ Io!ReadyReturned(c, val) = ReadyReturned(c, val)
                   /\ Io!EarlyCancelReturned(c, val) = EarlyCancelReturned(c, val)
                   /\ Io!CancelReturned(c, val) = CancelReturned(c, val)
                   /\ Io!MustResumeReturned(c, val) = MustResumeReturned(c, val)
    /\ \A c, moves : Io!Step(c, moves) = Step(c, moves)
<1>1. \A c, moves : Io!Step(c, moves) = Step(c, moves)
  BY DEF Io!Step, Step
<1>2. Io!CheckerState = CheckerState /\ Io!BeforeSuspend = BeforeSuspend /\ Io!Fresh = Fresh
  BY DEF Io!CheckerState, CheckerState, Io!BeforeSuspend, BeforeSuspend, Io!Fresh, Fresh
<1>3. \A c : /\ Io!AboutToSetExecutor(c) = AboutToSetExecutor(c)
             /\ Io!AboutToSuspend(c) = AboutToSuspend(c)
             /\ Io!SuspendThrew(c) = SuspendThrew(c)
             /\ Io!AboutToCancel(c) = AboutToCancel(c)
             /\ Io!AboutToResume(c) = AboutToResume(c)
             /\ Io!Resumed(c) = Resumed(c)
             /\ Io!Reset(c) = Reset(c)
  BY <1>1, <1>2 DEF Io!AboutToSetExecutor, AboutToSetExecutor, Io!AboutToSuspend, AboutToSuspend,
     Io!SuspendThrew, SuspendThrew, Io!AboutToCancel, AboutToCancel, Io!AboutToResume,
     AboutToResume, Io!Resumed, Resumed, Io!Reset, Reset
<1>4. \A c, val : /\ Io!ReadyReturned(c, val) = ReadyReturned(c, val)
                  /\ Io!EarlyCancelReturned(c, val) = EarlyCancelReturned(c, val)
                  /\ Io!CancelReturned(c, val) = CancelReturned(c, val)
                  /\ Io!MustResumeReturned(c, val) = MustResumeReturned(c, val)
  BY <1>1 DEF Io!ReadyReturned, ReadyReturned, Io!EarlyCancelReturned, EarlyCancelReturned,
     Io!CancelReturned, CancelReturned, Io!MustResumeReturned, MustResumeReturned
<1> QED BY <1>1, <1>2, <1>3, <1>4 DEF Io!Checker, Checker, Io!Legal, Legal, Io!Pending, Pending

\* Enough chunks are not less than what they are for.
LEMMA ChunksSuffice ==
    ASSUME NEW m \in Nat
    PROVE  LET chunks == Chunk * ((m + Chunk - 1) \div Chunk)
           IN  chunks \in Nat /\ chunks >= m
<1> DEFINE k == m + Chunk - 1
           d == k \div Chunk
           prod == Chunk * d
<1>1. k \in Nat /\ Chunk \in Nat /\ Chunk > 0
  BY ConstantsAssumption
<1> HIDE DEF k
<1>2. d \in Nat /\ k = Chunk * d + (k % Chunk) /\ k % Chunk \in 0..Chunk - 1
  BY <1>1
<1> HIDE DEF d
<1>3. prod \in Nat
  BY <1>1, <1>2
<1>4. k = prod + (k % Chunk)
  BY <1>2
<1> HIDE DEF prod
<1>5. prod >= m
  BY <1>1, <1>2, <1>3, <1>4 DEF k
<1> QED BY <1>3, <1>5 DEF prod, d, k

LEMMA DeviceTypes ==
    ASSUME Io!Inv
    PROVE  /\ above \in [{1} -> Checker] /\ below \in [{} -> Checker] /\ over = "no"
           /\ Io!A \in Checker /\ Legal(Io!A)
           /\ v1 \in Nat /\ v2 \in Nat /\ v3 \in Nat /\ v6 \in Nat
BY DeviceChecker, ConstantsAssumption DEF Io!Inv, Io!A, Legal

\* What check() takes, and that it is right about it.
LEMMA DeviceCheck ==
    ASSUME Io!Inv, NEW bytes \in Nat
    PROVE  /\ Io!ReadByCheck(bytes) \in 0..bytes
           /\ Io!CheckSucceeds(bytes) => v1 + Io!ReadByCheck(bytes) >= v6
           /\ ~Io!CheckSucceeds(bytes) /\ v1 < v6 =>
                Io!ReadByCheck(bytes) = bytes /\ v1 + bytes < v6
<1> DEFINE missing == IF v1 < v6 THEN v6 - v1 ELSE 1
           chunks == Chunk * ((missing + Chunk - 1) \div Chunk)
<1>1. missing \in Nat /\ (v1 < v6 => missing = v6 - v1)
  BY DeviceTypes
<1>2. Io!ReadByCheck(bytes) = IF chunks <= bytes THEN chunks ELSE bytes
  BY DEF Io!ReadByCheck, Io!AtMost
<1> HIDE DEF missing
<1>3. chunks \in Nat /\ chunks >= missing
  BY <1>1, ChunksSuffice
<1> HIDE DEF chunks
<1> QED BY <1>1, <1>2, <1>3, DeviceTypes DEF Io!CheckSucceeds

\* The awaiter goes to a.
LEMMA DeviceGoesTo ==
    ASSUME Io!Inv, NEW a \in Checker, above' = [above EXCEPT ![1] = a], UNCHANGED <<below, over>>
    PROVE  /\ above' \in [{1} -> Io!Checker] /\ below' \in [{} -> Io!Checker] /\ over' = "no"
           /\ Io!A' = a
BY DeviceTypes, DeviceChecker DEF Io!A

LEMMA DeviceArrive ==
    ASSUME Liberties = {}, Io!Inv, Io!Arrive
    PROVE  Io!Inv'
<1> DEFINE bytes == v2 + 1
           read == Io!ReadByCheck(bytes)
           wakes == v4 /\ Io!CheckSucceeds(bytes) /\ v9
<1>1. /\ v3 < MaxBytes /\ v3' = v3 + 1 /\ UNCHANGED <<below, over, v4, v5, v6, v7, v8>>
      /\ v4 /\ v9 => Io!A.state = "Running"
      /\ bytes \in Nat
  BY DeviceTypes DEF Io!Arrive, Io!Pending, Io!kind, Io!Inv
<1>2. /\ read \in Nat /\ read <= bytes
      /\ Io!CheckSucceeds(bytes) => v1 + read >= v6
      /\ ~Io!CheckSucceeds(bytes) /\ v1 < v6 => read = bytes /\ v1 + bytes < v6
  BY <1>1, DeviceCheck
<1>3. IF v4 THEN v1' = v1 + read /\ v2' = bytes - read ELSE v1' = v1 /\ v2' = v2 + 1
  BY DEF Io!Arrive, Io!Check
<1>4. IF wakes THEN above' = [above EXCEPT ![1] = Resumed(Io!A)] /\ v9' = FALSE
      ELSE above' = above /\ v9' = v9
  BY DeviceChecker DEF Io!Arrive
<1> HIDE DEF read
<1>5. /\ v1' \in Nat /\ v2' \in Nat /\ v1' + v2' <= v3' /\ v3' <= MaxBytes /\ v3' \in Nat
      /\ v1' >= v1
  BY <1>1, <1>2, <1>3, DeviceTypes, ConstantsAssumption DEF Io!Inv
<1>6. CASE wakes
  <2> DEFINE a == Resumed(Io!A)
  <2>1. a \in Checker /\ a.state = "Ready"
    BY <1>1, <1>6, ResumeMoves, DeviceTypes DEF Goes
  <2> HIDE DEF a
  <2>2. /\ above' \in [{1} -> Io!Checker] /\ below' \in [{} -> Io!Checker] /\ over' = "no"
        /\ Io!A' = a
    BY <1>1, <1>4, <1>6, <2>1, DeviceGoesTo DEF a
  <2>3. v1' >= v6' /\ v9' = FALSE
    BY <1>1, <1>2, <1>3, <1>4, <1>6
  <2> HIDE DEF wakes
  <2> QED BY <1>1, <1>5, <2>1, <2>2, <2>3, <1>6 DEF Io!Inv, wakes
<1>7. CASE ~wakes
  <2>1. /\ above' \in [{1} -> Io!Checker] /\ below' \in [{} -> Io!Checker] /\ over' = "no"
        /\ Io!A' = Io!A
    BY <1>1, <1>4, <1>7, DeviceTypes, DeviceChecker DEF Io!A
  <2>2. Io!A.state \in {"NotReady", "Running"} => v1' < v6'
    <3>1. CASE v4
      BY <1>1, <1>2, <1>3, <1>7, <3>1 DEF Io!Inv
    <3>2. CASE ~v4
      BY <1>1, <1>3, <3>2 DEF Io!Inv
    <3> QED BY <3>1, <3>2
  <2>3. Io!A.state = "Running" => v2' = 0
    <3>1. Io!A.state = "Running" => v4 /\ v9 /\ v1 < v6
      BY DEF Io!Inv
    <3>2. Io!A.state = "Running" => read = bytes /\ v2' = bytes - read
      BY <1>2, <1>3, <1>7, <3>1
    <3> HIDE DEF bytes
    <3> QED BY <1>1, <3>2
  <2>4. Io!A.state \in {"ReadyImmediately", "Ready"} => v9 \/ v1' >= v6'
    <3>1. v1 \in Nat /\ v6 \in Nat /\ v1' \in Nat /\ v6' = v6 /\ v1' >= v1
      BY <1>1, <1>5, DeviceTypes
    <3>2. Io!A.state \in {"ReadyImmediately", "Ready"} => v9 \/ v1 >= v6
      BY DEF Io!Inv
    <3>3. v1 >= v6 => v1' >= v6'
      BY <3>1
    <3> QED BY <3>2, <3>3
  <2>5. v9' = v9
    BY <1>4, <1>7
  <2> HIDE DEF wakes, bytes
  <2> QED BY <1>1, <1>5, <2>1, <2>2, <2>3, <2>4, <2>5 DEF Io!Inv
<1> QED BY <1>6, <1>7

LEMMA DeviceReady ==
    ASSUME Io!Inv, Io!Ready
    PROVE  Io!Inv'
<1> DEFINE enough == v1 >= v6 \/ Io!CheckSucceeds(v2)
           a == ReadyReturned(Io!A, enough)
           read == Io!ReadByCheck(v2)
<1>1. /\ Io!A.state \in BeforeSuspend /\ above' = [above EXCEPT ![1] = a] /\ Legal(a)
      /\ UNCHANGED <<below, over, v3, v4, v5, v6, v7, v8, v9>>
      /\ IF v1 >= v6 THEN v1' = v1 /\ v2' = v2 ELSE v1' = v1 + read /\ v2' = v2 - read
  BY DeviceChecker DEF Io!Ready, Io!Calls, Io!Check, Io!device, Io!kind, Io!awaiter
<1>2. /\ read \in Nat /\ read <= v2
      /\ Io!CheckSucceeds(v2) => v1 + read >= v6
      /\ ~Io!CheckSucceeds(v2) /\ v1 < v6 => read = v2 /\ v1 + v2 < v6
  <2>1. v2 \in Nat
    BY DeviceTypes
  <2>2. read \in 0..v2
    BY <2>1, DeviceCheck
  <2> QED BY <2>1, <2>2, DeviceCheck
<1>3. a \in Checker /\ a.state = IF enough THEN "ReadyImmediately" ELSE "NotReady"
  <2>1. Io!A.state \in {"Initial", "NotReady", "ReadyImmediately"} /\ Io!A \in Checker
    BY <1>1, DeviceTypes DEF Io!Inv, BeforeSuspend
  <2>2. CASE enough
    <3>1. enough = TRUE
      BY <2>2
    <3> HIDE DEF enough
    <3> QED BY <1>1, <2>1, <3>1, ReadyMoves DEF Goes, Legal
  <2>3. CASE ~enough
    <3>1. enough = FALSE
      BY <2>3
    <3> HIDE DEF enough
    <3> QED BY <1>1, <2>1, <3>1, ReadyMoves DEF Goes, Legal
  <2> QED BY <2>2, <2>3
<1> HIDE DEF a, read
<1>4. /\ above' \in [{1} -> Io!Checker] /\ below' \in [{} -> Io!Checker] /\ over' = "no" /\ Io!A' = a
  BY <1>1, <1>3, DeviceGoesTo
<1>5. v1' \in Nat /\ v2' \in Nat /\ v1' + v2' <= v3' /\ v3' <= MaxBytes /\ v3' \in Nat
  BY <1>1, <1>2, DeviceTypes DEF Io!Inv
<1>6. IF enough THEN v1' >= v6' ELSE v1' < v6'
  BY <1>1, <1>2, DeviceTypes
<1>7. ~v4 /\ ~v9
  BY <1>1 DEF Io!Inv, BeforeSuspend
<1> HIDE DEF enough
<1> QED BY <1>1, <1>3, <1>4, <1>5, <1>6, <1>7 DEF Io!Inv

LEMMA DeviceEarlyCancel ==
    ASSUME Liberties = {}, Io!Inv, Io!EarlyCancel
    PROVE  Io!Inv'
<1> DEFINE a == EarlyCancelReturned(Io!A, TRUE)
<1>1. /\ v5 /\ above' = [above EXCEPT ![1] = a] /\ Legal(a) /\ v7' = FALSE
      /\ UNCHANGED <<below, over, v1, v2, v3, v4, v5, v6, v8, v9>>
  BY DeviceChecker DEF Io!EarlyCancel, Io!Calls, Io!device, Io!kind, Io!Inv
<1>2. a \in Checker /\ a.state = "Cancelled" /\ Io!A.state \in {"Initial", "NotReady", "ReadyImmediately"}
  BY <1>1, EarlyCancelMoves, DeviceTypes DEF Goes, Legal
<1> HIDE DEF a
<1>3. /\ above' \in [{1} -> Io!Checker] /\ below' \in [{} -> Io!Checker] /\ over' = "no" /\ Io!A' = a
  BY <1>1, <1>2, DeviceGoesTo
<1> QED BY <1>1, <1>2, <1>3 DEF Io!Inv

LEMMA DeviceSetExecutor ==
    ASSUME Io!Inv, Io!SetExecutor
    PROVE  Io!Inv'
<1> DEFINE a == AboutToSetExecutor(Io!A)
<1>1. /\ above' = [above EXCEPT ![1] = a] /\ Legal(a)
      /\ UNCHANGED <<below, over, v1, v2, v3, v4, v5, v6, v7, v8, v9>>
  BY DeviceChecker DEF Io!SetExecutor, Io!Calls, Io!device, Io!kind, Io!awaiter
<1>2. a \in Checker /\ a.state = Io!A.state
  BY <1>1, SetExecutorMoves, DeviceTypes DEF Legal
<1> HIDE DEF a
<1>3. /\ above' \in [{1} -> Io!Checker] /\ below' \in [{} -> Io!Checker] /\ over' = "no" /\ Io!A' = a
  BY <1>1, <1>2, DeviceGoesTo
<1> QED BY <1>1, <1>2, <1>3 DEF Io!Inv

LEMMA DeviceSuspend ==
    ASSUME Io!Inv, Io!Suspend
    PROVE  Io!Inv'
<1> DEFINE ready == Io!CheckSucceeds(v2)
           s == AboutToSuspend(Io!A)
           a == IF ready THEN Resumed(s) ELSE s
           read == Io!ReadByCheck(v2)
<1>1. /\ Legal(s) /\ v1' = v1 + read /\ v2' = v2 - read /\ v9' = ~ready
      /\ UNCHANGED <<below, over, v3, v5, v6, v7>>
      /\ IF ~ready THEN v4' = TRUE /\ v8' = TRUE ELSE v4' = v4 /\ v8' = v8
  BY DeviceChecker DEF Io!Suspend, Io!Check, Io!StartListen, Io!kind, Io!Inv
<1>2. s \in Checker /\ s.state = "Running" /\ Io!A.state = "NotReady"
  BY <1>1, SuspendMoves, DeviceTypes DEF Goes, Legal, Io!Inv
<1>3. ~v4 /\ ~v8 /\ v1 < v6
  BY <1>2 DEF Io!Inv
<1>4. above' = [above EXCEPT ![1] = a]
  BY <1>3, DeviceChecker DEF Io!Suspend, Io!Calls, Io!Inv
<1> HIDE DEF s
<1>5. a \in Checker /\ a.state = IF ready THEN "Ready" ELSE "Running"
  BY <1>2, ResumeMoves DEF Goes
<1> HIDE DEF a
<1>6. /\ above' \in [{1} -> Io!Checker] /\ below' \in [{} -> Io!Checker] /\ over' = "no" /\ Io!A' = a
  BY <1>1, <1>4, <1>5, DeviceGoesTo
<1>7. /\ read \in Nat /\ read <= v2
      /\ ready => v1 + read >= v6
      /\ ~ready => read = v2 /\ v1 + v2 < v6
  <2>1. v2 \in Nat
    BY DeviceTypes
  <2>2. read \in 0..v2
    BY <2>1, DeviceCheck
  <2> QED BY <1>3, <2>1, <2>2, DeviceCheck
<1> HIDE DEF read, ready
<1>8. /\ v1' \in Nat /\ v2' \in Nat /\ v1' + v2' <= v3' /\ v3' <= MaxBytes /\ v3' \in Nat
      /\ IF ready THEN v1' >= v6' ELSE v1' < v6' /\ v2' = 0
  BY <1>1, <1>3, <1>7, DeviceTypes DEF Io!Inv
<1> QED BY <1>1, <1>3, <1>5, <1>6, <1>8 DEF Io!Inv

LEMMA DeviceCancel ==
    ASSUME Io!Inv, Io!Cancel
    PROVE  Io!Inv'
<1> DEFINE s == AboutToCancel(Io!A)
           a == IF v5 THEN CancelReturned(s, TRUE) ELSE Resumed(s)
<1>1. /\ Legal(s) /\ above' = [above EXCEPT ![1] = a]
      /\ UNCHANGED <<below, over, v1, v2, v3, v5, v6, v7, v9>>
      /\ IF v5 /\ v8 THEN v4' = FALSE /\ v8' = FALSE ELSE v4' = v4 /\ v8' = v8
  BY DeviceChecker DEF Io!Cancel, Io!Calls, Io!StopListening, Io!EndListen, Io!device, Io!kind
<1>2. s \in Checker /\ s.state = "Cancelling" /\ Io!A.state = "Running"
  BY <1>1, CancelMoves, DeviceTypes DEF Goes, Legal
<1>3. v4 /\ v8 /\ v9
  BY <1>2 DEF Io!Inv
<1> HIDE DEF s
<1>4. a \in Checker /\ a.state = IF v5 THEN "Cancelled" ELSE "ReadyAfterCancel"
  BY <1>2, CancelMoves, ResumeMoves DEF Goes
<1> HIDE DEF a
<1>5. /\ above' \in [{1} -> Io!Checker] /\ below' \in [{} -> Io!Checker] /\ over' = "no" /\ Io!A' = a
  BY <1>1, <1>4, DeviceGoesTo
<1> QED BY <1>1, <1>3, <1>4, <1>5 DEF Io!Inv

LEMMA DeviceMustResume ==
    ASSUME Io!Inv, Io!MustResume
    PROVE  Io!Inv'
<1> DEFINE a == MustResumeReturned(Io!A, ~v5)
<1>1. /\ above' = [above EXCEPT ![1] = a] /\ Legal(a)
      /\ UNCHANGED <<below, over, v1, v2, v3, v4, v5, v6, v7, v8, v9>>
  BY DeviceChecker DEF Io!MustResume, Io!Calls, Io!device, Io!kind, Io!awaiter
<1>2. PICK val \in BOOLEAN : val = (~v5) /\ a = MustResumeReturned(Io!A, val)
  OBVIOUS
<1> HIDE DEF a
<1>3. a \in Checker /\ Io!A.state = "ReadyAfterCancel" /\ a.state = IF val THEN "Ready" ELSE "Cancelled"
  <2>1. CASE val = TRUE
    BY <1>1, <1>2, <2>1, MustResumeMoves, DeviceTypes DEF Goes, Legal
  <2>2. CASE val = FALSE
    BY <1>1, <1>2, <2>2, MustResumeMoves, DeviceTypes DEF Goes, Legal
  <2> QED BY <2>1, <2>2
<1>4. v4 /\ v9 /\ a.state = "Ready"
  BY <1>2, <1>3 DEF Io!Inv
<1>5. /\ above' \in [{1} -> Io!Checker] /\ below' \in [{} -> Io!Checker] /\ over' = "no" /\ Io!A' = a
  BY <1>1, <1>3, DeviceGoesTo
<1> QED BY <1>1, <1>3, <1>4, <1>5 DEF Io!Inv

LEMMA DeviceResume ==
    ASSUME Io!Inv, Io!Resume
    PROVE  Io!Inv'
<1> DEFINE a == AboutToResume(Io!A)
<1>1. /\ above' = [above EXCEPT ![1] = a] /\ Legal(a)
      /\ UNCHANGED <<below, over, v2, v3, v5, v6, v7, v9>>
      /\ IF v8 THEN v4' = FALSE /\ v8' = FALSE ELSE v4' = v4 /\ v8' = v8
      /\ v1' = v1 - Io!Taken
  BY DeviceChecker DEF Io!Resume, Io!Calls, Io!EndListen, Io!kind
<1>2. a \in Checker /\ a.state = "Done"
  BY <1>1, ResumeMoves, DeviceTypes DEF Goes, Legal
<1> HIDE DEF a
<1>3. /\ above' \in [{1} -> Io!Checker] /\ below' \in [{} -> Io!Checker] /\ over' = "no" /\ Io!A' = a
  BY <1>1, <1>2, DeviceGoesTo
<1>4. v1' \in Nat /\ v2' \in Nat /\ v1' + v2' <= v3' /\ v3' <= MaxBytes /\ v3' \in Nat
  <2>1. Io!Taken \in Nat /\ Io!Taken <= v1
    BY DeviceTypes DEF Io!Taken, Io!AtMost
  <2>2. v1' \in Nat /\ v1' <= v1
    BY <1>1, <2>1, DeviceTypes
  <2>3. v1 + v2 <= v3 /\ v3 <= MaxBytes
    BY DEF Io!Inv
  <2> QED BY <1>1, <2>2, <2>3, DeviceTypes
<1>5. ~v4' /\ ~v8' /\ v4' \in BOOLEAN /\ v8' \in BOOLEAN
  BY <1>1 DEF Io!Inv
<1> QED BY <1>1, <1>2, <1>3, <1>4, <1>5 DEF Io!Inv

LEMMA DeviceDestroy ==
    ASSUME Io!Inv, Io!Destroy
    PROVE  Io!Inv'
<1> DEFINE a == Reset(Io!A)
<1>1. /\ above' = [above EXCEPT ![1] = a] /\ Legal(a) /\ UNCHANGED <<below, over, v1, v2, v3, v4>>
      /\ v5' \in BOOLEAN /\ v6' \in Needs /\ v7' = FALSE /\ v8' = FALSE /\ v9' = FALSE
  BY DeviceChecker DEF Io!Destroy, Io!Calls, Io!NewAwaiter, Io!device
<1>2. a \in Checker /\ a.state = "Initial" /\ Io!A.state \in {"Cancelled", "Done", "Initial"}
  BY <1>1, ResetMoves, DeviceTypes DEF Legal
<1> HIDE DEF a
<1>3. /\ above' \in [{1} -> Io!Checker] /\ below' \in [{} -> Io!Checker] /\ over' = "no" /\ Io!A' = a
  BY <1>1, <1>2, DeviceGoesTo
<1>4. v4' = FALSE
  BY <1>1, <1>2 DEF Io!Inv
<1> QED BY <1>1, <1>2, <1>3, <1>4 DEF Io!Inv

LEMMA DeviceInit ==
    ASSUME Io!Init
    PROVE  Io!Inv
<1>1. /\ above = [p \in {1} |-> Fresh] /\ below = [c \in {} |-> Fresh] /\ over = "no"
      /\ v1 = 0 /\ v2 = 0 /\ v3 = 0 /\ v4 = FALSE /\ v5 \in BOOLEAN /\ v6 \in Needs
      /\ v7 = FALSE /\ v8 = FALSE /\ v9 = FALSE
  BY DeviceChecker DEF Io!Init, Io!ProtocolInit
<1>2. Fresh \in Checker /\ Fresh.state = "Initial"
  BY DEF Fresh, Checker, CheckerState
<1>3. above \in [{1} -> Io!Checker] /\ below \in [{} -> Io!Checker] /\ Io!A = Fresh
  BY <1>1, <1>2, DeviceChecker DEF Io!A
<1>4. v1 \in Nat /\ v2 \in Nat /\ v3 \in Nat /\ v1 + v2 <= v3 /\ v3 <= MaxBytes
  <2>1. MaxBytes \in Nat
    BY ConstantsAssumption
  <2> QED BY <1>1, <2>1
<1>5. /\ v5 \in BOOLEAN /\ v6 \in Needs /\ v4 \in BOOLEAN /\ v8 \in BOOLEAN /\ v9 \in BOOLEAN
      /\ v7 = FALSE /\ ~v4 /\ ~v8 /\ ~v9
  BY <1>1
<1> QED BY <1>1, <1>2, <1>3, <1>4, <1>5 DEF Io!Inv

LEMMA DeviceInvariant == ASSUME Liberties = {} PROVE Spec => [](class = "device" => Io!Inv)
<1>1. Init => (class = "device" => Io!Inv)
  BY DeviceInit DEF Init
<1>2. (class = "device" => Io!Inv) /\ [Next]_vars => (class = "device" => Io!Inv)'
  <2>1. ASSUME class = "device", Io!Inv, Next PROVE Io!Inv'
    BY <2>1, DeviceArrive, DeviceReady, DeviceEarlyCancel, DeviceSetExecutor, DeviceSuspend,
       DeviceCancel, DeviceMustResume, DeviceResume, DeviceDestroy DEF Next, Io!Next
  <2>2. ASSUME class = "device", Io!Inv, UNCHANGED vars PROVE Io!Inv'
    BY <2>2 DEF vars, shared, Io!Inv, Io!A
  <2>3. [Next]_vars => class' = class
    BY DEF Next, vars, two, three, five, seven
  <2> QED BY <2>1, <2>2, <2>3
<1> QED BY <1>1, <1>2, PTL DEF Spec

\* Whoever reads is heard.
LEMMA DeviceHears == Io!Inv => Io!ReaderHeard /\ Io!TypeOK /\ Io!ProtocolKept
<1> SUFFICES ASSUME Io!Inv PROVE Io!ReaderHeard /\ Io!TypeOK /\ Io!ProtocolKept
  OBVIOUS
<1>1. Io!ReaderHeard
  BY DEF Io!Inv, Io!ReaderHeard, Io!Pending
<1>2. Io!TypeOK
  <2>1. MaxBytes \in Nat /\ v1 + v2 <= v3 /\ v3 <= MaxBytes
    BY ConstantsAssumption DEF Io!Inv
  <2>2. v1 \in 0..MaxBytes /\ v2 \in 0..MaxBytes /\ v3 \in 0..MaxBytes
    BY <2>1, DeviceTypes
  <2>3. v7 \in BOOLEAN /\ over \in {"no", "destroyed", "terminated", "dangling"}
    BY DEF Io!Inv
  <2>4. above \in [DOMAIN above -> Io!Checker] /\ below \in [DOMAIN below -> Io!Checker]
    BY DEF Io!Inv
  <2> QED BY <2>2, <2>3, <2>4 DEF Io!Inv, Io!TypeOK, Io!ProtocolTypeOK
<1>3. Io!ProtocolKept
  BY DeviceTypes, DeviceChecker DEF Io!ProtocolKept, Io!A
<1> QED BY <1>1, <1>2, <1>3

----------------------------------------------------------------------------
(* A task that awaits.                                                     *)

\* The checker in Task is this one.
LEMMA TaskChecker ==
    /\ Ta!Checker = Checker /\ Ta!Fresh = Fresh /\ Ta!BeforeSuspend = BeforeSuspend
    /\ \A c : /\ Ta!Legal(c) <=> Legal(c)
              /\ Ta!Pending(c) <=> Pending(c)
    /\ \A c : /\ Ta!AboutToSetExecutor(c) = AboutToSetExecutor(c)
              /\ Ta!AboutToSuspend(c) = AboutToSuspend(c)
              /\ Ta!SuspendThrew(c) = SuspendThrew(c)
              /\ Ta!AboutToCancel(c) = AboutToCancel(c)
              /\ Ta!AboutToResume(c) = AboutToResume(c)
              /\ Ta!Resumed(c) = Resumed(c)
              /\ Ta!Reset(c) = Reset(c)
    /\ \A c, val : /\ Ta!ReadyReturned(c, val) = ReadyReturned(c, val)
                   /\ Ta!EarlyCancelReturned(c, val) = EarlyCancelReturned(c, val)
                   /\ Ta!CancelReturned(c, val) = CancelReturned(c, val)
                   /\ Ta!MustResumeReturned(c, val) = MustResumeReturned(c, val)
    /\ \A c, moves : Ta!Step(c, moves) = Step(c, moves)
<1>1. \A c, moves : Ta!Step(c, moves) = Step(c, moves)
  BY DEF Ta!Step, Step
<1>2. Ta!CheckerState = CheckerState /\ Ta!BeforeSuspend = BeforeSuspend /\ Ta!Fresh = Fresh
  BY DEF Ta!CheckerState, CheckerState, Ta!BeforeSuspend, BeforeSuspend, Ta!Fresh, Fresh
<1>3. \A c : /\ Ta!AboutToSetExecutor(c) = AboutToSetExecutor(c)
             /\ Ta!AboutToSuspend(c) = AboutToSuspend(c)
             /\ Ta!SuspendThrew(c) = SuspendThrew(c)
             /\ Ta!AboutToCancel(c) = AboutToCancel(c)
             /\ Ta!AboutToResume(c) = AboutToResume(c)
             /\ Ta!Resumed(c) = Resumed(c)
             /\ Ta!Reset(c) = Reset(c)
  BY <1>1, <1>2 DEF Ta!AboutToSetExecutor, AboutToSetExecutor, Ta!AboutToSuspend, AboutToSuspend,
     Ta!SuspendThrew, SuspendThrew, Ta!AboutToCancel, AboutToCancel, Ta!AboutToResume,
     AboutToResume, Ta!Resumed, Resumed, Ta!Reset, Reset
<1>4. \A c, val : /\ Ta!ReadyReturned(c, val) = ReadyReturned(c, val)
                  /\ Ta!EarlyCancelReturned(c, val) = EarlyCancelReturned(c, val)
                  /\ Ta!CancelReturned(c, val) = CancelReturned(c, val)
                  /\ Ta!MustResumeReturned(c, val) = MustResumeReturned(c, val)
  BY <1>1 DEF Ta!ReadyReturned, ReadyReturned, Ta!EarlyCancelReturned, EarlyCancelReturned,
     Ta!CancelReturned, CancelReturned, Ta!MustResumeReturned, MustResumeReturned
<1> QED BY <1>1, <1>2, <1>3, <1>4 DEF Ta!Checker, Checker, Ta!Legal, Legal, Ta!Pending, Pending

TaskStates == {"Ready", "Running", "Stub", "suspended", "finished"}

LEMMA TaskTypes ==
    ASSUME Ta!Inv
    PROVE  /\ above \in [{1} -> Checker] /\ below \in [{1} -> Checker]
           /\ Ta!A \in Checker /\ Ta!B \in Checker
           /\ above = [above EXCEPT ![1] = Ta!A] /\ below = [below EXCEPT ![1] = Ta!B]
           /\ v1 \in TaskStates /\ v2 \in {"None", "Requested"}
           /\ v3 \in {"doResume", "doResumeAfterCancel", "doNothing"} /\ v4 \in BOOLEAN
           /\ v5 \in {"incomplete", "value", "exception", "cancelled"}
           /\ v6 \in 0..MaxAwaits /\ v7 \in BOOLEAN
<1>1. above \in [{1} -> Checker] /\ below \in [{1} -> Checker]
  BY TaskChecker DEF Ta!Inv
<1>2. /\ Ta!A \in Checker /\ Ta!B \in Checker
      /\ above = [above EXCEPT ![1] = Ta!A] /\ below = [below EXCEPT ![1] = Ta!B]
  BY <1>1 DEF Ta!A, Ta!B
<1> QED BY <1>1, <1>2 DEF Ta!Inv, TaskStates

\* The two of them go to a and b.
LEMMA TaskGoesTo ==
    ASSUME Ta!Inv, NEW a \in Checker, NEW b \in Checker,
           above' = [above EXCEPT ![1] = a], below' = [below EXCEPT ![1] = b]
    PROVE  /\ above' \in [{1} -> Ta!Checker] /\ below' \in [{1} -> Ta!Checker]
           /\ Ta!A' = a /\ Ta!B' = b
BY TaskChecker, TaskTypes DEF Ta!A, Ta!B

\* It is there, and goes on in one of the four ways.
LEMMA TaskGoesOn ==
    ASSUME above' \in [{1} -> Ta!Checker], below' \in [{1} -> Ta!Checker],
           v1' \in TaskStates, v2' \in {"None", "Requested"},
           v3' \in {"doResume", "doResumeAfterCancel", "doNothing"}, v4' \in BOOLEAN,
           v5' \in {"incomplete", "value", "exception", "cancelled"},
           v6' \in 0..MaxAwaits, v7' \in BOOLEAN, over' = "no",
           Ta!Begins' \/ Ta!Works' \/ Ta!Waits' \/ Ta!Finished',
           calls' \in Seq([fn : Ta!Callees', to : Nat])
    PROVE  Ta!Inv'
BY DEF Ta!Inv, TaskStates

\* What is called stays so, when those who cancel the task may have come.
LEMMA TaskCalls ==
    ASSUME Ta!Inv, over = "no", Ta!Callees \subseteq Ta!Callees'
    PROVE  /\ calls \in Seq([fn : Ta!Callees', to : Nat])
           /\ calls # <<>> => Tail(calls) \in Seq([fn : Ta!Callees', to : Nat])
           /\ \A fn \in Ta!Callees' : \A n \in Nat :
                <<[fn |-> fn, to |-> n]>> \o calls \in Seq([fn : Ta!Callees', to : Nat])
<1> DEFINE S == [fn : Ta!Callees, to : Nat]
           T == [fn : Ta!Callees', to : Nat]
<1>1. calls \in Seq(S) /\ S \subseteq T
  BY DEF Ta!Inv
<1> HIDE DEF S, T
<1>2. calls \in Seq(T)
  BY <1>1
<1>3. calls # <<>> => Tail(calls) \in Seq(T)
  BY <1>2
<1>4. \A fn \in Ta!Callees' : \A n \in Nat : <<[fn |-> fn, to |-> n]>> \in Seq(T)
  BY DEF T
<1>5. \A fn \in Ta!Callees' : \A n \in Nat : <<[fn |-> fn, to |-> n]>> \o calls \in Seq(T)
  BY <1>2, <1>4, ConcatProperties
<1> QED BY <1>2, <1>3, <1>5 DEF T

\* It was there, and where.
LEMMA TaskAlive ==
    ASSUME Ta!Inv, over = "no"
    PROVE  Ta!Begins \/ Ta!Works \/ Ta!Waits \/ Ta!Finished
BY DEF Ta!Inv

\* Those who can cancel it do not go.
LEMMA TaskCallees ==
    ASSUME Ta!Inv, NEW a, Ta!A' = a,
           a.state \in BeforeSuspend \cup {"Running"} => Ta!A.state \in BeforeSuspend \cup {"Running"}
    PROVE  Ta!Callees \subseteq Ta!Callees'
BY TaskChecker DEF Ta!Callees

LEMMA TaskReady ==
    ASSUME Ta!Inv, Ta!Ready
    PROVE  Ta!Inv'
<1> DEFINE a == ReadyReturned(Ta!A, v1 = "Stub")
<1>1. /\ over = "no" /\ Ta!A.state \in BeforeSuspend /\ above' = [above EXCEPT ![1] = a] /\ Legal(a)
      /\ v5' = (IF v1 = "Stub" THEN "value" ELSE v5)
      /\ UNCHANGED <<below, calls, over, v1, v2, v3, v4, v6, v7>>
  BY TaskChecker DEF Ta!Ready, Ta!Calls, Ta!IsStub, Ta!bodyVars
<1>2. /\ a \in Checker
      /\ IF v1 = "Stub"
         THEN \/ Ta!A.state \in {"Initial", "ReadyImmediately"} /\ a.state = "ReadyImmediately"
              \/ Ta!A.state = "InitialCxlPend" /\ a.state = "ReadyAfterCancel"
              \/ Ta!A.state \in {"NotReady", "CancelPending"}
         ELSE \/ Ta!A.state \in {"Initial", "NotReady"} /\ a.state = "NotReady"
              \/ Ta!A.state \in {"InitialCxlPend", "CancelPending"} /\ a.state = "CancelPending"
  <2>1. Ta!A \in Checker /\ Ta!A.state \in {"Initial", "NotReady", "InitialCxlPend", "CancelPending", "ReadyImmediately"}
    BY <1>1, TaskTypes DEF BeforeSuspend
  <2>2. CASE v1 = "Stub"
    <3>1. (v1 = "Stub") = TRUE
      BY <2>2
    <3> QED BY <1>1, <2>1, <2>2, <3>1, ReadyMoves DEF Goes, Legal
  <2>3. CASE v1 # "Stub"
    <3>1. (v1 = "Stub") = FALSE
      BY <2>3
    <3> QED BY <1>1, <2>1, <2>3, <3>1, ReadyMoves DEF Goes, Legal
  <2> QED BY <2>2, <2>3
<1> HIDE DEF a
<1>3. /\ above' \in [{1} -> Ta!Checker] /\ below' \in [{1} -> Ta!Checker]
      /\ Ta!A' = a /\ Ta!B' = Ta!B
  BY <1>1, <1>2, TaskGoesTo, TaskTypes
<1>4. Ta!Begins
  BY <1>1, TaskAlive, TaskChecker DEF Ta!Works, Ta!Waits, Ta!Finished, BeforeSuspend, Pending
<1>5. Ta!Begins'
  BY <1>1, <1>2, <1>3, <1>4 DEF Ta!Begins
<1>6. Ta!Callees \subseteq Ta!Callees'
  BY <1>1, <1>3, TaskCallees
<1> QED BY <1>1, <1>3, <1>5, <1>6, TaskCalls, TaskTypes, TaskGoesOn

LEMMA TaskSetExecutor ==
    ASSUME Ta!Inv, Ta!SetExecutor
    PROVE  Ta!Inv'
<1> DEFINE a == AboutToSetExecutor(Ta!A)
<1>1. /\ over = "no" /\ above' = [above EXCEPT ![1] = a] /\ Legal(a)
      /\ UNCHANGED <<below, calls, over, v1, v2, v3, v4, v5, v6, v7>>
  BY TaskChecker DEF Ta!SetExecutor, Ta!Calls, Ta!promiseVars, Ta!bodyVars
<1>2. a \in Checker /\ a.state = Ta!A.state /\ Ta!A.state \in BeforeSuspend
  BY <1>1, SetExecutorMoves, TaskTypes DEF Legal
<1> HIDE DEF a
<1>3. /\ above' \in [{1} -> Ta!Checker] /\ below' \in [{1} -> Ta!Checker]
      /\ Ta!A' = a /\ Ta!B' = Ta!B
  BY <1>1, <1>2, TaskGoesTo, TaskTypes
<1>4. Ta!Begins
  BY <1>1, <1>2, TaskAlive, TaskChecker DEF Ta!Works, Ta!Waits, Ta!Finished, BeforeSuspend, Pending
<1>5. Ta!Begins'
  BY <1>1, <1>2, <1>3, <1>4 DEF Ta!Begins
<1>6. Ta!Callees \subseteq Ta!Callees'
  BY <1>2, <1>3, TaskCallees
<1> QED BY <1>1, <1>3, <1>5, <1>6, TaskCalls, TaskTypes, TaskGoesOn

LEMMA TaskEarlyCancel ==
    ASSUME Ta!Inv, Ta!EarlyCancel
    PROVE  Ta!Inv'
<1> DEFINE a == EarlyCancelReturned(Ta!A, FALSE)
<1>1. /\ over = "no" /\ above' = [above EXCEPT ![1] = a] /\ Legal(a) /\ v2' = "Requested"
      /\ UNCHANGED <<below, calls, over, v1, v3, v4, v5, v6, v7>>
  BY TaskChecker DEF Ta!EarlyCancel, Ta!Calls, Ta!bodyVars
<1>2. /\ a \in Checker
      /\ \/ Ta!A.state = "Initial" /\ a.state = "InitialCxlPend"
         \/ Ta!A.state = "NotReady" /\ a.state = "CancelPending"
         \/ Ta!A.state = "ReadyImmediately" /\ a.state = "ReadyAfterCancel"
  BY <1>1, EarlyCancelMoves, TaskTypes DEF Goes, Legal
<1> HIDE DEF a
<1>3. /\ above' \in [{1} -> Ta!Checker] /\ below' \in [{1} -> Ta!Checker]
      /\ Ta!A' = a /\ Ta!B' = Ta!B
  BY <1>1, <1>2, TaskGoesTo, TaskTypes
<1>4. Ta!Begins
  BY <1>1, <1>2, TaskAlive, TaskChecker DEF Ta!Works, Ta!Waits, Ta!Finished, Pending
<1>5. Ta!Begins'
  BY <1>1, <1>2, <1>3, <1>4 DEF Ta!Begins
<1>6. Ta!Callees \subseteq Ta!Callees'
  BY <1>2, <1>3, TaskCallees DEF BeforeSuspend
<1> QED BY <1>1, <1>3, <1>5, <1>6, TaskCalls, TaskTypes, TaskGoesOn

\* await_suspend() of a stub, which has its result by then,
LEMMA TaskSuspendStub ==
    ASSUME Ta!Inv, Ta!Suspend, v1 = "Stub"
    PROVE  Ta!Inv'
<1> DEFINE r == ReadyReturned(Ta!A, FALSE)
           s == AboutToSuspend(r)
           a == Resumed(s)
<1>1. /\ over = "no" /\ v5 = "incomplete" /\ Legal(s) /\ above' = [above EXCEPT ![1] = a]
      /\ v5' = "value" /\ v4' = FALSE /\ v1' = "finished"
      /\ UNCHANGED <<below, calls, over, v2, v3, v6, v7>>
  BY TaskChecker DEF Ta!Suspend, Ta!IsStub, Ta!Finish, Ta!bodyVars
<1>2. Ta!B.state = "Initial" /\ Ta!A.state \in {"Initial", "InitialCxlPend"} /\ Ta!A \in Checker
  BY <1>1, TaskAlive, TaskTypes DEF Ta!Begins, Ta!Works, Ta!Waits, Ta!Finished
<1>3. r \in Checker /\ r.state \in {"NotReady", "CancelPending"}
  BY <1>2, ReadyMoves DEF Goes
<1> HIDE DEF r
<1>4. s \in Checker /\ s.state \in {"Running", "Cancelling"}
  BY <1>1, <1>3, SuspendMoves DEF Goes, Legal
<1> HIDE DEF s
<1>5. a \in Checker /\ a.state \in {"Ready", "ReadyAfterCancel"}
  BY <1>4, ResumeMoves DEF Goes
<1> HIDE DEF a
<1>6. /\ above' \in [{1} -> Ta!Checker] /\ below' \in [{1} -> Ta!Checker]
      /\ Ta!A' = a /\ Ta!B' = Ta!B
  BY <1>1, <1>5, TaskGoesTo, TaskTypes
<1>7. Ta!Finished'
  BY <1>1, <1>2, <1>5, <1>6 DEF Ta!Finished
<1>8. Ta!Callees \subseteq Ta!Callees'
  BY <1>5, <1>6, TaskCallees DEF BeforeSuspend
<1>9. v1' \in TaskStates
  BY <1>1 DEF TaskStates
<1> QED BY <1>1, <1>6, <1>7, <1>8, <1>9, TaskCalls, TaskTypes, TaskGoesOn

\* and of a coroutine, which is scheduled.
LEMMA TaskSuspend ==
    ASSUME Ta!Inv, Ta!Suspend, v1 # "Stub"
    PROVE  Ta!Inv'
<1> DEFINE a == AboutToSuspend(Ta!A)
<1>1. /\ over = "no" /\ above' = [above EXCEPT ![1] = a] /\ Legal(a) /\ v3' = "doNothing"
      /\ UNCHANGED <<below, calls, over, v1, v2, v4, v5, v6, v7>>
  BY TaskChecker DEF Ta!Suspend, Ta!Calls, Ta!IsStub, Ta!bodyVars
<1>2. /\ a \in Checker
      /\ \/ Ta!A.state = "NotReady" /\ a.state = "Running"
         \/ Ta!A.state = "CancelPending" /\ a.state = "Cancelling"
  BY <1>1, SuspendMoves, TaskTypes DEF Goes, Legal
<1> HIDE DEF a
<1>3. /\ above' \in [{1} -> Ta!Checker] /\ below' \in [{1} -> Ta!Checker]
      /\ Ta!A' = a /\ Ta!B' = Ta!B
  BY <1>1, <1>2, TaskGoesTo, TaskTypes
<1>4. Ta!Begins
  BY <1>1, <1>2, TaskAlive, TaskChecker DEF Ta!Works, Ta!Waits, Ta!Finished, Pending
<1>5. Ta!Works'
  BY <1>1, <1>2, <1>3, <1>4, TaskChecker DEF Ta!Begins, Ta!Works, Pending
<1>6. Ta!Callees \subseteq Ta!Callees'
  BY <1>2, <1>3, TaskCallees DEF BeforeSuspend
<1> QED BY <1>1, <1>3, <1>5, <1>6, TaskCalls, TaskTypes, TaskGoesOn

LEMMA TaskCancel ==
    ASSUME Ta!Inv, Ta!Cancel
    PROVE  Ta!Inv'
<1> DEFINE a == AboutToCancel(Ta!A)
<1>1. /\ over = "no" /\ above' = [above EXCEPT ![1] = a] /\ Legal(a)
      /\ UNCHANGED <<over, v1, v4, v5, v6, v7>>
  BY TaskChecker DEF Ta!Cancel, Ta!Calls, Ta!bodyVars
<1>2. a \in Checker /\ a.state = "Cancelling" /\ Ta!A.state = "Running"
  BY <1>1, CancelMoves, TaskTypes DEF Goes, Legal
<1> HIDE DEF a
<1>3. CASE v4 /\ v1 = "suspended"
  <2> DEFINE b == AboutToCancel(Ta!B)
  <2>1. /\ v3' = "doResumeAfterCancel" /\ below' = [below EXCEPT ![1] = b]
        /\ calls' = <<[fn |-> "await_cancel", to |-> v6]>> \o calls /\ v2' = v2
    BY <1>3, TaskChecker DEF Ta!Cancel, Ta!HasAwaitee, Ta!Below, Ta!Calling
  <2>2. Ta!Waits /\ Ta!B.state = "Running"
    BY <1>1, <1>2, <1>3, TaskAlive DEF Ta!Begins, Ta!Works, Ta!Waits, Ta!Finished
  <2>3. b \in Checker /\ b.state = "Cancelling"
    BY <2>2, CancelMoves, TaskTypes DEF Goes
  <2> HIDE DEF b
  <2>4. /\ above' \in [{1} -> Ta!Checker] /\ below' \in [{1} -> Ta!Checker]
        /\ Ta!A' = a /\ Ta!B' = b
    BY <1>1, <1>2, <2>1, <2>3, TaskGoesTo
  <2>5. Ta!Waits'
    BY <1>1, <1>2, <2>1, <2>2, <2>3, <2>4 DEF Ta!Waits
  <2>6. Ta!Callees \subseteq Ta!Callees' /\ "await_cancel" \in Ta!Callees'
    BY <1>2, <2>4, TaskCallees, TaskChecker DEF BeforeSuspend, Ta!Callees
  <2>7. calls' \in Seq([fn : Ta!Callees', to : Nat])
    BY <1>1, <2>1, <2>6, TaskCalls, TaskTypes, ConstantsAssumption
  <2>8. v1' \in TaskStates /\ v2' \in {"None", "Requested"} /\ v4' \in BOOLEAN /\ v6' \in 0..MaxAwaits
    BY <1>1, <2>1, TaskTypes
  <2> QED BY <1>1, <2>1, <2>4, <2>5, <2>7, <2>8, TaskTypes, TaskGoesOn
<1>4. CASE v4 /\ v1 # "suspended"
  <2>1. v2' = "Requested" /\ UNCHANGED <<below, calls, v3>>
    BY <1>4, TaskChecker DEF Ta!Cancel, Ta!HasAwaitee
  <2>2. Ta!Works
    BY <1>1, <1>2, <1>4, TaskAlive DEF Ta!Begins, Ta!Waits, Ta!Finished
  <2>3. /\ above' \in [{1} -> Ta!Checker] /\ below' \in [{1} -> Ta!Checker]
        /\ Ta!A' = a /\ Ta!B' = Ta!B
    BY <1>1, <1>2, <2>1, TaskGoesTo, TaskTypes
  <2>4. Ta!Works'
    BY <1>1, <1>2, <2>1, <2>2, <2>3, TaskChecker DEF Ta!Works, Pending
  <2>5. Ta!Callees \subseteq Ta!Callees'
    BY <1>2, <2>3, TaskCallees DEF BeforeSuspend
  <2> QED BY <1>1, <2>1, <2>3, <2>4, <2>5, TaskCalls, TaskTypes, TaskGoesOn
<1>5. v4
  BY <1>1, <1>2, TaskAlive DEF Ta!Begins, Ta!Works, Ta!Waits, Ta!Finished
<1> QED BY <1>3, <1>4, <1>5

LEMMA TaskMustResume ==
    ASSUME Ta!Inv, Ta!MustResume
    PROVE  Ta!Inv'
<1> DEFINE a == MustResumeReturned(Ta!A, v5 # "cancelled")
<1>1. /\ over = "no" /\ above' = [above EXCEPT ![1] = a] /\ Legal(a)
      /\ UNCHANGED <<below, calls, over, v1, v2, v3, v4, v5, v6, v7>>
  BY TaskChecker DEF Ta!MustResume, Ta!Calls, Ta!promiseVars, Ta!bodyVars
<1>2. /\ a \in Checker /\ Ta!A.state = "ReadyAfterCancel"
      /\ a.state = IF v5 # "cancelled" THEN "Ready" ELSE "Cancelled"
  <2>1. CASE (v5 # "cancelled") = TRUE
    BY <1>1, <2>1, MustResumeMoves, TaskTypes DEF Goes, Legal
  <2>2. CASE (v5 # "cancelled") = FALSE
    BY <1>1, <2>2, MustResumeMoves, TaskTypes DEF Goes, Legal
  <2> QED BY <2>1, <2>2
<1> HIDE DEF a
<1>3. /\ above' \in [{1} -> Ta!Checker] /\ below' \in [{1} -> Ta!Checker]
      /\ Ta!A' = a /\ Ta!B' = Ta!B
  BY <1>1, <1>2, TaskGoesTo, TaskTypes
<1>4. Ta!Begins \/ Ta!Finished
  BY <1>1, <1>2, TaskAlive, TaskChecker DEF Ta!Works, Ta!Waits, Pending
<1>5. Ta!Begins' \/ Ta!Finished'
  BY <1>1, <1>2, <1>3, <1>4 DEF Ta!Begins, Ta!Finished
<1>6. Ta!Callees \subseteq Ta!Callees'
  BY <1>2, <1>3, TaskCallees DEF BeforeSuspend
<1> QED BY <1>1, <1>3, <1>5, <1>6, TaskCalls, TaskTypes, TaskGoesOn

LEMMA TaskResume ==
    ASSUME Ta!Inv, Ta!Resume
    PROVE  Ta!Inv'
<1> DEFINE a == AboutToResume(Ta!A)
<1>1. /\ over = "no" /\ UNCHANGED <<below, calls, over, v1, v2, v3, v4, v5, v6, v7>>
      /\ v5 \in {"value", "exception"} => above' = [above EXCEPT ![1] = a] /\ Legal(a)
  BY TaskChecker DEF Ta!Resume, Ta!Calls, Ta!promiseVars, Ta!bodyVars
<1>2. v5 \in {"value", "exception"}
  <2> SUFFICES ASSUME v5 \notin {"value", "exception"} PROVE FALSE
    OBVIOUS
  <2> DEFINE c == Step(Ta!A, <<>>)
  <2>1. Legal(AboutToResume(c))
    BY TaskChecker DEF Ta!Resume, Ta!Calls
  <2>2. c \in Checker /\ c.state = "Broken"
    BY StepMoves, TaskTypes DEF Checker, CheckerState
  <2> HIDE DEF c
  <2> QED BY <2>1, <2>2, ResumeMoves DEF Goes, Legal
<1>3. a \in Checker /\ a.state = "Done" /\ Ta!A.state \in {"ReadyImmediately", "Ready"}
  BY <1>1, <1>2, ResumeMoves, TaskTypes DEF Goes, Legal
<1>4. above' = [above EXCEPT ![1] = a]
  BY <1>1, <1>2
<1> HIDE DEF a
<1>5. /\ above' \in [{1} -> Ta!Checker] /\ below' \in [{1} -> Ta!Checker]
      /\ Ta!A' = a /\ Ta!B' = Ta!B
  BY <1>1, <1>3, <1>4, TaskGoesTo, TaskTypes
<1>6. Ta!Begins \/ Ta!Finished
  BY <1>1, <1>3, TaskAlive, TaskChecker DEF Ta!Works, Ta!Waits, Pending
<1>7. Ta!Begins' \/ Ta!Finished'
  BY <1>1, <1>2, <1>3, <1>5, <1>6 DEF Ta!Begins, Ta!Finished
<1>8. Ta!Callees \subseteq Ta!Callees'
  BY <1>3, <1>5, TaskCallees DEF BeforeSuspend
<1> QED BY <1>1, <1>5, <1>7, <1>8, TaskCalls, TaskTypes, TaskGoesOn

LEMMA TaskDestroy ==
    ASSUME Ta!Inv, Ta!Destroy
    PROVE  Ta!Inv'
<1> DEFINE a == Reset(Ta!A)
           b == Reset(Ta!B)
<1>1. /\ over = "no" /\ above' = [above EXCEPT ![1] = a] /\ Legal(a) /\ over' = "destroyed"
      /\ below' = [below EXCEPT ![1] = b] /\ UNCHANGED <<calls, v1, v2, v3, v4, v5, v6, v7>>
  BY TaskChecker DEF Ta!Destroy, Ta!Calls, Ta!Below, Ta!promiseVars, Ta!bodyVars
<1>2. a \in Checker /\ a.state = "Initial" /\ Ta!A.state \in {"Cancelled", "Done", "Initial"}
  BY <1>1, ResetMoves, TaskTypes DEF Legal
<1>3. Ta!B.state \in {"Cancelled", "Done", "Initial"}
  BY <1>1, <1>2, TaskAlive, TaskChecker DEF Ta!Begins, Ta!Works, Ta!Waits, Ta!Finished, Pending
<1>4. b \in Checker /\ b.state = "Initial"
  BY <1>3, ResetMoves, TaskTypes
<1> HIDE DEF a, b
<1>5. /\ above' \in [{1} -> Ta!Checker] /\ below' \in [{1} -> Ta!Checker]
      /\ Ta!A' = a /\ Ta!B' = b
  BY <1>1, <1>2, <1>4, TaskGoesTo
<1> QED BY <1>1, <1>2, <1>4, <1>5, TaskTypes DEF Ta!Inv, TaskStates

LEMMA TaskRun ==
    ASSUME Ta!Inv, Ta!Run
    PROVE  Ta!Inv'
<1>1. /\ over = "no" /\ v1 = "Ready" /\ Pending(Ta!A) /\ v1' = "Running"
      /\ UNCHANGED <<above, below, calls, over, v2, v3, v4, v5, v6, v7>>
  BY TaskChecker DEF Ta!Run, Ta!shared, Ta!bodyVars
<1>2. /\ above' \in [{1} -> Ta!Checker] /\ below' \in [{1} -> Ta!Checker]
      /\ Ta!A' = Ta!A /\ Ta!B' = Ta!B
  BY <1>1, TaskGoesTo, TaskTypes
<1>3. Ta!Works
  BY <1>1, TaskAlive DEF Ta!Begins, Ta!Waits, Ta!Finished, Pending
<1>4. Ta!Works'
  BY <1>1, <1>2, <1>3 DEF Ta!Works, Ta!Pending
<1>5. Ta!Callees \subseteq Ta!Callees'
  BY <1>2, TaskCallees
<1>6. v1' \in TaskStates
  BY <1>1 DEF TaskStates
<1> QED BY <1>1, <1>2, <1>4, <1>5, <1>6, TaskCalls, TaskTypes, TaskGoesOn

\* A body that is about to await something.
LEMMA TaskBody ==
    ASSUME Ta!Inv, Ta!CoAwait
    PROVE  /\ over = "no" /\ over' = over /\ v1 = "Running" /\ Ta!Works /\ v6' \in 0..MaxAwaits
           /\ v6' \in Nat
           /\ Reset(Ta!B) \in Checker /\ Reset(Ta!B).state = "Initial"
<1>1. over = "no" /\ over' = over /\ v1 = "Running" /\ v6 > 0 /\ Ta!B.state # "Ready" /\ v6' = v6 - 1
  BY DEF Ta!CoAwait
<1>2. Ta!Works
  BY <1>1, TaskAlive DEF Ta!Begins, Ta!Waits, Ta!Finished
<1>3. Reset(Ta!B) \in Checker /\ Reset(Ta!B).state = "Initial"
  BY <1>1, <1>2, ResetMoves, TaskTypes DEF Ta!Works
<1>4. v6' \in 0..MaxAwaits /\ v6' \in Nat
  <2>1. v6 \in 0..MaxAwaits /\ MaxAwaits \in Nat
    BY TaskTypes, ConstantsAssumption
  <2> QED BY <1>1, <2>1
<1> QED BY <1>1, <1>2, <1>3, <1>4

LEMMA TaskAwaitReady ==
    ASSUME Ta!Inv, Ta!CoAwait, Ta!AwaitReady
    PROVE  Ta!Inv'
<1> DEFINE r == Reset(Ta!B)
           c == ReadyReturned(r, TRUE)
           b == AboutToResume(c)
<1>1. /\ below' = [below EXCEPT ![1] = b]
      /\ UNCHANGED <<above, calls, v1, v2, v3, v4, v5, v7>>
  BY TaskChecker DEF Ta!AwaitReady, Ta!Below, Ta!promiseVars
<1>2. c \in Checker /\ c.state = "ReadyImmediately"
  BY TaskBody, ReadyMoves DEF Goes
<1> HIDE DEF c
<1>3. b \in Checker /\ b.state = "Done"
  BY <1>2, ResumeMoves DEF Goes
<1> HIDE DEF b
<1>4. /\ above' \in [{1} -> Ta!Checker] /\ below' \in [{1} -> Ta!Checker]
      /\ Ta!A' = Ta!A /\ Ta!B' = b
  BY <1>1, <1>3, TaskGoesTo, TaskTypes
<1>5. Ta!Works'
  BY <1>1, <1>3, <1>4, TaskBody DEF Ta!Works, Ta!Pending
<1>6. Ta!Callees \subseteq Ta!Callees'
  BY <1>4, TaskCallees
<1> QED BY <1>1, <1>4, <1>5, <1>6, TaskBody, TaskCalls, TaskTypes, TaskGoesOn

\* Child 1 is suspended, its checker being c before it was asked.
LEMMA TaskSuspends ==
    ASSUME Ta!Inv, Ta!CoAwait, NEW c \in Checker, Ta!Suspended(c), v7' \in BOOLEAN,
           \/ /\ c.state = "Initial" /\ Ta!A.state = "Running"
              /\ v3' = "doResume" /\ ~v7'
           \/ /\ c.state = "InitialCxlPend" /\ Ta!A.state = "Cancelling"
              /\ v3' = "doResumeAfterCancel"
    PROVE  Ta!Inv'
<1> DEFINE r == ReadyReturned(c, FALSE)
           s == AboutToSetExecutor(r)
           b == AboutToSuspend(s)
<1>1. /\ v1' = "suspended" /\ v2' = "None" /\ below' = [below EXCEPT ![1] = b]
      /\ calls' = <<[fn |-> "await_suspend", to |-> v6']>> \o calls
      /\ UNCHANGED <<above, v4, v5>>
  BY TaskChecker DEF Ta!Suspended, Ta!Below, Ta!Calling
<1>2. r \in Checker /\ r.state = IF c.state = "Initial" THEN "NotReady" ELSE "CancelPending"
  BY ReadyMoves DEF Goes
<1> HIDE DEF r
<1>3. s \in Checker /\ s.state = r.state /\ s.hasExecutor
  BY <1>2, SetExecutorMoves DEF BeforeSuspend
<1> HIDE DEF s
<1>4. b \in Checker /\ b.state = IF c.state = "Initial" THEN "Running" ELSE "Cancelling"
  BY <1>2, <1>3, SuspendMoves DEF Goes
<1> HIDE DEF b
<1>5. /\ above' \in [{1} -> Ta!Checker] /\ below' \in [{1} -> Ta!Checker]
      /\ Ta!A' = Ta!A /\ Ta!B' = b
  BY <1>1, <1>4, TaskGoesTo, TaskTypes
<1>6. Ta!Waits'
  BY <1>1, <1>4, <1>5, TaskBody DEF Ta!Works, Ta!Waits
<1>7. Ta!Callees \subseteq Ta!Callees' /\ "await_suspend" \in Ta!Callees'
  BY <1>5, TaskCallees DEF Ta!Callees
<1>8. calls' \in Seq([fn : Ta!Callees', to : Nat])
  BY <1>1, <1>7, TaskCalls, TaskBody
<1>9. v1' \in TaskStates /\ v2' \in {"None", "Requested"} /\ v3' \in {"doResume", "doResumeAfterCancel", "doNothing"}
  BY <1>1 DEF TaskStates
<1> QED BY <1>1, <1>5, <1>6, <1>8, <1>9, TaskBody, TaskTypes, TaskGoesOn

LEMMA TaskAwaitSuspend ==
    ASSUME Ta!Inv, Ta!CoAwait, Ta!AwaitSuspend
    PROVE  Ta!Inv'
<1>1. v2 = "None" /\ v7' = FALSE /\ v3' = "doResume" /\ Ta!Suspended(Reset(Ta!B))
  BY TaskChecker DEF Ta!AwaitSuspend
<1>2. Ta!A.state = "Running"
  BY <1>1, TaskBody, TaskChecker DEF Ta!Works, Pending
<1> QED BY <1>1, <1>2, TaskBody, TaskSuspends

\* The task ends with a, by itself or by a cancellation.
LEMMA TaskFinish ==
    ASSUME Ta!Inv, over = "no", over' = "no", Pending(Ta!A), NEW how, Ta!Finish(Ta!A, how),
           NEW b \in Checker, below' = [below EXCEPT ![1] = b],
           b.state \in {"Initial", "Done", "Cancelled"},
           how \in {"value", "exception", "cancelled"},
           how = "cancelled" => Ta!A.state = "Cancelling",
           calls' = calls \/ (calls # <<>> /\ calls' = Tail(calls)),
           v6' \in 0..MaxAwaits, v7' = v7
    PROVE  Ta!Inv'
<1> DEFINE a == Resumed(Ta!A)
<1>1. /\ v5' = how /\ v4' = FALSE /\ v1' = "finished" /\ above' = [above EXCEPT ![1] = a]
      /\ v2' = v2 /\ v3' = v3
  BY TaskChecker DEF Ta!Finish
<1>2. a \in Checker /\ a.state = IF Ta!A.state = "Running" THEN "Ready" ELSE "ReadyAfterCancel"
  BY ResumeMoves, TaskTypes DEF Goes, Pending
<1> HIDE DEF a
<1>3. /\ above' \in [{1} -> Ta!Checker] /\ below' \in [{1} -> Ta!Checker]
      /\ Ta!A' = a /\ Ta!B' = b
  BY <1>1, <1>2, TaskGoesTo
<1>4. Ta!Finished'
  BY <1>1, <1>2, <1>3 DEF Ta!Finished
<1>5. Ta!Callees \subseteq Ta!Callees'
  BY <1>2, <1>3, TaskCallees DEF BeforeSuspend
<1>6. calls' \in Seq([fn : Ta!Callees', to : Nat])
  BY <1>5, TaskCalls
<1>7. v1' \in TaskStates /\ v5' \in {"incomplete", "value", "exception", "cancelled"}
  BY <1>1 DEF TaskStates
<1> QED BY <1>1, <1>3, <1>4, <1>6, <1>7, TaskTypes, TaskGoesOn

LEMMA TaskAwaitSkipped ==
    ASSUME Ta!Inv, Ta!CoAwait, Ta!AwaitSkipped
    PROVE  Ta!Inv'
<1> DEFINE b == EarlyCancelReturned(Reset(Ta!B), TRUE)
<1>1. /\ v2 = "Requested" /\ below' = [below EXCEPT ![1] = b] /\ Ta!Finish(Ta!A, "cancelled")
      /\ calls' = calls /\ v7' = v7
  BY TaskChecker DEF Ta!AwaitSkipped, Ta!Below, Ta!PropagateCancel
<1>2. b \in Checker /\ b.state = "Cancelled"
  BY TaskBody, EarlyCancelMoves DEF Goes
<1> HIDE DEF b
<1>3. Ta!A.state = "Cancelling" /\ Pending(Ta!A)
  BY <1>1, TaskBody DEF Ta!Works, Pending
<1> QED BY <1>1, <1>2, <1>3, TaskBody, TaskFinish

\* Child 1 has ended in spite of a cancellation, or because of it.
LEMMA TaskResumesAfterCancel ==
    ASSUME Ta!Inv, over = "no", over' = "no", Ta!A.state = "Cancelling", v4, v5 = "incomplete",
           NEW b \in Checker, b.state = "ReadyAfterCancel", Ta!DoResumeAfterCancel(b),
           v6' \in 0..MaxAwaits, v7' = v7, calls' = calls
    PROVE  Ta!Inv'
<1> DEFINE c == MustResumeReturned(b, TRUE)
           d == MustResumeReturned(b, FALSE)
<1>1. c \in Checker /\ c.state = "Ready" /\ d \in Checker /\ d.state = "Cancelled"
  BY MustResumeMoves DEF Goes
<1>2. \/ below' = [below EXCEPT ![1] = c] /\ v2' = "Requested" /\ Ta!DoResume
      \/ below' = [below EXCEPT ![1] = d] /\ Ta!Finish(Ta!A, "cancelled")
  BY TaskChecker DEF Ta!DoResumeAfterCancel, Ta!Below, Ta!PropagateCancel
<1> HIDE DEF c, d
<1>3. CASE below' = [below EXCEPT ![1] = c] /\ v2' = "Requested" /\ Ta!DoResume
  <2>1. v1' = "Ready" /\ v3' = "doNothing" /\ UNCHANGED <<above, v4, v5>>
    BY <1>3 DEF Ta!DoResume
  <2>2. /\ above' \in [{1} -> Ta!Checker] /\ below' \in [{1} -> Ta!Checker]
        /\ Ta!A' = Ta!A /\ Ta!B' = c
    BY <1>1, <1>3, <2>1, TaskGoesTo, TaskTypes
  <2>3. Ta!Works'
    BY <1>1, <1>3, <2>1, <2>2 DEF Ta!Works, Ta!Pending
  <2>4. Ta!Callees \subseteq Ta!Callees'
    BY <2>2, TaskCallees
  <2>5. v1' \in TaskStates /\ v2' \in {"None", "Requested"} /\ v3' \in {"doResume", "doResumeAfterCancel", "doNothing"}
    BY <1>3, <2>1 DEF TaskStates
  <2> QED BY <2>1, <2>2, <2>3, <2>4, <2>5, TaskCalls, TaskTypes, TaskGoesOn
<1>4. CASE below' = [below EXCEPT ![1] = d] /\ Ta!Finish(Ta!A, "cancelled")
  <2>1. Pending(Ta!A)
    BY DEF Pending
  <2> QED BY <1>1, <1>4, <2>1, TaskFinish
<1> QED BY <1>2, <1>3, <1>4

LEMMA TaskAwaitReadyCancelled ==
    ASSUME Ta!Inv, Ta!CoAwait, Ta!AwaitReadyCancelled
    PROVE  Ta!Inv'
<1> DEFINE c == EarlyCancelReturned(Reset(Ta!B), FALSE)
           b == ReadyReturned(c, TRUE)
<1>1. v2 = "Requested" /\ Ta!DoResumeAfterCancel(b) /\ calls' = calls /\ v7' = v7
  BY TaskChecker DEF Ta!AwaitReadyCancelled
<1>2. c \in Checker /\ c.state = "InitialCxlPend"
  BY TaskBody, EarlyCancelMoves DEF Goes
<1> HIDE DEF c
<1>3. b \in Checker /\ b.state = "ReadyAfterCancel"
  BY <1>2, ReadyMoves DEF Goes
<1> HIDE DEF b
<1>4. Ta!A.state = "Cancelling" /\ v4 /\ v5 = "incomplete"
  BY <1>1, TaskBody DEF Ta!Works
<1> QED BY <1>1, <1>3, <1>4, TaskBody, TaskResumesAfterCancel

LEMMA TaskAwaitCancelled ==
    ASSUME Ta!Inv, Ta!CoAwait, Ta!AwaitCancelled
    PROVE  Ta!Inv'
<1> DEFINE c == EarlyCancelReturned(Reset(Ta!B), FALSE)
<1>1. v2 = "Requested" /\ v7' = TRUE /\ v3' = "doResumeAfterCancel" /\ Ta!Suspended(c)
  BY TaskChecker DEF Ta!AwaitCancelled
<1>2. c \in Checker /\ c.state = "InitialCxlPend"
  BY TaskBody, EarlyCancelMoves DEF Goes
<1> HIDE DEF c
<1>3. Ta!A.state = "Cancelling"
  BY <1>1, TaskBody DEF Ta!Works
<1> QED BY <1>1, <1>2, <1>3, TaskSuspends

LEMMA TaskTakeResult ==
    ASSUME Ta!Inv, Ta!TakeResult
    PROVE  Ta!Inv'
<1> DEFINE b == AboutToResume(Ta!B)
<1>1. /\ over = "no" /\ v1 = "Running" /\ Ta!B.state = "Ready" /\ below' = [below EXCEPT ![1] = b]
      /\ UNCHANGED <<above, calls, over, v1, v2, v3, v4, v5, v6, v7>>
  BY TaskChecker DEF Ta!TakeResult, Ta!Below, Ta!promiseVars, Ta!bodyVars
<1>2. b \in Checker /\ b.state = "Done"
  BY <1>1, ResumeMoves, TaskTypes DEF Goes
<1> HIDE DEF b
<1>3. /\ above' \in [{1} -> Ta!Checker] /\ below' \in [{1} -> Ta!Checker]
      /\ Ta!A' = Ta!A /\ Ta!B' = b
  BY <1>1, <1>2, TaskGoesTo, TaskTypes
<1>4. Ta!Works
  BY <1>1, TaskAlive DEF Ta!Begins, Ta!Waits, Ta!Finished
<1>5. Ta!Works'
  BY <1>1, <1>2, <1>3, <1>4 DEF Ta!Works, Ta!Pending
<1>6. Ta!Callees \subseteq Ta!Callees'
  BY <1>3, TaskCallees
<1> QED BY <1>1, <1>3, <1>5, <1>6, TaskCalls, TaskTypes, TaskGoesOn

LEMMA TaskBodyEnds ==
    ASSUME Ta!Inv, Ta!BodyEnds
    PROVE  Ta!Inv'
<1>1. PICK how \in {"value", "exception"} : Ta!Finish(Ta!A, how)
  BY DEF Ta!BodyEnds
<1>2. /\ over = "no" /\ v1 = "Running" /\ Ta!B.state # "Ready"
      /\ UNCHANGED <<below, calls, over, v6, v7>>
  BY DEF Ta!BodyEnds, Ta!bodyVars
<1>3. Pending(Ta!A) /\ Ta!B.state \in {"Initial", "Done"}
  BY <1>2, TaskAlive, TaskChecker DEF Ta!Begins, Ta!Works, Ta!Waits, Ta!Finished
<1> QED BY <1>1, <1>2, <1>3, TaskTypes, TaskFinish

LEMMA TaskChildResumes ==
    ASSUME Ta!Inv, Ta!ChildResumes
    PROVE  Ta!Inv'
<1> DEFINE b == Resumed(Ta!B)
<1>1. over = "no" /\ Pending(Ta!B) /\ UNCHANGED <<calls, over, v6, v7>>
  BY TaskChecker DEF Ta!ChildResumes, Ta!bodyVars
<1>2. Ta!Waits
  BY <1>1, TaskAlive DEF Ta!Begins, Ta!Works, Ta!Finished, Pending
<1>3. b \in Checker /\ b.state = IF Ta!A.state = "Running" THEN "Ready" ELSE "ReadyAfterCancel"
  BY <1>2, ResumeMoves, TaskTypes DEF Goes, Ta!Waits
<1>4. CASE v3 = "doResumeAfterCancel"
  <2>1. Ta!DoResumeAfterCancel(b) /\ Ta!A.state = "Cancelling"
    BY <1>2, <1>4, TaskChecker DEF Ta!ChildResumes, Ta!Waits
  <2> HIDE DEF b
  <2> QED BY <1>1, <1>2, <1>3, <2>1, TaskResumesAfterCancel, TaskTypes DEF Ta!Waits
<1>5. CASE v3 # "doResumeAfterCancel"
  <2>1. /\ below' = [below EXCEPT ![1] = b] /\ v1' = "Ready" /\ v3' = "doNothing"
        /\ UNCHANGED <<above, v2, v4, v5>>
    BY <1>5, TaskChecker DEF Ta!ChildResumes, Ta!Below, Ta!DoResume
  <2>2. Ta!A.state = "Running"
    BY <1>2, <1>5 DEF Ta!Waits
  <2> HIDE DEF b
  <2>3. /\ above' \in [{1} -> Ta!Checker] /\ below' \in [{1} -> Ta!Checker]
        /\ Ta!A' = Ta!A /\ Ta!B' = b
    BY <1>3, <2>1, TaskGoesTo, TaskTypes
  <2>4. Ta!Works'
    BY <1>2, <1>3, <2>1, <2>2, <2>3 DEF Ta!Waits, Ta!Works, Ta!Pending
  <2>5. Ta!Callees \subseteq Ta!Callees'
    BY <2>3, TaskCallees
  <2>6. v1' \in TaskStates
    BY <2>1 DEF TaskStates
  <2> QED BY <1>1, <2>1, <2>3, <2>4, <2>5, <2>6, TaskCalls, TaskTypes, TaskGoesOn
<1> QED BY <1>4, <1>5

LEMMA TaskReturns ==
    ASSUME Ta!Inv, Ta!Returns
    PROVE  Ta!Inv'
<1>1. /\ calls # <<>> /\ calls' = Tail(calls)
      /\ UNCHANGED <<above, below, over, v1, v2, v3, v4, v5, v6, v7>>
  BY DEF Ta!Returns, Ta!promiseVars, Ta!bodyVars
<1>2. /\ above' \in [{1} -> Ta!Checker] /\ below' \in [{1} -> Ta!Checker]
      /\ Ta!A' = Ta!A /\ Ta!B' = Ta!B
  BY <1>1, TaskGoesTo, TaskTypes
<1>3. CASE over = "no"
  <2>1. Ta!Begins' \/ Ta!Works' \/ Ta!Waits' \/ Ta!Finished'
    <3>1. Ta!Begins' = Ta!Begins
      BY <1>1, <1>2 DEF Ta!Begins
    <3>2. Ta!Works' = Ta!Works
      BY <1>1, <1>2 DEF Ta!Works, Ta!Pending
    <3>3. Ta!Waits' = Ta!Waits
      BY <1>1, <1>2 DEF Ta!Waits
    <3>4. Ta!Finished' = Ta!Finished
      BY <1>1, <1>2 DEF Ta!Finished
    <3> QED BY <1>3, <3>1, <3>2, <3>3, <3>4, TaskAlive
  <2>2. Ta!Callees \subseteq Ta!Callees'
    BY <1>2, TaskCallees
  <2> QED BY <1>1, <1>2, <1>3, <2>1, <2>2, TaskCalls, TaskTypes, TaskGoesOn
<1>4. CASE over # "no"
  BY <1>1, <1>2, <1>4, TaskTypes DEF Ta!Inv
<1> QED BY <1>3, <1>4

LEMMA TaskCancelReturnsTrue ==
    ASSUME Ta!Inv, Ta!CancelReturnsTrue
    PROVE  Ta!Inv'
<1> DEFINE b == CancelReturned(Ta!B, TRUE)
<1>1. /\ over = "no" /\ calls # <<>> /\ Head(calls).fn = "await_cancel" /\ Pending(Ta!B)
      /\ calls' = Tail(calls) /\ below' = [below EXCEPT ![1] = b] /\ Ta!Finish(Ta!A, "cancelled")
      /\ UNCHANGED <<over, v6, v7>>
  BY TaskChecker DEF Ta!CancelReturnsTrue, Ta!Current, Ta!InCall, Ta!Below, Ta!PropagateCancel, Ta!bodyVars
<1>2. Ta!Waits
  BY <1>1, TaskAlive DEF Ta!Begins, Ta!Works, Ta!Finished, Pending
<1>3. Ta!A.state = "Cancelling"
  <2>1. calls \in Seq([fn : Ta!Callees, to : Nat])
    BY <1>1 DEF Ta!Inv
  <2>2. Head(calls) \in [fn : Ta!Callees, to : Nat]
    BY <1>1, <2>1, HeadTailProperties
  <2>3. "await_cancel" \in Ta!Callees
    <3>1. Head(calls).fn \in Ta!Callees
      BY <2>2
    <3> QED BY <1>1, <3>1
  <2>4. Ta!A.state # "Running"
    <3>1. Ta!A.state = "Running" => Ta!Callees = {"await_suspend"}
      BY DEF Ta!Callees
    <3> QED BY <2>3, <3>1
  <2> QED BY <1>2, <2>4 DEF Ta!Waits
<1>4. b \in Checker /\ b.state = "Cancelled" /\ Pending(Ta!A)
  BY <1>2, <1>3, CancelMoves, TaskTypes DEF Goes, Ta!Waits, Pending
<1> HIDE DEF b
<1> QED BY <1>1, <1>3, <1>4, TaskTypes, TaskFinish

LEMMA TaskSuspendThrows ==
    ASSUME Ta!Inv, Ta!SuspendThrows
    PROVE  Ta!Inv'
<1> DEFINE b == SuspendThrew(Ta!B)
<1>1. /\ over = "no" /\ calls # <<>> /\ Pending(Ta!B) /\ v1' = "Running"
      /\ v2' = (IF v7 THEN "Requested" ELSE "None")
      /\ Ta!B.state = "Cancelling" => v7
      /\ calls' = Tail(calls) /\ below' = [below EXCEPT ![1] = b]
      /\ UNCHANGED <<above, over, v3, v4, v5, v6, v7>>
  BY TaskChecker DEF Ta!SuspendThrows, Ta!Current, Ta!InCall, Ta!Below, Ta!CancelStateAfterThrow, Ta!bodyVars
<1>2. Ta!Waits
  BY <1>1, TaskAlive DEF Ta!Begins, Ta!Works, Ta!Finished, Pending
<1>3. b \in Checker /\ b.state = "Done"
  BY <1>1, SuspendMoves, TaskTypes DEF Goes, Pending
<1> HIDE DEF b
<1>4. /\ above' \in [{1} -> Ta!Checker] /\ below' \in [{1} -> Ta!Checker]
      /\ Ta!A' = Ta!A /\ Ta!B' = b
  BY <1>1, <1>3, TaskGoesTo, TaskTypes
<1>5. Ta!Works'
  BY <1>1, <1>2, <1>3, <1>4 DEF Ta!Waits, Ta!Works, Ta!Pending
<1>6. Ta!Callees \subseteq Ta!Callees'
  BY <1>4, TaskCallees
<1>7. v1' \in TaskStates /\ v2' \in {"None", "Requested"}
  BY <1>1 DEF TaskStates
<1> QED BY <1>1, <1>4, <1>5, <1>6, <1>7, TaskCalls, TaskTypes, TaskGoesOn

LEMMA TaskInit ==
    ASSUME Ta!Init
    PROVE  Ta!Inv
<1>1. /\ above = [p \in {1} |-> Fresh] /\ below = [c \in {1} |-> Fresh] /\ calls = <<>> /\ over = "no"
      /\ v1 \in {"Ready", "Stub"} /\ v2 = "None" /\ v3 = "doNothing" /\ v4 = TRUE
      /\ v5 = "incomplete" /\ v6 \in {0, MaxAwaits} /\ v7 = FALSE
  BY TaskChecker DEF Ta!Init, Ta!ProtocolInit
<1>2. Fresh \in Checker /\ Fresh.state = "Initial"
  BY DEF Fresh, Checker, CheckerState
<1>3. above \in [{1} -> Ta!Checker] /\ below \in [{1} -> Ta!Checker] /\ Ta!A = Fresh /\ Ta!B = Fresh
  BY <1>1, <1>2, TaskChecker DEF Ta!A, Ta!B
<1>4. Ta!Begins
  BY <1>1, <1>2, <1>3 DEF Ta!Begins
<1>5. calls \in Seq([fn : Ta!Callees, to : Nat])
  BY <1>1, EmptySeq
<1>6. v6 \in 0..MaxAwaits
  BY <1>1, ConstantsAssumption
<1> QED BY <1>1, <1>3, <1>4, <1>5, <1>6 DEF Ta!Inv

LEMMA TaskKeeps ==
    ASSUME Ta!Inv, Ta!Next
    PROVE  Ta!Inv'
<1>1. CASE Ta!CoAwait
  BY <1>1, TaskAwaitReady, TaskAwaitSuspend, TaskAwaitSkipped, TaskAwaitReadyCancelled,
     TaskAwaitCancelled DEF Ta!CoAwait
<1> QED BY <1>1, TaskReady, TaskSetExecutor, TaskEarlyCancel, TaskSuspendStub, TaskSuspend, TaskCancel,
   TaskMustResume, TaskResume, TaskDestroy, TaskRun, TaskTakeResult, TaskBodyEnds, TaskChildResumes,
   TaskReturns, TaskCancelReturnsTrue, TaskSuspendThrows DEF Ta!Next

LEMMA TaskInvariant == Spec => [](class = "task" => Ta!Inv)
<1>1. Init => (class = "task" => Ta!Inv)
  BY TaskInit DEF Init
<1>2. (class = "task" => Ta!Inv) /\ [Next]_vars => (class = "task" => Ta!Inv)'
  <2>1. ASSUME class = "task", Ta!Inv, Next PROVE Ta!Inv'
    BY <2>1, TaskKeeps DEF Next
  <2>2. ASSUME class = "task", Ta!Inv, UNCHANGED vars PROVE Ta!Inv'
    BY <2>2 DEF vars, shared, Ta!Inv, Ta!A, Ta!B, Ta!Begins, Ta!Works, Ta!Waits, Ta!Finished, Ta!Callees, Ta!Pending
  <2>3. [Next]_vars => class' = class
    BY DEF Next, vars, two, three, five, seven
  <2> QED BY <2>1, <2>2, <2>3
<1> QED BY <1>1, <1>2, PTL DEF Spec

\* No request to cancel is lost.
LEMMA TaskRequests == Ta!Inv => Ta!RequestKept /\ Ta!TypeOK /\ Ta!ProtocolKept
<1> SUFFICES ASSUME Ta!Inv PROVE Ta!RequestKept /\ Ta!TypeOK /\ Ta!ProtocolKept
  OBVIOUS
<1>1. Ta!RequestKept
  BY TaskAlive DEF Ta!RequestKept, Ta!Begins, Ta!Works, Ta!Waits, Ta!Finished
<1>2. Ta!TypeOK
  <2>1. over \in {"no", "destroyed", "terminated", "dangling"}
    BY DEF Ta!Inv
  <2> QED BY <2>1 DEF Ta!Inv, Ta!TypeOK, Ta!ProtocolTypeOK
<1>3. Legal(Ta!A) /\ Legal(Ta!B)
  BY TaskAlive, TaskChecker DEF Ta!Inv, Ta!Begins, Ta!Works, Ta!Waits, Ta!Finished, Legal, Pending
<1>4. Ta!ProtocolKept
  BY <1>3, TaskTypes, TaskChecker DEF Ta!ProtocolKept, Ta!A, Ta!B
<1> QED BY <1>1, <1>2, <1>4

----------------------------------------------------------------------------
(* The portals.                                                            *)

\* The checker in Portal is this one.
LEMMA PortalChecker ==
    /\ Cb!Checker = Checker /\ Cb!Fresh = Fresh /\ Cb!BeforeSuspend = BeforeSuspend
    /\ \A c : /\ Cb!Legal(c) <=> Legal(c)
              /\ Cb!Pending(c) <=> Pending(c)
    /\ \A c : /\ Cb!AboutToSetExecutor(c) = AboutToSetExecutor(c)
              /\ Cb!AboutToSuspend(c) = AboutToSuspend(c)
              /\ Cb!SuspendThrew(c) = SuspendThrew(c)
              /\ Cb!AboutToCancel(c) = AboutToCancel(c)
              /\ Cb!AboutToResume(c) = AboutToResume(c)
              /\ Cb!Resumed(c) = Resumed(c)
              /\ Cb!Reset(c) = Reset(c)
    /\ \A c, val : /\ Cb!ReadyReturned(c, val) = ReadyReturned(c, val)
                   /\ Cb!EarlyCancelReturned(c, val) = EarlyCancelReturned(c, val)
                   /\ Cb!CancelReturned(c, val) = CancelReturned(c, val)
                   /\ Cb!MustResumeReturned(c, val) = MustResumeReturned(c, val)
    /\ \A c, moves : Cb!Step(c, moves) = Step(c, moves)
<1>1. \A c, moves : Cb!Step(c, moves) = Step(c, moves)
  BY DEF Cb!Step, Step
<1>2. Cb!CheckerState = CheckerState /\ Cb!BeforeSuspend = BeforeSuspend /\ Cb!Fresh = Fresh
  BY DEF Cb!CheckerState, CheckerState, Cb!BeforeSuspend, BeforeSuspend, Cb!Fresh, Fresh
<1>3. \A c : /\ Cb!AboutToSetExecutor(c) = AboutToSetExecutor(c)
             /\ Cb!AboutToSuspend(c) = AboutToSuspend(c)
             /\ Cb!SuspendThrew(c) = SuspendThrew(c)
             /\ Cb!AboutToCancel(c) = AboutToCancel(c)
             /\ Cb!AboutToResume(c) = AboutToResume(c)
             /\ Cb!Resumed(c) = Resumed(c)
             /\ Cb!Reset(c) = Reset(c)
  BY <1>1, <1>2 DEF Cb!AboutToSetExecutor, AboutToSetExecutor, Cb!AboutToSuspend, AboutToSuspend,
     Cb!SuspendThrew, SuspendThrew, Cb!AboutToCancel, AboutToCancel, Cb!AboutToResume,
     AboutToResume, Cb!Resumed, Resumed, Cb!Reset, Reset
<1>4. \A c, val : /\ Cb!ReadyReturned(c, val) = ReadyReturned(c, val)
                  /\ Cb!EarlyCancelReturned(c, val) = EarlyCancelReturned(c, val)
                  /\ Cb!CancelReturned(c, val) = CancelReturned(c, val)
                  /\ Cb!MustResumeReturned(c, val) = MustResumeReturned(c, val)
  BY <1>1 DEF Cb!ReadyReturned, ReadyReturned, Cb!EarlyCancelReturned, EarlyCancelReturned,
     Cb!CancelReturned, CancelReturned, Cb!MustResumeReturned, MustResumeReturned
<1> QED BY <1>1, <1>2, <1>3, <1>4 DEF Cb!Checker, Checker, Cb!Legal, Legal, Cb!Pending, Pending

\* The stacks of calls.
InCapture == <<Cb!Call("capture")>>
InInitiate == <<Cb!Call("initiateFn")>>
InBoth == <<Cb!Call("capture"), Cb!Call("initiateFn")>>

LEMMA PortalStacks ==
    /\ Cb!Outside = {<<>>, InCapture} /\ Cb!Within = {InInitiate, InBoth}
    /\ InCapture # <<>> /\ InInitiate # <<>> /\ InBoth # <<>>
    /\ InCapture # InInitiate /\ InCapture # InBoth /\ InInitiate # InBoth
    /\ Head(InCapture).fn = "capture" /\ Head(InInitiate).fn = "initiateFn" /\ Head(InBoth).fn = "capture"
    /\ Tail(InCapture) = <<>> /\ Tail(InInitiate) = <<>> /\ Tail(InBoth) = InInitiate
    /\ InCapture \o <<>> = InCapture /\ InInitiate \o <<>> = InInitiate /\ InCapture \o InInitiate = InBoth
<1> DEFINE C == Cb!Call("capture")
           I == Cb!Call("initiateFn")
<1>1. C.fn = "capture" /\ I.fn = "initiateFn"
  BY DEF Cb!Call
<1>2. C # I
  BY <1>1
<1>3. Cb!Outside = {<<>>, InCapture} /\ Cb!Within = {InInitiate, InBoth}
  BY DEF Cb!Outside, Cb!Within, InCapture, InInitiate, InBoth
<1> HIDE DEF C, I
<1>4. /\ InCapture = <<C>> /\ InInitiate = <<I>> /\ InBoth = <<C, I>>
  BY DEF InCapture, InInitiate, InBoth, C, I
<1>5. Len(<<C>>) = 1 /\ Len(<<I>>) = 1 /\ Len(<<C, I>>) = 2 /\ Len(<<>>) = 0
  OBVIOUS
<1>6. <<C>>[1] = C /\ <<I>>[1] = I
  OBVIOUS
<1>7. Head(<<C>>) = C /\ Head(<<I>>) = I /\ Head(<<C, I>>) = C
  OBVIOUS
<1>8. Tail(<<C>>) = <<>> /\ Tail(<<I>>) = <<>> /\ Tail(<<C, I>>) = <<I>>
  OBVIOUS
<1>10. /\ <<C>> # <<>> /\ <<I>> # <<>> /\ <<C, I>> # <<>>
       /\ <<C>> # <<C, I>> /\ <<I>> # <<C, I>> /\ <<C>> # <<I>>
  BY <1>2, <1>5, <1>6
<1>9. <<C>> \o <<>> = <<C>> /\ <<I>> \o <<>> = <<I>> /\ <<C>> \o <<I>> = <<C, I>>
  <2> DEFINE S == {C, I}
  <2>1. <<C>> \in Seq(S) /\ <<I>> \in Seq(S)
    OBVIOUS
  <2>2. <<C>> \o <<>> = <<C>>
    BY <2>1, ConcatEmptySeq
  <2>3. <<I>> \o <<>> = <<I>>
    BY <2>1, ConcatEmptySeq
  <2>4. <<C>> \o <<I>> = <<C, I>>
    <3> DEFINE s == <<C>> \o <<I>>
               t == <<C, I>>
    <3>1. t \in Seq(S) /\ Len(t) = 2 /\ t[1] = C /\ t[2] = I
      OBVIOUS
    <3>2. s \in Seq(S) /\ Len(s) = 2 /\ s[1] = C /\ s[2] = I
      <4>1. Len(<<C>>) = 1 /\ Len(<<I>>) = 1 /\ <<C>>[1] = C /\ <<I>>[1] = I
        OBVIOUS
      <4>2. /\ s \in Seq(S) /\ Len(s) = Len(<<C>>) + Len(<<I>>)
            /\ \A i \in 1..Len(<<C>>) + Len(<<I>>) :
                 s[i] = IF i <= Len(<<C>>) THEN <<C>>[i] ELSE <<I>>[i - Len(<<C>>)]
        BY <2>1, ConcatProperties
      <4>3. /\ s \in Seq(S) /\ Len(s) = 2
            /\ \A i \in 1..2 : s[i] = IF i <= 1 THEN <<C>>[i] ELSE <<I>>[i - 1]
        BY <4>1, <4>2
      <4> HIDE DEF s
      <4>4. s[1] = <<C>>[1] /\ s[2] = <<I>>[1]
        BY <4>3
      <4> QED BY <4>1, <4>3, <4>4
    <3> HIDE DEF s, t
    <3>3. \A i \in 1..Len(s) : s[i] = t[i]
      BY <3>1, <3>2
    <3>4. s = t
      BY <3>1, <3>2, <3>3, SeqEqual
    <3> QED BY <3>4 DEF s, t
  <2> QED BY <2>2, <2>3, <2>4
<1> QED BY <1>1, <1>3, <1>4, <1>7, <1>8, <1>9, <1>10

PortalStatus == {"NotStarted", "Scheduled", "CancelPending", "Initiated"}

LEMMA PortalTypes ==
    ASSUME Cb!Inv
    PROVE  /\ above \in [{1} -> Checker] /\ below \in [{} -> Checker] /\ Cb!A \in Checker
           /\ above = [above EXCEPT ![1] = Cb!A]
           /\ v1 \in {"nothing", "cancelFn", "external"} /\ v2 \in {"proxy", "portal"}
           /\ v3 \in PortalStatus /\ v4 \in BOOLEAN /\ v5 \in BOOLEAN
           /\ v6 \in {"null", "no", "yes"} /\ v7 \in BOOLEAN
           /\ calls \in {<<>>, InCapture, InInitiate, InBoth}
<1>1. above \in [{1} -> Checker] /\ below \in [{} -> Checker]
  BY PortalChecker DEF Cb!Inv
<1>2. Cb!A \in Checker /\ above = [above EXCEPT ![1] = Cb!A]
  BY <1>1 DEF Cb!A
<1>3. Cb!Call("initiateFn") = Cb!Call("initiateFn") /\ <<Cb!Call("initiateFn")>> \in Cb!Within
  BY DEF Cb!Within
<1>4. calls \in Cb!Outside \cup Cb!Within
  BY <1>3, PortalStacks DEF Cb!Inv, Cb!Unstarted, Cb!Waits, Cb!Woken, Cb!Threw, Cb!PortalAlone, Cb!Gone
<1> QED BY <1>1, <1>2, <1>4, PortalStacks DEF Cb!Inv, PortalStatus

LEMMA PortalInCall ==
    ASSUME Cb!Inv
    PROVE  /\ Cb!InCall("capture") <=> calls \in {InCapture, InBoth}
           /\ Cb!InCall("initiateFn") <=> calls = InInitiate
BY PortalTypes, PortalStacks DEF Cb!InCall

LEMMA PortalGoesTo ==
    ASSUME Cb!Inv, NEW a \in Checker, above' = [above EXCEPT ![1] = a], below' = below
    PROVE  /\ above' \in [{1} -> Cb!Checker] /\ below' \in [{} -> Cb!Checker]
           /\ Cb!A' = a
BY PortalChecker, PortalTypes DEF Cb!A

\* It is there, and goes on in one of the five ways,
LEMMA PortalGoesOn ==
    ASSUME above' \in [{1} -> Cb!Checker], below' \in [{} -> Cb!Checker],
           v1' \in {"nothing", "cancelFn", "external"}, v2' \in {"proxy", "portal"},
           v3' \in PortalStatus, v4' \in BOOLEAN, v5' \in BOOLEAN,
           v6' \in {"null", "no", "yes"}, v7' \in BOOLEAN, over' = "no",
           Cb!Unstarted' \/ Cb!Waits' \/ Cb!Woken' \/ Cb!Threw' \/ Cb!PortalAlone'
    PROVE  Cb!Inv'
BY DEF Cb!Inv, PortalStatus

\* or is gone.
LEMMA PortalGoes ==
    ASSUME above' \in [{1} -> Cb!Checker], below' \in [{} -> Cb!Checker],
           v1' \in {"nothing", "cancelFn", "external"}, v2' \in {"proxy", "portal"},
           v3' \in PortalStatus, v4' \in BOOLEAN, v5' \in BOOLEAN,
           v6' \in {"null", "no", "yes"}, v7' \in BOOLEAN, over' = "destroyed", Cb!Gone'
    PROVE  Cb!Inv'
BY DEF Cb!Inv, PortalStatus

LEMMA PortalAlive ==
    ASSUME Cb!Inv, over = "no"
    PROVE  Cb!Unstarted \/ Cb!Waits \/ Cb!Woken \/ Cb!Threw \/ Cb!PortalAlone
BY DEF Cb!Inv

\* Before it is suspended, it is as it was made, or it is a portal.
LEMMA PortalBefore ==
    ASSUME Cb!Inv, over = "no",
           Cb!A.state \in {"Initial", "NotReady", "InitialCxlPend", "CancelPending", "ReadyImmediately"}
    PROVE  Cb!Unstarted \/ Cb!PortalAlone
BY PortalAlive DEF Cb!Waits, Cb!Woken, Cb!Threw

LEMMA PortalReady ==
    ASSUME Cb!Inv, Cb!Ready
    PROVE  Cb!Inv'
<1> DEFINE val == v2 = "portal" /\ v4
           a == ReadyReturned(Cb!A, val)
<1>1. /\ over = "no" /\ Cb!A.state \in BeforeSuspend /\ above' = [above EXCEPT ![1] = a] /\ Legal(a)
      /\ UNCHANGED <<below, calls, over, v1, v2, v3, v4, v5, v6, v7>>
  BY PortalChecker DEF Cb!Ready, Cb!Calls, Cb!portalVars
<1>2. /\ a \in Checker
      /\ val => \/ Cb!A.state \in {"Initial", "NotReady", "ReadyImmediately"} /\ a.state = "ReadyImmediately"
                \/ Cb!A.state \in {"InitialCxlPend", "CancelPending"}
      /\ ~val => \/ Cb!A.state \in {"Initial", "NotReady"} /\ a.state = "NotReady"
                 \/ Cb!A.state \in {"InitialCxlPend", "CancelPending"} /\ a.state = "CancelPending"
  <2>1. Cb!A \in Checker /\ Cb!A.state \in {"Initial", "NotReady", "InitialCxlPend", "CancelPending", "ReadyImmediately"}
    BY <1>1, PortalTypes DEF BeforeSuspend
  <2>2. CASE val = TRUE
    <3> HIDE DEF val
    <3> QED BY <1>1, <2>1, <2>2, ReadyMoves DEF Goes, Legal
  <2>3. CASE val = FALSE
    <3> HIDE DEF val
    <3> QED BY <1>1, <2>1, <2>3, ReadyMoves DEF Goes, Legal
  <2>4. val \in BOOLEAN
    BY PortalTypes
  <2> HIDE DEF val
  <2> QED BY <2>2, <2>3, <2>4
<1> HIDE DEF a
<1>3. /\ above' \in [{1} -> Cb!Checker] /\ below' \in [{} -> Cb!Checker] /\ Cb!A' = a
  BY <1>1, <1>2, PortalGoesTo
<1>4. Cb!Unstarted \/ Cb!PortalAlone
  BY <1>1, PortalBefore DEF BeforeSuspend
<1>5. Cb!Unstarted => Cb!Unstarted'
  BY <1>1, <1>2, <1>3 DEF Cb!Unstarted, Cb!PortalsAreExternal
<1>6. Cb!PortalAlone => Cb!PortalAlone'
  BY <1>1, <1>2, <1>3 DEF Cb!PortalAlone, Cb!PortalsAreExternal, Cb!Outside, Cb!Within
<1> QED BY <1>1, <1>3, <1>4, <1>5, <1>6, PortalTypes, PortalGoesOn

LEMMA PortalSetExecutor ==
    ASSUME Cb!Inv, Cb!SetExecutor
    PROVE  Cb!Inv'
<1> DEFINE a == AboutToSetExecutor(Cb!A)
<1>1. /\ over = "no" /\ UNCHANGED <<below, calls, over, v1, v2, v3, v4, v5, v6, v7>>
      /\ above' = [above EXCEPT ![1] = a] /\ Legal(a)
  <2>1. Cb!Asserted(v2 = "proxy" => ~v4, a) = a
    <3>1. Cb!Asserted(v2 = "proxy" => ~v4, a) = IF v2 = "proxy" => ~v4 THEN a ELSE Step(a, <<>>)
      BY PortalChecker DEF Cb!Asserted
    <3>2. Cb!Legal(Cb!Asserted(v2 = "proxy" => ~v4, a))
      BY PortalChecker DEF Cb!SetExecutor, Cb!Calls
    <3>3. a \in Checker
      BY SetExecutorMoves, PortalTypes
    <3> HIDE DEF a
    <3>4. ~Legal(Step(a, <<>>))
      BY <3>3, StepMoves DEF Legal
    <3> QED BY <3>1, <3>2, <3>4, PortalChecker
  <2> QED BY <2>1, PortalChecker DEF Cb!SetExecutor, Cb!Calls, Cb!portalVars
<1>2. a \in Checker /\ a.state = Cb!A.state /\ Cb!A.state \in BeforeSuspend
  BY <1>1, SetExecutorMoves, PortalTypes DEF Legal
<1> HIDE DEF a
<1>3. /\ above' \in [{1} -> Cb!Checker] /\ below' \in [{} -> Cb!Checker] /\ Cb!A' = a
  BY <1>1, <1>2, PortalGoesTo
<1>4. Cb!Unstarted \/ Cb!PortalAlone
  BY <1>1, <1>2, PortalBefore DEF BeforeSuspend
<1>5. Cb!Unstarted => Cb!Unstarted'
  BY <1>1, <1>2, <1>3 DEF Cb!Unstarted, Cb!PortalsAreExternal
<1>6. Cb!PortalAlone => Cb!PortalAlone'
  BY <1>1, <1>2, <1>3 DEF Cb!PortalAlone, Cb!PortalsAreExternal, Cb!Outside, Cb!Within
<1> QED BY <1>1, <1>3, <1>4, <1>5, <1>6, PortalTypes, PortalGoesOn

\* An assertion that is found to hold leaves the checker as it is.
LEMMA PortalAsserted ==
    ASSUME NEW cond \in BOOLEAN, NEW c \in Checker, Legal(Cb!Asserted(cond, c))
    PROVE  cond /\ Cb!Asserted(cond, c) = c
<1>1. Cb!Asserted(cond, c) = IF cond THEN c ELSE Step(c, <<>>)
  BY PortalChecker DEF Cb!Asserted
<1>2. ~Legal(Step(c, <<>>))
  BY StepMoves DEF Legal
<1> QED BY <1>1, <1>2

\* wakeUp() for the checker a, in the calls "rest".
LEMMA PortalWakeUp ==
    ASSUME NEW a, NEW rest, Cb!WakeUp(a, rest)
    PROVE  /\ v5' = FALSE
           /\ v5 => above' = [above EXCEPT ![1] = Resumed(a)] /\ calls' = InCapture \o rest
           /\ ~v5 => above' = [above EXCEPT ![1] = a] /\ calls' = rest
BY PortalChecker DEF Cb!WakeUp, InCapture, Cb!Call

LEMMA PortalEarlyCancel ==
    ASSUME Cb!Inv, Cb!EarlyCancel
    PROVE  Cb!Inv'
<1>1. over = "no" /\ UNCHANGED <<below, calls, over, v1, v2, v4, v5, v6, v7>>
  BY PortalChecker DEF Cb!EarlyCancel, Cb!Calls
<1>2. CASE v2 = "proxy" /\ v1 = "external"
  <2> DEFINE a == EarlyCancelReturned(Cb!A, FALSE)
  <2>1. /\ above' = [above EXCEPT ![1] = Cb!Asserted(v3 = "Scheduled", a)]
        /\ Legal(Cb!Asserted(v3 = "Scheduled", a)) /\ v3' = "CancelPending"
    BY <1>2, PortalChecker DEF Cb!EarlyCancel, Cb!Calls, Cb!PortalsAreExternal
  <2>2. a \in Checker
    BY EarlyCancelMoves, PortalTypes DEF Goes
  <2>3. v3 = "Scheduled" /\ above' = [above EXCEPT ![1] = a] /\ Legal(a)
    <3> HIDE DEF a
    <3>1. (v3 = "Scheduled") \in BOOLEAN
      OBVIOUS
    <3>2. v3 = "Scheduled" /\ Cb!Asserted(v3 = "Scheduled", a) = a
      BY <2>1, <2>2, <3>1, PortalAsserted
    <3> QED BY <2>1, <3>2
  <2>4. \/ Cb!A.state = "Initial" /\ a.state = "InitialCxlPend"
        \/ Cb!A.state = "NotReady" /\ a.state = "CancelPending"
        \/ Cb!A.state = "ReadyImmediately"
    BY <2>3, EarlyCancelMoves, PortalTypes DEF Goes, Legal
  <2> HIDE DEF a
  <2>5. /\ above' \in [{1} -> Cb!Checker] /\ below' \in [{} -> Cb!Checker] /\ Cb!A' = a
    BY <1>1, <2>2, <2>3, PortalGoesTo
  <2>6. Cb!Unstarted
    BY <1>1, <1>2, <2>4, PortalBefore DEF Cb!PortalAlone
  <2>7. Cb!Unstarted'
    BY <1>1, <1>2, <2>1, <2>3, <2>4, <2>5, <2>6 DEF Cb!Unstarted, Cb!PortalsAreExternal
  <2>8. v3' \in PortalStatus
    BY <2>1 DEF PortalStatus
  <2> QED BY <1>1, <2>5, <2>7, <2>8, PortalTypes, PortalGoesOn
<1>3. CASE ~(v2 = "proxy" /\ v1 = "external")
  <2> DEFINE a == EarlyCancelReturned(Cb!A, TRUE)
             ok == v2 = "proxy" => v3 = "NotStarted"
  <2>1. /\ above' = [above EXCEPT ![1] = Cb!Asserted(ok, a)] /\ Legal(Cb!Asserted(ok, a)) /\ v3' = v3
    BY <1>3, PortalChecker DEF Cb!EarlyCancel, Cb!Calls, Cb!PortalsAreExternal
  <2>2. a \in Checker /\ ok \in BOOLEAN
    BY EarlyCancelMoves, PortalTypes DEF Goes
  <2>3. above' = [above EXCEPT ![1] = a] /\ Legal(a)
    <3> HIDE DEF a, ok
    <3>1. Cb!Asserted(ok, a) = a
      BY <2>1, <2>2, PortalAsserted
    <3> QED BY <2>1, <3>1
  <2>4. Cb!A.state \in {"Initial", "NotReady", "ReadyImmediately"} /\ a.state = "Cancelled"
    BY <2>3, EarlyCancelMoves, PortalTypes DEF Goes, Legal
  <2> HIDE DEF a, ok
  <2>5. /\ above' \in [{1} -> Cb!Checker] /\ below' \in [{} -> Cb!Checker] /\ Cb!A' = a
    BY <1>1, <2>2, <2>3, PortalGoesTo
  <2>6. Cb!Unstarted \/ Cb!PortalAlone
    BY <1>1, <2>4, PortalBefore
  <2>7. Cb!Unstarted => Cb!Unstarted'
    BY <1>1, <1>3, <2>1, <2>4, <2>5 DEF Cb!Unstarted, Cb!PortalsAreExternal
  <2>8. Cb!PortalAlone => Cb!PortalAlone'
    BY <1>1, <2>4, <2>5 DEF Cb!PortalAlone, Cb!PortalsAreExternal, Cb!Outside, Cb!Within
  <2> QED BY <1>1, <2>1, <2>5, <2>6, <2>7, <2>8, PortalTypes, PortalGoesOn
<1> QED BY <1>2, <1>3

LEMMA PortalSuspend ==
    ASSUME Cb!Inv, Cb!Suspend
    PROVE  Cb!Inv'
<1> DEFINE a == AboutToSuspend(Cb!A)
<1>1. /\ over = "no" /\ above' = [above EXCEPT ![1] = a] /\ Legal(a) /\ v5' = TRUE
      /\ v2 = "proxy" => /\ v3' = (IF v3 = "NotStarted" THEN "Scheduled" ELSE v3)
                         /\ v7' = TRUE /\ v6' = "no" /\ calls' = InInitiate \o calls
      /\ v2 # "proxy" => UNCHANGED <<v3, v6, v7, calls>>
      /\ UNCHANGED <<below, over, v1, v2, v4>>
  BY PortalChecker DEF Cb!Suspend, Cb!Calls, Cb!Calling, InInitiate, Cb!Call
<1>2. /\ a \in Checker
      /\ \/ Cb!A.state = "NotReady" /\ a.state = "Running"
         \/ Cb!A.state = "CancelPending" /\ a.state = "Cancelling"
  BY <1>1, SuspendMoves, PortalTypes DEF Goes, Legal
<1> HIDE DEF a
<1>3. /\ above' \in [{1} -> Cb!Checker] /\ below' \in [{} -> Cb!Checker] /\ Cb!A' = a
  BY <1>1, <1>2, PortalGoesTo
<1>4. Cb!Unstarted \/ Cb!PortalAlone
  BY <1>1, <1>2, PortalBefore
<1>5. ASSUME Cb!Unstarted PROVE Cb!Inv'
  <2>1. calls' = InInitiate /\ v3' \in PortalStatus /\ v6' = "no" /\ v7' = TRUE /\ v2 = "proxy"
    BY <1>1, <1>5, PortalStacks, PortalTypes DEF Cb!Unstarted, PortalStatus
  <2>2. calls' = <<Cb!Call("initiateFn")>>
    BY <2>1 DEF InInitiate
  <2>3. Cb!Waits'
    BY <1>1, <1>2, <1>3, <1>5, <2>1, <2>2 DEF Cb!Unstarted, Cb!Waits, Cb!PortalsAreExternal, Cb!Call
  <2> QED BY <1>1, <1>3, <2>1, <2>3, PortalTypes, PortalGoesOn
<1>6. ASSUME Cb!PortalAlone PROVE Cb!Inv'
  <2>1. Cb!A.state = "NotReady" /\ v2 # "proxy"
    BY <1>2, <1>6 DEF Cb!PortalAlone
  <2>2. Cb!PortalAlone'
    BY <1>1, <1>2, <1>3, <1>6, <2>1 DEF Cb!PortalAlone, Cb!PortalsAreExternal, Cb!Outside, Cb!Within
  <2> QED BY <1>1, <1>3, <2>1, <2>2, PortalTypes, PortalGoesOn
<1> QED BY <1>4, <1>5, <1>6

\* It is woken, by a callback or a cancellation.
LEMMA PortalWoken ==
    ASSUME Cb!Inv, over = "no", over' = "no", NEW a \in Checker,
           a.state \in {"Ready", "ReadyAfterCancel"},
           above' = [above EXCEPT ![1] = a], a.state = "Ready" => v4',
           Cb!Waits \/ (Cb!PortalAlone /\ v5), calls' \in {InCapture, InBoth},
           v6' = "null" => calls' = InCapture,
           v6' = "no" => calls' = InBoth /\ v4' /\ v2 = "proxy", v6' \in {"null", "no", "yes"},
           v6' = "yes" => v6 = "yes",
           v5' = FALSE, v4' \in BOOLEAN, v7' \in BOOLEAN,
           v1 = "external" => v7', v7' => v1 = "external", v3' \in PortalStatus,
           UNCHANGED <<below, v1, v2>>
    PROVE  Cb!Inv'
<1>1. /\ above' \in [{1} -> Cb!Checker] /\ below' \in [{} -> Cb!Checker] /\ Cb!A' = a
  BY PortalGoesTo
<1>2. Cb!Outside = {<<>>, InCapture} /\ Cb!Within = {InInitiate, InBoth}
  BY PortalStacks
<1>3. /\ Cb!Outside' = {<<>>, InCapture} /\ Cb!Within' = {InInitiate, InBoth}
  BY <1>2 DEF Cb!Outside, Cb!Within
<1>4. Cb!Waits => Cb!Woken'
  BY <1>1, <1>3 DEF Cb!Waits, Cb!Woken, Cb!PortalsAreExternal
<1>5. Cb!PortalAlone => Cb!PortalAlone'
  BY <1>1, <1>3 DEF Cb!PortalAlone, Cb!PortalsAreExternal
<1> QED BY <1>1, <1>4, <1>5, PortalTypes, PortalGoesOn

LEMMA PortalCallback ==
    ASSUME Cb!Inv, Cb!Callback
    PROVE  Cb!Inv'
<1>1. /\ v7 /\ over = "no" /\ calls \in {<<>>, InInitiate} /\ ~v4
      /\ Cb!A.state \notin {"NotReady", "Cancelled"}
      /\ v4' = TRUE /\ v7' = (v1 = "external") /\ Cb!WakeUp(Cb!A, calls)
      /\ UNCHANGED <<below, over, v1, v2, v3, v6>>
  BY PortalInCall, PortalTypes DEF Cb!Callback, Cb!PortalsAreExternal
<1>2. v5' = FALSE
  BY <1>1, PortalWakeUp
<1>3. CASE v5
  <2> DEFINE a == Resumed(Cb!A)
  <2>1. above' = [above EXCEPT ![1] = a] /\ calls' = InCapture \o calls
    BY <1>1, <1>3, PortalWakeUp
  <2>2. Cb!Waits \/ Cb!PortalAlone
    BY <1>1, <1>3, PortalAlive DEF Cb!Unstarted, Cb!Woken, Cb!Threw
  <2>3. Cb!A.state \in {"Running", "Cancelling"}
    BY <1>3, <2>2 DEF Cb!Waits, Cb!PortalAlone
  <2>4. a \in Checker /\ a.state \in {"Ready", "ReadyAfterCancel"}
    BY <2>3, ResumeMoves, PortalTypes DEF Goes
  <2> HIDE DEF a
  <2>5. calls' = IF calls = <<>> THEN InCapture ELSE InBoth
    BY <1>1, <2>1, PortalStacks
  <2>6. /\ v6 = "null" => calls = <<>>
        /\ v6 = "no" => calls = InInitiate /\ v2 = "proxy"
    <3>1. calls = <<>> => calls \notin {InInitiate}
      BY PortalStacks
    <3>2. Cb!Waits => /\ v6 = "null" => calls = <<>>
                      /\ v6 = "no" => calls = InInitiate /\ v2 = "proxy"
      BY DEF Cb!Waits, InInitiate
    <3>3. Cb!PortalAlone => /\ v6 = "null" => calls = <<>>
                            /\ v6 # "no"
      BY <1>1, PortalStacks DEF Cb!PortalAlone
    <3> QED BY <2>2, <3>2, <3>3
  <2>7. /\ v6' = "null" => calls' = InCapture
        /\ v6' = "no" => calls' = InBoth /\ v4' /\ v2 = "proxy"
    BY <1>1, <2>5, <2>6, PortalStacks
  <2> QED BY <1>1, <1>2, <1>3, <2>1, <2>2, <2>4, <2>5, <2>7, PortalTypes, PortalWoken
<1>4. CASE ~v5
  <2>1. above' = [above EXCEPT ![1] = Cb!A] /\ calls' = calls
    BY <1>1, <1>4, PortalWakeUp
  <2>2. /\ above' \in [{1} -> Cb!Checker] /\ below' \in [{} -> Cb!Checker] /\ Cb!A' = Cb!A
    BY <1>1, <2>1, PortalGoesTo, PortalTypes
  <2>3. Cb!Woken \/ Cb!PortalAlone
    BY <1>1, <1>4, PortalAlive DEF Cb!Unstarted, Cb!Waits, Cb!Threw
  <2>4. Cb!Woken => Cb!Woken'
    BY <1>1, <1>2, <1>4, <2>1, <2>2 DEF Cb!Woken, Cb!PortalsAreExternal, Cb!Outside, Cb!Within
  <2>5. Cb!PortalAlone => Cb!PortalAlone'
    BY <1>1, <1>2, <1>4, <2>1, <2>2 DEF Cb!PortalAlone, Cb!PortalsAreExternal, Cb!Outside, Cb!Within
  <2>6. v7' \in BOOLEAN /\ v4' \in BOOLEAN /\ v5' \in BOOLEAN
    BY <1>1, <1>2
  <2> QED BY <1>1, <2>2, <2>3, <2>4, <2>5, <2>6, PortalTypes, PortalGoesOn
<1> QED BY <1>3, <1>4, PortalTypes

LEMMA PortalCancel ==
    ASSUME Cb!Inv, Cb!Cancel
    PROVE  Cb!Inv'
<1> DEFINE a == AboutToCancel(Cb!A)
<1>1. /\ over = "no" /\ calls \in {<<>>, InInitiate} /\ Legal(a) /\ Cb!AwaitCancel(v3, a, calls)
      /\ UNCHANGED <<below, over, v1, v2, v4, v6>>
  BY PortalInCall, PortalTypes, PortalChecker DEF Cb!Cancel
<1>2. a \in Checker /\ a.state = "Cancelling" /\ Cb!A.state = "Running"
  BY <1>1, CancelMoves, PortalTypes DEF Goes, Legal
<1> HIDE DEF a
<1>3. (Cb!Waits \/ Cb!PortalAlone) /\ v5 /\ v7
  BY <1>1, <1>2, PortalAlive DEF Cb!Unstarted, Cb!Woken, Cb!Threw, Cb!Waits, Cb!PortalAlone
<1>4. CASE v2 = "proxy" /\ (v3 # "Initiated" \/ v1 = "nothing")
  <2>1. Cb!Waits
    BY <1>3, <1>4 DEF Cb!PortalAlone
  <2>2. v3 # "NotStarted"
    BY <1>2, <2>1 DEF Cb!Waits
  <2>3. /\ above' = [above EXCEPT ![1] = Cb!Asserted(v3 # "NotStarted", a)]
        /\ v3' = (IF v3 = "Initiated" THEN v3 ELSE "CancelPending")
        /\ calls' = calls /\ UNCHANGED <<v5, v7>>
    BY <1>1, <1>4 DEF Cb!AwaitCancel, Cb!MustWait
  <2>4. above' = [above EXCEPT ![1] = a]
    BY <2>2, <2>3 DEF Cb!Asserted
  <2>5. /\ above' \in [{1} -> Cb!Checker] /\ below' \in [{} -> Cb!Checker] /\ Cb!A' = a
    BY <1>1, <1>2, <2>4, PortalGoesTo
  <2>6. Cb!Waits'
    BY <1>1, <1>2, <1>4, <2>1, <2>3, <2>5 DEF Cb!Waits, Cb!MustWait, Cb!Call
  <2>7. v3' \in PortalStatus
    BY <2>3, PortalTypes DEF PortalStatus
  <2> QED BY <1>1, <2>3, <2>5, <2>6, <2>7, PortalTypes, PortalGoesOn
<1>5. CASE ~(v2 = "proxy" /\ (v3 # "Initiated" \/ v1 = "nothing"))
  <2> DEFINE b == Resumed(a)
  <2>1. v3' = v3 /\ v7' = (v7 /\ v1 # "cancelFn") /\ Cb!WakeUp(a, calls)
    BY <1>1, <1>5 DEF Cb!AwaitCancel, Cb!MustWait
  <2>2. v5' = FALSE /\ above' = [above EXCEPT ![1] = b] /\ calls' = InCapture \o calls
    BY <1>3, <2>1, PortalWakeUp
  <2>3. b \in Checker /\ b.state = "ReadyAfterCancel"
    BY <1>2, ResumeMoves DEF Goes
  <2> HIDE DEF b
  <2>4. /\ v6 # "no"
        /\ v6 = "null" => calls = <<>>
        /\ v1 # "nothing"
    <3>1. Cb!Waits => v2 = "proxy" /\ v6 # "no" /\ calls = <<>>
      BY <1>2, <1>5 DEF Cb!Waits
    <3>2. Cb!PortalAlone => v6 # "no" /\ (v6 = "null" => calls = <<>>) /\ v1 = "external"
      BY <1>1, PortalStacks DEF Cb!PortalAlone, Cb!PortalsAreExternal
    <3> QED BY <1>3, <1>5, <3>1, <3>2
  <2>5. calls' = IF calls = <<>> THEN InCapture ELSE InBoth
    BY <1>1, <2>2, PortalStacks
  <2>6. /\ v7' \in BOOLEAN
        /\ v1 = "external" => v7'
        /\ v7' => v1 = "external"
    BY <1>3, <2>1, <2>4, PortalTypes
  <2> QED BY <1>1, <1>3, <2>1, <2>2, <2>3, <2>4, <2>5, <2>6, PortalTypes, PortalWoken
<1> QED BY <1>4, <1>5

\* await_suspend() returns to a parent that has been resumed, or is not there any more,
LEMMA PortalReturnsLate ==
    ASSUME Cb!Inv, Cb!InitiateReturns, v6 = "yes"
    PROVE  Cb!Inv'
<1>1. /\ calls = InInitiate /\ calls' = <<>> /\ v6' = v6
      /\ UNCHANGED <<above, below, over, v1, v2, v3, v4, v5, v7>>
  BY PortalInCall, PortalStacks DEF Cb!InitiateReturns
<1>2. /\ above' \in [{1} -> Cb!Checker] /\ below' \in [{} -> Cb!Checker] /\ Cb!A' = Cb!A
  <2>1. above' = [above EXCEPT ![1] = Cb!A]
    BY <1>1, PortalTypes
  <2> QED BY <1>1, <2>1, PortalGoesTo, PortalTypes
<1>3. calls' \in Cb!Outside'
  BY <1>1 DEF Cb!Outside
<1>4. CASE over = "no"
  <2>1. Cb!Woken \/ Cb!PortalAlone
    BY <1>4, PortalAlive DEF Cb!Unstarted, Cb!Waits, Cb!Threw
  <2>2. Cb!Woken => Cb!Woken'
    BY <1>1, <1>2, <1>3 DEF Cb!Woken, Cb!PortalsAreExternal
  <2>3. Cb!PortalAlone => Cb!PortalAlone'
    BY <1>1, <1>2, <1>3 DEF Cb!PortalAlone, Cb!PortalsAreExternal
  <2> QED BY <1>1, <1>2, <1>4, <2>1, <2>2, <2>3, PortalTypes, PortalGoesOn
<1>5. CASE over # "no"
  <2>1. over' = "destroyed" /\ Cb!Gone'
    BY <1>1, <1>2, <1>3, <1>5 DEF Cb!Inv, Cb!Gone
  <2> QED BY <1>1, <1>2, <2>1, PortalTypes, PortalGoes
<1> QED BY <1>4, <1>5

\* to one that has been, but has not looked,
LEMMA PortalReturnsWoken ==
    ASSUME Cb!Inv, Cb!InitiateReturns, v6 = "no", over = "no", Cb!Woken
    PROVE  Cb!Inv'
<1>1. /\ calls = InInitiate /\ calls' = <<>> /\ v6' = "null" /\ over' = "no" /\ v3' = "Initiated"
      /\ UNCHANGED <<above, below, v1, v2, v4, v5, v7>>
  BY PortalInCall, PortalStacks DEF Cb!InitiateReturns, Cb!Woken
<1>2. /\ above' \in [{1} -> Cb!Checker] /\ below' \in [{} -> Cb!Checker] /\ Cb!A' = Cb!A
  <2>1. above' = [above EXCEPT ![1] = Cb!A]
    BY <1>1, PortalTypes
  <2> QED BY <1>1, <2>1, PortalGoesTo, PortalTypes
<1>3. calls' \in Cb!Outside' /\ v3' \in PortalStatus
  BY <1>1 DEF Cb!Outside, PortalStatus
<1>4. Cb!Woken'
  BY <1>1, <1>2, <1>3 DEF Cb!Woken, Cb!PortalsAreExternal
<1> QED BY <1>1, <1>2, <1>3, <1>4, PortalTypes, PortalGoesOn

\* and to one that waits, and may have been cancelled.
LEMMA PortalReturnsWaiting ==
    ASSUME Cb!Inv, Cb!InitiateReturns, v6 = "no", over = "no", Cb!Waits
    PROVE  Cb!Inv'
<1>1. /\ calls = InInitiate /\ Tail(calls) = <<>> /\ v6' = "null" /\ over' = "no" /\ v5 /\ ~v4 /\ v7
      /\ v2 = "proxy" /\ UNCHANGED <<below, v1, v2, v4>>
  BY PortalInCall, PortalStacks DEF Cb!InitiateReturns, Cb!Waits
<1>2. CASE v3 = "CancelPending"
  <2>1. Cb!AwaitCancel("Initiated", Cb!A, <<>>) /\ Cb!A.state = "Cancelling"
    BY <1>1, <1>2 DEF Cb!InitiateReturns, Cb!Waits
  <2>2. CASE v1 = "nothing"
    <3>1. /\ above' = [above EXCEPT ![1] = Cb!A] /\ v3' = "Initiated" /\ calls' = <<>>
          /\ UNCHANGED <<v5, v7>>
      BY <1>1, <2>1, <2>2 DEF Cb!AwaitCancel, Cb!MustWait, Cb!Asserted
    <3>2. /\ above' \in [{1} -> Cb!Checker] /\ below' \in [{} -> Cb!Checker] /\ Cb!A' = Cb!A
      BY <1>1, <3>1, PortalGoesTo, PortalTypes
    <3>3. Cb!Waits'
      BY <1>1, <2>1, <2>2, <3>1, <3>2 DEF Cb!Waits, Cb!MustWait
    <3>4. v3' \in PortalStatus
      BY <3>1 DEF PortalStatus
    <3> QED BY <1>1, <3>1, <3>2, <3>3, <3>4, PortalTypes, PortalGoesOn
  <2>3. CASE v1 # "nothing"
    <3> DEFINE b == Resumed(Cb!A)
    <3>1. v3' = "Initiated" /\ v7' = (v7 /\ v1 # "cancelFn") /\ Cb!WakeUp(Cb!A, <<>>)
      BY <2>1, <2>3 DEF Cb!AwaitCancel, Cb!MustWait
    <3>2. v5' = FALSE /\ above' = [above EXCEPT ![1] = b] /\ calls' = InCapture \o <<>>
      BY <1>1, <3>1, PortalWakeUp
    <3>3. b \in Checker /\ b.state = "ReadyAfterCancel"
      BY <2>1, ResumeMoves, PortalTypes DEF Goes
    <3> HIDE DEF b
    <3>4. calls' = InCapture
      BY <3>2, PortalStacks
    <3>5. /\ v7' \in BOOLEAN /\ v3' \in PortalStatus
          /\ v1 = "external" => v7'
          /\ v7' => v1 = "external"
      BY <1>1, <2>3, <3>1, PortalTypes DEF PortalStatus
    <3> QED BY <1>1, <3>2, <3>3, <3>4, <3>5, PortalTypes, PortalWoken
  <2> QED BY <2>2, <2>3
<1>3. CASE v3 # "CancelPending"
  <2>1. /\ v3' = "Initiated" /\ calls' = <<>> /\ UNCHANGED <<above, v5, v7>>
    BY <1>1, <1>3 DEF Cb!InitiateReturns
  <2>2. /\ above' \in [{1} -> Cb!Checker] /\ below' \in [{} -> Cb!Checker] /\ Cb!A' = Cb!A
    <3>1. above' = [above EXCEPT ![1] = Cb!A]
      BY <2>1, PortalTypes
    <3> QED BY <1>1, <3>1, PortalGoesTo, PortalTypes
  <2>3. Cb!A.state = "Running"
    BY <1>3 DEF Cb!Waits
  <2>4. Cb!Waits'
    BY <1>1, <2>1, <2>2, <2>3 DEF Cb!Waits
  <2>5. v3' \in PortalStatus
    BY <2>1 DEF PortalStatus
  <2> QED BY <1>1, <2>1, <2>2, <2>4, <2>5, PortalTypes, PortalGoesOn
<1> QED BY <1>2, <1>3

LEMMA PortalInitiateReturns ==
    ASSUME Cb!Inv, Cb!InitiateReturns
    PROVE  Cb!Inv'
<1>1. calls = InInitiate
  BY PortalInCall DEF Cb!InitiateReturns
<1>2. CASE v6 # "yes"
  <2>1. InInitiate \notin Cb!Outside
    BY PortalStacks
  <2>2. over = "no"
    BY <1>1, <1>2, <2>1 DEF Cb!Inv, Cb!Gone
  <2>3. v6 = "no" /\ (Cb!Waits \/ Cb!Woken)
    <3>1. ~Cb!Unstarted /\ ~Cb!Threw
      BY <1>1, PortalStacks DEF Cb!Unstarted, Cb!Threw
    <3>2. ~Cb!PortalAlone
      BY <1>1, <1>2, <2>1 DEF Cb!PortalAlone
    <3>3. Cb!Waits => v6 = "no"
      BY <1>1, PortalStacks DEF Cb!Waits
    <3>4. Cb!Woken => v6 = "no"
      BY <1>1, <1>2, <2>1 DEF Cb!Woken
    <3> QED BY <2>2, <3>1, <3>2, <3>3, <3>4, PortalAlive
  <2> QED BY <2>2, <2>3, PortalReturnsWoken, PortalReturnsWaiting
<1> QED BY <1>2, PortalReturnsLate

LEMMA PortalInitiateThrows ==
    ASSUME Cb!Inv, Cb!InitiateThrows
    PROVE  Cb!Inv'
<1> DEFINE a == SuspendThrew(Cb!A)
<1>1. /\ calls = InInitiate /\ over = "no" /\ Pending(Cb!A) /\ v2 = "proxy"
      /\ above' = [above EXCEPT ![1] = a] /\ calls' = <<>> /\ v7' = FALSE
      /\ UNCHANGED <<below, over, v1, v2, v3, v4, v5, v6>>
  BY PortalInCall, PortalStacks, PortalChecker DEF Cb!InitiateThrows
<1>2. a \in Checker /\ a.state = "Done"
  BY <1>1, SuspendMoves, PortalTypes DEF Goes, Pending
<1> HIDE DEF a
<1>3. /\ above' \in [{1} -> Cb!Checker] /\ below' \in [{} -> Cb!Checker] /\ Cb!A' = a
  BY <1>1, <1>2, PortalGoesTo
<1>4. Cb!Waits
  BY <1>1, PortalAlive DEF Cb!Unstarted, Cb!Woken, Cb!Threw, Cb!PortalAlone, Pending
<1>5. v6 = "no"
  BY <1>1, <1>4, PortalStacks DEF Cb!Waits
<1>6. Cb!Threw'
  BY <1>1, <1>2, <1>3, <1>4, <1>5 DEF Cb!Waits, Cb!Threw
<1> QED BY <1>1, <1>3, <1>6, PortalTypes, PortalGoesOn

LEMMA PortalCaptureReturns ==
    ASSUME Cb!Inv, Cb!CaptureReturns
    PROVE  Cb!Inv'
<1>1. /\ calls' = (IF calls = InCapture THEN <<>> ELSE InInitiate) /\ calls \in {InCapture, InBoth}
      /\ UNCHANGED <<above, below, over, v1, v2, v3, v4, v5, v6, v7>>
  BY PortalInCall, PortalStacks DEF Cb!CaptureReturns, Cb!portalVars
<1>2. /\ above' \in [{1} -> Cb!Checker] /\ below' \in [{} -> Cb!Checker] /\ Cb!A' = Cb!A
  <2>1. above' = [above EXCEPT ![1] = Cb!A]
    BY <1>1, PortalTypes
  <2> QED BY <1>1, <2>1, PortalGoesTo, PortalTypes
<1>3. /\ Cb!Outside = {<<>>, InCapture} /\ Cb!Within = {InInitiate, InBoth}
      /\ Cb!Outside' = {<<>>, InCapture} /\ Cb!Within' = {InInitiate, InBoth}
  BY PortalStacks DEF Cb!Outside, Cb!Within
<1>4. calls \in Cb!Outside => calls' \in Cb!Outside'
  BY <1>1, <1>3, PortalStacks
<1>5. calls \in Cb!Within => calls' \in Cb!Within'
  BY <1>1, <1>3, PortalStacks
<1>6. CASE over = "no"
  <2>1. Cb!Woken \/ Cb!PortalAlone
    <3>1. ~Cb!Unstarted /\ ~Cb!Threw
      BY <1>1, PortalStacks DEF Cb!Unstarted, Cb!Threw
    <3>2. ~Cb!Waits
      BY <1>1, PortalStacks DEF Cb!Waits, InInitiate
    <3> QED BY <1>6, <3>1, <3>2, PortalAlive
  <2>2. Cb!Woken => Cb!Woken'
    BY <1>1, <1>2, <1>4, <1>5 DEF Cb!Woken, Cb!PortalsAreExternal
  <2>3. Cb!PortalAlone => Cb!PortalAlone'
    BY <1>1, <1>2, <1>4, <1>5 DEF Cb!PortalAlone, Cb!PortalsAreExternal
  <2> QED BY <1>1, <1>2, <1>6, <2>1, <2>2, <2>3, PortalTypes, PortalGoesOn
<1>7. CASE over # "no"
  <2>1. over' = "destroyed" /\ Cb!Gone'
    BY <1>1, <1>2, <1>4, <1>5, <1>7 DEF Cb!Inv, Cb!Gone
  <2> QED BY <1>1, <1>2, <2>1, PortalTypes, PortalGoes
<1> QED BY <1>6, <1>7

LEMMA PortalMustResume ==
    ASSUME Cb!Inv, Cb!MustResume
    PROVE  Cb!Inv'
<1> DEFINE a == MustResumeReturned(Cb!A, v4)
<1>1. /\ over = "no" /\ above' = [above EXCEPT ![1] = a] /\ Legal(a)
      /\ UNCHANGED <<below, calls, over, v1, v2, v3, v4, v5, v6, v7>>
  BY PortalChecker DEF Cb!MustResume, Cb!Calls, Cb!portalVars
<1>2. /\ a \in Checker /\ Cb!A.state = "ReadyAfterCancel"
      /\ a.state = IF v4 THEN "Ready" ELSE "Cancelled"
  <2>1. CASE v4 = TRUE
    BY <1>1, <2>1, MustResumeMoves, PortalTypes DEF Goes, Legal
  <2>2. CASE v4 = FALSE
    BY <1>1, <2>2, MustResumeMoves, PortalTypes DEF Goes, Legal
  <2> QED BY <2>1, <2>2, PortalTypes
<1> HIDE DEF a
<1>3. /\ above' \in [{1} -> Cb!Checker] /\ below' \in [{} -> Cb!Checker] /\ Cb!A' = a
  BY <1>1, <1>2, PortalGoesTo
<1>4. Cb!Woken \/ Cb!PortalAlone
  BY <1>1, <1>2, PortalAlive DEF Cb!Unstarted, Cb!Waits, Cb!Threw
<1>5. Cb!Woken => Cb!Woken'
  BY <1>1, <1>2, <1>3 DEF Cb!Woken, Cb!PortalsAreExternal, Cb!Outside, Cb!Within
<1>6. Cb!PortalAlone => Cb!PortalAlone'
  BY <1>1, <1>2, <1>3 DEF Cb!PortalAlone, Cb!PortalsAreExternal, Cb!Outside, Cb!Within
<1> QED BY <1>1, <1>3, <1>4, <1>5, <1>6, PortalTypes, PortalGoesOn

LEMMA PortalResume ==
    ASSUME Cb!Inv, Cb!Resume
    PROVE  Cb!Inv'
<1> DEFINE a == AboutToResume(Cb!A)
<1>1. /\ over = "no" /\ above' = [above EXCEPT ![1] = Cb!Asserted(v4, a)] /\ Legal(Cb!Asserted(v4, a))
      /\ v4' = FALSE /\ v6' = (IF v2 = "proxy" /\ v6 = "no" THEN "yes" ELSE v6)
      /\ UNCHANGED <<below, calls, over, v1, v2, v3, v5, v7>>
  BY PortalChecker DEF Cb!Resume, Cb!Calls, Cb!CompletedByResume
<1>2. a \in Checker
  BY ResumeMoves, PortalTypes DEF Goes
<1>3. v4 /\ above' = [above EXCEPT ![1] = a] /\ Legal(a)
  <2> HIDE DEF a
  <2>1. v4 /\ Cb!Asserted(v4, a) = a
    BY <1>1, <1>2, PortalAsserted, PortalTypes
  <2> QED BY <1>1, <2>1
<1>4. Cb!A.state \in {"ReadyImmediately", "Ready"} /\ a.state = "Done"
  BY <1>3, ResumeMoves, PortalTypes DEF Goes, Legal
<1> HIDE DEF a
<1>5. /\ above' \in [{1} -> Cb!Checker] /\ below' \in [{} -> Cb!Checker] /\ Cb!A' = a
  BY <1>1, <1>2, <1>3, PortalGoesTo
<1>6. Cb!Woken \/ Cb!PortalAlone
  BY <1>1, <1>4, PortalAlive DEF Cb!Unstarted, Cb!Waits, Cb!Threw
<1>7. Cb!Woken => Cb!Woken'
  BY <1>1, <1>4, <1>5 DEF Cb!Woken, Cb!PortalsAreExternal, Cb!Outside, Cb!Within
<1>8. Cb!PortalAlone => Cb!PortalAlone'
  BY <1>1, <1>3, <1>4, <1>5 DEF Cb!PortalAlone, Cb!PortalsAreExternal, Cb!Outside, Cb!Within
<1>9. v6' \in {"null", "no", "yes"}
  BY <1>1, PortalTypes
<1> QED BY <1>1, <1>5, <1>6, <1>7, <1>8, <1>9, PortalTypes, PortalGoesOn

LEMMA PortalDestroy ==
    ASSUME Cb!Inv, Cb!Destroy
    PROVE  Cb!Inv'
<1> DEFINE a == Reset(Cb!A)
<1>1. /\ over = "no" /\ above' = [above EXCEPT ![1] = a] /\ Legal(a)
      /\ \/ v1 = "external" /\ Cb!A.state = "Done" /\ v7 /\ v2' = "portal" /\ UNCHANGED <<over, v7>>
         \/ over' = "destroyed" /\ v7' = (v7 /\ v1 # "external") /\ v2' = v2
      /\ UNCHANGED <<below, calls, v1, v3, v4, v5, v6>>
  BY PortalChecker DEF Cb!Destroy, Cb!Calls, Cb!PortalsAreExternal
<1>2. a \in Checker /\ a.state = "Initial" /\ Cb!A.state \in {"Cancelled", "Done", "Initial"}
  BY <1>1, ResetMoves, PortalTypes DEF Legal
<1> HIDE DEF a
<1>3. /\ above' \in [{1} -> Cb!Checker] /\ below' \in [{} -> Cb!Checker] /\ Cb!A' = a
  BY <1>1, <1>2, PortalGoesTo
<1>4. CASE v1 = "external" /\ Cb!A.state = "Done" /\ v7 /\ v2' = "portal" /\ UNCHANGED <<over, v7>>
  <2>1. Cb!Woken \/ Cb!PortalAlone
    BY <1>1, <1>4, PortalAlive DEF Cb!Unstarted, Cb!Waits, Cb!Threw
  <2>2. Cb!PortalAlone'
    BY <1>1, <1>2, <1>3, <1>4, <2>1 DEF Cb!Woken, Cb!PortalAlone, Cb!PortalsAreExternal, Cb!Outside, Cb!Within
  <2>3. v2' \in {"proxy", "portal"}
    BY <1>4
  <2> QED BY <1>1, <1>3, <1>4, <2>2, <2>3, PortalTypes, PortalGoesOn
<1>5. CASE over' = "destroyed" /\ v7' = (v7 /\ v1 # "external") /\ v2' = v2
  <2>1. v7' = FALSE /\ (calls \in Cb!Outside \/ (v6 = "yes" /\ calls \in Cb!Within))
    <3>1. <<>> \in Cb!Outside
      BY PortalStacks
    <3>2. Cb!Unstarted => ~v7 /\ calls \in Cb!Outside
      BY <3>1 DEF Cb!Unstarted
    <3>3. Cb!Threw => ~v7 /\ calls \in Cb!Outside
      BY <3>1 DEF Cb!Threw
    <3>4. ~Cb!Waits
      BY <1>2 DEF Cb!Waits
    <3>5. Cb!Woken => (v7 => v1 = "external") /\ (calls \in Cb!Outside \/ (v6 = "yes" /\ calls \in Cb!Within))
      BY <1>2 DEF Cb!Woken, Cb!PortalsAreExternal
    <3>6. Cb!PortalAlone => v1 = "external" /\ (calls \in Cb!Outside \/ (v6 = "yes" /\ calls \in Cb!Within))
      BY DEF Cb!PortalAlone, Cb!PortalsAreExternal
    <3> QED BY <1>1, <1>5, <3>2, <3>3, <3>4, <3>5, <3>6, PortalAlive, PortalTypes
  <2>2. Cb!Gone'
    BY <1>1, <1>2, <1>3, <2>1 DEF Cb!Gone, Cb!Outside, Cb!Within
  <2> QED BY <1>1, <1>3, <1>5, <2>1, <2>2, PortalTypes, PortalGoes
<1> QED BY <1>1, <1>4, <1>5

LEMMA PortalInit ==
    ASSUME Cb!Init
    PROVE  Cb!Inv
<1>1. /\ above = [p \in {1} |-> Fresh] /\ below = [c \in {} |-> Fresh] /\ calls = <<>> /\ over = "no"
      /\ v1 \in {"nothing", "cancelFn", "external"} /\ v2 = "proxy"
      /\ v3 = (IF v1 = "external" THEN "Scheduled" ELSE "NotStarted")
      /\ v4 = FALSE /\ v5 = FALSE /\ v6 = "null" /\ v7 = FALSE
  BY PortalChecker DEF Cb!Init, Cb!ProtocolInit, Cb!PortalsAreExternal
<1>2. Fresh \in Checker /\ Fresh.state = "Initial"
  BY DEF Fresh, Checker, CheckerState
<1>3. above \in [{1} -> Cb!Checker] /\ below \in [{} -> Cb!Checker] /\ Cb!A = Fresh
  BY <1>1, <1>2, PortalChecker DEF Cb!A
<1>4. Cb!Unstarted
  BY <1>1, <1>2, <1>3 DEF Cb!Unstarted, Cb!PortalsAreExternal
<1> QED BY <1>1, <1>3, <1>4 DEF Cb!Inv

LEMMA PortalKeeps ==
    ASSUME Cb!Inv, Cb!Next
    PROVE  Cb!Inv'
BY PortalReady, PortalEarlyCancel, PortalSetExecutor, PortalSuspend, PortalCallback, PortalCancel,
   PortalInitiateReturns, PortalInitiateThrows, PortalCaptureReturns, PortalMustResume, PortalResume,
   PortalDestroy DEF Cb!Next

LEMMA PortalInvariant == Spec => [](class = "portal" => Cb!Inv)
<1>1. Init => (class = "portal" => Cb!Inv)
  BY PortalInit DEF Init
<1>2. (class = "portal" => Cb!Inv) /\ [Next]_vars => (class = "portal" => Cb!Inv)'
  <2>1. ASSUME class = "portal", Cb!Inv, Next PROVE Cb!Inv'
    BY <2>1, PortalKeeps DEF Next
  <2>2. ASSUME class = "portal", Cb!Inv, UNCHANGED vars PROVE Cb!Inv'
    BY <2>2 DEF vars, shared, Cb!Inv, Cb!A, Cb!Unstarted, Cb!Waits, Cb!Woken, Cb!Threw, Cb!PortalAlone,
       Cb!Gone, Cb!PortalsAreExternal, Cb!MustWait
  <2>3. [Next]_vars => class' = class
    BY DEF Next, vars, two, three, five, seven
  <2> QED BY <2>1, <2>2, <2>3
<1> QED BY <1>1, <1>2, PTL DEF Spec

\* No call of the callback is lost.
LEMMA PortalHears == Cb!Inv => Cb!CallsArrive /\ Cb!TypeOK /\ Cb!ProtocolKept
<1> SUFFICES ASSUME Cb!Inv PROVE Cb!CallsArrive /\ Cb!TypeOK /\ Cb!ProtocolKept
  OBVIOUS
<1>1. CASE over = "no"
  <2>1. Cb!CallsArrive
    BY <1>1, PortalAlive, PortalChecker DEF Cb!CallsArrive, Cb!Unstarted, Cb!Waits, Cb!Woken, Cb!Threw,
       Cb!PortalAlone, Pending
  <2>2. Legal(Cb!A)
    BY <1>1, PortalAlive DEF Cb!Unstarted, Cb!Waits, Cb!Woken, Cb!Threw, Cb!PortalAlone, Legal
  <2> QED BY <1>1, <2>1, <2>2, PortalTypes, PortalChecker DEF Cb!TypeOK, Cb!ProtocolTypeOK, Cb!ProtocolKept,
         Cb!A, PortalStatus
<1>2. CASE over # "no"
  <2>1. over = "destroyed" /\ Cb!A.state = "Initial" /\ ~v7
    BY <1>2 DEF Cb!Inv, Cb!Gone
  <2>2. Cb!CallsArrive /\ Legal(Cb!A)
    BY <2>1, PortalChecker DEF Cb!CallsArrive, Pending, Legal
  <2> QED BY <2>1, <2>2, PortalTypes, PortalChecker DEF Cb!TypeOK, Cb!ProtocolTypeOK, Cb!ProtocolKept,
         Cb!A, PortalStatus
<1> QED BY <1>1, <1>2

----------------------------------------------------------------------------
(* first | then(thenFn).                                                   *)

\* The checker in Sequence is this one.
LEMMA SequenceChecker ==
    /\ Sq!Checker = Checker /\ Sq!Fresh = Fresh /\ Sq!BeforeSuspend = BeforeSuspend
    /\ \A c : /\ Sq!Legal(c) <=> Legal(c)
              /\ Sq!Pending(c) <=> Pending(c)
    /\ \A c : /\ Sq!AboutToSetExecutor(c) = AboutToSetExecutor(c)
              /\ Sq!AboutToSuspend(c) = AboutToSuspend(c)
              /\ Sq!SuspendThrew(c) = SuspendThrew(c)
              /\ Sq!AboutToCancel(c) = AboutToCancel(c)
              /\ Sq!AboutToResume(c) = AboutToResume(c)
              /\ Sq!Resumed(c) = Resumed(c)
              /\ Sq!Reset(c) = Reset(c)
    /\ \A c, val : /\ Sq!ReadyReturned(c, val) = ReadyReturned(c, val)
                   /\ Sq!EarlyCancelReturned(c, val) = EarlyCancelReturned(c, val)
                   /\ Sq!CancelReturned(c, val) = CancelReturned(c, val)
                   /\ Sq!MustResumeReturned(c, val) = MustResumeReturned(c, val)
    /\ \A c, moves : Sq!Step(c, moves) = Step(c, moves)
<1>1. \A c, moves : Sq!Step(c, moves) = Step(c, moves)
  BY DEF Sq!Step, Step
<1>2. Sq!CheckerState = CheckerState /\ Sq!BeforeSuspend = BeforeSuspend /\ Sq!Fresh = Fresh
  BY DEF Sq!CheckerState, CheckerState, Sq!BeforeSuspend, BeforeSuspend, Sq!Fresh, Fresh
<1>3. \A c : /\ Sq!AboutToSetExecutor(c) = AboutToSetExecutor(c)
             /\ Sq!AboutToSuspend(c) = AboutToSuspend(c)
             /\ Sq!SuspendThrew(c) = SuspendThrew(c)
             /\ Sq!AboutToCancel(c) = AboutToCancel(c)
             /\ Sq!AboutToResume(c) = AboutToResume(c)
             /\ Sq!Resumed(c) = Resumed(c)
             /\ Sq!Reset(c) = Reset(c)
  BY <1>1, <1>2 DEF Sq!AboutToSetExecutor, AboutToSetExecutor, Sq!AboutToSuspend, AboutToSuspend,
     Sq!SuspendThrew, SuspendThrew, Sq!AboutToCancel, AboutToCancel, Sq!AboutToResume,
     AboutToResume, Sq!Resumed, Resumed, Sq!Reset, Reset
<1>4. \A c, val : /\ Sq!ReadyReturned(c, val) = ReadyReturned(c, val)
                  /\ Sq!EarlyCancelReturned(c, val) = EarlyCancelReturned(c, val)
                  /\ Sq!CancelReturned(c, val) = CancelReturned(c, val)
                  /\ Sq!MustResumeReturned(c, val) = MustResumeReturned(c, val)
  BY <1>1 DEF Sq!ReadyReturned, ReadyReturned, Sq!EarlyCancelReturned, EarlyCancelReturned,
     Sq!CancelReturned, CancelReturned, Sq!MustResumeReturned, MustResumeReturned
<1> QED BY <1>1, <1>2, <1>3, <1>4 DEF Sq!Checker, Checker, Sq!Legal, Legal, Sq!Pending, Pending

SequenceStages == {"first", "second", "neither", "exception"}

LEMMA SequenceTypes ==
    ASSUME Sq!Inv
    PROVE  /\ above \in [{1} -> Checker] /\ below \in [{1, 2} -> Checker]
           /\ Sq!A \in Checker /\ Sq!First \in Checker /\ Sq!Second \in Checker
           /\ above = [above EXCEPT ![1] = Sq!A]
           /\ below = [below EXCEPT ![1] = Sq!First, ![2] = Sq!Second]
           /\ v1 \in SequenceStages /\ v2 \in BOOLEAN
<1>1. above \in [{1} -> Checker] /\ below \in [{1, 2} -> Checker]
  BY SequenceChecker DEF Sq!Inv
<1>2. /\ Sq!A \in Checker /\ Sq!First \in Checker /\ Sq!Second \in Checker
      /\ above = [above EXCEPT ![1] = Sq!A]
      /\ below = [below EXCEPT ![1] = Sq!First, ![2] = Sq!Second]
  BY <1>1 DEF Sq!A, Sq!First, Sq!Second
<1> QED BY <1>1, <1>2 DEF Sq!Inv, SequenceStages

\* The three of them go to a, c and d.
LEMMA SequenceGoesTo ==
    ASSUME Sq!Inv, NEW a \in Checker, NEW c \in Checker, NEW d \in Checker,
           above' = [above EXCEPT ![1] = a], below' = [below EXCEPT ![1] = c, ![2] = d]
    PROVE  /\ above' \in [{1} -> Sq!Checker] /\ below' \in [{1, 2} -> Sq!Checker]
           /\ Sq!A' = a /\ Sq!First' = c /\ Sq!Second' = d
BY SequenceChecker, SequenceTypes DEF Sq!A, Sq!First, Sq!Second

\* It is there, and goes on in one of the five ways.
LEMMA SequenceGoesOn ==
    ASSUME above' \in [{1} -> Sq!Checker], below' \in [{1, 2} -> Sq!Checker],
           v1' \in SequenceStages, v2' \in BOOLEAN, over' = "no",
           \/ Sq!Between'
           \/ (Sq!Begins' \/ Sq!FirstStage' \/ Sq!SecondStage' \/ Sq!NoStage') /\ calls' \in Seq(Sq!Called)
    PROVE  Sq!Inv'
BY DEF Sq!Inv, SequenceStages, Sq!Called

\* It was there, and where.
LEMMA SequenceAlive ==
    ASSUME Sq!Inv, over = "no"
    PROVE  \/ Sq!Between
           \/ (Sq!Begins \/ Sq!FirstStage \/ Sq!SecondStage \/ Sq!NoStage) /\ calls \in Seq(Sq!Called)
BY DEF Sq!Inv

\* One child goes on.
LEMMA SequenceOneGoes ==
    ASSUME Sq!Inv, NEW x \in Checker
    PROVE  /\ [below EXCEPT ![1] = x] = [below EXCEPT ![1] = x, ![2] = Sq!Second]
           /\ [below EXCEPT ![2] = x] = [below EXCEPT ![1] = Sq!First, ![2] = x]
<1>1. below \in [{1, 2} -> Checker] /\ Sq!First = below[1] /\ Sq!Second = below[2]
  BY SequenceTypes DEF Sq!First, Sq!Second
<1> DEFINE m == [below EXCEPT ![1] = x]
           n == [below EXCEPT ![1] = x, ![2] = Sq!Second]
<1>2. m = n
  <2>1. m \in [{1, 2} -> Checker] /\ n \in [{1, 2} -> Checker]
    BY <1>1
  <2>2. m[1] = n[1] /\ m[2] = n[2]
    BY <1>1
  <2> HIDE DEF m, n
  <2> QED BY <2>1, <2>2
<1>3. [below EXCEPT ![2] = x] = [below EXCEPT ![1] = Sq!First, ![2] = x]
  BY <1>1
<1> QED BY <1>2, <1>3

\* What may be called, and come back.
LEMMA SequenceCalls ==
    ASSUME NEW s \in Seq(Sq!Called)
    PROVE  /\ s # <<>> => Tail(s) \in Seq(Sq!Called) /\ Head(s) \in Sq!Called
           /\ \A fn \in {"await_suspend", "await_cancel"} : \A n \in {1, 2} :
                <<[fn |-> fn, to |-> n]>> \o s \in Seq(Sq!Called)
           /\ <<[fn |-> "thenFn", to |-> 2]>> \o s # <<>>
           /\ Head(<<[fn |-> "thenFn", to |-> 2]>> \o s) = [fn |-> "thenFn", to |-> 2]
           /\ Tail(<<[fn |-> "thenFn", to |-> 2]>> \o s) = s
<1>1. s # <<>> => Tail(s) \in Seq(Sq!Called) /\ Head(s) \in Sq!Called
  BY HeadTailProperties
<1>2. \A fn \in {"await_suspend", "await_cancel"} : \A n \in {1, 2} : <<[fn |-> fn, to |-> n]>> \in Seq(Sq!Called)
  BY DEF Sq!Called
<1>3. \A fn \in {"await_suspend", "await_cancel"} : \A n \in {1, 2} :
         <<[fn |-> fn, to |-> n]>> \o s \in Seq(Sq!Called)
  BY <1>2, ConcatProperties
<1> DEFINE e == [fn |-> "thenFn", to |-> 2]
           S == Sq!Called \cup {e}
<1>4. s \in Seq(S) /\ e \in S
  OBVIOUS
<1> HIDE DEF e, S
<1>5. <<e>> \o s # <<>> /\ Head(<<e>> \o s) = e /\ Tail(<<e>> \o s) = s
  BY <1>4
<1> QED BY <1>1, <1>3, <1>5 DEF e

\* thenFn is called in between only.
LEMMA SequenceInThenFn ==
    ASSUME Sq!Inv, Sq!InCall("thenFn")
    PROVE  Sq!Between /\ over = "no"
<1>1. calls # <<>> /\ Head(calls).fn = "thenFn"
  BY DEF Sq!InCall
<1>2. calls \notin Seq(Sq!Called)
  <2> SUFFICES ASSUME calls \in Seq(Sq!Called) PROVE FALSE
    OBVIOUS
  <2>1. Head(calls) \in Sq!Called
    BY <1>1, SequenceCalls
  <2> QED BY <1>1, <2>1 DEF Sq!Called
<1> QED BY <1>2 DEF Sq!Inv

\* The others are not called in between.
LEMMA SequenceInChild ==
    ASSUME Sq!Inv, Sq!InCall("await_suspend") \/ Sq!InCall("await_cancel")
    PROVE  /\ ~Sq!Between /\ Sq!Callee \in {1, 2}
           /\ calls \in Seq(Sq!Called) /\ Tail(calls) \in Seq(Sq!Called)
<1>1. calls # <<>> /\ Head(calls).fn # "thenFn"
  BY DEF Sq!InCall
<1>2. ~Sq!Between
  <2>1. Sq!Between => Head(calls).fn = "thenFn"
    BY DEF Sq!Between
  <2> QED BY <1>1, <2>1
<1>3. calls \in Seq(Sq!Called)
  BY <1>2 DEF Sq!Inv
<1>4. Tail(calls) \in Seq(Sq!Called) /\ Head(calls) \in Sq!Called
  BY <1>1, <1>3, SequenceCalls
<1>5. Head(calls).to \in {1, 2}
  BY <1>4 DEF Sq!Called
<1> QED BY <1>2, <1>3, <1>4, <1>5 DEF Sq!Callee

LEMMA SequenceReady ==
    ASSUME Sq!Inv, Sq!Ready
    PROVE  Sq!Inv'
<1> DEFINE a == ReadyReturned(Sq!A, FALSE)
<1>1. /\ over = "no" /\ Sq!A.state \in BeforeSuspend /\ above' = [above EXCEPT ![1] = a] /\ Legal(a)
      /\ UNCHANGED <<below, calls, over, v1, v2>>
  BY SequenceChecker DEF Sq!Ready, Sq!Calls
<1>2. /\ a \in Checker /\ a.hasExecutor = Sq!A.hasExecutor
      /\ \/ Sq!A.state \in {"Initial", "NotReady"} /\ a.state = "NotReady"
         \/ Sq!A.state \in {"InitialCxlPend", "CancelPending"} /\ a.state = "CancelPending"
  BY <1>1, ReadyMoves, SequenceTypes DEF Goes, Legal, BeforeSuspend
<1> HIDE DEF a
<1>3. /\ above' \in [{1} -> Sq!Checker] /\ below' \in [{1, 2} -> Sq!Checker]
      /\ Sq!A' = a /\ Sq!First' = Sq!First /\ Sq!Second' = Sq!Second
  BY <1>1, <1>2, SequenceGoesTo, SequenceTypes
<1>4. Sq!Begins /\ calls \in Seq(Sq!Called)
  BY <1>1, SequenceAlive, SequenceChecker DEF Sq!Between, Sq!FirstStage, Sq!SecondStage, Sq!NoStage,
     BeforeSuspend, Pending
<1>5. Sq!Begins'
  BY <1>1, <1>2, <1>3, <1>4 DEF Sq!Begins
<1> QED BY <1>1, <1>3, <1>4, <1>5, SequenceTypes, SequenceGoesOn

LEMMA SequenceSetExecutor ==
    ASSUME Sq!Inv, Sq!SetExecutor
    PROVE  Sq!Inv'
<1> DEFINE a == AboutToSetExecutor(Sq!A)
           c == AboutToSetExecutor(Sq!First)
<1>1. /\ over = "no" /\ above' = [above EXCEPT ![1] = a] /\ Legal(a)
      /\ below' = [below EXCEPT ![1] = c, ![2] = Sq!Second]
      /\ UNCHANGED <<calls, over, v1, v2>>
  BY SequenceChecker DEF Sq!SetExecutor, Sq!Calls, Sq!Below
<1>2. a \in Checker /\ a.state = Sq!A.state /\ Sq!A.state \in BeforeSuspend /\ a.hasExecutor
  BY <1>1, SetExecutorMoves, SequenceTypes DEF Legal
<1>3. Sq!Begins /\ calls \in Seq(Sq!Called)
  BY <1>1, <1>2, SequenceAlive, SequenceChecker DEF Sq!Between, Sq!FirstStage, Sq!SecondStage,
     Sq!NoStage, BeforeSuspend, Pending
<1>4. c \in Checker /\ c.state = Sq!First.state /\ c.hasExecutor
  BY <1>3, SetExecutorMoves, SequenceTypes DEF Sq!Begins, BeforeSuspend
<1>5. a.hasExecutor = c.hasExecutor
  BY DEF AboutToSetExecutor
<1> HIDE DEF a, c
<1>6. /\ above' \in [{1} -> Sq!Checker] /\ below' \in [{1, 2} -> Sq!Checker]
      /\ Sq!A' = a /\ Sq!First' = c /\ Sq!Second' = Sq!Second
  BY <1>1, <1>2, <1>4, SequenceGoesTo, SequenceTypes
<1>7. Sq!Begins'
  BY <1>1, <1>2, <1>3, <1>4, <1>5, <1>6 DEF Sq!Begins
<1> QED BY <1>1, <1>3, <1>6, <1>7, SequenceTypes, SequenceGoesOn

LEMMA SequenceEarlyCancel ==
    ASSUME Sq!Inv, Sq!EarlyCancel
    PROVE  Sq!Inv'
<1>1. PICK val \in BOOLEAN :
          /\ Sq!Calls(1, EarlyCancelReturned(Sq!A, val))
          /\ below' = [below EXCEPT ![1] = EarlyCancelReturned(Sq!First, val), ![2] = Sq!Second]
          /\ v2' = TRUE /\ UNCHANGED <<calls, over, v1>>
  BY SequenceChecker DEF Sq!EarlyCancel, Sq!Below
<1> DEFINE a == EarlyCancelReturned(Sq!A, val)
           c == EarlyCancelReturned(Sq!First, val)
<1>2. over = "no" /\ above' = [above EXCEPT ![1] = a] /\ Legal(a)
  BY <1>1, SequenceChecker DEF Sq!Calls
<1>3. /\ a \in Checker /\ a.hasExecutor = Sq!A.hasExecutor
      /\ \/ val = TRUE /\ Sq!A.state \in {"Initial", "NotReady", "ReadyImmediately"} /\ a.state = "Cancelled"
         \/ val = FALSE /\ Sq!A.state = "Initial" /\ a.state = "InitialCxlPend"
         \/ val = FALSE /\ Sq!A.state = "NotReady" /\ a.state = "CancelPending"
         \/ val = FALSE /\ Sq!A.state = "ReadyImmediately" /\ a.state = "ReadyAfterCancel"
  <2>1. CASE val = TRUE
    BY <1>2, <2>1, EarlyCancelMoves, SequenceTypes DEF Goes, Legal
  <2>2. CASE val = FALSE
    BY <1>2, <2>2, EarlyCancelMoves, SequenceTypes DEF Goes, Legal
  <2> QED BY <2>1, <2>2
<1>4. Sq!Begins /\ calls \in Seq(Sq!Called)
  BY <1>2, <1>3, SequenceAlive, SequenceChecker DEF Sq!Between, Sq!FirstStage, Sq!SecondStage,
     Sq!NoStage, Pending
<1>5. Sq!First.state = "Initial" /\ Sq!A.state # "ReadyImmediately"
  BY <1>3, <1>4 DEF Sq!Begins
<1>6. /\ c \in Checker /\ c.hasExecutor = Sq!First.hasExecutor
      /\ val = TRUE => c.state = "Cancelled"
      /\ val = FALSE => c.state = "InitialCxlPend"
  <2>1. CASE val = TRUE
    BY <1>5, <2>1, EarlyCancelMoves, SequenceTypes DEF Goes
  <2>2. CASE val = FALSE
    BY <1>5, <2>2, EarlyCancelMoves, SequenceTypes DEF Goes
  <2> QED BY <2>1, <2>2
<1> HIDE DEF a, c
<1>7. /\ above' \in [{1} -> Sq!Checker] /\ below' \in [{1, 2} -> Sq!Checker]
      /\ Sq!A' = a /\ Sq!First' = c /\ Sq!Second' = Sq!Second
  BY <1>1, <1>2, <1>3, <1>6, SequenceGoesTo, SequenceTypes DEF c
<1>8. CASE val = TRUE
  <2>1. Sq!FirstStage'
    BY <1>1, <1>3, <1>4, <1>6, <1>7, <1>8 DEF Sq!Begins, Sq!FirstStage
  <2> QED BY <1>1, <1>2, <1>4, <1>7, <2>1, SequenceTypes, SequenceGoesOn
<1>9. CASE val = FALSE
  <2>1. Sq!Begins'
    BY <1>1, <1>3, <1>4, <1>5, <1>6, <1>7, <1>9 DEF Sq!Begins
  <2> QED BY <1>1, <1>2, <1>4, <1>7, <2>1, SequenceTypes, SequenceGoesOn
<1> QED BY <1>8, <1>9

\* kickOffSecond(), once the first stage has its result.
LEMMA SequenceKicksOff ==
    ASSUME Sq!Inv, over = "no", NEW a \in Checker, NEW c \in Checker, Sq!KickOffSecond(a, c),
           v1 = "first", Sq!Second.state = "Initial", calls \in Seq(Sq!Called),
           Pending(a), v2 <=> a.state = "Cancelling",
           v2 => c.state = "ReadyAfterCancel",
           ~v2 => c.state \in {"ReadyImmediately", "Ready"},
           UNCHANGED <<over, v2>>
    PROVE  Sq!Inv'
<1> DEFINE r == Resumed(a)
           m == MustResumeReturned(c, FALSE)
           t == IF v2 THEN MustResumeReturned(c, TRUE) ELSE c
           w == AboutToResume(t)
<1>1. r \in Checker /\ r.state = IF v2 THEN "ReadyAfterCancel" ELSE "Ready"
  BY ResumeMoves DEF Goes, Pending
<1>2. w \in Checker /\ w.state = "Done"
  <2>1. CASE v2
    <3>1. t \in Checker /\ t.state = "Ready"
      BY <2>1, MustResumeMoves DEF Goes
    <3> HIDE DEF t
    <3> QED BY <3>1, ResumeMoves DEF Goes
  <2>2. CASE ~v2
    <3>1. t \in Checker /\ t.state \in {"ReadyImmediately", "Ready"}
      BY <2>2
    <3> HIDE DEF t
    <3> QED BY <3>1, ResumeMoves DEF Goes
  <2> QED BY <2>1, <2>2
<1>3. CASE /\ v2 /\ above' = [above EXCEPT ![1] = r] /\ UNCHANGED <<calls, v1>>
           /\ below' = [below EXCEPT ![1] = m, ![2] = Sq!Second]
  <2>1. m \in Checker /\ m.state = "Cancelled"
    BY <1>3, MustResumeMoves DEF Goes
  <2> HIDE DEF r, m
  <2>2. /\ above' \in [{1} -> Sq!Checker] /\ below' \in [{1, 2} -> Sq!Checker]
        /\ Sq!A' = r /\ Sq!First' = m /\ Sq!Second' = Sq!Second
    BY <1>1, <1>3, <2>1, SequenceGoesTo, SequenceTypes
  <2>3. Sq!FirstStage'
    BY <1>1, <1>3, <2>1, <2>2 DEF Sq!FirstStage
  <2> QED BY <1>3, <2>2, <2>3, SequenceTypes, SequenceGoesOn
<1>4. CASE /\ above' = [above EXCEPT ![1] = r] /\ v1' = "exception" /\ calls' = calls
           /\ below' = [below EXCEPT ![1] = w, ![2] = Sq!Second]
  <2> HIDE DEF r, w
  <2>1. /\ above' \in [{1} -> Sq!Checker] /\ below' \in [{1, 2} -> Sq!Checker]
        /\ Sq!A' = r /\ Sq!First' = w /\ Sq!Second' = Sq!Second
    BY <1>1, <1>2, <1>4, SequenceGoesTo, SequenceTypes
  <2>2. Sq!NoStage'
    BY <1>1, <1>2, <1>4, <2>1 DEF Sq!NoStage
  <2>3. v1' \in SequenceStages
    BY <1>4 DEF SequenceStages
  <2> QED BY <1>4, <2>1, <2>2, <2>3, SequenceTypes, SequenceGoesOn
<1>5. CASE /\ above' = [above EXCEPT ![1] = a] /\ v1' = "neither"
           /\ calls' = <<[fn |-> "thenFn", to |-> 2]>> \o calls
           /\ below' = [below EXCEPT ![1] = w, ![2] = Sq!Second]
  <2> HIDE DEF w
  <2>1. /\ above' \in [{1} -> Sq!Checker] /\ below' \in [{1, 2} -> Sq!Checker]
        /\ Sq!A' = a /\ Sq!First' = w /\ Sq!Second' = Sq!Second
    BY <1>2, <1>5, SequenceGoesTo, SequenceTypes
  <2>2. /\ calls' # <<>> /\ Head(calls') = [fn |-> "thenFn", to |-> 2] /\ Tail(calls') = calls
    BY <1>5, SequenceCalls
  <2>3. Sq!Between'
    <3>1. Tail(calls)' \in Seq(Sq!Called)
      BY <2>2
    <3> QED BY <1>2, <1>5, <2>1, <2>2, <3>1, SequenceChecker DEF Sq!Between, Sq!Pending, Pending, Sq!Called
  <2>4. v1' \in SequenceStages
    BY <1>5 DEF SequenceStages
  <2> QED BY <2>1, <2>3, <2>4, SequenceTypes, SequenceGoesOn
<1> QED BY <1>3, <1>4, <1>5, SequenceChecker DEF Sq!KickOffSecond, Sq!ResumeParent, Sq!Below, Sq!Calling

LEMMA SequenceSuspend ==
    ASSUME Sq!Inv, Sq!Suspend
    PROVE  Sq!Inv'
<1> DEFINE a == AboutToSuspend(Sq!A)
           c == ReadyReturned(Sq!First, TRUE)
           e == ReadyReturned(Sq!First, FALSE)
           d == AboutToSuspend(e)
<1>1. /\ over = "no" /\ Legal(a) /\ UNCHANGED <<over, v2>>
      /\ \/ Sq!KickOffSecond(a, c)
         \/ /\ Sq!Calls(1, a) /\ below' = [below EXCEPT ![1] = d, ![2] = Sq!Second]
            /\ calls' = <<[fn |-> "await_suspend", to |-> 1]>> \o calls
            /\ v1' = v1
  BY SequenceChecker DEF Sq!Suspend, Sq!Below, Sq!Calling
<1>2. /\ a \in Checker /\ Sq!A.hasExecutor
      /\ \/ Sq!A.state = "NotReady" /\ a.state = "Running"
         \/ Sq!A.state = "CancelPending" /\ a.state = "Cancelling"
  BY <1>1, SuspendMoves, SequenceTypes DEF Goes, Legal
<1>3. Sq!Begins /\ calls \in Seq(Sq!Called)
  BY <1>1, <1>2, SequenceAlive, SequenceChecker DEF Sq!Between, Sq!FirstStage, Sq!SecondStage,
     Sq!NoStage, Pending
<1>4. /\ v1 = "first" /\ Sq!Second.state = "Initial" /\ Sq!First.hasExecutor
      /\ v2 <=> a.state = "Cancelling"
      /\ Sq!First.state = IF v2 THEN "InitialCxlPend" ELSE "Initial"
  BY <1>2, <1>3 DEF Sq!Begins
<1>5. /\ c \in Checker
      /\ v2 => c.state = "ReadyAfterCancel"
      /\ ~v2 => c.state = "ReadyImmediately"
  BY <1>4, ReadyMoves, SequenceTypes DEF Goes
<1>6. d \in Checker /\ d.state = a.state
  <2>1. e \in Checker /\ e.hasExecutor /\ e.state = IF v2 THEN "CancelPending" ELSE "NotReady"
    BY <1>4, ReadyMoves, SequenceTypes DEF Goes
  <2> HIDE DEF a, e
  <2> QED BY <1>2, <1>4, <2>1, SuspendMoves DEF Goes
<1>7. Pending(a)
  BY <1>2 DEF Pending
<1> HIDE DEF a, c, d
<1>8. CASE Sq!KickOffSecond(a, c)
  BY <1>1, <1>2, <1>3, <1>4, <1>5, <1>7, <1>8, SequenceKicksOff
<1>9. CASE /\ Sq!Calls(1, a) /\ below' = [below EXCEPT ![1] = d, ![2] = Sq!Second]
           /\ calls' = <<[fn |-> "await_suspend", to |-> 1]>> \o calls
           /\ v1' = v1
  <2>1. above' = [above EXCEPT ![1] = a]
    BY <1>9 DEF Sq!Calls
  <2>2. /\ above' \in [{1} -> Sq!Checker] /\ below' \in [{1, 2} -> Sq!Checker]
        /\ Sq!A' = a /\ Sq!First' = d /\ Sq!Second' = Sq!Second
    BY <1>2, <1>6, <1>9, <2>1, SequenceGoesTo, SequenceTypes
  <2>3. Sq!FirstStage'
    BY <1>1, <1>4, <1>6, <1>7, <1>9, <2>2 DEF Sq!FirstStage, Sq!Pending, Pending
  <2>4. calls' \in Seq(Sq!Called)
    BY <1>3, <1>9, SequenceCalls
  <2> QED BY <1>1, <1>9, <2>2, <2>3, <2>4, SequenceTypes, SequenceGoesOn
<1> QED BY <1>1, <1>8, <1>9

LEMMA SequenceFirstResumes ==
    ASSUME Sq!Inv, Sq!FirstResumes
    PROVE  Sq!Inv'
<1> DEFINE c == Resumed(Sq!First)
<1>1. over = "no" /\ Pending(Sq!First) /\ Sq!KickOffSecond(Sq!A, c) /\ UNCHANGED <<over, v2>>
  BY SequenceChecker DEF Sq!FirstResumes
<1>2. /\ v1 = "first" /\ Sq!Second.state = "Initial" /\ calls \in Seq(Sq!Called)
      /\ Sq!First.state = Sq!A.state /\ Pending(Sq!A)
      /\ v2 <=> Sq!A.state = "Cancelling"
  BY <1>1, SequenceAlive, SequenceChecker DEF Sq!Between, Sq!Begins, Sq!FirstStage, Sq!SecondStage,
     Sq!NoStage, Pending
<1>3. /\ c \in Checker
      /\ v2 => c.state = "ReadyAfterCancel"
      /\ ~v2 => c.state = "Ready"
  BY <1>2, ResumeMoves, SequenceTypes DEF Goes, Pending
<1> HIDE DEF c
<1> QED BY <1>1, <1>2, <1>3, SequenceTypes, SequenceKicksOff

LEMMA SequenceThenFnThrows ==
    ASSUME Sq!Inv, Sq!ThenFnThrows
    PROVE  Sq!Inv'
<1> DEFINE a == Resumed(Sq!A)
<1>1. /\ Sq!InCall("thenFn") /\ calls' = Tail(calls) /\ v1' = "exception"
      /\ above' = [above EXCEPT ![1] = a] /\ UNCHANGED <<below, over, v2>>
  BY SequenceChecker DEF Sq!ThenFnThrows, Sq!ResumeParent
<1>2. Sq!Between /\ over = "no"
  BY <1>1, SequenceInThenFn
<1>3. a \in Checker /\ a.state \in {"Ready", "ReadyAfterCancel"}
  BY <1>2, ResumeMoves, SequenceTypes, SequenceChecker DEF Goes, Pending, Sq!Between
<1> HIDE DEF a
<1>4. /\ above' \in [{1} -> Sq!Checker] /\ below' \in [{1, 2} -> Sq!Checker]
      /\ Sq!A' = a /\ Sq!First' = Sq!First /\ Sq!Second' = Sq!Second
  BY <1>1, <1>3, SequenceGoesTo, SequenceTypes
<1>5. Sq!NoStage' /\ calls' \in Seq(Sq!Called)
  BY <1>1, <1>2, <1>3, <1>4 DEF Sq!Between, Sq!NoStage
<1>6. v1' \in SequenceStages
  BY <1>1 DEF SequenceStages
<1> QED BY <1>1, <1>2, <1>4, <1>5, <1>6, SequenceTypes, SequenceGoesOn

\* thenFn has returned: the second stage is skipped,
LEMMA SequenceSkips ==
    ASSUME Sq!Inv, Sq!InCall("thenFn"), v2, calls' = Tail(calls),
           above' = [above EXCEPT ![1] = Resumed(Sq!A)], UNCHANGED <<below, over, v1, v2>>
    PROVE  Sq!Inv'
<1> DEFINE a == Resumed(Sq!A)
<1>1. Sq!Between /\ over = "no"
  BY SequenceInThenFn
<1>2. a \in Checker /\ a.state = "ReadyAfterCancel"
  BY <1>1, ResumeMoves, SequenceTypes DEF Goes, Sq!Between
<1> HIDE DEF a
<1>3. /\ above' \in [{1} -> Sq!Checker] /\ below' \in [{1, 2} -> Sq!Checker]
      /\ Sq!A' = a /\ Sq!First' = Sq!First /\ Sq!Second' = Sq!Second
  BY <1>2, SequenceGoesTo, SequenceTypes DEF a
<1>4. Sq!NoStage' /\ calls' \in Seq(Sq!Called)
  BY <1>1, <1>2, <1>3 DEF Sq!Between, Sq!NoStage
<1> QED BY <1>1, <1>3, <1>4, SequenceTypes, SequenceGoesOn

\* or ready at once, or started.
LEMMA SequenceThenFnReturns ==
    ASSUME Sq!Inv, Sq!ThenFnReturns
    PROVE  Sq!Inv'
<1> DEFINE x == IF v2 THEN EarlyCancelReturned(Fresh, FALSE) ELSE Fresh
           a == Resumed(Sq!A)
           b == ReadyReturned(x, TRUE)
           c == ReadyReturned(x, FALSE)
           d == AboutToSetExecutor(c)
           e == AboutToSuspend(d)
<1>1. /\ Sq!InCall("thenFn") /\ UNCHANGED <<over, v2>>
      /\ \/ /\ v2 /\ calls' = Tail(calls) /\ above' = [above EXCEPT ![1] = a]
            /\ UNCHANGED <<below, v1>>
         \/ /\ v1' = "second" /\ below' = [below EXCEPT ![1] = Sq!First, ![2] = b]
            /\ above' = [above EXCEPT ![1] = a] /\ calls' = Tail(calls)
         \/ /\ v1' = "second" /\ below' = [below EXCEPT ![1] = Sq!First, ![2] = e]
            /\ above' = above /\ calls' = <<[fn |-> "await_suspend", to |-> 2]>> \o Tail(calls)
  BY SequenceChecker DEF Sq!ThenFnReturns, Sq!ResumeParent, Sq!Below, Sq!AsksSecond
<1>2. Sq!Between /\ over = "no"
  BY <1>1, SequenceInThenFn
<1>3. /\ Sq!A.state \in {"Running", "Cancelling"}
      /\ v2 <=> Sq!A.state = "Cancelling"
      /\ Tail(calls) \in Seq(Sq!Called) /\ Sq!First.state = "Done"
  BY <1>2, SequenceChecker DEF Sq!Between, Pending
<1>4. x \in Checker /\ x.state = IF v2 THEN "InitialCxlPend" ELSE "Initial"
  <2>1. Fresh \in Checker /\ Fresh.state = "Initial"
    BY DEF Fresh, Checker, CheckerState
  <2> QED BY <2>1, EarlyCancelMoves DEF Goes
<1> HIDE DEF x
<1>5. b \in Checker /\ b.state = IF v2 THEN "ReadyAfterCancel" ELSE "ReadyImmediately"
  BY <1>4, ReadyMoves DEF Goes
<1>6. c \in Checker /\ c.state = IF v2 THEN "CancelPending" ELSE "NotReady"
  BY <1>4, ReadyMoves DEF Goes
<1> HIDE DEF c
<1>7. d \in Checker /\ d.hasExecutor /\ d.state = c.state
  BY <1>6, SetExecutorMoves DEF BeforeSuspend
<1> HIDE DEF d
<1>8. e \in Checker /\ e.state = Sq!A.state
  BY <1>3, <1>6, <1>7, SuspendMoves DEF Goes
<1>9. a \in Checker /\ a.state = IF v2 THEN "ReadyAfterCancel" ELSE "Ready"
  BY <1>3, ResumeMoves, SequenceTypes DEF Goes
<1>10. CASE v2 /\ calls' = Tail(calls) /\ above' = [above EXCEPT ![1] = a] /\ UNCHANGED <<below, v1>>
  BY <1>1, <1>10, SequenceSkips
<1> HIDE DEF a, b, e
<1>11. CASE /\ v1' = "second" /\ below' = [below EXCEPT ![1] = Sq!First, ![2] = b]
            /\ above' = [above EXCEPT ![1] = a] /\ calls' = Tail(calls)
  <2>1. /\ above' \in [{1} -> Sq!Checker] /\ below' \in [{1, 2} -> Sq!Checker]
        /\ Sq!A' = a /\ Sq!First' = Sq!First /\ Sq!Second' = b
    BY <1>5, <1>9, <1>11, SequenceGoesTo, SequenceTypes
  <2>2. Sq!SecondStage' /\ calls' \in Seq(Sq!Called)
    BY <1>3, <1>5, <1>9, <1>11, <2>1 DEF Sq!SecondStage
  <2>3. v1' \in SequenceStages
    BY <1>11 DEF SequenceStages
  <2> QED BY <1>1, <1>2, <2>1, <2>2, <2>3, SequenceTypes, SequenceGoesOn
<1>12. CASE /\ v1' = "second" /\ below' = [below EXCEPT ![1] = Sq!First, ![2] = e]
            /\ above' = above /\ calls' = <<[fn |-> "await_suspend", to |-> 2]>> \o Tail(calls)
  <2>1. /\ above' \in [{1} -> Sq!Checker] /\ below' \in [{1, 2} -> Sq!Checker]
        /\ Sq!A' = Sq!A /\ Sq!First' = Sq!First /\ Sq!Second' = e
    BY <1>8, <1>12, SequenceGoesTo, SequenceTypes
  <2>2. calls' \in Seq(Sq!Called)
    BY <1>3, <1>12, SequenceCalls
  <2>3. Sq!SecondStage'
    BY <1>3, <1>8, <1>12, <2>1 DEF Sq!SecondStage, Sq!Pending
  <2>4. v1' \in SequenceStages
    BY <1>12 DEF SequenceStages
  <2> QED BY <1>1, <1>2, <2>1, <2>2, <2>3, <2>4, SequenceTypes, SequenceGoesOn
<1> QED BY <1>1, <1>10, <1>11, <1>12

LEMMA SequenceSecondResumes ==
    ASSUME Sq!Inv, Sq!SecondResumes
    PROVE  Sq!Inv'
<1> DEFINE a == Resumed(Sq!A)
           d == Resumed(Sq!Second)
<1>1. /\ over = "no" /\ Pending(Sq!Second) /\ above' = [above EXCEPT ![1] = a]
      /\ below' = [below EXCEPT ![1] = Sq!First, ![2] = d] /\ UNCHANGED <<calls, over, v1, v2>>
  BY SequenceChecker DEF Sq!SecondResumes, Sq!ResumeParent, Sq!Below
<1>2. /\ Sq!SecondStage /\ calls \in Seq(Sq!Called) /\ Sq!Second.state = Sq!A.state
      /\ Sq!A.state \in {"Running", "Cancelling"}
  BY <1>1, SequenceAlive, SequenceChecker DEF Sq!Between, Sq!Begins, Sq!FirstStage, Sq!SecondStage,
     Sq!NoStage, Pending
<1>3. /\ a \in Checker /\ d \in Checker /\ d.state = a.state
      /\ a.state \in {"Ready", "ReadyAfterCancel"}
  BY <1>2, ResumeMoves, SequenceTypes DEF Goes
<1> HIDE DEF a, d
<1>4. /\ above' \in [{1} -> Sq!Checker] /\ below' \in [{1, 2} -> Sq!Checker]
      /\ Sq!A' = a /\ Sq!First' = Sq!First /\ Sq!Second' = d
  BY <1>1, <1>3, SequenceGoesTo, SequenceTypes
<1>5. Sq!SecondStage'
  BY <1>1, <1>2, <1>3, <1>4 DEF Sq!SecondStage
<1> QED BY <1>1, <1>2, <1>4, <1>5, SequenceTypes, SequenceGoesOn

LEMMA SequenceCancel ==
    ASSUME Sq!Inv, Sq!Cancel
    PROVE  Sq!Inv'
<1> DEFINE a == AboutToCancel(Sq!A)
           c == AboutToCancel(Sq!First)
           d == AboutToCancel(Sq!Second)
<1>1. /\ over = "no" /\ above' = [above EXCEPT ![1] = a] /\ Legal(a) /\ v2' = TRUE
      /\ UNCHANGED <<over, v1>>
  BY SequenceChecker DEF Sq!Cancel, Sq!Calls, Sq!Remembers
<1>2. a \in Checker /\ a.state = "Cancelling" /\ Sq!A.state = "Running"
  BY <1>1, CancelMoves, SequenceTypes DEF Goes, Legal
<1> HIDE DEF a
<1>3. CASE v1 = "first"
  <2>1. /\ below' = [below EXCEPT ![1] = c, ![2] = Sq!Second]
        /\ calls' = <<[fn |-> "await_cancel", to |-> 1]>> \o calls
    BY <1>3, SequenceChecker DEF Sq!Cancel, Sq!Below, Sq!Calling
  <2>2. /\ Sq!First.state = "Running" /\ Sq!Second.state = "Initial" /\ calls \in Seq(Sq!Called)
    BY <1>1, <1>2, <1>3, SequenceAlive DEF Sq!Between, Sq!Begins, Sq!FirstStage, Sq!SecondStage, Sq!NoStage
  <2>3. c \in Checker /\ c.state = "Cancelling"
    BY <2>2, CancelMoves, SequenceTypes DEF Goes
  <2> HIDE DEF c
  <2>4. /\ above' \in [{1} -> Sq!Checker] /\ below' \in [{1, 2} -> Sq!Checker]
        /\ Sq!A' = a /\ Sq!First' = c /\ Sq!Second' = Sq!Second
    BY <1>1, <1>2, <2>1, <2>3, SequenceGoesTo, SequenceTypes
  <2>5. Sq!FirstStage'
    BY <1>1, <1>2, <1>3, <2>2, <2>3, <2>4 DEF Sq!FirstStage, Sq!Pending
  <2>6. calls' \in Seq(Sq!Called)
    BY <2>1, <2>2, SequenceCalls
  <2> QED BY <1>1, <2>4, <2>5, <2>6, SequenceTypes, SequenceGoesOn
<1>4. CASE v1 = "second"
  <2>1. /\ below' = [below EXCEPT ![1] = Sq!First, ![2] = d]
        /\ calls' = <<[fn |-> "await_cancel", to |-> 2]>> \o calls
    BY <1>4, SequenceChecker DEF Sq!Cancel, Sq!Below, Sq!Calling
  <2>2. /\ Sq!First.state = "Done" /\ Sq!Second.state = "Running" /\ calls \in Seq(Sq!Called)
    BY <1>1, <1>2, <1>4, SequenceAlive DEF Sq!Between, Sq!Begins, Sq!FirstStage, Sq!SecondStage, Sq!NoStage
  <2>3. d \in Checker /\ d.state = "Cancelling"
    BY <2>2, CancelMoves, SequenceTypes DEF Goes
  <2> HIDE DEF d
  <2>4. /\ above' \in [{1} -> Sq!Checker] /\ below' \in [{1, 2} -> Sq!Checker]
        /\ Sq!A' = a /\ Sq!First' = Sq!First /\ Sq!Second' = d
    BY <1>1, <1>2, <2>1, <2>3, SequenceGoesTo, SequenceTypes
  <2>5. Sq!SecondStage'
    BY <1>1, <1>2, <1>4, <2>2, <2>3, <2>4 DEF Sq!SecondStage, Sq!Pending
  <2>6. calls' \in Seq(Sq!Called)
    BY <2>1, <2>2, SequenceCalls
  <2> QED BY <1>1, <2>4, <2>5, <2>6, SequenceTypes, SequenceGoesOn
<1>5. CASE v1 \notin {"first", "second"}
  <2>1. UNCHANGED <<below, calls>>
    BY <1>5 DEF Sq!Cancel
  <2>2. Sq!Between
    BY <1>1, <1>2, <1>5, SequenceAlive DEF Sq!Begins, Sq!FirstStage, Sq!SecondStage, Sq!NoStage
  <2>3. /\ above' \in [{1} -> Sq!Checker] /\ below' \in [{1, 2} -> Sq!Checker]
        /\ Sq!A' = a /\ Sq!First' = Sq!First /\ Sq!Second' = Sq!Second
    BY <1>1, <1>2, <2>1, SequenceGoesTo, SequenceTypes
  <2>4. Sq!Between'
    BY <1>1, <1>2, <2>1, <2>2, <2>3 DEF Sq!Between, Sq!Pending, Sq!Called
  <2> QED BY <1>1, <2>3, <2>4, SequenceTypes, SequenceGoesOn
<1> QED BY <1>3, <1>4, <1>5

LEMMA SequenceReturns ==
    ASSUME Sq!Inv, Sq!Returns
    PROVE  Sq!Inv'
<1>1. /\ Sq!InCall("await_suspend") \/ Sq!InCall("await_cancel")
      /\ calls' = Tail(calls) /\ UNCHANGED <<above, below, over, v1, v2>>
  BY DEF Sq!Returns
<1>2. ~Sq!Between /\ Tail(calls) \in Seq(Sq!Called)
  BY <1>1, SequenceInChild
<1>3. Sq!A' = Sq!A /\ Sq!First' = Sq!First /\ Sq!Second' = Sq!Second
  BY <1>1 DEF Sq!A, Sq!First, Sq!Second
<1>4. Sq!Begins' = Sq!Begins /\ Sq!NoStage' = Sq!NoStage
  BY <1>1, <1>3 DEF Sq!Begins, Sq!NoStage
<1>5. Sq!FirstStage' = Sq!FirstStage /\ Sq!SecondStage' = Sq!SecondStage
  BY <1>1, <1>3 DEF Sq!FirstStage, Sq!SecondStage, Sq!Pending
<1>6. /\ above' \in [{1} -> Sq!Checker] /\ below' \in [{1, 2} -> Sq!Checker]
  BY <1>1, SequenceTypes, SequenceChecker
<1>7. CASE over = "no"
  BY <1>1, <1>2, <1>4, <1>5, <1>6, <1>7, SequenceAlive, SequenceTypes, SequenceGoesOn
<1>8. CASE over # "no"
  <2>1. calls' \in Seq(Sq!Called)'
    BY <1>1, <1>2 DEF Sq!Called
  <2>2. \/ /\ over = "destroyed"
           /\ Sq!A.state = "Initial" /\ Sq!First.state = "Initial" /\ Sq!Second.state = "Initial"
        \/ /\ over = "terminated"
           /\ Sq!Pending(Sq!A) /\ Sq!First.state = "Done" /\ Sq!Second.state = "Done"
    BY <1>8 DEF Sq!Inv
  <2> QED BY <1>1, <1>3, <1>6, <2>1, <2>2, SequenceTypes DEF Sq!Inv, SequenceStages, Sq!Pending
<1> QED BY <1>7, <1>8

\* A child is asked to cancel, and is gone.
LEMMA SequenceCancelReturnsTrue ==
    ASSUME Sq!Inv, Sq!CancelReturnsTrue
    PROVE  Sq!Inv'
<1> DEFINE a == CancelReturned(Sq!A, TRUE)
           c == CancelReturned(Sq!First, TRUE)
           d == CancelReturned(Sq!Second, TRUE)
<1>1. /\ Sq!InCall("await_cancel") /\ below[Sq!Callee].state = "Cancelling" /\ calls' = Tail(calls)
      /\ below' = [below EXCEPT ![Sq!Callee] = CancelReturned(@, TRUE)]
      /\ above' = [above EXCEPT ![1] = a] /\ UNCHANGED <<over, v1, v2>>
  BY SequenceChecker DEF Sq!CancelReturnsTrue, Sq!A
<1>2. ~Sq!Between /\ Sq!Callee \in {1, 2} /\ Tail(calls) \in Seq(Sq!Called)
  BY <1>1, SequenceInChild
<1>3. CASE Sq!Callee = 1
  <2>1. Sq!First.state = "Cancelling" /\ below' = [below EXCEPT ![1] = c]
    BY <1>1, <1>3 DEF Sq!First
  <2>2. over = "no"
    BY <2>1 DEF Sq!Inv
  <2>3. v1 = "first" /\ Sq!Second.state = "Initial" /\ Sq!A.state = "Cancelling"
    BY <1>2, <2>1, <2>2, SequenceAlive DEF Sq!Begins, Sq!FirstStage, Sq!SecondStage, Sq!NoStage
  <2>4. a \in Checker /\ a.state = "Cancelled" /\ c \in Checker /\ c.state = "Cancelled"
    BY <2>1, <2>3, CancelMoves, SequenceTypes DEF Goes
  <2> HIDE DEF a, c
  <2>5. /\ above' \in [{1} -> Sq!Checker] /\ below' \in [{1, 2} -> Sq!Checker]
        /\ Sq!A' = a /\ Sq!First' = c /\ Sq!Second' = Sq!Second
    <3>1. above' = [above EXCEPT ![1] = a] /\ below' = [below EXCEPT ![1] = c, ![2] = Sq!Second]
      BY <1>1, <2>1, <2>4, SequenceOneGoes
    <3> QED BY <2>4, <3>1, SequenceGoesTo, SequenceTypes
  <2>6. Sq!FirstStage'
    BY <1>1, <2>3, <2>4, <2>5 DEF Sq!FirstStage
  <2> QED BY <1>1, <1>2, <2>2, <2>5, <2>6, SequenceTypes, SequenceGoesOn
<1>4. CASE Sq!Callee = 2
  <2>1. Sq!Second.state = "Cancelling" /\ below' = [below EXCEPT ![2] = d]
    BY <1>1, <1>4 DEF Sq!Second
  <2>2. over = "no"
    BY <2>1 DEF Sq!Inv
  <2>3. v1 = "second" /\ Sq!First.state = "Done" /\ Sq!A.state = "Cancelling"
    BY <1>2, <2>1, <2>2, SequenceAlive DEF Sq!Begins, Sq!FirstStage, Sq!SecondStage, Sq!NoStage
  <2>4. a \in Checker /\ a.state = "Cancelled" /\ d \in Checker /\ d.state = "Cancelled"
    BY <2>1, <2>3, CancelMoves, SequenceTypes DEF Goes
  <2> HIDE DEF a, d
  <2>5. /\ above' \in [{1} -> Sq!Checker] /\ below' \in [{1, 2} -> Sq!Checker]
        /\ Sq!A' = a /\ Sq!First' = Sq!First /\ Sq!Second' = d
    <3>1. above' = [above EXCEPT ![1] = a] /\ below' = [below EXCEPT ![1] = Sq!First, ![2] = d]
      BY <1>1, <2>1, <2>4, SequenceOneGoes
    <3> QED BY <2>4, <3>1, SequenceGoesTo, SequenceTypes
  <2>6. Sq!SecondStage'
    BY <1>1, <2>3, <2>4, <2>5 DEF Sq!SecondStage
  <2> QED BY <1>1, <1>2, <2>2, <2>5, <2>6, SequenceTypes, SequenceGoesOn
<1> QED BY <1>2, <1>3, <1>4

\* The await_suspend() of the first stage throws, which is passed on; that of
\* the second one ends the program.
LEMMA SequenceSuspendThrows ==
    ASSUME Sq!Inv, Sq!SuspendThrows
    PROVE  Sq!Inv'
<1> DEFINE a == SuspendThrew(Sq!A)
           c == SuspendThrew(Sq!First)
           d == SuspendThrew(Sq!Second)
<1>1. /\ Sq!InCall("await_suspend") /\ over = "no" /\ Pending(below[Sq!Callee]) /\ calls' = Tail(calls)
      /\ below' = [below EXCEPT ![Sq!Callee] = SuspendThrew(@)]
      /\ Sq!Callee = 1 => above' = [above EXCEPT ![1] = a] /\ over' = over
      /\ Sq!Callee # 1 => over' = "terminated" /\ above' = above
      /\ UNCHANGED <<v1, v2>>
  BY SequenceChecker DEF Sq!SuspendThrows, Sq!A
<1>2. ~Sq!Between /\ Sq!Callee \in {1, 2} /\ Tail(calls) \in Seq(Sq!Called)
  BY <1>1, SequenceInChild
<1>3. CASE Sq!Callee = 1
  <2>1. Pending(Sq!First) /\ below' = [below EXCEPT ![1] = c]
    BY <1>1, <1>3 DEF Sq!First
  <2>2. v1 = "first" /\ Sq!Second.state = "Initial" /\ Pending(Sq!A)
    BY <1>1, <1>2, <2>1, SequenceAlive, SequenceChecker DEF Sq!Begins, Sq!FirstStage, Sq!SecondStage,
       Sq!NoStage, Pending
  <2>3. a \in Checker /\ a.state = "Done" /\ c \in Checker /\ c.state = "Done"
    BY <2>1, <2>2, SuspendMoves, SequenceTypes DEF Goes, Pending
  <2> HIDE DEF a, c
  <2>4. /\ above' \in [{1} -> Sq!Checker] /\ below' \in [{1, 2} -> Sq!Checker]
        /\ Sq!A' = a /\ Sq!First' = c /\ Sq!Second' = Sq!Second
    <3>1. above' = [above EXCEPT ![1] = a] /\ below' = [below EXCEPT ![1] = c, ![2] = Sq!Second]
      BY <1>1, <1>3, <2>1, <2>3, SequenceOneGoes
    <3> QED BY <2>3, <3>1, SequenceGoesTo, SequenceTypes
  <2>5. Sq!FirstStage'
    BY <1>1, <2>2, <2>3, <2>4 DEF Sq!FirstStage
  <2> QED BY <1>1, <1>2, <1>3, <2>4, <2>5, SequenceTypes, SequenceGoesOn
<1>4. CASE Sq!Callee = 2
  <2>1. Pending(Sq!Second) /\ below' = [below EXCEPT ![2] = d]
    BY <1>1, <1>4 DEF Sq!Second
  <2>2. Sq!First.state = "Done" /\ Pending(Sq!A)
    BY <1>1, <1>2, <2>1, SequenceAlive, SequenceChecker DEF Sq!Begins, Sq!FirstStage, Sq!SecondStage,
       Sq!NoStage, Pending
  <2>3. d \in Checker /\ d.state = "Done"
    BY <2>1, SuspendMoves, SequenceTypes DEF Goes, Pending
  <2> HIDE DEF d
  <2>4. over' = "terminated" /\ above' = [above EXCEPT ![1] = Sq!A]
    BY <1>1, <1>4, SequenceTypes
  <2>5. /\ above' \in [{1} -> Sq!Checker] /\ below' \in [{1, 2} -> Sq!Checker]
        /\ Sq!A' = Sq!A /\ Sq!First' = Sq!First /\ Sq!Second' = d
    <3>1. below' = [below EXCEPT ![1] = Sq!First, ![2] = d]
      BY <2>1, <2>3, SequenceOneGoes
    <3> QED BY <2>3, <2>4, <3>1, SequenceGoesTo, SequenceTypes
  <2>6. Sq!Pending(Sq!A)' /\ calls' \in Seq(Sq!Called)'
    BY <1>1, <1>2, <2>2, <2>5 DEF Pending, Sq!Pending, Sq!Called
  <2> QED BY <1>1, <2>2, <2>3, <2>4, <2>5, <2>6, SequenceTypes DEF Sq!Inv, SequenceStages
<1> QED BY <1>2, <1>3, <1>4

LEMMA SequenceMustResume ==
    ASSUME Sq!Inv, Sq!MustResume
    PROVE  Sq!Inv'
<1>1. PICK val \in BOOLEAN :
          /\ Sq!Calls(1, MustResumeReturned(Sq!A, val))
          /\ IF v1 = "second"
             THEN /\ below' = [below EXCEPT ![1] = Sq!First,
                                 ![2] = IF val THEN MustResumeReturned(Sq!Second, val)
                                        ELSE Reset(MustResumeReturned(Sq!Second, val))]
                  /\ v1' = IF val THEN "second" ELSE "neither"
             ELSE val = (v1 = "exception") /\ UNCHANGED <<below, v1>>
          /\ UNCHANGED <<calls, over, v2>>
  BY SequenceChecker DEF Sq!MustResume, Sq!Below
<1> DEFINE a == MustResumeReturned(Sq!A, val)
           m == MustResumeReturned(Sq!Second, val)
           d == IF val THEN m ELSE Reset(m)
<1>2. over = "no" /\ above' = [above EXCEPT ![1] = a] /\ Legal(a)
  BY <1>1, SequenceChecker DEF Sq!Calls
<1>3. a \in Checker /\ Sq!A.state = "ReadyAfterCancel" /\ a.state = IF val THEN "Ready" ELSE "Cancelled"
  <2>1. CASE val = TRUE
    BY <1>2, <2>1, MustResumeMoves, SequenceTypes DEF Goes, Legal
  <2>2. CASE val = FALSE
    BY <1>2, <2>2, MustResumeMoves, SequenceTypes DEF Goes, Legal
  <2> QED BY <2>1, <2>2
<1> HIDE DEF a
<1>4. CASE v1 = "second"
  <2>1. /\ below' = [below EXCEPT ![1] = Sq!First, ![2] = d]
        /\ v1' = (IF val THEN "second" ELSE "neither")
    BY <1>1, <1>4
  <2>2. Sq!First.state = "Done" /\ Sq!Second.state = "ReadyAfterCancel" /\ calls \in Seq(Sq!Called)
    BY <1>2, <1>3, <1>4, SequenceAlive, SequenceChecker DEF Sq!Between, Sq!Begins, Sq!FirstStage,
       Sq!SecondStage, Sq!NoStage, Pending
  <2>3. CASE val = TRUE
    <3>1. d \in Checker /\ d.state = "Ready"
      BY <2>2, <2>3, MustResumeMoves, SequenceTypes DEF Goes
    <3> HIDE DEF d
    <3>2. /\ above' \in [{1} -> Sq!Checker] /\ below' \in [{1, 2} -> Sq!Checker]
          /\ Sq!A' = a /\ Sq!First' = Sq!First /\ Sq!Second' = d
      BY <1>2, <1>3, <2>1, <3>1, SequenceGoesTo, SequenceTypes
    <3>3. Sq!SecondStage'
      BY <1>3, <2>1, <2>2, <2>3, <3>1, <3>2 DEF Sq!SecondStage
    <3>4. v1' \in SequenceStages
      BY <2>1, <2>3 DEF SequenceStages
    <3> QED BY <1>1, <1>2, <2>2, <3>2, <3>3, <3>4, SequenceTypes, SequenceGoesOn
  <2>4. CASE val = FALSE
    <3>1. m \in Checker /\ m.state = "Cancelled"
      BY <2>2, <2>4, MustResumeMoves, SequenceTypes DEF Goes
    <3> HIDE DEF m
    <3>2. d \in Checker /\ d.state = "Initial"
      BY <2>4, <3>1, ResetMoves
    <3> HIDE DEF d
    <3>3. /\ above' \in [{1} -> Sq!Checker] /\ below' \in [{1, 2} -> Sq!Checker]
          /\ Sq!A' = a /\ Sq!First' = Sq!First /\ Sq!Second' = d
      BY <1>2, <1>3, <2>1, <3>2, SequenceGoesTo, SequenceTypes DEF m
    <3>4. Sq!NoStage'
      BY <1>3, <2>1, <2>2, <2>4, <3>2, <3>3 DEF Sq!NoStage
    <3>5. v1' \in SequenceStages
      BY <2>1, <2>4 DEF SequenceStages
    <3> QED BY <1>1, <1>2, <2>2, <3>3, <3>4, <3>5, SequenceTypes, SequenceGoesOn
  <2> QED BY <2>3, <2>4
<1>5. CASE v1 # "second"
  <2>1. val = (v1 = "exception") /\ UNCHANGED <<below, v1>>
    BY <1>1, <1>5
  <2>2. /\ above' \in [{1} -> Sq!Checker] /\ below' \in [{1, 2} -> Sq!Checker]
        /\ Sq!A' = a /\ Sq!First' = Sq!First /\ Sq!Second' = Sq!Second
    BY <1>2, <1>3, <2>1, SequenceGoesTo, SequenceTypes
  <2>3. Sq!FirstStage \/ Sq!NoStage
    BY <1>2, <1>3, <1>5, SequenceAlive, SequenceChecker DEF Sq!Between, Sq!Begins, Sq!SecondStage, Pending
  <2>4. calls \in Seq(Sq!Called)
    BY <1>2, <1>3, SequenceAlive, SequenceChecker DEF Sq!Between, Pending
  <2>5. CASE Sq!FirstStage
    <3>1. a.state = "Cancelled" /\ Sq!First.state = "Cancelled"
      BY <1>3, <2>1, <2>5, SequenceChecker DEF Sq!FirstStage, Pending
    <3>2. Sq!FirstStage'
      BY <1>1, <2>1, <2>2, <2>5, <3>1 DEF Sq!FirstStage
    <3> QED BY <1>1, <1>2, <2>1, <2>2, <2>4, <3>2, SequenceTypes, SequenceGoesOn
  <2>6. CASE Sq!NoStage
    <3>1. Sq!NoStage'
      BY <1>3, <2>1, <2>2, <2>6 DEF Sq!NoStage
    <3> QED BY <1>1, <1>2, <2>1, <2>2, <2>4, <3>1, SequenceTypes, SequenceGoesOn
  <2> QED BY <2>3, <2>5, <2>6
<1> QED BY <1>4, <1>5

LEMMA SequenceResume ==
    ASSUME Sq!Inv, Sq!Resume
    PROVE  Sq!Inv'
<1> DEFINE a == AboutToResume(Sq!A)
           m == AboutToResume(Sq!Second)
           d == Reset(m)
<1>1. /\ over = "no" /\ above' = [above EXCEPT ![1] = a] /\ Legal(a) /\ v1' = "neither"
      /\ UNCHANGED <<calls, over, v2>>
  BY SequenceChecker DEF Sq!Resume, Sq!Calls
<1>2. a \in Checker /\ a.state = "Done" /\ Sq!A.state \in {"ReadyImmediately", "Ready"}
  BY <1>1, ResumeMoves, SequenceTypes DEF Goes, Legal
<1>3. /\ calls \in Seq(Sq!Called) /\ Sq!First.state = "Done"
      /\ \/ v1 = "second" /\ Sq!Second.state \in {"ReadyImmediately", "Ready"}
         \/ v1 = "exception" /\ Sq!Second.state = "Initial"
  BY <1>1, <1>2, SequenceAlive, SequenceChecker DEF Sq!Between, Sq!Begins, Sq!FirstStage,
     Sq!SecondStage, Sq!NoStage, Pending
<1> HIDE DEF a
<1>4. v1' \in SequenceStages
  BY <1>1 DEF SequenceStages
<1>5. CASE v1 = "second"
  <2>1. below' = [below EXCEPT ![1] = Sq!First, ![2] = d]
    BY <1>5, SequenceChecker DEF Sq!Resume, Sq!Below
  <2>2. m \in Checker /\ m.state = "Done"
    BY <1>3, <1>5, ResumeMoves, SequenceTypes DEF Goes
  <2> HIDE DEF m
  <2>3. d \in Checker /\ d.state = "Initial"
    BY <2>2, ResetMoves
  <2> HIDE DEF d
  <2>4. /\ above' \in [{1} -> Sq!Checker] /\ below' \in [{1, 2} -> Sq!Checker]
        /\ Sq!A' = a /\ Sq!First' = Sq!First /\ Sq!Second' = d
    BY <1>1, <1>2, <2>1, <2>3, SequenceGoesTo, SequenceTypes
  <2>5. Sq!NoStage'
    BY <1>1, <1>2, <1>3, <2>3, <2>4 DEF Sq!NoStage
  <2> QED BY <1>1, <1>3, <1>4, <2>4, <2>5, SequenceTypes, SequenceGoesOn
<1>6. CASE v1 = "exception"
  <2>1. below' = below /\ Sq!Second.state = "Initial"
    BY <1>3, <1>6 DEF Sq!Resume
  <2>2. /\ above' \in [{1} -> Sq!Checker] /\ below' \in [{1, 2} -> Sq!Checker]
        /\ Sq!A' = a /\ Sq!First' = Sq!First /\ Sq!Second' = Sq!Second
    BY <1>1, <1>2, <2>1, SequenceGoesTo, SequenceTypes
  <2>3. Sq!NoStage'
    BY <1>1, <1>2, <1>3, <2>1, <2>2 DEF Sq!NoStage
  <2> QED BY <1>1, <1>3, <1>4, <2>2, <2>3, SequenceTypes, SequenceGoesOn
<1> QED BY <1>3, <1>5, <1>6

LEMMA SequenceDestroy ==
    ASSUME Sq!Inv, Sq!Destroy
    PROVE  Sq!Inv'
<1> DEFINE a == Reset(Sq!A)
           c == Reset(Sq!First)
           d == IF v1 = "second" THEN Reset(Sq!Second) ELSE Sq!Second
<1>1. /\ over = "no" /\ above' = [above EXCEPT ![1] = a] /\ Legal(a) /\ over' = "destroyed"
      /\ below' = [below EXCEPT ![1] = c, ![2] = d]
      /\ UNCHANGED <<calls, v1, v2>>
  BY SequenceChecker DEF Sq!Destroy, Sq!Calls, Sq!Below
<1>2. a \in Checker /\ a.state = "Initial" /\ Sq!A.state \in {"Cancelled", "Done", "Initial"}
  BY <1>1, ResetMoves, SequenceTypes DEF Legal
<1>3. /\ calls \in Seq(Sq!Called) /\ Sq!First.state \in {"Cancelled", "Done", "Initial"}
      /\ v1 = "second" => Sq!Second.state = "Cancelled"
      /\ v1 # "second" => Sq!Second.state = "Initial"
  BY <1>1, <1>2, SequenceAlive, SequenceChecker DEF Sq!Between, Sq!Begins, Sq!FirstStage,
     Sq!SecondStage, Sq!NoStage, Pending
<1>4. c \in Checker /\ c.state = "Initial"
  BY <1>3, ResetMoves, SequenceTypes
<1>5. d \in Checker /\ d.state = "Initial"
  BY <1>3, ResetMoves, SequenceTypes
<1> HIDE DEF a, c, d
<1>6. /\ above' \in [{1} -> Sq!Checker] /\ below' \in [{1, 2} -> Sq!Checker]
      /\ Sq!A' = a /\ Sq!First' = c /\ Sq!Second' = d
  BY <1>1, <1>2, <1>4, <1>5, SequenceGoesTo
<1>7. calls' \in Seq(Sq!Called)'
  BY <1>1, <1>3 DEF Sq!Called
<1> QED BY <1>1, <1>2, <1>4, <1>5, <1>6, <1>7, SequenceTypes DEF Sq!Inv, SequenceStages

LEMMA SequenceInit ==
    ASSUME Sq!Init
    PROVE  Sq!Inv
<1>1. /\ above = [p \in {1} |-> Fresh] /\ below = [c \in {1, 2} |-> Fresh] /\ calls = <<>> /\ over = "no"
      /\ v1 = "first" /\ v2 = FALSE
  BY SequenceChecker DEF Sq!Init, Sq!ProtocolInit
<1>2. Fresh \in Checker /\ Fresh.state = "Initial"
  BY DEF Fresh, Checker, CheckerState
<1>3. /\ above \in [{1} -> Sq!Checker] /\ below \in [{1, 2} -> Sq!Checker]
      /\ Sq!A = Fresh /\ Sq!First = Fresh /\ Sq!Second = Fresh
  BY <1>1, <1>2, SequenceChecker DEF Sq!A, Sq!First, Sq!Second
<1>4. Sq!Begins
  BY <1>1, <1>2, <1>3 DEF Sq!Begins
<1>5. calls \in Seq(Sq!Called)
  BY <1>1, EmptySeq
<1> QED BY <1>1, <1>3, <1>4, <1>5 DEF Sq!Inv

LEMMA SequenceKeeps ==
    ASSUME Sq!Inv, Sq!Next
    PROVE  Sq!Inv'
BY SequenceReady, SequenceSetExecutor, SequenceEarlyCancel, SequenceSuspend, SequenceFirstResumes,
   SequenceThenFnThrows, SequenceThenFnReturns, SequenceSecondResumes, SequenceCancel, SequenceReturns,
   SequenceCancelReturnsTrue, SequenceSuspendThrows, SequenceMustResume, SequenceResume,
   SequenceDestroy DEF Sq!Next

LEMMA SequenceInvariant == Spec => [](class = "sequence" => Sq!Inv)
<1>1. Init => (class = "sequence" => Sq!Inv)
  BY SequenceInit DEF Init
<1>2. (class = "sequence" => Sq!Inv) /\ [Next]_vars => (class = "sequence" => Sq!Inv)'
  <2>1. ASSUME class = "sequence", Sq!Inv, Next PROVE Sq!Inv'
    BY <2>1, SequenceKeeps DEF Next
  <2>2. ASSUME class = "sequence", Sq!Inv, UNCHANGED vars PROVE Sq!Inv'
    BY <2>2 DEF vars, shared, Sq!Inv, Sq!A, Sq!First, Sq!Second, Sq!Begins, Sq!FirstStage, Sq!Between,
       Sq!SecondStage, Sq!NoStage, Sq!Called, Sq!Pending
  <2>3. [Next]_vars => class' = class
    BY DEF Next, vars, two, three, five, seven
  <2> QED BY <2>1, <2>2, <2>3
<1> QED BY <1>1, <1>2, PTL DEF Spec

\* The rules of the protocol are kept.
LEMMA SequenceIsKept == Sq!Inv => Sq!TypeOK /\ Sq!ProtocolKept
<1> SUFFICES ASSUME Sq!Inv PROVE Sq!TypeOK /\ Sq!ProtocolKept
  OBVIOUS
<1>1. Sq!TypeOK
  <2>1. over \in {"no", "destroyed", "terminated", "dangling"}
    BY DEF Sq!Inv
  <2> QED BY <2>1 DEF Sq!Inv, Sq!TypeOK, Sq!ProtocolTypeOK
<1>2. Legal(Sq!A) /\ Legal(Sq!First) /\ Legal(Sq!Second)
  BY SequenceAlive, SequenceChecker DEF Sq!Inv, Sq!Begins, Sq!FirstStage, Sq!Between, Sq!SecondStage,
     Sq!NoStage, Legal, Pending
<1>3. Sq!ProtocolKept
  BY <1>2, SequenceTypes, SequenceChecker DEF Sq!ProtocolKept, Sq!A, Sq!First, Sq!Second
<1> QED BY <1>1, <1>3

----------------------------------------------------------------------------
(* Those who sleep for a delay.                                            *)

\* The checker in Timer is this one.
LEMMA TimerChecker ==
    /\ Ti!Checker = Checker /\ Ti!Fresh = Fresh /\ Ti!BeforeSuspend = BeforeSuspend
    /\ \A c : /\ Ti!Legal(c) <=> Legal(c)
              /\ Ti!Pending(c) <=> Pending(c)
    /\ \A c : /\ Ti!AboutToSetExecutor(c) = AboutToSetExecutor(c)
              /\ Ti!AboutToSuspend(c) = AboutToSuspend(c)
              /\ Ti!SuspendThrew(c) = SuspendThrew(c)
              /\ Ti!AboutToCancel(c) = AboutToCancel(c)
              /\ Ti!AboutToResume(c) = AboutToResume(c)
              /\ Ti!Resumed(c) = Resumed(c)
              /\ Ti!Reset(c) = Reset(c)
    /\ \A c, val : /\ Ti!ReadyReturned(c, val) = ReadyReturned(c, val)
                   /\ Ti!EarlyCancelReturned(c, val) = EarlyCancelReturned(c, val)
                   /\ Ti!CancelReturned(c, val) = CancelReturned(c, val)
                   /\ Ti!MustResumeReturned(c, val) = MustResumeReturned(c, val)
    /\ \A c, moves : Ti!Step(c, moves) = Step(c, moves)
<1>1. \A c, moves : Ti!Step(c, moves) = Step(c, moves)
  BY DEF Ti!Step, Step
<1>2. Ti!CheckerState = CheckerState /\ Ti!BeforeSuspend = BeforeSuspend /\ Ti!Fresh = Fresh
  BY DEF Ti!CheckerState, CheckerState, Ti!BeforeSuspend, BeforeSuspend, Ti!Fresh, Fresh
<1>3. \A c : /\ Ti!AboutToSetExecutor(c) = AboutToSetExecutor(c)
             /\ Ti!AboutToSuspend(c) = AboutToSuspend(c)
             /\ Ti!SuspendThrew(c) = SuspendThrew(c)
             /\ Ti!AboutToCancel(c) = AboutToCancel(c)
             /\ Ti!AboutToResume(c) = AboutToResume(c)
             /\ Ti!Resumed(c) = Resumed(c)
             /\ Ti!Reset(c) = Reset(c)
  BY <1>1, <1>2 DEF Ti!AboutToSetExecutor, AboutToSetExecutor, Ti!AboutToSuspend, AboutToSuspend,
     Ti!SuspendThrew, SuspendThrew, Ti!AboutToCancel, AboutToCancel, Ti!AboutToResume,
     AboutToResume, Ti!Resumed, Resumed, Ti!Reset, Reset
<1>4. \A c, val : /\ Ti!ReadyReturned(c, val) = ReadyReturned(c, val)
                  /\ Ti!EarlyCancelReturned(c, val) = EarlyCancelReturned(c, val)
                  /\ Ti!CancelReturned(c, val) = CancelReturned(c, val)
                  /\ Ti!MustResumeReturned(c, val) = MustResumeReturned(c, val)
  BY <1>1 DEF Ti!ReadyReturned, ReadyReturned, Ti!EarlyCancelReturned, EarlyCancelReturned,
     Ti!CancelReturned, CancelReturned, Ti!MustResumeReturned, MustResumeReturned
<1> QED BY <1>1, <1>2, <1>3, <1>4 DEF Ti!Checker, Checker, Ti!Legal, Legal, Ti!Pending, Pending

\* The stacks of calls: fired() of the event loop, one await_suspend(), and
\* one that calls fired().
OneFired == <<Ti!Fired(0)>>
InSuspend(p) == <<Ti!Started(p)>>
TooLate(p) == <<Ti!Fired(p), Ti!Started(p)>>

StartingIn(s, p) == \E i \in DOMAIN s : s[i] = Ti!Started(p)

LEMMA TimerStacks ==
    ASSUME NEW q
    PROVE  /\ OneFired # <<>> /\ InSuspend(q) # <<>> /\ TooLate(q) # <<>>
           /\ Head(OneFired).fn = "fired" /\ Tail(OneFired) = <<>>
           /\ Head(TooLate(q)).fn = "fired" /\ Tail(TooLate(q)) = InSuspend(q)
           /\ Head(InSuspend(q)) = Ti!Started(q) /\ Tail(InSuspend(q)) = <<>>
           /\ \A p : /\ ~StartingIn(<<>>, p) /\ ~StartingIn(OneFired, p)
                     /\ StartingIn(InSuspend(q), p) <=> p = q
                     /\ StartingIn(TooLate(q), p) <=> p = q
<1> DEFINE f == Ti!Fired(q)
           o == Ti!Fired(0)
           s(p) == Ti!Started(p)
<1>1. f.fn = "fired" /\ o.fn = "fired"
  BY DEF Ti!Fired
<1>2. \A p : s(p) # f /\ s(p) # o /\ (s(p) = s(q) <=> p = q)
  <2>1. \A p : s(p).fn = "await_suspend" /\ s(p).to = p
    BY DEF Ti!Started
  <2> HIDE DEF f, o, s
  <2> QED BY <1>1, <2>1
<1> HIDE DEF f, o, s
<1>3. OneFired = <<o>> /\ InSuspend(q) = <<s(q)>> /\ TooLate(q) = <<f, s(q)>>
  BY DEF OneFired, InSuspend, TooLate, f, o, s
<1>4. /\ <<o>> # <<>> /\ <<s(q)>> # <<>> /\ <<f, s(q)>> # <<>>
      /\ Head(<<o>>) = o /\ Tail(<<o>>) = <<>>
      /\ Head(<<f, s(q)>>) = f /\ Tail(<<f, s(q)>>) = <<s(q)>>
      /\ Head(<<s(q)>>) = s(q) /\ Tail(<<s(q)>>) = <<>>
  OBVIOUS
<1>5. DOMAIN <<>> = {} /\ DOMAIN <<o>> = {1} /\ DOMAIN <<s(q)>> = {1} /\ DOMAIN <<f, s(q)>> = {1, 2}
  OBVIOUS
<1>6. <<o>>[1] = o /\ <<s(q)>>[1] = s(q) /\ <<f, s(q)>>[1] = f /\ <<f, s(q)>>[2] = s(q)
  OBVIOUS
<1>7. ASSUME NEW p
      PROVE  /\ ~StartingIn(<<>>, p) /\ ~StartingIn(<<o>>, p)
             /\ StartingIn(<<s(q)>>, p) <=> p = q
             /\ StartingIn(<<f, s(q)>>, p) <=> p = q
  <2>1. \A x : StartingIn(x, p) <=> \E i \in DOMAIN x : x[i] = s(p)
    BY DEF StartingIn, s
  <2>2. ~StartingIn(<<>>, p)
    BY <1>5, <2>1
  <2>3. ~StartingIn(<<o>>, p)
    BY <1>2, <1>5, <1>6, <2>1
  <2>4. StartingIn(<<s(q)>>, p) <=> p = q
    BY <1>2, <1>5, <1>6, <2>1
  <2>5. StartingIn(<<f, s(q)>>, p) <=> p = q
    BY <1>2, <1>5, <1>6, <2>1
  <2> QED BY <2>2, <2>3, <2>4, <2>5
<1> QED BY <1>1, <1>3, <1>4, <1>7 DEF s

LEMMA TimerTypes ==
    ASSUME Ti!Inv
    PROVE  /\ above \in [Sleepers -> Checker] /\ below \in [{} -> Checker] /\ over = "no"
           /\ v1 \in {"negative", "zero", "positive"} /\ v2 \in BOOLEAN /\ v3 \in BOOLEAN
           /\ v4 \in BOOLEAN /\ v5 \subseteq Sleepers
           /\ v6 \in [Sleepers -> BOOLEAN] /\ v7 \in [Sleepers -> BOOLEAN]
           /\ v4 <=> (~v3 /\ v5 # {})
           /\ \A p \in Sleepers : Ti!Sleeps(p) /\ above[p] \in Checker
BY TimerChecker DEF Ti!Inv

\* Where the calls are, before and after.
LEMMA TimerCalls ==
    ASSUME Ti!Inv
    PROVE  /\ \/ calls = <<>> /\ (v3 => v5 = {})
              \/ calls = OneFired /\ v3
              \/ \E p \in Sleepers : calls = TooLate(p) /\ v3
              \/ \E p \in Sleepers : calls = InSuspend(p) /\ v3 /\ v5 = {}
           /\ \A p : Ti!Starting(p) <=> StartingIn(calls, p)
           /\ \A p : Ti!Starting(p)' <=> StartingIn(calls', p)
<1>1. Ti!Called
  BY DEF Ti!Inv
<1>2. /\ \A p : Ti!Starting(p) <=> StartingIn(calls, p)
      /\ \A p : Ti!Starting(p)' <=> StartingIn(calls', p)
  BY DEF Ti!Starting, StartingIn, Ti!Started
<1> QED BY <1>1, <1>2 DEF Ti!Called, OneFired, InSuspend, TooLate

\* What there is to show of a step.
LEMMA TimerGoesOn ==
    ASSUME above' \in [Sleepers -> Checker], UNCHANGED <<below, over, v1>>, Ti!Inv,
           v2' \in BOOLEAN, v3' \in BOOLEAN, v4' \in BOOLEAN, v5' \subseteq Sleepers,
           v6' \in [Sleepers -> BOOLEAN], v7' \in [Sleepers -> BOOLEAN],
           v4' <=> (~v3' /\ v5' # {}),
           \/ calls' = <<>> /\ (v3' => v5' = {})
           \/ calls' = OneFired /\ v3'
           \/ \E p \in Sleepers : calls' = TooLate(p) /\ v3'
           \/ \E p \in Sleepers : calls' = InSuspend(p) /\ v3' /\ v5' = {},
           \A p \in Sleepers :
              /\ Legal(above'[p])
              /\ p \in v5' => Pending(above'[p]) /\ v7'[p]
              /\ StartingIn(calls', p) => Pending(above'[p]) /\ p \notin v5'
              /\ v1 = "positive" /\ Pending(above'[p]) => p \in v5' \/ StartingIn(calls', p)
    PROVE  Ti!Inv'
<1>1. Ti!Called'
  BY DEF Ti!Called, Ti!Fired, Ti!Started, OneFired, TooLate, InSuspend
<1>2. ASSUME NEW p \in Sleepers PROVE Ti!Sleeps(p)'
  <2>1. Ti!Starting(p)' <=> StartingIn(calls', p)
    BY TimerCalls
  <2>2. /\ Ti!Legal(above[p])' <=> Legal(above'[p])
        /\ Ti!Pending(above[p])' <=> Pending(above'[p])
    BY DEF Ti!Legal, Legal, Ti!Pending, Pending
  <2> QED BY <2>1, <2>2 DEF Ti!Sleeps
<1>3. above' \in [Sleepers -> Ti!Checker'] /\ below' \in [{} -> Ti!Checker']
  <2>1. Ti!Checker' = Checker
    BY TimerChecker DEF Ti!Checker, Ti!CheckerState
  <2> QED BY <2>1, TimerTypes
<1>4. over' = "no" /\ v1' \in {"negative", "zero", "positive"}
  BY TimerTypes
<1> QED BY <1>1, <1>2, <1>3, <1>4 DEF Ti!Inv

\* How one is.
LEMMA TimerSleeps ==
    ASSUME Ti!Inv, NEW p \in Sleepers
    PROVE  /\ Legal(above[p])
           /\ p \in v5 => Pending(above[p]) /\ v7[p]
           /\ StartingIn(calls, p) => Pending(above[p]) /\ p \notin v5
           /\ v1 = "positive" /\ Pending(above[p]) => p \in v5 \/ StartingIn(calls, p)
<1>1. Ti!Sleeps(p)
  BY TimerTypes
<1>2. Ti!Starting(p) <=> StartingIn(calls, p)
  BY TimerCalls
<1> QED BY <1>1, <1>2, TimerChecker DEF Ti!Sleeps

\* One of them does something that is not sleeping, and is not awaited.
LEMMA TimerLeaves ==
    ASSUME Ti!Inv, NEW p \in Sleepers, NEW d \in Checker, Legal(d), ~Pending(d),
           ~StartingIn(calls, p), above' = [above EXCEPT ![p] = d],
           UNCHANGED <<below, calls, over, v1, v2, v3>>,
           v5' = v5 \ {p}, v4' \in BOOLEAN, v4' <=> (~v3 /\ v5' # {}),
           v6' \in [Sleepers -> BOOLEAN], v7' \in [Sleepers -> BOOLEAN],
           \A q \in Sleepers : q # p => v7'[q] = v7[q]
    PROVE  Ti!Inv'
<1>1. /\ above' \in [Sleepers -> Checker] /\ above'[p] = d
      /\ \A q \in Sleepers : q # p => above'[q] = above[q]
  BY TimerTypes
<1>2. /\ v5' \subseteq Sleepers /\ v5 = {} => v5' = {}
  BY TimerTypes
<1>3. ASSUME NEW q \in Sleepers
      PROVE  /\ Legal(above'[q])
             /\ q \in v5' => Pending(above'[q]) /\ v7'[q]
             /\ StartingIn(calls', q) => Pending(above'[q]) /\ q \notin v5'
             /\ v1 = "positive" /\ Pending(above'[q]) => q \in v5' \/ StartingIn(calls', q)
  <2>1. calls' = calls
    OBVIOUS
  <2>2. CASE q = p
    BY <1>1, <2>1, <2>2
  <2>3. CASE q # p
    BY <1>1, <2>1, <2>3, TimerSleeps
  <2> QED BY <2>2, <2>3
<1>4. \/ calls' = <<>> /\ (v3' => v5' = {})
      \/ calls' = OneFired /\ v3'
      \/ \E r \in Sleepers : calls' = TooLate(r) /\ v3'
      \/ \E r \in Sleepers : calls' = InSuspend(r) /\ v3' /\ v5' = {}
  BY <1>2, TimerCalls
<1> QED BY <1>1, <1>2, <1>3, <1>4, TimerTypes, TimerGoesOn

\* And if it was not awaited before.
LEMMA TimerStaysAway ==
    ASSUME Ti!Inv, NEW p \in Sleepers, NEW d \in Checker, Legal(d), ~Pending(d), ~Pending(above[p]),
           above' = [above EXCEPT ![p] = d],
           UNCHANGED <<below, calls, over, v1, v2, v3, v4, v5>>,
           v6' \in [Sleepers -> BOOLEAN], v7' \in [Sleepers -> BOOLEAN],
           \A q \in Sleepers : q # p => v7'[q] = v7[q]
    PROVE  Ti!Inv'
<1>1. ~StartingIn(calls, p) /\ p \notin v5
  BY TimerSleeps
<1>2. /\ v5' = v5 \ {p} /\ v4' \in BOOLEAN
      /\ v4' <=> (~v3 /\ v5' # {})
  BY <1>1, TimerTypes
<1> QED BY <1>1, <1>2, TimerLeaves

LEMMA TimerReady ==
    ASSUME Ti!Inv, NEW p \in Sleepers, Ti!Ready(p)
    PROVE  Ti!Inv'
<1> DEFINE d == ReadyReturned(above[p], v3)
<1>1. /\ above[p].state \in BeforeSuspend /\ above' = [above EXCEPT ![p] = d] /\ Legal(d)
      /\ UNCHANGED <<below, calls, over, v1, v2, v3, v4, v5, v6, v7>>
  BY TimerChecker DEF Ti!Ready, Ti!Calls, Ti!clock, Ti!instance, Ti!awaiter
<1>2. d \in Checker /\ ~Pending(d)
  <2>1. CASE v3 = TRUE
    BY <2>1, ReadyMoves, TimerTypes DEF Goes, Pending
  <2>2. CASE v3 = FALSE
    BY <2>2, ReadyMoves, TimerTypes DEF Goes, Pending
  <2> QED BY <2>1, <2>2, TimerTypes
<1>3. ~Pending(above[p])
  BY <1>1 DEF Pending, BeforeSuspend
<1> HIDE DEF d
<1> QED BY <1>1, <1>2, <1>3, TimerTypes, TimerStaysAway

LEMMA TimerEarlyCancel ==
    ASSUME Ti!Inv, NEW p \in Sleepers, Ti!EarlyCancel(p)
    PROVE  Ti!Inv'
<1> DEFINE d == EarlyCancelReturned(above[p], FALSE)
<1>1. /\ above' = [above EXCEPT ![p] = d] /\ Legal(d) /\ v6' = [v6 EXCEPT ![p] = TRUE]
      /\ UNCHANGED <<below, calls, over, v1, v2, v3, v4, v5, v7>>
  BY TimerChecker DEF Ti!EarlyCancel, Ti!Calls, Ti!clock, Ti!instance
<1>2. d \in Checker /\ ~Pending(d) /\ ~Pending(above[p])
  BY <1>1, EarlyCancelMoves, TimerTypes DEF Goes, Pending, Legal
<1>3. v6' \in [Sleepers -> BOOLEAN]
  BY <1>1, TimerTypes
<1> HIDE DEF d
<1> QED BY <1>1, <1>2, <1>3, TimerTypes, TimerStaysAway

LEMMA TimerSetExecutor ==
    ASSUME Ti!Inv, NEW p \in Sleepers, Ti!SetExecutor(p)
    PROVE  Ti!Inv'
<1> DEFINE d == AboutToSetExecutor(above[p])
<1>1. /\ above' = [above EXCEPT ![p] = d] /\ Legal(d)
      /\ UNCHANGED <<below, calls, over, v1, v2, v3, v4, v5, v6, v7>>
  BY TimerChecker DEF Ti!SetExecutor, Ti!Calls, Ti!clock, Ti!instance, Ti!awaiter
<1>2. d \in Checker /\ ~Pending(d) /\ ~Pending(above[p])
  BY <1>1, SetExecutorMoves, TimerTypes DEF Pending, Legal, BeforeSuspend
<1> HIDE DEF d
<1> QED BY <1>1, <1>2, TimerTypes, TimerStaysAway

\* It is on its way to sleep.
LEMMA TimerMaySuspend ==
    ASSUME Ti!Inv, NEW p \in Sleepers, Legal(AboutToSuspend(above[p]))
    PROVE  /\ ~Pending(above[p]) /\ ~StartingIn(calls, p) /\ p \notin v5
           /\ AboutToSuspend(above[p]) \in Checker /\ Pending(AboutToSuspend(above[p]))
<1>1. /\ AboutToSuspend(above[p]) \in Checker /\ Pending(AboutToSuspend(above[p]))
      /\ ~Pending(above[p])
  BY SuspendMoves, TimerTypes DEF Goes, Pending, Legal
<1> QED BY <1>1, TimerSleeps

LEMMA TimerSuspendNot ==
    ASSUME Ti!Inv, NEW p \in Sleepers, Ti!SuspendNot(p)
    PROVE  Ti!Inv'
<1> DEFINE c == AboutToSuspend(above[p])
           d == Resumed(c)
<1>1. /\ Legal(c) /\ above' = [above EXCEPT ![p] = d] /\ Legal(d)
      /\ UNCHANGED <<below, calls, over, v1, v2, v3, v4, v5, v6, v7>>
  BY TimerChecker DEF Ti!SuspendNot, Ti!Calls, Ti!clock, Ti!instance, Ti!awaiter
<1>2. ~Pending(above[p]) /\ c \in Checker /\ Pending(c)
  BY <1>1, TimerMaySuspend
<1> HIDE DEF c
<1>3. d \in Checker /\ ~Pending(d)
  BY <1>2, ResumeMoves DEF Goes, Pending
<1> HIDE DEF d
<1> QED BY <1>1, <1>2, <1>3, TimerTypes, TimerStaysAway

\* fired() is called once: those who are to be woken are in the set.
LEMMA TimerSuspendTooLate ==
    ASSUME Ti!Inv, NEW p \in Sleepers, Ti!SuspendTooLate(p)
    PROVE  Ti!Inv'
<1> DEFINE d == AboutToSuspend(above[p])
<1>1. /\ ~v3 /\ Legal(d) /\ above' = [above EXCEPT ![p] = d]
      /\ v3' = TRUE /\ v4' = FALSE /\ calls' = TooLate(p) \o calls
      /\ UNCHANGED <<below, over, v1, v2, v5, v6, v7>>
  BY TimerChecker DEF Ti!SuspendTooLate, Ti!Calls, Ti!clock, Ti!awaiter, TooLate, Ti!Fired, Ti!Started
<1>2. ~StartingIn(calls, p) /\ p \notin v5 /\ d \in Checker /\ Pending(d)
  BY <1>1, TimerMaySuspend
<1> HIDE DEF d
<1>3. calls = <<>>
  BY <1>1, TimerCalls
<1>4. calls' = TooLate(p)
  <2>1. TooLate(p) \in Seq({Ti!Fired(p), Ti!Started(p)})
    BY DEF TooLate
  <2> QED BY <1>1, <1>3, <2>1, ConcatEmptySeq
<1>5. /\ above' \in [Sleepers -> Checker] /\ above'[p] = d
      /\ \A q \in Sleepers : q # p => above'[q] = above[q]
  BY <1>1, <1>2, TimerTypes
<1>6. ASSUME NEW q \in Sleepers
      PROVE  /\ Legal(above'[q])
             /\ q \in v5' => Pending(above'[q]) /\ v7'[q]
             /\ StartingIn(calls', q) => Pending(above'[q]) /\ q \notin v5'
             /\ v1 = "positive" /\ Pending(above'[q]) => q \in v5' \/ StartingIn(calls', q)
  <2>1. (StartingIn(calls', q) <=> q = p) /\ ~StartingIn(calls, q)
    BY <1>3, <1>4, TimerStacks
  <2>2. CASE q = p
    BY <1>1, <1>2, <1>5, <2>1, <2>2
  <2>3. CASE q # p
    BY <1>1, <1>5, <2>1, <2>3, TimerSleeps
  <2> QED BY <2>2, <2>3
<1> QED BY <1>1, <1>4, <1>5, <1>6, TimerTypes, TimerGoesOn

LEMMA TimerSuspend ==
    ASSUME Ti!Inv, NEW p \in Sleepers, Ti!Suspend(p)
    PROVE  Ti!Inv'
<1> DEFINE d == AboutToSuspend(above[p])
<1>1. /\ ~v3 /\ Legal(d) /\ above' = [above EXCEPT ![p] = d] /\ v7' = [v7 EXCEPT ![p] = TRUE]
      /\ v1 = "negative" => UNCHANGED <<v4, v5>>
      /\ v1 # "negative" => v5' = v5 \cup {p} /\ v4' = TRUE
      /\ UNCHANGED <<below, calls, over, v1, v2, v3, v6>>
  BY TimerChecker DEF Ti!Suspend, Ti!Calls, Ti!clock
<1>2. ~StartingIn(calls, p) /\ p \notin v5 /\ d \in Checker /\ Pending(d)
  BY <1>1, TimerMaySuspend
<1> HIDE DEF d
<1>3. calls = <<>> /\ \A q : ~StartingIn(calls, q)
  BY <1>1, TimerCalls, TimerStacks
<1>4. /\ above' \in [Sleepers -> Checker] /\ above'[p] = d
      /\ \A q \in Sleepers : q # p => above'[q] = above[q]
  BY <1>1, <1>2, TimerTypes
<1>5. /\ v7' \in [Sleepers -> BOOLEAN] /\ v7'[p] = TRUE
      /\ \A q \in Sleepers : q # p => v7'[q] = v7[q]
  BY <1>1, TimerTypes
<1>6. /\ v5' \subseteq Sleepers /\ v4' \in BOOLEAN
      /\ v4' <=> (~v3' /\ v5' # {})
      /\ \A q \in Sleepers : q # p => (q \in v5' <=> q \in v5)
      /\ v1 = "positive" => p \in v5'
  <2>1. CASE v1 = "negative"
    BY <1>1, <2>1, TimerTypes
  <2>2. CASE v1 # "negative"
    <3>1. v5' = v5 \cup {p} /\ v4' = TRUE /\ ~v3'
      BY <1>1, <2>2
    <3> QED BY <3>1, TimerTypes
  <2> QED BY <2>1, <2>2
<1>7. ASSUME NEW q \in Sleepers
      PROVE  /\ Legal(above'[q])
             /\ q \in v5' => Pending(above'[q]) /\ v7'[q]
             /\ StartingIn(calls', q) => Pending(above'[q]) /\ q \notin v5'
             /\ v1 = "positive" /\ Pending(above'[q]) => q \in v5' \/ StartingIn(calls', q)
  <2>1. ~StartingIn(calls', q) /\ ~StartingIn(calls, q)
    BY <1>1, <1>3
  <2>2. CASE q = p
    BY <1>1, <1>2, <1>4, <1>5, <1>6, <2>1, <2>2
  <2>3. CASE q # p
    BY <1>1, <1>4, <1>5, <1>6, <2>1, <2>3, TimerSleeps
  <2> QED BY <2>2, <2>3
<1> QED BY <1>1, <1>3, <1>4, <1>5, <1>6, <1>7, TimerTypes, TimerGoesOn

LEMMA TimerCancel ==
    ASSUME Ti!Inv, NEW p \in Sleepers, Ti!Cancel(p)
    PROVE  Ti!Inv'
<1> DEFINE c == AboutToCancel(above[p])
           d == Resumed(c)
<1>1. /\ ~Ti!Starting(p) /\ Legal(c) /\ above' = [above EXCEPT ![p] = d] /\ Legal(d)
      /\ v5' = v5 \ {p} /\ v4' = (v4 /\ v5' # {})
      /\ UNCHANGED <<below, calls, over, v1, v2, v3, v6, v7>>
  BY TimerChecker DEF Ti!Cancel, Ti!Calls, Ti!Stop, Ti!clock, Ti!awaiter
<1>2. c \in Checker /\ c.state = "Cancelling"
  BY <1>1, CancelMoves, TimerTypes DEF Goes, Legal
<1> HIDE DEF c
<1>3. d \in Checker /\ ~Pending(d)
  BY <1>2, ResumeMoves DEF Goes, Pending
<1> HIDE DEF d
<1>4. ~StartingIn(calls, p)
  BY <1>1, TimerCalls
<1>5. v4' \in BOOLEAN /\ (v4' <=> (~v3 /\ v5' # {}))
  BY <1>1, TimerTypes
<1> QED BY <1>1, <1>3, <1>4, <1>5, TimerTypes, TimerLeaves

LEMMA TimerMustResume ==
    ASSUME Ti!Inv, NEW p \in Sleepers, Ti!MustResume(p)
    PROVE  Ti!Inv'
<1> DEFINE d == MustResumeReturned(above[p], TRUE)
<1>1. /\ above' = [above EXCEPT ![p] = d] /\ Legal(d)
      /\ UNCHANGED <<below, calls, over, v1, v2, v3, v4, v5, v6, v7>>
  BY TimerChecker DEF Ti!MustResume, Ti!Calls, Ti!clock, Ti!instance, Ti!awaiter
<1>2. d \in Checker /\ ~Pending(d) /\ ~Pending(above[p])
  BY <1>1, MustResumeMoves, TimerTypes DEF Goes, Pending, Legal
<1> HIDE DEF d
<1> QED BY <1>1, <1>2, TimerTypes, TimerStaysAway

LEMMA TimerResume ==
    ASSUME Ti!Inv, NEW p \in Sleepers, Ti!Resume(p)
    PROVE  Ti!Inv'
<1> DEFINE d == AboutToResume(above[p])
<1>1. /\ above' = [above EXCEPT ![p] = d] /\ Legal(d)
      /\ v5' = v5 \ {p} /\ v4' = (v4 /\ v5' # {})
      /\ UNCHANGED <<below, calls, over, v1, v2, v3, v6, v7>>
  BY TimerChecker DEF Ti!Resume, Ti!Calls, Ti!Stop, Ti!clock, Ti!awaiter
<1>2. d \in Checker /\ ~Pending(d) /\ ~Pending(above[p])
  BY <1>1, ResumeMoves, TimerTypes DEF Goes, Pending, Legal
<1> HIDE DEF d
<1>3. ~StartingIn(calls, p)
  BY <1>2, TimerSleeps
<1>4. v4' \in BOOLEAN /\ (v4' <=> (~v3 /\ v5' # {}))
  BY <1>1, TimerTypes
<1> QED BY <1>1, <1>2, <1>3, <1>4, TimerTypes, TimerLeaves

LEMMA TimerDestroy ==
    ASSUME Ti!Inv, NEW p \in Sleepers, Ti!Destroy(p)
    PROVE  Ti!Inv'
<1> DEFINE d == Reset(above[p])
<1>1. /\ above' = [above EXCEPT ![p] = d] /\ Legal(d)
      /\ v6' = [v6 EXCEPT ![p] = FALSE] /\ v7' = [v7 EXCEPT ![p] = FALSE]
      /\ UNCHANGED <<below, calls, over, v1, v2, v3, v4, v5>>
  BY TimerChecker DEF Ti!Destroy, Ti!Calls, Ti!clock, Ti!instance
<1>2. d \in Checker /\ ~Pending(d) /\ ~Pending(above[p])
  BY <1>1, ResetMoves, TimerTypes DEF Pending, Legal
<1>3. /\ v6' \in [Sleepers -> BOOLEAN] /\ v7' \in [Sleepers -> BOOLEAN]
      /\ \A q \in Sleepers : q # p => v7'[q] = v7[q]
  BY <1>1, TimerTypes
<1> HIDE DEF d
<1> QED BY <1>1, <1>2, <1>3, TimerStaysAway

LEMMA TimerElapse ==
    ASSUME Ti!Inv, Ti!Elapse
    PROVE  Ti!Inv'
<1>1. v2' = TRUE /\ UNCHANGED <<above, below, calls, over, v1, v3, v4, v5, v6, v7>>
  BY DEF Ti!Elapse, Ti!shared, Ti!instance, Ti!awaiter
<1>2. calls' = calls /\ above' = above
  BY <1>1
<1> QED BY <1>1, <1>2, TimerTypes, TimerCalls, TimerSleeps, TimerGoesOn

LEMMA TimerTimeout ==
    ASSUME Ti!Inv, Ti!Timeout
    PROVE  Ti!Inv'
<1>1. /\ calls = <<>> /\ v3' = TRUE /\ v4' = FALSE /\ calls' = OneFired \o <<>>
      /\ UNCHANGED <<above, below, over, v1, v2, v5, v6, v7>>
  BY DEF Ti!Timeout, Ti!Calling, Ti!clock, Ti!awaiter, OneFired, Ti!Fired
<1>2. calls' = OneFired
  <2>1. OneFired \in Seq({Ti!Fired(0)})
    BY DEF OneFired
  <2> QED BY <1>1, <2>1, ConcatEmptySeq
<1>3. \A q : ~StartingIn(calls, q) /\ ~StartingIn(calls', q)
  BY <1>1, <1>2, TimerStacks
<1>4. above' = above
  BY <1>1
<1> QED BY <1>1, <1>2, <1>3, <1>4, TimerTypes, TimerSleeps, TimerGoesOn

LEMMA TimerWake ==
    ASSUME Ti!Inv, Ti!Wake
    PROVE  Ti!Inv'
<1>1. PICK p \in v5 :
          /\ Ti!InCall("fired") /\ v5' = v5 \ {p}
          /\ above' = [above EXCEPT ![p] = IF v7[p] THEN Ti!Resumed(above[p]) ELSE above[p]]
          /\ v7' = [v7 EXCEPT ![p] = FALSE]
          /\ UNCHANGED <<below, calls, over, v1, v2, v3, v4, v6>>
  BY DEF Ti!Wake, Ti!Others, Ti!clock
<1>2. p \in Sleepers
  BY TimerTypes
<1>3. Pending(above[p]) /\ v7[p] /\ ~StartingIn(calls, p)
  BY <1>2, TimerSleeps
<1> DEFINE d == Resumed(above[p])
<1>4. above' = [above EXCEPT ![p] = d]
  BY <1>1, <1>3, TimerChecker
<1>5. d \in Checker /\ ~Pending(d) /\ Legal(d)
  BY <1>2, <1>3, ResumeMoves, TimerTypes DEF Goes, Pending, Legal
<1> HIDE DEF d
<1>6. v3
  <2>1. calls # <<>>
    BY <1>1 DEF Ti!InCall
  <2> QED BY <2>1, TimerCalls
<1>7. /\ v7' \in [Sleepers -> BOOLEAN]
      /\ \A q \in Sleepers : q # p => v7'[q] = v7[q]
  BY <1>1, <1>2, TimerTypes
<1>8. v4' \in BOOLEAN /\ (v4' <=> (~v3 /\ v5' # {}))
  BY <1>1, <1>6, TimerTypes
<1> QED BY <1>1, <1>2, <1>3, <1>4, <1>5, <1>7, <1>8, TimerTypes, TimerLeaves

LEMMA TimerFiredReturns ==
    ASSUME Ti!Inv, Ti!FiredReturns
    PROVE  Ti!Inv'
<1>1. /\ calls # <<>> /\ Head(calls).fn = "fired" /\ v5 = {} /\ calls' = Tail(calls)
      /\ UNCHANGED <<above, below, over, v1, v2, v3, v4, v5, v6, v7>>
  BY DEF Ti!FiredReturns, Ti!InCall, Ti!clock, Ti!instance, Ti!awaiter
<1>2. \A p : Head(InSuspend(p)).fn # "fired"
  BY TimerStacks DEF Ti!Started
<1>3. above' = above
  BY <1>1
<1>4. CASE calls = OneFired
  <2>1. calls' = <<>> /\ \A q : ~StartingIn(calls', q) /\ ~StartingIn(calls, q)
    BY <1>1, <1>4, TimerStacks
  <2> QED BY <1>1, <1>3, <2>1, TimerTypes, TimerSleeps, TimerGoesOn
<1>5. CASE \E p \in Sleepers : calls = TooLate(p) /\ v3
  <2>1. PICK p \in Sleepers : calls = TooLate(p) /\ v3
    BY <1>5
  <2>2. calls' = InSuspend(p)
    BY <1>1, <2>1, TimerStacks
  <2>3. \A q : StartingIn(InSuspend(p), q) <=> StartingIn(TooLate(p), q)
    BY TimerStacks
  <2>4. \A q : StartingIn(calls', q) <=> StartingIn(calls, q)
    BY <2>1, <2>2, <2>3
  <2> QED BY <1>1, <1>3, <2>1, <2>2, <2>4, TimerTypes, TimerSleeps, TimerGoesOn
<1> QED BY <1>1, <1>2, <1>4, <1>5, TimerCalls

LEMMA TimerSuspendReturns ==
    ASSUME Ti!Inv, Ti!SuspendReturns
    PROVE  Ti!Inv'
<1>1. /\ calls # <<>> /\ Head(calls).fn = "await_suspend" /\ calls' = Tail(calls)
      /\ above' = [above EXCEPT ![Head(calls).to] = Ti!Resumed(above[Head(calls).to])]
      /\ UNCHANGED <<below, over, v1, v2, v3, v4, v5, v6, v7>>
  BY DEF Ti!SuspendReturns, Ti!InCall, Ti!Callee, Ti!clock, Ti!instance, Ti!awaiter
<1>2. PICK p \in Sleepers : calls = InSuspend(p) /\ v3 /\ v5 = {}
  BY <1>1, TimerCalls, TimerStacks
<1>3. /\ Head(calls) = Ti!Started(p) /\ calls' = <<>>
      /\ \A q : (StartingIn(calls, q) <=> q = p) /\ ~StartingIn(calls', q)
  <2>1. /\ Head(InSuspend(p)) = Ti!Started(p) /\ Tail(InSuspend(p)) = <<>>
        /\ \A q : (StartingIn(InSuspend(p), q) <=> q = p) /\ ~StartingIn(<<>>, q)
    BY TimerStacks
  <2> QED BY <1>1, <1>2, <2>1
<1>4. Head(calls).to = p
  BY <1>3 DEF Ti!Started
<1> DEFINE d == Resumed(above[p])
<1>5. above' = [above EXCEPT ![p] = d]
  BY <1>1, <1>4, TimerChecker
<1>6. d \in Checker /\ ~Pending(d) /\ Legal(d)
  <2>1. Pending(above[p])
    BY <1>3, TimerSleeps
  <2> QED BY <2>1, ResumeMoves, TimerTypes DEF Goes, Pending, Legal
<1> HIDE DEF d
<1>7. /\ above' \in [Sleepers -> Checker] /\ above'[p] = d
      /\ \A q \in Sleepers : q # p => above'[q] = above[q]
  BY <1>5, <1>6, TimerTypes
<1>8. ASSUME NEW q \in Sleepers
      PROVE  /\ Legal(above'[q])
             /\ q \in v5' => Pending(above'[q]) /\ v7'[q]
             /\ StartingIn(calls', q) => Pending(above'[q]) /\ q \notin v5'
             /\ v1 = "positive" /\ Pending(above'[q]) => q \in v5' \/ StartingIn(calls', q)
  <2>1. CASE q = p
    BY <1>1, <1>2, <1>3, <1>6, <1>7, <2>1
  <2>2. CASE q # p
    BY <1>1, <1>2, <1>3, <1>7, <2>2, TimerSleeps
  <2> QED BY <2>1, <2>2
<1> QED BY <1>1, <1>2, <1>3, <1>7, <1>8, TimerTypes, TimerGoesOn

LEMMA TimerInit ==
    ASSUME Ti!Init
    PROVE  Ti!Inv
<1>1. /\ above = [p \in Sleepers |-> Fresh] /\ below = [c \in {} |-> Fresh] /\ calls = <<>> /\ over = "no"
      /\ v1 \in {"negative", "zero", "positive"} /\ v2 = FALSE /\ v3 = (v1 = "zero")
      /\ v4 = FALSE /\ v5 = {}
      /\ v6 = [p \in Sleepers |-> FALSE] /\ v7 = [p \in Sleepers |-> FALSE]
  BY TimerChecker DEF Ti!Init, Ti!ProtocolInit
<1>2. Fresh \in Checker /\ Fresh.state = "Initial"
  BY DEF Fresh, Checker, CheckerState
<1>3. Ti!Called
  BY <1>1 DEF Ti!Called
<1>4. ASSUME NEW p \in Sleepers PROVE Ti!Sleeps(p)
  <2>1. above[p].state = "Initial" /\ p \notin v5
    BY <1>1, <1>2
  <2>2. ~Ti!Starting(p)
    BY <1>1 DEF Ti!Starting
  <2> QED BY <2>1, <2>2 DEF Ti!Sleeps, Ti!Legal, Ti!Pending
<1>5. /\ above \in [Sleepers -> Ti!Checker] /\ below \in [{} -> Ti!Checker]
      /\ v6 \in [Sleepers -> BOOLEAN] /\ v7 \in [Sleepers -> BOOLEAN]
  BY <1>1, <1>2, TimerChecker
<1> QED BY <1>1, <1>3, <1>4, <1>5 DEF Ti!Inv

LEMMA TimerKeeps ==
    ASSUME Ti!Inv, Ti!Next
    PROVE  Ti!Inv'
<1>1. CASE \E p \in Sleepers :
              \/ Ti!Ready(p) \/ Ti!EarlyCancel(p) \/ Ti!SetExecutor(p) \/ Ti!SuspendNot(p)
              \/ Ti!SuspendTooLate(p) \/ Ti!Suspend(p) \/ Ti!Cancel(p) \/ Ti!MustResume(p)
              \/ Ti!Resume(p) \/ Ti!Destroy(p)
  BY <1>1, TimerReady, TimerEarlyCancel, TimerSetExecutor, TimerSuspendNot, TimerSuspendTooLate,
     TimerSuspend, TimerCancel, TimerMustResume, TimerResume, TimerDestroy
<1> QED BY <1>1, TimerElapse, TimerTimeout, TimerWake, TimerFiredReturns, TimerSuspendReturns DEF Ti!Next

LEMMA TimerInvariant == Spec => [](class = "timer" => Ti!Inv)
<1>1. Init => (class = "timer" => Ti!Inv)
  BY TimerInit DEF Init
<1>2. (class = "timer" => Ti!Inv) /\ [Next]_vars => (class = "timer" => Ti!Inv)'
  <2>1. ASSUME class = "timer", Ti!Inv, Next PROVE Ti!Inv'
    BY <2>1, TimerKeeps DEF Next
  <2>2. ASSUME class = "timer", Ti!Inv, UNCHANGED vars PROVE Ti!Inv'
    <3>1. UNCHANGED <<above, below, calls, over, v1, v2, v3, v4, v5, v6, v7>>
      BY <2>2 DEF vars, shared
    <3>2. calls' = calls /\ above' = above
      BY <3>1
    <3> QED BY <2>2, <3>1, <3>2, TimerTypes, TimerCalls, TimerSleeps, TimerGoesOn
  <2>3. [Next]_vars => class' = class
    BY DEF Next, vars, two, three, five, seven
  <2> QED BY <2>1, <2>2, <2>3
<1> QED BY <1>1, <1>2, PTL DEF Spec

\* Nobody oversleeps.
LEMMA TimerWakes == Ti!Inv => Ti!SleepersAwaited /\ Ti!TypeOK /\ Ti!ProtocolKept
<1> SUFFICES ASSUME Ti!Inv PROVE Ti!SleepersAwaited /\ Ti!TypeOK /\ Ti!ProtocolKept
  OBVIOUS
<1>1. v5 # {} => v4 \/ Ti!InCall("fired")
  <2> SUFFICES ASSUME v5 # {}, ~v4 PROVE Ti!InCall("fired")
    OBVIOUS
  <2>1. calls = OneFired \/ \E p \in Sleepers : calls = TooLate(p)
    BY TimerTypes, TimerCalls
  <2> QED BY <2>1, TimerStacks DEF Ti!InCall
<1>2. \A p \in Sleepers : Ti!Sleeps(p)
  BY TimerTypes
<1>3. Ti!SleepersAwaited
  BY <1>1, <1>2, TimerTypes DEF Ti!SleepersAwaited, Ti!Sleeps
<1>4. Ti!TypeOK
  <2>1. DOMAIN above = Sleepers /\ DOMAIN below = {}
    BY TimerTypes
  <2> QED BY <2>1 DEF Ti!Inv, Ti!TypeOK, Ti!ProtocolTypeOK
<1>5. Ti!ProtocolKept
  BY <1>2, TimerTypes, TimerChecker DEF Ti!ProtocolKept, Ti!Sleeps
<1> QED BY <1>3, <1>4, <1>5
=============================================================================
