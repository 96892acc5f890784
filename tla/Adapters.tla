------------------------------ MODULE Adapters ------------------------------
(***************************************************************************)
(* detail/utility.h: the awaitables that wrap another one to change how it *)
(* is cancelled.                                                           *)
(*   noncancellable      CancellableAdapter                                *)
(*   disposable          DisposableAdapter                                 *)
(*   untilCancelledAnd   RunOnCancel: runs its child once it is cancelled  *)
(*   lambda              AwaitableLambda: makes its child when needed      *)
(*   yield               YieldImpl: no child, no hooks of its own          *)
(***************************************************************************)
EXTENDS Awaitable

VARIABLES
    kind,           \* the class
    cancelPending   \* RunOnCancel::cancelPending_

vars == <<shared, kind, cancelPending>>

A == above[1]
B == below[1]
Below(c) == below' = [below EXCEPT ![1] = c]

Kinds == {"noncancellable", "disposable", "untilCancelledAnd", "lambda", "yield"}

TypeOK == /\ ProtocolTypeOK
          /\ kind \in Kinds /\ cancelPending \in BOOLEAN

Init == /\ ProtocolInit({1}, {1})
        /\ kind \in Kinds
        /\ cancelPending = FALSE

\* The classes that pass every call on, with the parent's own handle.
Forwards == kind \in {"noncancellable", "disposable", "lambda"}

----------------------------------------------------------------------------
(* Before the operation starts.                                            *)

\* await_ready().
Ready ==
    /\ A.state \in BeforeSuspend
    /\ IF kind \in {"noncancellable", "disposable"}
       THEN \E val \in ReadyAnswers(B) :
                /\ Calls(1, ReadyReturned(A, val))
                /\ Below(ReadyReturned(B, val))
       ELSE Calls(1, ReadyReturned(A, FALSE)) /\ UNCHANGED below
    /\ UNCHANGED <<calls, over, kind, cancelPending>>

\* The classes whose await_early_cancel() asks the child.
AsksChildEarly == kind \in {"disposable", "lambda"}

\* await_early_cancel(); awaitEarlyCancel() answers for a class without it.
EarlyCancel ==
    /\ \E val \in BOOLEAN :
        /\ Calls(1, EarlyCancelReturned(A, val))
        /\ IF AsksChildEarly
           THEN Below(EarlyCancelReturned(B, val))
           ELSE val = (kind = "yield") /\ UNCHANGED below
    /\ cancelPending' = (kind = "untilCancelledAnd")
    /\ UNCHANGED <<calls, over, kind>>

\* await_set_executor(), if the class has one.
SetExecutor ==
    /\ ~A.hasExecutor
    /\ Calls(1, AboutToSetExecutor(A))
    /\ IF kind = "yield" THEN UNCHANGED below ELSE Below(AboutToSetExecutor(B))
    /\ UNCHANGED <<calls, over, kind, cancelPending>>

----------------------------------------------------------------------------
(* The operation and its cancellation.                                     *)

\* RunOnCancel::await_cancel(): start the child, unless it is ready.  "a" is
\* the parent's checker by then.
RunAwaitable(a) ==
    \/ /\ Calls(1, Resumed(a))
       /\ Below(ReadyReturned(B, TRUE))
       /\ UNCHANGED calls
    \/ /\ Calls(1, a)
       /\ Below(AboutToSuspend(ReadyReturned(B, FALSE)))
       /\ calls' = Calling("await_suspend", 1)

\* await_suspend().  A lambda's task is never ready, so it is not asked.
SuspendForwarder ==
    /\ Forwards
    /\ Calls(1, AboutToSuspend(A))
    /\ Below(AboutToSuspend(IF kind = "lambda" THEN ReadyReturned(B, FALSE) ELSE B))
    /\ calls' = Calling("await_suspend", 1)
    /\ UNCHANGED <<over, kind, cancelPending>>

SuspendRunOnCancel ==
    /\ kind = "untilCancelledAnd"
    /\ IF cancelPending
       THEN Legal(AboutToSuspend(A)) /\ RunAwaitable(AboutToSuspend(A))
       ELSE Calls(1, AboutToSuspend(A)) /\ UNCHANGED <<below, calls>>
    /\ UNCHANGED <<over, kind, cancelPending>>

SuspendYield ==
    /\ kind = "yield"
    /\ Calls(1, AboutToSuspend(A))
    /\ calls' = Calling("callable", 1)
    /\ UNCHANGED <<below, over, kind, cancelPending>>

\* await_cancel(); awaitCancel() answers false for a class without it.
Cancel ==
    /\ Legal(AboutToCancel(A))
    /\ CASE kind \in {"disposable", "lambda"} ->
                /\ Calls(1, AboutToCancel(A))
                /\ Below(AboutToCancel(B))
                /\ calls' = Calling("await_cancel", 1)
         [] kind = "untilCancelledAnd" -> RunAwaitable(AboutToCancel(A))
         [] OTHER -> Calls(1, AboutToCancel(A)) /\ UNCHANGED <<below, calls>>
    /\ UNCHANGED <<over, kind, cancelPending>>

\* The child resumes the handle, which is the parent's.
ChildResumes ==
    /\ over = "no" /\ Pending(B)
    /\ above' = [above EXCEPT ![1] = Resumed(A)]
    /\ Below(Resumed(B))
    /\ UNCHANGED <<calls, over, kind, cancelPending>>

\* A call of the child, or of a yield's callable, comes back.
Returns ==
    /\ calls # <<>>
    /\ calls' = Tail(calls)
    /\ IF InCall("callable") /\ over = "no"
       THEN above' = [above EXCEPT ![1] = Resumed(A)]
       ELSE UNCHANGED above
    /\ UNCHANGED <<below, over, kind, cancelPending>>

\* await_cancel() of the child returns true.
CancelReturnsTrue ==
    /\ InCall("await_cancel") /\ B.state = "Cancelling"
    /\ calls' = Tail(calls)
    /\ Below(CancelReturned(B, TRUE))
    /\ above' = [above EXCEPT ![1] = CancelReturned(A, TRUE)]
    /\ UNCHANGED <<over, kind, cancelPending>>

\* await_suspend() of the child, or the callable, throws: an exception of
\* await_suspend(), that RunOnCancel::await_cancel(), a noexcept, lets nobody
\* have.
SuspendThrows ==
    /\ over = "no"
    /\ \/ InCall("callable") /\ UNCHANGED below
       \/ InCall("await_suspend") /\ Pending(B) /\ Below(SuspendThrew(B))
    /\ calls' = Tail(calls)
    /\ IF kind = "untilCancelledAnd"
       THEN over' = "terminated" /\ UNCHANGED above
       ELSE above' = [above EXCEPT ![1] = SuspendThrew(A)] /\ UNCHANGED over
    /\ UNCHANGED <<kind, cancelPending>>

----------------------------------------------------------------------------
(* Its end.                                                                *)

\* The classes that have a result for a parent that wants none.
AlwaysMustResume == kind \in {"noncancellable", "yield"}

\* await_must_resume().  RunOnCancel takes the child's result here; if it is
\* an exception, that is the end of the program.
MustResume ==
    /\ \E val \in BOOLEAN :
        /\ Calls(1, MustResumeReturned(A, val))
        /\ CASE kind = "lambda" -> Below(MustResumeReturned(B, val))
             [] kind = "untilCancelledAnd" -> ~val /\ Below(AboutToResume(B))
             [] OTHER -> val = AlwaysMustResume /\ UNCHANGED below
    /\ over' \in IF kind = "untilCancelledAnd" THEN {"no", "terminated"} ELSE {"no"}
    /\ UNCHANGED <<calls, kind, cancelPending>>

\* await_resume(), which RunOnCancel does not expect.
Resume ==
    /\ Calls(1, AboutToResume(A))
    /\ CASE Forwards -> Below(AboutToResume(B))
         [] kind = "untilCancelledAnd" -> Below(Step(B, <<>>))
         [] OTHER -> UNCHANGED below
    /\ UNCHANGED <<calls, over, kind, cancelPending>>

\* The parent destroys the awaitable; RunOnCancel keeps its child in an
\* AwaitableAdapter, whose checker goes with it.
Destroy ==
    /\ Calls(1, Reset(A))
    /\ IF kind = "untilCancelledAnd" THEN Below(Reset(B)) ELSE UNCHANGED below
    /\ over' = "destroyed"
    /\ UNCHANGED <<calls, kind, cancelPending>>

Child == ChildResumes \/ Returns \/ CancelReturnsTrue \/ SuspendThrows
Parent == Ready \/ EarlyCancel \/ SetExecutor \/ SuspendForwarder
            \/ SuspendRunOnCancel \/ SuspendYield \/ Cancel \/ MustResume
            \/ Resume \/ Destroy
Next == Parent \/ Child

\* Calls return, parents follow up on a resumption, and children end once
\* they are cancelled or, where cancellation is kept from them, in the end.
CallsReturn == Returns \/ CancelReturnsTrue \/ SuspendThrows
GoesOn == MustResume \/ Resume
OperationEnds ==
    /\ B.state = "Cancelling" \/ kind \in {"noncancellable", "untilCancelledAnd"}
    /\ ChildResumes

Fairness ==
    WF_vars(CallsReturn) /\ WF_vars(GoesOn) /\ WF_vars(OperationEnds)

Spec == Init /\ [][Next]_vars /\ Fairness

----------------------------------------------------------------------------
(* A noncancellable() child never hears of a cancellation, and its result  *)
(* is always taken.                                                        *)
Shielded ==
    kind = "noncancellable" =>
        /\ B.state \notin {"InitialCxlPend", "CancelPending", "Cancelling",
                           "ReadyAfterCancel", "Cancelled"}
        /\ A.state # "Cancelled"

(* untilCancelledAnd() runs its child only for a cancellation, and is over *)
(* only when the child is.                                                 *)
RunsOnCancel ==
    kind = "untilCancelledAnd" =>
        /\ B.state \notin BeforeSuspend \ {"ReadyImmediately"} =>
               A.state \in {"Cancelling", "ReadyAfterCancel", "Cancelled"}
                 \/ over # "no"
        /\ A.state = "Cancelled" => B.state = "Done"

(* Why: each class has told its child what the parent's checker says that  *)
(* it is to be told.  So where the child is follows from where the parent  *)
(* is: for noncancellable(), whose child hears of no cancellation,         *)
Unaware ==
    /\ A.state \in {"Initial", "NotReady", "ReadyImmediately", "Running", "Done"} =>
            B.state = A.state
    /\ A.state = "InitialCxlPend" => B.state = "Initial"
    /\ A.state = "CancelPending" => B.state = "NotReady"
    /\ A.state = "Cancelling" => B.state = "Running"
    /\ A.state \in {"ReadyAfterCancel", "Ready"} => B.state \in {"ReadyImmediately", "Ready"}
    /\ A.state # "Cancelled"

\* for disposable(), whose child hears of everything but may be left alone
\* with a result,
Informed ==
    \/ B.state = A.state
    \/ A.state = "Cancelled" /\ B.state = "ReadyAfterCancel"

\* for a lambda, which is asked for readiness when it is to suspend,
Unasked ==
    /\ A.state = "NotReady" => B.state = "Initial"
    /\ A.state = "CancelPending" => B.state = "InitialCxlPend"
    /\ A.state \notin {"NotReady", "CancelPending"} => B.state = A.state
    /\ A.state # "ReadyImmediately"

\* and for untilCancelledAnd(), whose child is the answer to a cancellation.
OnCancel ==
    /\ A.state \in {"Initial", "NotReady", "Running"} => ~cancelPending /\ B.state = "Initial"
    /\ A.state \in {"InitialCxlPend", "CancelPending"} => cancelPending /\ B.state = "Initial"
    /\ A.state = "Cancelling" => B.state = "Running"
    /\ A.state = "ReadyAfterCancel" => B.state \in {"ReadyImmediately", "Ready"}
    /\ A.state = "Cancelled" => B.state = "Done"
    /\ A.state \notin {"ReadyImmediately", "Ready", "Done"}

AtWork ==
    /\ kind = "noncancellable" => Unaware
    /\ kind = "disposable" => Informed
    /\ kind = "lambda" => Unasked
    /\ kind = "untilCancelledAnd" => OnCancel
    /\ IF kind = "yield" THEN B.state = "Initial" ELSE B.hasExecutor = A.hasExecutor
    /\ Pending(A) => A.hasExecutor

Gone ==
    /\ A.state = "Initial"
    /\ \/ B.state \in {"Initial", "Done"}
       \/ AsksChildEarly /\ B.state \in {"Cancelled", "ReadyAfterCancel"}

Failed ==
    /\ kind = "untilCancelledAnd"
    /\ A.state \in {"Cancelling", "Cancelled"} /\ B.state = "Done"

\* The calls of the child that may be under way.
Callees == {"await_suspend"} \cup
             (IF kind \in {"disposable", "lambda"} THEN {"await_cancel"} ELSE {})

Inv ==
    /\ above \in [{1} -> Checker] /\ below \in [{1} -> Checker]
    /\ kind \in Kinds /\ cancelPending \in BOOLEAN
    /\ Legal(A) /\ Legal(B)
    /\ over \in {"no", "destroyed", "terminated"}
    /\ IF kind = "yield"
       THEN calls = IF Pending(A) THEN <<[fn |-> "callable", to |-> 1]>> ELSE <<>>
       ELSE calls \in Seq([fn : Callees, to : {1}])
    /\ over = "no" => AtWork
    /\ over = "destroyed" => Gone
    /\ over = "terminated" => Failed
=============================================================================
