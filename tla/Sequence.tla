------------------------------ MODULE Sequence ------------------------------
(***************************************************************************)
(* detail/Sequence.h: first | then(thenFn), which awaits child 1 and then  *)
(* child 2, the awaitable that thenFn makes of the first one's result.     *)
(* thenFn is foreign code: it may cancel the very task that awaits this.   *)
(***************************************************************************)
EXTENDS Awaitable

VARIABLES
    stage,      \* what second_ holds
    cancelling  \* cancelling_

vars == <<shared, stage, cancelling>>

A == above[1]
First == below[1]
Second == below[2]
Below(c, d) == below' = [below EXCEPT ![1] = c, ![2] = d]

TypeOK ==
    /\ ProtocolTypeOK
    /\ stage \in {"first",      \* the executor: running the first stage
                  "second",     \* running the second stage
                  "neither",    \* constructing it, or it is gone
                  "exception"}  \* the first stage threw one
    /\ cancelling \in BOOLEAN

Init == /\ ProtocolInit({1}, {1, 2})
        /\ stage = "first"
        /\ cancelling = FALSE

----------------------------------------------------------------------------
(* The calls of the parent before the operation starts.                    *)

\* await_ready(): never.
Ready == /\ A.state \in BeforeSuspend
         /\ Calls(1, ReadyReturned(A, FALSE))
         /\ UNCHANGED <<below, calls, over, stage, cancelling>>

SetExecutor == /\ ~A.hasExecutor
               /\ Calls(1, AboutToSetExecutor(A))
               /\ Below(AboutToSetExecutor(First), Second)
               /\ UNCHANGED <<calls, over, stage, cancelling>>

EarlyCancel ==
    \E val \in BOOLEAN :
        /\ Calls(1, EarlyCancelReturned(A, val))
        /\ Below(EarlyCancelReturned(First, val), Second)
        /\ cancelling' = TRUE
        /\ UNCHANGED <<calls, over, stage>>

----------------------------------------------------------------------------
(* From the first stage to the second.                                     *)

ResumeParent(a) == above' = [above EXCEPT ![1] = Resumed(a)]

\* kickOffSecond(), up to where the second stage is constructed: "a" and
\* "first" are the checkers by then.
KickOffSecond(a, first) ==
    \/ /\ cancelling
       /\ ResumeParent(a)
       /\ Below(MustResumeReturned(first, FALSE), Second)
       /\ UNCHANGED <<calls, stage>>
    \/ LET went == AboutToResume(IF cancelling THEN MustResumeReturned(first, TRUE)
                                 ELSE first)
       IN  /\ Below(went, Second)
           /\ \/ /\ ResumeParent(a)         \* the first stage throws
                 /\ stage' = "exception"
                 /\ UNCHANGED calls
              \/ /\ above' = [above EXCEPT ![1] = a]
                 /\ stage' = "neither"
                 /\ calls' = Calling("thenFn", 2)

\* await_suspend().
Suspend ==
    /\ over = "no" /\ Legal(AboutToSuspend(A))
    /\ \/ KickOffSecond(AboutToSuspend(A), ReadyReturned(First, TRUE))
       \/ /\ Calls(1, AboutToSuspend(A))
          /\ Below(AboutToSuspend(ReadyReturned(First, FALSE)), Second)
          /\ calls' = Calling("await_suspend", 1)
          /\ UNCHANGED stage
    /\ UNCHANGED <<over, cancelling>>

\* The handle the first stage has is resumed.
FirstResumes ==
    /\ over = "no" /\ Pending(First)
    /\ KickOffSecond(A, Resumed(First))
    /\ UNCHANGED <<over, cancelling>>

ThenFnThrows ==
    /\ InCall("thenFn")
    /\ calls' = Tail(calls)
    /\ stage' = "exception"
    /\ ResumeParent(A)
    /\ UNCHANGED <<below, over, cancelling>>

BugSkipsLateCancel == FALSE
\* Whether the second stage is asked to skip itself, thenFn having returned.
AsksSecond == cancelling

\* thenFn returns: the rest of kickOffSecond().
ThenFnReturns ==
    /\ InCall("thenFn")
    /\ \/ /\ AsksSecond               \* the second stage is skipped
          /\ calls' = Tail(calls)
          /\ ResumeParent(A)
          /\ UNCHANGED <<below, stage>>
       \/ LET second == IF AsksSecond THEN EarlyCancelReturned(Fresh, FALSE)
                        ELSE Fresh
          IN  /\ stage' = "second"
              /\ \/ /\ Below(First, ReadyReturned(second, TRUE))
                    /\ ResumeParent(A)
                    /\ calls' = Tail(calls)
                 \/ /\ Below(First, AboutToSuspend(AboutToSetExecutor(
                                        ReadyReturned(second, FALSE))))
                    /\ calls' = <<[fn |-> "await_suspend", to |-> 2]>> \o Tail(calls)
                    /\ UNCHANGED above
    /\ UNCHANGED <<over, cancelling>>

\* The second stage has the parent's handle.
SecondResumes ==
    /\ over = "no" /\ Pending(Second)
    /\ ResumeParent(A)
    /\ Below(First, Resumed(Second))
    /\ UNCHANGED <<calls, over, stage, cancelling>>

----------------------------------------------------------------------------
(* Cancellation, and calls that come back.                                 *)

BugForgetsLateCancel == stage # "neither"
\* Whether await_cancel() leaves word for kickOffSecond().
Remembers == TRUE

\* await_cancel().
Cancel ==
    /\ Calls(1, AboutToCancel(A))
    /\ cancelling' = Remembers
    /\ CASE stage = "first" ->
                Below(AboutToCancel(First), Second)
                  /\ calls' = Calling("await_cancel", 1)
         [] stage = "second" ->
                Below(First, AboutToCancel(Second))
                  /\ calls' = Calling("await_cancel", 2)
         [] OTHER -> UNCHANGED <<below, calls>>
    /\ UNCHANGED <<over, stage>>

Returns == /\ InCall("await_suspend") \/ InCall("await_cancel")
           /\ calls' = Tail(calls)
           /\ UNCHANGED <<above, below, over, stage, cancelling>>

CancelReturnsTrue ==
    /\ InCall("await_cancel") /\ below[Callee].state = "Cancelling"
    /\ calls' = Tail(calls)
    /\ below' = [below EXCEPT ![Callee] = CancelReturned(@, TRUE)]
    /\ above' = [above EXCEPT ![1] = CancelReturned(@, TRUE)]
    /\ UNCHANGED <<over, stage, cancelling>>

\* The await_suspend() of a child throws: kickOffSecond() is noexcept.
SuspendThrows ==
    /\ InCall("await_suspend") /\ over = "no" /\ Pending(below[Callee])
    /\ calls' = Tail(calls)
    /\ below' = [below EXCEPT ![Callee] = SuspendThrew(@)]
    /\ IF Callee = 1
       THEN above' = [above EXCEPT ![1] = SuspendThrew(@)] /\ UNCHANGED over
       ELSE over' = "terminated" /\ UNCHANGED above
    /\ UNCHANGED <<stage, cancelling>>

----------------------------------------------------------------------------
(* The calls of the parent when it is resumed.                             *)

\* await_must_resume(), which drops a second stage that has no result.
MustResume ==
    \E val \in BOOLEAN :
        /\ Calls(1, MustResumeReturned(A, val))
        /\ IF stage = "second"
           THEN LET asked == MustResumeReturned(Second, val)
                IN  /\ Below(First, IF val THEN asked ELSE Reset(asked))
                    /\ stage' = IF val THEN "second" ELSE "neither"
           ELSE val = (stage = "exception") /\ UNCHANGED <<below, stage>>
        /\ UNCHANGED <<calls, over, cancelling>>

\* await_resume(), which leaves no second stage behind.
Resume ==
    /\ Calls(1, AboutToResume(A))
    /\ IF stage = "exception" THEN UNCHANGED below
       ELSE Below(First, IF stage = "second" THEN Reset(AboutToResume(Second))
                         ELSE Step(Second, <<>>))
    /\ stage' = "neither"
    /\ UNCHANGED <<calls, over, cancelling>>

\* ~Sequence(), with the checkers of what it holds.
Destroy ==
    /\ Calls(1, Reset(A))
    /\ Below(Reset(First), IF stage = "second" THEN Reset(Second) ELSE Second)
    /\ over' = "destroyed"
    /\ UNCHANGED <<calls, stage, cancelling>>

Next == Ready \/ SetExecutor \/ EarlyCancel \/ Suspend \/ FirstResumes
          \/ ThenFnThrows \/ ThenFnReturns \/ SecondResumes \/ Cancel \/ Returns
          \/ CancelReturnsTrue \/ SuspendThrows \/ MustResume \/ Resume \/ Destroy

\* As in Adapters: a child ends, once it is asked to.
CallsReturn == Returns \/ CancelReturnsTrue \/ SuspendThrows
                 \/ ThenFnReturns \/ ThenFnThrows
GoesOn == MustResume \/ Resume
OperationEnds == \/ First.state = "Cancelling" /\ FirstResumes
                 \/ Second.state = "Cancelling" /\ SecondResumes

Fairness ==
    WF_vars(CallsReturn) /\ WF_vars(GoesOn) /\ WF_vars(OperationEnds)

Spec == Init /\ [][Next]_vars /\ Fairness

----------------------------------------------------------------------------
(* Why the protocol is kept: where the two stages are.                     *)

\* The calls of the children; that of thenFn is the innermost one.
Called == [fn : {"await_suspend", "await_cancel"}, to : {1, 2}]

\* The first stage has not been started;
Begins ==
    /\ stage = "first" /\ Second.state = "Initial"
    /\ First.hasExecutor = A.hasExecutor
    /\ IF cancelling
       THEN A.state \in {"InitialCxlPend", "CancelPending"} /\ First.state = "InitialCxlPend"
       ELSE A.state \in {"Initial", "NotReady"} /\ First.state = "Initial"

\* it runs, or has had no result;
FirstStage ==
    /\ stage = "first" /\ Second.state = "Initial"
    /\ \/ /\ Pending(A) /\ First.state = A.state
          /\ cancelling <=> A.state = "Cancelling"
       \/ A.state \in {"ReadyAfterCancel", "Cancelled"} /\ First.state = "Cancelled"
       \/ A.state = "Done" /\ First.state = "Done"

\* thenFn runs;
Between ==
    /\ stage = "neither" /\ First.state = "Done" /\ Second.state = "Initial"
    /\ Pending(A)
    /\ cancelling <=> A.state = "Cancelling"
    /\ calls # <<>> /\ Head(calls) = [fn |-> "thenFn", to |-> 2]
    /\ Tail(calls) \in Seq(Called)

\* the second stage runs, or has ended;
SecondStage ==
    /\ stage = "second" /\ First.state = "Done"
    /\ \/ Pending(A) /\ Second.state = A.state
       \/ A.state = "Ready" /\ Second.state \in {"ReadyImmediately", "Ready"}
       \/ A.state \in {"ReadyAfterCancel", "Cancelled"} /\ Second.state = A.state

\* or there is none.
NoStage ==
    /\ First.state = "Done" /\ Second.state = "Initial"
    /\ \/ stage = "exception" /\ A.state \in {"Ready", "ReadyAfterCancel"}
       \/ stage = "neither" /\ A.state \in {"ReadyAfterCancel", "Cancelled", "Done"}

Inv ==
    /\ above \in [{1} -> Checker] /\ below \in [{1, 2} -> Checker]
    /\ stage \in {"first", "second", "neither", "exception"} /\ cancelling \in BOOLEAN
    /\ \/ over = "no" /\ Between
       \/ /\ over = "no" /\ (Begins \/ FirstStage \/ SecondStage \/ NoStage)
          /\ calls \in Seq(Called)
       \/ /\ over = "destroyed" /\ calls \in Seq(Called)
          /\ A.state = "Initial" /\ First.state = "Initial" /\ Second.state = "Initial"
       \/ /\ over = "terminated" /\ calls \in Seq(Called)
          /\ Pending(A) /\ First.state = "Done" /\ Second.state = "Done"
=============================================================================
