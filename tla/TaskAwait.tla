----------------------------- MODULE TaskAwait -----------------------------
(***************************************************************************)
(* A task between the awaitable that runs it (TaskAwaiter) and what its    *)
(* body awaits: detail/TaskAwaiter.h and detail/Promise.h.  The body       *)
(* awaits child 1 a number of times, each time a new operation, and ends.  *)
(***************************************************************************)
EXTENDS Awaitable

CONSTANT MaxAwaits

VARIABLES
    state,          \* state_: suspended on awaitee_, or an enumerator
    cancelState,    \* cancelState_: None stands for all that is not Requested
    resumeFn,       \* what the resumption of proxyHandle() does
    promise,        \* promise_ of the TaskAwaiter is not null
    outcome,        \* result_ of the TaskAwaiter
    left,           \* how often the body is still to await something
    cancelRequested \* local to the hookAwaitSuspend() that is in progress

promiseVars == <<state, cancelState, resumeFn, promise, outcome>>
bodyVars == <<left, cancelRequested>>
vars == <<shared, promiseVars, bodyVars>>

A == above[1]
B == below[1]
Below(c) == below' = [below EXCEPT ![1] = c]

TypeOK ==
    /\ ProtocolTypeOK
    /\ state \in {"Ready", "Running", "Stub", "suspended", "finished"}
    /\ cancelState \in {"None", "Requested"}
    /\ resumeFn \in {"doResume", "doResumeAfterCancel", "doNothing"}
    /\ promise \in BOOLEAN
    /\ outcome \in {"incomplete", "value", "exception", "cancelled"}
    /\ left \in 0..MaxAwaits
    /\ cancelRequested \in BOOLEAN

\* A coroutine, or a promise made by just() or noop().
Init == /\ ProtocolInit({1}, {1})
        /\ state \in {"Ready", "Stub"}
        /\ cancelState = "None" /\ resumeFn = "doNothing"
        /\ promise = TRUE /\ outcome = "incomplete"
        /\ left = IF state = "Stub" THEN 0 ELSE MaxAwaits
        /\ cancelRequested = FALSE

IsStub == state = "Stub"
HasAwaitee == state = "suspended"

----------------------------------------------------------------------------
(* How the task ends, and how it goes on.                                  *)

\* continuation(): the TaskAwaiter forgets the promise and the one who
\* awaits it, whose checker is a by then, is resumed.
Finish(a, how) ==
    /\ outcome' = how
    /\ promise' = FALSE
    /\ state' = "finished"
    /\ above' = [above EXCEPT ![1] = Resumed(a)]
    /\ UNCHANGED <<cancelState, resumeFn>>

\* propagateCancel().
PropagateCancel == Finish(A, "cancelled")

\* doResume() has the executor run the task.
DoResume == /\ state' = "Ready"
            /\ resumeFn' = "doNothing"
            /\ UNCHANGED <<above, promise, outcome>>

\* doResumeAfterCancel(), child 1's checker being b.  If child 1 has completed
\* in spite of it, the request to cancel stands.
DoResumeAfterCancel(b) ==
    \/ Below(MustResumeReturned(b, TRUE)) /\ cancelState' = "Requested" /\ DoResume
    \/ Below(MustResumeReturned(b, FALSE)) /\ PropagateCancel

----------------------------------------------------------------------------
(* The calls of the one who awaits the task.                               *)

\* await_ready(): checkImmediateResult() runs a stub at once.
Ready ==
    /\ A.state \in BeforeSuspend
    /\ Calls(1, ReadyReturned(A, IsStub))
    /\ outcome' = IF IsStub THEN "value" ELSE outcome
    /\ UNCHANGED <<below, calls, over, state, cancelState, resumeFn, promise, bodyVars>>

SetExecutor ==
    /\ ~A.hasExecutor
    /\ Calls(1, AboutToSetExecutor(A))
    /\ UNCHANGED <<below, calls, over, promiseVars, bodyVars>>

\* await_early_cancel(): cancel(), the task not having started.
EarlyCancel ==
    /\ Calls(1, EarlyCancelReturned(A, FALSE))
    /\ cancelState' = "Requested"
    /\ UNCHANGED <<below, calls, over, state, resumeFn, promise, outcome, bodyVars>>

\* await_suspend() and the resumption of the handle that start() returns.  A
\* lambda does not ask a stub whether it is ready.
Suspend ==
    /\ over = "no"
    /\ LET unasked == AboutToSuspend(ReadyReturned(A, FALSE))
       IN  IF IsStub
           THEN outcome = "incomplete" /\ Legal(unasked) /\ Finish(unasked, "value")
           ELSE /\ Calls(1, AboutToSuspend(A))
                /\ resumeFn' = "doNothing"
                /\ UNCHANGED <<state, cancelState, promise, outcome>>
    /\ UNCHANGED <<below, calls, over, bodyVars>>

\* await_cancel() and BasePromise::cancel().  The request to a task that is
\* scheduled or running waits for its next await.
Cancel ==
    /\ Calls(1, AboutToCancel(A))
    /\ CASE promise /\ HasAwaitee ->
                /\ resumeFn' = "doResumeAfterCancel"
                /\ Below(AboutToCancel(B))
                /\ calls' = Calling("await_cancel", left)
                /\ UNCHANGED cancelState
         [] promise /\ ~HasAwaitee ->
                cancelState' = "Requested" /\ UNCHANGED <<below, calls, resumeFn>>
         [] ~promise -> UNCHANGED <<below, calls, cancelState, resumeFn>>
    /\ UNCHANGED <<over, state, promise, outcome, bodyVars>>

MustResume ==
    /\ Calls(1, MustResumeReturned(A, outcome # "cancelled"))
    /\ UNCHANGED <<below, calls, over, promiseVars, bodyVars>>

\* await_resume() needs a result.
Resume ==
    /\ Calls(1, AboutToResume(IF outcome \in {"value", "exception"} THEN A
                              ELSE Step(A, <<>>)))
    /\ UNCHANGED <<below, calls, over, promiseVars, bodyVars>>

\* The task is destroyed, with the checker of its promise.
Destroy ==
    /\ Calls(1, Reset(A))
    /\ Below(Reset(B))
    /\ over' = "destroyed"
    /\ UNCHANGED <<calls, promiseVars, bodyVars>>

----------------------------------------------------------------------------
(* The task.  Operation "left" is the one it has started last.             *)

\* The executor runs it.
Run ==
    /\ over = "no" /\ state = "Ready" /\ Pending(A)
    /\ state' = "Running"
    /\ UNCHANGED <<shared, cancelState, resumeFn, promise, outcome, bodyVars>>

\* A co_await.  AwaitProxy::await_ready() says yes, and await_resume() follows:
AwaitReady ==
    /\ cancelState = "None"
    /\ Below(AboutToResume(ReadyReturned(Reset(B), TRUE)))
    /\ UNCHANGED <<above, calls, promiseVars, cancelRequested>>

Suspended(b) ==
    /\ state' = "suspended"
    /\ cancelState' = "None"
    /\ Below(AboutToSuspend(AboutToSetExecutor(ReadyReturned(b, FALSE))))
    /\ calls' = Calling("await_suspend", left')
    /\ UNCHANGED <<above, promise, outcome>>

\* hookAwaitSuspend() without a request to cancel,
AwaitSuspend ==
    /\ cancelState = "None"
    /\ cancelRequested' = FALSE
    /\ resumeFn' = "doResume"
    /\ Suspended(Reset(B))

\* and with one: the operation is skipped, or ready, or to hurry.
AwaitSkipped ==
    /\ cancelState = "Requested"
    /\ Below(EarlyCancelReturned(Reset(B), TRUE))
    /\ PropagateCancel
    /\ UNCHANGED <<calls, cancelRequested>>

AwaitReadyCancelled ==
    /\ cancelState = "Requested"
    /\ DoResumeAfterCancel(ReadyReturned(EarlyCancelReturned(Reset(B), FALSE), TRUE))
    /\ UNCHANGED <<calls, cancelRequested>>

AwaitCancelled ==
    /\ cancelState = "Requested"
    /\ cancelRequested' = TRUE
    /\ resumeFn' = "doResumeAfterCancel"
    /\ Suspended(EarlyCancelReturned(Reset(B), FALSE))

\* The body has a result to take first, if there is one.
CoAwait ==
    /\ over = "no" /\ state = "Running" /\ left > 0
    /\ B.state # "Ready"
    /\ left' = left - 1
    /\ AwaitReady \/ AwaitSuspend \/ AwaitSkipped \/ AwaitReadyCancelled
         \/ AwaitCancelled
    /\ UNCHANGED over

\* AwaitProxy::await_resume(), the task having been resumed.
TakeResult ==
    /\ over = "no" /\ state = "Running" /\ B.state = "Ready"
    /\ Below(AboutToResume(B))
    /\ UNCHANGED <<above, calls, over, promiseVars, bodyVars>>

\* The body returns, or throws, at its end or because an await did.
BodyEnds ==
    /\ over = "no" /\ state = "Running" /\ B.state # "Ready"
    /\ \E how \in {"value", "exception"} : Finish(A, how)
    /\ UNCHANGED <<below, calls, over, bodyVars>>

----------------------------------------------------------------------------
(* What child 1 does.                                                      *)

\* The call is one of the operation that is in progress.
Current(fn) == InCall(fn) /\ Callee = left /\ Pending(B)

ChildResumes ==
    /\ over = "no" /\ Pending(B)
    /\ IF resumeFn = "doResumeAfterCancel"
       THEN DoResumeAfterCancel(Resumed(B))
       ELSE Below(Resumed(B)) /\ DoResume /\ UNCHANGED cancelState
    /\ UNCHANGED <<calls, over, bodyVars>>

Returns == /\ calls # <<>>
           /\ calls' = Tail(calls)
           /\ UNCHANGED <<above, below, over, promiseVars, bodyVars>>

CancelReturnsTrue ==
    /\ Current("await_cancel") /\ over = "no"
    /\ calls' = Tail(calls)
    /\ Below(CancelReturned(B, TRUE))
    /\ PropagateCancel
    /\ UNCHANGED <<over, bodyVars>>

BugSuspendThrew == "None"
\* What is left of a request to cancel when an await_suspend() throws.
CancelStateAfterThrow == IF cancelRequested THEN "Requested" ELSE "None"

\* hookAwaitSuspend() knows nothing of a cancellation that comes while the
\* await_suspend() of child 1 is on its way: child 1 is taken not to throw then.
SuspendThrows ==
    /\ Current("await_suspend") /\ over = "no"
    /\ B.state = "Cancelling" => cancelRequested
    /\ state' = "Running"
    /\ cancelState' = CancelStateAfterThrow
    /\ calls' = Tail(calls)
    /\ Below(SuspendThrew(B))
    /\ UNCHANGED <<above, over, resumeFn, promise, outcome, bodyVars>>

Next == Ready \/ SetExecutor \/ EarlyCancel \/ Suspend \/ Cancel \/ MustResume
          \/ Resume \/ Destroy \/ Run \/ CoAwait \/ TakeResult \/ BodyEnds
          \/ ChildResumes \/ Returns \/ CancelReturnsTrue \/ SuspendThrows

\* The executor runs what is scheduled, a task that is cancelled goes on, and
\* so does what it awaits: one of them is the case at a time.
CallsReturn == Returns \/ CancelReturnsTrue \/ SuspendThrows
GoesOn == MustResume \/ Resume
OperationEnds ==
    \/ Run
    \/ A.state = "Cancelling" /\ (CoAwait \/ TakeResult \/ BodyEnds)
    \/ B.state = "Cancelling" /\ ChildResumes

Fairness ==
    WF_vars(CallsReturn) /\ WF_vars(GoesOn) /\ WF_vars(OperationEnds)

Spec == Init /\ [][Next]_vars /\ Fairness

----------------------------------------------------------------------------
(* A task that is being cancelled has left word for its next await, or its *)
(* awaitee knows; it has a result only if its body has ended.              *)
RequestKept ==
    over = "no" /\ A.state = "Cancelling" =>
        CASE state \in {"Ready", "Running"} -> cancelState = "Requested"
          [] state = "suspended" ->
                B.state = "Cancelling" /\ resumeFn = "doResumeAfterCancel"
          [] OTHER -> outcome # "incomplete"

\* The task has not been started, or is a stub;
Begins ==
    /\ B.state = "Initial" /\ promise
    /\ \/ /\ state = "Ready" /\ outcome = "incomplete"
          /\ A.state \in {"Initial", "NotReady", "InitialCxlPend", "CancelPending"}
          /\ cancelState = "Requested" <=> A.state \in {"InitialCxlPend", "CancelPending"}
       \/ /\ state = "Stub" /\ outcome = "incomplete"
          /\ A.state \in {"Initial", "InitialCxlPend"}
       \/ /\ state = "Stub" /\ outcome = "value"
          /\ A.state \in {"ReadyImmediately", "ReadyAfterCancel", "Ready", "Done"}

\* it is on the executor's list, or runs;
Works ==
    /\ state \in {"Ready", "Running"} /\ promise /\ outcome = "incomplete"
    /\ Pending(A) /\ B.state \in {"Initial", "Ready", "Done"}
    /\ cancelState = "Requested" <=> A.state = "Cancelling"

\* it awaits child 1;
Waits ==
    /\ state = "suspended" /\ promise /\ outcome = "incomplete"
    /\ cancelState = "None" /\ A.state = B.state
    /\ \/ A.state = "Running" /\ resumeFn = "doResume" /\ ~cancelRequested
       \/ A.state = "Cancelling" /\ resumeFn = "doResumeAfterCancel"

\* or it has ended.
Finished ==
    /\ state = "finished" /\ ~promise /\ B.state \in {"Initial", "Done", "Cancelled"}
    /\ IF outcome = "cancelled" THEN A.state \in {"ReadyAfterCancel", "Cancelled"}
       ELSE outcome # "incomplete" /\ A.state \in {"ReadyAfterCancel", "Ready", "Done"}

\* Child 1 is called to cancel by those alone who cancel the task.
Callees == IF A.state \in BeforeSuspend \cup {"Running"} THEN {"await_suspend"}
           ELSE {"await_suspend", "await_cancel"}

Inv ==
    /\ above \in [{1} -> Checker] /\ below \in [{1} -> Checker]
    /\ state \in {"Ready", "Running", "Stub", "suspended", "finished"}
    /\ cancelState \in {"None", "Requested"}
    /\ resumeFn \in {"doResume", "doResumeAfterCancel", "doNothing"}
    /\ promise \in BOOLEAN
    /\ outcome \in {"incomplete", "value", "exception", "cancelled"}
    /\ left \in 0..MaxAwaits
    /\ cancelRequested \in BOOLEAN
    /\ \/ /\ over = "no" /\ (Begins \/ Works \/ Waits \/ Finished)
          /\ calls \in Seq([fn : Callees, to : Nat])
       \/ over = "destroyed" /\ A.state = "Initial" /\ B.state = "Initial"
=============================================================================
