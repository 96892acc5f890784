------------------------------ MODULE CBPortal ------------------------------
(***************************************************************************)
(* CBPortal.h: a bridge from an interface that reports by callbacks.       *)
(* untilCBCalled() makes a CBPortalProxy, which starts the legacy          *)
(* operation (initiateFn) when it is awaited and waits for one callback;   *)
(* with a portal of the user's own, that can be awaited for further ones.  *)
(* One callback per operation is modelled: of several, anyOf() chooses.    *)
(*                                                                         *)
(* The callers of the callback keep what the documentation asks for: never *)
(* a call before the last one has been consumed, and none once the cancel  *)
(* function or the guard that stands for it has run or initiateFn threw.   *)
(***************************************************************************)
EXTENDS Awaitable

VARIABLES
    owner,      \* whose the portal is, and what untilCBCalled() was given:
                \* "nothing" more, a "cancelFn", or an "external" portal
    awaited,    \* the proxy, or the portal alone
    status,     \* getProxyStatus()
    value,      \* value_ is there
    parent,     \* parent_ is there
    completed,  \* completed_: null, or the flag it points to
    callable    \* whether the callback may still be called

portalVars == <<status, value, parent, completed, callable>>
vars == <<shared, owner, awaited, portalVars>>

A == above[1]

TypeOK ==
    /\ ProtocolTypeOK
    /\ owner \in {"nothing", "cancelFn", "external"}
    /\ awaited \in {"proxy", "portal"}
    /\ status \in {"NotStarted", "Scheduled", "CancelPending", "Initiated"}
    /\ value \in BOOLEAN /\ parent \in BOOLEAN /\ callable \in BOOLEAN
    /\ completed \in {"null", "no", "yes"}

PortalsAreExternal == owner = "external"

Init == /\ ProtocolInit({1}, {})
        /\ owner \in {"nothing", "cancelFn", "external"}
        /\ awaited = "proxy"
        /\ status = IF PortalsAreExternal THEN "Scheduled" ELSE "NotStarted"
        /\ value = FALSE /\ parent = FALSE /\ callable = FALSE
        /\ completed = "null"

----------------------------------------------------------------------------
(* The calls of the parent, which answers for an assertion that fails.     *)

\* CORRAL_ASSERT(cond), on the way to checker c.
Asserted(cond, c) == IF cond THEN c ELSE Step(c, <<>>)

\* await_ready().
Ready ==
    /\ A.state \in BeforeSuspend
    /\ Calls(1, ReadyReturned(A, awaited = "portal" /\ value))
    /\ UNCHANGED <<below, calls, over, owner, awaited, portalVars>>

\* await_early_cancel(), which CBPortal itself does not have.
EarlyCancel ==
    /\ IF awaited = "proxy" /\ PortalsAreExternal
       THEN /\ Calls(1, Asserted(status = "Scheduled", EarlyCancelReturned(A, FALSE)))
            /\ status' = "CancelPending"
       ELSE /\ Calls(1, Asserted(awaited = "proxy" => status = "NotStarted",
                                 EarlyCancelReturned(A, TRUE)))
            /\ UNCHANGED status
    /\ UNCHANGED <<below, calls, over, owner, awaited, value, parent, completed,
                   callable>>

SetExecutor ==
    /\ ~A.hasExecutor
    /\ Calls(1, Asserted(awaited = "proxy" => ~value, AboutToSetExecutor(A)))
    /\ UNCHANGED <<below, calls, over, owner, awaited, portalVars>>

\* await_suspend(), up to the call of initiateFn.
Suspend ==
    /\ Calls(1, AboutToSuspend(A))
    /\ parent' = TRUE
    /\ IF awaited = "proxy"
       THEN /\ status' = IF status = "NotStarted" THEN "Scheduled" ELSE status
            /\ callable' = TRUE
            /\ completed' = "no"
            /\ calls' = Calling("initiateFn", 1)
       ELSE UNCHANGED <<status, callable, completed, calls>>
    /\ UNCHANGED <<below, over, owner, awaited, value>>

----------------------------------------------------------------------------
(* What wakes the parent.                                                  *)

\* wakeUp(): the task that awaits the portal runs before capture() returns.
\* "a" is its checker, and "rest" the calls outside of this one.
WakeUp(a, rest) ==
    /\ parent' = FALSE
    /\ above' = [above EXCEPT ![1] = IF parent THEN Resumed(a) ELSE a]
    /\ calls' = IF parent THEN <<[fn |-> "capture", to |-> 1]>> \o rest ELSE rest

\* CBPortal::Callback.  A task that finds the portal empty suspends at once,
\* and one whose operation was cancelled has the callbacks stopped at once.
\* A portal of the proxy's own is good for one call.
Callback ==
    /\ callable /\ over = "no" /\ ~InCall("capture")
    /\ A.state \notin {"NotReady", "Cancelled"}
    /\ ~value
    /\ value' = TRUE
    /\ callable' = PortalsAreExternal
    /\ WakeUp(A, calls)
    /\ UNCHANGED <<below, over, owner, awaited, status, completed>>

\* Without a cancel function a proxy of internal portals must wait.
MustWait == owner = "nothing"

\* await_cancel() of the proxy in the state st, or of the portal.
AwaitCancel(st, a, rest) ==
    IF awaited = "proxy" /\ (st # "Initiated" \/ MustWait)
    THEN /\ above' = [above EXCEPT ![1] = Asserted(st # "NotStarted", a)]
         /\ status' = IF st = "Initiated" THEN st ELSE "CancelPending"
         /\ calls' = rest
         /\ UNCHANGED <<parent, callable>>
    ELSE /\ status' = st
         /\ callable' = (callable /\ owner # "cancelFn")
         /\ WakeUp(a, rest)

Cancel ==
    /\ over = "no" /\ ~InCall("capture")
    /\ Legal(AboutToCancel(A))
    /\ AwaitCancel(status, AboutToCancel(A), calls)
    /\ UNCHANGED <<below, over, owner, awaited, value, completed>>

\* initiateFn returns: the rest of the proxy's await_suspend(), which learns
\* from its flag whether the proxy is still there.
InitiateReturns ==
    /\ InCall("initiateFn")
    /\ IF completed = "yes"
       THEN calls' = Tail(calls) /\ UNCHANGED <<above, over, status, parent, callable>>
       ELSE /\ over' = IF over = "no" /\ awaited = "proxy" THEN "no" ELSE "dangling"
            /\ IF status = "CancelPending" /\ parent
               THEN AwaitCancel("Initiated", A, Tail(calls))
               ELSE /\ status' = "Initiated"
                    /\ calls' = Tail(calls)
                    /\ UNCHANGED <<above, parent, callable>>
    /\ completed' = IF completed = "yes" THEN "yes" ELSE "null"
    /\ UNCHANGED <<below, owner, awaited, value>>

\* It throws, instead of having called the callback.
InitiateThrows ==
    /\ InCall("initiateFn") /\ over = "no" /\ Pending(A) /\ awaited = "proxy"
    /\ above' = [above EXCEPT ![1] = SuspendThrew(A)]
    /\ calls' = Tail(calls)
    /\ callable' = FALSE
    /\ UNCHANGED <<below, over, owner, awaited, status, value, parent, completed>>

\* The call of the callback, or of await_cancel(), comes back.
CaptureReturns ==
    /\ InCall("capture")
    /\ calls' = Tail(calls)
    /\ UNCHANGED <<above, below, over, owner, awaited, portalVars>>

----------------------------------------------------------------------------
(* The parent is resumed.                                                  *)

MustResume ==
    /\ Calls(1, MustResumeReturned(A, value))
    /\ UNCHANGED <<below, calls, over, owner, awaited, portalVars>>

\* await_resume() tells the await_suspend() that is still in progress.
CompletedByResume == IF completed = "no" THEN "yes" ELSE completed

\* await_resume().
Resume ==
    /\ Calls(1, Asserted(value, AboutToResume(A)))
    /\ value' = FALSE
    /\ completed' = IF awaited = "proxy" THEN CompletedByResume ELSE completed
    /\ UNCHANGED <<below, calls, over, owner, awaited, status, parent, callable>>

\* The awaitable is destroyed.  The user may go on to await a portal of his
\* own, or be done with it, and have a guard stop the callbacks.  Nothing does
\* that for a portal that goes with its proxy.
Destroy ==
    /\ Calls(1, Reset(A))
    /\ \/ /\ PortalsAreExternal /\ A.state = "Done" /\ callable
          /\ awaited' = "portal"
          /\ UNCHANGED <<over, callable>>
       \/ /\ over' = "destroyed"
          /\ callable' = (callable /\ ~PortalsAreExternal)
          /\ UNCHANGED awaited
    /\ UNCHANGED <<below, calls, owner, status, value, parent, completed>>

Next == Ready \/ EarlyCancel \/ SetExecutor \/ Suspend \/ Callback \/ Cancel
          \/ InitiateReturns \/ InitiateThrows \/ CaptureReturns \/ MustResume
          \/ Resume \/ Destroy

\* Calls return, a parent that is resumed goes on, and an operation that
\* cannot be cancelled ends.
CallsReturn == InitiateReturns \/ InitiateThrows \/ CaptureReturns
GoesOn == MustResume \/ Resume
OperationEnds == owner = "nothing" /\ Callback

Fairness ==
    WF_vars(CallsReturn) /\ WF_vars(GoesOn) /\ WF_vars(OperationEnds)

Spec == Init /\ [][Next]_vars /\ Fairness

----------------------------------------------------------------------------
(* No call of the callback is lost: not to a task that sleeps beside its   *)
(* value, nor to one whose untilCBCalled() is cancelled; a sleeping task   *)
(* can be woken; and neither await_suspend() nor a callback touches a      *)
(* proxy that is gone.                                                     *)
CallsArrive ==
    /\ Pending(A) => parent /\ ~value
    /\ awaited = "proxy" /\ A.state = "Cancelled" => ~value
    /\ over # "dangling"
    /\ over = "destroyed" => ~callable

\* The stack of calls: capture(), and initiateFn outside of it.
Call(fn) == [fn |-> fn, to |-> 1]
Outside == {<<>>, <<Call("capture")>>}
Within == {<<Call("initiateFn")>>, <<Call("capture"), Call("initiateFn")>>}

\* The proxy has not been suspended;
Unstarted ==
    /\ awaited = "proxy" /\ completed = "null" /\ calls = <<>>
    /\ ~value /\ ~parent /\ ~callable
    /\ IF PortalsAreExternal
       THEN \/ status = "Scheduled" /\ A.state \in {"Initial", "NotReady"}
            \/ status = "CancelPending" /\ A.state \in {"InitialCxlPend", "CancelPending"}
       ELSE status = "NotStarted" /\ A.state \in {"Initial", "NotReady", "Cancelled"}

\* it waits, in await_suspend() or after it;
Waits ==
    /\ awaited = "proxy" /\ parent /\ ~value /\ callable
    /\ \/ /\ completed = "no" /\ calls = <<Call("initiateFn")>>
          /\ \/ A.state = "Running" /\ status = "Scheduled"
             \/ A.state = "Cancelling" /\ status = "CancelPending"
       \/ /\ completed = "null" /\ calls = <<>> /\ status = "Initiated"
          /\ A.state = "Running" \/ (A.state = "Cancelling" /\ MustWait)

\* it has been woken, before await_suspend() returns or after that;
Woken ==
    /\ awaited = "proxy" /\ ~parent
    /\ callable => PortalsAreExternal
    /\ \/ /\ completed = "no" /\ calls \in Within /\ value
          /\ A.state \in {"Ready", "ReadyAfterCancel"}
       \/ /\ completed = "null" /\ calls \in Outside
          /\ A.state \in {"Ready", "ReadyAfterCancel", "Cancelled", "Done"}
          /\ A.state = "Ready" => value
          /\ A.state = "Cancelled" => ~value
       \/ completed = "yes" /\ calls \in Outside \cup Within /\ A.state = "Done"

\* initiateFn has thrown;
Threw ==
    /\ awaited = "proxy" /\ completed = "no" /\ calls = <<>> /\ ~callable
    /\ ~value /\ A.state = "Done"

\* or the portal is awaited by itself.
PortalAlone ==
    /\ awaited = "portal" /\ PortalsAreExternal /\ callable
    /\ \/ completed = "null" /\ calls \in Outside
       \/ completed = "yes" /\ calls \in Outside \cup Within
    /\ \/ parent /\ ~value /\ A.state = "Running"
       \/ ~parent /\ A.state \in {"Initial", "ReadyAfterCancel", "Cancelled", "Done"}
       \/ ~parent /\ ~value /\ A.state = "NotReady"
       \/ ~parent /\ value /\ A.state \in {"ReadyImmediately", "Ready"}

Gone ==
    /\ A.state = "Initial" /\ ~callable
    /\ \/ calls \in Outside
       \/ completed = "yes" /\ calls \in Within

Inv ==
    /\ above \in [{1} -> Checker] /\ below \in [{} -> Checker]
    /\ owner \in {"nothing", "cancelFn", "external"}
    /\ awaited \in {"proxy", "portal"}
    /\ status \in {"NotStarted", "Scheduled", "CancelPending", "Initiated"}
    /\ value \in BOOLEAN /\ parent \in BOOLEAN /\ callable \in BOOLEAN
    /\ completed \in {"null", "no", "yes"}
    /\ \/ over = "no" /\ (Unstarted \/ Waits \/ Woken \/ Threw \/ PortalAlone)
       \/ over = "destroyed" /\ Gone
=============================================================================
