---------------------------- MODULE AsioAwaitable ----------------------------
(***************************************************************************)
(* asio.h: what an asynchronous operation of asio is awaited by.  asio     *)
(* keeps doneCB_, which refers to the awaitable, and the slot of the       *)
(* signal that lives in it.  It calls the former when the operation ends,  *)
(* never from within the call that starts the operation; that it may do so *)
(* from within the emission of the signal is a liberty:                    *)
(*   "inline"  done() is called inside of await_cancel()                   *)
(***************************************************************************)
EXTENDS Awaitable

CONSTANT Liberties  \* {"inline"}, or none

VARIABLES
    ec,     \* ec_
    signal, \* cancelSig_ is alive
    doneCB  \* asio has doneCB_

vars == <<shared, ec, signal, doneCB>>

A == above[1]

TypeOK == /\ ProtocolTypeOK
          /\ ec \in {"success", "failure", "operation_aborted"}
          /\ signal \in BOOLEAN /\ doneCB \in BOOLEAN

Init == /\ ProtocolInit({1}, {})
        /\ ec = "success"
        /\ signal = FALSE /\ doneCB = FALSE

----------------------------------------------------------------------------
Ready ==
    /\ A.state \in BeforeSuspend
    /\ Calls(1, ReadyReturned(A, FALSE))
    /\ UNCHANGED <<below, calls, over, ec, signal, doneCB>>

\* awaitEarlyCancel() answers for a class that has nothing to say.
EarlyCancel ==
    /\ Calls(1, EarlyCancelReturned(A, TRUE))
    /\ UNCHANGED <<below, calls, over, ec, signal, doneCB>>

SetExecutor ==
    /\ ~A.hasExecutor
    /\ Calls(1, AboutToSetExecutor(A))
    /\ UNCHANGED <<below, calls, over, ec, signal, doneCB>>

\* await_suspend(), which starts the operation,
Suspend ==
    /\ Calls(1, AboutToSuspend(A))
    /\ signal' = TRUE /\ doneCB' = TRUE
    /\ UNCHANGED <<below, calls, over, ec>>

\* or fails to, and leaves the signal behind.
SuspendThrows ==
    /\ Calls(1, SuspendThrew(AboutToSuspend(A)))
    /\ signal' = TRUE
    /\ UNCHANGED <<below, calls, over, ec, doneCB>>

\* done(): the signal goes before the parent is resumed.
Done ==
    /\ doneCB /\ over = "no"
    /\ InCall("emit") => "inline" \in Liberties
    /\ ec' \in {"success", "failure", "operation_aborted"}
    /\ signal' = FALSE /\ doneCB' = FALSE
    /\ above' = [above EXCEPT ![1] = Resumed(@)]
    /\ UNCHANGED <<below, calls, over>>

\* await_cancel() emits the signal, if there is one, and returns false.
Cancel ==
    /\ Calls(1, AboutToCancel(A))
    /\ calls' = Calling("emit", 1)
    /\ UNCHANGED <<below, over, ec, signal, doneCB>>

CancelReturns ==
    /\ InCall("emit")
    /\ calls' = Tail(calls)
    /\ UNCHANGED <<above, below, over, ec, signal, doneCB>>

MustResume ==
    /\ Calls(1, MustResumeReturned(A, ec # "operation_aborted"))
    /\ UNCHANGED <<below, calls, over, ec, signal, doneCB>>

Resume ==
    /\ Calls(1, AboutToResume(A))
    /\ UNCHANGED <<below, calls, over, ec, signal, doneCB>>

\* The awaitable goes; the next one is another.
Destroy ==
    /\ A # Fresh /\ Calls(1, Reset(A))
    /\ ec' = "success" /\ signal' = FALSE
    /\ UNCHANGED <<below, calls, over, doneCB>>

Next == Ready \/ EarlyCancel \/ SetExecutor \/ Suspend \/ SuspendThrows \/ Done
          \/ Cancel \/ CancelReturns \/ MustResume \/ Resume \/ Destroy

\* An operation whose signal was emitted ends.
CallsReturn == CancelReturns
GoesOn == MustResume \/ Resume
OperationEnds == A.state = "Cancelling" /\ Done

Fairness == WF_vars(CallsReturn) /\ WF_vars(GoesOn) /\ WF_vars(OperationEnds)

Spec == Init /\ [][Next]_vars /\ Fairness

----------------------------------------------------------------------------
(* Who waits is known to asio and can be cancelled; asio calls no awaitable*)
(* that is gone or has been resumed; and the signal outlives its emission. *)
SignalLives ==
    /\ doneCB <=> Pending(A)
    /\ Pending(A) \/ InCall("emit") => signal

\* If asio never calls back from within the emission: the awaitable of an
\* operation that runs is suspended, and is being cancelled while the signal
\* is emitted.
Inv ==
    /\ above \in [{1} -> Checker] /\ below \in [{} -> Checker] /\ over = "no"
    /\ ec \in {"success", "failure", "operation_aborted"}
    /\ signal \in BOOLEAN /\ doneCB \in BOOLEAN
    /\ Legal(A)
    /\ doneCB <=> Pending(A)
    /\ Pending(A) => signal
    /\ \/ calls = <<>>
       \/ calls = <<[fn |-> "emit", to |-> 1]>> /\ A.state = "Cancelling"
=============================================================================
