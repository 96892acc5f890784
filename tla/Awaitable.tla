----------------------------- MODULE Awaitable -----------------------------
(***************************************************************************)
(* The protocol between an awaitable and whoever awaits it (concepts.h),   *)
(* as AwaitableStateChecker of detail/utility.h enforces it.               *)
(*                                                                         *)
(* The modules that extend this one each put a class of the library        *)
(* between two parties that keep the protocol and are otherwise free: the  *)
(* parents, which await it, and the children, which it awaits.  What is    *)
(* checked is that the class keeps the protocol as well, on both sides, so *)
(* that awaitables made of these classes keep it however they are nested.  *)
(***************************************************************************)
EXTENDS Naturals, Sequences, FiniteSets

VARIABLES
    above,      \* the checker of the awaitable each parent keeps
    below,      \* the checker the awaitable keeps of each child it awaits
    calls,      \* calls of foreign code in progress, innermost first
    over        \* "no", or how the life of the awaitable ended

shared == <<above, below, calls, over>>

CheckerState == {"Initial", "NotReady", "InitialCxlPend", "CancelPending",
                 "ReadyImmediately", "Running", "Cancelling",
                 "ReadyAfterCancel", "Ready", "Cancelled", "Done", "Broken"}

\* "Broken": an assertion of the checker has failed.
Checker == [state : CheckerState, hasExecutor : BOOLEAN]
Fresh == [state |-> "Initial", hasExecutor |-> FALSE]

\* The checker c after a step that is legal in the states "moves" lists.
Step(c, moves) ==
    [c EXCEPT !.state = IF @ \in DOMAIN moves THEN moves[@] ELSE "Broken"]

ReadyReturned(c, val) ==
    Step(c, IF val
            THEN [Initial |-> "ReadyImmediately", NotReady |-> "ReadyImmediately",
                  InitialCxlPend |-> "ReadyAfterCancel",
                  CancelPending |-> "ReadyAfterCancel",
                  ReadyImmediately |-> "ReadyImmediately",
                  ReadyAfterCancel |-> "ReadyAfterCancel"]
            ELSE [Initial |-> "NotReady", NotReady |-> "NotReady",
                  InitialCxlPend |-> "CancelPending",
                  CancelPending |-> "CancelPending"])

EarlyCancelReturned(c, val) ==
    Step(c, IF val
            THEN [s \in {"Initial", "NotReady", "ReadyImmediately"} |-> "Cancelled"]
            ELSE [Initial |-> "InitialCxlPend", NotReady |-> "CancelPending",
                  ReadyImmediately |-> "ReadyAfterCancel"])

BeforeSuspend == {"Initial", "NotReady", "InitialCxlPend", "CancelPending",
                  "ReadyImmediately"}

AboutToSetExecutor(c) ==
    [Step(c, [s \in BeforeSuspend |-> s]) EXCEPT !.hasExecutor = TRUE]

AboutToSuspend(c) ==
    IF c.hasExecutor
    THEN Step(c, [NotReady |-> "Running", CancelPending |-> "Cancelling"])
    ELSE Step(c, <<>>)

SuspendThrew(c) == Step(c, [Running |-> "Done", Cancelling |-> "Done"])
AboutToCancel(c) == Step(c, [Running |-> "Cancelling"])
CancelReturned(c, val) == IF val THEN Step(c, [Cancelling |-> "Cancelled"]) ELSE c
MustResumeReturned(c, val) ==
    Step(c, [ReadyAfterCancel |-> IF val THEN "Ready" ELSE "Cancelled"])
AboutToResume(c) == Step(c, [ReadyImmediately |-> "Done", Ready |-> "Done"])

\* resumeFn: the handle is resumed.
Resumed(c) == Step(c, [Running |-> "Ready", Cancelling |-> "ReadyAfterCancel"])

\* reset(), by the destructor among others.
Reset(c) ==
    IF c.state \in {"Cancelled", "Done", "Initial"} THEN Fresh ELSE Step(c, <<>>)

\* A step that breaks no assertion.
Legal(c) == c.state # "Broken"

----------------------------------------------------------------------------
(* What the parents and the children are free to do.                       *)

\* A child's answer to await_ready(), or a parent's reason to ask.
ReadyAnswers(c) ==
    IF c.state \in {"ReadyImmediately", "ReadyAfterCancel"} THEN {TRUE} ELSE BOOLEAN
Pending(c) == c.state \in {"Running", "Cancelling"}

\* The stack of calls with one more.
Calling(fn, c) == <<[fn |-> fn, to |-> c]>> \o calls
InCall(fn) == calls # <<>> /\ Head(calls).fn = fn
Callee == Head(calls).to

\* A parent p may make the call that takes its checker to c.
Calls(p, c) == over = "no" /\ Legal(c) /\ above' = [above EXCEPT ![p] = c]

ProtocolInit(parents, children) ==
    /\ above = [p \in parents |-> Fresh]
    /\ below = [c \in children |-> Fresh]
    /\ calls = <<>>
    /\ over = "no"

ProtocolTypeOK ==
    /\ above \in [DOMAIN above -> Checker]
    /\ below \in [DOMAIN below -> Checker]
    /\ over \in {"no", "destroyed", "terminated", "dangling"}

\* Nobody has broken the protocol: however the parents, the children and the
\* code they call behave, each call is one the other side must expect, no
\* handle is resumed twice, and no result is asked for that is not there.
ProtocolKept ==
    /\ \A p \in DOMAIN above : Legal(above[p])
    /\ \A c \in DOMAIN below : Legal(below[c])
=============================================================================
