------------------------------ MODULE TryBlock ------------------------------
(***************************************************************************)
(* detail/exception.h: try_(...).catch_(...).finally(...).  The children   *)
(* are the tasks of the three stages; a task is made by a lambda, which is *)
(* foreign code, may throw instead, and may cancel the awaiting task.      *)
(***************************************************************************)
EXTENDS Awaitable

VARIABLES
    hasCatch,       \* there are catch-blocks
    hasFinally,     \* there is a finally-block
    stage,          \* stage_
    earlyCancel,    \* earlyCancel_
    completed,      \* completed_
    exception,      \* exception_: the stage it comes from, or 0
    ended           \* history: how the block of each stage has ended

given == <<hasCatch, hasFinally>>
vars == <<shared, given, stage, earlyCancel, completed, exception, ended>>

TRY == 1
CATCH == 2
FINALLY == 3
Stages == {TRY, CATCH, FINALLY}

A == above[1]
Task == below[stage]

TypeOK ==
    /\ ProtocolTypeOK
    /\ hasCatch \in BOOLEAN /\ hasFinally \in BOOLEAN
    /\ stage \in Stages
    /\ earlyCancel \in BOOLEAN /\ completed \in BOOLEAN
    /\ exception \in Stages \cup {0}
    /\ ended \in [Stages -> {"not", "value", "exception", "cancelled", "twice"}]

Init == /\ ProtocolInit({1}, Stages)
        /\ hasCatch \in BOOLEAN /\ hasFinally \in BOOLEAN
        /\ hasCatch \/ hasFinally
        /\ stage = TRY
        /\ earlyCancel = FALSE /\ completed = FALSE /\ exception = 0
        /\ ended = [s \in Stages |-> "not"]

----------------------------------------------------------------------------
(* The calls of the parent before the block starts.                        *)

\* await_ready(), await_set_executor(), await_early_cancel().
Ready == /\ A.state \in BeforeSuspend
         /\ Calls(1, ReadyReturned(A, FALSE))
         /\ UNCHANGED <<below, calls, over, given, stage, earlyCancel,
                        completed, exception, ended>>

SetExecutor == /\ ~A.hasExecutor
               /\ Calls(1, AboutToSetExecutor(A))
               /\ UNCHANGED <<below, calls, over, given, stage, earlyCancel,
                              completed, exception, ended>>

EarlyCancel == /\ Calls(1, EarlyCancelReturned(A, FALSE))
               /\ earlyCancel' = TRUE
               /\ UNCHANGED <<below, calls, over, given, stage, completed,
                              exception, ended>>

\* await_suspend(), up to the call of the first lambda.
Suspend == /\ Calls(1, AboutToSuspend(A))
           /\ calls' = <<[fn |-> "lambda", to |-> TRY],
                         [fn |-> "await_suspend", to |-> TRY]>> \o calls
           /\ UNCHANGED <<below, over, given, stage, earlyCancel, completed,
                          exception, ended>>

----------------------------------------------------------------------------
(* From stage to stage.                                                    *)

\* invoke() calls the lambda of stage s; there may be no finally-block.
ToFinally(rest) ==
    /\ stage' = FINALLY
    /\ IF hasFinally
       THEN calls' = <<[fn |-> "lambda", to |-> FINALLY]>> \o rest
              /\ UNCHANGED above
       ELSE calls' = rest /\ above' = [above EXCEPT ![1] = Resumed(A)]

\* continuation() and dispatchException(), with exception ex (or 0): an
\* exception of the try-block goes to the catch-block that fits, if any does.
Continuation(ex, rest) ==
    CASE stage = TRY /\ ex # 0 ->
            \/ /\ hasCatch
               /\ stage' = CATCH
               /\ calls' = <<[fn |-> "lambda", to |-> CATCH]>> \o rest
               /\ UNCHANGED above
            \/ ToFinally(rest)
      [] stage = FINALLY ->
            /\ above' = [above EXCEPT ![1] = Resumed(A)]
            /\ calls' = rest
            /\ UNCHANGED stage
      [] OTHER -> ToFinally(rest)

Ends(how) == ended' = [ended EXCEPT ![stage] = IF @ = "not" THEN how ELSE "twice"]

\* storeException(), with the exception of stage s.
StoreException(s, rest) ==
    /\ Ends("exception")
    /\ UNCHANGED completed
    /\ IF stage = FINALLY /\ exception # 0
       THEN over' = "terminated" /\ UNCHANGED <<above, calls, stage, exception>>
       ELSE exception' = s /\ UNCHANGED over /\ Continuation(s, rest)

BugStoreSuccess == exception
\* What is left of the exception when a block succeeds: storeSuccess().
ExceptionAfterSuccess == IF stage = FINALLY THEN exception ELSE 0

StoreSuccess(rest) ==
    /\ Ends("value")
    /\ completed' = (completed \/ stage # FINALLY)
    /\ exception' = ExceptionAfterSuccess
    /\ UNCHANGED over
    /\ Continuation(0, rest)

\* The lambda gives a task, which is started.
LambdaReturns ==
    /\ InCall("lambda")
    /\ below' = [below EXCEPT ![stage] = [state |-> "Running", hasExecutor |-> TRUE]]
    /\ calls' = Tail(calls)
    /\ UNCHANGED <<above, over, given, stage, earlyCancel, completed, exception,
                   ended>>

LambdaThrows ==
    /\ InCall("lambda") /\ over = "no"
    /\ StoreException(stage, Tail(calls))
    /\ UNCHANGED <<below, given, earlyCancel>>

\* await_suspend() then cancels the task of the stage that was reached.
ForwardsEarlyCancel == earlyCancel /\ stage # FINALLY

SuspendEnds ==
    /\ InCall("await_suspend")
    /\ calls' = Tail(calls)
    /\ below' = IF ForwardsEarlyCancel /\ Pending(Task)
                THEN [below EXCEPT ![stage] = AboutToCancel(@)] ELSE below
    /\ UNCHANGED <<above, over, given, stage, earlyCancel, completed, exception,
                   ended>>

\* RethrowCurrentException: a catch-block may throw what it has caught.
Throwable == IF stage = CATCH THEN {CATCH, exception} ELSE {stage}

\* The task of the stage ends.
TaskEnds ==
    /\ over = "no" /\ Pending(Task) /\ ~InCall("await_suspend")
    /\ \/ StoreSuccess(calls)
       \/ \E s \in Throwable : StoreException(s, calls)
       \/ /\ Task.state = "Cancelling"
          /\ Ends("cancelled")
          /\ Continuation(IF stage = TRY THEN 0 ELSE exception, calls)
          /\ UNCHANGED <<over, completed, exception>>
    /\ below' = [below EXCEPT ![stage] = [@ EXCEPT !.state = "Done"]]
    /\ UNCHANGED <<given, earlyCancel>>

\* Whether await_cancel() reaches the task of the stage.
Cancellable == stage # FINALLY

\* await_cancel(), also from a lambda: there is no task yet then.
Cancel ==
    /\ ~InCall("await_suspend")
    /\ Calls(1, AboutToCancel(A))
    /\ below' = IF Cancellable /\ Pending(Task)
                THEN [below EXCEPT ![stage] = AboutToCancel(@)] ELSE below
    /\ UNCHANGED <<calls, over, given, stage, earlyCancel, completed, exception,
                   ended>>

----------------------------------------------------------------------------
(* The calls of the parent when it is resumed.                             *)

\* await_must_resume().
HasOutcome == completed \/ exception # 0

MustResume ==
    /\ ~InCall("await_suspend")
    /\ Calls(1, MustResumeReturned(A, HasOutcome))
    /\ UNCHANGED <<below, calls, over, given, stage, earlyCancel, completed,
                   exception, ended>>

Resume ==
    /\ ~InCall("await_suspend")
    /\ Calls(1, AboutToResume(A))
    /\ UNCHANGED <<below, calls, over, given, stage, earlyCancel, completed,
                   exception, ended>>

\* ~TryBlock() asserts that there is no task.
Destroy ==
    /\ Calls(1, Reset(A))
    /\ below' = IF Pending(Task) THEN [below EXCEPT ![stage] = Step(@, <<>>)]
                ELSE below
    /\ over' = "destroyed"
    /\ UNCHANGED <<calls, given, stage, earlyCancel, completed, exception, ended>>

Next == Ready \/ SetExecutor \/ EarlyCancel \/ Suspend \/ LambdaReturns
          \/ LambdaThrows \/ SuspendEnds \/ TaskEnds \/ Cancel \/ MustResume
          \/ Resume \/ Destroy

\* Catch- and finally-blocks end, a try-block once it is cancelled.
CallsReturn == LambdaReturns \/ LambdaThrows \/ SuspendEnds
GoesOn == MustResume \/ Resume
OperationEnds == (stage # TRY \/ Task.state = "Cancelling") /\ TaskEnds

Fairness ==
    WF_vars(CallsReturn) /\ WF_vars(GoesOn) /\ WF_vars(OperationEnds)

Spec == Init /\ [][Next]_vars /\ Fairness

----------------------------------------------------------------------------
\* How the whole ends, by how its blocks have ended.
Outcome ==
    IF ended[FINALLY] = "exception" THEN "exception"
    ELSE IF ended[TRY] = "exception"
    THEN IF ended[CATCH] = "value" THEN "value" ELSE "exception"
    ELSE ended[TRY]

(* The finally-block has run, once and undisturbed, when the parent is     *)
(* told of the end; a try-block that was cancelled is reported as such     *)
(* unless it has a result all the same, no exception is swallowed, and a   *)
(* cancellation that came before the try-block began has reached it.       *)
BlocksRunInOrder ==
    /\ below[FINALLY].state # "Cancelling"
    /\ \A s \in Stages : ended[s] # "twice"
    /\ A.state \in {"Ready", "ReadyAfterCancel"} =>
          /\ hasFinally <=> ended[FINALLY] # "not"
          /\ (exception # 0) <=> Outcome = "exception"
          /\ HasOutcome <=> Outcome # "cancelled"
    /\ over = "terminated" => ended[FINALLY] = "exception"
    /\ earlyCancel /\ stage = TRY /\ calls = <<>> /\ over = "no" =>
          Task.state # "Running"

\* The parent has asked for the end, and a stage that can has been told.  A
\* cancellation by the lambda that makes the task of the try-block is dropped.
CancelHeard == A.state = "Cancelling" /\ (stage # TRY \/ Task.state = "Cancelling")

(* Why: before it begins, nothing has happened;                            *)
NotBegun ==
    /\ A.state \in BeforeSuspend \ {"ReadyImmediately"}
    /\ earlyCancel <=> A.state \in {"InitialCxlPend", "CancelPending"}
    /\ stage = TRY /\ ~completed /\ exception = 0 /\ calls = <<>>
    /\ \A s \in Stages : ended[s] = "not" /\ below[s].state = "Initial"

\* what has been stored at each stage is what the stages before it have left;
Stored ==
    /\ ended[TRY] = "not" <=> stage = TRY
    /\ stage = TRY => exception = 0 /\ ~completed
    /\ stage = CATCH => ended[TRY] = "exception" /\ exception # 0 /\ ~completed
    /\ ended[CATCH] # "not" => ended[TRY] = "exception"
    /\ stage = FINALLY =>
            /\ (exception # 0) <=> Outcome = "exception"
            /\ HasOutcome <=> Outcome # "cancelled"

\* a stage is that of a lambda that has been called or of a task that runs;
UnderWay ==
    /\ Pending(A) /\ (earlyCancel => A.state = "Cancelling")
    /\ Stored
    /\ stage = FINALLY => hasFinally
    /\ \A s \in Stages : s >= stage => ended[s] = "not" /\ (s > stage => below[s].state = "Initial")
    /\ IF InCall("lambda") THEN Callee = stage /\ Task.state = "Initial" ELSE Pending(Task)
    /\ InCall("lambda") /\ stage = TRY => Tail(calls) # <<>>
    /\ InCall("await_suspend") \/ A.state = "Running" => Task.state # "Cancelling"
    /\ earlyCancel /\ stage = TRY /\ calls = <<>> => Task.state = "Cancelling"

\* and at the end there is neither.
AtEnd ==
    /\ A.state \in {"Ready", "ReadyAfterCancel", "Done", "Cancelled"}
    /\ Stored
    /\ stage = FINALLY /\ ~Pending(Task) /\ ~InCall("lambda")
    /\ A.state \in {"Done", "Cancelled"} => calls = <<>>
    /\ hasFinally <=> ended[FINALLY] # "not"

\* The lambda and await_suspend() may be under way.
Stacks ==
    LET suspending == [fn |-> "await_suspend", to |-> TRY]
        lambda == [fn |-> "lambda", to |-> stage]
    IN  {<<>>, <<suspending>>, <<lambda>>, <<lambda, suspending>>}

Inv ==
    /\ above \in [{1} -> Checker] /\ below \in [Stages -> Checker]
    /\ hasCatch \in BOOLEAN /\ hasFinally \in BOOLEAN /\ stage \in Stages
    /\ earlyCancel \in BOOLEAN /\ completed \in BOOLEAN /\ exception \in Stages \cup {0}
    /\ ended \in [Stages -> {"not", "value", "exception", "cancelled"}]
    /\ Legal(A) /\ \A s \in Stages : Legal(below[s])
    /\ below[FINALLY].state # "Cancelling"
    /\ calls \in Stacks
    /\ \/ over = "no" /\ (NotBegun \/ UnderWay \/ AtEnd)
       \/ over = "destroyed" /\ A.state = "Initial" /\ calls = <<>>
       \/ over = "terminated" /\ Pending(A) /\ stage = FINALLY /\ ended[FINALLY] = "exception"
=============================================================================
