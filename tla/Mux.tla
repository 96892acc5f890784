-------------------------------- MODULE Mux --------------------------------
(***************************************************************************)
(* detail/wait.h: anyOf(), mostOf() and allOf(), over tuples or ranges.    *)
(* One await of one multiplexer, from its construction to its answer.      *)
(*                                                                         *)
(* Everything happens inside calls: starting or cancelling a child calls   *)
(* its awaitable, which is free to resume any child at once, and a child   *)
(* that finishes may start cancelling the others inside of a loop that     *)
(* starts or cancels them.  "stack" is the stack of those calls, innermost *)
(* first; a frame is a loop over the children, or a call of an awaitable.  *)
(***************************************************************************)
EXTENDS Naturals, Sequences, FiniteSets

CONSTANTS
    N,          \* the number of awaitables
    Kinds       \* the multiplexers: anyOf, mostOf, allOf

ASSUME MuxAssumption ==
    /\ N \in Nat \ {0}
    /\ Kinds \subseteq {"anyOf", "mostOf", "allOf"}

Child == 1..N

VARIABLES
    kind,       \* the class: AnyOf, MostOf or AllOf
    skippable,  \* children whose await_early_cancel() is always true
    available,  \* children whose await_ready() is true from the beginning
    state,      \* MuxHelper::State of each child
    bound,      \* the children know the mux: bind() was called
    count,      \* count_
    exception,  \* exception_: the child that threw it, or 0
    parent,     \* parent_ is the handle of the awaiting task, not a no-op
    resumed,    \* how often the handle of the awaiting task was resumed
    asked,      \* the awaiting task has requested cancellation
    phase,      \* of the await, see Phases
    stack,      \* the calls in progress
    reports     \* history: how often each child has called the mux's invoke()

given == <<kind, skippable, available>>
vars == <<given, state, bound, count, exception, parent, resumed, asked,
          phase, stack, reports>>

Phases == {"new",       \* constructed
           "early",     \* await_early_cancel() has returned false
           "suspended", \* await_suspend() was called
           "immediate", \* await_resume() was called without await_suspend()
           "aborted",   \* a cancel function has returned true
           "cancelled", \* await_must_resume() has returned false
           "done"}      \* await_resume() has given results or an exception

Finished == {"Cancelled", "Succeeded", "Failed"}

Frame(at, i) == [at |-> at, next |-> i, all |-> TRUE]
Loops == {"suspend", "report", "cancel", "earlyCancel", "outerCancel"}
Calls == {"await_suspend", "await_cancel"}

TypeOK ==
    /\ kind \in Kinds
    /\ skippable \subseteq Child /\ available \subseteq Child
    /\ state \in [Child -> {"NotStarted", "CancellationPending", "Running",
                            "Cancelling"} \cup Finished]
    /\ bound \in BOOLEAN /\ parent \in BOOLEAN /\ asked \in BOOLEAN
    /\ count \in 0..(N + Cardinality({i \in Child : reports[i] > 1}))
    /\ resumed \in Nat
    /\ exception \in Child \cup {0}
    /\ phase \in Phases
    /\ reports \in [Child -> 0..2]
    /\ stack \in Seq([at : Loops \cup Calls, next : 1..(N + 1), all : BOOLEAN])

Init ==
    /\ kind \in Kinds
    /\ skippable \in SUBSET Child /\ available \in SUBSET Child
    /\ state = [i \in Child |-> "NotStarted"]
    /\ bound = FALSE /\ parent = FALSE /\ asked = FALSE
    /\ count = 0 /\ resumed = 0 /\ exception = 0
    /\ phase = "new"
    /\ stack = <<>>
    /\ reports = [i \in Child |-> 0]

MinReady == IF kind = "anyOf" THEN 1 ELSE N

----------------------------------------------------------------------------
(* The mux hears of its children.                                          *)

Top == Head(stack)
At(at, i) == stack # <<>> /\ Top.at = at /\ Top.next = i

\* The stack once the innermost loop goes on to the next child, with or
\* without the present one being cancelled.
Advance(s, cancelled) ==
    <<[Head(s) EXCEPT !.next = @ + 1, !.all = @ /\ cancelled]>> \o Tail(s)

\* parent_.resume().
ResumeParent == resumed' = IF parent THEN resumed + 1 ELSE resumed

\* Whether a report, of the first failure or not, makes the mux cancel.
CancelRest(first) == first \/ count + 1 = MinReady

BugCountMeanwhile == count + 1
\* What the loop that cancels the rest sees: its own report is not counted.
CountMeanwhile == count

\* MuxBase::invoke(), called by child i with or without an exception.  To
\* cancel the rest is a loop of its own, counted when it is over.
Invoke(i, fails, below) ==
    LET first == fails /\ exception = 0
    IN  /\ reports' = [reports EXCEPT ![i] = @ + 1]
        /\ exception' = IF first THEN i ELSE exception
        /\ IF count + 1 = N
           THEN count' = N /\ ResumeParent /\ stack' = below
           ELSE IF CancelRest(first)
           THEN /\ stack' = <<Frame("cancel", 1)>> \o below
                /\ count' = CountMeanwhile
                /\ UNCHANGED resumed
           ELSE count' = count + 1 /\ stack' = below /\ UNCHANGED resumed

\* MuxHelper::reportResult(): await_resume() returns or throws.
ReportResult(i, below) ==
    \E fails \in BOOLEAN :
        /\ state' = [state EXCEPT ![i] = IF fails THEN "Failed" ELSE "Succeeded"]
        /\ Invoke(i, fails, below)

\* The answers await_must_resume() may give in each state: a child that was
\* not being cancelled is not asked.
Musts(from) == IF from = "Cancelling" THEN BOOLEAN ELSE {TRUE}

\* MuxHelper::invoke(), the handle of child i being resumed in state "from".
ChildResumed(i, from, below) ==
    \E must \in Musts(from) :
        IF must THEN ReportResult(i, below)
        ELSE /\ state' = [state EXCEPT ![i] = "Cancelled"]
             /\ Invoke(i, FALSE, below)

----------------------------------------------------------------------------
(* The awaiting task.                                                      *)

\* await_early_cancel(), before anything else.
EarlyCancel ==
    /\ phase = "new" /\ stack = <<>> /\ ~asked
    /\ asked' = TRUE
    /\ stack' = <<Frame("earlyCancel", 1)>>
    /\ UNCHANGED <<given, state, bound, count, exception, parent, resumed,
                   phase, reports>>

\* await_ready(): enough children are ready, and the rest may be skipped.
IsReady(i) == state[i] = "NotStarted" /\ i \in available
MuxReady ==
    /\ Cardinality({i \in Child : IsReady(i)}) >= MinReady
    /\ \A i \in Child : IsReady(i) \/ i \in skippable

\* await_resume() without await_suspend(): handleResumeWithoutSuspend().
\* (After await_early_cancel() no child is ready any more.)
ResumeWithoutSuspend ==
    /\ phase = "new" /\ stack = <<>> /\ ~asked /\ MuxReady
    /\ phase' = "immediate"
    /\ bound' = TRUE
    /\ stack' = <<Frame("report", 1)>>
    /\ UNCHANGED <<given, state, count, exception, parent, resumed, asked,
                   reports>>

\* await_suspend().
Suspend ==
    /\ phase \in {"new", "early"} /\ stack = <<>> /\ (phase = "new" => ~asked)
    /\ ~MuxReady
    /\ phase' = "suspended"
    /\ bound' = TRUE
    /\ parent' = TRUE
    /\ stack' = <<Frame("suspend", 1)>>
    /\ UNCHANGED <<given, state, count, exception, resumed, asked, reports>>

BugOuterParent == TRUE
\* Whether the parent can be resumed while await_cancel() cancels.
OuterParent == FALSE

\* await_cancel(), from the event loop or from code that a child's
\* await_suspend() or await_cancel() calls (concepts.h:112-120 warns of it).
Cancel ==
    /\ phase = "suspended" /\ resumed = 0 /\ ~asked
    /\ stack # <<>> => Top.at \in Calls
    /\ asked' = TRUE
    /\ parent' = OuterParent
    /\ stack' = <<Frame("outerCancel", 1)>> \o stack
    /\ UNCHANGED <<given, state, bound, count, exception, resumed, phase,
                   reports>>

BugMustResume == \A i \in Child : state[i] # "Cancelled"
\* await_must_resume().
MustResume ==
    IF kind = "allOf"
    THEN exception # 0 \/ \A i \in Child : state[i] # "Cancelled"
    ELSE \E i \in Child : state[i] # "Cancelled"

\* The task runs again and asks for the results.
ParentRuns ==
    /\ stack = <<>>
    /\ phase = "immediate" \/ (phase = "suspended" /\ resumed > 0)
    /\ phase' = IF asked /\ ~MustResume THEN "cancelled" ELSE "done"
    /\ UNCHANGED <<given, state, bound, count, exception, parent, resumed,
                   asked, stack, reports>>

----------------------------------------------------------------------------
(* The loop of await_suspend() and the calls of children's await_suspend().*)

Started(i) == IF state[i] = "NotStarted" THEN "Running" ELSE "Cancelling"

\* MuxHelper::suspend() of a child that is ready.
KickOffReady(i) ==
    /\ At("suspend", i)
    /\ state[i] \in {"NotStarted", "CancellationPending"} /\ i \in available
    /\ ChildResumed(i, Started(i), Advance(stack, TRUE))
    /\ UNCHANGED <<given, bound, parent, asked, phase>>

\* ... of one that is not.
KickOff(i) ==
    /\ At("suspend", i)
    /\ state[i] \in {"NotStarted", "CancellationPending"} /\ i \notin available
    /\ state' = [state EXCEPT ![i] = Started(i)]
    /\ stack' = <<Frame("await_suspend", i)>> \o Advance(stack, TRUE)
    /\ UNCHANGED <<given, bound, count, exception, parent, resumed, asked,
                   phase, reports>>

\* ... of one that was cancelled before it started.
SuspendCancelled(i) ==
    /\ At("suspend", i) /\ state[i] = "Cancelled"
    /\ Invoke(i, FALSE, Advance(stack, TRUE))
    /\ UNCHANGED <<given, state, bound, parent, asked, phase>>

\* await_suspend() of child i returns, or throws.
SuspendReturns(i) ==
    /\ At("await_suspend", i)
    /\ stack' = Tail(stack)
    /\ UNCHANGED <<given, state, bound, count, exception, parent, resumed,
                   asked, phase, reports>>

SuspendThrows(i) ==
    /\ At("await_suspend", i) /\ state[i] \in {"Running", "Cancelling"}
    /\ state' = [state EXCEPT ![i] = "Failed"]
    /\ Invoke(i, TRUE, Tail(stack))
    /\ UNCHANGED <<given, bound, parent, asked, phase>>

\* Child i is resumed by the event loop, or by whatever code runs inside an
\* awaitable that is being started or cancelled.
Complete(i) ==
    /\ state[i] \in {"Running", "Cancelling"}
    /\ stack # <<>> => Top.at \in Calls
    /\ ChildResumed(i, state[i], stack)
    /\ UNCHANGED <<given, bound, parent, asked, phase>>

----------------------------------------------------------------------------
(* The loops that cancel, and the calls of children's await_cancel().      *)

\* The innermost call is a loop of internalCancel() that has come to child i.
ToCancel(i) == \E at \in {"cancel", "earlyCancel", "outerCancel"} : At(at, i)

\* MuxHelper::cancel() of a child that agrees not to start ...
CancelUnstarted(i) ==
    /\ ToCancel(i) /\ state[i] = "NotStarted"
    /\ state' = [state EXCEPT ![i] = "Cancelled"]
    /\ IF bound
       THEN Invoke(i, FALSE, Advance(stack, TRUE))
       ELSE /\ stack' = Advance(stack, TRUE)
            /\ UNCHANGED <<count, exception, resumed, reports>>
    /\ UNCHANGED <<given, bound, parent, asked, phase>>

\* ... or insists on it ...
CancelRefused(i) ==
    /\ ToCancel(i) /\ state[i] = "NotStarted" /\ i \notin skippable
    /\ state' = [state EXCEPT ![i] = "CancellationPending"]
    /\ stack' = Advance(stack, FALSE)
    /\ UNCHANGED <<given, bound, count, exception, parent, resumed, asked,
                   phase, reports>>

\* ... or is running, and is asked to stop ...
CancelRunning(i) ==
    /\ ToCancel(i) /\ state[i] = "Running"
    /\ state' = [state EXCEPT ![i] = "Cancelling"]
    /\ stack' = <<Frame("await_cancel", i)>> \o stack
    /\ UNCHANGED <<given, bound, count, exception, parent, resumed, asked,
                   phase, reports>>

\* ... or has nothing to cancel or was asked before.
CancelNothing(i) ==
    /\ ToCancel(i) /\ state[i] \notin {"NotStarted", "Running"}
    /\ stack' = Advance(stack, state[i] = "Cancelled")
    /\ UNCHANGED <<given, state, bound, count, exception, parent, resumed,
                   asked, phase, reports>>

\* await_cancel() of child i returns true, or false.
AwaitCancelTrue(i) ==
    /\ At("await_cancel", i) /\ state[i] = "Cancelling"
    /\ state' = [state EXCEPT ![i] = "Cancelled"]
    /\ Invoke(i, FALSE, Advance(Tail(stack), TRUE))
    /\ UNCHANGED <<given, bound, parent, asked, phase>>

AwaitCancelFalse(i) ==
    /\ At("await_cancel", i)
    /\ stack' = Advance(Tail(stack), state[i] = "Cancelled")
    /\ UNCHANGED <<given, state, bound, count, exception, parent, resumed,
                   asked, phase, reports>>

\* The loop of invoke() is over: the report that started it is counted.
CancelEnds ==
    /\ At("cancel", N + 1)
    /\ count' = count + 1
    /\ IF count' = N THEN ResumeParent ELSE UNCHANGED resumed
    /\ stack' = Tail(stack)
    /\ UNCHANGED <<given, state, bound, exception, parent, asked, phase,
                   reports>>

\* The loop of await_early_cancel() is over.
EarlyCancelEnds ==
    /\ At("earlyCancel", N + 1)
    /\ phase' = IF Top.all THEN "aborted" ELSE "early"
    /\ stack' = Tail(stack)
    /\ UNCHANGED <<given, state, bound, count, exception, parent, resumed,
                   asked, reports>>

BugLastAnswers(all) == FALSE
\* Whether await_cancel() resumes the handle itself: the children are done,
\* but not all of them were cancelled.
AnswersLate(all) == ~all /\ count = N

\* The loop of await_cancel() is over.
OuterCancelEnds ==
    /\ At("outerCancel", N + 1)
    /\ parent' = TRUE
    /\ phase' = IF Top.all THEN "aborted" ELSE phase
    /\ resumed' = IF AnswersLate(Top.all) THEN resumed + 1 ELSE resumed
    /\ stack' = Tail(stack)
    /\ UNCHANGED <<given, state, bound, count, exception, asked, reports>>

----------------------------------------------------------------------------
(* reportImmediateResult().                                                *)

\* A child that was not needed is skipped: it is cancelled, or it was.
ReportUnneeded(i) ==
    /\ At("report", i)
    /\ \/ state[i] = "Cancelled" /\ UNCHANGED state
       \/ /\ state[i] = "NotStarted" /\ i \notin available
          /\ state' = [state EXCEPT ![i] = "Cancelled"]
    /\ Invoke(i, FALSE, Advance(stack, TRUE))
    /\ UNCHANGED <<given, bound, parent, asked, phase>>

\* One that is ready reports, unless it was cancelled and is ready to drop
\* its result.
ReportReady(i) ==
    /\ At("report", i)
    /\ \/ state[i] = "NotStarted" /\ i \in available
       \/ state[i] = "CancellationPending"
    /\ ReportResult(i, Advance(stack, TRUE))
    /\ UNCHANGED <<given, bound, parent, asked, phase>>

ReportDropped(i) ==
    /\ At("report", i) /\ state[i] = "CancellationPending"
    /\ state' = [state EXCEPT ![i] = "Cancelled"]
    /\ Invoke(i, FALSE, Advance(stack, TRUE))
    /\ UNCHANGED <<given, bound, parent, asked, phase>>

LoopEnds ==
    /\ At("suspend", N + 1) \/ At("report", N + 1)
    /\ stack' = Tail(stack)
    /\ UNCHANGED <<given, state, bound, count, exception, parent, resumed,
                   asked, phase, reports>>

----------------------------------------------------------------------------

\* The thread goes on inside the calls in progress.
Step(i) ==
    \/ KickOffReady(i) \/ KickOff(i) \/ SuspendCancelled(i)
    \/ SuspendReturns(i) \/ SuspendThrows(i)
    \/ CancelUnstarted(i) \/ CancelRefused(i) \/ CancelRunning(i)
    \/ CancelNothing(i) \/ AwaitCancelTrue(i) \/ AwaitCancelFalse(i)
    \/ ReportUnneeded(i) \/ ReportReady(i) \/ ReportDropped(i)

StepEnds == LoopEnds \/ CancelEnds \/ EarlyCancelEnds \/ OuterCancelEnds

Next ==
    \/ EarlyCancel \/ ResumeWithoutSuspend \/ Suspend \/ Cancel \/ ParentRuns
    \/ \E i \in Child : Step(i) \/ Complete(i)
    \/ StepEnds

Spec == Init /\ [][Next]_vars

\* The thread runs, and a child that was asked to stop and could not at once
\* does so in the end.  A child that was not asked may run for ever.
FairSpec ==
    /\ Spec
    /\ WF_vars(StepEnds \/ \E i \in Child : Step(i))
    /\ WF_vars(Suspend) /\ WF_vars(ParentRuns)
    /\ \A i \in Child : WF_vars(state[i] = "Cancelling" /\ Complete(i))

----------------------------------------------------------------------------
(* Properties.                                                             *)

Over == phase \in {"aborted", "cancelled", "done"}
Told == resumed > 0 \/ Over

\* A child was counted twice.
CountedTwice == \E i \in Child : reports[i] > 1

\* The awaiting task goes on only when every child has finished: wait.h:36-39
\* says of anyOf() "Upon completion of any one, request cancellation of the
\* rest; once all are finished executing, return the result(s)".
RestFinished == Told => \A i \in Child : state[i] \in Finished

\* ... and so it is, unless a child is counted twice: one that was cancelled
\* before the loop of await_suspend() came to it.
FinishedUnlessTwice == ~CountedTwice => RestFinished

\* The awaiting task is told once: its handle is resumed, or a cancel function
\* returns true ("doing both will produce undefined behavior", concepts.h).
ToldOnce == resumed <= 1 /\ (phase = "aborted" => resumed = 0)

\* What the task gets is what the children did: the exception that came first
\* if any failed, no tuple of results with a hole in allOf(), no anyOf() that
\* was suspended without a result, and no result or exception dropped by a
\* cancellation except the results of allOf(), which says so (wait.h:74-76).
Results ==
    ~CountedTwice =>
        /\ exception # 0 => state[exception] = "Failed"
        /\ exception = 0 => \A i \in Child : state[i] # "Failed"
        /\ phase = "done" /\ exception = 0 =>
            /\ kind = "allOf" => \A i \in Child : state[i] = "Succeeded"
            /\ kind = "mostOf" /\ ~asked => \A i \in Child : state[i] = "Succeeded"
            /\ kind = "anyOf" /\ parent => \E i \in Child : state[i] = "Succeeded"
        /\ phase \in {"aborted", "cancelled"} =>
            /\ exception = 0
            /\ kind # "allOf" => \A i \in Child : state[i] = "Cancelled"

\* Once the task asks for cancellation, a child fails, or a child of anyOf()
\* has a result, the await ends, whatever the other children want.
Ends ==
    (asked \/ exception # 0
       \/ (kind = "anyOf" /\ \E i \in Child : state[i] = "Succeeded"))
    ~> (Over \/ CountedTwice)
=============================================================================
