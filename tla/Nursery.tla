------------------------------ MODULE Nursery ------------------------------
(***************************************************************************)
(* The structured-concurrency core of corral: the promise of a task        *)
(* (detail/Promise.h, class BasePromise), the nursery (Nursery.h) and the  *)
(* executor that runs both (Executor.h).                                   *)
(*                                                                         *)
(* Everything runs on one thread.  A step of the model is one piece of     *)
(* code that runs without calling another task's code:                     *)
(*   - the task on the CPU does something (awaits, opens a nursery, starts *)
(*     or cancels, wakes another task, returns, throws);                   *)
(*   - the executor takes the next entry of a list of ready entries;       *)
(*   - the event loop, when the executor is idle, calls back.              *)
(* Cancelling a nursery runs a captured list of entries to its end inside  *)
(* the call (Executor::capture), and an entry of that list may cancel a    *)
(* nested nursery: "captured" is the stack of those lists, top first, and  *)
(* nothing below it on the C++ stack moves until it is empty.              *)
(*                                                                         *)
(* A leaf is any awaitable that is not a nursery: which of its possible    *)
(* answers it gives is left open (concepts.h).  A task that has finished   *)
(* and whose frame is destroyed is Unborn again, so its name is reused.    *)
(***************************************************************************)
EXTENDS Naturals, Sequences, FiniteSets, Linked

CONSTANTS
    Task,       \* names of tasks (BasePromise objects)
    Scope,      \* names of nurseries (Nursery::Scope objects)
    Root,       \* the outermost task; its parent is not a nursery
    None        \* a null handle or pointer

ASSUME NurseryAssumption ==
    /\ Root \in Task
    /\ Task \cap Scope = {}
    /\ None \notin Task \cup Scope
    /\ {"Unborn", "Ready", "Running", "Returning", "Leaf", "Done",
        "none", "cancelled"} \cap (Task \cup Scope) = {}

VARIABLES
    \* BasePromise
    state,      \* Ready, Running, Returning (in final suspend), Done, or
                \* suspended: the awaitee, Leaf or the nursery awaited
    cancelReq,  \* cancelState_ = Requested (only when not suspended)
    onResume,   \* the trampoline that resuming proxyHandle() calls
    home,       \* parent_: the nursery that owns the task
    \* Nursery
    tasks,      \* tasks_, in order
    parent,     \* parent_: the task that waits; None once closed
    executor,   \* executor_ # nullptr: open to new tasks
    exception,  \* exception_: none, cancelled (cancellationRequest()),
                \* or the task whose exception is stored
    \* Executor
    ready,      \* *ready_ outside of capture(): entries still to run
    captured,   \* the stack of captured lists: tasks still to be cancelled
    cpu,        \* the task whose step is running, or None
    \* History
    asked       \* tasks whose cancel() has been called

promiseVars == <<state, cancelReq, onResume, home>>
nurseryVars == <<tasks, parent, executor, exception>>
vars == <<state, cancelReq, onResume, home, tasks, parent, executor,
          exception, ready, captured, cpu, asked>>

ResumeTask(t)   == [fn |-> "resume", arg |-> t]   \* realHandle().resume()
DestroyFrame(t) == [fn |-> "destroy", arg |-> t]  \* p->destroy()
ResumeParent(t) == [fn |-> "parent", arg |-> t]   \* proxyHandle().resume()

Suspended(t) == state[t] \in Scope \cup {"Leaf"}   \* hasAwaitee()

\* The executor has nothing to do: the event loop may run its callbacks.
Idle == cpu = None /\ ready = <<>> /\ captured = <<>>

\* Task t is on the CPU and is not inside a call of Nursery::doCancel.
OnCpu(t) == cpu = t /\ captured = <<>> /\ state[t] = "Running"

\* Who may call into the library: a running task or an event loop callback.
Caller == Idle \/ \E t \in Task : OnCpu(t)

Exists(n) == \E t \in Task : state[t] = n

TypeOK ==
    /\ state \in [Task -> {"Unborn", "Ready", "Running", "Returning",
                           "Leaf", "Done"} \cup Scope]
    /\ cancelReq \in [Task -> BOOLEAN]
    /\ onResume \in [Task -> {"doNothing", "doResume", "doResumeAfterCancel"}]
    /\ home \in [Task -> Scope \cup {None}]
    /\ tasks \in [Scope -> Seq(Task)]
    /\ parent \in [Scope -> Task \cup {None}]
    /\ executor \in [Scope -> BOOLEAN]
    /\ exception \in [Scope -> {"none", "cancelled"} \cup Task]
    /\ ready \in Seq([fn : {"resume", "destroy", "parent"}, arg : Task])
    /\ captured \in Seq(Seq(Task) \ {<<>>})
    /\ cpu \in Task \cup {None}
    /\ asked \in SUBSET Task

\* corral::run() has started the root task; no nursery exists yet.
Init ==
    /\ state = [t \in Task |-> IF t = Root THEN "Ready" ELSE "Unborn"]
    /\ cancelReq = [t \in Task |-> FALSE]
    /\ onResume = [t \in Task |-> "doNothing"]
    /\ home = [t \in Task |-> None]
    /\ tasks = [n \in Scope |-> <<>>]
    /\ parent = [n \in Scope |-> None]
    /\ executor = [n \in Scope |-> FALSE]
    /\ exception = [n \in Scope |-> "none"]
    /\ ready = <<ResumeTask(Root)>>
    /\ captured = <<>>
    /\ cpu = None
    /\ asked = {}

----------------------------------------------------------------------------
(* What a promise does when it is resumed or done.  q is the ready list    *)
(* the step starts from.                                                   *)

\* (Definitions named Bug... are plausible mistakes in the definition that
\* follows them; PROJECT.json says which property finds each of them.)
BugClosesOneEarly(n, rest) == Len(rest) <= 1 /\ parent[n] # None
BugClosesNotErased(n, rest) == tasks[n] = <<>> /\ parent[n] # None

\* The last task to leave closes the nursery.
Closes(n, rest) == rest = <<>> /\ parent[n] # None

BugDeferredParentFirst(t, p, closes) ==
    (IF closes THEN <<ResumeParent(p)>> ELSE <<>>) \o <<DestroyFrame(t)>>

\* What continuation() leaves to the executor: destroy the frame, and then
\* resume the parent if the nursery closes.
Deferred(t, p, closes) ==
    <<DestroyFrame(t)>> \o (IF closes THEN <<ResumeParent(p)>> ELSE <<>>)

\* Nursery::continuation: the nursery loses task t.
Continuation(t, q) ==
    LET n == home[t]
        rest == Unlink(tasks[n], t)
        closes == Closes(n, rest)
    IN  /\ state' = [state EXCEPT ![t] = "Done"]
        /\ IF t = Root
           THEN UNCHANGED <<tasks, parent, executor>> /\ ready' = q
           ELSE /\ tasks' = [tasks EXCEPT ![n] = rest]
                /\ parent' = [parent EXCEPT ![n] = IF closes THEN None ELSE @]
                /\ executor' = [executor EXCEPT ![n] = @ /\ ~closes]
                /\ ready' = q \o Deferred(t, parent[n], closes)

\* cancelled() does nothing in a nursery.
PropagateCancel(t, q) ==
    /\ Continuation(t, q)
    /\ UNCHANGED <<cancelReq, onResume>>

BugDoResumeStillWaiting(t, q, pending) ==
    /\ ready' = Append(q, ResumeTask(t))
    /\ UNCHANGED <<state, cancelReq, onResume, tasks, parent, executor>>

\* Schedule the next step of t, with or without a pending cancellation.
DoResume(t, q, pending) ==
    /\ state' = [state EXCEPT ![t] = "Ready"]
    /\ cancelReq' = [cancelReq EXCEPT ![t] = pending]
    /\ onResume' = [onResume EXCEPT ![t] = "doNothing"]
    /\ ready' = Append(q, ResumeTask(t))
    /\ UNCHANGED <<tasks, parent, executor>>

BugMustResumeInverted(t) ==
    IF state[t] = "Leaf" THEN BOOLEAN ELSE {exception[state[t]] \notin Task}

\* await_must_resume() of what t waits for.  A leaf may give either answer.
MustResume(t) ==
    IF state[t] = "Leaf" THEN BOOLEAN ELSE {exception[state[t]] # "cancelled"}

\* The handle that t gave to its awaitee is resumed.
ResumeProxy(t, q) ==
    \/ onResume[t] = "doResume" /\ DoResume(t, q, FALSE)
    \/ /\ onResume[t] = "doResumeAfterCancel"
       /\ \E must \in MustResume(t) :
             IF must THEN DoResume(t, q, TRUE) ELSE PropagateCancel(t, q)

BugNeedCancelAgain(n) == exception[n] \notin Task

\* Nothing has cancelled nursery n yet.
NeedCancel(n) == exception[n] = "none"

BugCancelledAtStartForgets(n) == exception[n] = "cancelled"

\* A task started in nursery n is cancelled before it runs.
CancelledAtStart(n) == exception[n] # "none"

BugStoredLast(n, t) == t

\* What exception_ holds once the exception of t is stored.
StoredException(n, t) ==
    IF exception[n] \in {"none", "cancelled"} THEN t ELSE exception[n]

\* Nursery::doCancel: p->cancel() for all tasks of n, through a captured list.
DoCancel(n, below) ==
    IF executor[n] /\ tasks[n] # <<>> THEN <<tasks[n]>> \o below ELSE below

BugTrampolineForgets(pending) == "doResume"
BugTrampolineStale(pending) == "doResumeAfterCancel"

\* How a task that suspends, with or without a pending cancellation, resumes.
Trampoline(pending) == IF pending THEN "doResumeAfterCancel" ELSE "doResume"

----------------------------------------------------------------------------
(* Steps of the task on the CPU.                                           *)

\* co_await on a leaf that is not ready; a pending cancellation is handed to
\* its await_early_cancel(), and the awaitee then completes or is cancelled
\* through doResumeAfterCancel.
AwaitLeaf(t) ==
    /\ OnCpu(t)
    /\ state' = [state EXCEPT ![t] = "Leaf"]
    /\ onResume' = [onResume EXCEPT ![t] = Trampoline(cancelReq[t])]
    /\ cancelReq' = [cancelReq EXCEPT ![t] = FALSE]
    /\ cpu' = None
    /\ UNCHANGED <<home, nurseryVars, ready, captured, asked>>

\* co_await with a pending cancellation that the leaf accepts: at once, or
\* being ready and not insisting on its result.
EarlyCancel(t) ==
    /\ OnCpu(t) /\ cancelReq[t]
    /\ PropagateCancel(t, ready)
    /\ cpu' = None
    /\ UNCHANGED <<home, exception, captured, asked>>

\* co_await with a pending cancellation on a leaf that refuses it, is ready
\* and must resume: t goes through the executor, still to be cancelled.
AwaitReadyAnyway(t) ==
    /\ OnCpu(t) /\ cancelReq[t]
    /\ DoResume(t, ready, TRUE)
    /\ cpu' = None
    /\ UNCHANGED <<home, exception, captured, asked>>

\* Nursery::addTask: a task that enters a cancelled nursery is cancelled
\* before it starts.
AddTask(n, c, cancelled) ==
    /\ state[c] = "Unborn"
    /\ home' = [home EXCEPT ![c] = n]
    /\ tasks' = [tasks EXCEPT ![n] = Append(@, c)]
    /\ ready' = Append(ready, ResumeTask(c))
    /\ asked' = IF cancelled THEN asked \cup {c} ELSE asked

\* CORRAL_WITH_NURSERY: t waits for a new nursery n whose first task is b.
OpenNursery(t, n, b) ==
    /\ OnCpu(t) /\ ~Exists(n)
    /\ AddTask(n, b, cancelReq[t])
    /\ state' = [state EXCEPT ![t] = n, ![b] = "Ready"]
    /\ onResume' = [onResume EXCEPT ![t] = Trampoline(cancelReq[t])]
    /\ cancelReq' = [cancelReq EXCEPT ![t] = FALSE, ![b] = cancelReq[t]]
    /\ exception' = [exception EXCEPT ![n] =
            IF cancelReq[t] THEN "cancelled" ELSE "none"]
    /\ parent' = [parent EXCEPT ![n] = t]
    /\ executor' = [executor EXCEPT ![n] = TRUE]
    /\ cpu' = None
    /\ UNCHANGED captured

\* ... whose body is a stub, just(join) or just(cancel): it is done before
\* addTask returns, and so is the nursery (BasePromise::start).
OpenNurseryStub(t, n, b) ==
    /\ OnCpu(t) /\ ~Exists(n) /\ state[b] = "Unborn"
    /\ state' = [state EXCEPT ![t] = n, ![b] = "Done"]
    /\ onResume' = [onResume EXCEPT ![t] = Trampoline(cancelReq[t])]
    /\ cancelReq' = [cancelReq EXCEPT ![t] = FALSE]
    /\ home' = [home EXCEPT ![b] = n]
    /\ \E e \in {"none", "cancelled"} :
        /\ cancelReq[t] => e = "cancelled"
        /\ exception' = [exception EXCEPT ![n] = e]
        /\ asked' = IF e = "cancelled" THEN asked \cup {b} ELSE asked
    /\ ready' = ready \o Deferred(b, t, TRUE)
    /\ cpu' = None
    /\ UNCHANGED <<tasks, parent, executor, captured>>

\* co_return: the result is stored and the task is finally suspended.
Return(t) ==
    /\ OnCpu(t)
    /\ Continuation(t, ready)
    /\ cpu' = None
    /\ UNCHANGED <<cancelReq, onResume, home, exception, captured, asked>>

\* An exception leaves the task: Nursery::storeException.  The first one is
\* kept, and the first reason to cancel cancels the other tasks.
Throw(t) ==
    LET n == home[t]
    IN  /\ OnCpu(t)
        /\ state' = [state EXCEPT ![t] = "Returning"]
        /\ IF t = Root
           THEN UNCHANGED <<exception, captured>>
           ELSE /\ exception' = [exception EXCEPT ![n] = StoredException(n, t)]
                /\ captured' = IF NeedCancel(n)
                               THEN DoCancel(n, captured) ELSE captured
        /\ UNCHANGED <<cancelReq, onResume, home, tasks, parent, executor,
                       ready, cpu, asked>>

\* ... and the final suspend that follows, once doCancel has returned.
FinalSuspend(t) ==
    /\ cpu = t /\ captured = <<>> /\ state[t] = "Returning"
    /\ Continuation(t, ready)
    /\ cpu' = None
    /\ UNCHANGED <<cancelReq, onResume, home, exception, captured, asked>>

----------------------------------------------------------------------------
(* Calls made by a running task or by a callback of the event loop.        *)

\* Nursery::start.
Start(n, c) ==
    /\ Caller /\ executor[n]
    /\ AddTask(n, c, CancelledAtStart(n))
    /\ state' = [state EXCEPT ![c] = "Ready"]
    /\ cancelReq' = [cancelReq EXCEPT ![c] = CancelledAtStart(n)]
    /\ UNCHANGED <<onResume, parent, executor, exception, captured, cpu>>

\* ... of a stub, just() or noop(): it never runs, only its frame is left.
StartStub(n, c) ==
    /\ Caller /\ executor[n] /\ state[c] = "Unborn"
    /\ state' = [state EXCEPT ![c] = "Done"]
    /\ home' = [home EXCEPT ![c] = n]
    /\ asked' = IF CancelledAtStart(n) THEN asked \cup {c} ELSE asked
    /\ ready' = ready \o Deferred(c, None, FALSE)
    /\ UNCHANGED <<cancelReq, onResume, nurseryVars, captured, cpu>>

\* Nursery::cancel, also what the body's "co_return cancel" calls before it
\* returns.  A nursery that is closed but not yet left only notes it.
CancelNursery(n) ==
    /\ Caller /\ Exists(n) /\ NeedCancel(n)
    /\ exception' = [exception EXCEPT ![n] = "cancelled"]
    /\ captured' = DoCancel(n, captured)
    /\ UNCHANGED <<promiseVars, tasks, parent, executor, ready, cpu, asked>>

\* Whatever u was waiting for happens.
Wake(u) ==
    /\ Caller /\ state[u] = "Leaf"
    /\ ResumeProxy(u, ready)
    /\ UNCHANGED <<home, exception, captured, cpu, asked>>

\* The parent of the root task cancels it.
CancelRoot ==
    /\ Idle /\ Root \notin asked /\ Suspended(Root)
    /\ captured' = <<<<Root>>>>
    /\ UNCHANGED <<promiseVars, nurseryVars, ready, cpu, asked>>

----------------------------------------------------------------------------
(* The executor: the captured lists, then the ready list.                  *)

\* The next task to cancel, and the stack once it is taken off.
NextCaptured == Head(Head(captured))
AfterCaptured ==
    LET rest == Tail(Head(captured))
    IN  IF rest = <<>> THEN Tail(captured) ELSE <<rest>> \o Tail(captured)

\* BasePromise::cancel of a task that is not suspended.
CancelPending(p) ==
    /\ captured # <<>> /\ p = NextCaptured /\ ~Suspended(p)
    /\ cancelReq' = [cancelReq EXCEPT ![p] = TRUE]
    /\ captured' = AfterCaptured
    /\ asked' = asked \cup {p}
    /\ UNCHANGED <<state, onResume, home, nurseryVars, ready, cpu>>

\* ... of a task suspended on a leaf, which is cancelled at once, ...
CancelLeaf(p) ==
    /\ captured # <<>> /\ p = NextCaptured /\ state[p] = "Leaf"
    /\ Continuation(p, ready)
    /\ onResume' = [onResume EXCEPT ![p] = "doResumeAfterCancel"]
    /\ captured' = AfterCaptured
    /\ asked' = asked \cup {p}
    /\ UNCHANGED <<cancelReq, home, exception, cpu>>

\* ... or completes before await_cancel() returns false, ...
CancelLeafCompletes(p) ==
    /\ captured # <<>> /\ p = NextCaptured /\ state[p] = "Leaf"
    /\ DoResume(p, ready, TRUE)
    /\ captured' = AfterCaptured
    /\ asked' = asked \cup {p}
    /\ UNCHANGED <<home, exception, cpu>>

\* ... or will answer later, ...
CancelLeafLater(p) ==
    /\ captured # <<>> /\ p = NextCaptured /\ state[p] = "Leaf"
    /\ onResume' = [onResume EXCEPT ![p] = "doResumeAfterCancel"]
    /\ captured' = AfterCaptured
    /\ asked' = asked \cup {p}
    /\ UNCHANGED <<state, cancelReq, home, nurseryVars, ready, cpu>>

\* ... or of a task that waits for a nursery, which is cancelled in turn.
CancelNested(p) ==
    /\ captured # <<>> /\ p = NextCaptured /\ state[p] \in Scope
    /\ onResume' = [onResume EXCEPT ![p] = "doResumeAfterCancel"]
    /\ asked' = asked \cup {p}
    /\ LET m == state[p]
       IN  /\ exception' = [exception EXCEPT ![m] =
                  IF NeedCancel(m) THEN "cancelled" ELSE @]
           /\ captured' = IF NeedCancel(m)
                          THEN DoCancel(m, AfterCaptured) ELSE AfterCaptured
    /\ UNCHANGED <<state, cancelReq, home, tasks, parent, executor, ready, cpu>>

\* The executor is between two entries of its ready list.
Draining(fn, t) ==
    /\ cpu = None /\ captured = <<>> /\ ready # <<>>
    /\ Head(ready) = [fn |-> fn, arg |-> t]

RunTask(t) ==
    /\ Draining("resume", t)
    /\ state' = [state EXCEPT ![t] = "Running"]
    /\ cpu' = t
    /\ ready' = Tail(ready)
    /\ UNCHANGED <<cancelReq, onResume, home, nurseryVars, captured, asked>>

RunDestroy(t) ==
    /\ Draining("destroy", t)
    /\ state' = [state EXCEPT ![t] = "Unborn"]
    /\ cancelReq' = [cancelReq EXCEPT ![t] = FALSE]
    /\ onResume' = [onResume EXCEPT ![t] = "doNothing"]
    /\ home' = [home EXCEPT ![t] = None]
    /\ asked' = asked \ {t}
    /\ ready' = Tail(ready)
    /\ UNCHANGED <<nurseryVars, captured, cpu>>

\* The parent of a closed nursery is resumed, and the nursery is gone.
RunParent(t) ==
    /\ Draining("parent", t)
    /\ ResumeProxy(t, Tail(ready))
    /\ exception' = [exception EXCEPT ![state[t]] = "none"]
    /\ UNCHANGED <<home, captured, cpu, asked>>

----------------------------------------------------------------------------

TaskStep(t) ==
    \/ AwaitLeaf(t) \/ EarlyCancel(t) \/ AwaitReadyAnyway(t)
    \/ \E n \in Scope, b \in Task :
        OpenNursery(t, n, b) \/ OpenNurseryStub(t, n, b)
    \/ Return(t) \/ Throw(t) \/ FinalSuspend(t)

Call ==
    \/ \E n \in Scope, c \in Task : Start(n, c) \/ StartStub(n, c)
    \/ \E n \in Scope : CancelNursery(n)
    \/ \E u \in Task : Wake(u)
    \/ CancelRoot

CancelStep(p) ==
    \/ CancelPending(p) \/ CancelLeaf(p) \/ CancelLeafCompletes(p)
    \/ CancelLeafLater(p) \/ CancelNested(p)

ExecutorStep(t) == RunTask(t) \/ RunDestroy(t) \/ RunParent(t)

\* The root task is done and so is the program.
Finished == state[Root] = "Done" /\ Idle /\ UNCHANGED vars

Next ==
    \/ \E t \in Task : TaskStep(t) \/ CancelStep(t) \/ ExecutorStep(t)
    \/ Call
    \/ Finished

Spec == Init /\ [][Next]_vars

\* A task being cancelled gives up: at its next co_await, or when the leaf
\* that was asked to cancel answers that it did.
GiveUp(t) == EarlyCancel(t) \/ (Wake(t) /\ state'[t] = "Done")

\* One thread runs the executor's entries and the task on the CPU; a leaf
\* that promises to cancel does so in the end, if its task keeps asking.
Fairness ==
    \A t \in Task :
        /\ WF_vars(TaskStep(t)) /\ WF_vars(CancelStep(t))
        /\ WF_vars(ExecutorStep(t)) /\ SF_vars(GiveUp(t))

FairSpec == Spec /\ Fairness

----------------------------------------------------------------------------
(* Properties.                                                             *)

Alive(t) == state[t] \notin {"Unborn", "Done"}

\* A cancellation of t is on its way to t's code.
BeingCancelled(t) ==
    cancelReq[t] \/ (Suspended(t) /\ onResume[t] = "doResumeAfterCancel")

\* As long as a task of a nursery runs or its frame exists, the task that
\* opened the nursery waits for it: Nursery.h, "Execution cannot continue
\* past the end of the nursery block" and the order in continuation().
StructuredConcurrency ==
    \A t \in Task \ {Root} : state[t] # "Unborn" => Exists(home[t])

\* A task waits for a nursery only while a task of it is running or its own
\* resumption is queued: the wake-up of the parent is never lost.
ParentIsWoken ==
    \A p \in Task, n \in Scope : state[p] = n =>
        \/ executor[n] /\ tasks[n] # <<>> /\ parent[n] = p
        \/ ~executor[n] /\ Contains(ready, ResumeParent(p))

\* Every frame on the ready list is there once and for the reason its state
\* gives: no task is run twice, destroyed twice or run after it was destroyed.
ReadyListExact ==
    /\ \A i, j \in 1..Len(ready) : ready[i] = ready[j] => i = j
    /\ \A t \in Task :
        /\ Contains(ready, ResumeTask(t)) <=> state[t] = "Ready"
        /\ Contains(ready, DestroyFrame(t)) <=> state[t] = "Done" /\ t # Root
        /\ Contains(ready, ResumeParent(t)) => state[t] \in Scope

\* Once a nursery is cancelled and doCancel has returned, every task in it is
\* being cancelled, tasks started afterwards included.
CancelReachesAll ==
    captured = <<>> =>
        \A t \in Task \ {Root} :
            Alive(t) /\ exception[home[t]] # "none" => BeingCancelled(t)

\* A task is cancelled only because its nursery is (or, for the root, because
\* its parent asked).
CancelHasReason ==
    \A t \in Task :
        /\ BeingCancelled(t) => t \in asked
        /\ t \in asked \ {Root} => exception[home[t]] # "none"

\* cancel() is called at most once on a task, and never on one that is done:
\* concepts.h, "No further call to await_cancel() will be made".
CancelledOnce ==
    /\ \A i \in 1..Len(captured) : \A j \in 1..Len(captured[i]) :
        LET p == captured[i][j]
        IN  /\ Alive(p) /\ p \notin asked
            /\ \A k \in 1..Len(captured) : \A l \in 1..Len(captured[k]) :
                captured[k][l] = p => k = i /\ l = j

\* The first exception stored in a nursery stays until the parent gets it,
\* and a nursery once cancelled never looks as if it had not been.
FirstExceptionWins ==
    [][\A n \in Scope : Exists(n) /\ Exists(n)' =>
        /\ exception[n] \in Task => exception'[n] = exception[n]
        /\ exception[n] # "none" => exception'[n] # "none"]_vars

\* A parent never loses an exception of its nursery to its own cancellation,
\* and ends by cancellation only if it was asked to and the nursery was.
ParentOutcome ==
    [][\A p \in Task, n \in Scope : state[p] = n /\ state'[p] # n =>
        /\ exception[n] \in Task => state'[p] = "Ready"
        /\ state'[p] = "Done" => p \in asked /\ exception[n] = "cancelled"]_vars

\* A cancelled nursery is left in the end, unless the program starves the
\* event loop (Executor.h warns of it) or keeps starting tasks in nurseries.
Starting ==
    \E n \in Scope, c \in Task :
        \/ Start(n, c) \/ StartStub(n, c)
        \/ \E t \in Task : OpenNursery(t, n, c) \/ OpenNurseryStub(t, n, c)
CancelCompletes ==
    []<>Idle /\ <>[][~Starting]_vars =>
        \A n \in Scope :
            (Exists(n) /\ exception[n] # "none") ~> ~Exists(n)

\* What a user of nursery n sees of its tasks (NurseryScope).
Active(n)  == {t \in Task : home[t] = n /\ Alive(t)}
Zombies(n) == {t \in Task : home[t] = n /\ state[t] = "Done"}
=============================================================================
