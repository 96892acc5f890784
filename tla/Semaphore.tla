----------------------------- MODULE Semaphore -----------------------------
(***************************************************************************)
(* Semaphore.h over detail/ParkingLot.h: a counter and an intrusive list   *)
(* of parked awaitables, used through lock(), so that a task releases only *)
(* the permit it holds.                                                    *)
(*                                                                         *)
(* release() increments the counter and resumes the handle of the oldest   *)
(* waiter, which only schedules the waiting task on the executor; the task *)
(* decrements the counter in await_resume(), when its turn comes.  Between *)
(* the two, any task that runs finds the counter positive.                 *)
(***************************************************************************)
EXTENDS Integers, Sequences, FiniteSets, Linked

CONSTANTS
    Task,
    Initial,    \* the constructor's argument: permits to hand out
    Modulus,    \* 2^w for a size_t of w bits
    Barging     \* whether a task may acquire between the wake-up of a waiter
                \* and the waiter's turn

ASSUME SemaphoreAssumption ==
    /\ IsFiniteSet(Task)
    /\ Modulus \in Nat /\ Initial \in 0..(Modulus - 1)
    /\ Cardinality(Task) + Initial < Modulus
    /\ Barging \in BOOLEAN

VARIABLES
    value,      \* value_
    parked,     \* parked_, oldest first
    woken,      \* unparked waiters the executor has still to run, in order
    holders     \* tasks that hold a Lock

vars == <<value, parked, woken, holders>>

\* The tasks that wait, in the order in which they will be served.
Line == woken \o parked

TypeOK ==
    /\ value \in 0..(Modulus - 1)
    /\ parked \in Seq(Task)
    /\ woken \in Seq(Task)
    /\ holders \in SUBSET Task
    \* a waiter is linked once, and waits no more once it holds
    /\ \A i, j \in 1..Len(Line) : Line[i] = Line[j] => i = j
    /\ \A i \in 1..Len(Line) : Line[i] \notin holders

Init ==
    /\ value = Initial
    /\ parked = <<>>
    /\ woken = <<>>
    /\ holders = {}

\* The task is neither waiting nor holding.
Out(t) == ~Contains(Line, t) /\ t \notin holders

\* size_t arithmetic.
Wrap(v) == v % Modulus

BugReady == TRUE
AwaitReady == value > 0

\* co_await lock() finds a permit: await_resume() takes it at once.
AcquireNow(t) ==
    /\ Out(t)
    /\ ~Barging => woken = <<>>
    /\ AwaitReady
    /\ value' = Wrap(value - 1)
    /\ holders' = holders \cup {t}
    /\ UNCHANGED <<parked, woken>>

\* ... or it does not, and the task parks.
Park(t) ==
    /\ Out(t)
    /\ ~AwaitReady
    /\ parked' = Append(parked, t)
    /\ UNCHANGED <<value, woken, holders>>

BugUnparkNewest ==
    IF parked = <<>> THEN UNCHANGED <<parked, woken>>
    ELSE /\ parked' = Front(parked)
         /\ woken' = Append(woken, Last(parked))
BugUnparkNone == UNCHANGED <<parked, woken>>

\* ParkingLotImpl::unparkOne: the oldest waiter leaves the list for the
\* executor.
UnparkOne ==
    IF parked = <<>> THEN UNCHANGED <<parked, woken>>
    ELSE /\ parked' = Tail(parked)
         /\ woken' = Append(woken, Head(parked))

\* ~Lock: release().
Release(t) ==
    /\ t \in holders
    /\ value' = Wrap(value + 1)
    /\ holders' = holders \ {t}
    /\ UnparkOne

\* The executor runs the next woken waiter, whose await_resume() does not
\* look at the counter again.
ResumeWaiter ==
    /\ woken # <<>>
    /\ value' = Wrap(value - 1)
    /\ holders' = holders \cup {Head(woken)}
    /\ woken' = Tail(woken)
    /\ UNCHANGED parked

\* A parked task is cancelled.  (One that is woken is not suspended any more:
\* it takes its permit first and is cancelled at its next co_await.)
Cancel(t) ==
    /\ Contains(parked, t)
    /\ parked' = Unlink(parked, t)
    /\ UNCHANGED <<value, woken, holders>>

Next ==
    \/ \E t \in Task : AcquireNow(t) \/ Park(t) \/ Release(t) \/ Cancel(t)
    \/ ResumeWaiter

Spec == Init /\ [][Next]_vars

\* The executor runs what is scheduled, and every lock is released in the end.
FairSpec ==
    /\ Spec
    /\ WF_vars(ResumeWaiter)
    /\ \A t \in Task : WF_vars(Release(t))

----------------------------------------------------------------------------
\* No more tasks hold the semaphore than it has permits ("used to implement
\* a lock", Semaphore.h:30), and no permit is lost or made up.
Permits ==
    /\ Cardinality(holders) <= Initial
    /\ value + Cardinality(holders) = Initial

\* Semaphore.h:47-48 says of acquire() "suspending the caller if it is
\* currently zero": nobody ever holds more permits than there are.
NeverOverdrawn == Cardinality(holders) <= Initial

\* A permit never lies idle while somebody waits for one: for every free
\* permit a waiter is on its way, or nobody is parked (release() wakes one).
NoIdlePermit == parked # <<>> => value = Len(woken)

\* Task u is served before task t.
Ahead(line, u, t) ==
    \E i, j \in 1..Len(line) : i < j /\ line[i] = u /\ line[j] = t

\* Waiters are served in the order they came: whoever is ahead of a waiter
\* was so before, for waking, cancelling and parking never let one pass
\* another ("wake the oldest waiter"); and while anybody waits only the first
\* of them gets the semaphore.
FirstComeFirstServed ==
    [][/\ \A t, u \in Task :
            Contains(Line, t) /\ Ahead(Line', u, t) => Ahead(Line, u, t)
       /\ Line # <<>> => holders' \ holders \subseteq {Head(Line)}]_vars

\* A task that parks gets the semaphore or is cancelled.
Served ==
    \A t \in Task : Contains(parked, t) ~> (t \in holders \/ Out(t))
=============================================================================
