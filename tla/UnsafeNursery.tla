---------------------------- MODULE UnsafeNursery ----------------------------
(***************************************************************************)
(* UnsafeNursery of Nursery.h: a nursery without a scope, with an executor *)
(* of its own.  Tasks adopt it by join(); the program closes it by         *)
(* asyncClose(), close() or its destructor, and may do so, start tasks and *)
(* end them from whatever the nursery calls.  Liberties of the program:    *)
(*   "closesWithin"  close() while the nursery is asking its tasks to end  *)
(*   "startsLate"    start() while close() is under way, which found no    *)
(*                   task and thus has cancelled nothing                   *)
(*   "goesEarly"     the destructor, while another executor of the event   *)
(*                   loop has a call of this one on its list               *)
(***************************************************************************)
EXTENDS Awaitable, Functions

CONSTANTS
    Joiners,    \* the tasks that join()
    Tasks,      \* frames of the nursery's tasks
    Closure,    \* the function given to asyncClose()
    Nobody,
    MaxQueued,  \* bound: calls of this executor on the lists of others
    MaxLate,    \* bound: tasks started after the nursery was cancelled
    Liberties

VARIABLES
    tasks,      \* what becomes of each task
    executor,   \* executor_ is not null
    parent,     \* parent_
    exception,  \* exception_
    ready,      \* buffer_ of the executor
    stack,      \* calls of the nursery and its executor, innermost first
    scheduled,  \* scheduled_ of the executor
    queued,     \* how many lists of other executors have its runOnce()
    late        \* how many tasks were started late

vars == <<shared, tasks, executor, parent, exception, ready, stack, scheduled,
          queued, late>>

Entry(do, to) == [do |-> do, to |-> to]
Frame(fn, who, list) == [fn |-> fn, who |-> who, list |-> list, busy |-> FALSE]
Fn(fn) == Frame(fn, Nobody, {})

Entries == [do : {"destroy"}, to : Tasks] \cup [do : {"resume"}, to : Joiners \cup {Closure}]
           \cup {Entry("cancel", Nobody)}
Frames == [fn : {"captured", "runSoon", "drain", "continuation", "resume",
                 "earlyCancel", "close", "destroy"},
           who : Tasks \cup Joiners \cup {Closure, Nobody},
           list : SUBSET Tasks, busy : BOOLEAN]

\* tasks_, but for those that are on their way out.
Living == {t \in Tasks : tasks[t] \in {"alive", "asked", "leaving"}}

TypeOK ==
    /\ ProtocolTypeOK
    /\ tasks \in [Tasks -> {"no", "alive", "asked", "leaving", "ended"}]
    /\ executor \in BOOLEAN /\ scheduled \in BOOLEAN
    /\ parent \in Joiners \cup {Closure, Nobody}
    /\ exception \in {"none", "request", "error"}
    /\ ready \in Seq(Entries) /\ stack \in Seq(Frames)
    /\ queued \in 0..MaxQueued /\ late \in 0..MaxLate

Init == /\ ProtocolInit(Joiners, {})
        /\ tasks = [t \in Tasks |-> "no"]
        /\ executor = TRUE
        /\ parent = Nobody
        /\ exception = "none"
        /\ ready = <<>> /\ stack = <<>>
        /\ scheduled = FALSE
        /\ queued = 0 /\ late = 0

\* The thread is in code that is not the nursery's: an event loop's callback,
\* or something the executor has called.
Free == over = "no" /\ (stack # <<>> => Head(stack).busy)
At(fn) == over = "no" /\ stack # <<>> /\ Head(stack).fn = fn
OnStack(fns) == \E f \in Range(stack) : f.fn \in fns
Closing == OnStack({"close", "destroy"})
Asking == OnStack({"captured"})

\* The frames of doCancel(): what it captures, the order of which is left open,
\* and then runSoon().
DoCancel == IF executor /\ Living # {}
            THEN <<Frame("captured", Nobody, Living), Fn("runSoon")>>
            ELSE <<>>

\* cancel(), called from where the stack was "rest".
CancelFrom(rest) ==
    /\ exception' = IF exception = "none" THEN "request" ELSE exception
    /\ stack' = (IF exception = "none" THEN DoCancel ELSE <<>>) \o rest

----------------------------------------------------------------------------
(* The tasks.                                                              *)

\* start() and addTask(): a task that comes late is cancelled before it runs.
Start(t) ==
    /\ Free /\ executor /\ tasks[t] = "no"
    /\ Closing /\ exception = "none" => "startsLate" \in Liberties
    /\ IF exception = "none" THEN UNCHANGED late
       ELSE late < MaxLate /\ late' = late + 1
    /\ tasks' = [tasks EXCEPT ![t] = IF exception = "none" THEN "alive" ELSE "asked"]
    /\ UNCHANGED <<shared, executor, parent, exception, ready, stack, scheduled, queued>>

Runs(t) == Free /\ tasks[t] \in {"alive", "asked"}

Returns(t) ==
    /\ Runs(t)
    /\ tasks' = [tasks EXCEPT ![t] = "leaving"]
    /\ stack' = <<Frame("continuation", t, {})>> \o stack
    /\ UNCHANGED <<shared, executor, parent, exception, ready, scheduled, queued, late>>

\* storeException(), and then continuation().
Throws(t) ==
    /\ Runs(t) /\ parent # Nobody
    /\ tasks' = [tasks EXCEPT ![t] = "leaving"]
    /\ exception' = "error"
    /\ stack' = (IF exception = "none" THEN DoCancel ELSE <<>>)
                    \o <<Frame("continuation", t, {})>> \o stack
    /\ UNCHANGED <<shared, executor, parent, ready, scheduled, queued, late>>

\* Without a parent there is no one to pass the exception to.
ThrowsAtNobody(t) ==
    /\ Runs(t) /\ parent = Nobody
    /\ over' = "terminated"
    /\ UNCHANGED <<above, below, calls, tasks, executor, parent, exception, ready,
                   stack, scheduled, queued, late>>

\* The last task takes the parent with it, which is resumed after its frame
\* was destroyed.
Continuation ==
    /\ At("continuation")
    /\ LET t == Head(stack).who
           last == Living = {t} /\ parent # Nobody
       IN  /\ tasks' = [tasks EXCEPT ![t] = "ended"]
           /\ ready' = Append(ready, Entry("destroy", t))
           /\ parent' = IF last THEN Nobody ELSE parent
           /\ executor' = (executor /\ ~last)
           /\ stack' = <<Fn("runSoon")>>
                         \o (IF last THEN <<Frame("resume", parent, {})>> ELSE <<>>)
                         \o Tail(stack)
    /\ UNCHANGED <<shared, exception, scheduled, queued, late>>

SecondRunSoon ==
    /\ At("resume")
    /\ ready' = Append(ready, Entry("resume", Head(stack).who))
    /\ stack' = <<Fn("runSoon")>> \o Tail(stack)
    /\ UNCHANGED <<shared, tasks, executor, parent, exception, scheduled, queued, late>>

----------------------------------------------------------------------------
(* The executor.                                                           *)

Running == OnStack({"captured", "drain"})

\* runSoon(), called from an event loop or from within any executor.
RunSoonRuns ==
    /\ At("runSoon")
    /\ IF Running THEN stack' = Tail(stack) /\ UNCHANGED scheduled
       ELSE stack' = <<Fn("drain")>> \o Tail(stack) /\ scheduled' = FALSE
    /\ UNCHANGED <<shared, tasks, executor, parent, exception, ready, queued, late>>

RunSoonDefers ==
    /\ At("runSoon") /\ ~Running /\ ~scheduled /\ queued < MaxQueued
    /\ stack' = Tail(stack)
    /\ scheduled' = TRUE /\ queued' = queued + 1
    /\ UNCHANGED <<shared, tasks, executor, parent, exception, ready, late>>

\* The other executor comes to the call of runOnce().
RunOnce ==
    /\ over = "no" /\ queued > 0 /\ stack = <<>>
    /\ queued' = queued - 1
    /\ scheduled' = FALSE
    /\ stack' = <<Fn("drain")>>
    /\ UNCHANGED <<shared, tasks, executor, parent, exception, ready, late>>

Busy(list) == <<[Head(stack) EXCEPT !.busy = TRUE, !.list = list]>> \o Tail(stack)
Takes(fn) == At(fn) /\ ~Head(stack).busy

\* The next of the captured tasks: BasePromise::cancel().
AskTask ==
    /\ Takes("captured")
    /\ \E t \in Head(stack).list :
           /\ tasks' = [tasks EXCEPT ![t] = IF @ = "alive" THEN "asked" ELSE @]
           /\ stack' = Busy(Head(stack).list \ {t})
    /\ UNCHANGED <<shared, executor, parent, exception, ready, scheduled, queued, late>>

\* The next of the executor's own list.
TakesEntry(do) ==
    /\ Takes("drain") /\ ready # <<>> /\ Head(ready).do = do
    /\ ready' = Tail(ready)
    /\ UNCHANGED <<executor, parent, scheduled, queued, late, below, calls>>

DestroyFrame ==
    /\ TakesEntry("destroy")
    /\ tasks' = [tasks EXCEPT ![Head(ready).to] = "no"]
    /\ stack' = Busy({})
    /\ UNCHANGED <<above, over, exception>>

\* asyncClose() has no one to give an exception to, either.
ResumeParent ==
    /\ TakesEntry("resume")
    /\ LET h == Head(ready).to
       IN  /\ above' = [p \in Joiners |-> IF p = h THEN Resumed(above[p]) ELSE above[p]]
           /\ over' = IF h = Closure /\ exception # "request" THEN "terminated" ELSE over
    /\ stack' = Busy({})
    /\ UNCHANGED <<tasks, exception>>

CancelToClose ==
    /\ TakesEntry("cancel")
    /\ CancelFrom(Busy({}))
    /\ UNCHANGED <<above, over, tasks>>

EntryEnds ==
    /\ over = "no" /\ stack # <<>> /\ Head(stack).busy
    /\ stack' = [stack EXCEPT ![1].busy = FALSE]
    /\ UNCHANGED <<shared, tasks, executor, parent, exception, ready, scheduled,
                   queued, late>>

\* drain() returns.
Drained ==
    /\ \/ Takes("captured") /\ Head(stack).list = {}
       \/ Takes("drain") /\ ready = <<>>
    /\ stack' = Tail(stack)
    /\ UNCHANGED <<shared, tasks, executor, parent, exception, ready, scheduled,
                   queued, late>>

----------------------------------------------------------------------------
(* join().                                                                 *)

\* A joiner that does not wait for a call of the nursery to return,
GoesFrom(p) == \A f \in Range(stack) : f.fn = "earlyCancel" => f.who # p

\* or comes when the nursery is not being closed.
Joins(p) == Free /\ ~Closing /\ GoesFrom(p)

Ready(p) ==
    /\ Joins(p) /\ above[p].state \in BeforeSuspend
    /\ Calls(p, ReadyReturned(above[p], ~executor))
    /\ UNCHANGED <<below, calls, over, tasks, executor, parent, exception, ready,
                   stack, scheduled, queued, late>>

\* await_early_cancel() cancels the nursery, before it has a parent.
EarlyCancel(p) ==
    /\ Joins(p) /\ Legal(EarlyCancelReturned(above[p], FALSE))
    /\ CancelFrom(<<Frame("earlyCancel", p, {})>> \o stack)
    /\ UNCHANGED <<shared, tasks, executor, parent, ready, scheduled, queued, late>>

EarlyCancelReturns ==
    /\ At("earlyCancel")
    /\ above' = [above EXCEPT ![Head(stack).who] = EarlyCancelReturned(@, FALSE)]
    /\ stack' = Tail(stack)
    /\ UNCHANGED <<below, calls, over, tasks, executor, parent, exception, ready,
                   scheduled, queued, late>>

\* await_suspend(), by one parent at a time, as it asserts.
Suspend(p) ==
    /\ Joins(p) /\ executor /\ parent = Nobody
    /\ LET c == AboutToSuspend(AboutToSetExecutor(ReadyReturned(above[p], FALSE)))
       IN  Calls(p, IF Living = {} /\ Legal(c) THEN Resumed(c) ELSE c)
    /\ IF Living = {} THEN executor' = FALSE /\ UNCHANGED parent
       ELSE parent' = p /\ UNCHANGED executor
    /\ UNCHANGED <<below, calls, over, tasks, exception, ready, stack, scheduled,
                   queued, late>>

\* await_cancel(), which returns false.
Cancel(p) ==
    /\ Free /\ GoesFrom(p)
    /\ Calls(p, AboutToCancel(above[p]))
    /\ CancelFrom(stack)
    /\ UNCHANGED <<below, calls, over, tasks, executor, parent, ready, scheduled,
                   queued, late>>

MustResume(p) ==
    /\ GoesFrom(p)
    /\ Calls(p, MustResumeReturned(above[p], exception # "request"))
    /\ UNCHANGED <<below, calls, over, tasks, executor, parent, exception, ready,
                   stack, scheduled, queued, late>>

Resume(p) ==
    /\ GoesFrom(p)
    /\ Calls(p, AboutToResume(above[p]))
    /\ UNCHANGED <<below, calls, over, tasks, executor, parent, exception, ready,
                   stack, scheduled, queued, late>>

Destroy(p) ==
    /\ GoesFrom(p) /\ above[p] # Fresh /\ Calls(p, Reset(above[p]))
    /\ UNCHANGED <<below, calls, over, tasks, executor, parent, exception, ready,
                   stack, scheduled, queued, late>>

----------------------------------------------------------------------------
(* The program closes the nursery.                                         *)

CancelAll ==
    /\ Free
    /\ CancelFrom(stack)
    /\ UNCHANGED <<shared, tasks, executor, parent, ready, scheduled, queued, late>>

\* asyncClose(), of a nursery that nobody has joined.
AsyncClose ==
    /\ Free /\ ~Closing /\ parent = Nobody
    /\ IF Living = {}
       THEN executor' = FALSE /\ UNCHANGED <<parent, exception, stack>>
       ELSE parent' = Closure /\ CancelFrom(stack) /\ UNCHANGED executor
    /\ UNCHANGED <<shared, tasks, ready, scheduled, queued, late>>

\* Somebody waits for the nursery, or is about to.
Awaited ==
    \/ parent # Nobody \/ OnStack({"resume", "earlyCancel"})
    \/ \E e \in Range(ready) : e.do = "resume"
    \/ \E p \in Joiners : above[p] # Fresh /\ above[p].state \notin {"Done", "Cancelled"}

\* close(), alone ("close"), of a nursery that is open, or in the destructor
\* ("destroy").
Close(how) ==
    /\ Free /\ ~Closing
    /\ Asking => "closesWithin" \in Liberties
    /\ how = "close" => executor
    /\ how = "destroy" => ~Awaited /\ (queued > 0 => "goesEarly" \in Liberties)
    /\ ready' = IF Living = {} THEN ready ELSE Append(ready, Entry("cancel", Nobody))
    /\ stack' = <<Fn("drain"), Fn(how)>> \o stack
    /\ UNCHANGED <<shared, tasks, executor, parent, exception, scheduled, queued, late>>

\* assertEmpty(), and what is left to do.
CloseReturns(how) ==
    /\ At(how)
    /\ over' = IF Living # {} THEN "dangling" ELSE IF how = "destroy" THEN "destroyed"
               ELSE over
    /\ executor' = FALSE
    /\ stack' = Tail(stack)
    /\ UNCHANGED <<above, below, calls, tasks, parent, exception, ready, scheduled,
                   queued, late>>

Next ==
    \/ \E t \in Tasks : Start(t) \/ Returns(t) \/ Throws(t) \/ ThrowsAtNobody(t)
    \/ \E p \in Joiners : Ready(p) \/ EarlyCancel(p) \/ Suspend(p)
         \/ Cancel(p) \/ MustResume(p) \/ Resume(p) \/ Destroy(p)
    \/ \E how \in {"close", "destroy"} : Close(how) \/ CloseReturns(how)
    \/ CancelAll \/ AsyncClose
    \/ Continuation \/ SecondRunSoon \/ RunSoonRuns \/ RunSoonDefers \/ RunOnce
    \/ AskTask \/ DestroyFrame \/ ResumeParent \/ CancelToClose \/ EntryEnds
    \/ Drained \/ EarlyCancelReturns

\* Calls return, the executors run what they have on their lists, joiners that
\* are resumed go on, and a task that was asked to end does.
CallsReturn ==
    \/ Continuation \/ SecondRunSoon \/ RunSoonRuns \/ RunOnce
    \/ AskTask \/ DestroyFrame \/ ResumeParent \/ CancelToClose \/ EntryEnds
    \/ Drained \/ EarlyCancelReturns
    \/ \E how \in {"close", "destroy"} : CloseReturns(how)
GoesOn(p) == MustResume(p) \/ Resume(p)
OperationEnds == \E t \in Tasks : tasks[t] = "asked" /\ Returns(t)

Fairness == /\ WF_vars(CallsReturn) /\ WF_vars(OperationEnds)
            /\ \A p \in Joiners : WF_vars(GoesOn(p))

Spec == Init /\ [][Next]_vars /\ Fairness

----------------------------------------------------------------------------
Comes(h) == \/ parent = h /\ Living # {}
            \/ Entry("resume", h) \in Range(ready)
            \/ Frame("resume", h, {}) \in Range(stack)

\* Whoever joined is resumed by the last task, and what is on the executor's
\* list is about to run; once the nursery is cancelled every task of it was
\* asked to end or is about to be.
JoinerWoken ==
    over = "no" =>
        /\ \A p \in Joiners : Pending(above[p]) => Comes(p)
        /\ parent # Nobody => Comes(parent)
        /\ ready # <<>> => Running \/ queued > 0 \/ OnStack({"runSoon"})
        /\ exception # "none" =>
              \A t \in Tasks : tasks[t] = "alive" =>
                  \E f \in Range(stack) : t \in f.list

\* A closed nursery is empty; who waited for it goes on when all frames are
\* destroyed; no frame is destroyed that is still to be asked; close() gives up
\* on a task only after asking it; and when the nursery is destroyed nothing
\* of it is left, nor on the list of another executor.
ClosedEmpty ==
    /\ over \in {"no", "destroyed"} => (executor \/ Living = {})
    /\ \A i, j \in DOMAIN ready :
          ready[i].do = "resume" /\ ready[j].do = "destroy" => j < i
    /\ \A f \in Range(stack) : \A t \in f.list : tasks[t] # "no"
    /\ over = "dangling" => \A t \in Tasks : tasks[t] # "alive"
    /\ over = "destroyed" =>
          ready = <<>> /\ queued = 0 /\ \A t \in Tasks : tasks[t] = "no"

----------------------------------------------------------------------------
(* Why: the invariant that holds them all, by induction (FamilyProofs), of *)
(* a program that takes no liberty.                                        *)

\* What may be called when s is the stack.  While tasks are being asked to end
\* nothing drains the executor, which would destroy them, and the nursery is
\* not closed; runSoon() follows the asking, and close() the draining; and no
\* task, joiner or parent is served twice at a time.
MayCall(f, s) ==
    /\ f.list # {} => f.fn = "captured"
    /\ f.busy => f.fn \in {"captured", "drain"}
    /\ f.fn = "captured" => s # <<>> /\ Head(s).fn = "runSoon"
    /\ f.fn \in {"drain", "close", "destroy"} => \A g \in Range(s) : g.fn # "captured"
    /\ s # <<>> /\ Head(s).fn \in {"close", "destroy"} => f.fn = "drain"
    /\ f.fn \in {"continuation", "earlyCancel"} =>
          \A g \in Range(s) : g.fn = f.fn => g.who # f.who
    /\ f.fn = "resume" => \A g \in Range(s) : g.fn # "resume"

Stacked(s) == \A i \in DOMAIN s : MayCall(s[i], SubSeq(s, i + 1, Len(s)))

\* A frame is destroyed once; the parent is resumed once, after all of them.
Listed(q) ==
    \A i, j \in DOMAIN q : i < j =>
        /\ q[i].do = "resume" => q[j].do = "cancel"
        /\ q[i].do = "destroy" => q[j] # q[i]

\* A task that left is on its way to the list, or on it.
TasksLeave(fs, es) ==
    /\ \A f \in fs : f.fn = "continuation" => f.who \in Tasks /\ tasks[f.who] = "leaving"
    /\ \A t \in Tasks : tasks[t] = "ended" <=> Entry("destroy", t) \in es

\* The joiners' checkers are where the nursery's calls find them.
JoinersWait(fs, es) ==
    /\ \A f \in fs : f.fn = "earlyCancel" =>
          f.who \in Joiners /\ above[f.who].state \in {"Initial", "NotReady", "ReadyImmediately"}
    /\ \A p \in Joiners : Pending(above[p]) <=> 
          parent = p \/ Entry("resume", p) \in es \/ Frame("resume", p, {}) \in fs

\* The executor is there while there are tasks, and a parent for as long; once
\* it is gone one of them is resumed.
ExecutorStays(fs, es) ==
    /\ parent # Nobody => Living # {}
    /\ Living # {} => executor
    /\ \A f \in fs : f.fn = "resume" =>
          /\ f = Frame("resume", f.who, {}) /\ f.who \in Joiners \cup {Closure}
          /\ ~executor /\ \A e \in es : e.do # "resume"
    /\ \A e \in es : e.do = "resume" => ~executor

\* What has begun will go on.
GoesOnSoon(fs, es) ==
    /\ es # {} => queued > 0 \/ \E f \in fs : f.fn \in {"captured", "drain", "runSoon"}
    /\ exception # "none" =>
          \A t \in Tasks : tasks[t] = "alive" => \E f \in fs : t \in f.list
    /\ \A f \in fs : f.fn \in {"close", "destroy"} =>
          /\ exception # "none" \/ Living = {} \/ Entry("cancel", Nobody) \in es
          /\ f.fn = "destroy" => queued = 0

Alive ==
    /\ Stacked(stack) /\ Listed(ready)
    /\ TasksLeave(Range(stack), Range(ready)) /\ JoinersWait(Range(stack), Range(ready))
    /\ ExecutorStays(Range(stack), Range(ready)) /\ GoesOnSoon(Range(stack), Range(ready))
    /\ \A f \in Range(stack) : \A t \in f.list : tasks[t] # "no"
    /\ stack # <<>> /\ Head(stack).fn \in {"close", "destroy"} => ready = <<>>

Inv ==
    /\ above \in [Joiners -> Checker] /\ below \in [{} -> Checker]
    /\ \A p \in Joiners : Legal(above[p])
    /\ TypeOK
    /\ over = "no" => Alive
    /\ over # "no" => ClosedEmpty
=============================================================================
