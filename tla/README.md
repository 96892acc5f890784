# corral, modelled in TLA+

The repository is a clone of *corral*, a header-only library for structured
concurrency with C++20 coroutines (`src/corral/corral/*.h` and `detail/`), with a
layer for Qt on top of it (`src/corral/corral/qt/`): an event-loop adapter, timers,
awaitables for signals and for `QIODevice`, and an XMODEM-CRC transfer written
with them (`src/README.md`). There are no tests in the repository; the promises
below come from the comments in the headers and from `concepts.h`.

This directory holds TLA+ modules for the parts where order matters, TLC
configurations that check them on small instances, and proofs that TLAPS checks
for instances of every size. `PROJECT.json` lists the components, the runs, the
source lines of every definition, a mutant for every property (a plausible bug in
the code that the property finds), the hazards and the theorems.

To repeat a run: `tlc -workers 2 -config NurseryContract.cfg
NurseryContract`. To repeat a proof: `tlapm NurseryProofs.tla`.

## 1. Inventory

Everything runs on **one thread**. What interleaves is: tasks, between their
`co_await`s; callbacks of the event loop, when the executor is idle; and
callbacks *inside* calls - an awaitable may resume a handle at once, a resumed
handle may cancel something, and a cancellation may resume something else. The
last kind is where most of the hazards are.

| Component | State | Operations | Interacts with | What is hard | What makes it correct |
|---|---|---|---|---|---|
| `BasePromise`, `Task` (`detail/Promise.h`) | `state_`, `cancelState_`, `awaitee_`, `parent_`, the proxy handle | suspend on an awaitee, resume through the proxy, `cancel`, final suspend, destroy | its parent (a nursery or an awaiting task), the executor | a cancellation before, during and after a suspension; a proxy whose meaning changes when cancelled | run only when ready; cancelled at most once; a cancellation kept until it is delivered |
| `Nursery` (`Nursery.h`) | `tasks_`, `parent_`, `executor_`, `exception_` | `start`, `cancel`, `continuation`, `storeException`, parent awaitable | promises of its tasks, the executor, the opener | tasks that start, end, throw and cancel while the nursery is being cancelled | the opener waits for all frames; no wake-up lost; first exception wins; every task is cancelled |
| `Executor` (`Executor.h`) | `ready_`, `running_`, `scheduled_` | `runSoon`, `schedule`, `drain`, `runOnce`, `capture` | promises, event loops, other executors of the thread | several executors, re-entrant drains | nothing submitted is left when the loop gets the thread back |
| `IntrusiveList` (`detail/`) | `next_` and `prev_` of the objects and of the list | `push_back`, `unlink`, `pop_front`, the move of a list | parking lots, nurseries | unlinking from the middle, during a walk, from a list that was moved | an object is linked once; the ring is that of the list |
| `ParkingLot`, `Event` | `parked_`, `triggered_` | park, `unparkOne`, `unparkAll`, `trigger`, cancel | `Semaphore`, `Channel`, `Value` | a waiter that is resumed inside the loop parks, cancels or wakes others | who waits is linked once; nobody waits for what has happened |
| `Semaphore` | `value_`, parked waiters | `acquire`, `lock`, `release` | executor | a permit released for a waiter that has not run yet; cancelled waiters | permits conserved, no idle permit, first come first served |
| `Queue` (`detail/Queue.h`) | ring buffer | push, pop, grow | `Channel` | wrap, growth while wrapped | FIFO |
| `Channel` | `buf_`, `closed_`, two parking lots | `send`, `receive`, `trySend`, `tryReceive`, `close` | executor, `Queue` | a woken waiter loses the race for what it was woken for | delivered in order and once; nobody stranded; close answers all |
| `Value` | `value_`, parked waiters | `set`, `untilMatches`, `untilChanged` | executor | `set` inside the loop of another `set`, or between the making of an awaitable and its await | who was shown a value does not wait for it; waiters see the value they accepted |
| `anyOf`, `mostOf`, `allOf` (`detail/wait.h`) | `count_`, `exception_`, `parent_`, state of each child | await protocol, `invoke`, `internalCancel` | any awaitables | children that finish inside the loops that start or cancel them | parent told once, when all have finished, with the right outcome |
| `Shared` (`Shared.h`) | `result_`, `parents_`; `state_` of each parent's awaitable | the await protocol of each parent, `invoke`, `cancel` | one operation, several parents | parents that join and leave while the operation starts, ends or is cancelled | one result for all; cancelled only by the last; nobody left asleep |
| `CBPortal` (`CBPortal.h`) | `value_`, `parent_`, `completed_`, the proxy's status | start the legacy operation, callback, cancel, await again | foreign code, the executor | callbacks from inside `initiateFn`, or against a cancellation; a proxy destroyed under its own `await_suspend()` | no call lost; nothing touches what is gone |
| Try blocks (`detail/exception.h`) | `stage_`, `exception_`, `completed_`, `earlyCancel_` | start and end of the try-, catch- and finally-block | tasks of the stages, the lambdas that make them | cancellations before, in and between stages; exceptions that replace each other | the finally-block runs, once, undisturbed; no exception swallowed |
| `Sequence` (`detail/Sequence.h`) | `second_`, `cancelling_` | first stage, `thenFn`, second stage | two awaitables | `thenFn` cancels the task that awaits; exceptions between the stages | the second stage is asked or cancelled, never dropped |
| Adapters (`detail/utility.h`, `utility.h`) | `cancelPending_`; the state of `AwaitableStateChecker` | `noncancellable`, `disposable`, `untilCancelledAnd`, `yield`, awaiting a lambda | their child, their parent | hooks that a class lacks and the library answers for | the protocol of `concepts.h`, on both sides |
| Awaiting a task (`detail/TaskAwaiter.h`) | `promise_`, `result_`; `cancelState_` | await protocol, the body's own awaits | a promise, its parent | cancellations pass from one await to the next | a request to cancel is not lost |
| `Runner` (`run.h`) | `eventLoop_`, the executor | `run` | the event loop, the awaitable | the loop is stopped by somebody else, the awaitable ends before the loop begins | a result is returned only if there is one; the loop is left |
| `UnsafeNursery` (`Nursery.h`) | that of a nursery and of an executor of its own | `join`, `asyncClose`, `close`, the destructor | the program outside of tasks, other executors of the thread | tasks that start, end or close the nursery inside of `close()`; an executor that is destroyed with it | nobody who joined is left waiting; closed means empty; no reference to what is gone |
| XModem (`qt/corralXModem.cpp`) | locals of two coroutines, the line between them | `upload`, `download` | `QIODevice` awaitables, timeouts | losses, damage, late answers, repeated packets | blocks in order and once, true answers, termination |
| Qt timers (`qt/corralqt.*`) | `m_fired`, `m_timer`, `m_awaiting`; each sleeper's flags | sleep, wake, cancel | `QTimer`, its sleepers | many sleepers on one timer, woken inside each other's `await_suspend()` | who sleeps is in the set, and the timer runs |
| `QIODevice` awaitables (`qt/corralqiodevice.*`) | `m_buffer`, `m_awaiter`; the awaiter's flags | read, discard, `readyRead`, cancel | `QIODevice`, the reader | bytes that come between the check and the listening; a read that cannot be cancelled | the reader is heard, and gets what it needs |
| asio operations (`asio.h`) | `ec_`, `doneCB_`, `cancelSig_` | start, `done`, cancel | asio | asio refers to the awaitable and to the signal inside of it | the signal lives while it may be emitted; nobody who is gone is called |
| Qt event loop and signals, default nursery, asio's `io_service` | - | - | Qt, asio | - | not modelled, or as "the event loop" of others |
| concepts, introspection, frames and ABI, pointer bits, macros, build files | none that changes, or compile time | - | - | - | not modelled: no behaviour in time |

`PROJECT.json` (`hazards`) lists what is hard to test, at its line.

## 2. Modules

```
Linked --- Nursery --- NurseryContract --- ScopeContract ---> NurseryScope (abstract)
   |                        |--- NurseryProofs (about both)
   |--- Semaphore - MCSemaphore, ParkingLotProofs
   |--- ValueState --- Value ----- MCValue, ParkingLotProofs
   |--- IntrusiveList (used by Event) - IntrusiveListProofs (about both, used by
   |                                    the proofs of all that use Linked)
Queue --- QueueState ------- Delivers -----> FifoQueue (abstract)
             |--- QueueUse
             |--- Channel - MCChannel, ChannelProofs (about both)
ExecutorsState --- Executors - MCExecutors, ParkingLotProofs
Mux ------- MCMux, MuxProofs
XModem ---- MCXModem, XModemProofs
Awaitable (the protocol)
   |--- Adapters, Sequence, TryBlock, Shared, TaskAwait, CBPortal,
   |    Event, Runner, UnsafeNursery, QtTimer, QIODevice,
   |    AsioAwaitable
   |--- MCAwaitables (all of them, one at a time)
           |--- AwaitableProofs (Adapters, TryBlock, AsioAwaitable, Runner,
           |       |             QIODevice, TaskAwait, CBPortal, Sequence, QtTimer)
           |       |--- FamilyProofs (UnsafeNursery, Event, Shared, and what is
           |                          true of all)
```

Written so far, most important first: `Nursery` (with promises, one executor and
the event loop), `Semaphore`, `Queue`, `Channel`, `Value`, `Executors`, `Mux`,
`XModem`, and the family of `Awaitable`. Abstract specifications: `NurseryScope`,
what a nursery promises its opener; `FifoQueue`, what a queue or a channel
promises; and `Awaitable`, what an awaitable and whoever awaits it promise each
other.

### Nursery: promises, nurseries, the executor

| Model | Code |
|---|---|
| `state[t]` | `BasePromise::state_`; while suspended, the awaitee (a nursery or `Leaf`, any other awaitable) |
| `cancelReq`, `onResume` | `cancelState_`, and which trampoline `proxyHandle()` runs (`doResume`, `doResumeAfterCancel`, neither) |
| `tasks`, `parent`, `executor`, `exception` | the members of `Nursery` of the same names |
| `ready`, `captured` | `*ready_`, and the lists that `Executor::capture()` is running |
| `cpu`, `asked` | the running task; history of `cancel()` |
| `AwaitLeaf`, `EarlyCancel`, `AwaitReadyAnyway` | the ways through `BasePromise::hookAwaitSuspend` and `doSuspend` |
| `OpenNursery(Stub)`, `Start(Stub)`, `CancelNursery`, `Throw`, `Return`, `FinalSuspend` | `CORRAL_WITH_NURSERY`, `Nursery::start`, `cancel`, `storeException`, `continuation` |
| `Wake`, `CancelRoot` | an event-loop callback, or another task, resumes a leaf; the root's parent cancels |
| `CancelPending`, `CancelLeaf...`, `CancelNested` | `BasePromise::cancel` in each state, called from the captured list |
| `RunTask`, `RunDestroy`, `RunParent` | the three callbacks a nursery and its tasks put on the ready list |

A frame that was destroyed gives its name back, so that the number of tasks ever
started is not bounded: only those alive at a time are. A leaf answers whatever
`concepts.h` allows it to.

### Executors

Several executors of one thread (`corral::run` inside `corral::run`, or
`UnsafeNursery`), tied to one event loop or to different ones. `frames` is the
stack of `drain()` calls; `Submit` is `runSoon`, `Drain` is the re-entrant drain of
`UnsafeNursery::close`, `BeginRunOnce` the deferred call to another executor.
`Nursery` has one executor and models `capture()` instead.

### Semaphore, Queue, Channel, Value

Each has its members as variables and an action per call and per resumption. All
share one idea: `unparkOne()` does not run the waiter, it puts it on the ready
list (`woken`, `resumed`), and its `await_resume()` runs later. `Queue` keeps the
ring buffer's two indices and its cells; `QueueState` says what a queue promises
(`Delivers`); `QueueUse` is a program that uses one, `Channel` another.
In `Semaphore`, `Barging` says whether other tasks may acquire in between: a
property that fails with it and holds without names what is at stake. In `Value`
the loop of a `set()` called by the event loop is one step per waiter, because a
waiter resumed from the loop runs at once and may call `set()` again. A task makes
an awaitable (`Make`) and awaits it (`AwaitReady`, `Suspend`) in two steps, since
`untilMatches()` looks at the value when the awaitable is constructed
(`Value.h:142`) and not when it is awaited: a `set()` may come in between.

### Mux

One `await` of an `anyOf`, `mostOf` or `allOf`. The state is that of `MuxBase`
and of each `MuxHelper`, and the C++ stack of the loops and calls in progress: a
child may complete, or the parent cancel, inside any call to a child. Children
answer whatever `concepts.h` allows; which of them are ready at first and which
can be skipped is chosen at the start.

### XModem

`upload()` and `download()` as two state machines over two byte streams that may
lose or damage what they carry. A packet is its `SOH` and the 132 bytes that
follow, so that losing `SOH` makes the reader take the body for commands, as in
the code, where `read(132)` then joins what follows. Data functions may fail.

### Awaitable and the classes that keep its protocol

`concepts.h` says in words, and `AwaitableStateChecker` of `detail/utility.h` in
assertions, in which order the hooks of an awaitable may be called and what they
may answer. `Awaitable` is that automaton; `"Broken"` is the state after a failed
assertion. A class stands between parents, which await it (`above`, a checker for
each), and children, which it awaits (`below`). Both sides are *free*: each does
anything the automaton allows, except for the liberties named below - a child is ready or not, throws, resumes the
handle inside a call or later, refuses a cancellation or not; a parent cancels
before, during and after a suspension. `ProtocolKept` says that the class then
breaks no assertion of either side. Since what a class may assume of its
children is what it owes its parents, the classes keep the protocol when they are
nested, but for the liberties below, which a class may take towards another. `calls` is the C++ stack of calls into foreign code in progress: what
happens while it is not empty happens inside those calls. `over` says that the
awaitable was destroyed, or that an exception has ended the program, which is
legal where the code says `noexcept`.

| Module | State | Actions and their code |
|---|---|---|
| `Adapters` | `kind`, the class; `cancelPending` | the hooks of `AwaitableAdapter` and of each class; a hook a class lacks is answered as `awaitEarlyCancel()`, `awaitCancel()`, `awaitMustResume()` do |
| `Sequence` | `stage` (what the variant `second_` holds), `cancelling` | `Suspend`, `FirstResumes` and `ThenFn...` are `kickOffSecond()` up to and after the call of `thenFn` |
| `TryBlock` | `stage`, `earlyCancel`, `completed`, `exception`; `ended` is history | `Lambda...` and `TaskEnds` are the ends of a stage, with `storeException`, `storeSuccess`, `continuation`; a task is its promise, so its checker is only running, cancelling or done |
| `Shared` | `result`, `parents`, `attached`; `waking` is the list local to `invoke()`; `got` is history | `Arrive...` is what a parent does in one go; `ChildResumes` and `Wake` are `invoke()` |
| `TaskAwait` | `state`, `cancelState`, `resumeFn`, `promise`, `outcome` | above, `TaskAwaiter`; below, `hookAwaitReady` and the rest of `BasePromise`, one await of the body after the other (`CoAwait`) |
| `CBPortal` | `status`, `value`, `parent`, `completed`, `callable` | `Callback`, and the hooks of `CBPortalProxy` and `CBPortal`; whether the portal is the user's own and whether there is a `cancelFn` is `owner` |
| `Event` | `triggered`; `links`, the pointers of those who wait and of the lists: list 0 is `parked_`, list *n* the one local to the *n*-th call of `unparkAll()` in progress, of which there are `depth`; `lists` is what they hold | `UnparkOne`, `UnparkAll` (with `trigger()`), `Wake`, and the hooks, on the pointer operations of `IntrusiveList` |
| `Runner` | `at`, `eventLoop`, `stopSoon` | the steps of `run()`; the child may end in any of them |
| `UnsafeNursery` | `tasks`, `executor`, `parent`, `exception` of the nursery; `ready`, `scheduled` of its executor, and `queued`, the calls of `runOnce()` on the lists of other executors; `stack`, the calls of both in progress, innermost first | `Start`, `Returns`, `Throws` are `addTask()`, the beginning of `continuation()`, `storeException()`; `AskTask`, `TakesEntry` and `EntryEnds` are a turn of `drain()`, within which the program runs freely; `Close` is `close()` or the destructor |
| `QtTimer` | `m_...` of `TimerInstance` and `Awaiter`; the delay and whether it has passed | `SuspendTooLate`, `Timeout`, `Wake` are `start()` and `fired()` |
| `AsioAwaitable` | `ec`, `signal`, `doneCB`: the error code, and whether signal and callback are alive | the hooks, `SuspendThrows` for an initiation that throws, `Done` for `done()` |
| `QIODevice` | sizes of `m_buffer` and of what is unread; `m_...` of the awaiter | `Arrive` is `newData()`; the hooks of both awaiters |

A **liberty** is something a party may do, by the documentation or because it is
possible, against which the class is not safe. `Shared`, `QIODevice`, `Runner`,
`UnsafeNursery` and `AsioAwaitable` have a constant `Liberties`, as has
`MCAwaitables`, which hands it to them: with none, the properties hold; with any of
them, TLC finds the violation (section 5). That way the rest of the class is checked
and the gap has a name. What the runs of `MCAwaitables` and the theorems about it
say is said of parties that take no liberty; the theorems assume `Liberties = {}`. Two more assumptions are comments at their actions: that
a child does not throw from `await_suspend()` after it was cancelled inside of it
(`TaskAwait`), and that a task woken by `start()` does not cancel the one that
called it (`QtTimer`).

`IntrusiveList` has the rings of pointers, and `Agree`, which says that they are
the rings of given sequences. `Linked` has those sequences, as all other modules
use them.

`MCAwaitables` instantiates all twelve with the same variables, chooses one at the
start, and states once what all of them owe; what a class must satisfy for
`NoWakeUpLost`, `CleanupRuns` or `SharedAgreed` is a formula of its module.

## 3. Runs

"States" are distinct states; every run takes well below five minutes.

| Run | Instance | Question and result |
|---|---|---|
| `nursery` | 4 tasks, 2 nurseries, 54,828 states | The opener waits for every frame (`StructuredConcurrency`); its wake-up is not lost (`ParentIsWoken`); the ready list is exact; a cancelled nursery cancels each of its tasks, once and for a reason; the first exception and the parent's outcome; a cancelled nursery is left in the end; each nursery implements `NurseryScope`. All hold. |
| `executors` | 3 executors, 2 event loops, 3 entries, depth 3, 19,917 states | Nothing submitted is left behind; `scheduled_` stands for a queued call; everything submitted runs. Hold. |
| `semaphore_lock` | 5 tasks, 2 permits, 451 states | Permits conserved, none idle while somebody waits, oldest first, everybody served. Hold when nobody acquires between a wake-up and the waiter's turn. |
| `semaphore_barging` | 3 tasks, 1 permit | **Violated**: see findings. |
| `queue_fifo` | capacities 0, 1, 3, 8; up to 9 objects, 20,505 states | The ring buffer implements `FifoQueue`, wherever it wraps and grows. Holds. |
| `channel` | 3 tasks, capacities unbounded, 1, 2, 25,923 states | No reader sleeps beside an object and no writer beside space that nobody is on the way to take; delivery in order and once; `close()` answers all. Hold. |
| `value` | 3 tasks, 3 values, waits for values and transitions, 1,443,168 states | Who was shown the value that the variable has, by the constructor of the awaitable or by a `set()`, is not parked for it (`NoWaiterForgotten`); waiters get what they accepted; the loop of `set()` ends. Hold. |
| `mux` | 3 children, all three classes, all mixtures, 310,975 states | The parent is told once, when all children have finished (unless one was counted twice), with the right result or exception; the await ends. Hold. |
| `mux_rest` | the same | **Violated**: see findings. |
| `xmodem` | files of 0-4 blocks, sequence numbers modulo 2, 3 troubles, 47,214 states | In order, true answers, success without trouble, termination. Hold. |
| `awaitables` | twelve classes, 159,122 states | Each class keeps the protocol towards both sides (`ProtocolKept`); whoever waits can be woken and no request to cancel is lost (`NoWakeUpLost`); finally-blocks and what `untilCancelledAnd()` and `noncancellable()` guard run once and undisturbed, and a closed `UnsafeNursery` has no frame left, its joiner going on last (`CleanupRuns`); the parents of a `Shared` agree (`SharedAgreed`); who is cancelled comes to an end (`CancelledEnds`). All hold. |
| `shared_early` | 1 parent, liberty `early` | **Violated**: see findings. |

### Bounds, and why they are enough

- *Nursery*: 4 tasks are the root, an opener and two siblings, or a chain of
  nested nurseries; two nurseries may be nested in each other or side by side.
  The theorems do not depend on these numbers.
- *Executors*: `MaxReady` and `MaxDepth` bound the lists and the nesting; depth 3
  includes an executor that is drained re-entrantly through another.
- *Semaphore*: more waiters than permits, twice over; `Modulus` stands for
  `2^64` and is larger than everything counted, as the assumption demands.
- *Queue*: `MaxSize` 9 makes the buffer grow 0-8-16 and from 1, 3 and 8, at every
  rotation. Objects are 1 and 2: a swap or a loss shows.
- *Channel*: two waiters on one half and one on the other; an unbounded channel
  keeps at most `MaxSize` objects.
- *Value*: three tasks, one per kind of wait, or several of one kind; two that
  wait and one that assigns, inside the loop of a `set()` or before it awaits.
- *Mux*: three children: one that finishes, one before it and one after it in
  the loops. Two would not have both.
- *XModem*: modulo 2 is the hardest case, since only neighbours must be told
  apart; 4 blocks pass the wrap twice; three troubles include a damaged packet
  whose repetition is damaged, and a lost answer after it. `MaxCalls` is the
  number of NCGs that fit into ten seconds (20 in the code).

- *Awaitables*: three parents of a `Shared` or an `Event` and three sleepers of a
  timer are one in the middle of a list, with both neighbours; the others have
  one parent, as in the code. A task awaits three times: the request to cancel
  must pass from one await to the next and to a third. `Chunk` 2 stands for the
  128 bytes that `check()` reads at a time, `Needs` are less than a chunk, more
  than one, and (9, more than ever comes) `discard()`. A loop of `unparkAll()` is
  nested as deep as there are parents. An `UnsafeNursery` has two tasks, one that
  runs while the other starts, ends or closes the nursery, and one joiner; run by
  itself, with two joiners, it has 412,139 states and the properties hold.
  `MaxQueued` 2 is enough for a call of `runOnce()` that comes when another has done
  its work, and `MaxLate` 1 for a task that starts when all others were asked.

`CHECK_DEADLOCK FALSE` is given for `Mux` and `XModem`, which model one await and
one transfer, and for the awaitables, which are destroyed: they end. In `Nursery` the end is an explicit `Finished`.

### Fairness

One thread runs, so whatever it has begun goes on: weak fairness of the task on
the CPU, of the executor's entries and of the loops in progress. What the program
decides (to start, to cancel, to assign) has none. In addition:

- `Nursery`: strong fairness of `GiveUp`, that a cancelled leaf ends if its task
  keeps asking; `concepts.h` demands that an awaitee that accepts cancellation
  completes. The liveness property excludes programs that keep the executor busy
  or keep starting tasks, against which `Executor.h` warns.
- `Semaphore`: locks are released in the end (what `Served` needs). `Channel`:
  only the executor is fair; nobody has to send or to receive.
- `Mux`: a child that is `Cancelling` completes. One that was not asked may run
  for ever, and then nothing is promised.
- `XModem`: both ends run, because every wait of theirs has a timer.
- *Awaitables*: calls into foreign code return (`CallsReturn`), a parent whose
  handle was resumed goes on (`GoesOn`), and an operation that was asked to end,
  or that cannot be asked (under `noncancellable()` or `untilCancelledAnd()`, in a
  catch- or finally-block, a portal without a cancel function, a timer), ends
  (`OperationEnds`). The latter is what `concepts.h` demands of an awaitable that
  accepts a cancellation, and what the user of the former answers for.
  A task of an `UnsafeNursery` that was asked to end does, and so does an operation
  of asio whose signal was emitted.
  `CancelledEnds` asks nothing of an operation that nobody cancelled. In a try
  block it starts when the cancellation has reached a stage (`CancelHeard`), see
  section 5.

## 4. Proofs

The theorems hold for every value of the constants that satisfies the
assumptions next to their declarations: names of tasks, nurseries and other
values differ (`NurseryAssumption`, `ExecutorsAssumption`), and the modulus of
XModem is at least 2, 256 in the code (`XModemAssumption`); who closes an
`UnsafeNursery` and nobody are not among its joiners, and its bounds are natural
numbers (`ConstantsAssumption`).

**NurseryProofs.** `TypeCorrect`, `Structured` (`StructuredConcurrency`),
`NoWakeUpLost` (`ParentIsWoken`), `ReadyExact` (`ReadyListExact`),
`FirstExceptionKept` (`FirstExceptionWins`), `OutcomeDelivered` (`ParentOutcome`),
`CancelJustified` (`CancelHasReason`), `CancelReaches` (`CancelReachesAll`),
`CancelOnce` (`CancelledOnce`), and `NurseryKeepsContract` (`ScopeContract`). The
inductive invariant is

    IndInv == TypeInv /\ Structure

`StructuredConcurrency` says that a frame's nursery is awaited, which is not
inductive: when the last frame goes and the opener runs one must know that no
task is left. So `Structure` says for each nursery whether it is open
(`OpenNurseries`), that no two tasks open one (`OneOpener`), that `tasks_` links
the living tasks of the nursery and only these (`ListsSound`, `ListsComplete`);
and for the ready list that its entries are distinct, each there for the state of
its task, with the frames of a nursery's tasks destroyed before its parent is
resumed (`ReadySound`), and that each state that needs an entry has one
(`ReadyComplete`). The last point is the order in which `continuation()`
schedules. There is a lemma per action, on top of lemmas about `Unlink`
(`IntrusiveListProofs`) and about a ready list that grows at its end and shrinks at its
head (`Appended`, `Popped`).

What is said of cancellation needs a second invariant on top of that one,

    CancelInv == OnceIn(captured) /\ \A t \in Task : TaskCancel(t)

`CancelReachesAll` is about the moments when no captured list is left, so it
says nothing of what happens while `doCancel()` walks. `Reached` does: a task of a
cancelled nursery is being cancelled, or is in a captured list of any depth.
A task that takes an answer of its own out of that must have been asked before;
so a request that is kept, or a trampoline that waits for the confirmation, comes
from `cancel()` (`Justified`), which is called in a cancelled nursery only
(`AskedSound`), and no task waits while it keeps a request back
(`NothingHeldBack`). That `cancel()` is called once needs that the lists name
nobody twice, neither in one list nor in two (`OnceIn`), and nobody who has
ended or was asked (`CapturedSound`): a task that ends leaves its list, and a
nursery that is cancelled again does not capture again. `Apart` and its lemma
carry all of it over the steps that are not about a task; the rest is a lemma per
action. The action properties follow from both invariants, by a case for
every action.

`ScopeContract` says the same to somebody who sees only one nursery, from outside:
whether it is awaited, which of its tasks are alive, which frames are left and what
it has stored (`Seen`, `SeenDone`). The refinement is proved step by step
(`ContractStep`), and most steps are seen as nothing (`NothingSeen`). The others take
what the code does not check from the invariant: whoever opens the nursery
finds it without tasks and frames (`Deserted`, from `StructuredConcurrency`); one
that takes a new task has one that is alive (`StartSeen`, since it has an executor
exactly while it has tasks); the frame that is destroyed is of a task that has
finished (`DestroySeen`); and when the opener is resumed no task and no frame is left
(`LeaveSeen`): the lists name all living tasks, and the entry that resumes the opener
is behind those that destroy the frames. `RootOutside`, that the root task is in no
nursery, is what `IndInv` has to be extended with.

**ParkingLotProofs, of Executors.** `ExecutorsTyped`, `CallsQueued` (`ScheduledIsQueued`),
`AllDrained` (`NothingLeftBehind`), for any number of executors. The invariant
adds that an executor with entries runs or is scheduled (`Covered`); with
`ScheduledIsQueued` it follows that nothing is left when no `drain()` is on the
stack. The bounds of the run, `MaxReady` and `MaxDepth`, may be any numbers.

**XModemProofs.** `TransferTyped`, `TransferInOrder` (`InOrder`), `TransferTruthful`
(`AnswersAreTrue`) and `CleanTransfer` (`CleanSucceeds`), for files of any length and any number of
troubles. `InOrder` alone is not inductive, for a repeated packet could be taken
for the next one. The invariant says: the two ends are at most one block apart
(`InStep`); an ACK on its way is the only one, and means that `download()` is one
ahead, or done (`ACKs`); the bodies on their way are in order and between the
block before the one that is expected and the one last sent (`Bodies`); EOT is on
its way only after the last block was acknowledged (`Ending`). Then a body that
passes the check of the sequence number is the expected one, since neighbours
differ modulo anything but 1 (`NextDiffers`). Losing and damaging messages, and
reading over them, is one notion (`Thins`) with one lemma (`Thinned`). `CleanSucceeds` has
an invariant of its own: until there is trouble the two ends take turns, in nine
situations that each say where the ends are and the one message on its way
(`TakesTurns`), from `Unheard` over `BlockSent`, `BlockBegun` and `BlockTaken` for each
block to `BothDone`. The end whose turn it is not does nothing, for a timer that
expires then is trouble (`UpIdle`, `DownIdle`), and there is a lemma for the one step
out of each situation.

**ParkingLotProofs.** `PermitsKept` (`Permits`), `PermitsUsed` (`NoIdlePermit`) and
`ServedInOrder` (`FirstComeFirstServed`), for any number of tasks and permits
below the modulus (`SemaphoreAssumption`), and for programs in which nobody acquires between the wake-up of a waiter and its
turn (`~Barging`); without that they are false, as `semaphore_barging` shows. The
invariant adds to the sum of permits and holders that no task is on a list
twice, on both, or on one while it holds (`LineSound`), and that there is a
permit for everybody who is woken and none besides while somebody is parked
(`PermitsOnTheWay`): that is why a woken waiter never decrements zero, so that
`value` never wraps, although `await_resume()` does not look at it again. The
order of the line is an action property: unlinking somebody keeps the order of
the others (`UnlinkOrder`), so that nobody passes anybody in a step (`NobodyPasses`);
and since a permit at hand means that nobody is parked, a permit is taken by the
first in line or by somebody who finds no line (`FirstIsServed`).

In the same module, for any tasks, values and predicates (`ValueAssumption`):
`NobodyIsForgotten` (`NoWaiterForgotten`), `AcceptedIsYielded` (`YieldedMatches`) and
`ValueTypeCorrect`. `NoWaiterForgotten` is about those who were shown the value that
the variable has. A history variable, `missed`, names the others: who has made an
awaitable before the latest assignment and not awaited it yet, and who is on the
list of an outside `set()` that tells of a value assigned before. The invariant says
of all but these what keeps them from being forgotten (`OthersWanted`): whoever is
parked waits for another value, the list of a `set()` under way tells of the
value the variable has, and an awaitable that is not ready does not accept it. The
result of one that is ready is what it accepts (`MadeSound`), so that `YieldedMatches`
holds without a look at what has been assigned since. That needs to know that a waiter is on one of
the two lists and once (`WaitersSound`), and that who runs is not also due to run,
which TLC could not miss and the proof did: the type invariant does not say it. The
waiters that a `set()` by a task picks out of the list are named by `Sublist` of
`Linked`, in place of `SelectSeq`, of which the provers know nothing; `SublistItems`
says of it what they need, from the number of those picked before each.

**ChannelProofs.** First the buffer: `QueueIsFifo` (`Delivers`): from any
capacity at first (`QueueUseAssumption`), every sequence of pushes and pops of the
ring buffer is one of a sequence, whose head is what is popped. The invariant is
`Valid`, of `Queue`: the cells from the head on, as many as `size`, hold objects and
the others are blank, and the tail is where they end. The proof rests on `Cell`,
that goes once around the buffer (`Cells`, `NextCell`), and says for pop, push and
growth what becomes of the contents: `Tail`, `Append`, the same.

Then the channel: `ChannelTypes` (`TypeOK`), `ReadersServed` (`NoReaderStranded`),
`WritersServed` (`NoWriterStranded`) and `ChannelDelivers` (`Delivers`), for any tasks,
objects and capacities (`ChannelAssumption`), whatever the bound of an unbounded
channel. `NoReaderStranded` compares the objects with the receivers that are on
their way. It is not inductive: if one task could be woken twice, the set of
those on their way would have one element for two turns. So the invariant says
that a task waits at one place at most (`OneWait`: each list has one waiter per
task, and no two lists share a task), and that who waits to send does so in
a bounded channel (`NoSpareSpace`). A turn of a woken task is `tryReceive()` or
`trySend()` with one taker or filler less; `NoSpareObject` and `NoSpareSpace`
therefore have the executor's list and the object or space that is spare for that
moment as parameters, and `TryReceiveInd` and `TrySendInd` serve the call from
outside, the first try and the turn alike. That each such step wakes the oldest
of the other half makes up for what it takes (`CountedMore`, `CountedLess`).
`Delivers` is a refinement, step by step: `OneAtATime` says that no step of the
channel does more than one push or one pop, and the lemmas about the buffer do
the rest.

**MuxProofs.** `RestIsFinished` (`FinishedUnlessTwice`), `TaskToldOnce` (`ToldOnce`)
and `ResultsAreTheirs` (`Results`), for any number of awaitables and for each of
`anyOf()`, `mostOf()` and `allOf()`. What makes this hard is that awaitables finish
inside the calls that start and cancel their siblings, so that the loops of the
mux are nested in each other: `stack` is of any length. The invariant says what a
loop knows when it goes on (`Fits`): it is at the child whose call it waits for,
and if it is to answer that all were cancelled then those it has passed are. While
a loop that a report began is in progress that report is not in `count_`; with
those (`InReport`) all reports are counted, and exactly unless a child was counted
twice (`Counting`). Whoever has finished has reported, unless it was cancelled
before the mux was bound (`Unreported`). A child is cancelled for a reason: somebody
has finished or the task has asked (`FirstResult`), and in `mostOf()` and `allOf()` a
child has failed (`NeedAll`), which is what the answers rest on (`Answers`). A
step either reports or does not, and one lemma for each says what it keeps
(`ReportInd`, `QuietInd`); the lemmas of the actions say which it is. `ToldOnce`
needs no exception for a child that was counted twice: then the task is resumed
early, but once.

**IntrusiveListProofs.** First what `Unlink`, `Append` and `Tail` make of a list that
is a sequence, without which no proof about a user of `Linked` goes through
(`UnlinkItems`, `UnlinkDistinct`, `Appended`, `Popped`). Then the pointers: that they
are those of a list is what all modules that use `Linked` take for granted. `Listed` says so, with the types. `Unlinked`,
`PushedBack`, `MovedOver` and `AtFirst` say that every operation keeps it, for any
objects and any number of lists that have different names (`NodesDiffer`), and
`FrontIsHead` that `empty()` and `front()` are right. All rest on `OnePlace` and
`OnePlaceBefore`: a node is at one place of one ring, so that what an operation
assigns is not read elsewhere.

**AwaitableProofs, FamilyProofs.** `AllKeepTheProtocol` (`ProtocolKept`),
`NoWakeUpIsLost` (`NoWakeUpLost`), `CleanupIsDone` (`CleanupRuns`) and
`FamilyTyped` (`TypeOK`) for all twelve classes of `MCAwaitables`,
`OneResultForAll` (`SharedAgreed`) and `WaitersAreLinked` (`WaitersLinked`). The number
of those who share an operation, an event (a finite one, `ConstantsAssumption`), a
timer or a nursery is any, so are how often a task awaits, how many bytes a device
has and how many tasks a nursery, and so is how deep calls are nested within each
other. All but the last assume `Liberties = {}`: they say nothing of parties that take
one, and are false of some. `NoWakeUpIsLost`, for one, says nothing of a read of a
`QIODevice` that cannot be skipped and is cancelled early.

All are proved along one line. `ProtocolKept` says that the class has not broken
the protocol, which no step keeps unless one knows where both sides are; so the
invariant of a class (`Inv`, beside its model) relates the checker of the parent to
those of the children and to the members of the class: *where the parent is, the
children are there and there*. First there are lemmas that say what each call makes
of a checker (`ReadyMoves`, `CancelMoves`, ...), by which every step of every class is
a case analysis over the states in which its guard lets it come. The classes differ
in what must be known besides:

- *Adapters*: each kind has told the child what the parent was told (`Unaware`,
  `Informed`, `Unasked`, `OnCancel`), so that `Shielded` and `RunsOnCancel` are read off.
- *TryBlock*: what the stages before have left (`Stored`), which stage is on its way
  (`UnderWay`) and which calls may be in progress (`Stacks`).
- *Sequence*: which of its stages there is, one of them being that there is none yet
  (`Between`), in which a cancellation is kept for the second.
- *TaskAwait*: which side of the task the promise is waiting for, and that a
  request it has not passed on is in `cancelState_` (`Works`, `Waits`).
- *Shared*: the operation runs exactly while parents wait for it (`OneOperation`), and
  only the last parent takes it along (`CancelUnderWay`); nobody is on two lists.
- *Event*: the lists hold who is suspended, and lists of calls of `unparkAll()` that do
  not exist are empty (`EventWaiting`): then the front of a list is one who waits,
  and resuming it is legal, whoever was unlinked before. That the pointers are
  those of the lists comes from `IntrusiveListProofs`.
- *CBPortal*: who holds the parent's handle, and whether the callback can still be
  called (`Waits`, `Woken`, `PortalAlone`).
- *QtTimer*: the timer runs exactly while somebody sleeps and it has not fired, and
  who is in the set is suspended (`Sleeps`); `fired()` may come from within the
  `await_suspend()` of the very sleeper it is to wake (`Called`).
- *Runner*, *QIODevice*, *AsioAwaitable*: who is told of the end, and that there is still
  someone who does.
- *UnsafeNursery*: the stack of calls, of any depth, and the executor's list. `Stacked`
  says of each frame what may be below it: nothing that drains the executor is
  above a frame that asks tasks to end, which is why no frame on a captured list is
  destroyed; and `close()` is left only from the `drain()` it has called, which is why
  the list is empty then. `Listed` has the order that `continuation()` puts on the list:
  nothing but a cancellation comes behind the one who is resumed, so that all frames
  are destroyed before. A task that has left is on its way to the list or on it
  (`TasksLeave`), who joined is suspended exactly while the nursery, the list or a frame
  has its handle (`JoinersWait`), the nursery lets go of its executor only with its last
  task (`ExecutorStays`), and whatever is on the list, or is to be asked, will be
  (`GoesOnSoon`). The captured tasks of a frame are a set: nothing depends on the
  order in which they are asked.

`TypeOK` is a theorem of all of them because in `Shared` and `Event` it says that nobody
is linked twice.

`TypeCorrect`, `ExecutorsTyped` and `TransferTyped` are proved and therefore not
in the runs' lists of properties, where they would say less.

**Model-checked only.** Every liveness property (`SetTerminates` of `Value` and
`CancelledEnds` of the family among them). Liveness under fairness and `ENABLED`,
induction over data and what `RECURSIVE` operators compute are out of reach of the
prover; no module here declares a `RECURSIVE` operator.

## 5. Findings

1. `mux_rest` - `wait.h:36` says of `anyOf` that the result is returned "once all
   are finished executing". A child whose `await_early_cancel()` succeeds while
   `await_suspend()` is still starting the children (because an earlier child
   finished at once) is counted by `cancel()` (`detail/wait.h:151`) and again by
   `suspend()` (line 132). The count reaches its end one child early, and the
   parent goes on while a child runs.
2. `semaphore_barging` - `Semaphore.h:47` says `acquire()` suspends "if it is
   currently zero". A task that acquires between a release and the woken
   waiter's turn takes the permit, and the waiter then decrements zero.
3. `shared_early` - the first parent of a `Shared` is cancelled before it suspends,
   and the operation refuses to be skipped, as a task does: `earlyCancel()` sets
   `result_` to `CancelPending` (`Shared.h:200`), and `ready()`, which compares with
   `Incomplete` only (line 189), then says yes to every parent. The operation is
   never started and is asked for its result. The comments at lines 359-361 say
   that `suspend()` turns `CancelPending` into `Cancelling`, which cannot happen.

Observed without a run of its own; where a definition is named, adding it to a
configuration (or the liberty to `Liberties`) shows the counterexample:

- `Value.h:54` says `untilMatches()` "suspends the caller until the stored value matches
  the predicate (or resumes it immediately if it already does)"
  (`UntilMatchesHolds` of `ValueState`). The predicate is asked when the awaitable is
  constructed (line 142) and at each `set()` that finds it parked, but not when it is
  awaited: in `anyOf(taskThatSets, v.untilMatches(p))` both awaitables are constructed,
  the task sets the value that `p` accepts, and the other child is then parked although
  the value matches. And a waiter that the loop of an outer `set()` parks again misses
  the value that a task assigned meanwhile (line 199). `NoWaiterForgotten` excludes
  these two and nobody else.
- `corralXModem.cpp:78` says a late NCG is ignored (`LateStartSucceeds` of
  `XModem`; `Lengths = {1}`, `MaxTroubles = 1` suffice). It makes `upload()` send
  the block again; the duplicate makes `download()` fail, since `ret` is never set
  again once cleared (line 157).
- `Shared`, liberty `late`: a parent that comes when the operation has ended and
  the parents that were resumed have not run yet asks the operation whether it
  is ready, which is too late to ask; `executor`: a parent that calls
  `await_set_executor()` without suspending reaches the operation even when it has
  ended, since `setExecutor()` looks at `parents_` only. `Shared::operator bool` is
  inverted (`Shared.h:77`).
- `Runner`, liberty `endsLate`: if `CORRAL_FAIL_FOR_DANGLING_TASKS` throws, and the
  awaitable then ends in the `drain()` of the cleanup, the guard returns
  (`run.h:105-108`) without asking `await_must_resume()` and without `abandon()`; the
  assertion of `~AwaitableStateChecker` fails while the exception is on its way.
- `QIODevice`, liberty `earlyRead`: `NonCancellableAwaiter::await_suspend()` of an
  awaiter that was cancelled early and has too few bytes neither listens nor
  resumes: the reader sleeps for ever (`corralqiodevice.h:147`). Liberty `slowRead`:
  after its `await_cancel()` has resumed the reader it still listens, and resumes
  it again when bytes come (lines 160 and 176). `ReadLinesAwaited::m_result` is
  never set.
- `Promise.h:399`: a cancellation that comes while `await_suspend()` of the awaitee
  is on its way is lost if that then throws.
- Try blocks: a cancellation by the very lambda that makes the task of a stage
  finds no task to pass it to, and the stage runs to its end.
- `disposable()` drops its child after a cancellation without asking
  `await_must_resume()`, which is legal only because the wrapped object has no
  checker of its own.
- `CBPortal`: a cancel function that calls the callback synchronously destroys the
  proxy under its `await_cancel()` (`CBPortal.h:519`); `parent_` of an external portal
  stays set if `initiateFn` throws.
- `QtTimer`: a task that `start()` wakes and that cancels the one that is in
  `await_suspend()` makes that one be resumed twice.
- `Channel`: `send()` may answer `false` and `receive()` `nullopt` on an open
  channel, when the woken task finds the space or the object gone
  (`Channel.h:141` and 69, against 320-322 and 300-301). `NoReaderStranded` and
  `NoWriterStranded` are about wake-ups, and do not forbid it.
- `UnsafeNursery`, liberty `goesEarly`: a task of `corral::run()` on the same event
  loop joins, and the last task of the nursery ends. The first `runSoon()` of
  `continuation()` puts the nursery's `runOnce()` on the outer executor's list
  (`Executor.h:193`); the second, `scheduled_` being set, runs it at once
  (line 196), and that clears `scheduled_`. The joiner is resumed and may destroy the
  nursery, with its executor, while the outer list has the reference. The
  assertion of `~Executor()` (line 143), whose comment is about exactly that, does
  not see it. Liberty `closesWithin`: `close()` called by a task that is being asked
  to end gives up on those of the captured list that were not asked yet, and
  destroys frames that list refers to (`Nursery.h:222`, 375-385). Liberty
  `startsLate`: `close()` schedules `cancel()` only if there are tasks when it is
  called (line 217); one that is started by what it then drains is never asked.
- `Executor`: a second `runSoon` for another executor of the same event loop,
  with its flag still set, drains it nested instead of deferring (line 190,
  against the comment at 179).
- `wait.h`: `anyOf()` can end without any result on the immediate path
  (`Results` therefore asks for the suspended one); the case that the comment at
  254-260 describes cannot occur, since `ready()` is false in
  `CancellationPending`; and the assertion in `await_cancel()` that follows
  `allNowCancelled` depends on children that do not finish inside of the loop.
- XModem: a block is sent three times at most, because `transmitCount` is
  incremented twice per retry, and sending it again cannot help (see above); a
  lost ACK leads to a duplicate and to failure; the last block is padded with
  `0xFF` (`corralXModem.cpp:218`), where the header says zeroes.
- `AsioAwaitable`, liberty `inline`: an operation of asio that completes within the
  emission of its cancellation signal makes `done()` destroy the signal that is
  being emitted (`asio.h:125`, 146). If the initiation throws, the signal made in
  line 96 is never destroyed.
- `g_defaultNursery` is never reset (`corralqt.cpp:18`, 38). If one of its tasks
  throws, the nursery ends, and `aboutToQuit` then cancels one that is gone (line 17).

## 6. Not modelled, and the plan

*Below the models*: coroutine frames and the ABI, packed pointers, type-level
machinery, introspection, and memory (what a use after free would be is a guard
or an invariant here, as in `StructuredConcurrency` and `Queue`'s cells). *Abstracted*: results and exceptions
are who produced them; awaitables that throw from `await_suspend()` are in
`Mux` and the family of `Awaitable`; time is a choice.

*Of parts that are modelled*: several callbacks of one legacy operation, joined by
`anyOf()` (the proxy's own logic is the same for each, and `Mux` has that of
`anyOf()`); what the bytes of `ReadLines` say; results of the multiplexers as tuples and ranges. *Not modelled*:
Qt's event loop, signals and default nursery, and asio's `io_service` and the
wrapper around its timers, which are adapters to code outside of the repository;
in the models they are "the event loop".

Next modules, in this order: several callbacks of `CBPortal` over `Mux`; signals of
Qt; the other users of `Linked` over the pointers of `IntrusiveList`.

Next theorems: what of `FamilyProofs` still holds with each of the liberties; that the
sequences of the other users of `Linked` are those of `IntrusiveList`'s pointers.
