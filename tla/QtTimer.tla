------------------------------- MODULE QtTimer -------------------------------
(***************************************************************************)
(* qt/corralqt.h: a delay that any number of tasks may sleep for, over one *)
(* QTimer that exists while somebody does.  Its class has no               *)
(* await_set_executor(), and resumes a sleeper that is cancelled itself.   *)
(***************************************************************************)
EXTENDS Awaitable

CONSTANT Parents    \* the tasks

VARIABLES
    delay,          \* m_delayNs
    elapsed,        \* m_elapsed has reached m_delayNs
    m_fired,
    m_timer,        \* m_timer is running
    m_awaiting,
    m_earlyCancel,  \* of each task's Awaiter
    m_suspended     \* of each task's Awaiter

clock == <<delay, elapsed>>
instance == <<m_fired, m_timer, m_awaiting>>
awaiter == <<m_earlyCancel, m_suspended>>
vars == <<shared, clock, instance, awaiter>>

TypeOK ==
    /\ ProtocolTypeOK
    /\ delay \in {"negative", "zero", "positive"}
    /\ elapsed \in BOOLEAN /\ m_fired \in BOOLEAN /\ m_timer \in BOOLEAN
    /\ m_awaiting \subseteq Parents
    /\ m_earlyCancel \in [Parents -> BOOLEAN]
    /\ m_suspended \in [Parents -> BOOLEAN]

Init == /\ ProtocolInit(Parents, {})
        /\ delay \in {"negative", "zero", "positive"}
        /\ elapsed = FALSE
        /\ m_fired = (delay = "zero")
        /\ m_timer = FALSE /\ m_awaiting = {}
        /\ m_earlyCancel = [p \in Parents |-> FALSE]
        /\ m_suspended = [p \in Parents |-> FALSE]

----------------------------------------------------------------------------
(* A task goes to sleep.                                                   *)

Ready(p) ==
    /\ above[p].state \in BeforeSuspend
    /\ Calls(p, ReadyReturned(above[p], m_fired))
    /\ UNCHANGED <<below, calls, over, clock, instance, awaiter>>

EarlyCancel(p) ==
    /\ Calls(p, EarlyCancelReturned(above[p], FALSE))
    /\ m_earlyCancel' = [m_earlyCancel EXCEPT ![p] = TRUE]
    /\ UNCHANGED <<below, calls, over, clock, instance, m_suspended>>

SetExecutor(p) ==
    /\ ~above[p].hasExecutor
    /\ Calls(p, AboutToSetExecutor(above[p]))
    /\ UNCHANGED <<below, calls, over, clock, instance, awaiter>>

\* await_suspend() returns false: the task goes on.
SuspendNot(p) ==
    /\ m_earlyCancel[p] \/ m_fired
    /\ Legal(AboutToSuspend(above[p]))
    /\ Calls(p, Resumed(AboutToSuspend(above[p])))
    /\ UNCHANGED <<below, calls, over, clock, instance, awaiter>>

\* start() finds that the delay is over, and calls fired() for the others.
SuspendTooLate(p) ==
    /\ ~(m_earlyCancel[p] \/ m_fired)
    /\ delay = "positive" /\ elapsed
    /\ Calls(p, AboutToSuspend(above[p]))
    /\ m_fired' = TRUE
    /\ m_timer' = FALSE
    /\ calls' = <<[fn |-> "fired", to |-> p],
                  [fn |-> "await_suspend", to |-> p]>> \o calls
    /\ UNCHANGED <<below, over, clock, m_awaiting, awaiter>>

\* start() sees that the task is woken, unless the delay is infinite.
Suspend(p) ==
    /\ ~(m_earlyCancel[p] \/ m_fired \/ elapsed)
    /\ Calls(p, AboutToSuspend(above[p]))
    /\ m_suspended' = [m_suspended EXCEPT ![p] = TRUE]
    /\ IF delay = "negative" THEN UNCHANGED <<m_awaiting, m_timer>>
       ELSE m_awaiting' = m_awaiting \cup {p} /\ m_timer' = TRUE
    /\ UNCHANGED <<below, calls, over, clock, m_fired, m_earlyCancel>>

----------------------------------------------------------------------------
(* The delay ends.                                                         *)

Elapse ==
    /\ delay = "positive" /\ ~elapsed
    /\ elapsed' = TRUE
    /\ UNCHANGED <<shared, delay, instance, awaiter>>

\* The event loop: QTimer::timeout, in whole milliseconds and so too early
\* perhaps, calls fired().
Timeout ==
    /\ m_timer /\ calls = <<>>
    /\ m_fired' = TRUE
    /\ m_timer' = FALSE
    /\ calls' = Calling("fired", 0)
    /\ UNCHANGED <<above, below, over, clock, m_awaiting, awaiter>>

\* fired() takes a task from the set before it wakes it.
Others(p) == m_awaiting \ {p}

\* The loop of fired(): one onFired(), in which woken tasks may run.
Wake ==
    \E p \in m_awaiting :
        /\ InCall("fired")
        /\ m_awaiting' = Others(p)
        /\ above' = [above EXCEPT ![p] = IF m_suspended[p] THEN Resumed(@) ELSE @]
        /\ m_suspended' = [m_suspended EXCEPT ![p] = FALSE]
        /\ UNCHANGED <<below, calls, over, clock, m_fired, m_timer, m_earlyCancel>>

FiredReturns ==
    /\ InCall("fired") /\ m_awaiting = {}
    /\ calls' = Tail(calls)
    /\ UNCHANGED <<above, below, over, clock, instance, awaiter>>

SuspendReturns ==
    /\ InCall("await_suspend")
    /\ calls' = Tail(calls)
    /\ above' = [above EXCEPT ![Callee] = Resumed(@)]
    /\ UNCHANGED <<below, over, clock, instance, awaiter>>

----------------------------------------------------------------------------
(* A task is cancelled, or goes on.                                        *)

\* The task is still in await_suspend().
Starting(p) == \E i \in DOMAIN calls : calls[i] = [fn |-> "await_suspend", to |-> p]

\* stop(): the last to leave deletes the QTimer.
Stop(p) == /\ m_awaiting' = m_awaiting \ {p}
           /\ m_timer' = (m_timer /\ m_awaiting' # {})

\* await_cancel() resumes the task and returns false.  It is taken not to come
\* from a task that start() wakes on its way.
Cancel(p) ==
    /\ ~Starting(p)
    /\ Legal(AboutToCancel(above[p]))
    /\ Calls(p, Resumed(AboutToCancel(above[p])))
    /\ Stop(p)
    /\ UNCHANGED <<below, calls, over, clock, m_fired, awaiter>>

MustResume(p) ==
    /\ Calls(p, MustResumeReturned(above[p], TRUE))
    /\ UNCHANGED <<below, calls, over, clock, instance, awaiter>>

Resume(p) ==
    /\ Calls(p, AboutToResume(above[p]))
    /\ Stop(p)
    /\ UNCHANGED <<below, calls, over, clock, m_fired, awaiter>>

\* The Awaiter goes; the task's next one is another.
Destroy(p) ==
    /\ above[p] # Fresh /\ Calls(p, Reset(above[p]))
    /\ m_earlyCancel' = [m_earlyCancel EXCEPT ![p] = FALSE]
    /\ m_suspended' = [m_suspended EXCEPT ![p] = FALSE]
    /\ UNCHANGED <<below, calls, over, clock, instance>>

Next ==
    \/ \E p \in Parents :
         \/ Ready(p) \/ EarlyCancel(p) \/ SetExecutor(p) \/ SuspendNot(p)
         \/ SuspendTooLate(p) \/ Suspend(p) \/ Cancel(p) \/ MustResume(p)
         \/ Resume(p) \/ Destroy(p)
    \/ Elapse \/ Timeout \/ Wake \/ FiredReturns \/ SuspendReturns

\* Time passes, the event loop runs, and tasks that are resumed go on.
CallsReturn == Wake \/ FiredReturns \/ SuspendReturns
GoesOn(p) == MustResume(p) \/ Resume(p)
OperationEnds == Elapse \/ Timeout

Fairness ==
    WF_vars(CallsReturn) /\ (\A p \in Parents : WF_vars(GoesOn(p)))
      /\ WF_vars(OperationEnds)

Spec == Init /\ [][Next]_vars /\ Fairness

----------------------------------------------------------------------------
(* A task that sleeps for a delay that ends is in the set, and the QTimer  *)
(* or fired() will come to it; nobody else is, whose Awaiter may be gone.  *)
SleepersAwaited ==
    /\ \A p \in m_awaiting : Pending(above[p]) /\ (m_timer \/ InCall("fired"))
    /\ delay = "positive" => \A p \in Parents : Pending(above[p]) =>
          p \in m_awaiting \/ Starting(p)

----------------------------------------------------------------------------
(* Why nobody oversleeps: m_timer and fired() see to m_awaiting.           *)

\* What is called: fired() by the event loop, or inside of await_suspend().
Fired(p) == [fn |-> "fired", to |-> p]
Started(p) == [fn |-> "await_suspend", to |-> p]
Called ==
    \/ calls = <<>> /\ (m_fired => m_awaiting = {})
    \/ calls = <<Fired(0)>> /\ m_fired
    \/ \E p \in Parents : calls = <<Fired(p), Started(p)>> /\ m_fired
    \/ \E p \in Parents : calls = <<Started(p)>> /\ m_fired /\ m_awaiting = {}

\* Who is in the set sleeps, and who sleeps is in it or will be.
Sleeps(p) ==
    /\ Legal(above[p])
    /\ p \in m_awaiting => Pending(above[p]) /\ m_suspended[p]
    /\ Starting(p) => Pending(above[p]) /\ p \notin m_awaiting
    /\ delay = "positive" /\ Pending(above[p]) => p \in m_awaiting \/ Starting(p)

Inv ==
    /\ above \in [Parents -> Checker] /\ below \in [{} -> Checker] /\ over = "no"
    /\ delay \in {"negative", "zero", "positive"}
    /\ elapsed \in BOOLEAN /\ m_fired \in BOOLEAN /\ m_timer \in BOOLEAN
    /\ m_awaiting \subseteq Parents
    /\ m_earlyCancel \in [Parents -> BOOLEAN] /\ m_suspended \in [Parents -> BOOLEAN]
    /\ m_timer <=> (~m_fired /\ m_awaiting # {})
    /\ Called
    /\ \A p \in Parents : Sleeps(p)
=============================================================================
