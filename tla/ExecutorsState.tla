--------------------------- MODULE ExecutorsState ---------------------------
(***************************************************************************)
(* What the executors of one thread keep, and what they owe to those who   *)
(* submit callbacks to them (Executor.h).                                  *)
(***************************************************************************)
EXTENDS Naturals, Sequences, FiniteSets, SequencesExt

CONSTANTS
    Exec,       \* executors
    Loop,       \* eventLoopID_ of each
    Work,       \* the name of an ordinary callback
    MaxReady,   \* bound on the entries of a ready list
    MaxDepth    \* bound on the calls of drain() on the stack

Idle == "idle"          \* an entry: drain() is between two entries

ASSUME ExecutorsAssumption ==
    /\ Work \notin Exec /\ Idle \notin Exec /\ Work # Idle
    /\ MaxReady \in Nat /\ MaxDepth \in Nat
    /\ DOMAIN Loop = Exec

VARIABLES
    ready,      \* *ready_ of each executor: Work, or the executor whose
                \* runOnce() is to be called
    scheduled,  \* scheduled_
    frames      \* the calls of drain()

\* running_ # nullptr: a drain() of e is on the stack.
Running(e) == \E i \in 1..Len(frames) : frames[i].ex = e

\* The event loop gets the thread back only when everything submitted to any
\* executor has run ("fully drains its list of pending actions every time").
NothingLeftBehind ==
    frames = <<>> => \A e \in Exec : ready[e] = <<>> /\ ~scheduled[e]

\* An executor with work that does not run is called by one that does, or
\* its turn is queued there: "scheduled_" always stands for a queued call.
ScheduledIsQueued ==
    \A e \in Exec :
        scheduled[e] => \E x \in Exec : Running(x) /\ Contains(ready[x], e)
=============================================================================
