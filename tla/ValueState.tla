----------------------------- MODULE ValueState -----------------------------
(***************************************************************************)
(* What Value.h keeps: the value, those who wait for one or for a          *)
(* transition, and what they have got; and what it promises them.          *)
(***************************************************************************)
EXTENDS Naturals, Sequences, FiniteSets, Linked

CONSTANTS
    Users,      \* the tasks
    Val,        \* the values
    InitialValue,
    Wanted,     \* what tasks wait for (see Accepts)
    None        \* no task, no awaitable, no result

ASSUME ValueAssumption ==
    /\ InitialValue \in Val
    /\ None \notin Users /\ None \notin Val /\ None \notin Wanted
    /\ Wanted \subseteq [on : {"value"}, set : SUBSET Val]
                  \cup [on : {"transition"}, set : SUBSET (Val \X Val)]

VARIABLES
    value_, parked_,
    todo,       \* the list an outside set() has taken from parked_
    change,     \* <<prev, value>> of the latest outside set()
    made,       \* the awaitable a task has made and not awaited yet
    wait,       \* fn_ of the awaitable a task is suspended on
    result,     \* what the awaitable that a task awaited last yields to it
    resumed,    \* tasks resumed and waiting for the executor
    cpu,        \* the task that runs
    missed      \* history: the tasks whose awaitable neither the constructor
                \* nor a set() has shown the value that the variable has

\* What fn_ says of an assignment.
Accepts(w, from, to) ==
    IF w.on = "value" THEN to \in w.set ELSE <<from, to>> \in w.set

\* Parked for a value that the variable has.
Forgotten(t) == wait[t].on = "value" /\ value_ \in wait[t].set

\* What untilMatches() promises to all (Value.h:54, "Suspends the caller until
\* the stored value matches the predicate (or resumes it immediately if it
\* already does)"), and does not keep.
UntilMatchesHolds == \A t \in Range(parked_) : todo = <<>> => ~Forgotten(t)

\* What it keeps: whoever was shown the value the variable has is not left
\* waiting for it, in whatever order tasks wait, park again, are cancelled and
\* assign inside the loop of a set().  The code shows a value when the
\* awaitable is made (Value.h:142) and in the set() that assigns it: not to an
\* awaitable that is made before and awaited after the assignment, nor to
\* those for whom the loop of an outside set() has another value (Value.h:199).
NoWaiterForgotten == \A t \in Range(parked_) \ missed : ~Forgotten(t)

\* A task gets a value, or a transition, that its predicate accepted, whatever
\* was assigned before it ran (Value.h:57 and :77).
YieldedMatches ==
    \A t \in Users : result[t] # None =>
        Accepts(result[t].fn, result[t].from, result[t].to)
=============================================================================
