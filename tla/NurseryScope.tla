---------------------------- MODULE NurseryScope ----------------------------
(***************************************************************************)
(* What a nursery promises the task that opens it (Nursery.h, the comment  *)
(* before class Nursery): execution does not continue past the nursery     *)
(* before every task started in it has finished and its frame is gone; the *)
(* first exception wins over later ones and over a request to cancel; only *)
(* a task that is still running keeps the nursery open for new ones.       *)
(***************************************************************************)
CONSTANT Task

VARIABLES
    opened,     \* the opener waits for the nursery
    active,     \* tasks that have not finished
    zombies,    \* finished tasks whose frames still exist
    outcome     \* none, cancelled, or the task whose exception is stored

vars == <<opened, active, zombies, outcome>>

Init == ~opened /\ active = {} /\ zombies = {} /\ outcome = "none"

\* The first task may be done at once.  A nursery opened by a task that is
\* being cancelled starts out cancelled.
Open(b) ==
    /\ ~opened /\ active = {} /\ zombies = {}
    /\ opened' = TRUE
    /\ \/ active' = {b} /\ UNCHANGED zombies
       \/ zombies' = {b} /\ UNCHANGED active
    /\ outcome' \in {"none", "cancelled"}

Start(c) ==
    /\ opened /\ active # {} /\ c \notin active \cup zombies
    /\ \/ active' = active \cup {c} /\ UNCHANGED zombies
       \/ zombies' = zombies \cup {c} /\ UNCHANGED active
    /\ UNCHANGED <<opened, outcome>>

Cancel ==
    /\ opened /\ outcome = "none"
    /\ outcome' = "cancelled"
    /\ UNCHANGED <<opened, active, zombies>>

\* The exception of t is kept if it is the first.
Fail(t) ==
    /\ t \in active /\ outcome \in {"none", "cancelled"}
    /\ outcome' = t
    /\ UNCHANGED <<opened, active, zombies>>

Finish(t) ==
    /\ t \in active
    /\ active' = active \ {t}
    /\ zombies' = zombies \cup {t}
    /\ UNCHANGED <<opened, outcome>>

Reap(t) ==
    /\ t \in zombies
    /\ zombies' = zombies \ {t}
    /\ UNCHANGED <<opened, active, outcome>>

\* The opener goes on.
Leave ==
    /\ opened /\ active = {} /\ zombies = {}
    /\ opened' = FALSE
    /\ outcome' = "none"
    /\ UNCHANGED <<active, zombies>>

Next ==
    \/ \E t \in Task : Open(t) \/ Start(t) \/ Fail(t) \/ Finish(t) \/ Reap(t)
    \/ Cancel \/ Leave

Spec == Init /\ [][Next]_vars
=============================================================================
