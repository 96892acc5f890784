-------------------------- MODULE NurseryContract --------------------------
(***************************************************************************)
(* Each nursery keeps the contract of NurseryScope, Nursery.h's promise    *)
(* that the opener goes on only when every task of it is gone.             *)
(***************************************************************************)
EXTENDS Nursery

CONSTANT Watched     \* the nursery whose contract is looked at

ASSUME WatchedAssumption == Watched \in Scope

Contract == INSTANCE NurseryScope WITH
    opened  <- Exists(Watched),
    active  <- Active(Watched),
    zombies <- Zombies(Watched),
    outcome <- exception[Watched]

\* Whoever opens the watched nursery, and whatever is started, cancelled or
\* thrown in it or in others nested around and inside of it, its users see
\* what a nursery promises (Nursery.h, the comment before class Nursery).
ScopeContract == Contract!Spec
=============================================================================
