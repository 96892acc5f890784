---------------------------- MODULE MCAwaitables ----------------------------
(***************************************************************************)
(* The classes that stand between the two sides of the protocol of         *)
(* Awaitable, each between free parents and free children, under one       *)
(* statement of what all of them owe to both.                              *)
(***************************************************************************)
EXTENDS Awaitable

CONSTANTS
    Parents,    \* those who await a Shared, or an Event
    Sleepers,   \* those who await one Timer
    MaxAwaits,  \* how often a task awaits something
    Chunk,      \* the bytes a QIODevice is asked for at a time,
    MaxBytes,   \* the most it gets,
    Needs,      \* and what is read of it
    Joiners,    \* those who join an UnsafeNursery
    Tasks,      \* and its tasks
    Closure, Nobody,
    MaxQueued, MaxLate,
    Liberties   \* what parties may do besides (Shared, QIODevice, Runner,
                \* AsioAwaitable and UnsafeNursery name theirs)

\* An Event's list is of finite length; a device is asked for some bytes; who
\* closes a nursery does not join it.
ASSUME ConstantsAssumption ==
    /\ IsFiniteSet(Parents)
    /\ MaxAwaits \in Nat
    /\ Chunk \in Nat \ {0} /\ MaxBytes \in Nat /\ Needs \subseteq Nat
    /\ Closure \notin Joiners /\ Nobody \notin Joiners \cup {Closure}
    /\ MaxQueued \in Nat /\ MaxLate \in Nat

\* The variables of the class that is there, in the order it declares them.
VARIABLES class, v1, v2, v3, v4, v5, v6, v7, v8, v9

vars == <<shared, class, v1, v2, v3, v4, v5, v6, v7, v8, v9>>

Ad == INSTANCE Adapters WITH kind <- v1, cancelPending <- v2
Sq == INSTANCE Sequence WITH stage <- v1, cancelling <- v2
Tr == INSTANCE TryBlock WITH hasCatch <- v1, hasFinally <- v2, stage <- v3,
          earlyCancel <- v4, completed <- v5, exception <- v6, ended <- v7
Sh == INSTANCE Shared WITH result <- v1, parents <- v2,
          waking <- v3, attached <- v4, got <- v5
Ta == INSTANCE TaskAwait WITH state <- v1, cancelState <- v2, resumeFn <- v3,
          promise <- v4, outcome <- v5, left <- v6, cancelRequested <- v7
Cb == INSTANCE CBPortal WITH owner <- v1, awaited <- v2, status <- v3,
          value <- v4, parent <- v5, completed <- v6, callable <- v7
Ti == INSTANCE QtTimer WITH Parents <- Sleepers, delay <- v1, elapsed <- v2,
          m_fired <- v3, m_timer <- v4, m_awaiting <- v5, m_earlyCancel <- v6,
          m_suspended <- v7
Io == INSTANCE QIODevice WITH m_buffer <- v1, unread <- v2,
          come <- v3, m_awaiter <- v4, cancellable <- v5, n <- v6,
          m_earlyCancel <- v7, m_listening <- v8, m_suspended <- v9
Ev == INSTANCE Event WITH lot <- v1, triggered <- v2, links <- v3,
          lists <- v4, depth <- v5
Ru == INSTANCE Runner WITH at <- v1, eventLoop <- v2,
          stopSoon <- v3
As == INSTANCE AsioAwaitable WITH ec <- v1, signal <- v2,
          doneCB <- v3
Un == INSTANCE UnsafeNursery WITH tasks <- v1,
          executor <- v2, parent <- v3, exception <- v4, ready <- v5, stack <- v6,
          scheduled <- v7, queued <- v8, late <- v9

two == <<class, v3, v4, v5, v6, v7, v8, v9>>
three == <<class, v4, v5, v6, v7, v8, v9>>
five == <<class, v6, v7, v8, v9>>
seven == <<class, v8, v9>>

\* The variables a class does not have hold its name.
AfterSeven == v8 = class /\ v9 = class
AfterFive == v6 = class /\ v7 = class /\ AfterSeven
AfterThree == v4 = class /\ v5 = class /\ AfterFive
AfterTwo == v3 = class /\ AfterThree

Init ==
    \/ class = "adapter" /\ Ad!Init /\ AfterTwo
    \/ class = "sequence" /\ Sq!Init /\ AfterTwo
    \/ class = "try" /\ Tr!Init /\ AfterSeven
    \/ class = "shared" /\ Sh!Init /\ AfterFive
    \/ class = "task" /\ Ta!Init /\ AfterSeven
    \/ class = "portal" /\ Cb!Init /\ AfterSeven
    \/ class = "timer" /\ Ti!Init /\ AfterSeven
    \/ class = "device" /\ Io!Init
    \/ class = "event" /\ Ev!Init /\ AfterFive
    \/ class = "runner" /\ Ru!Init /\ AfterThree
    \/ class = "asio" /\ As!Init /\ AfterThree
    \/ class = "nursery" /\ Un!Init

Next ==
    \/ class = "adapter" /\ Ad!Next /\ UNCHANGED two
    \/ class = "sequence" /\ Sq!Next /\ UNCHANGED two
    \/ class = "try" /\ Tr!Next /\ UNCHANGED seven
    \/ class = "shared" /\ Sh!Next /\ UNCHANGED five
    \/ class = "task" /\ Ta!Next /\ UNCHANGED seven
    \/ class = "portal" /\ Cb!Next /\ UNCHANGED seven
    \/ class = "timer" /\ Ti!Next /\ UNCHANGED seven
    \/ class = "device" /\ Io!Next /\ UNCHANGED class
    \/ class = "event" /\ Ev!Next /\ UNCHANGED five
    \/ class = "runner" /\ Ru!Next /\ UNCHANGED three
    \/ class = "asio" /\ As!Next /\ UNCHANGED three
    \/ class = "nursery" /\ Un!Next /\ UNCHANGED class

----------------------------------------------------------------------------
(* The fairness of each class.                                             *)

CallsReturn ==
    \/ class = "adapter" /\ Ad!CallsReturn /\ UNCHANGED two
    \/ class = "sequence" /\ Sq!CallsReturn /\ UNCHANGED two
    \/ class = "try" /\ Tr!CallsReturn /\ UNCHANGED seven
    \/ class = "shared" /\ Sh!CallsReturn /\ UNCHANGED five
    \/ class = "task" /\ Ta!CallsReturn /\ UNCHANGED seven
    \/ class = "portal" /\ Cb!CallsReturn /\ UNCHANGED seven
    \/ class = "timer" /\ Ti!CallsReturn /\ UNCHANGED seven
    \/ class = "event" /\ Ev!CallsReturn /\ UNCHANGED five
    \/ class = "asio" /\ As!CallsReturn /\ UNCHANGED three
    \/ class = "nursery" /\ Un!CallsReturn /\ UNCHANGED class

\* Where there is one parent, it is 1.
GoesOn(p) ==
    \/ class = "shared" /\ Sh!GoesOn(p) /\ UNCHANGED five
    \/ class = "event" /\ Ev!GoesOn(p) /\ UNCHANGED five
    \/ class = "timer" /\ p \in Sleepers /\ Ti!GoesOn(p) /\ UNCHANGED seven
    \/ class = "nursery" /\ p \in Joiners /\ Un!GoesOn(p) /\ UNCHANGED class
    \/ /\ p = 1
       /\ \/ class = "adapter" /\ Ad!GoesOn /\ UNCHANGED two
          \/ class = "sequence" /\ Sq!GoesOn /\ UNCHANGED two
          \/ class = "try" /\ Tr!GoesOn /\ UNCHANGED seven
          \/ class = "task" /\ Ta!GoesOn /\ UNCHANGED seven
          \/ class = "portal" /\ Cb!GoesOn /\ UNCHANGED seven
          \/ class = "device" /\ Io!GoesOn /\ UNCHANGED class
          \/ class = "asio" /\ As!GoesOn /\ UNCHANGED three

OperationEnds ==
    \/ class = "adapter" /\ Ad!OperationEnds /\ UNCHANGED two
    \/ class = "sequence" /\ Sq!OperationEnds /\ UNCHANGED two
    \/ class = "try" /\ Tr!OperationEnds /\ UNCHANGED seven
    \/ class = "shared" /\ Sh!OperationEnds /\ UNCHANGED five
    \/ class = "task" /\ Ta!OperationEnds /\ UNCHANGED seven
    \/ class = "portal" /\ Cb!OperationEnds /\ UNCHANGED seven
    \/ class = "timer" /\ Ti!OperationEnds /\ UNCHANGED seven
    \/ class = "asio" /\ As!OperationEnds /\ UNCHANGED three
    \/ class = "nursery" /\ Un!OperationEnds /\ UNCHANGED class

Spec ==
    /\ Init /\ [][Next]_vars
    /\ WF_vars(CallsReturn) /\ WF_vars(OperationEnds)
    /\ \A p \in Parents : WF_vars(GoesOn(p))

----------------------------------------------------------------------------
\* Every variable has its type.
TypeOK ==
    CASE class = "adapter" -> Ad!TypeOK
      [] class = "sequence" -> Sq!TypeOK
      [] class = "try" -> Tr!TypeOK
      [] class = "shared" -> Sh!TypeOK
      [] class = "task" -> Ta!TypeOK
      [] class = "portal" -> Cb!TypeOK
      [] class = "timer" -> Ti!TypeOK
      [] class = "device" -> Io!TypeOK
      [] class = "event" -> Ev!TypeOK
      [] class = "runner" -> Ru!TypeOK
      [] class = "asio" -> As!TypeOK
      [] class = "nursery" -> Un!TypeOK

(* Whoever waits will be woken: by an operation that runs and knows of it, *)
(* a list or a timer that somebody goes through, a callback that can still *)
(* be called (by asio or another library), bytes the device will tell it   *)
(* of, an event loop that will be stopped, or the last task of a nursery;  *)
(* and a task that is being cancelled has not lost the request.            *)
NoWakeUpLost ==
    CASE class = "shared" -> Sh!NobodyForgotten
      [] class = "task" -> Ta!RequestKept
      [] class = "portal" -> Cb!CallsArrive
      [] class = "timer" -> Ti!SleepersAwaited
      [] class = "device" -> Io!ReaderHeard
      [] class = "event" -> Ev!WaitersLinked
      [] class = "runner" -> Ru!LoopStopped
      [] class = "asio" -> As!SignalLives
      [] class = "nursery" -> Un!JoinerWoken
      [] OTHER -> TRUE

(* Code that is to run in spite of a cancellation, or because of one, does *)
(* so once and undisturbed: finally-blocks, what untilCancelledAnd() and   *)
(* noncancellable() guard, the frames of tasks in a nursery that is closed.*)
CleanupRuns ==
    CASE class = "try" -> Tr!BlocksRunInOrder
      [] class = "adapter" -> Ad!Shielded /\ Ad!RunsOnCancel
      [] class = "nursery" -> Un!ClosedEmpty
      [] OTHER -> TRUE

(* All who await a Shared get one result, and none of them can cancel it   *)
(* while another one wants it.                                             *)
SharedAgreed == class = "shared" => Sh!Agreed

Cancelled(p) == /\ p \in DOMAIN above /\ above[p].state = "Cancelling"
                /\ class = "try" => Tr!CancelHeard
Ended(p) == p \in DOMAIN above => above[p].state \in {"Done", "Cancelled"}

(* Whoever is cancelled while it is suspended comes to an end: no class    *)
(* keeps the cancellation to itself.                                       *)
CancelledEnds == \A p \in Parents : Cancelled(p) ~> Ended(p) \/ over # "no"
=============================================================================
