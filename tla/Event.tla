-------------------------------- MODULE Event --------------------------------
(***************************************************************************)
(* Event.h, ParkingLot.h and detail/ParkingLot.h: tasks that wait until    *)
(* somebody wakes the oldest of them, or all.  What resumes within unpark()*)
(* runs there and then: it may cancel another one, park again, or wake     *)
(* others itself.                                                          *)
(***************************************************************************)
EXTENDS Awaitable

CONSTANT Parents    \* those who wait

VARIABLES
    lot,        \* the class: an Event, or a ParkingLot
    triggered,  \* triggered_
    links,      \* the pointers of the lists and of those who wait
    lists,      \* what the lists hold
    depth       \* how many calls of unparkAll() are under way

lots == <<links, lists, depth>>
vars == <<shared, lot, triggered, lots>>

\* parked_ is list 0, and the list of the n-th call of unparkAll() is list n.
Item(p) == <<"item", p>>
List(n) == <<"list", n>>
L == INSTANCE IntrusiveList WITH Items <- {Item(p) : p \in Parents},
        Heads <- {List(n) : n \in 0..Cardinality(Parents)}, Null <- <<"null", 0>>

TypeOK ==
    /\ ProtocolTypeOK
    /\ lot \in {"Event", "ParkingLot"}
    /\ triggered \in BOOLEAN
    /\ links \in L!Links
    /\ depth \in 0..Cardinality(Parents)

Init == /\ ProtocolInit(Parents, {})
        /\ lot \in {"Event", "ParkingLot"}
        /\ triggered = FALSE
        /\ links = L!NoLinks
        /\ lists = [h \in {List(n) : n \in 0..Cardinality(Parents)} |-> <<>>]
        /\ depth = 0

----------------------------------------------------------------------------
(* Those who wait.                                                         *)

\* unlink().
Unlink(p) == /\ links' = L!UnlinkItem(links, Item(p))
             /\ lists' = L!WithoutItem(lists, Item(p))
             /\ UNCHANGED depth

Ready(p) ==
    /\ above[p].state \in BeforeSuspend
    /\ Calls(p, ReadyReturned(above[p], triggered))
    /\ UNCHANGED <<below, calls, over, lot, triggered, lots>>

\* awaitEarlyCancel() answers for a class that has nothing to say.
EarlyCancel(p) ==
    /\ Calls(p, EarlyCancelReturned(above[p], TRUE))
    /\ UNCHANGED <<below, calls, over, lot, triggered, lots>>

SetExecutor(p) ==
    /\ ~above[p].hasExecutor
    /\ Calls(p, AboutToSetExecutor(above[p]))
    /\ UNCHANGED <<below, calls, over, lot, triggered, lots>>

\* await_ready() says no, and doSuspend() follows at once: those who could not
\* be sure that it still says no ask again (MuxHelper::kickOff()).
Suspend(p) ==
    /\ ~triggered
    /\ Calls(p, AboutToSuspend(ReadyReturned(above[p], FALSE)))
    /\ links' = L!PushItem(links, List(0), Item(p))
    /\ lists' = L!WithLast(lists, List(0), Item(p))
    /\ UNCHANGED <<below, calls, over, lot, triggered, depth>>

\* await_cancel(), which always succeeds.
Cancel(p) ==
    /\ Calls(p, CancelReturned(AboutToCancel(above[p]), TRUE))
    /\ Unlink(p)
    /\ UNCHANGED <<below, calls, over, lot, triggered>>

Resume(p) ==
    /\ Calls(p, AboutToResume(above[p]))
    /\ UNCHANGED <<below, calls, over, lot, triggered, lots>>

\* The awaitable goes, and unlinks itself; the next one is another.
Destroy(p) ==
    /\ above[p] # Fresh /\ Calls(p, Reset(above[p]))
    /\ Unlink(p)
    /\ UNCHANGED <<below, calls, over, lot, triggered>>

----------------------------------------------------------------------------
(* Those who wake.                                                         *)

\* unpark().
Unpark(p) == /\ Unlink(p)
             /\ above' = [above EXCEPT ![p] = Resumed(@)]

\* The oldest in list n.
Oldest(n) == L!FrontOf(links, List(n))[2]

UnparkOne ==
    /\ lot = "ParkingLot" /\ ~L!EmptyList(links, List(0))
    /\ Unpark(Oldest(0))
    /\ UNCHANGED <<below, calls, over, lot, triggered>>

\* unparkAll(), of a ParkingLot or by trigger().  The nesting is bounded.
UnparkAll ==
    /\ ~L!EmptyList(links, List(0)) \/ lot = "Event"
    /\ depth < Cardinality(Parents)
    /\ triggered' = (lot = "Event")
    /\ depth' = depth + 1
    /\ links' = L!MoveList(links, List(depth + 1), List(0))
    /\ lists' = L!Moved(lists, List(depth + 1), List(0))
    /\ UNCHANGED <<shared, lot>>

\* Its loop.
Wake == /\ depth > 0 /\ ~L!EmptyList(links, List(depth))
        /\ Unpark(Oldest(depth))
        /\ UNCHANGED <<below, calls, over, lot, triggered>>

UnparkAllReturns == /\ depth > 0 /\ L!EmptyList(links, List(depth))
                    /\ depth' = depth - 1
                    /\ UNCHANGED <<shared, lot, triggered, links, lists>>

Next ==
    \/ \E p \in Parents : Ready(p) \/ EarlyCancel(p) \/ SetExecutor(p)
         \/ Suspend(p) \/ Cancel(p) \/ Resume(p) \/ Destroy(p)
    \/ UnparkOne \/ UnparkAll \/ Wake \/ UnparkAllReturns

\* Calls return, and those who are resumed go on.
CallsReturn == Wake \/ UnparkAllReturns
GoesOn(p) == Resume(p)

Fairness == WF_vars(CallsReturn) /\ (\A p \in Parents : WF_vars(GoesOn(p)))

Spec == Init /\ [][Next]_vars /\ Fairness

----------------------------------------------------------------------------
(* Who waits is in a list that somebody goes through, once, and nobody else*)
(* is, whose handle may be stale; the pointers are those of the lists,     *)
(* whoever is unlinked from them; and nobody waits for an Event that has   *)
(* happened, except for the loop of trigger() to come.                     *)
WaitersLinked ==
    /\ L!Agree(links, lists)
    /\ \A p \in Parents : Pending(above[p]) <=> L!Holds(lists, Item(p))
    /\ \A n \in 0..Cardinality(Parents) : n > depth => lists[List(n)] = <<>>
    /\ triggered => lists[List(0)] = <<>>
=============================================================================
