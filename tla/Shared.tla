------------------------------- MODULE Shared -------------------------------
(***************************************************************************)
(* Shared.h: one operation, child 1, awaited by several parents, each by   *)
(* an Awaitable of its own, which it may do again and again.               *)
(*                                                                         *)
(* A task asks for readiness and suspends, or takes the result, in one go. *)
(* What a parent may do besides, and what child 1 may do, is a liberty:    *)
(*   "executor"  it calls await_set_executor() before it knows that it is  *)
(*               to suspend, as anyOf() and the like do and then() does    *)
(*   "early"     child 1 may refuse an early cancellation, as a task does  *)
(*   "late"      it comes when the operation has ended and the parents     *)
(*               that were resumed have not run yet                        *)
(***************************************************************************)
EXTENDS Awaitable, Linked

CONSTANTS
    Parents,    \* those who await the operation
    Liberties   \* a subset of these three

VARIABLES
    result,     \* index of result_
    parents,    \* parents_
    waking,     \* the list invoke() has yet to wake
    attached,   \* state_ of each parent's Awaitable is not null
    got         \* history: what parents have got from result()

vars == <<shared, result, parents, waking, attached, got>>

Results == {"Value", "Exception"}

B == below[1]
Below(c) == below' = [below EXCEPT ![1] = c]

TypeOK ==
    /\ ProtocolTypeOK
    /\ result \in Results \cup {"Incomplete", "CancelPending", "Cancelling",
                                "Cancelled"}
    /\ parents \in Seq(Parents) /\ waking \in Seq(Parents)
    /\ IsInjective(parents \o waking)
    /\ attached \in [Parents -> BOOLEAN]
    /\ got \subseteq Results \cup {"unavailable"}

Init == /\ ProtocolInit(Parents, {1})
        /\ result = "Incomplete"
        /\ parents = <<>> /\ waking = <<>>
        /\ attached = [p \in Parents |-> TRUE]
        /\ got = {}

----------------------------------------------------------------------------
(* A parent arrives.                                                       *)

\* The operation has ended and nobody has called result() since.
Unclaimed == result = "Incomplete" /\ B.state \in {"Ready", "ReadyAfterCancel"}

MayArrive(p) == /\ above[p].state \in BeforeSuspend
                /\ Unclaimed => "late" \in Liberties

\* State::ready() has the answer without asking child 1.
KnownReady == result # "Incomplete"
\* It must ask: the parent is the first.
MustAsk == ~KnownReady /\ parents = <<>>

\* State::result(), child 1's checker being b and the parent's being a.
TakeResult(p, a, b) ==
    /\ Calls(p, AboutToResume(a))
    /\ IF result \in {"Incomplete", "CancelPending"}
       THEN /\ Below(AboutToResume(b))
            /\ \E r \in Results : result' = r /\ got' = got \cup {r}
       ELSE /\ got' = got \cup {IF result \in Results THEN result ELSE "unavailable"}
            /\ Below(b)
            /\ UNCHANGED result

\* setExecutor() hands the executor on for the first parent.
HandsExecutorOn == parents = <<>>
WithExecutor(b) == IF HandsExecutorOn THEN AboutToSetExecutor(b) ELSE b

\* State::suspend() by parent p, with the checker of child 1 by then.
SuspendOn(p, b) ==
    /\ parents' = Append(parents, p)
    /\ IF parents = <<>>
       THEN /\ Below(AboutToSuspend(b))
            /\ calls' = Calling("await_suspend", p)
            /\ result' = IF result = "CancelPending" THEN "Cancelling" ELSE result
       ELSE Below(b) /\ UNCHANGED <<calls, result>>

\* await_ready(), and what follows at once: await_resume() with the result
\* (await_must_resume() first, if the parent is being cancelled), or
\* await_set_executor() and await_suspend().
ArriveReady(p) ==
    /\ MayArrive(p)
    /\ KnownReady \/ MustAsk
    /\ LET a == ReadyReturned(above[p], TRUE)
           b == IF KnownReady THEN B ELSE ReadyReturned(B, TRUE)
       IN  IF a.state = "ReadyImmediately"
           THEN TakeResult(p, a, b)
           ELSE Calls(p, a) /\ Below(b) /\ UNCHANGED <<result, got>>
    /\ UNCHANGED <<calls, over, parents, waking, attached>>

ArriveSuspend(p) ==
    /\ MayArrive(p) /\ ~KnownReady
    /\ Calls(p, AboutToSuspend(AboutToSetExecutor(ReadyReturned(above[p], FALSE))))
    /\ SuspendOn(p, WithExecutor(IF MustAsk THEN ReadyReturned(B, FALSE) ELSE B))
    /\ UNCHANGED <<over, waking, attached, got>>

\* await_early_cancel(): the first parent's goes on to child 1.
EarlyCancel(p) ==
    /\ MayArrive(p)
    /\ \E val \in BOOLEAN :
        /\ Calls(p, EarlyCancelReturned(above[p], val))
        /\ attached' = [attached EXCEPT ![p] = ~val]
        /\ IF MustAsk
           THEN /\ val \/ "early" \in Liberties
                /\ Below(EarlyCancelReturned(B, val))
                /\ result' = IF val THEN "Cancelled" ELSE "CancelPending"
           ELSE val /\ UNCHANGED <<below, result>>
    /\ UNCHANGED <<calls, over, parents, waking, got>>

\* await_set_executor() ahead of time.
SetExecutorAhead(p) ==
    /\ "executor" \in Liberties
    /\ MayArrive(p) /\ ~above[p].hasExecutor
    /\ Calls(p, AboutToSetExecutor(above[p]))
    /\ Below(WithExecutor(B))
    /\ UNCHANGED <<calls, over, result, parents, waking, attached, got>>

----------------------------------------------------------------------------
(* The operation ends.                                                     *)

\* invoke(), the result being r by then.
Invoke(r, rest) ==
    /\ result' = r
    /\ waking' = parents
    /\ parents' = <<>>
    /\ calls' = <<[fn |-> "invoke", to |-> 1]>> \o rest

ChildResumes ==
    /\ Pending(B)
    /\ IF result = "Cancelling"
       THEN \E val \in BOOLEAN :
                /\ Below(MustResumeReturned(Resumed(B), val))
                /\ Invoke(IF val THEN "Incomplete" ELSE "Cancelled", calls)
       ELSE Below(Resumed(B)) /\ Invoke(result, calls)
    /\ UNCHANGED <<above, over, attached, got>>

\* The await_suspend() of child 1 throws: everybody is to have that.
SuspendThrows ==
    /\ InCall("await_suspend") /\ Pending(B)
    /\ Below(SuspendThrew(B))
    /\ Invoke("Exception", Tail(calls))
    /\ UNCHANGED <<above, over, attached, got>>

\* wakeUp() of the next parent.
Wake ==
    /\ InCall("invoke") /\ waking # <<>>
    /\ waking' = Tail(waking)
    /\ above' = [above EXCEPT ![Head(waking)] = Resumed(@)]
    /\ UNCHANGED <<below, calls, over, result, parents, attached, got>>

Returns ==
    /\ calls # <<>>
    /\ InCall("invoke") => waking = <<>>
    /\ calls' = Tail(calls)
    /\ UNCHANGED <<above, below, over, result, parents, waking, attached, got>>

----------------------------------------------------------------------------
(* A parent is cancelled.                                                  *)

BugCancels == parents # <<>>
\* Whether the cancellation of a parent is that of the operation.
CancelsOperation == Len(parents) = 1

\* State::cancel(): parent p is the last, or it is dropped.
CancelLast(p) ==
    /\ CancelsOperation
    /\ Calls(p, IF p = Head(parents) THEN AboutToCancel(above[p])
                ELSE Step(above[p], <<>>))
    /\ Below(AboutToCancel(B))
    /\ result' = "Cancelling"
    /\ calls' = Calling("await_cancel", p)
    /\ UNCHANGED <<over, parents, waking, attached, got>>

Drop(p) ==
    /\ ~CancelsOperation
    /\ Calls(p, CancelReturned(AboutToCancel(above[p]), TRUE))
    /\ parents' = Unlink(parents, p) /\ waking' = Unlink(waking, p)
    /\ attached' = [attached EXCEPT ![p] = FALSE]
    /\ UNCHANGED <<below, calls, over, result, got>>

CancelReturnsTrue ==
    /\ InCall("await_cancel") /\ B.state = "Cancelling"
    /\ Below(CancelReturned(B, TRUE))
    /\ above' = [above EXCEPT ![Callee] = CancelReturned(@, TRUE)]
    /\ result' = "Cancelled"
    /\ parents' = Unlink(parents, Callee)
    /\ attached' = [attached EXCEPT ![Callee] = FALSE]
    /\ calls' = Tail(calls)
    /\ UNCHANGED <<over, waking, got>>

----------------------------------------------------------------------------
(* A parent that was resumed runs.                                         *)

\* await_must_resume(): State::mustResume().
MustResume(p) ==
    /\ \E val \in BOOLEAN :
        /\ Calls(p, MustResumeReturned(above[p], val))
        /\ IF result = "CancelPending"
           THEN Below(MustResumeReturned(B, val))
           ELSE val = (result # "Cancelled") /\ UNCHANGED below
    /\ UNCHANGED <<calls, over, result, parents, waking, attached, got>>

Resume(p) ==
    /\ above[p].state = "Ready"
    /\ TakeResult(p, above[p], B)
    /\ UNCHANGED <<calls, over, parents, waking, attached>>

\* The parent's Awaitable goes; the next one it makes is attached again.
Destroy(p) ==
    /\ Calls(p, Reset(above[p])) /\ above[p] # Fresh
    /\ parents' = Unlink(parents, p) /\ waking' = Unlink(waking, p)
    /\ attached' = [attached EXCEPT ![p] = TRUE]
    /\ UNCHANGED <<below, calls, over, result, got>>

Next ==
    \/ \E p \in Parents : ArriveReady(p) \/ ArriveSuspend(p) \/ EarlyCancel(p)
         \/ SetExecutorAhead(p) \/ CancelLast(p) \/ Drop(p) \/ MustResume(p)
         \/ Resume(p) \/ Destroy(p)
    \/ ChildResumes \/ SuspendThrows \/ Wake \/ Returns \/ CancelReturnsTrue

\* Calls return, parents that are resumed go on, and child 1 ends once it is
\* cancelled.
CallsReturn == SuspendThrows \/ Wake \/ Returns \/ CancelReturnsTrue
GoesOn(p) == MustResume(p) \/ Resume(p)
OperationEnds == B.state = "Cancelling" /\ ChildResumes

Fairness ==
    WF_vars(CallsReturn) /\ (\A p \in Parents : WF_vars(GoesOn(p)))
      /\ WF_vars(OperationEnds)

Spec == Init /\ [][Next]_vars /\ Fairness

----------------------------------------------------------------------------
(* Every parent gets the same result, and the operation is cancelled only  *)
(* once a single parent is left and it is cancelled.                       *)
Agreed ==
    /\ ~(Results \subseteq got)
    /\ B.state = "Cancelling" =>
          \E p \in Parents : parents = <<p>> /\ above[p].state = "Cancelling"

(* A suspended parent is on the list of a running operation, or about to   *)
(* be woken.                                                               *)
NobodyForgotten ==
    \A p \in Parents : Pending(above[p]) =>
        \/ Contains(parents, p) /\ Pending(B)
        \/ Contains(waking, p)

(* Why, where nobody takes a liberty: child 1 runs while parents wait for  *)
(* it and has ended when they are woken, and the result is there once.     *)
ListsSound ==
    /\ above \in [Parents -> Checker] /\ below \in [{1} -> Checker]
    /\ calls \in Seq([fn : {"await_suspend", "await_cancel", "invoke"}, to : Parents \cup {1}])
    /\ parents \in Seq(Parents) /\ waking \in Seq(Parents)
    /\ \A i, j \in 1..Len(parents) : parents[i] = parents[j] => i = j
    /\ \A i, j \in 1..Len(waking) : waking[i] = waking[j] => i = j
    /\ attached \in [Parents -> BOOLEAN]
    /\ over = "no"

OneOperation ==
    /\ B.state \in {"Initial", "Running", "Cancelling", "Ready", "Cancelled", "Done"}
    /\ Pending(B) <=> parents # <<>>
    /\ result \in Results \cup {"Incomplete", "Cancelling", "Cancelled"}
    /\ result = "Incomplete" => B.state \in {"Initial", "Running", "Ready"}
    /\ B.state \in {"Initial", "Running"} => result = "Incomplete"
    /\ result = "Cancelling" <=> B.state = "Cancelling"
    /\ got \subseteq {"unavailable"} \cup ({result} \cap Results)

Parent(p) ==
    /\ above[p].state \in {"Initial", "Running", "Cancelling", "Ready",
                          "ReadyAfterCancel", "Cancelled", "Done"}
    /\ Pending(above[p]) <=> Contains(parents, p) \/ Contains(waking, p)
    /\ above[p].state = "Cancelling" => B.state # "Running"
    /\ above[p].state \in {"Ready", "ReadyAfterCancel"} => B.state # "Initial" /\ ~Pending(B)

WhoWaits ==
    /\ \A p \in Parents : Parent(p)
    /\ waking # <<>> => B.state # "Initial" /\ ~Pending(B)
    /\ B.state = "Cancelling" =>
            Len(parents) = 1 /\ above[Head(parents)].state = "Cancelling"

CancelUnderWay ==
    \A i \in 1..Len(calls) : calls[i].fn = "await_cancel" =>
        /\ B.state \notin {"Initial", "Running"}
        /\ B.state = "Cancelling" => parents = <<calls[i].to>>

Inv == ListsSound /\ OneOperation /\ WhoWaits /\ CancelUnderWay
=============================================================================
