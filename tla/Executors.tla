----------------------------- MODULE Executors -----------------------------
(***************************************************************************)
(* Executor.h, several executors of one thread: one per corral::run() or   *)
(* UnsafeNursery, each tied to an event loop.  Executors of the same loop  *)
(* are to behave as if they were one: a callback submitted to one of them  *)
(* while another runs waits for its turn.                                  *)
(*                                                                         *)
(* The C++ stack is "frames", innermost first: one frame per call of       *)
(* drain(), with what the entry it has taken is.  (The lists captured by   *)
(* capture() are in Nursery.)                                              *)
(***************************************************************************)
EXTENDS ExecutorsState

vars == <<ready, scheduled, frames>>

Frame(e) == [ex |-> e, entry |-> Idle]

TypeOK ==
    /\ ready \in [Exec -> Seq(Exec \cup {Work})]
    /\ scheduled \in [Exec -> BOOLEAN]
    /\ frames \in Seq([ex : Exec, entry : Exec \cup {Work, Idle}])
    /\ frames # <<>> => Head(frames).entry \notin Exec

Init ==
    /\ ready = [e \in Exec |-> <<>>]
    /\ scheduled = [e \in Exec |-> FALSE]
    /\ frames = <<>>

\* current(), when there is one.
Current == Head(frames).ex

\* The condition under which runSoon() leaves e to the current executor.
Defers(e) == frames # <<>> /\ ~scheduled[e] /\ Loop[Current] = Loop[e]

BugRunOnce(e, stack) ==
    /\ frames' = <<Frame(e)>> \o stack
    /\ UNCHANGED scheduled
\* runOnce() of an executor that is not running: drain() is entered.
RunOnce(e, stack) ==
    /\ scheduled' = [scheduled EXCEPT ![e] = FALSE]
    /\ frames' = <<Frame(e)>> \o stack

BugRunSoon(e, list) ==
    IF Running(e) \/ Defers(e)
    THEN /\ ready' = list /\ UNCHANGED frames
         /\ scheduled' = [scheduled EXCEPT ![e] = ~Running(e)]
    ELSE ready' = list /\ RunOnce(e, frames)

\* runSoon(), the ready lists being "list" once the callback is scheduled.
RunSoon(e, list) ==
    \/ /\ Running(e)
       /\ ready' = list
       /\ UNCHANGED <<scheduled, frames>>
    \/ /\ ~Running(e) /\ Defers(e)
       /\ scheduled' = [scheduled EXCEPT ![e] = TRUE]
       /\ ready' = [list EXCEPT ![Current] = Append(@, e)]
       /\ UNCHANGED frames
    \/ /\ ~Running(e) /\ ~Defers(e)
       /\ ready' = list
       /\ RunOnce(e, frames)

\* Code runs that may call an executor: the event loop, or a callback.
Caller == frames # <<>> => Head(frames).entry = Work

\* The bound on the lists of e and of the executors on the stack.
HasRoom(e) == \A x \in {e} \cup {frames[i].ex : i \in DOMAIN frames} :
                  Len(ready[x]) < MaxReady

\* runSoon(fn, arg).
Submit(e) ==
    /\ Caller /\ HasRoom(e)
    /\ RunSoon(e, [ready EXCEPT ![e] = Append(@, Work)])

\* schedule() and then drain(), whatever runs: UnsafeNursery::close().  A
\* drain() of e itself may be on the stack already: drain() is reentrant.
Drain(e) ==
    /\ Caller /\ HasRoom(e) /\ Len(frames) < MaxDepth
    /\ ready' = [ready EXCEPT ![e] = Append(@, Work)]
    /\ frames' = <<Frame(e)>> \o frames
    /\ UNCHANGED scheduled

\* The innermost drain() takes the next entry: a callback starts, ...
Begin ==
    /\ frames # <<>> /\ Head(frames).entry = Idle
    /\ LET list == ready[Current]
       IN  /\ list # <<>> /\ Head(list) = Work
           /\ ready' = [ready EXCEPT ![Current] = Tail(list)]
           /\ frames' = [frames EXCEPT ![1].entry = Work]
    /\ UNCHANGED scheduled

BugBeginRunOnce(e) ==
    /\ frames # <<>> /\ Head(frames).entry = Idle
    /\ LET list == ready[Current]
       IN  /\ list # <<>> /\ Head(list) = e
           /\ ready' = [ready EXCEPT ![Current] = Tail(list)]
    /\ scheduled' = [scheduled EXCEPT ![e] = FALSE] /\ UNCHANGED frames
\* ... or runOnce() of executor e, which drains unless e runs already.
BeginRunOnce(e) ==
    /\ frames # <<>> /\ Head(frames).entry = Idle
    /\ LET list == ready[Current]
       IN  /\ list # <<>> /\ Head(list) = e
           /\ ready' = [ready EXCEPT ![Current] = Tail(list)]
    /\ IF Running(e)
       THEN scheduled' = [scheduled EXCEPT ![e] = FALSE] /\ UNCHANGED frames
       ELSE RunOnce(e, [frames EXCEPT ![1].entry = e])

\* A callback returns to its drain().
End ==
    /\ frames # <<>> /\ Head(frames).entry = Work
    /\ frames' = [frames EXCEPT ![1].entry = Idle]
    /\ UNCHANGED <<ready, scheduled>>

\* drain() returns when its list is empty, into the callback or the runOnce()
\* that called it; the latter is over then.
Unwind(stack) ==
    IF stack # <<>> /\ Head(stack).entry \in Exec
    THEN [stack EXCEPT ![1].entry = Idle] ELSE stack
Leave ==
    /\ frames # <<>> /\ Head(frames).entry = Idle
    /\ ready[Current] = <<>>
    /\ frames' = Unwind(Tail(frames))
    /\ UNCHANGED <<ready, scheduled>>

Next ==
    \/ \E e \in Exec : Submit(e) \/ Drain(e) \/ BeginRunOnce(e)
    \/ Begin \/ End \/ Leave

Spec == Init /\ [][Next]_vars

\* The thread goes on: every callback returns.
FairSpec ==
    Spec /\ WF_vars(End)
         /\ WF_vars(Begin \/ Leave \/ \E e \in Exec : BeginRunOnce(e))

----------------------------------------------------------------------------
\* Whatever is submitted to e has run in the end, unless the program keeps
\* submitting (Executor.h warns of it).
Drained ==
    <>[][~\E e \in Exec : Submit(e) \/ Drain(e)]_vars =>
        \A e \in Exec : ready[e] # <<>> ~> ready[e] = <<>>
=============================================================================
