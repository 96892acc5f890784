------------------------------- MODULE Value -------------------------------
(***************************************************************************)
(* Value.h: a variable whose assignments wake the tasks that wait for a    *)
(* value (untilMatches, untilEquals) or for a transition (untilChanged).   *)
(*                                                                         *)
(* A waiter is resumed through the executor: at once, and until everything *)
(* ready has run, when set() is called by the event loop; after the        *)
(* current task suspends, when set() is called by a task.  The loop of an  *)
(* outside set() is therefore one step per waiter, with tasks running in   *)
(* between; the loop of a set() by a task is one step.                     *)
(*                                                                         *)
(* A task makes an awaitable and awaits it in two steps: between them it   *)
(* may assign (anyOf(taskThatSets, v.untilMatches(p)) does) or wait for    *)
(* something else, while others assign.                                    *)
(***************************************************************************)
EXTENDS ValueState

vars == <<value_, parked_, todo, change, made, wait, result, resumed, cpu, missed>>

\* Every waiting task is linked once, in one list; a resumed one in none.
TypeOK ==
    /\ value_ \in Val /\ change \in Val \X Val
    /\ wait \in [Users -> Wanted \cup {None}]
    /\ result \in [Users -> [fn : Wanted, from : Val, to : Val] \cup {None}]
    /\ made \in [Users -> [fn : Wanted, result : Val \cup {None}] \cup {None}]
    /\ cpu \in Users \cup {None} /\ missed \subseteq Users
    /\ resumed \in Seq(Users) /\ IsInjective(resumed)
    /\ parked_ \o todo \in Seq(Users) /\ IsInjective(parked_ \o todo)
    /\ Range(parked_ \o todo) = {t \in Users : wait[t] # None}
    /\ \A t \in Range(resumed) \cup {cpu} : t # None => wait[t] = None

Init ==
    /\ value_ = InitialValue
    /\ parked_ = <<>> /\ todo = <<>>
    /\ change = <<InitialValue, InitialValue>>
    /\ made = [t \in Users |-> None]
    /\ wait = [t \in Users |-> None]
    /\ result = [t \in Users |-> None]
    /\ resumed = <<>>
    /\ cpu = None
    /\ missed = {}

\* What fn_ accepted.
Yield(w, from, to) == [fn |-> w, from |-> from, to |-> to]

\* The event loop has the thread: no task runs or is to run, no set() either.
InLoop == cpu = None /\ resumed = <<>> /\ todo = <<>>

\* What a constructor finds: UntilMatches looks at the value.
Looked(w) == IF w.on = "value" /\ value_ \in w.set THEN value_ ELSE None

\* The task that runs calls untilMatches() or untilChanged(), and drops the
\* awaitable it had made before and what the one before that has yielded.
Make(w) ==
    /\ cpu # None
    /\ made' = [made EXCEPT ![cpu] = [fn |-> w, result |-> Looked(w)]]
    /\ result' = [result EXCEPT ![cpu] = None]
    /\ missed' = missed \ {cpu}
    /\ UNCHANGED <<value_, parked_, todo, change, wait, resumed, cpu>>

BugReady == FALSE
\* await_ready() of what it has made: untilMatches() has a result already.
Ready == made[cpu].result # None

\* It awaits what it has made: await_resume() at once ...
AwaitReady ==
    /\ cpu # None /\ made[cpu] # None /\ Ready
    /\ LET m == made[cpu]
       IN  result' = [result EXCEPT ![cpu] = Yield(m.fn, m.result, m.result)]
    /\ made' = [made EXCEPT ![cpu] = None]
    /\ UNCHANGED <<value_, parked_, todo, change, wait, resumed, cpu, missed>>

\* ... or await_suspend().
Suspend ==
    /\ cpu # None /\ made[cpu] # None /\ ~Ready
    /\ parked_' = Append(parked_, cpu)
    /\ wait' = [wait EXCEPT ![cpu] = made[cpu].fn]
    /\ made' = [made EXCEPT ![cpu] = None]
    /\ cpu' = None
    /\ UNCHANGED <<value_, todo, change, result, resumed, missed>>

\* It awaits something else, or ends.
AwaitOther ==
    /\ cpu # None
    /\ cpu' = None
    /\ result' = [result EXCEPT ![cpu] = None]
    /\ UNCHANGED <<value_, parked_, todo, change, made, wait, resumed, missed>>

\* The next task of the executor runs.
Run ==
    /\ cpu = None /\ resumed # <<>>
    /\ cpu' = Head(resumed)
    /\ resumed' = Tail(resumed)
    /\ UNCHANGED <<value_, parked_, todo, change, made, wait, result, missed>>

\* The event loop resumes a task that waits for something else, or a new one.
Wake(t) ==
    /\ InLoop /\ wait[t] = None
    /\ cpu' = t
    /\ UNCHANGED <<value_, parked_, todo, change, made, wait, result, resumed, missed>>

\* Those who have made an awaitable and not awaited it.
MadeBefore == {t \in Users : made[t] # None}

\* set() by a task: the waiters that accept are submitted to the executor,
\* the others parked again in the same order.
SetInTask(v) ==
    LET accepting == {t \in Range(parked_) : Accepts(wait[t], value_, v)}
    IN  /\ cpu # None
        /\ value_' = v
        /\ parked_' = Sublist(parked_, Users \ accepting)
        /\ resumed' = resumed \o Sublist(parked_, accepting)
        /\ wait' = [t \in Users |-> IF t \in accepting THEN None ELSE wait[t]]
        /\ result' = [t \in Users |-> IF t \in accepting
                                     THEN Yield(wait[t], value_, v)
                                     ELSE result[t]]
        /\ missed' = MadeBefore \cup Range(todo)
        /\ UNCHANGED <<todo, change, made, cpu>>

\* set() by the event loop takes the list ...
Set(v) ==
    /\ InLoop
    /\ value_' = v
    /\ change' = <<value_, v>>
    /\ todo' = parked_
    /\ parked_' = <<>>
    /\ missed' = MadeBefore
    /\ UNCHANGED <<made, wait, result, resumed, cpu>>

BugPark(t) == todo' = Append(Tail(todo), t) /\ UNCHANGED parked_
\* park() of a waiter that the loop of set() has taken off its list.
Park(t) == todo' = Tail(todo) /\ parked_' = Append(parked_, t)

\* ... and calls onChanged() of each waiter, once the executor is idle again.
NotifyNoMatch ==
    /\ todo # <<>> /\ cpu = None /\ resumed = <<>>
    /\ ~Accepts(wait[Head(todo)], change[1], change[2])
    /\ Park(Head(todo))
    /\ UNCHANGED <<value_, change, made, wait, result, resumed, cpu, missed>>

BugNotifyMatch ==
    /\ todo # <<>> /\ cpu = None /\ resumed = <<>>
    /\ LET t == Head(todo)
       IN  /\ Accepts(wait[t], change[1], change[2])
           /\ result' = [result EXCEPT ![t] = Yield(wait[t], change[1], value_)]
           /\ wait' = [wait EXCEPT ![t] = None]
           /\ cpu' = t
    /\ todo' = Tail(todo)
    /\ UNCHANGED <<value_, parked_, change, made, resumed, missed>>
NotifyMatch ==
    /\ todo # <<>> /\ cpu = None /\ resumed = <<>>
    /\ LET t == Head(todo)
       IN  /\ Accepts(wait[t], change[1], change[2])
           /\ result' = [result EXCEPT ![t] = Yield(wait[t], change[1], change[2])]
           /\ wait' = [wait EXCEPT ![t] = None]
           /\ cpu' = t
    /\ todo' = Tail(todo)
    /\ UNCHANGED <<value_, parked_, change, made, resumed, missed>>

\* unlink(), whichever list the waiter is in.
UnlinkWaiter(t) == parked_' = Unlink(parked_, t) /\ todo' = Unlink(todo, t)

\* A waiter is cancelled, by the task that runs or by the event loop.
Cancel(t) ==
    /\ cpu # None \/ InLoop
    /\ wait[t] # None
    /\ UnlinkWaiter(t)
    /\ wait' = [wait EXCEPT ![t] = None]
    /\ UNCHANGED <<value_, change, made, result, resumed, cpu, missed>>

Next ==
    \/ \E w \in Wanted : Make(w)
    \/ \E v \in Val : SetInTask(v) \/ Set(v)
    \/ \E t \in Users : Wake(t) \/ Cancel(t)
    \/ AwaitReady \/ Suspend \/ AwaitOther \/ Run \/ NotifyNoMatch \/ NotifyMatch

Spec == Init /\ [][Next]_vars

\* A task that runs comes to a suspension point; the executor and the loop of
\* set() go on.
FairSpec ==
    /\ Spec
    /\ WF_vars(AwaitOther) /\ WF_vars(Run) /\ WF_vars(NotifyNoMatch \/ NotifyMatch)

----------------------------------------------------------------------------
\* The loop of set() ends, however often the tasks it resumes wait again,
\* unless they keep the executor busy for ever (Executor.h warns of it).
SetTerminates ==
    []<>(cpu = None /\ resumed = <<>>) => (todo # <<>> ~> todo = <<>>)
=============================================================================
