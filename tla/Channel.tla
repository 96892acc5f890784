------------------------------ MODULE Channel ------------------------------
(***************************************************************************)
(* Channel.h: an ordered channel of objects between tasks, bounded or not, *)
(* over a Queue and two parking lots.  As in a Semaphore, waking a waiter  *)
(* only schedules its task: its await_resume() calls tryReceive() or       *)
(* trySend() when the executor gets to it, and whatever runs in between    *)
(* may have taken the object or the space.                                 *)
(***************************************************************************)
EXTENDS QueueState, FiniteSets, Linked

CONSTANTS
    Task,
    Capacities, \* arguments of the constructor; 0 stands for no argument
    MaxSize     \* bound on the objects in an unbounded channel

ASSUME ChannelAssumption == Capacities \subseteq Nat

VARIABLES
    bounded,    \* bounded_
    closed,     \* closed_
    readers,    \* the reading half's parked_, oldest first
    writers,    \* the writing half's parked_
    woken,      \* unparked waiters the executor has still to run, in order
    answer      \* what the last call answered: none, object, nullopt (from
                \* receive), sent, refused (from send)

\* (buf_ is q, of QueueState.)
vars == <<q, bounded, closed, readers, writers, woken, answer>>

\* A parked or woken awaitable: its task and, for a send, the object.
Waiter == [task : Task, msg : Value \cup {Blank}]
Receiving(t) == [task |-> t, msg |-> Blank]
Sending(t, v) == [task |-> t, msg |-> v]
IsReceive(w) == w.msg = Blank
IsSend(w) == w.msg # Blank

Init ==
    \E c \in Capacities :
        /\ q = NewQueue(c)
        /\ bounded = (c > 0)
        /\ closed = FALSE
        /\ readers = <<>> /\ writers = <<>> /\ woken = <<>>
        /\ answer = "none"

Empty == q.size = 0
ChannelFull == (bounded /\ Full(q)) \/ closed

\* The task waits for neither half.
Out(t) ==
    \A w \in ToSet(readers) \cup ToSet(writers) \cup ToSet(woken) : w.task # t

\* ParkingLotImpl::unparkOne on one half: who is woken, and who stays.
BugOldest(lot) == IF Len(lot) <= 1 THEN <<>> ELSE <<lot[1]>>
Oldest(lot) == IF lot = <<>> THEN <<>> ELSE <<Head(lot)>>

\* Those of a list who stay when the first ones go.
Without(lot, first) == SubSeq(lot, Len(first) + 1, Len(lot))

BugTryReceive(run) ==
    /\ q' = IF Empty THEN q ELSE PopFront(q)
    /\ answer' = IF Empty THEN "nullopt" ELSE "object"
    /\ woken' = run
    /\ UNCHANGED writers

\* tryReceive(), the executor having run still to go: the object makes room
\* for a writer.
TryReceive(run) ==
    IF Empty
    THEN /\ answer' = "nullopt"
         /\ woken' = run
         /\ UNCHANGED <<q, writers>>
    ELSE /\ q' = PopFront(q)
         /\ answer' = "object"
         /\ woken' = run \o Oldest(writers)
         /\ writers' = Without(writers, Oldest(writers))

BugTrySend(v, run) ==
    /\ q' = PushBack(q, v)
    /\ answer' = "sent"
    /\ woken' = run \o Oldest(readers)
    /\ readers' = Without(readers, Oldest(readers))

\* trySend(v): the object is for a reader.
TrySend(v, run) ==
    IF ChannelFull
    THEN /\ answer' = "refused"
         /\ woken' = run
         /\ UNCHANGED <<q, readers>>
    ELSE /\ bounded \/ q.size < MaxSize
         /\ q' = PushBack(q, v)
         /\ answer' = "sent"
         /\ woken' = run \o Oldest(readers)
         /\ readers' = Without(readers, Oldest(readers))

\* A task awaits receive(): at once if there is an object or no hope of one.
Receive(t) ==
    /\ Out(t)
    /\ IF ~Empty \/ closed
       THEN TryReceive(woken) /\ UNCHANGED <<bounded, closed, readers>>
       ELSE /\ readers' = Append(readers, Receiving(t))
            /\ answer' = "none"
            /\ UNCHANGED <<q, bounded, closed, writers, woken>>

\* A task awaits send(v).
Send(t, v) ==
    /\ Out(t)
    /\ IF closed \/ ~ChannelFull
       THEN TrySend(v, woken) /\ UNCHANGED <<bounded, closed, writers>>
       ELSE /\ writers' = Append(writers, Sending(t, v))
            /\ answer' = "none"
            /\ UNCHANGED <<q, bounded, closed, readers, woken>>

\* tryReceive() and trySend() called by a task or a callback.
CallTryReceive ==
    /\ ~Empty
    /\ TryReceive(woken)
    /\ UNCHANGED <<bounded, closed, readers>>
CallTrySend(v) ==
    /\ ~ChannelFull
    /\ TrySend(v, woken)
    /\ UNCHANGED <<bounded, closed, writers>>

\* The executor resumes a woken task inside await_resume().
ResumeReader ==
    /\ woken # <<>> /\ IsReceive(Head(woken))
    /\ TryReceive(Tail(woken))
    /\ UNCHANGED <<bounded, closed, readers>>
ResumeWriter ==
    /\ woken # <<>> /\ IsSend(Head(woken))
    /\ TrySend(Head(woken).msg, Tail(woken))
    /\ UNCHANGED <<bounded, closed, writers>>

\* close(): everybody who waits is woken, readers first.
BugEverybody(lot) == Oldest(lot)
Everybody(lot) == lot
Close ==
    /\ ~closed
    /\ closed' = TRUE
    /\ woken' = (woken \o Everybody(readers)) \o Everybody(writers)
    /\ readers' = Without(readers, Everybody(readers))
    /\ writers' = Without(writers, Everybody(writers))
    /\ answer' = "none"
    /\ UNCHANGED <<q, bounded>>

\* await_cancel(): a parked task leaves its list.
Cancel(t) ==
    /\ \E w \in ToSet(readers) \cup ToSet(writers) :
        /\ w.task = t
        /\ readers' = Unlink(readers, w)
        /\ writers' = Unlink(writers, w)
    /\ answer' = "none"
    /\ UNCHANGED <<q, bounded, closed, woken>>

Next ==
    \/ \E t \in Task : Receive(t) \/ Cancel(t) \/ \E v \in Value : Send(t, v)
    \/ CallTryReceive \/ \E v \in Value : CallTrySend(v)
    \/ ResumeReader \/ ResumeWriter \/ Close

Spec == Init /\ [][Next]_vars

\* The executor runs what is scheduled.
FairSpec == Spec /\ WF_vars(ResumeReader \/ ResumeWriter)

----------------------------------------------------------------------------
\* The representation: one awaitable per task, receives and sends each on
\* their own list, and a buffer that never grows past its bound.
TypeOK ==
    /\ Valid(q)
    /\ bounded \in BOOLEAN /\ closed \in BOOLEAN
    /\ readers \in Seq(Waiter) /\ \A w \in ToSet(readers) : IsReceive(w)
    /\ writers \in Seq(Waiter) /\ \A w \in ToSet(writers) : IsSend(w)
    /\ woken \in Seq(Waiter)
    /\ bounded => q.capacity \in Capacities
    /\ LET all == readers \o writers \o woken
       IN  \A i, j \in 1..Len(all) : all[i].task = all[j].task => i = j

\* The woken tasks that will take an object, or fill a space.
Takers  == {w \in ToSet(woken) : IsReceive(w)}
Fillers == {w \in ToSet(woken) : IsSend(w)}

\* No receiver sleeps on an object that nobody is on the way to take, and
\* none sleeps on a closed channel (Channel.h, close()).
NoReaderStranded ==
    readers # <<>> =>
        ~closed /\ q.size <= Cardinality(Takers)

\* No sender sleeps in front of space that nobody is on the way to fill, and
\* none sleeps on a closed channel.
NoWriterStranded ==
    writers # <<>> =>
        /\ ~closed
        /\ q.capacity - q.size <= Cardinality(Fillers)

\* After close() everybody who waits is answered.
CloseAnswersAll == closed ~> (readers = <<>> /\ writers = <<>> /\ woken = <<>>)
=============================================================================
