------------------------------ MODULE QIODevice ------------------------------
(***************************************************************************)
(* qt/corralqiodevice.h: a task that reads bytes of a device, as many as   *)
(* it needs, again and again.  One task reads at a time (startListen()     *)
(* asserts it); what the bytes say is left out.                            *)
(*                                                                         *)
(* What the task or the device may do besides is a liberty:                *)
(*   "earlyRead"  a NonCancellableAwaiter is cancelled before it suspends  *)
(*   "slowRead"   bytes come when it was cancelled and its task has not    *)
(*                gone on yet, as under an anyOf() that waits for others   *)
(***************************************************************************)
EXTENDS Awaitable

CONSTANTS
    Liberties,  \* a subset of these two
    Chunk,      \* the 128 of check()
    MaxBytes,   \* bound on the bytes that come
    Needs       \* what a read may need; more than MaxBytes stands for discard()

VARIABLES
    m_buffer,       \* the size of it
    unread,         \* bytes the device has for tryRead()
    come,           \* bytes that have come
    m_awaiter,      \* there is one
    cancellable,    \* the class: CancellableAwaiter or NonCancellableAwaiter
    n,              \* what this read needs
    m_earlyCancel,
    m_listening,
    m_suspended

device == <<m_buffer, unread, come>>
kind == <<cancellable, n>>
awaiter == <<m_earlyCancel, m_listening, m_suspended>>
vars == <<shared, device, m_awaiter, kind, awaiter>>

A == above[1]

TypeOK ==
    /\ ProtocolTypeOK
    /\ m_buffer \in 0..MaxBytes /\ unread \in 0..MaxBytes /\ come \in 0..MaxBytes
    /\ m_awaiter \in BOOLEAN /\ cancellable \in BOOLEAN /\ n \in Needs
    /\ m_earlyCancel \in BOOLEAN /\ m_listening \in BOOLEAN /\ m_suspended \in BOOLEAN

NewAwaiter ==
    /\ cancellable' \in BOOLEAN /\ n' \in Needs
    /\ m_earlyCancel' = FALSE /\ m_listening' = FALSE /\ m_suspended' = FALSE

Init == /\ ProtocolInit({1}, {})
        /\ m_buffer = 0 /\ unread = 0 /\ come = 0
        /\ m_awaiter = FALSE
        /\ cancellable \in BOOLEAN /\ n \in Needs
        /\ m_earlyCancel = FALSE /\ m_listening = FALSE /\ m_suspended = FALSE

----------------------------------------------------------------------------
(* Bytes.                                                                  *)

AtMost(x, limit) == IF x <= limit THEN x ELSE limit

\* What check() takes of the bytes there are: a chunk at a time, until it has
\* enough.
ReadByCheck(bytes) ==
    LET missing == IF m_buffer < n THEN n - m_buffer ELSE 1
    IN  AtMost(Chunk * ((missing + Chunk - 1) \div Chunk), bytes)

\* check(), with that many bytes in the device: no bytes, no success.
CheckSucceeds(bytes) == bytes > 0 /\ m_buffer + bytes >= n
Check(bytes) == /\ m_buffer' = m_buffer + ReadByCheck(bytes)
                /\ unread' = bytes - ReadByCheck(bytes)

\* The device gets a byte; if somebody listens, onNewData() and newData().
Arrive ==
    /\ come < MaxBytes
    /\ m_awaiter /\ m_suspended /\ ~Pending(A) => "slowRead" \in Liberties
    /\ come' = come + 1
    /\ IF m_awaiter
       THEN /\ Check(unread + 1)
            /\ IF CheckSucceeds(unread + 1) /\ m_suspended
               THEN above' = [above EXCEPT ![1] = Resumed(A)] /\ m_suspended' = FALSE
               ELSE UNCHANGED <<above, m_suspended>>
       ELSE unread' = unread + 1 /\ UNCHANGED <<above, m_buffer, m_suspended>>
    /\ UNCHANGED <<below, calls, over, m_awaiter, kind, m_earlyCancel, m_listening>>

----------------------------------------------------------------------------
(* The calls of the task.                                                  *)

\* await_ready(): initialCheck(), and check().
Ready ==
    /\ A.state \in BeforeSuspend
    /\ Calls(1, ReadyReturned(A, m_buffer >= n \/ CheckSucceeds(unread)))
    /\ IF m_buffer >= n THEN UNCHANGED device ELSE Check(unread) /\ UNCHANGED come
    /\ UNCHANGED <<below, calls, over, m_awaiter, kind, awaiter>>

EarlyCancel ==
    /\ cancellable \/ "earlyRead" \in Liberties
    /\ Calls(1, EarlyCancelReturned(A, cancellable))
    /\ m_earlyCancel' = ~cancellable
    /\ UNCHANGED <<below, calls, over, device, m_awaiter, kind, m_listening, m_suspended>>

SetExecutor ==
    /\ ~A.hasExecutor
    /\ Calls(1, AboutToSetExecutor(A))
    /\ UNCHANGED <<below, calls, over, device, m_awaiter, kind, awaiter>>

\* startListen(): Q_ASSERT(!m_awaiter).
StartListen == m_awaiter' = TRUE /\ m_listening' = TRUE
EndListen == m_awaiter' = FALSE /\ m_listening' = FALSE

\* await_suspend(): it returns false if there is enough by then.
Suspend ==
    LET ready == CheckSucceeds(unread)
        a == AboutToSuspend(A)
        listen == ~ready /\ ~m_earlyCancel
    IN  /\ Legal(a)
        /\ Calls(1, IF ready THEN Resumed(a)
                    ELSE IF listen /\ m_awaiter THEN Step(a, <<>>) ELSE a)
        /\ Check(unread)
        /\ m_suspended' = listen
        /\ IF listen THEN StartListen ELSE UNCHANGED <<m_awaiter, m_listening>>
        /\ UNCHANGED <<below, calls, over, come, kind, m_earlyCancel>>

\* CancellableAwaiter stops to listen when it is cancelled.
StopListening == IF m_listening THEN EndListen ELSE UNCHANGED <<m_awaiter, m_listening>>

\* await_cancel(); NonCancellableAwaiter resumes its task itself.
Cancel ==
    /\ Legal(AboutToCancel(A))
    /\ IF cancellable
       THEN Calls(1, CancelReturned(AboutToCancel(A), TRUE)) /\ StopListening
       ELSE /\ Calls(1, Resumed(AboutToCancel(A)))
            /\ UNCHANGED <<m_awaiter, m_listening>>
    /\ UNCHANGED <<below, calls, over, device, kind, m_earlyCancel, m_suspended>>

MustResume ==
    /\ Calls(1, MustResumeReturned(A, ~cancellable))
    /\ UNCHANGED <<below, calls, over, device, m_awaiter, kind, awaiter>>

BugTaken == n
\* What result() takes: what there is.
Taken == AtMost(n, m_buffer)

\* await_resume() and result().
Resume ==
    /\ Calls(1, AboutToResume(A))
    /\ IF m_listening THEN EndListen ELSE UNCHANGED <<m_awaiter, m_listening>>
    /\ m_buffer' = m_buffer - Taken
    /\ UNCHANGED <<below, calls, over, unread, come, kind, m_earlyCancel, m_suspended>>

\* The awaiter goes, and there will be another read.
Destroy ==
    /\ A # Fresh /\ Calls(1, Reset(A))
    /\ NewAwaiter
    /\ UNCHANGED <<below, calls, over, device, m_awaiter>>

Next == Arrive \/ Ready \/ EarlyCancel \/ SetExecutor \/ Suspend \/ Cancel
          \/ MustResume \/ Resume \/ Destroy

\* A task that is resumed goes on.
GoesOn == MustResume \/ Resume

Fairness == WF_vars(GoesOn)

Spec == Init /\ [][Next]_vars /\ Fairness

----------------------------------------------------------------------------
(* A task that waits is heard when bytes come, and waits only because they *)
(* are too few; a read that ends by itself has what it needs; and the      *)
(* device calls no awaiter that is gone.                                   *)
ReaderHeard ==
    /\ Pending(A) => m_awaiter /\ m_suspended /\ unread = 0 /\ m_buffer < n
    /\ A.state \in {"ReadyImmediately", "Ready"} /\ ~m_suspended => m_buffer >= n
    /\ m_awaiter <=> m_listening

\* What holds if neither liberty is taken: where the awaiter is, what it still
\* needs there, and that the bytes are among those that have come.
Inv ==
    /\ above \in [{1} -> Checker] /\ below \in [{} -> Checker] /\ over = "no"
    /\ m_buffer \in Nat /\ unread \in Nat /\ come \in Nat
    /\ m_buffer + unread <= come /\ come <= MaxBytes
    /\ cancellable \in BOOLEAN /\ n \in Needs
    /\ m_awaiter \in BOOLEAN /\ m_listening \in BOOLEAN /\ m_suspended \in BOOLEAN
    /\ m_earlyCancel = FALSE
    /\ m_awaiter <=> m_listening
    /\ A.state \in {"Initial", "NotReady", "Running", "ReadyImmediately",
                    "ReadyAfterCancel", "Ready", "Done", "Cancelled"}
    /\ m_awaiter => A.state \in {"Running", "ReadyAfterCancel", "Ready"}
    /\ A.state = "Running" => m_awaiter /\ m_suspended
    /\ A.state = "ReadyAfterCancel" => m_awaiter /\ m_suspended /\ ~cancellable
    /\ A.state \in {"Initial", "NotReady", "ReadyImmediately"} => ~m_suspended
    /\ A.state \in {"NotReady", "Running"} => m_buffer < n
    /\ A.state = "Running" => unread = 0
    /\ A.state \in {"ReadyImmediately", "Ready"} => m_suspended \/ m_buffer >= n
=============================================================================
