----------------------------- MODULE QueueState -----------------------------
(***************************************************************************)
(* One Queue, and what it promises whoever uses it.                        *)
(***************************************************************************)
EXTENDS Queue

VARIABLE q      \* the queue, of QueueUse or of a Channel

\* Objects come out in the order in which they were accepted, each of them
\* once, wherever the circular buffer wraps and however it grows
\* (detail/Queue.h), and whoever sends and receives them (Channel.h).
InOrder == INSTANCE FifoQueue WITH items <- Contents(q)
Delivers == InOrder!Spec
=============================================================================
