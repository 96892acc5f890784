------------------------------- MODULE XModem -------------------------------
(***************************************************************************)
(* qt/corralXModem.cpp: upload() at one end of a serial line, download()   *)
(* at the other.                                                           *)
(*                                                                         *)
(* The line keeps the order of what is written to it and may lose or       *)
(* damage it, at most MaxTroubles times.  What is damaged is recognisable: *)
(* a control character becomes one of no meaning, and the CRC of a block   *)
(* does not match.  The body of a packet (the 132 bytes behind SOH) is     *)
(* lost or damaged as a whole.                                             *)
(*                                                                         *)
(* Time is not modelled: a timeout may occur whenever what is waited for   *)
(* is not there.  It is counted as trouble, in "troubles", unless the      *)
(* other end waits as well or has gone.                                    *)
(***************************************************************************)
EXTENDS Naturals, Sequences, SequencesExt, FiniteSets

CONSTANTS
    Lengths,        \* lengths of the file, in blocks
    Modulus,        \* the packet has sequenceNumber % Modulus (256 in the code)
    MaxCalls,       \* NCGs that download() sends in its 10 seconds
    MaxTroubles     \* bound: troubles of one transfer

ASSUME XModemAssumption ==
    /\ Lengths \subseteq Nat
    /\ Modulus \in Nat \ {0, 1}
    /\ MaxCalls \in Nat \ {0}
    /\ MaxTroubles \in Nat

VARIABLES
    length,     \* of the file
    up,         \* upload(): where it is, and its locals
    down,       \* download(): where it is, and its locals
    toUp,       \* what download() wrote and upload() has not read
    toDown,     \* what upload() wrote and download() has not read
    received,   \* the blocks that download() has given to dataFunction
    troubles    \* history: what went wrong, in order

vars == <<length, up, down, toUp, toDown, received, troubles>>

Char(c) == [kind |-> c, block |-> 0, seq |-> 0]
Body(n) == [kind |-> "body", block |-> n, seq |-> n % Modulus]
Damaged == Char("damaged")
Packet(n) == <<Char("SOH"), Body(n)>>
Cans == <<Char("CAN"), Char("CAN"), Char("CAN"), Char("CAN")>>
IsBody(m) == m.kind \in {"body", "damaged"}

Message == [kind : {"SOH", "EOT", "ACK", "NAK", "CAN", "NCG", "junk",
                    "body", "damaged"},
            block : Nat, seq : 0..(Modulus - 1)]

TypeOK ==
    /\ length \in Lengths
    /\ up \in [at : {"start", "next", "reply", "eot", "done"},
               seq : 1..(length + 1), count : {0, 2, 4}, ret : BOOLEAN]
    /\ down \in [at : {"call", "hello", "command", "block", "done"},
                 seq : 1..(length + 1), calls : 0..MaxCalls, ret : BOOLEAN]
    /\ toUp \in Seq(Message) /\ toDown \in Seq(Message)
    /\ received \in Seq(1..length)
    /\ troubles \in Seq({"line", "call", "late", "data"})
    /\ Len(troubles) <= MaxTroubles

Init ==
    /\ length \in Lengths
    /\ up = [at |-> "start", seq |-> 1, count |-> 0, ret |-> FALSE]
    /\ down = [at |-> "call", seq |-> 1, calls |-> 0, ret |-> FALSE]
    /\ toUp = <<>> /\ toDown = <<>> /\ received = <<>> /\ troubles = <<>>

----------------------------------------------------------------------------
(* Waiting and its timeouts.                                               *)

\* Something goes wrong, while the bound allows it.
Trouble(what) ==
    Len(troubles) < MaxTroubles /\ troubles' = Append(troubles, what)

\* The bytes that download() has not read have a first body at i, or none:
\* read() has its 132 bytes if there is a body.
BodyAt(i) ==
    IsBody(toDown[i]) /\ \A j \in DOMAIN toDown : IsBody(toDown[j]) => i <= j
NoBody == \A i \in DOMAIN toDown : ~IsBody(toDown[i])

UpWaits == up.at \in {"start", "reply", "eot"} /\ toUp = <<>>
DownWaits ==
    \/ down.at \in {"hello", "command"} /\ toDown = <<>>
    \/ down.at = "block" /\ NoBody

\* A timeout of either end, which is trouble if the other could still act.
UpTimeout ==
    /\ UpWaits
    /\ IF DownWaits \/ down.at = "done" THEN UNCHANGED troubles
       ELSE Trouble("late")
DownTimeout(what) ==
    /\ DownWaits
    /\ IF UpWaits \/ up.at = "done" THEN UNCHANGED troubles ELSE Trouble(what)

----------------------------------------------------------------------------
(* upload()                                                                *)

\* The next character from the other end.
Reads(at, c) ==
    up.at = at /\ toUp # <<>> /\ Head(toUp).kind = c /\ toUp' = Tail(toUp)

UpSends(msgs) ==
    toDown' = toDown \o msgs /\ UNCHANGED <<length, down, received>>

\* ret = false: the loop is left, and the transfer is cancelled.
GiveUp == up' = [up EXCEPT !.at = "done", !.ret = FALSE] /\ UpSends(Cans)

\* The first character must be NCG; nothing is said if it is not.
Start ==
    /\ \/ /\ Reads("start", "NCG")
          /\ up' = [up EXCEPT !.at = "next"]
       \/ /\ \E c \in {"ACK", "NAK", "CAN", "junk"} : Reads("start", c)
          /\ up' = [up EXCEPT !.at = "done"]
    /\ UpSends(<<>>) /\ UNCHANGED troubles

StartTimeout ==
    /\ up.at = "start" /\ UpTimeout
    /\ up' = [up EXCEPT !.at = "done"]
    /\ UpSends(<<>>) /\ UNCHANGED toUp

\* dataFunction() has a block, has no more, or fails.
SendBlock ==
    /\ up.at = "next" /\ up.seq <= length
    /\ up' = [up EXCEPT !.at = "reply", !.count = 0]
    /\ UpSends(Packet(up.seq)) /\ UNCHANGED <<toUp, troubles>>

SendEOT ==
    /\ up.at = "next" /\ up.seq > length
    /\ up' = [up EXCEPT !.at = "eot"]
    /\ UpSends(<<Char("EOT")>>) /\ UNCHANGED <<toUp, troubles>>

SourceFails ==
    /\ up.at = "next" /\ Trouble("data")
    /\ GiveUp /\ UNCHANGED toUp

MayRetry == up.count < 4

BugCount == up.count
\* transmitCount is incremented at the retry and by the for loop.
Count == up.count + 2

\* The reply to a block.
ReplyACK ==
    /\ Reads("reply", "ACK")
    /\ up' = [up EXCEPT !.at = "next", !.seq = @ + 1]
    /\ UpSends(<<>>) /\ UNCHANGED troubles

ReplyNCG ==
    /\ Reads("reply", "NCG")
    /\ up' = [up EXCEPT !.at = "next"]
    /\ UpSends(<<>>) /\ UNCHANGED troubles

ReplyCAN == Reads("reply", "CAN") /\ GiveUp /\ UNCHANGED troubles

ReplyOther ==
    /\ \E c \in {"NAK", "junk"} : Reads("reply", c)
    /\ IF MayRetry
       THEN up' = [up EXCEPT !.count = Count] /\ UpSends(Packet(up.seq))
       ELSE GiveUp
    /\ UNCHANGED troubles

ReplyTimeout ==
    /\ up.at \in {"reply", "eot"} /\ UpTimeout
    /\ GiveUp /\ UNCHANGED toUp

BugConfirmed(c) == c # "CAN"
Confirmed(c) == c = "ACK"

\* The reply to EOT.
ReplyEOT ==
    /\ \E c \in {"ACK", "NAK", "NCG", "CAN", "junk"} :
          /\ Reads("eot", c)
          /\ IF Confirmed(c)
             THEN up' = [up EXCEPT !.at = "done", !.ret = TRUE] /\ UpSends(<<>>)
             ELSE GiveUp
    /\ UNCHANGED troubles

Upload ==
    \/ Start \/ StartTimeout \/ SendBlock \/ SendEOT \/ SourceFails
    \/ ReplyACK \/ ReplyNCG \/ ReplyCAN \/ ReplyOther \/ ReplyTimeout
    \/ ReplyEOT

----------------------------------------------------------------------------
(* download()                                                              *)

DownSends(msgs) == toUp' = toUp \o msgs /\ UNCHANGED <<length, up>>

\* NCG is sent again and again until there is an answer, or for 10 seconds.
Call ==
    /\ down.at = "call"
    /\ IF down.calls < MaxCalls
       THEN /\ down' = [down EXCEPT !.at = "hello", !.calls = @ + 1]
            /\ DownSends(<<Char("NCG")>>)
       ELSE down' = [down EXCEPT !.at = "done"] /\ DownSends(<<>>)
    /\ UNCHANGED <<toDown, received, troubles>>

CallTimeout ==
    /\ down.at = "hello" /\ DownTimeout("call")
    /\ down' = [down EXCEPT !.at = "call"]
    /\ DownSends(<<>>) /\ UNCHANGED <<toDown, received>>

\* download() returns, with a reply or without.
Return(r) == down' = [down EXCEPT !.at = "done", !.ret = r]
Fail == Return(FALSE) /\ DownSends(Cans)

\* The answer to a call, or the next command: the head of a loop that
\* interprets one and reads what belongs to it.
Command ==
    /\ down.at \in {"hello", "command"} /\ toDown # <<>>
    /\ LET ret == down.at = "hello" \/ down.ret
           c == Head(toDown).kind
       IN  \/ /\ c = "SOH"
              /\ down' = [down EXCEPT !.at = "block", !.ret = ret]
              /\ DownSends(<<>>)
           \/ /\ c = "EOT" /\ ret
              /\ Return(TRUE)
              /\ DownSends(<<Char("ACK")>>)
           \/ /\ c = "CAN"
              /\ Return(FALSE)
              /\ DownSends(<<>>)
           \/ /\ c \notin {"SOH", "CAN"} /\ (c = "EOT" => ~ret)
              /\ Fail
    /\ toDown' = Tail(toDown)
    /\ UNCHANGED <<received, troubles>>

CommandTimeout ==
    /\ down.at \in {"command", "block"} /\ DownTimeout("late")
    /\ Fail /\ UNCHANGED <<toDown, received>>

BugAnySeq(m) == m.kind = "body"
BugUnwrapped(m) == m.kind = "body" /\ m.seq = down.seq
\* The sequence number, its complement and the CRC are right.
Intact(m) == m.kind = "body" /\ m.seq = down.seq % Modulus

\* The 132 bytes that are read: a body, or what precedes it and most of it.
Data(i) == IF i = 1 THEN toDown[1] ELSE Damaged
Unread(i) == [j \in 1..(i - 1) |-> Char("junk")]
                 \o SubSeq(toDown, i + 1, Len(toDown))

\* A block is read, and found good or not: after one that was not right "ret"
\* stays false.
Read(i) == down.at = "block" /\ BodyAt(i) /\ toDown' = Unread(i)
Good(i) == down.ret /\ Intact(Data(i))

BlockNAK(i) ==
    /\ Read(i) /\ ~Good(i)
    /\ down' = [down EXCEPT !.at = "command", !.ret = FALSE]
    /\ DownSends(<<Char("NAK")>>)
    /\ UNCHANGED <<received, troubles>>

BlockACK(i) ==
    /\ Read(i) /\ Good(i)
    /\ down' = [down EXCEPT !.at = "command", !.seq = @ + 1]
    /\ received' = Append(received, Data(i).block)
    /\ DownSends(<<Char("ACK")>>)
    /\ UNCHANGED troubles

\* dataFunction() was given the block and returns false.
SinkFails(i) ==
    /\ Read(i) /\ Good(i) /\ Trouble("data")
    /\ received' = Append(received, Data(i).block)
    /\ Fail

Download ==
    \/ Call \/ CallTimeout \/ Command \/ CommandTimeout
    \/ \E i \in DOMAIN toDown : BlockNAK(i) \/ BlockACK(i) \/ SinkFails(i)

----------------------------------------------------------------------------
(* The line.                                                               *)

Damage(m) == IF IsBody(m) THEN Damaged ELSE Char("junk")

LineUp ==
    /\ \E i \in DOMAIN toUp :
          toUp' \in {RemoveAt(toUp, i), ReplaceAt(toUp, i, Damage(toUp[i]))}
    /\ UNCHANGED toDown

LineDown ==
    /\ \E i \in DOMAIN toDown :
          toDown' \in {RemoveAt(toDown, i),
                       ReplaceAt(toDown, i, Damage(toDown[i]))}
    /\ UNCHANGED toUp

Line ==
    /\ LineUp \/ LineDown
    /\ Trouble("line")
    /\ UNCHANGED <<length, up, down, received>>

Next == Upload \/ Download \/ Line

Spec == Init /\ [][Next]_vars

\* Both ends run; timers fire and data functions return.
FairSpec == Spec /\ WF_vars(Upload) /\ WF_vars(Download)

----------------------------------------------------------------------------
(* Properties.                                                             *)

Over == up.at = "done" /\ down.at = "done"
File == [i \in 1..length |-> i]

\* The data function is given the blocks of the file in order, none twice and
\* none omitted, although packets are lost, damaged and repeated.
InOrder == IsPrefix(received, File)

\* When download() answers true the whole file has been received, and when
\* upload() does, download() does as well.
AnswersAreTrue ==
    /\ down.ret /\ down.at = "done" => received = File
    /\ up.ret => down.at = "done" /\ down.ret

\* Without trouble both ends succeed, however long the file is.
CleanSucceeds == Over /\ troubles = <<>> => up.ret /\ down.ret

\* Both functions return, whatever happens to the line or to the other end.
Terminates == <>Over

\* corralXModem.cpp:78 says of an NCG that is read as the reply to a block
\* "Ignores subsequent NCG (probably we took too much time to get first
\* block)": a transfer with no other trouble succeeds.  It does not: the block
\* is sent again, and download() fails on the duplicate.
LateStartSucceeds ==
    Over /\ ToSet(troubles) \subseteq {"call"} /\ down.calls < MaxCalls =>
        up.ret /\ down.ret
=============================================================================
