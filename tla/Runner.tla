------------------------------- MODULE Runner -------------------------------
(***************************************************************************)
(* run.h: corral::run() awaits child 1 from outside of any task, and runs  *)
(* the event loop meanwhile.  The program may stop the loop by itself, and *)
(* what run() does then may be made to throw (config.h).  Child 1 is then  *)
(* cancelled; that it ends so, instead of being abandoned, is a liberty:   *)
(*   "endsLate"  it resumes the handle when run() has given up             *)
(***************************************************************************)
EXTENDS Awaitable

CONSTANT Liberties  \* {"endsLate"}, or none

VARIABLES
    at,         \* where run() is
    eventLoop,  \* eventLoop_ is not null
    stopSoon    \* the executor has the call of stop() on its list

vars == <<shared, at, eventLoop, stopSoon>>

B == below[1]
Below(c) == below' = [below EXCEPT ![1] = c]

TypeOK ==
    /\ ProtocolTypeOK
    /\ at \in {"begin", "suspend", "runSoon", "loop", "drain", "fail", "cancel",
               "spin", "resume", "leave", "left"}
    /\ eventLoop \in BOOLEAN /\ stopSoon \in BOOLEAN

Init == /\ ProtocolInit({}, {1})
        /\ at = "begin"
        /\ eventLoop = TRUE /\ stopSoon = FALSE

----------------------------------------------------------------------------
(* The child, in whatever runs: its own calls, the loop, the executor.     *)

\* Its handle is resumed: runSoon() of the call of stop().
ChildResumes ==
    /\ Pending(B) /\ over = "no" /\ at # "fail"
    /\ at \in {"cancel", "spin"} => "endsLate" \in Liberties
    /\ Below(Resumed(B))
    /\ stopSoon' = TRUE
    /\ UNCHANGED <<above, calls, over, at, eventLoop>>

\* The executor runs until its list is empty, before run() goes on.
RunStop ==
    /\ stopSoon
    /\ stopSoon' = FALSE
    /\ eventLoop' = FALSE
    /\ UNCHANGED <<shared, at>>

----------------------------------------------------------------------------
(* run().                                                                  *)

\* run() goes on from "here", everything else having returned.
From(here) == at = here /\ over = "no" /\ ~stopSoon

Ready ==
    /\ From("begin")
    /\ \E val \in BOOLEAN :
        /\ Below(ReadyReturned(B, val))
        /\ at' = IF val THEN "resume" ELSE "suspend"
    /\ UNCHANGED <<above, calls, over, eventLoop, stopSoon>>

Suspend ==
    /\ From("suspend") /\ calls = <<>>
    /\ Below(AboutToSuspend(AboutToSetExecutor(B)))
    /\ calls' = Calling("await_suspend", 1)
    /\ UNCHANGED <<above, over, at, eventLoop, stopSoon>>

SuspendReturns ==
    /\ From("suspend") /\ InCall("await_suspend")
    /\ calls' = <<>>
    /\ at' = "runSoon"
    /\ UNCHANGED <<above, below, over, eventLoop, stopSoon>>

SuspendThrows ==
    /\ From("suspend") /\ InCall("await_suspend") /\ Pending(B)
    /\ Below(SuspendThrew(B))
    /\ calls' = <<>>
    /\ at' = "leave"
    /\ UNCHANGED <<above, over, eventLoop, stopSoon>>

\* Whether there is still something to wait for.
Unfinished == eventLoop

\* runSoon() comes back, then the event loop, which the call of stop() or
\* anybody else has stopped, and then drain().
GoOn ==
    \E step \in {[from |-> "runSoon", to |-> "loop"], [from |-> "loop", to |-> "drain"],
                 [from |-> "drain", to |-> "fail"]} :
        /\ From(step.from)
        /\ at' = IF Unfinished THEN step.to ELSE "resume"
        /\ UNCHANGED <<shared, eventLoop, stopSoon>>

\* CORRAL_FAIL_FOR_DANGLING_TASKS ends the program, or
FailTerminates ==
    /\ From("fail")
    /\ over' = "terminated"
    /\ UNCHANGED <<above, below, calls, at, eventLoop, stopSoon>>

\* throws: the guard then cancels the child,
FailThrows ==
    /\ From("fail")
    /\ Below(AboutToCancel(B))
    /\ calls' = Calling("await_cancel", 1)
    /\ at' = "cancel"
    /\ UNCHANGED <<above, over, eventLoop, stopSoon>>

CancelReturns ==
    /\ From("cancel")
    /\ \/ at' = "spin" /\ UNCHANGED below
       \/ B.state = "Cancelling" /\ Below(CancelReturned(B, TRUE)) /\ at' = "leave"
    /\ calls' = <<>>
    /\ UNCHANGED <<above, over, eventLoop, stopSoon>>

\* and gives it a drain() to end in, or abandons it.
SpinEnds ==
    /\ From("spin")
    /\ IF Unfinished THEN Below(Fresh) ELSE UNCHANGED below
    /\ at' = "leave"
    /\ UNCHANGED <<above, calls, over, eventLoop, stopSoon>>

Resume ==
    /\ From("resume")
    /\ Below(AboutToResume(B))
    /\ at' = "leave"
    /\ UNCHANGED <<above, calls, over, eventLoop, stopSoon>>

\* The adapter is destroyed, with its checker.
Leave ==
    /\ From("leave")
    /\ Below(Reset(B))
    /\ at' = "left"
    /\ over' = "destroyed"
    /\ UNCHANGED <<above, calls, eventLoop, stopSoon>>

Next == ChildResumes \/ RunStop \/ Ready \/ Suspend \/ SuspendReturns
          \/ SuspendThrows \/ GoOn \/ FailTerminates \/ FailThrows
          \/ CancelReturns \/ SpinEnds \/ Resume \/ Leave

Spec == Init /\ [][Next]_vars

----------------------------------------------------------------------------
(* run() waits in the event loop only for what has not ended, however and  *)
(* whenever it ends, and has a result to return if it goes on, although    *)
(* anybody may stop the loop.                                              *)
LoopStopped ==
    /\ at \in {"loop", "drain", "fail"} => Pending(B) \/ stopSoon \/ ~eventLoop
    /\ at = "resume" => B.state \in {"ReadyImmediately", "Ready"}

\* The child waits, or has told run() to stop the loop.
Waits == B.state = "Running" /\ eventLoop /\ ~stopSoon
Told == B.state = "Ready" /\ (eventLoop <=> stopSoon)

\* Where run() is, if a child that run() cancels and abandons never resumes
\* its handle.
Inv ==
    /\ above \in [{} -> Checker] /\ below \in [{1} -> Checker]
    /\ at \in {"begin", "suspend", "runSoon", "loop", "drain", "fail", "cancel",
               "spin", "resume", "leave", "left"}
    /\ eventLoop \in BOOLEAN /\ stopSoon \in BOOLEAN
    /\ IF at = "left" THEN over = "destroyed"
       ELSE over = "no" \/ (over = "terminated" /\ at = "fail")
    /\ calls = IF at = "cancel" THEN <<[fn |-> "await_cancel", to |-> 1]>>
               ELSE IF at = "suspend" /\ B.state # "NotReady"
                    THEN <<[fn |-> "await_suspend", to |-> 1]>> ELSE <<>>
    /\ at \in {"begin", "left"} => B.state = "Initial"
    /\ at \in {"begin", "cancel", "spin"} => eventLoop /\ ~stopSoon
    /\ at = "suspend" => (B.state = "NotReady" /\ eventLoop /\ ~stopSoon) \/ Waits \/ Told
    /\ at \in {"runSoon", "loop", "drain"} => Waits \/ Told
    /\ at = "fail" => Waits
    /\ at \in {"cancel", "spin"} => B.state = "Cancelling"
    /\ at = "resume" => ~stopSoon
    /\ at = "resume" => B.state = "ReadyImmediately" \/ (B.state = "Ready" /\ ~eventLoop)
    /\ at \in {"leave", "left"} => ~stopSoon
    /\ at = "leave" => B.state \in {"Initial", "Done", "Cancelled"}
=============================================================================
