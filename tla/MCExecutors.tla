---------------------------- MODULE MCExecutors ----------------------------
(* Executors for TLC: two executors of one event loop and one of another.  *)
EXTENDS Executors

CONSTANTS e1, e2, e3

MCExec == {e1, e2, e3}
MCLoop == (e1 :> "a") @@ (e2 :> "a") @@ (e3 :> "b")
=============================================================================
