------------------------------- MODULE MCMux -------------------------------
(* Mux for TLC.                                                            *)
EXTENDS Mux
=============================================================================
