------------------------------ MODULE MCXModem ------------------------------
(* XModem for TLC.                                                         *)
EXTENDS XModem
=============================================================================
