---------------------------- MODULE MCSemaphore ----------------------------
(* Semaphore for TLC.                                                      *)
EXTENDS Semaphore
=============================================================================
