---------------------------- MODULE MCTimeoutQue ----------------------------
(* Small instances of TimeoutQue for TLC. *)
EXTENDS TimeoutQue
=============================================================================
