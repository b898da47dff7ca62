---------------------------- MODULE MCMsgTimeQue ----------------------------
(* Small instances of MsgTimeQue for TLC. *)
EXTENDS MsgTimeQue
=============================================================================
