---------------------------- MODULE MCReception ----------------------------
(* An instance of Reception for TLC. *)
EXTENDS Reception
=============================================================================
