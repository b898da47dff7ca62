----------------------------- MODULE MCEncLink -----------------------------
(* An instance of EncLink for TLC: every stream has an encoder of its own. *)
EXTENDS EncLink

CONSTANT s1

OwnEncoder == [s \in Streams |-> s]
=============================================================================
