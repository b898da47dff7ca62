------------------------------ MODULE MCUpload ------------------------------
(* An instance of Upload for TLC. *)
EXTENDS Upload
=============================================================================
