---------------------------- MODULE MCRecordCtrl ----------------------------
(* A small instance of RecordCtrl for TLC. *)
EXTENDS RecordCtrl
=============================================================================
