------------------------------ MODULE MCLives -------------------------------
(* Instances of Lives for TLC. *)
EXTENDS Lives, TLC

CONSTANTS u1, u2, j

\* Both viewers ask for the stream, one of them in the quality it does not have;
\* its encoder logs in as either type.
MCUserId == u1 :> 1 @@ u2 :> 2
MCAsks == u1 :> {j} @@ u2 :> {j}
MCTypes == j :> {"H264", "JPEG"}
=============================================================================
