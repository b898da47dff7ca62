---------------------------- MODULE MCRespGather ----------------------------
(* Small instances of RespGather for TLC. *)
EXTENDS RespGather, TLC

CONSTANTS s1, s2

Symmetry == Permutations(Streams)
=============================================================================
