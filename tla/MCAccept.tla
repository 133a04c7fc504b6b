------------------------------- MODULE MCAccept -------------------------------
(* Symmetry of the connections of AcceptLoop for TLC. *)
EXTENDS AcceptLoop, TLC

Symmetry == Permutations(Conns)
=============================================================================
