------------------------------ MODULE MCRelay ------------------------------
(* The relay on a few connections.                                         *)
EXTENDS Relay, TLC

Symmetry == Permutations(RoomIds) \cup Permutations(Conns) \cup Permutations(MsgIds)
=============================================================================
