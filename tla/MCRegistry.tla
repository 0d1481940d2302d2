----------------------------- MODULE MCRegistry -----------------------------
(* The registry on four rooms that compete for three slots of the room map *)
(* and for one retention budget.                                           *)
EXTENDS Registry, TLC

Symmetry == Permutations(RoomIds) \cup Permutations(Conns) \cup Permutations(MsgIds)
=============================================================================
