---------------------------- MODULE MCPosCounter ----------------------------
(* Instances of PosCounter for TLC. *)
EXTENDS PosCounterInv, TLC

Symmetry == Permutations(Workers) \cup Permutations(Tickets) \cup Permutations(Registers)
=============================================================================
