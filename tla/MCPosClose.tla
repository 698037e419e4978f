----------------------------- MODULE MCPosClose -----------------------------
(* Instances of PosClose for TLC. *)
EXTENDS PosClose, TLC

Symmetry == Permutations(Workers) \cup Permutations(ClosingIds) \cup Permutations(Journals)
=============================================================================
