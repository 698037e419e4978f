-------------------------- MODULE MCPosManagerPin --------------------------
(* Instances of PosManagerPin for TLC. *)
EXTENDS PosManagerPin, TLC

Symmetry == Permutations(Workers) \cup Permutations(Managers) \cup Permutations(Pins)
              \cup Permutations(Creds)
=============================================================================
