-------------------------- MODULE MCPosRecognition --------------------------
(* Instances of PosRecognition for TLC: who serves a request, and which id an *)
(* owner gives a document, do not matter.                                     *)
EXTENDS PosRecognition, TLC

Symmetry ==
  Permutations(Workers) \cup Permutations(Invoices)
    \cup Permutations(Payments) \cup Permutations(Notes)
=============================================================================
