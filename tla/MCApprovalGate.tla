--------------------------- MODULE MCApprovalGate ---------------------------
(* Instances of ApprovalGate for TLC. *)
EXTENDS ApprovalGate, TLC

CONSTANTS d1, d2, r1, r2, r3

RunAndDeciderSymmetry == Permutations(Runs) \cup Permutations(Deciders)
=============================================================================
