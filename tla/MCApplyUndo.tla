---------------------------- MODULE MCApplyUndo ----------------------------
(* Instances of ApplyUndo for TLC. *)
EXTENDS ApplyUndo, TLC

CONSTANTS a1, a2

CallerSymmetry == Permutations(Callers)
=============================================================================
