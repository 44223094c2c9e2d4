-------------------------- MODULE MCTaskLifecycle --------------------------
(* Instances of TaskLifecycle for TLC. *)
EXTENDS TaskLifecycle, TLC

CONSTANTS c1, r1, r2, v1, w1

(* The operator's Cancel comes from the process of run r1. *)
OneProcess == {<<c1, r1>>}

NoSharing == {}

RunSymmetry == Permutations(Runs)
=============================================================================
