----------------------------- MODULE MCEventLog -----------------------------
(* Instances of EventLog for TLC. *)
EXTENDS EventLog, TLC

CONSTANTS w1, w2, w3

(* Transactions are interchangeable. *)
WriterSymmetry == Permutations(Writers)

(* No limit, a page of one event, and more than the maximum. *)
AnyLimit == {0, 1, 9}
=============================================================================
