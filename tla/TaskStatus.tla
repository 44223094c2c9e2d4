----------------------------- MODULE TaskStatus -----------------------------
(***************************************************************************)
(* The abstract specification of one task row: its status starts PENDING,  *)
(* changes only along the edges of the state machine, and the row is       *)
(* deleted only once the task has finished.  TaskLifecycle and             *)
(* ApprovalGate, which have many writers, are shown to implement it.       *)
(***************************************************************************)
EXTENDS StatusTable

VARIABLE status

Init == status = "PENDING"

(* store.TransitionTask: UPDATE tasks SET status = to WHERE status = from. *)
TransitionTask(from, to) ==
  /\ to \in Transitions(from)
  /\ status = from
  /\ status' = to

(* store.DeleteTask: refused before the task has finished. *)
DeleteTask ==
  /\ Terminal(status)
  /\ status' = Gone

Next ==
  \/ \E from, to \in Statuses : TransitionTask(from, to)
  \/ DeleteTask

Spec == Init /\ [][Next]_status
=============================================================================
