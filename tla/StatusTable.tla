---------------------------- MODULE StatusTable ----------------------------
(***************************************************************************)
(* The task statuses of internal/task/status.go and the transitions its    *)
(* table allows.  The database trigger of migration 0017 enforces the same *)
(* edges.  Constant operators only: every module about tasks extends it.   *)
(***************************************************************************)

Statuses == {"PENDING", "READY", "RUNNING", "VERIFYING", "WAITING_APPROVAL",
             "SUCCEEDED", "FAILED", "CANCELLED"}

(* The transitions map: what a status may change to. *)
Transitions(from) ==
  CASE from = "PENDING"          -> {"READY", "WAITING_APPROVAL", "CANCELLED"}
    [] from = "READY"            -> {"RUNNING", "WAITING_APPROVAL", "CANCELLED"}
    [] from = "WAITING_APPROVAL" -> {"READY", "FAILED", "CANCELLED"}
    [] from = "RUNNING"          -> {"VERIFYING", "READY", "FAILED", "CANCELLED"}
    [] from = "VERIFYING"        -> {"SUCCEEDED", "READY", "FAILED", "CANCELLED"}
    [] OTHER                     -> {}

(* Finished: no transition out of it exists. *)
Terminal(s) == s \in {"SUCCEEDED", "FAILED", "CANCELLED"}

(* Occupying execution resources. *)
Active(s) == s \in {"RUNNING", "VERIFYING"}

(* What a reader finds after DeleteTask: no row. *)
Gone == "GONE"
=============================================================================
