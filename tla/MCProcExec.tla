----------------------------- MODULE MCProcExec -----------------------------
(* Instances of ProcExec for TLC: a command with two helpers.              *)
EXTENDS ProcExec
=============================================================================
