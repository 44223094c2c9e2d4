---------------------------- MODULE MCMcpServer ----------------------------
(* Instances of McpServer for TLC.                                         *)
EXTENDS McpServer, TLC

CONSTANTS c1, c2, c3

\* Two calls, and three calls, of any tool.
TwoCalls == {c1, c2}
ThreeCalls == {c1, c2, c3}

\* Calls are interchangeable; for safety only.
CallSymmetry == Permutations(Calls)
=============================================================================
