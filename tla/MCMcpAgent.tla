------------------------------ MODULE MCMcpAgent ------------------------------
(* Small instances of McpAgent for TLC. *)
EXTENDS McpAgent

CONSTANTS t1, t2, t3

ThreeTools == {t1, t2, t3}
=============================================================================
