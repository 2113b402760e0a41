--------------------------- MODULE MCOrchestrator ---------------------------
(* Small instances of Orchestrator for TLC. *)
EXTENDS Orchestrator

CONSTANTS e1, p1, p2

\* A second execution at once would take a third claim.
OneExecution == {e1}

TwoResumers == {p1, p2}
=============================================================================
