---------------------------- MODULE MCLlmRequests ----------------------------
(* Small instances of LlmRequests for TLC: two requests of one run.         *)
EXTENDS LlmRequests

CONSTANTS q1, q2, run

TwoRequests == {q1, q2}

OneRun == {run}

OfOneRun == [q \in TwoRequests |-> run]
=============================================================================
