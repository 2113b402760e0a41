---------------------------- MODULE MCWorkerQueue ----------------------------
(* Small instances of WorkerQueue for TLC. *)
EXTENDS WorkerQueue, TLC

CONSTANTS w1, w2

TwoWorkers == {w1, w2}
=============================================================================
