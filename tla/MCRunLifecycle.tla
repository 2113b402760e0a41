--------------------------- MODULE MCRunLifecycle ---------------------------
(* Small instances of RunLifecycle for TLC. *)
EXTENDS RunLifecycle, TLC

CONSTANTS w1, w2, rt1, rt2

TwoWorkers == {w1, w2}
OneWorker == {w1}
OneRuntime == {rt1}
TwoRuntimes == {rt1, rt2}

\* A crash of the runtime or a broken stream: failures a worker observes.
ObservedFaults == {"runtimeCrash", "streamBreak"}
StreamBreakOnly == {"streamBreak"}

Symmetric == Permutations(TwoWorkers) \cup Permutations(TwoRuntimes)
=============================================================================
