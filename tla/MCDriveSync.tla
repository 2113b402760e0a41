----------------------------- MODULE MCDriveSync -----------------------------
(* Small instances of DriveSync for TLC. *)
EXTENDS DriveSync, TLC

CONSTANTS p1, p2, c1, c2

TwoPaths == {p1, p2}
OnePath == {p1}
TwoContents == {c1, c2}

NoFaults == {}

Symmetric == Permutations(TwoPaths) \cup Permutations(TwoContents)
=============================================================================
