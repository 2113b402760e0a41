------------------------------ MODULE MCAccounts ------------------------------
(* Small instances of Accounts for TLC. *)
EXTENDS Accounts, TLC

CONSTANTS t1, t2

TwoProcs == {t1, t2}

Symmetric == Permutations(Procs)
=============================================================================
