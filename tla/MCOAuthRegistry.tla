--------------------------- MODULE MCOAuthRegistry ---------------------------
(* Small instances of OAuthRegistry for TLC: model values for the accounts, *)
(* the processes and the requests.                                          *)
EXTENDS OAuthRegistry

CONSTANTS ca1, ca2, server, runtime, r1, r2

TwoAccounts == {ca1, ca2}

OneServer == {server}

OneRuntime == {runtime}

TwoTasks == {r1, r2}
=============================================================================
