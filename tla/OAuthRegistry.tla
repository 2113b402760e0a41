---------------------------- MODULE OAuthRegistry ----------------------------
(***************************************************************************)
(* The connection of one user to one provider: the row the database keeps  *)
(* of it, the accounts Composio has, and the status each process caches.   *)
(* src/mcp_agent/registry/oauth.py and crud.py, driven by the handlers of  *)
(* src/server/api/routes_mcp_auth.py and route_composio_redirect.py (in    *)
(* the server) and by the MCP agent's calls (in any process).              *)
(*                                                                         *)
(* Users and providers do not meet: every key of the cache and every query *)
(* names both, so one pair stands for all.  A transaction is one step; of  *)
(* two overlapping finalizations the second fails on a constraint          *)
(* (FinalizeFails).  A provider has one auth config and the table one row    *)
(* per user and auth config, so the connection is one row.                 *)
(***************************************************************************)
EXTENDS Naturals

CONSTANTS
    Accounts,     \* connected accounts Composio may hand out
    Servers,      \* processes that serve the handlers, each with its cache
    Runtimes,     \* processes that only read: each has a cache too
    Tasks,        \* concurrent requests and tool calls
    None,         \* no account, no cache entry
    MaxChanges    \* bound: commits of finalizations and disconnects

Procs == Servers \cup Runtimes

ASSUME RegistryAssumption ==
    /\ None \notin Accounts
    /\ Servers # {}
    /\ MaxChanges \in Nat

VARIABLES
    composio,     \* account -> its status at Composio
    row,          \* the connected account and its MCP connection
    cache,        \* process -> cached status of the provider, or None
    task,         \* task -> what it is doing
    changes,      \* number of commits so far
    cut           \* ghost: the process whose disconnect is in force, or None

vars == <<composio, row, cache, task, changes, cut>>

ComposioStatuses == {"unknown", "INITIATED", "ACTIVE", "EXPIRED"}
RowStatuses == {"ACTIVE", "other", "DISCONNECTED"}

\* What a poll has seen: nothing at all, a status that is not ACTIVE, ACTIVE.
Seen == {"nothing", "other", "ACTIVE"}

\* `token' says whether there is an Authorization header in the headers_json of a
\* row with a URL that says ACTIVE; of other rows nobody reads them.  `blind' is a
\* ghost: the row says ACTIVE although no poll had an answer.
Row == [ca : Accounts \cup {None}, status : RowStatuses, url : BOOLEAN,
        token : BOOLEAN, blind : BOOLEAN]
NoRow == [ca |-> None, status |-> "DISCONNECTED", url |-> FALSE,
          token |-> FALSE, blind |-> FALSE]

\* `old' is a ghost: a handler of the process has committed a change since the
\* entry was stored.
Entry == [ca : Accounts \cup {None}, authorized : BOOLEAN, old : BOOLEAN]

TaskStates == {"idle", "asking", "storing", "polling", "saving",
               "invalidating", "minting"}
Task == [pc : TaskStates, proc : Procs \cup {None}, ca : Accounts \cup {None},
         seen : Seen, ok : BOOLEAN]
Idle == [pc |-> "idle", proc |-> None, ca |-> None, seen |-> "nothing",
         ok |-> FALSE]
TaskIn(p) == [Idle EXCEPT !.proc = p]

Init ==
    /\ composio = [a \in Accounts |-> "unknown"]
    /\ row = NoRow
    /\ cache = [p \in Procs |-> None]
    /\ task = [t \in Tasks |-> Idle]
    /\ changes = 0
    /\ cut = None

\* A request takes the first slot that is free.
Free(t) ==
    /\ task[t].pc = "idle"
    /\ t = CHOOSE u \in Tasks : task[u].pc = "idle"

Become(t, new) == task' = [task EXCEPT ![t] = new]
Goto(t, pc) == task' = [task EXCEPT ![t].pc = pc]
Finish(t) == Become(t, Idle)

-----------------------------------------------------------------------------
(* Composio.                                                               *)

\* start_oauth: Composio creates an account and answers where to consent.
\* Accounts are handed out in one order.
StartOauth(a) ==
    /\ composio[a] = "unknown"
    /\ a = CHOOSE b \in Accounts : composio[b] = "unknown"
    /\ composio' = [composio EXCEPT ![a] = "INITIATED"]
    /\ UNCHANGED <<row, cache, task, changes, cut>>

\* The user consents; or an account lapses.
Consent(a) ==
    /\ composio[a] = "INITIATED"
    /\ composio' = [composio EXCEPT ![a] = "ACTIVE"]
    /\ UNCHANGED <<row, cache, task, changes, cut>>

Lapse(a) ==
    /\ composio[a] = "ACTIVE"
    /\ composio' = [composio EXCEPT ![a] = "EXPIRED"]
    /\ UNCHANGED <<row, cache, task, changes, cut>>

-----------------------------------------------------------------------------
(* What the queries return.                                                *)

\* Mutant: as if the query did not look at the status.
LinkedByUrl == IF row.url THEN row.ca ELSE None

\* get_active_context_for_provider: the account with an active row and a URL.
Linked == IF row.status = "ACTIVE" /\ row.url THEN row.ca ELSE None

-----------------------------------------------------------------------------
(* auth_status.                                                            *)

\* An entry that has not expired is the answer (_get_cached_status) and
\* changes nothing; otherwise the database is read, in its own transaction.
StatusMiss(t, p) ==
    /\ Free(t)
    /\ cache[p] = None
    /\ Become(t, [TaskIn(p) EXCEPT
            !.pc = IF Linked = None THEN "storing" ELSE "asking",
            !.ca = Linked])
    /\ UNCHANGED <<composio, row, cache, changes, cut>>

\* Composio is asked about the account; a failed check leaves it authorized.
AskComposio(t) ==
    /\ task[t].pc = "asking"
    /\ \E reached \in BOOLEAN :
          Become(t, [task[t] EXCEPT
              !.pc = "storing",
              !.ok = ~reached \/ composio[task[t].ca] = "ACTIVE"])
    /\ UNCHANGED <<composio, row, cache, changes, cut>>

\* _set_cached_status, whatever has happened since the read.
StoreStatus(t) ==
    LET p == task[t].proc IN
    /\ task[t].pc = "storing"
    /\ cache' = [cache EXCEPT ![p] =
            [ca |-> task[t].ca, authorized |-> task[t].ok, old |-> FALSE]]
    /\ Finish(t)
    /\ UNCHANGED <<composio, row, changes, cut>>

\* Mutant: as if a status `authorized' were kept until it is invalidated.
ExpireNegative(p) ==
    /\ cache[p] # None
    /\ ~cache[p].authorized
    /\ cache' = [cache EXCEPT ![p] = None]
    /\ UNCHANGED <<composio, row, task, changes, cut>>

\* The entry's time to live, at most an hour, is over.
Expire(p) ==
    /\ cache[p] # None
    /\ cache' = [cache EXCEPT ![p] = None]
    /\ UNCHANGED <<composio, row, task, changes, cut>>

-----------------------------------------------------------------------------
(* finalize_connected_account, from the callback or the finalize handler.  *)

StartFinalize(t, p, a) ==
    /\ Free(t)
    /\ composio[a] # "unknown"
    /\ Become(t, [TaskIn(p) EXCEPT !.pc = "polling", !.ca = a])
    /\ UNCHANGED <<composio, row, cache, changes, cut>>

\* The refresh handler: the latest account, in whatever state its row is, is
\* refreshed at Composio; if that makes it ACTIVE it is finalized again.
RefreshAccount(t, p) ==
    /\ Free(t)
    /\ row.ca # None
    /\ composio[row.ca] \in {"ACTIVE", "EXPIRED"}
    /\ composio' = [composio EXCEPT ![row.ca] = "ACTIVE"]
    /\ Become(t, [TaskIn(p) EXCEPT !.pc = "polling", !.ca = row.ca])
    /\ UNCHANGED <<row, cache, changes, cut>>

\* _wait_connected_account_active: one answer of Composio.
Poll(t) ==
    LET active == composio[task[t].ca] = "ACTIVE" IN
    /\ task[t].pc = "polling"
    /\ Become(t, [task[t] EXCEPT
            !.seen = IF active THEN "ACTIVE" ELSE "other",
            !.pc = IF active THEN "saving" ELSE "polling"])
    /\ UNCHANGED <<composio, row, cache, changes, cut>>

\* After 90 seconds the last answer is returned, or nothing at all.
PollTimesOut(t) ==
    /\ task[t].pc = "polling"
    /\ Goto(t, "saving")
    /\ UNCHANGED <<composio, row, cache, changes, cut>>

\* Mutant: as if the status were taken for granted.
StatusSavedActive(seen) == "ACTIVE"

\* The status the row gets: (detail.get("status") or "ACTIVE").upper().
StatusSaved(seen) == IF seen = "nothing" THEN "ACTIVE" ELSE seen

\* The change is committed and task t of process p has yet to invalidate.
Committed(t, p) ==
    /\ Become(t, [TaskIn(p) EXCEPT !.pc = "invalidating"])
    /\ cache' = [cache EXCEPT
            ![p] = IF @ = None THEN @ ELSE [@ EXCEPT !.old = TRUE]]
    /\ changes' = changes + 1

\* The transaction: other accounts' rows are deleted, the account and its
\* connection are written.  Composio may have given no token, and no URL either:
\* such a row may say ACTIVE all the same, and no query finds it.
SaveAccount(t) ==
    /\ task[t].pc = "saving"
    /\ changes < MaxChanges
    /\ \E url, token \in BOOLEAN :
          LET status == StatusSaved(task[t].seen) IN
          row' = [ca |-> task[t].ca, status |-> status, url |-> url,
                  token |-> status = "ACTIVE" /\ url /\ token,
                  blind |-> task[t].seen = "nothing"]
    /\ cut' = None
    /\ Committed(t, task[t].proc)
    /\ UNCHANGED composio

\* The auth config is another, a call to Composio for the URL raises, or the write
\* breaks a constraint: the handler fails.
FinalizeFails(t) ==
    /\ task[t].pc = "saving"
    /\ Finish(t)
    /\ UNCHANGED <<composio, row, cache, changes, cut>>

\* Both disconnect paths, of every account or of a named one: the row is
\* marked and the URL and the headers are cleared, in one transaction.
Disconnect(t, p) ==
    /\ Free(t)
    /\ changes < MaxChanges
    /\ row' = IF row.ca = None THEN row
              ELSE [row EXCEPT !.status = "DISCONNECTED", !.url = FALSE,
                               !.token = FALSE, !.blind = FALSE]
    /\ cut' = p
    /\ Committed(t, p)
    /\ UNCHANGED composio

\* Mutant: as if only a negative status were dropped.
InvalidateNegative(t) ==
    LET p == task[t].proc IN
    /\ task[t].pc = "invalidating"
    /\ cache' = [cache EXCEPT
            ![p] = IF @ # None /\ @.authorized THEN @ ELSE None]
    /\ Finish(t)
    /\ UNCHANGED <<composio, row, changes, cut>>

\* _invalidate_cache after the commit, in the handler's own process only.
Invalidate(t) ==
    LET p == task[t].proc IN
    /\ task[t].pc = "invalidating"
    /\ cache' = [cache EXCEPT ![p] = None]
    /\ Finish(t)
    /\ UNCHANGED <<composio, row, changes, cut>>

-----------------------------------------------------------------------------
(* A tool call: get_mcp_client and get_headers read the database, never    *)
(* the cache.                                                              *)

\* Headers without a token: one is asked of Composio inside the transaction.
\* With a token, or with no connection at all, the call changes nothing.  The
\* process does not matter, and its death is a token that never comes.
ReadHeaders(t) ==
    /\ Free(t)
    /\ Linked # None
    /\ ~row.token
    /\ Become(t, [Idle EXCEPT !.pc = "minting", !.ca = Linked])
    /\ UNCHANGED <<composio, row, cache, changes, cut>>

\* The URL that was read and the new headers are written back; for an account
\* that has been replaced the write breaks the foreign key and is rolled back.
StoreToken(t) ==
    /\ task[t].pc = "minting"
    /\ row' = IF row.ca # task[t].ca THEN row
              ELSE [row EXCEPT !.url = TRUE, !.token = row.status = "ACTIVE"]
    /\ Finish(t)
    /\ UNCHANGED <<composio, cache, changes, cut>>

\* Composio gives none: best effort.
NoToken(t) ==
    /\ task[t].pc = "minting"
    /\ Finish(t)
    /\ UNCHANGED <<composio, row, cache, changes, cut>>

\* A process dies or is deployed anew: its requests and its cache are gone.
Restart(p) ==
    /\ cache' = [cache EXCEPT ![p] = None]
    /\ task' = [t \in Tasks |->
            IF task[t].proc = p THEN Idle ELSE task[t]]
    /\ UNCHANGED <<composio, row, changes, cut>>

-----------------------------------------------------------------------------
TaskStep(t) ==
    \/ AskComposio(t) \/ StoreStatus(t)
    \/ Poll(t) \/ PollTimesOut(t) \/ SaveAccount(t) \/ FinalizeFails(t)
    \/ Invalidate(t) \/ StoreToken(t) \/ NoToken(t)

Next ==
    \/ \E a \in Accounts : StartOauth(a) \/ Consent(a) \/ Lapse(a)
    \/ \E t \in Tasks :
          \/ TaskStep(t) \/ ReadHeaders(t)
          \/ \E p \in Procs : StatusMiss(t, p)
          \/ \E p \in Servers :
                \/ Disconnect(t, p) \/ RefreshAccount(t, p)
                \/ \E a \in Accounts : StartFinalize(t, p, a)
    \/ \E p \in Procs : Expire(p) \/ Restart(p)

Spec == Init /\ [][Next]_vars

\* Time passes, so entries expire; no request waits for anything for ever
\* (every call to Composio and the poll have a timeout).
Fairness ==
    /\ \A p \in Procs : WF_vars(Expire(p))
    /\ \A t \in Tasks : WF_vars(AskComposio(t) \/ StoreStatus(t) \/ Invalidate(t))

FairSpec == Spec /\ Fairness

-----------------------------------------------------------------------------
(* Properties.                                                             *)

\* Every variable has its type: a row's status is one the queries know.
TypeOK ==
    /\ composio \in [Accounts -> ComposioStatuses]
    /\ row \in Row
    /\ cache \in [Procs -> Entry \cup {None}]
    /\ task \in [Tasks -> Task]
    /\ changes \in 0..MaxChanges
    /\ cut \in Servers \cup {None}

\* A disconnect holds until the next finalization commits: no tool call finds
\* a connection, although a call that began before may write the URL back
\* (get_headers, StoreToken) after the disconnect cleared it.
DisconnectHolds == cut # None => Linked = None

Invalidating(p) ==
    \E t \in Tasks : task[t].pc = "invalidating" /\ task[t].proc = p

\* No entry that was in a process's cache when a handler of that process
\* committed a change outlives the handler: the cache is invalidated after the
\* commit, so a read in between cannot bring the old status back for good.
InvalidationDrops ==
    \A p \in Procs : cache[p] # None /\ cache[p].old => Invalidating(p)

\* A row says ACTIVE only of an account that Composio has had active, unless
\* the poll ended without one answer.
ActiveWasSeen ==
    row.status = "ACTIVE" /\ ~row.blind =>
        composio[row.ca] \in {"ACTIVE", "EXPIRED"}

\* When the changes have ended, every process in the end knows the connection
\* there is, or knows nothing and will ask, for good.
CachesSettle ==
    <>[](\A p \in Procs : cache[p] # None => cache[p].ca = Linked)

\* "Clears MCP URLs/headers so is_authorized() flips to False immediately"
\* (routes_mcp_auth.py): when the disconnect handler has returned, and until a
\* finalization commits, its process has no `authorized' status to answer with.
FlipsAtOnce ==
    \A p \in Servers :
        cut = p /\ ~Invalidating(p) /\ cache[p] # None => ~cache[p].authorized
=============================================================================
