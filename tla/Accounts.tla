------------------------------- MODULE Accounts -------------------------------
(***************************************************************************)
(* One user's account on Postgres: the credits in profiles, the run rows,   *)
(* and the aggregates in users.metadata that enqueueing, claiming, status   *)
(* writes and heartbeats of the user's runs keep up to date.                *)
(*                                                                          *)
(* Every handler is a transaction.  It takes row locks in the order of its  *)
(* statements (profile or run first, then the users row) and all it has     *)
(* written becomes visible at its commit.  The aggregates are read under    *)
(* FOR UPDATE, changed in Python and written back as one document.  Costs,  *)
(* durations and the list of errors in it are left out: nothing here        *)
(* depends on them.                                                         *)
(***************************************************************************)
EXTENDS Naturals, FiniteSets, Sequences

CONSTANTS NRuns,      \* bound: runs are numbered in the order of their ids
          Procs,      \* handlers that can be at work at the same time
          Credits,    \* what the user starts with
          Cost,       \* RUN_CREDIT_COST
          Limit,      \* RECENT_RUNS_LIMIT
          MaxWrites,  \* bound: status writes and heartbeats begun
          MaxFaults   \* bound: failures of the aggregation

ASSUME ConstantsAssumption ==
    /\ NRuns \in Nat /\ Credits \in Nat /\ Cost \in Nat \ {0}
    /\ Limit \in Nat \ {0} /\ MaxWrites \in Nat /\ MaxFaults \in Nat

VARIABLES
    credits,    \* profiles.credits
    status,     \* workflow_runs.status, "none" before the row is committed
    doc,        \* users.metadata
    tx,         \* what each handler is doing
    writes, faults,   \* counters of the bounds
    begun,      \* history: runs that were ever claimed
    overtaken,  \* history: runs whose status was written between their claim
                \* and the record of their start
    revived     \* history: runs recorded again after they left the list

vars == <<credits, status, doc, tx, writes, faults, begun, overtaken, revived>>

Runs == 1..NRuns
Terminal == {"success", "error", "attention"}
Status == Terminal \cup {"none", "queued", "running"}

Kind == {"idle", "enqueue", "write", "started", "beat"}
\* "open": the first row, if there is one, is locked and written; "loaded": the
\* users row is locked, too, and the document changed; "unrecorded": that failed.
TxPc == {"open", "loaded", "unrecorded"}

Entry == [run : Runs, st : Status]
RecentRuns == {s \in Seq(Entry) : Len(s) <= Limit}
Doc == [total : Nat, terminal : Nat, count : [Terminal -> Nat], spent : Nat,
        recent : RecentRuns, active : SUBSET Runs]
Tx == [kind : Kind, pc : TxPc, run : 0..NRuns, st : Status, left : 0..Credits, doc : Doc]

TypeOK ==
    /\ credits \in 0..Credits
    /\ status \in [Runs -> Status]
    /\ doc \in Doc
    /\ tx \in [Procs -> Tx]
    /\ writes \in 0..MaxWrites /\ faults \in 0..MaxFaults
    /\ begun \subseteq Runs /\ overtaken \subseteq Runs /\ revived \subseteq Runs

EmptyDoc == [total |-> 0, terminal |-> 0, count |-> [s \in Terminal |-> 0],
             spent |-> 0, recent |-> <<>>, active |-> {}]
IdleTx == [kind |-> "idle", pc |-> "open", run |-> 0, st |-> "none", left |-> 0, doc |-> EmptyDoc]

Init ==
    /\ credits = Credits
    /\ status = [r \in Runs |-> "none"]
    /\ doc = EmptyDoc
    /\ tx = [t \in Procs |-> IdleTx]
    /\ writes = 0 /\ faults = 0
    /\ begun = {} /\ overtaken = {} /\ revived = {}

-----------------------------------------------------------------------------
(* The document *)

Positions(recent, r) == {i \in 1..Len(recent) : recent[i].run = r}
Known(d, r) == Positions(d.recent, r) # {}
Recorded(d, r) == IF Known(d, r) THEN d.recent[CHOOSE i \in Positions(d.recent, r) : TRUE].st ELSE "none"

\* items.pop(idx), if the run is there.
Popped(recent, r) ==
    IF Positions(recent, r) = {} THEN recent
    ELSE LET i == CHOOSE i \in Positions(recent, r) : TRUE
         IN SubSeq(recent, 1, i - 1) \o SubSeq(recent, i + 1, Len(recent))

\* The run's entry comes first; the list is cut to its limit.
Upserted(recent, r, st) ==
    LET all == <<[run |-> r, st |-> st]>> \o Popped(recent, r)
    IN SubSeq(all, 1, IF Len(all) < Limit THEN Len(all) ELSE Limit)

\* The counters change by one, never below zero.
Plus(n, one) == IF one THEN n + 1 ELSE n
Minus(n, one) == IF one /\ n > 0 THEN n - 1 ELSE n

\* A run that is not in the list is counted as a new one.
Listed(d, r, st) ==
    [d EXCEPT !.recent = Upserted(d.recent, r, st), !.total = Plus(@, ~Known(d, r))]

RecordEnqueued(d, r) ==
    [Listed(d, r, "queued") EXCEPT !.spent = IF Known(d, r) THEN @ ELSE @ + Cost]

RecordStarted(d, r, kept) ==
    [Listed(d, r, "running") EXCEPT !.active = kept \cup {r}]

\* Mutant: a status that is written again is counted again.
RecordTerminalAgain(d, r, st, kept) ==
    LET prev == Recorded(d, r)
    IN [Listed(d, r, st) EXCEPT
          !.terminal = Plus(Minus(@, prev \in Terminal), st \in Terminal),
          !.count = [s \in Terminal |-> Plus(@[s], s = st)],
          !.active = kept \ {r}]

\* The gauges move from the status recorded for the run to the new one.
RecordTerminal(d, r, st, kept) ==
    LET prev == Recorded(d, r)
        moves == prev # st
    IN [Listed(d, r, st) EXCEPT
          !.terminal = Plus(Minus(@, moves /\ prev \in Terminal), moves /\ st \in Terminal),
          !.count = [s \in Terminal |-> Plus(Minus(@[s], moves /\ s = prev), moves /\ s = st)],
          !.active = kept \ {r}]

\* Mutant: a heartbeat makes the run active whatever its status is.
RecordBeatAlways(d, r, st, kept) == [d EXCEPT !.active = kept \cup {r}]

\* A heartbeat counts only while the run is running.
RecordBeat(d, r, st, kept) == IF st = "running" THEN [d EXCEPT !.active = kept \cup {r}] ELSE d

-----------------------------------------------------------------------------
(* Locks *)

ProfileFree == \A t \in Procs : tx[t].kind # "enqueue"
RunFree(r) == \A t \in Procs : tx[t].kind \in {"write", "beat"} => tx[t].run # r
UsersFree == \A t \in Procs : tx[t].pc # "loaded"

\* A transaction is modelled from the moment its first lock is granted: what it
\* did before read nothing that is modelled.
Open(t, kind, r, st) ==
    /\ tx[t] = IdleTx
    /\ tx' = [tx EXCEPT ![t] = [IdleTx EXCEPT !.kind = kind, !.run = r, !.st = st]]

-----------------------------------------------------------------------------
(* Enqueue, claims, status writes, heartbeats *)

\* Run ids are fresh; the numbers follow the order of the debits.
Fresh(r) == status[r] = "none" /\ \A t \in Procs : tx[t].run # r
NextId(r) == Fresh(r) /\ \A q \in Runs : Fresh(q) => r <= q

\* Mutant of Debit: the balance is read and written back without the lock.
DebitUnlocked(t, r) ==
    /\ tx[t] = IdleTx
    /\ NextId(r)
    /\ credits >= Cost
    /\ tx' = [tx EXCEPT ![t] = [IdleTx EXCEPT !.kind = "enqueue", !.run = r, !.st = "queued",
                                             !.left = credits - Cost]]
    /\ UNCHANGED <<credits, status, doc, writes, faults, begun, overtaken, revived>>

\* debit_credits waits for the row and takes the cost off if it is there (else
\* the request ends in a 402); the row of the run is inserted next, unseen by
\* others until the commit.
Debit(t, r) ==
    /\ tx[t] = IdleTx
    /\ NextId(r)
    /\ ProfileFree
    /\ credits >= Cost
    /\ tx' = [tx EXCEPT ![t] = [IdleTx EXCEPT !.kind = "enqueue", !.run = r, !.st = "queued",
                                             !.left = credits - Cost]]
    /\ UNCHANGED <<credits, status, doc, writes, faults, begun, overtaken, revived>>

\* A worker's claim commits, skipping a locked row (module WorkerQueue has its
\* steps); the record of the start is a transaction of its own.
Claim(t, r) ==
    /\ Open(t, "started", r, "running")
    /\ status[r] = "queued"
    /\ RunFree(r)
    /\ status' = [status EXCEPT ![r] = "running"]
    /\ begun' = begun \cup {r}
    /\ UNCHANGED <<credits, doc, writes, faults, overtaken, revived>>

\* Workers, the runtime and agents write the status of a run that was claimed.
WriteStatus(t, r, st) ==
    /\ Open(t, "write", r, st)
    /\ RunFree(r)
    /\ r \in begun
    /\ writes < MaxWrites
    /\ writes' = writes + 1
    /\ UNCHANGED <<credits, status, doc, faults, begun, overtaken, revived>>

\* Mutant: the status is read without the lock.
TouchRunUnlocked(t, r) ==
    /\ Open(t, "beat", r, status[r])
    /\ r \in begun
    /\ writes < MaxWrites
    /\ writes' = writes + 1
    /\ UNCHANGED <<credits, status, doc, faults, begun, overtaken, revived>>

\* An event of a run touches its row, and reads the status under that lock.
TouchRun(t, r) ==
    /\ Open(t, "beat", r, status[r])
    /\ RunFree(r)
    /\ r \in begun
    /\ writes < MaxWrites
    /\ writes' = writes + 1
    /\ UNCHANGED <<credits, status, doc, faults, begun, overtaken, revived>>

-----------------------------------------------------------------------------
(* The aggregates, and the end of a transaction *)

\* The document a handler leaves; entries whose heartbeat is old are pruned.
Changed(t, kept) ==
    LET r == tx[t].run
    IN CASE tx[t].kind = "enqueue" -> RecordEnqueued(doc, r)
         [] tx[t].kind = "started" -> RecordStarted(doc, r, kept)
         [] tx[t].kind = "write" -> RecordTerminal(doc, r, tx[t].st, kept)
         [] tx[t].kind = "beat" -> RecordBeat(doc, r, tx[t].st, kept)

\* Mutant: the document is read without FOR UPDATE.
LoadUnlocked(t) ==
    /\ tx[t].kind # "idle" /\ tx[t].pc = "open"
    /\ \E kept \in SUBSET doc.active :
          tx' = [tx EXCEPT ![t].pc = "loaded", ![t].doc = Changed(t, kept)]
    /\ UNCHANGED <<credits, status, doc, writes, faults, begun, overtaken, revived>>

\* update_user_metadata: SELECT ... FOR UPDATE, change, UPDATE.
Load(t) ==
    /\ tx[t].kind # "idle" /\ tx[t].pc = "open"
    /\ UsersFree
    /\ \E kept \in SUBSET doc.active :
          tx' = [tx EXCEPT ![t].pc = "loaded", ![t].doc = Changed(t, kept)]
    /\ UNCHANGED <<credits, status, doc, writes, faults, begun, overtaken, revived>>

\* The change raises in Python: enqueue, status writes and heartbeats log it
\* and commit without it.
LoadFails(t) ==
    /\ faults < MaxFaults
    /\ faults' = faults + 1
    /\ tx[t].kind \in {"enqueue", "write", "beat"} /\ tx[t].pc = "open"
    /\ tx' = [tx EXCEPT ![t].pc = "unrecorded"]
    /\ UNCHANGED <<credits, status, doc, writes, begun, overtaken, revived>>

Commit(t) ==
    /\ tx[t].pc \in {"loaded", "unrecorded"}
    /\ credits' = IF tx[t].kind = "enqueue" THEN tx[t].left ELSE credits
    /\ status' = IF tx[t].kind \in {"enqueue", "write"}
                 THEN [status EXCEPT ![tx[t].run] = tx[t].st] ELSE status
    /\ doc' = IF tx[t].pc = "loaded" THEN tx[t].doc ELSE doc
    /\ overtaken' = IF /\ tx[t].kind = "write"
                       /\ \E u \in Procs : tx[u].kind = "started" /\ tx[u].run = tx[t].run
                    THEN overtaken \cup {tx[t].run} ELSE overtaken
    /\ revived' = IF /\ tx[t].kind \in {"started", "write"} /\ tx[t].pc = "loaded"
                     /\ ~Known(doc, tx[t].run)
                  THEN revived \cup {tx[t].run} ELSE revived
    /\ tx' = [tx EXCEPT ![t] = IdleTx]
    /\ UNCHANGED <<writes, faults, begun>>

\* A statement that fails, a lost connection: nothing of the
\* transaction is seen.  Postgres also rolls back, without telling, when it is
\* asked to commit a transaction in which a swallowed statement failed.
Rollback(t) ==
    /\ tx[t] # IdleTx
    /\ tx' = [tx EXCEPT ![t] = IdleTx]
    /\ UNCHANGED <<credits, status, doc, writes, faults, begun, overtaken, revived>>

-----------------------------------------------------------------------------
Next ==
    \E t \in Procs :
        \/ \E r \in Runs : Debit(t, r) \/ Claim(t, r) \/ TouchRun(t, r)
        \/ \E r \in Runs, st \in Terminal \cup {"queued"} : WriteStatus(t, r, st)
        \/ Load(t) \/ LoadFails(t) \/ Commit(t) \/ Rollback(t)

Spec == Init /\ [][Next]_vars

-----------------------------------------------------------------------------
(* Properties *)

Enqueued == {r \in Runs : status[r] # "none"}
With(s) == {r \in Runs : status[r] = s}

(* Every run in the table was paid for, once: concurrent enqueues of one     *)
(* user neither overdraw the account nor share a debit.                      *)
RunsArePaidFor == credits + Cost * Cardinality(Enqueued) = Credits

(* What users.metadata says was spent is what was debited; its gauges are    *)
(* the statuses of the run rows until a run that had left the list of recent *)
(* runs is recorded again or a status was written between a claim and the    *)
(* record of its start.  Failed aggregations void both.                      *)
CountersExact ==
    faults = 0 =>
        /\ doc.spent = Cost * Cardinality(Enqueued)
        /\ revived = {} => doc.total = Cardinality(Enqueued)
        /\ revived = {} /\ overtaken = {} =>
              \A s \in Terminal : doc.count[s] = Cardinality(With(s))

(* Whatever is evicted, fails or overtakes, a gauge is never below what the  *)
(* list of recent runs shows, and the gauges add up.                         *)
GaugesCoverRecent ==
    /\ \A s \in Terminal :
          doc.count[s] >= Cardinality({i \in 1..Len(doc.recent) : doc.recent[i].st = s})
    /\ doc.terminal = doc.count["success"] + doc.count["error"] + doc.count["attention"]

(* The list of active runs shows running ones: heartbeats, starts and status *)
(* writes of one run that cross each other do not leave a settled run active. *)
ActiveIsRunning ==
    faults = 0 => \A r \in doc.active \ overtaken : status[r] = "running"

(* Whatever they read and write in between, the handlers of a user are        *)
(* transactions one after the other: Accounts implements SerialAccounts.      *)
Serial == INSTANCE SerialAccounts
SerialSpec == Serial!Spec
=============================================================================
