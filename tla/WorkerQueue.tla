----------------------------- MODULE WorkerQueue -----------------------------
(***************************************************************************)
(* How workers find out that a run is queued.  On Postgres a worker keeps a *)
(* LISTEN connection, drains the queue when a notification wakes it and now *)
(* and then without one; elsewhere it polls.  RunLifecycle takes a claim as *)
(* one step; here it is the transaction it is, which locks the row, skips   *)
(* the rows others have locked, and commits or rolls back.                  *)
(***************************************************************************)
EXTENDS Naturals

CONSTANTS NRuns,        \* runs are numbered by created_at
          Workers,
          Backends,     \* whether DB_URL may name a Postgres database, or another one
          Reconciles,   \* RECONCILE_EVERY_SECONDS > 0
          MaxTries,     \* DB_RETRY_MAX_ATTEMPTS
          MaxOffers,    \* bound: how often one run is queued
          Faults,       \* the kinds of failure that may happen
          MaxFaults     \* bound: how many of them happen

FaultKinds == {"claimError", "commitLost", "connectError", "broken", "silent", "crash"}

ASSUME QueueAssumption ==
    /\ NRuns \in Nat \ {0}
    /\ Backends \subseteq BOOLEAN
    /\ Reconciles \in BOOLEAN
    /\ MaxTries \in Nat \ {0}
    /\ MaxOffers \in Nat
    /\ Faults \subseteq FaultKinds
    /\ MaxFaults \in Nat
    /\ Workers # {}
    /\ "none" \notin Workers

VARIABLES
    postgres, \* DB_URL names a Postgres database; nothing changes it
    row,      \* what the status of each run says to a worker
    lock,     \* the worker whose claim has locked the row
    offers,   \* how often the run was queued
    taken,    \* how often the run was claimed
    pc,       \* where each worker is in its loop
    then,     \* where its drain returns to
    tries,    \* attempts of _with_db_retry at the claim that failed
    conn,     \* the LISTEN connection
    inbox,    \* a notification waits to be read from it
    lapsed,   \* the worker's last drain gave up before the queue was empty
    faults    \* failures so far

table == <<postgres, row, lock, offers, taken>>
ears == <<conn, inbox>>
vars == <<table, pc, then, tries, ears, lapsed, faults>>

Runs == 1..NRuns
Nobody == "none"

TypeOK ==
    /\ postgres \in BOOLEAN
    /\ row \in [Runs -> {"none", "queued", "taken"}]
    /\ lock \in [Runs -> Workers \cup {Nobody}]
    /\ offers \in [Runs -> 0..MaxOffers]
    /\ taken \in [Runs -> Nat]
    /\ pc \in [Workers -> {"claim", "locked", "busy", "connect", "wait", "backoff", "down"}]
    /\ then \in [Workers -> {"connect", "wait"}]
    /\ tries \in [Workers -> 0..(MaxTries - 1)]
    /\ conn \in [Workers -> {"none", "up", "broken", "silent"}]
    /\ inbox \in [Workers -> BOOLEAN]
    /\ lapsed \in [Workers -> BOOLEAN]
    /\ faults \in 0..MaxFaults

\* A worker process drains the queue before it connects, or before it polls.
FirstReturn == IF postgres THEN "connect" ELSE "wait"

Init ==
    /\ postgres \in Backends
    /\ row = [r \in Runs |-> "none"]
    /\ lock = [r \in Runs |-> Nobody]
    /\ offers = [r \in Runs |-> 0]
    /\ taken = [r \in Runs |-> 0]
    /\ pc = [w \in Workers |-> "claim"]
    /\ then = [w \in Workers |-> FirstReturn]
    /\ tries = [w \in Workers |-> 0]
    /\ conn = [w \in Workers |-> "none"]
    /\ inbox = [w \in Workers |-> FALSE]
    /\ lapsed = [w \in Workers |-> FALSE]
    /\ faults = 0

-----------------------------------------------------------------------------
(* Helpers *)

\* What SELECT ... WHERE status = 'queued' FOR UPDATE SKIP LOCKED may return.
Free == {r \in Runs : row[r] = "queued" /\ lock[r] = Nobody}

GoTo(w, to) == pc' = [pc EXCEPT ![w] = to]

\* The transaction of a worker ends: the rows it locked are free again.
Unlock(w) == lock' = [r \in Runs |-> IF lock[r] = w THEN Nobody ELSE lock[r]]

\* A drain starts; it returns to the wait.
Drain(w) ==
    /\ GoTo(w, "claim")
    /\ then' = [then EXCEPT ![w] = "wait"]
    /\ lapsed' = [lapsed EXCEPT ![w] = FALSE]

Fault(kind) ==
    /\ kind \in Faults
    /\ faults < MaxFaults
    /\ faults' = faults + 1

-----------------------------------------------------------------------------
(* The control plane and the other writers of the row *)

\* A run is queued or queued again; the commit notifies every session that
\* listens then.
Offer(r) ==
    /\ row[r] # "queued"
    /\ offers[r] < MaxOffers
    /\ row' = [row EXCEPT ![r] = "queued"]
    /\ offers' = [offers EXCEPT ![r] = @ + 1]
    /\ inbox' = [w \in Workers |-> inbox[w] \/ conn[w] = "up"]
    /\ UNCHANGED <<postgres, lock, taken, pc, then, tries, conn, lapsed, faults>>

\* A late status write takes the run off the queue; it waits for the row lock.
Withdraw(r) ==
    /\ r \in Free
    /\ row' = [row EXCEPT ![r] = "taken"]
    /\ UNCHANGED <<postgres, lock, offers, taken, pc, then, tries, ears, lapsed, faults>>

-----------------------------------------------------------------------------
(* The claim *)

\* The subselect of claim_next_run.
LockOldest(w) ==
    /\ postgres
    /\ pc[w] = "claim"
    /\ \E r \in Free : /\ \A q \in Free : r <= q
                       /\ lock' = [lock EXCEPT ![r] = w]
    /\ GoTo(w, "locked")
    /\ UNCHANGED <<postgres, row, offers, taken, then, tries, ears, lapsed, faults>>

\* Nothing to claim: the drain is over.
FindNone(w) ==
    /\ postgres
    /\ pc[w] = "claim"
    /\ Free = {}
    /\ GoTo(w, then[w])
    /\ tries' = [tries EXCEPT ![w] = 0]
    /\ UNCHANGED <<table, then, ears, lapsed, faults>>

\* Mutant of ClaimCommit: the row is updated whether the lock is held or not.
CommitUnlocked(w) ==
    /\ pc[w] = "locked"
    /\ \E r \in Runs : /\ row[r] # "none"
                       /\ row' = [row EXCEPT ![r] = "taken"]
                       /\ taken' = [taken EXCEPT ![r] = @ + 1]
    /\ Unlock(w)
    /\ GoTo(w, "busy")
    /\ tries' = [tries EXCEPT ![w] = 0]
    /\ UNCHANGED <<postgres, offers, then, ears, lapsed, faults>>

ClaimCommit(w) ==
    /\ pc[w] = "locked"
    /\ \E r \in Runs : /\ lock[r] = w
                       /\ row' = [row EXCEPT ![r] = "taken"]
                       /\ taken' = [taken EXCEPT ![r] = @ + 1]
    /\ Unlock(w)
    /\ GoTo(w, "busy")
    /\ tries' = [tries EXCEPT ![w] = 0]
    /\ UNCHANGED <<postgres, offers, then, ears, lapsed, faults>>

\* Mutant of Errs: one retry too many.
ErrsLate(w) ==
    /\ tries[w] < MaxTries
    /\ tries' = [tries EXCEPT ![w] = @ + 1]
    /\ GoTo(w, "claim")
    /\ UNCHANGED lapsed

\* _with_db_retry tries again after a transient error, MaxTries times in all;
\* otherwise the claim returns nothing and the drain takes the queue for empty.
Errs(w) ==
    \/ /\ tries[w] + 1 < MaxTries
       /\ tries' = [tries EXCEPT ![w] = @ + 1]
       /\ GoTo(w, "claim")
       /\ UNCHANGED lapsed
    \/ /\ tries' = [tries EXCEPT ![w] = 0]
       /\ GoTo(w, then[w])
       /\ lapsed' = [lapsed EXCEPT ![w] = TRUE]

\* The transaction fails and rolls back.
ClaimFails(w) ==
    /\ Fault("claimError")
    /\ pc[w] \in {"claim", "locked"}
    /\ Unlock(w)
    /\ Errs(w)
    /\ UNCHANGED <<postgres, row, offers, taken, then, ears>>

\* The commit lands but its answer is lost: the claim is tried again, or given
\* up, and nobody works on the run (RunLifecycle: ClaimLost).
CommitLost(w) ==
    /\ Fault("commitLost")
    /\ pc[w] = "locked"
    /\ \E r \in Runs : /\ lock[r] = w
                       /\ row' = [row EXCEPT ![r] = "taken"]
                       /\ taken' = [taken EXCEPT ![r] = @ + 1]
    /\ Unlock(w)
    /\ Errs(w)
    /\ UNCHANGED <<postgres, offers, then, ears>>

\* No other database accepts the statement (FOR UPDATE, NOW()), and the error
\* is not a transient one.
ClaimUnsupported(w) ==
    /\ ~postgres
    /\ pc[w] = "claim"
    /\ GoTo(w, then[w])
    /\ UNCHANGED <<table, then, tries, ears, lapsed, faults>>

\* The run was dispatched and watched to its end; the drain goes on.
Finish(w) ==
    /\ pc[w] = "busy"
    /\ GoTo(w, "claim")
    /\ UNCHANGED <<table, then, tries, ears, lapsed, faults>>

-----------------------------------------------------------------------------
(* The loop *)

\* Mutant of Connect: the worker listens without draining once more.
ConnectAndWait(w) ==
    /\ pc[w] = "connect"
    /\ conn' = [conn EXCEPT ![w] = "up"]
    /\ inbox' = [inbox EXCEPT ![w] = FALSE]
    /\ GoTo(w, "wait")
    /\ then' = [then EXCEPT ![w] = "wait"]
    /\ UNCHANGED <<table, tries, lapsed, faults>>

\* LISTEN is registered, then the queue is drained.
Connect(w) ==
    /\ pc[w] = "connect"
    /\ conn' = [conn EXCEPT ![w] = "up"]
    /\ inbox' = [inbox EXCEPT ![w] = FALSE]
    /\ Drain(w)
    /\ UNCHANGED <<table, tries, faults>>

ConnectFails(w) ==
    /\ Fault("connectError")
    /\ pc[w] = "connect"
    /\ GoTo(w, "backoff")
    /\ UNCHANGED <<table, then, tries, ears, lapsed>>

Reconnect(w) ==
    /\ pc[w] = "backoff"
    /\ GoTo(w, "connect")
    /\ UNCHANGED <<table, then, tries, ears, lapsed, faults>>

\* select() finds the socket readable and the notifications are taken off it.
Notified(w) ==
    /\ pc[w] = "wait"
    /\ conn[w] \in {"up", "silent"}
    /\ inbox[w]
    /\ inbox' = [inbox EXCEPT ![w] = FALSE]
    /\ Drain(w)
    /\ UNCHANGED <<table, tries, conn, faults>>

\* Mutant of Due: the sweep runs over a live connection only.
DueIfUp(w) ==
    /\ Reconciles
    /\ pc[w] = "wait"
    /\ conn[w] = "up"
    /\ Drain(w)
    /\ UNCHANGED <<table, tries, ears, faults>>

\* The wait times out because a reconciliation sweep is due.
Due(w) ==
    /\ Reconciles
    /\ pc[w] = "wait"
    /\ conn[w] \in {"up", "silent"}
    /\ Drain(w)
    /\ UNCHANGED <<table, tries, ears, faults>>

\* Mutant of Poll: the sleep waits for a notification.
PollNotified(w) ==
    /\ ~postgres
    /\ pc[w] = "wait"
    /\ inbox[w]
    /\ Drain(w)
    /\ UNCHANGED <<table, tries, ears, faults>>

\* Without Postgres the worker sleeps and drains again.
Poll(w) ==
    /\ ~postgres
    /\ pc[w] = "wait"
    /\ Drain(w)
    /\ UNCHANGED <<table, tries, ears, faults>>

\* The wait raises on a closed connection, pending notifications and all.
WaitRaises(w) ==
    /\ pc[w] = "wait"
    /\ conn[w] = "broken"
    /\ conn' = [conn EXCEPT ![w] = "none"]
    /\ inbox' = [inbox EXCEPT ![w] = FALSE]
    /\ GoTo(w, "backoff")
    /\ UNCHANGED <<table, then, tries, lapsed, faults>>

\* The connection is lost: the worker will see it, or nothing tells it.
Break(w) ==
    /\ conn[w] = "up"
    /\ \E kind \in {"broken", "silent"} : Fault(kind) /\ conn' = [conn EXCEPT ![w] = kind]
    /\ UNCHANGED <<table, pc, then, tries, inbox, lapsed>>

\* A crash ends the worker's transaction and its session.
Crash(w) ==
    /\ Fault("crash")
    /\ pc[w] # "down"
    /\ GoTo(w, "down")
    /\ Unlock(w)
    /\ conn' = [conn EXCEPT ![w] = "none"]
    /\ inbox' = [inbox EXCEPT ![w] = FALSE]
    /\ tries' = [tries EXCEPT ![w] = 0]
    /\ UNCHANGED <<postgres, row, offers, taken, then, lapsed>>

Restart(w) ==
    /\ pc[w] = "down"
    /\ GoTo(w, "claim")
    /\ then' = [then EXCEPT ![w] = FirstReturn]
    /\ lapsed' = [lapsed EXCEPT ![w] = FALSE]
    /\ UNCHANGED <<table, tries, ears, faults>>

-----------------------------------------------------------------------------
WorkerStep(w) ==
    \/ LockOldest(w) \/ FindNone(w) \/ ClaimCommit(w) \/ ClaimUnsupported(w) \/ Finish(w)
    \/ Connect(w) \/ Reconnect(w) \/ Notified(w) \/ Due(w) \/ Poll(w) \/ WaitRaises(w)
    \/ Restart(w)

Failure(w) == ClaimFails(w) \/ CommitLost(w) \/ ConnectFails(w) \/ Break(w) \/ Crash(w)

Next ==
    \/ \E r \in Runs : Offer(r) \/ Withdraw(r)
    \/ \E w \in Workers : WorkerStep(w) \/ Failure(w)

Spec == Init /\ [][Next]_vars

(* A worker process that is up goes round its loop, and one that is down is  *)
(* started again; nobody is obliged to queue a run.                          *)
Fairness == \A w \in Workers : WF_vars(WorkerStep(w))

FairSpec == Spec /\ Fairness

-----------------------------------------------------------------------------
(* Properties *)

(* A worker sleeps when only a notification, or the next sweep, wakes it; one *)
(* that polls wakes by itself.                                               *)
Asleep(w) == postgres /\ pc[w] = "wait" /\ ~inbox[w] /\ conn[w] # "broken"

(* A worker may sleep through a queued run only after a drain that gave up   *)
(* on errors, or behind a connection that died without a sign.               *)
Excused(w) == lapsed[w] \/ conn[w] = "silent"

(* While a run is queued somebody is awake who will look at the queue: no    *)
(* notification falls between the drain and the LISTEN, none is lost to a    *)
(* reconnect, and a row one worker skipped as locked is not forgotten when   *)
(* the lock's holder rolls back or dies.                                     *)
NoLostWakeup ==
    \A r \in Runs : row[r] = "queued" => \E w \in Workers : ~Asleep(w) \/ Excused(w)

(* The claim transaction hands every offer out at most once: the table is    *)
(* the work queue of RunQueue, which RunLifecycle builds on.                 *)
Queue == INSTANCE RunQueue WITH
            offered <- {r \in Runs : row[r] = "queued"},
            handed <- taken,
            MaxAttempts <- MaxOffers
QueueSpec == Queue!Spec

(* No worker stops looking at the queue, whatever its claims and connections *)
(* run into: the loop outlives a claim that cannot succeed.                  *)
KeepsLooking == \A w \in Workers : []<>(pc[w] = "claim")

(* On Postgres a queued run is claimed, or withdrawn, in the end: the sweep   *)
(* finds it behind a drain that gave up or a connection that died silently.  *)
QueuedIsServed == \A r \in Runs : (postgres /\ row[r] = "queued") ~> row[r] # "queued"
=============================================================================
