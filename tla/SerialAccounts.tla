--------------------------- MODULE SerialAccounts ---------------------------
(***************************************************************************)
(* What the row locks promise of a user's account, without any: the        *)
(* handlers of his runs might as well come one after the other, each in    *)
(* one step that sees what the one before it left.  How the aggregates     *)
(* change is a parameter; Accounts is shown to implement it.               *)
(***************************************************************************)
EXTENDS Naturals

CONSTANTS Runs, Terminal, Credits, Cost, EmptyDoc,
          RecordEnqueued(_, _), RecordStarted(_, _, _),
          RecordTerminal(_, _, _, _), RecordBeat(_, _, _, _)

VARIABLES credits,   \* what the user has left
          status,    \* run -> its status, "none" before it is enqueued
          doc        \* the aggregates

vars == <<credits, status, doc>>

Init ==
    /\ credits = Credits
    /\ status = [r \in Runs |-> "none"]
    /\ doc = EmptyDoc

\* The aggregates change as they should or, when that fails, not at all.
Aggregate(news) == doc' = doc \/ doc' \in news

\* A run is paid for and enqueued.
Enqueue(r) ==
    /\ status[r] = "none"
    /\ credits >= Cost
    /\ credits' = credits - Cost
    /\ status' = [status EXCEPT ![r] = "queued"]
    /\ Aggregate({RecordEnqueued(doc, r)})

Claim(r) ==
    /\ status[r] = "queued"
    /\ status' = [status EXCEPT ![r] = "running"]
    /\ UNCHANGED <<credits, doc>>

\* The record of a claim, or none.
RecordStart(r) ==
    /\ status[r] # "none"
    /\ Aggregate({RecordStarted(doc, r, kept) : kept \in SUBSET doc.active})
    /\ UNCHANGED <<credits, status>>

\* A status and its record.
WriteStatus(r, st) ==
    /\ status[r] # "none"
    /\ status' = [status EXCEPT ![r] = st]
    /\ Aggregate({RecordTerminal(doc, r, st, kept) : kept \in SUBSET doc.active})
    /\ UNCHANGED credits

\* A heartbeat counts by the status the run has.
Beat(r) ==
    /\ status[r] # "none"
    /\ Aggregate({RecordBeat(doc, r, status[r], kept) : kept \in SUBSET doc.active})
    /\ UNCHANGED <<credits, status>>

Next ==
    \E r \in Runs :
        \/ Enqueue(r) \/ Claim(r) \/ RecordStart(r) \/ Beat(r)
        \/ \E st \in Terminal \cup {"queued"} : WriteStatus(r, st)

Spec == Init /\ [][Next]_vars
=============================================================================
