------------------------------ MODULE RunQueue ------------------------------
(***************************************************************************)
(* What the table workflow_runs promises as a work queue, without saying    *)
(* how: a run is offered to the workers or it is not, an offer is handed    *)
(* to one worker once, and a claim is the only thing that counts as one.    *)
(* RunLifecycle and WorkerQueue are shown to implement it.                   *)
(***************************************************************************)
EXTENDS Naturals

CONSTANTS Runs, MaxAttempts

VARIABLES offered,   \* the runs a worker may claim now
          handed     \* how often each run was handed to a worker

vars == <<offered, handed>>

Init ==
    /\ offered = {}
    /\ handed = [r \in Runs |-> 0]

\* A run enters the queue: it was enqueued, or resumed after a human answered.
Offer(r) ==
    /\ offered' = offered \cup {r}
    /\ UNCHANGED handed

\* A run leaves the queue unclaimed: a late status write replaced 'queued'.
Withdraw(r) ==
    /\ offered' = offered \ {r}
    /\ UNCHANGED handed

\* One worker takes the run out of the queue.
Hand(r) ==
    /\ r \in offered
    /\ handed[r] < MaxAttempts
    /\ offered' = offered \ {r}
    /\ handed' = [handed EXCEPT ![r] = @ + 1]

Next == \E r \in Runs : Offer(r) \/ Withdraw(r) \/ Hand(r)

Spec == Init /\ [][Next]_vars
=============================================================================
