----------------------------- MODULE LlmRequests -----------------------------
(***************************************************************************)
(* LLM requests a human can ask to cancel and try again:                   *)
(* LLMClient._invoke_with_logging (src/shared/llm_client.py) on the thread *)
(* of an agent, the registry of requests in flight                         *)
(* (src/shared/llm_request_registry.py) and the retry handler              *)
(* (src/runtime/api/server.py) on the event loop of the same process.      *)
(*                                                                         *)
(* The agent's thread submits the call to a pool of one thread and polls   *)
(* two events, `cancel' and `retry', that the handler sets one after the   *)
(* other.  The registry's lock keeps handlers and registrations apart; the *)
(* thread that polls does not take it, so each of its reads and writes of  *)
(* an event is a step of its own.                                          *)
(***************************************************************************)
EXTENDS Naturals

CONSTANTS
    Requests,     \* calls of _invoke_with_logging
    Runs,         \* run ids, the keys of the registry
    RunOf,        \* request -> its run (RUN_LOG_ID)
    None,         \* no entry
    MaxRetries    \* bound: requests to retry, over all

ASSUME LlmAssumption ==
    /\ RunOf \in [Requests -> Runs]
    /\ None \notin Requests
    /\ MaxRetries \in Nat

VARIABLES
    pc,           \* request -> where its thread is
    calls,        \* request -> calls to the provider in flight
    cancel,       \* request -> cancel_event
    retry,        \* request -> retry_event
    registry,     \* run -> the request registered last, or None
    handler,      \* the request whose `retry' is still to be set, or None
    retries,      \* requests to retry so far
    latest,       \* ghost: run -> the request registered last
    torn,         \* ghost: requests caught between their two events
    missed        \* ghost: requests asked to retry after the last look

events == <<cancel, retry>>
shared == <<registry, handler, retries, latest>>
ghosts == <<torn, missed>>
vars == <<pc, calls, events, shared, ghosts>>

PollPcs == {"polling", "cancelSeen", "cancelCleared"}
LookPcs == {"draining", "looking", "lookCleared"}
EndPcs == {"returning", "raising", "cancelled", "failed", "returned"}
Pcs == {"new", "streaming"} \cup PollPcs \cup LookPcs \cup EndPcs

\* Between registration and clear_request.
Active(q) == pc[q] \notin {"new", "failed", "returned"}

Init ==
    /\ pc = [q \in Requests |-> "new"]
    /\ calls = [q \in Requests |-> 0]
    /\ cancel = [q \in Requests |-> FALSE]
    /\ retry = [q \in Requests |-> FALSE]
    /\ registry = [r \in Runs |-> None]
    /\ handler = None
    /\ retries = 0
    /\ latest = [r \in Runs |-> None]
    /\ torn = {}
    /\ missed = {}

Goto(q, label) == pc' = [pc EXCEPT ![q] = label]
Submit(q) == calls' = [calls EXCEPT ![q] = @ + 1]
Set(event, q) == [event EXCEPT ![q] = TRUE]
Clear(event, q) == [event EXCEPT ![q] = FALSE]

-----------------------------------------------------------------------------
(* The registry.                                                           *)

\* register_request, and the first call; an entry of the run is overwritten.
\* A streamed request is called on the thread itself and never polls.
Register(q) ==
    /\ pc[q] = "new"
    /\ handler = None
    /\ registry' = [registry EXCEPT ![RunOf[q]] = q]
    /\ latest' = [latest EXCEPT ![RunOf[q]] = q]
    /\ \E label \in {"polling", "streaming"} : Goto(q, label)
    /\ Submit(q)
    /\ UNCHANGED <<events, handler, retries, ghosts>>

\* Mutant: as if the entry were removed whosever it is.
UnregisterAny(q) == [registry EXCEPT ![RunOf[q]] = None]

\* clear_request removes the entry if it is still the request's own.
Unregister(q) ==
    IF registry[RunOf[q]] = q THEN [registry EXCEPT ![RunOf[q]] = None]
    ELSE registry

\* request_cancel_retry, of the entry of the run: first one event ...
RequestCancel(r) ==
    LET q == registry[r] IN
    /\ q # None
    /\ handler = None
    /\ retries < MaxRetries
    /\ cancel' = Set(cancel, q)
    /\ handler' = q
    /\ retries' = retries + 1
    /\ torn' = IF pc[q] \in {"cancelCleared", "lookCleared"}
               THEN torn \cup {q} ELSE torn
    /\ UNCHANGED <<pc, calls, retry, registry, latest, missed>>

\* ... then the other.
RequestRetry ==
    LET q == handler IN
    /\ q # None
    /\ retry' = Set(retry, q)
    /\ handler' = None
    /\ missed' = IF pc[q] \in {"streaming"} \cup EndPcs
                 THEN missed \cup {q} ELSE missed
    /\ UNCHANGED <<pc, calls, cancel, registry, retries, latest, torn>>

-----------------------------------------------------------------------------
(* The provider's call.                                                    *)

\* A call ends, with an answer or an error, at the latest by its timeout.
CallEnds(q) ==
    /\ calls[q] > 0
    /\ calls' = [calls EXCEPT ![q] = @ - 1]
    /\ UNCHANGED <<pc, events, shared, ghosts>>

-----------------------------------------------------------------------------
(* The thread: _call_with_cancellation.                                    *)

\* future.result: the call is over before the wait or by the time the events
\* are looked at.  An error is raised on.
GetResult(q) ==
    /\ pc[q] \in {"polling", "cancelSeen"}
    /\ calls[q] = 0
    /\ \E label \in {"looking", "raising"} : Goto(q, label)
    /\ UNCHANGED <<calls, events, shared, ghosts>>

\* The streamed call is over: its events are not looked at.
StreamEnds(q) ==
    /\ pc[q] = "streaming"
    /\ calls[q] = 0
    /\ \E label \in {"returning", "raising"} : Goto(q, label)
    /\ UNCHANGED <<calls, events, shared, ghosts>>

\* The wait times out and cancel_event is set.
SeeCancel(q) ==
    /\ pc[q] = "polling"
    /\ calls[q] > 0
    /\ cancel[q]
    /\ Goto(q, "cancelSeen")
    /\ torn' = IF handler = q THEN torn \cup {q} ELSE torn
    /\ UNCHANGED <<calls, events, shared, missed>>

\* retry_event is set too: the events are cleared one after the other.
SeeRetry(q) ==
    /\ pc[q] = "cancelSeen"
    /\ retry[q]
    /\ cancel' = Clear(cancel, q)
    /\ Goto(q, "cancelCleared")
    /\ UNCHANGED <<calls, retry, shared, ghosts>>

\* It is not: LLMRequestCancelled.
SeeNoRetry(q) ==
    /\ pc[q] = "cancelSeen"
    /\ ~retry[q]
    /\ Goto(q, "cancelled")
    /\ UNCHANGED <<calls, events, shared, ghosts>>

ClearRetry(q) ==
    /\ pc[q] = "cancelCleared"
    /\ retry' = Clear(retry, q)
    /\ Goto(q, "draining")
    /\ UNCHANGED <<calls, cancel, shared, ghosts>>

\* Mutant: as if the pool were left without waiting for the call.
Abandon(q) ==
    /\ pc[q] = "draining"
    /\ Goto(q, "polling")
    /\ Submit(q)
    /\ UNCHANGED <<events, shared, ghosts>>

\* Leaving the pool's `with' block waits for the call that was given up; then
\* the events are looked at once more and the call is made again.
Drain(q) ==
    /\ pc[q] = "draining"
    /\ calls[q] = 0
    /\ IF retry[q]
       THEN /\ cancel' = Clear(cancel, q)
            /\ Goto(q, "lookCleared")
            /\ UNCHANGED calls
       ELSE /\ Goto(q, "polling")
            /\ Submit(q)
            /\ UNCHANGED cancel
    /\ UNCHANGED <<retry, shared, ghosts>>

-----------------------------------------------------------------------------
(* The thread: after the call.                                             *)

\* Mutant: as if the answer were returned without a look at the events.
LookAway(q) ==
    /\ pc[q] = "looking"
    /\ Goto(q, "returning")
    /\ UNCHANGED <<calls, events, shared, ghosts>>

\* Mutant: as if cancel_event were not cleared with retry_event.
LookOnce(q) ==
    /\ pc[q] = "looking"
    /\ Goto(q, IF retry[q] THEN "lookCleared" ELSE "returning")
    /\ UNCHANGED <<calls, events, shared, ghosts>>

\* The answer is there; a retry asked for in the meantime throws it away.
Look(q) ==
    /\ pc[q] = "looking"
    /\ IF retry[q]
       THEN /\ cancel' = Clear(cancel, q)
            /\ Goto(q, "lookCleared")
       ELSE /\ Goto(q, "returning")
            /\ UNCHANGED cancel
    /\ UNCHANGED <<calls, retry, shared, ghosts>>

\* Mutant: as if retry_event were left set.
CallAgainAndAgain(q) ==
    /\ pc[q] = "lookCleared"
    /\ Goto(q, "polling")
    /\ Submit(q)
    /\ UNCHANGED <<events, shared, ghosts>>

CallAgain(q) ==
    /\ pc[q] = "lookCleared"
    /\ retry' = Clear(retry, q)
    /\ Goto(q, "polling")
    /\ Submit(q)
    /\ UNCHANGED <<cancel, shared, ghosts>>

\* The `finally' clause, once the pool has been left (the answer or the error
\* is there, or the cancelled call is over).
Return(q) ==
    /\ pc[q] \in {"returning", "raising", "cancelled"}
    /\ calls[q] = 0
    /\ handler = None
    /\ registry' = Unregister(q)
    /\ Goto(q, IF pc[q] = "returning" THEN "returned" ELSE "failed")
    /\ UNCHANGED <<calls, events, handler, retries, latest, ghosts>>

-----------------------------------------------------------------------------
ThreadStep(q) ==
    \/ GetResult(q) \/ StreamEnds(q) \/ SeeCancel(q) \/ SeeRetry(q)
    \/ SeeNoRetry(q) \/ ClearRetry(q) \/ Drain(q) \/ Look(q) \/ CallAgain(q)
    \/ Return(q)

Next ==
    \/ \E q \in Requests : Register(q) \/ CallEnds(q) \/ ThreadStep(q)
    \/ \E r \in Runs : RequestCancel(r)
    \/ RequestRetry

Spec == Init /\ [][Next]_vars

\* Threads keep running, a handler finishes, and the provider's client has a
\* timeout.  Nobody has to ask for a retry.
Fairness ==
    /\ \A q \in Requests : WF_vars(ThreadStep(q)) /\ WF_vars(CallEnds(q))
    /\ WF_vars(RequestRetry)

FairSpec == Spec /\ Fairness

-----------------------------------------------------------------------------
(* Properties.                                                             *)

\* Every variable has its type.
TypeOK ==
    /\ pc \in [Requests -> Pcs]
    /\ calls \in [Requests -> Nat]
    /\ cancel \in [Requests -> BOOLEAN]
    /\ retry \in [Requests -> BOOLEAN]
    /\ registry \in [Runs -> Requests \cup {None}]
    /\ handler \in Requests \cup {None}
    /\ retries \in 0..MaxRetries
    /\ latest \in [Runs -> Requests \cup {None}]
    /\ torn \in SUBSET Requests
    /\ missed \in SUBSET Requests

\* A request has one call in flight at a time, however often it is cancelled
\* and tried again: the call that was given up is waited for, also when the
\* retry was asked for because it hangs.
OneCallAtATime == \A q \in Requests : calls[q] <= 1

\* The retry handler never fails the request it means to repeat, unless the
\* thread looked at the events, or the handler set the first of them, between
\* the two steps of the other.
CancelledOnlyTorn == \A q \in Requests : pc[q] = "cancelled" => q \in torn

\* A retry that was acknowledged is carried out before the answer is returned,
\* unless it came after the last look at the events (or the request streams).
RetryLostOnlyLate ==
    \A q \in Requests : pc[q] = "returned" /\ retry[q] => q \in missed

\* The retry handler finds the request of a run that was registered last for
\* exactly as long as that is active, whichever requests of the run overlap.
LatestIsFound ==
    \A r \in Runs :
        registry[r] = IF latest[r] # None /\ Active(latest[r]) THEN latest[r]
                      ELSE None

\* Every request ends.
RequestsEnd == \A q \in Requests : Active(q) ~> ~Active(q)
=============================================================================
