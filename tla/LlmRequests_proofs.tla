-------------------------- MODULE LlmRequests_proofs --------------------------
(***************************************************************************)
(* Proofs about LlmRequests, for all sets of requests and runs, any         *)
(* assignment of the ones to the others and any number of retries.          *)
(***************************************************************************)
EXTENDS LlmRequests, TLAPS

-----------------------------------------------------------------------------
(* Type correctness *)

(* The initial state is well typed.                                          *)
LEMMA TypeInit == Init => TypeOK
  BY LlmAssumption DEF Init, TypeOK, Pcs

\* What one kind of step does to the places, the calls and the events.
Moves(q) == \E label \in Pcs : pc' = [pc EXCEPT ![q] = label]

(* A step that moves one thread keeps every thread at a place.               *)
LEMMA MoveType ==
    ASSUME pc \in [Requests -> Pcs], NEW q \in Requests, Moves(q)
    PROVE  pc' \in [Requests -> Pcs]
  BY DEF Moves

(* Submitting a call leaves the numbers of calls natural.                    *)
LEMMA SubmitType ==
    ASSUME calls \in [Requests -> Nat], NEW q \in Requests, Submit(q)
    PROVE  calls' \in [Requests -> Nat]
<1>1. calls[q] + 1 \in Nat
  OBVIOUS
<1> QED
  BY <1>1 DEF Submit

(* Every step keeps the types.                                               *)
LEMMA TypeNext == TypeOK /\ [Next]_vars => TypeOK'
<1> SUFFICES ASSUME TypeOK, [Next]_vars PROVE TypeOK'
  OBVIOUS
<1> USE DEF TypeOK
<1>1. ASSUME NEW q \in Requests, Register(q) PROVE TypeOK'
  <2>1. Moves(q)
    BY <1>1 DEF Register, Moves, Goto, Pcs, PollPcs
  <2>2. calls' \in [Requests -> Nat]
    BY <1>1, SubmitType DEF Register
  <2>3. /\ registry' \in [Runs -> Requests \cup {None}]
        /\ latest' \in [Runs -> Requests \cup {None}]
    BY <1>1 DEF Register
  <2> QED
    BY <1>1, <2>1, <2>2, <2>3, MoveType DEF Register, events, ghosts
<1>2. ASSUME NEW q \in Requests, CallEnds(q) PROVE TypeOK'
  <2>1. calls[q] - 1 \in Nat
    BY <1>2 DEF CallEnds
  <2> QED
    BY <1>2, <2>1 DEF CallEnds, events, shared, ghosts
<1>3. ASSUME NEW r \in Runs, RequestCancel(r) PROVE TypeOK'
  <2>1. registry[r] \in Requests
    BY <1>3 DEF RequestCancel
  <2>2. cancel' \in [Requests -> BOOLEAN]
    BY <1>3, <2>1 DEF RequestCancel, Set
  <2>3. retries' \in 0..MaxRetries
    BY <1>3, LlmAssumption DEF RequestCancel
  <2>4. torn' \in SUBSET Requests
    BY <1>3, <2>1 DEF RequestCancel
  <2> QED
    BY <1>3, <2>1, <2>2, <2>3, <2>4 DEF RequestCancel
<1>4. ASSUME RequestRetry PROVE TypeOK'
  <2>1. handler \in Requests
    BY <1>4 DEF RequestRetry
  <2>2. retry' \in [Requests -> BOOLEAN]
    BY <1>4, <2>1 DEF RequestRetry, Set
  <2>3. missed' \in SUBSET Requests
    BY <1>4, <2>1 DEF RequestRetry
  <2> QED
    BY <1>4, <2>1, <2>2, <2>3 DEF RequestRetry
<1>5. ASSUME NEW q \in Requests, ThreadStep(q) PROVE TypeOK'
  <2>1. CASE GetResult(q)
    <3>1. Moves(q)
      BY <2>1 DEF GetResult, Moves, Goto, Pcs, LookPcs, EndPcs
    <3> QED
      BY <2>1, <3>1, MoveType DEF GetResult, events, shared, ghosts
  <2>2. CASE StreamEnds(q)
    <3>1. Moves(q)
      BY <2>2 DEF StreamEnds, Moves, Goto, Pcs, EndPcs
    <3> QED
      BY <2>2, <3>1, MoveType DEF StreamEnds, events, shared, ghosts
  <2>3. CASE SeeCancel(q)
    <3>1. Moves(q)
      BY <2>3 DEF SeeCancel, Moves, Goto, Pcs, PollPcs
    <3>2. torn' \in SUBSET Requests
      BY <2>3 DEF SeeCancel
    <3> QED
      BY <2>3, <3>1, <3>2, MoveType DEF SeeCancel, events, shared
  <2>4. CASE SeeRetry(q)
    <3>1. Moves(q)
      BY <2>4 DEF SeeRetry, Moves, Goto, Pcs, PollPcs
    <3> QED
      BY <2>4, <3>1, MoveType DEF SeeRetry, Clear, shared, ghosts
  <2>5. CASE SeeNoRetry(q)
    <3>1. Moves(q)
      BY <2>5 DEF SeeNoRetry, Moves, Goto, Pcs, EndPcs
    <3> QED
      BY <2>5, <3>1, MoveType DEF SeeNoRetry, events, shared, ghosts
  <2>6. CASE ClearRetry(q)
    <3>1. Moves(q)
      BY <2>6 DEF ClearRetry, Moves, Goto, Pcs, LookPcs
    <3> QED
      BY <2>6, <3>1, MoveType DEF ClearRetry, Clear, shared, ghosts
  <2>7. CASE Drain(q)
    <3>1. Moves(q)
      BY <2>7 DEF Drain, Moves, Goto, Pcs, PollPcs, LookPcs
    <3>2. calls' \in [Requests -> Nat]
      BY <2>7, SubmitType DEF Drain
    <3>3. cancel' \in [Requests -> BOOLEAN]
      BY <2>7 DEF Drain, Clear
    <3> QED
      BY <2>7, <3>1, <3>2, <3>3, MoveType DEF Drain, shared, ghosts
  <2>8. CASE Look(q)
    <3>1. Moves(q)
      BY <2>8 DEF Look, Moves, Goto, Pcs, LookPcs, EndPcs
    <3>2. cancel' \in [Requests -> BOOLEAN]
      BY <2>8 DEF Look, Clear
    <3> QED
      BY <2>8, <3>1, <3>2, MoveType DEF Look, shared, ghosts
  <2>9. CASE CallAgain(q)
    <3>1. Moves(q)
      BY <2>9 DEF CallAgain, Moves, Goto, Pcs, PollPcs
    <3>2. calls' \in [Requests -> Nat]
      BY <2>9, SubmitType DEF CallAgain
    <3> QED
      BY <2>9, <3>1, <3>2, MoveType DEF CallAgain, Clear, shared, ghosts
  <2>10. CASE Return(q)
    <3>1. Moves(q)
      BY <2>10 DEF Return, Moves, Goto, Pcs, EndPcs
    <3>2. registry' \in [Runs -> Requests \cup {None}]
      BY <2>10 DEF Return, Unregister
    <3> QED
      BY <2>10, <3>1, <3>2, MoveType DEF Return, events, ghosts
  <2> QED
    BY <1>5, <2>1, <2>2, <2>3, <2>4, <2>5, <2>6, <2>7, <2>8, <2>9, <2>10
    DEF ThreadStep
<1>6. CASE UNCHANGED vars
  BY <1>6 DEF vars, events, shared, ghosts
<1> QED
  BY <1>1, <1>2, <1>3, <1>4, <1>5, <1>6 DEF Next

(* Every variable keeps its type.                                            *)
THEOREM TypeCorrect == Spec => []TypeOK
  BY TypeInit, TypeNext, PTL DEF Spec
-----------------------------------------------------------------------------
(* One call at a time *)

\* A call is in flight only while the thread waits for it.
WaitPcs == PollPcs \cup {"draining", "cancelled", "streaming"}

CallInv ==
    \A q \in Requests : calls[q] <= 1 /\ (pc[q] \notin WaitPcs => calls[q] = 0)

(* Initially no call is in flight.                                           *)
LEMMA CallInit == Init => CallInv
<1> SUFFICES ASSUME Init, NEW q \in Requests PROVE calls[q] <= 1 /\ calls[q] = 0
  BY DEF CallInv
<1>1. calls[q] = 0
  BY DEF Init
<1> QED
  BY <1>1

(* A call is submitted only where none is in flight.                         *)
LEMMA CallNext == TypeOK /\ CallInv /\ [Next]_vars => CallInv'
<1> SUFFICES ASSUME TypeOK, CallInv, [Next]_vars PROVE CallInv'
  OBVIOUS
<1> USE DEF TypeOK, CallInv, WaitPcs, PollPcs
<1>1. ASSUME NEW p \in Requests, Register(p) PROVE CallInv'
  BY <1>1 DEF Register, Submit, Goto, events, shared, ghosts
<1>2. ASSUME NEW p \in Requests, CallEnds(p) PROVE CallInv'
  BY <1>2 DEF CallEnds, Goto, events, shared, ghosts
<1>3. ASSUME NEW r \in Runs, RequestCancel(r) PROVE CallInv'
  BY <1>3 DEF RequestCancel, Set
<1>4. ASSUME RequestRetry PROVE CallInv'
  BY <1>4 DEF RequestRetry, Set
<1>5. ASSUME NEW p \in Requests, ThreadStep(p) PROVE CallInv'
  <2>1. CASE GetResult(p)
    BY <2>1 DEF GetResult, Goto, events, shared, ghosts
  <2>2. CASE StreamEnds(p)
    BY <2>2 DEF StreamEnds, Goto, events, shared, ghosts
  <2>3. CASE SeeCancel(p)
    BY <2>3 DEF SeeCancel, Goto, events, shared, ghosts
  <2>4. CASE SeeRetry(p)
    BY <2>4 DEF SeeRetry, Clear, Goto, events, shared, ghosts
  <2>5. CASE SeeNoRetry(p)
    BY <2>5 DEF SeeNoRetry, Goto, events, shared, ghosts
  <2>6. CASE ClearRetry(p)
    BY <2>6 DEF ClearRetry, Clear, Goto, events, shared, ghosts
  <2>7. CASE Drain(p)
    BY <2>7 DEF Drain, Clear, Submit, Goto, events, shared, ghosts
  <2>8. CASE Look(p)
    BY <2>8 DEF Look, Clear, Goto, events, shared, ghosts
  <2>9. CASE CallAgain(p)
    BY <2>9 DEF CallAgain, Clear, Submit, Goto, events, shared, ghosts
  <2>10. CASE Return(p)
    BY <2>10 DEF Return, Unregister, Goto, events, shared, ghosts
  <2> QED
    BY <1>5, <2>1, <2>2, <2>3, <2>4, <2>5, <2>6, <2>7, <2>8, <2>9, <2>10
    DEF ThreadStep
<1>6. CASE UNCHANGED vars
  BY <1>6 DEF vars, events, shared, ghosts
<1> QED
  BY <1>1, <1>2, <1>3, <1>4, <1>5, <1>6 DEF Next

(* Whatever is cancelled and tried again, and however long a call hangs, a    *)
(* request has one call in flight at a time.                                 *)
THEOREM OneCallCorrect == Spec => []OneCallAtATime
<1>1. CallInv => OneCallAtATime
  BY DEF CallInv, OneCallAtATime
<1> QED
  BY TypeCorrect, CallInit, CallNext, <1>1, PTL DEF Spec

-----------------------------------------------------------------------------
(* The registry *)

\* The handler is between its two steps only on a request that is active.
HandlerInv == handler # None => Active(handler)

\* The request registered last has started and is of its run.
LatestInv ==
    /\ LatestIsFound
    /\ \A r \in Runs :
         latest[r] # None => pc[latest[r]] # "new" /\ RunOf[latest[r]] = r

(* Initially the registry is empty.                                          *)
LEMMA RegistryInit == Init => HandlerInv /\ LatestInv
  BY LlmAssumption DEF Init, HandlerInv, LatestInv, LatestIsFound

(* The registry holds what it should, whichever requests of a run overlap.   *)
LEMMA LatestNext == TypeOK /\ LatestInv /\ [Next]_vars => LatestInv'
<1> SUFFICES ASSUME TypeOK, LatestInv, [Next]_vars PROVE LatestInv'
  OBVIOUS
<1> USE DEF TypeOK, LatestInv, LatestIsFound, Active, PollPcs, LookPcs, EndPcs
<1>1. ASSUME NEW p \in Requests, Register(p) PROVE LatestInv'
  BY <1>1, LlmAssumption DEF Register, Submit, Goto, events, shared, ghosts
<1>2. ASSUME NEW p \in Requests, CallEnds(p) PROVE LatestInv'
  BY <1>2 DEF CallEnds, Goto, events, shared, ghosts
<1>3. ASSUME NEW r \in Runs, RequestCancel(r) PROVE LatestInv'
  BY <1>3 DEF RequestCancel, Set
<1>4. ASSUME RequestRetry PROVE LatestInv'
  BY <1>4 DEF RequestRetry, Set
<1>5. ASSUME NEW p \in Requests, ThreadStep(p) PROVE LatestInv'
  <2>1. CASE GetResult(p)
    BY <2>1 DEF GetResult, Goto, events, shared, ghosts
  <2>2. CASE StreamEnds(p)
    BY <2>2 DEF StreamEnds, Goto, events, shared, ghosts
  <2>3. CASE SeeCancel(p)
    BY <2>3 DEF SeeCancel, Goto, events, shared, ghosts
  <2>4. CASE SeeRetry(p)
    BY <2>4 DEF SeeRetry, Clear, Goto, events, shared, ghosts
  <2>5. CASE SeeNoRetry(p)
    BY <2>5 DEF SeeNoRetry, Goto, events, shared, ghosts
  <2>6. CASE ClearRetry(p)
    BY <2>6 DEF ClearRetry, Clear, Goto, events, shared, ghosts
  <2>7. CASE Drain(p)
    BY <2>7 DEF Drain, Clear, Submit, Goto, events, shared, ghosts
  <2>8. CASE Look(p)
    BY <2>8 DEF Look, Clear, Goto, events, shared, ghosts
  <2>9. CASE CallAgain(p)
    BY <2>9 DEF CallAgain, Clear, Submit, Goto, events, shared, ghosts
  <2>10. CASE Return(p)
    BY <2>10 DEF Return, Unregister, Goto, events, shared, ghosts
  <2> QED
    BY <1>5, <2>1, <2>2, <2>3, <2>4, <2>5, <2>6, <2>7, <2>8, <2>9, <2>10
    DEF ThreadStep
<1>6. CASE UNCHANGED vars
  BY <1>6 DEF vars, events, shared, ghosts
<1> QED
  BY <1>1, <1>2, <1>3, <1>4, <1>5, <1>6 DEF Next

(* A request does not end under the handler, which holds the registry's lock. *)
LEMMA HandlerNext ==
    TypeOK /\ LatestInv /\ HandlerInv /\ [Next]_vars => HandlerInv'
<1> SUFFICES ASSUME TypeOK, LatestInv, HandlerInv, [Next]_vars PROVE HandlerInv'
  OBVIOUS
<1> USE DEF TypeOK, HandlerInv, LatestInv, LatestIsFound, Active, PollPcs, LookPcs, EndPcs
<1>1. ASSUME NEW p \in Requests, Register(p) PROVE HandlerInv'
  BY <1>1, LlmAssumption DEF Register, Submit, Goto, events, shared, ghosts
<1>2. ASSUME NEW p \in Requests, CallEnds(p) PROVE HandlerInv'
  BY <1>2 DEF CallEnds, Goto, events, shared, ghosts
<1>3. ASSUME NEW r \in Runs, RequestCancel(r) PROVE HandlerInv'
  BY <1>3 DEF RequestCancel, Set
<1>4. ASSUME RequestRetry PROVE HandlerInv'
  BY <1>4 DEF RequestRetry, Set
<1>5. ASSUME NEW p \in Requests, ThreadStep(p) PROVE HandlerInv'
  <2>1. CASE GetResult(p)
    BY <2>1 DEF GetResult, Goto, events, shared, ghosts
  <2>2. CASE StreamEnds(p)
    BY <2>2 DEF StreamEnds, Goto, events, shared, ghosts
  <2>3. CASE SeeCancel(p)
    BY <2>3 DEF SeeCancel, Goto, events, shared, ghosts
  <2>4. CASE SeeRetry(p)
    BY <2>4 DEF SeeRetry, Clear, Goto, events, shared, ghosts
  <2>5. CASE SeeNoRetry(p)
    BY <2>5 DEF SeeNoRetry, Goto, events, shared, ghosts
  <2>6. CASE ClearRetry(p)
    BY <2>6 DEF ClearRetry, Clear, Goto, events, shared, ghosts
  <2>7. CASE Drain(p)
    BY <2>7 DEF Drain, Clear, Submit, Goto, events, shared, ghosts
  <2>8. CASE Look(p)
    BY <2>8 DEF Look, Clear, Goto, events, shared, ghosts
  <2>9. CASE CallAgain(p)
    BY <2>9 DEF CallAgain, Clear, Submit, Goto, events, shared, ghosts
  <2>10. CASE Return(p)
    BY <2>10 DEF Return, Unregister, Goto, events, shared, ghosts
  <2> QED
    BY <1>5, <2>1, <2>2, <2>3, <2>4, <2>5, <2>6, <2>7, <2>8, <2>9, <2>10
    DEF ThreadStep
<1>6. CASE UNCHANGED vars
  BY <1>6 DEF vars, events, shared, ghosts
<1> QED
  BY <1>1, <1>2, <1>3, <1>4, <1>5, <1>6 DEF Next

(* The retry handler finds the request of the run that was registered last,   *)
(* for as long as that is active.                                            *)
THEOREM RegistryCorrect == Spec => []LatestIsFound
<1>1. LatestInv => LatestIsFound
  BY DEF LatestInv
<1> QED
  BY TypeCorrect, RegistryInit, LatestNext, <1>1, PTL DEF Spec

-----------------------------------------------------------------------------
(* Retries *)

\* A request that looks at its events no more was asked to retry too late.
LateInv ==
    \A q \in Requests :
        /\ pc[q] = "new" => ~retry[q]
        /\ pc[q] \in {"streaming", "returning", "returned"} /\ retry[q]
              => q \in missed

\* While nobody was between two events, cancel_event is never seen alone.
TornInv ==
    \A q \in Requests \ torn :
        /\ pc[q] # "cancelled"
        /\ pc[q] = "cancelSeen" => retry[q]
        /\ pc[q] \in {"cancelCleared", "lookCleared"} => ~cancel[q]
        /\ cancel[q] => retry[q] \/ handler = q

(* Initially nothing was asked for.                                          *)
LEMMA RetryInit == Init => LateInv /\ TornInv
  BY DEF Init, LateInv, TornInv

(* A retry is taken up at the last look at the events, or it came later.     *)
LEMMA LateNext ==
    TypeOK /\ HandlerInv /\ LateInv /\ [Next]_vars => LateInv'
<1> SUFFICES ASSUME TypeOK, HandlerInv, LateInv, [Next]_vars PROVE LateInv'
  OBVIOUS
<1> USE DEF TypeOK, LateInv, HandlerInv, Active, PollPcs, LookPcs, EndPcs
<1>1. ASSUME NEW p \in Requests, Register(p) PROVE LateInv'
  BY <1>1 DEF Register, Submit, Goto, events, shared, ghosts
<1>2. ASSUME NEW p \in Requests, CallEnds(p) PROVE LateInv'
  BY <1>2 DEF CallEnds, Goto, events, shared, ghosts
<1>3. ASSUME NEW r \in Runs, RequestCancel(r) PROVE LateInv'
  BY <1>3 DEF RequestCancel, Set
<1>4. ASSUME RequestRetry PROVE LateInv'
  BY <1>4 DEF RequestRetry, Set
<1>5. ASSUME NEW p \in Requests, ThreadStep(p) PROVE LateInv'
  <2>1. CASE GetResult(p)
    BY <2>1 DEF GetResult, Goto, events, shared, ghosts
  <2>2. CASE StreamEnds(p)
    BY <2>2 DEF StreamEnds, Goto, events, shared, ghosts
  <2>3. CASE SeeCancel(p)
    BY <2>3 DEF SeeCancel, Goto, events, shared, ghosts
  <2>4. CASE SeeRetry(p)
    BY <2>4 DEF SeeRetry, Clear, Goto, events, shared, ghosts
  <2>5. CASE SeeNoRetry(p)
    BY <2>5 DEF SeeNoRetry, Goto, events, shared, ghosts
  <2>6. CASE ClearRetry(p)
    BY <2>6 DEF ClearRetry, Clear, Goto, events, shared, ghosts
  <2>7. CASE Drain(p)
    BY <2>7 DEF Drain, Clear, Submit, Goto, events, shared, ghosts
  <2>8. CASE Look(p)
    BY <2>8 DEF Look, Clear, Goto, events, shared, ghosts
  <2>9. CASE CallAgain(p)
    BY <2>9 DEF CallAgain, Clear, Submit, Goto, events, shared, ghosts
  <2>10. CASE Return(p)
    BY <2>10 DEF Return, Unregister, Goto, events, shared, ghosts
  <2> QED
    BY <1>5, <2>1, <2>2, <2>3, <2>4, <2>5, <2>6, <2>7, <2>8, <2>9, <2>10
    DEF ThreadStep
<1>6. CASE UNCHANGED vars
  BY <1>6 DEF vars, events, shared, ghosts
<1> QED
  BY <1>1, <1>2, <1>3, <1>4, <1>5, <1>6 DEF Next

(* The thread sees cancel_event without retry_event only when it or the       *)
(* handler was between the two.                                              *)
LEMMA TornNext ==
    TypeOK /\ HandlerInv /\ TornInv /\ [Next]_vars => TornInv'
<1> SUFFICES ASSUME TypeOK, HandlerInv, TornInv, [Next]_vars PROVE TornInv'
  OBVIOUS
<1> USE DEF TypeOK, TornInv, HandlerInv, Active, PollPcs, LookPcs, EndPcs
<1>1. ASSUME NEW p \in Requests, Register(p) PROVE TornInv'
  BY <1>1 DEF Register, Submit, Goto, events, shared, ghosts
<1>2. ASSUME NEW p \in Requests, CallEnds(p) PROVE TornInv'
  BY <1>2 DEF CallEnds, Goto, events, shared, ghosts
<1>3. ASSUME NEW r \in Runs, RequestCancel(r) PROVE TornInv'
  <2> DEFINE q == registry[r]
  <2>1. /\ q \in Requests /\ handler = None /\ handler' = q
        /\ cancel' = [cancel EXCEPT ![q] = TRUE]
        /\ pc[q] \in {"cancelCleared", "lookCleared"} => q \in torn'
        /\ torn \subseteq torn'
        /\ pc' = pc /\ retry' = retry
    BY <1>3 DEF RequestCancel, Set
  <2> HIDE DEF q
  <2> QED
    BY <2>1, LlmAssumption
<1>4. ASSUME RequestRetry PROVE TornInv'
  BY <1>4 DEF RequestRetry, Set
<1>5. ASSUME NEW p \in Requests, ThreadStep(p) PROVE TornInv'
  <2>1. CASE GetResult(p)
    BY <2>1 DEF GetResult, Goto, events, shared, ghosts
  <2>2. CASE StreamEnds(p)
    BY <2>2 DEF StreamEnds, Goto, events, shared, ghosts
  <2>3. CASE SeeCancel(p)
    BY <2>3 DEF SeeCancel, Goto, events, shared, ghosts
  <2>4. CASE SeeRetry(p)
    BY <2>4 DEF SeeRetry, Clear, Goto, events, shared, ghosts
  <2>5. CASE SeeNoRetry(p)
    BY <2>5 DEF SeeNoRetry, Goto, events, shared, ghosts
  <2>6. CASE ClearRetry(p)
    BY <2>6 DEF ClearRetry, Clear, Goto, events, shared, ghosts
  <2>7. CASE Drain(p)
    BY <2>7 DEF Drain, Clear, Submit, Goto, events, shared, ghosts
  <2>8. CASE Look(p)
    BY <2>8 DEF Look, Clear, Goto, events, shared, ghosts
  <2>9. CASE CallAgain(p)
    BY <2>9 DEF CallAgain, Clear, Submit, Goto, events, shared, ghosts
  <2>10. CASE Return(p)
    BY <2>10 DEF Return, Unregister, Goto, events, shared, ghosts
  <2> QED
    BY <1>5, <2>1, <2>2, <2>3, <2>4, <2>5, <2>6, <2>7, <2>8, <2>9, <2>10
    DEF ThreadStep
<1>6. CASE UNCHANGED vars
  BY <1>6 DEF vars, events, shared, ghosts
<1> QED
  BY <1>1, <1>2, <1>3, <1>4, <1>5, <1>6 DEF Next

(* The handler is between its steps only on an active request.               *)
LEMMA HandlerCorrect == Spec => []HandlerInv
  BY TypeCorrect, RegistryInit, LatestNext, HandlerNext, PTL DEF Spec

(* An acknowledged retry is carried out unless it came after the last look.  *)
THEOREM RetryCorrect == Spec => []RetryLostOnlyLate
<1>1. LateInv => RetryLostOnlyLate
  BY DEF LateInv, RetryLostOnlyLate
<1> QED
  BY TypeCorrect, HandlerCorrect, RetryInit, LateNext, <1>1, PTL DEF Spec

(* A retry fails the request it means to repeat only when it was torn.       *)
THEOREM CancelCorrect == Spec => []CancelledOnlyTorn
<1>1. TornInv => CancelledOnlyTorn
  BY DEF TornInv, CancelledOnlyTorn
<1> QED
  BY TypeCorrect, HandlerCorrect, RetryInit, TornNext, <1>1, PTL DEF Spec

-----------------------------------------------------------------------------
(* How often a request is made *)

\* Steps a thread can still take for this call, and the call's own end, if nobody asks
\* for a retry; an event that is set sends it round once more.
Rank(at) ==
    CASE at \in {"new", "draining"} -> 9
      [] at = "polling" -> 7
      [] at = "cancelSeen" -> 6
      [] at \in {"cancelCleared", "looking"} -> 5
      [] at = "lookCleared" -> 4
      [] at = "streaming" -> 2
      [] at \in {"returning", "raising", "cancelled"} -> 1
      [] OTHER -> 0

Asked(q) == IF retry[q] THEN 6 ELSE 0
Pending(q) == IF handler = q THEN 7 ELSE 0
Round(q) == Rank(pc[q]) + calls[q] + Asked(q)

\* And eight for every retry that may still be asked for.
Left(q) == Round(q) + Pending(q) + 8 * (MaxRetries - retries)

\* What the steps of a request, its calls and its handlers change.
Of(q) == <<pc[q], calls[q], cancel[q], retry[q]>>

Lessens(q) == Left(q)' <= Left(q) /\ (Of(q)' # Of(q) => Left(q)' < Left(q))

\* The event that is about to be cleared is set; retries count only down.
SetInv ==
    /\ \A q \in Requests : pc[q] \in {"cancelCleared", "lookCleared"} => retry[q]
    /\ \A q \in Requests : Left(q) \in 0..(8 * MaxRetries + 9)

(* The steps at each place.                                                  *)
LEMMA RankIs ==
    /\ Rank("new") = 9 /\ Rank("draining") = 9
    /\ Rank("polling") = 7
    /\ Rank("cancelSeen") = 6
    /\ Rank("cancelCleared") = 5 /\ Rank("looking") = 5
    /\ Rank("lookCleared") = 4
    /\ Rank("streaming") = 2
    /\ Rank("returning") = 1 /\ Rank("raising") = 1 /\ Rank("cancelled") = 1
    /\ Rank("failed") = 0 /\ Rank("returned") = 0
  BY DEF Rank

(* They are nine at most.                                                    *)
LEMMA RankType == ASSUME NEW at \in Pcs PROVE Rank(at) \in 0..9
  BY RankIs DEF Pcs, PollPcs, LookPcs, EndPcs

(* Everything a request's measure is made of is a number.                    *)
LEMMA MeasureType ==
    ASSUME TypeOK, NEW q \in Requests
    PROVE  /\ Rank(pc[q]) \in 0..9 /\ calls[q] \in Nat
           /\ Asked(q) \in 0..6 /\ Pending(q) \in 0..7
           /\ retries \in Nat /\ MaxRetries - retries \in Nat
           /\ Round(q) \in Nat /\ Left(q) \in Nat
<1>1. pc[q] \in Pcs
  BY DEF TypeOK
<1>2. Rank(pc[q]) \in 0..9
  BY <1>1, RankType
<1>3. calls[q] \in Nat
  BY DEF TypeOK
<1>4. Asked(q) \in 0..6
  BY DEF Asked
<1>5. Pending(q) \in 0..7
  BY DEF Pending
<1>6. retries \in Nat /\ MaxRetries - retries \in Nat
  BY LlmAssumption DEF TypeOK
<1>7. Round(q) \in Nat
  BY <1>2, <1>3, <1>4 DEF Round
<1>8. Left(q) \in Nat
  BY <1>5, <1>6, <1>7 DEF Left
<1> QED
  BY <1>2, <1>3, <1>4, <1>5, <1>6, <1>7, <1>8

(* A step of one request leaves the measure of the others alone.             *)
LEMMA OthersStay ==
    ASSUME NEW q, Of(q)' = Of(q), (handler' = q) <=> (handler = q), retries' = retries
    PROVE  Left(q)' = Left(q)
<1>1. pc'[q] = pc[q] /\ calls'[q] = calls[q] /\ retry'[q] = retry[q]
  BY DEF Of
<1>2. Round(q)' = Round(q)
  BY <1>1 DEF Round, Asked
<1>3. Pending(q)' = Pending(q)
  BY DEF Pending
<1> QED
  BY <1>2, <1>3 DEF Left

(* A step of a thread, or the end of a call, is one step less.               *)
LEMMA RoundLess ==
    ASSUME TypeOK, CallInv, SetInv, NEW p \in Requests,
           Register(p) \/ CallEnds(p) \/ ThreadStep(p)
    PROVE  Round(p)' < Round(p)
<1>0. /\ calls[p] \in Nat /\ Asked(p) \in 0..6
      /\ pc \in [Requests -> Pcs] /\ calls \in [Requests -> Nat]
      /\ retry \in [Requests -> BOOLEAN]
  BY MeasureType DEF TypeOK
<1>a. pc[p] \notin WaitPcs => calls[p] = 0
  BY DEF CallInv
<1>b. ASSUME NEW n, calls' = [calls EXCEPT ![p] = n]
      PROVE  calls'[p] = n
  BY <1>0, <1>b
<1>c. ASSUME NEW label, Goto(p, label)
      PROVE  pc'[p] = label
  BY <1>0, <1>c DEF Goto
<1>d. Submit(p) => calls'[p] = calls[p] + 1
  BY <1>0 DEF Submit
<1>e. retry' = retry => Asked(p)' = Asked(p)
  BY DEF Asked
<1>1. CASE Register(p)
  <2>1. /\ pc[p] = "new" /\ pc'[p] \in {"polling", "streaming"}
        /\ calls'[p] = calls[p] + 1 /\ Asked(p)' = Asked(p)
    BY <1>1, <1>c, <1>d, <1>e DEF Register, events
  <2> QED
    BY <1>0, <1>a, <2>1, RankIs DEF Round, WaitPcs, PollPcs
<1>2. CASE CallEnds(p)
  <2>1. pc'[p] = pc[p] /\ calls'[p] = calls[p] - 1 /\ Asked(p)' = Asked(p)
    BY <1>0, <1>2, <1>e DEF CallEnds, events
  <2> QED
    BY <1>0, <2>1, MeasureType DEF Round
<1>3. ASSUME NEW from, NEW to, pc[p] = from, pc'[p] = to, calls'[p] = calls[p],
             Asked(p)' = Asked(p), Rank(to) \in Nat, Rank(from) \in Nat, Rank(to) < Rank(from)
      PROVE  Round(p)' < Round(p)
  BY <1>0, <1>3 DEF Round
<1>4. CASE GetResult(p)
  <2>1. /\ pc[p] \in {"polling", "cancelSeen"} /\ pc'[p] \in {"looking", "raising"}
        /\ calls' = calls /\ Asked(p)' = Asked(p)
    BY <1>4, <1>c, <1>e DEF GetResult, events
  <2> QED
    BY <1>3, <2>1, RankIs
<1>5. CASE StreamEnds(p)
  <2>1. /\ pc[p] = "streaming" /\ pc'[p] \in {"returning", "raising"}
        /\ calls' = calls /\ Asked(p)' = Asked(p)
    BY <1>5, <1>c, <1>e DEF StreamEnds, events
  <2> QED
    BY <1>3, <2>1, RankIs
<1>6. CASE SeeCancel(p)
  <2>1. /\ pc[p] = "polling" /\ pc'[p] = "cancelSeen"
        /\ calls' = calls /\ Asked(p)' = Asked(p)
    BY <1>6, <1>c, <1>e DEF SeeCancel, events
  <2> QED
    BY <1>3, <2>1, RankIs
<1>7. CASE SeeRetry(p)
  <2>1. /\ pc[p] = "cancelSeen" /\ pc'[p] = "cancelCleared"
        /\ calls' = calls /\ Asked(p)' = Asked(p)
    BY <1>7, <1>c, <1>e DEF SeeRetry
  <2> QED
    BY <1>3, <2>1, RankIs
<1>8. CASE SeeNoRetry(p)
  <2>1. /\ pc[p] = "cancelSeen" /\ pc'[p] = "cancelled"
        /\ calls' = calls /\ Asked(p)' = Asked(p)
    BY <1>8, <1>c, <1>e DEF SeeNoRetry, events
  <2> QED
    BY <1>3, <2>1, RankIs
<1>9. retry[p] /\ retry' = Clear(retry, p) => Asked(p) = 6 /\ Asked(p)' = 0
  BY <1>0 DEF Clear, Asked
<1>10. CASE ClearRetry(p)
  <2>1. /\ pc[p] = "cancelCleared" /\ pc'[p] = "draining" /\ calls'[p] = calls[p]
        /\ retry' = Clear(retry, p)
    BY <1>10, <1>c DEF ClearRetry
  <2>2. Asked(p) = 6 /\ Asked(p)' = 0
    BY <1>9, <2>1 DEF SetInv
  <2> QED
    BY <1>0, <2>1, <2>2, RankIs DEF Round
<1>11. CASE Drain(p)
  <2>1. pc[p] = "draining" /\ calls[p] = 0 /\ Asked(p)' = Asked(p)
    BY <1>11, <1>e DEF Drain
  <2>2. \/ pc'[p] = "lookCleared" /\ calls'[p] = calls[p]
        \/ pc'[p] = "polling" /\ calls'[p] = calls[p] + 1
    BY <1>11, <1>c, <1>d DEF Drain
  <2> QED
    BY <1>0, <2>1, <2>2, RankIs DEF Round
<1>12. CASE Look(p)
  <2>1. /\ pc[p] = "looking" /\ pc'[p] \in {"lookCleared", "returning"}
        /\ calls' = calls /\ Asked(p)' = Asked(p)
    BY <1>12, <1>c, <1>e DEF Look
  <2> QED
    BY <1>3, <2>1, RankIs
<1>13. CASE CallAgain(p)
  <2>1. /\ pc[p] = "lookCleared" /\ pc'[p] = "polling" /\ calls'[p] = calls[p] + 1
        /\ retry' = Clear(retry, p)
    BY <1>13, <1>c, <1>d DEF CallAgain
  <2>2. Asked(p) = 6 /\ Asked(p)' = 0
    BY <1>9, <2>1 DEF SetInv
  <2> QED
    BY <1>0, <2>1, <2>2, RankIs DEF Round
<1>14. CASE Return(p)
  <2>1. /\ pc[p] \in {"returning", "raising", "cancelled"} /\ pc'[p] \in {"returned", "failed"}
        /\ calls' = calls /\ Asked(p)' = Asked(p)
    BY <1>14, <1>c, <1>e DEF Return, events
  <2> QED
    BY <1>3, <2>1, RankIs
<1> QED
  BY <1>1, <1>2, <1>4, <1>5, <1>6, <1>7, <1>8, <1>10, <1>11, <1>12, <1>13, <1>14
     DEF ThreadStep

(* A thread or a call touches no other request, only its own.                *)
LEMMA ThreadFrame ==
    ASSUME TypeOK, NEW p \in Requests, NEW q \in Requests \ {p},
           Register(p) \/ CallEnds(p) \/ ThreadStep(p)
    PROVE  Of(q)' = Of(q)
  BY DEF TypeOK, Of, Register, CallEnds, ThreadStep, GetResult, StreamEnds, SeeCancel, SeeRetry,
     SeeNoRetry, ClearRetry, Drain, Look, CallAgain, Return, Goto, Submit, Clear, events

(* Handlers are not touched either.                                          *)
LEMMA ThreadShared ==
    ASSUME NEW p \in Requests, Register(p) \/ CallEnds(p) \/ ThreadStep(p)
    PROVE  handler' = handler /\ retries' = retries
  BY DEF Register, CallEnds, ThreadStep, GetResult, StreamEnds, SeeCancel, SeeRetry,
     SeeNoRetry, ClearRetry, Drain, Look, CallAgain, Return, shared

(* Every step lessens the measure of the request it is about, and raises none. *)
LEMMA LeftNext ==
    ASSUME TypeOK, TypeOK', CallInv, SetInv, [Next]_vars, NEW q \in Requests
    PROVE  Lessens(q)
<1>0. /\ Round(q) \in Nat /\ Pending(q) \in 0..7 /\ Asked(q) \in 0..6
      /\ retries \in Nat /\ MaxRetries - retries \in Nat
      /\ Rank(pc[q]) \in 0..9 /\ calls[q] \in Nat /\ Left(q) \in Nat
  BY MeasureType
<1>1. ASSUME NEW p \in Requests, Register(p) \/ CallEnds(p) \/ ThreadStep(p)
      PROVE  Lessens(q)
  <2>1. handler' = handler /\ retries' = retries
    BY <1>1, ThreadShared
  <2>2. CASE q = p
    <3>1. Round(q)' < Round(q)
      BY <1>1, <2>2, RoundLess
    <3>2. Pending(q)' = Pending(q)
      BY <2>1 DEF Pending
    <3>3. Round(q)' \in Nat
      <4>1. Rank(pc'[q]) \in 0..9 /\ calls'[q] \in Nat
        BY RankType DEF TypeOK
      <4>2. Asked(q)' \in 0..6
        BY DEF Asked
      <4> QED
        BY <4>1, <4>2 DEF Round
    <3> QED
      BY <1>0, <2>1, <3>1, <3>2, <3>3 DEF Left, Lessens
  <2>3. CASE q # p
    <3>1. Of(q)' = Of(q)
      BY <1>1, <2>3, ThreadFrame
    <3>2. Left(q)' = Left(q)
      BY <2>1, <3>1, OthersStay
    <3> QED
      BY <1>0, <3>1, <3>2 DEF Lessens
  <2> QED
    BY <2>2, <2>3
<1>2. ASSUME NEW r \in Runs, RequestCancel(r) PROVE Lessens(q)
  <2>1. /\ handler = None /\ handler' \in Requests
        /\ retries < MaxRetries /\ retries' = retries + 1
        /\ UNCHANGED <<pc, calls, retry>>
    BY <1>2 DEF RequestCancel, TypeOK
  <2>2. Round(q)' = Round(q)
    BY <2>1 DEF Round, Asked
  <2>3. Pending(q) = 0 /\ Pending(q)' \in 0..7
    BY <2>1, LlmAssumption DEF Pending
  <2>4. MaxRetries \in Nat
    BY LlmAssumption
  <2>5. Left(q)' < Left(q)
    BY <1>0, <2>1, <2>2, <2>3, <2>4 DEF Left
  <2>6. Left(q)' \in Nat
    BY <1>0, <2>1, <2>2, <2>3, <2>4 DEF Left
  <2> QED
    BY <1>0, <2>5, <2>6 DEF Lessens
<1>3. ASSUME RequestRetry PROVE Lessens(q)
  <2>1. /\ handler # None /\ handler' = None /\ retries' = retries
        /\ retry' = [retry EXCEPT ![handler] = TRUE]
        /\ UNCHANGED <<pc, calls, cancel>>
    BY <1>3 DEF RequestRetry, Set
  <2>2. CASE q = handler
    <3>1. Pending(q) = 7 /\ Pending(q)' = 0
      BY <2>1, <2>2 DEF Pending
    <3>2. Asked(q)' \in 0..6
      BY DEF Asked
    <3>3. Round(q)' = Rank(pc[q]) + calls[q] + Asked(q)'
      BY <2>1 DEF Round
    <3>4. Round(q) = Rank(pc[q]) + calls[q] + Asked(q)
      BY DEF Round
    <3>5. Left(q)' < Left(q) /\ Left(q)' \in Nat
      BY <1>0, <2>1, <3>1, <3>2, <3>3, <3>4 DEF Left
    <3> QED
      BY <1>0, <3>5 DEF Lessens
  <2>3. CASE q # handler
    <3>1. Of(q)' = Of(q)
      BY <2>1, <2>3 DEF Of, TypeOK
    <3>2. Left(q)' = Left(q)
      BY <2>1, <2>3, <3>1, OthersStay, LlmAssumption
    <3> QED
      BY <1>0, <3>1, <3>2 DEF Lessens
  <2> QED
    BY <2>2, <2>3
<1>4. CASE UNCHANGED vars
  <2>1. Of(q)' = Of(q) /\ handler' = handler /\ retries' = retries
    BY <1>4 DEF vars, events, shared, Of
  <2>2. Left(q)' = Left(q)
    BY <2>1, OthersStay
  <2> QED
    BY <1>0, <2>1, <2>2 DEF Lessens
<1> QED
  BY <1>1, <1>2, <1>3, <1>4 DEF Next

(* An event that is about to be cleared stays set until it is.               *)
LEMMA SetStays ==
    ASSUME TypeOK, SetInv, [Next]_vars, NEW q \in Requests,
           pc'[q] \in {"cancelCleared", "lookCleared"}
    PROVE  retry'[q]
<1>0. pc[q] \in {"cancelCleared", "lookCleared"} => retry[q]
  BY DEF SetInv
<1>1. ASSUME NEW p \in Requests, Register(p) \/ CallEnds(p) \/ ThreadStep(p), p # q
      PROVE  retry'[q]
  <2>1. pc'[q] = pc[q] /\ retry'[q] = retry[q]
    BY <1>1, ThreadFrame DEF Of
  <2> QED
    BY <1>0, <2>1
<1>2. CASE ThreadStep(q)
  <2>1. CASE SeeRetry(q)
    BY <2>1 DEF SeeRetry
  <2>2. CASE Drain(q)
    BY <2>2 DEF Drain, Goto, TypeOK
  <2>3. CASE Look(q)
    BY <2>3 DEF Look, Goto, TypeOK
  <2>4. ASSUME \/ GetResult(q) \/ StreamEnds(q) \/ SeeCancel(q) \/ SeeNoRetry(q)
               \/ ClearRetry(q) \/ CallAgain(q) \/ Return(q)
        PROVE  FALSE
    BY <2>4 DEF GetResult, StreamEnds, SeeCancel, SeeNoRetry, ClearRetry, CallAgain, Return,
                Goto, TypeOK
  <2> QED
    BY <1>2, <2>1, <2>2, <2>3, <2>4 DEF ThreadStep
<1>3. CASE Register(q)
  BY <1>3 DEF Register, Goto, TypeOK
<1>4. CASE CallEnds(q)
  BY <1>0, <1>4 DEF CallEnds, events
<1>5. ASSUME NEW r \in Runs, RequestCancel(r) PROVE retry'[q]
  BY <1>0, <1>5 DEF RequestCancel
<1>6. CASE RequestRetry
  BY <1>0, <1>6 DEF RequestRetry, Set, TypeOK
<1>7. CASE UNCHANGED vars
  BY <1>0, <1>7 DEF vars, events
<1> QED
  BY <1>1, <1>2, <1>3, <1>4, <1>5, <1>6, <1>7 DEF Next

(* The measure starts at its bound and never rises above it.                 *)
LEMMA SetNext ==
    ASSUME TypeOK, TypeOK', CallInv, SetInv, [Next]_vars
    PROVE  SetInv'
<1>1. ASSUME NEW q \in Requests PROVE Left(q)' \in 0..(8 * MaxRetries + 9)
  <2>1. Left(q) \in 0..(8 * MaxRetries + 9) /\ Left(q)' <= Left(q)
    BY LeftNext DEF SetInv, Lessens
  <2>2. Left(q)' \in Nat
    <3>1. Rank(pc'[q]) \in 0..9 /\ calls'[q] \in Nat
      BY RankType DEF TypeOK
    <3>2. Asked(q)' \in 0..6 /\ Pending(q)' \in 0..7
      BY DEF Asked, Pending
    <3>3. MaxRetries - retries' \in Nat
      <4>1. retries' \in 0..MaxRetries /\ MaxRetries \in Nat
        BY LlmAssumption, Zenon DEF TypeOK
      <4>2. \A n \in Nat : \A m \in 0..n : n - m \in Nat
        OBVIOUS
      <4> QED
        BY <4>1, <4>2
    <3>4. Round(q)' \in Nat
      BY <3>1, <3>2 DEF Round
    <3> QED
      BY <3>2, <3>3, <3>4 DEF Left
  <2>3. MaxRetries \in Nat
    BY LlmAssumption
  <2> QED
    BY <2>1, <2>2, <2>3
<1> QED
  BY <1>1, SetStays DEF SetInv

(* Initially nobody has asked for anything.                                  *)
LEMMA SetInit == Init => SetInv
<1> SUFFICES ASSUME Init, NEW q \in Requests
             PROVE  /\ pc[q] \in {"cancelCleared", "lookCleared"} => retry[q]
                    /\ Left(q) \in 0..(8 * MaxRetries + 9)
  BY DEF SetInv
<1>1. /\ pc[q] = "new" /\ calls[q] = 0 /\ retry[q] = FALSE /\ handler = None /\ retries = 0
      /\ None \notin Requests /\ MaxRetries \in Nat
  BY LlmAssumption DEF Init
<1>2. Asked(q) = 0 /\ Pending(q) = 0 /\ Rank(pc[q]) = 9
  BY <1>1, RankIs DEF Asked, Pending
<1> QED
  BY <1>1, <1>2 DEF Left, Round

\* What a step does to the requests.
Shrinks == \A q \in Requests : Lessens(q)

(* A request, its calls and the handlers that find it take at most nine      *)
(* steps and eight more for each retry that is asked for: whenever one of    *)
(* them moves there is less left, and nothing another request does adds to   *)
(* it.  (That they move is fairness, and RequestsEnd stays with TLC.)        *)
THEOREM RequestIsFinite ==
    Spec => /\ [](\A q \in Requests : Left(q) \in 0..(8 * MaxRetries + 9))
            /\ [][Shrinks]_vars
<1>1. TypeOK /\ TypeOK' /\ CallInv /\ SetInv /\ [Next]_vars => SetInv' /\ Shrinks
  BY LeftNext, SetNext, Zenon DEF Shrinks
<1>2. SetInv => \A q \in Requests : Left(q) \in 0..(8 * MaxRetries + 9)
  BY Zenon DEF SetInv
<1> QED
  BY <1>1, <1>2, SetInit, TypeCorrect, CallInit, CallNext, PTL DEF Spec
=============================================================================
