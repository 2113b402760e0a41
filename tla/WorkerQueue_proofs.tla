-------------------------- MODULE WorkerQueue_proofs --------------------------
(***************************************************************************)
(* Proofs about WorkerQueue, for every number of runs, workers, retries and *)
(* failures.                                                                *)
(***************************************************************************)
EXTENDS WorkerQueue, TLAPS

-----------------------------------------------------------------------------
(* Type correctness *)

\* Where the drain of a worker may return to, and what a step may write to pc.
Places == {"claim", "locked", "busy", "connect", "wait", "backoff", "down"}

(* Moving a worker keeps every worker at a place of the loop.                *)
LEMMA GoToType ==
    ASSUME pc \in [Workers -> Places], NEW w \in Workers, NEW to \in Places, GoTo(w, to)
    PROVE  pc' \in [Workers -> Places]
  BY DEF GoTo

(* Ending a transaction leaves each row locked by a worker or by nobody.     *)
LEMMA UnlockType ==
    ASSUME lock \in [Runs -> Workers \cup {Nobody}], NEW w, Unlock(w)
    PROVE  lock' \in [Runs -> Workers \cup {Nobody}]
  BY DEF Unlock

(* A failed claim leaves the counter of tries below its maximum.             *)
LEMMA ErrsType ==
    ASSUME TypeOK, NEW w \in Workers, Errs(w)
    PROVE  /\ tries' \in [Workers -> 0..(MaxTries - 1)]
           /\ pc' \in [Workers -> Places]
           /\ lapsed' \in [Workers -> BOOLEAN]
<1>1. tries[w] + 1 < MaxTries => tries[w] + 1 \in 0..(MaxTries - 1)
  BY QueueAssumption DEF TypeOK
<1>2. 0 \in 0..(MaxTries - 1)
  BY QueueAssumption
<1>3. tries' \in [Workers -> 0..(MaxTries - 1)]
  BY <1>1, <1>2 DEF Errs, TypeOK
<1>4. then[w] \in Places /\ "claim" \in Places
  BY DEF TypeOK, Places
<1>5. pc' \in [Workers -> Places]
  BY <1>4, GoToType DEF Errs, TypeOK, Places
<1>6. lapsed' \in [Workers -> BOOLEAN]
  BY DEF Errs, TypeOK
<1> QED
  BY <1>3, <1>5, <1>6

(* Counting one more failure stays within the bound.                         *)
LEMMA FaultType ==
    ASSUME faults \in 0..MaxFaults, NEW kind, Fault(kind)
    PROVE  faults' \in 0..MaxFaults
  BY QueueAssumption DEF Fault

(* The initial state is well typed.                                          *)
LEMMA TypeInit == Init => TypeOK
  BY QueueAssumption DEF Init, TypeOK, FirstReturn

(* Every step keeps the types.                                               *)
LEMMA TypeNext == TypeOK /\ [Next]_vars => TypeOK'
<1> SUFFICES ASSUME TypeOK, [Next]_vars PROVE TypeOK'
  OBVIOUS
<1>0. /\ pc \in [Workers -> Places]
      /\ \A w \in Workers : then[w] \in Places
  BY DEF TypeOK, Places
<1>00. {"claim", "locked", "busy", "connect", "wait", "backoff", "down"} \subseteq Places
  BY DEF Places
<1>1. ASSUME NEW r \in Runs, Offer(r) PROVE TypeOK'
  <2>1. offers' \in [Runs -> 0..MaxOffers]
    BY <1>1, QueueAssumption DEF Offer, TypeOK
  <2>2. inbox' \in [Workers -> BOOLEAN]
    BY <1>1 DEF Offer, TypeOK
  <2> QED
    BY <1>1, <2>1, <2>2 DEF Offer, TypeOK
<1>2. ASSUME NEW r \in Runs, Withdraw(r) PROVE TypeOK'
  BY <1>2 DEF Withdraw, TypeOK, ears
<1>3. ASSUME NEW w \in Workers, LockOldest(w) PROVE TypeOK'
  <2>1. lock' \in [Runs -> Workers \cup {Nobody}]
    BY <1>3 DEF LockOldest, TypeOK, Free
  <2>2. pc' \in [Workers -> Places]
    BY <1>3, <1>0, <1>00, GoToType DEF LockOldest
  <2> QED
    BY <1>3, <2>1, <2>2 DEF LockOldest, TypeOK, ears, Places
<1>4. ASSUME NEW w \in Workers, FindNone(w) \/ ClaimUnsupported(w) \/ Finish(w) PROVE TypeOK'
  <2>1. pc' \in [Workers -> Places]
    BY <1>4, <1>0, <1>00, GoToType DEF FindNone, ClaimUnsupported, Finish
  <2>2. tries' \in [Workers -> 0..(MaxTries - 1)]
    BY <1>4, QueueAssumption DEF FindNone, ClaimUnsupported, Finish, TypeOK
  <2> QED
    BY <1>4, <2>1, <2>2 DEF FindNone, ClaimUnsupported, Finish, TypeOK, ears, table, Places
<1>5. ASSUME NEW w \in Workers, ClaimCommit(w) \/ CommitLost(w) PROVE TypeOK'
  <2>1. /\ row' \in [Runs -> {"none", "queued", "taken"}]
        /\ taken' \in [Runs -> Nat]
    BY <1>5 DEF ClaimCommit, CommitLost, TypeOK
  <2>2. lock' \in [Runs -> Workers \cup {Nobody}]
    BY <1>5, UnlockType DEF ClaimCommit, CommitLost, TypeOK
  <2>3. CASE ClaimCommit(w)
    <3>1. pc' \in [Workers -> Places]
      BY <2>3, <1>0, <1>00, GoToType DEF ClaimCommit
    <3>2. tries' \in [Workers -> 0..(MaxTries - 1)]
      BY <2>3, QueueAssumption DEF ClaimCommit, TypeOK
    <3> QED
      BY <2>1, <2>2, <2>3, <3>1, <3>2 DEF ClaimCommit, TypeOK, ears, Places
  <2>4. CASE CommitLost(w)
    BY <2>1, <2>2, <2>4, ErrsType, FaultType DEF CommitLost, TypeOK, ears, Places
  <2> QED
    BY <1>5, <2>3, <2>4
<1>6. ASSUME NEW w \in Workers, ClaimFails(w) PROVE TypeOK'
  BY <1>6, ErrsType, FaultType, UnlockType DEF ClaimFails, TypeOK, ears, Places
<1>7. ASSUME NEW w \in Workers, Connect(w) \/ Notified(w) \/ Due(w) \/ Poll(w) PROVE TypeOK'
  <2>1. pc' \in [Workers -> Places] /\ then' \in [Workers -> {"connect", "wait"}]
        /\ lapsed' \in [Workers -> BOOLEAN]
    BY <1>7, <1>0, <1>00, GoToType DEF Connect, Notified, Due, Poll, Drain, TypeOK
  <2>2. conn' \in [Workers -> {"none", "up", "broken", "silent"}] /\ inbox' \in [Workers -> BOOLEAN]
    BY <1>7 DEF Connect, Notified, Due, Poll, TypeOK, ears
  <2> QED
    BY <1>7, <2>1, <2>2 DEF Connect, Notified, Due, Poll, TypeOK, table, Places
<1>8. ASSUME NEW w \in Workers, ConnectFails(w) \/ Reconnect(w) \/ WaitRaises(w) PROVE TypeOK'
  <2>1. pc' \in [Workers -> Places]
    BY <1>8, <1>0, <1>00, GoToType DEF ConnectFails, Reconnect, WaitRaises
  <2>2. conn' \in [Workers -> {"none", "up", "broken", "silent"}] /\ inbox' \in [Workers -> BOOLEAN]
    BY <1>8 DEF ConnectFails, Reconnect, WaitRaises, TypeOK, ears
  <2>3. faults' \in 0..MaxFaults
    BY <1>8, FaultType DEF ConnectFails, Reconnect, WaitRaises, TypeOK
  <2> QED
    BY <1>8, <2>1, <2>2, <2>3 DEF ConnectFails, Reconnect, WaitRaises, TypeOK, table, Places
<1>9. ASSUME NEW w \in Workers, Break(w) PROVE TypeOK'
  BY <1>9, FaultType DEF Break, TypeOK, table
<1>10. ASSUME NEW w \in Workers, Crash(w) \/ Restart(w) PROVE TypeOK'
  <2>1. pc' \in [Workers -> Places] /\ then' \in [Workers -> {"connect", "wait"}]
        /\ lapsed' \in [Workers -> BOOLEAN]
    BY <1>10, <1>0, <1>00, GoToType DEF Crash, Restart, TypeOK, FirstReturn
  <2>2. conn' \in [Workers -> {"none", "up", "broken", "silent"}] /\ inbox' \in [Workers -> BOOLEAN]
        /\ lock' \in [Runs -> Workers \cup {Nobody}]
    BY <1>10, UnlockType DEF Crash, Restart, TypeOK, ears, table
  <2>3. faults' \in 0..MaxFaults /\ tries' \in [Workers -> 0..(MaxTries - 1)]
    BY <1>10, FaultType, QueueAssumption DEF Crash, Restart, TypeOK
  <2> QED
    BY <1>10, <2>1, <2>2, <2>3 DEF Crash, Restart, TypeOK, table, Places
<1>11. CASE UNCHANGED vars
  BY <1>11 DEF vars, table, ears, TypeOK
<1> QED
  BY <1>1, <1>2, <1>3, <1>4, <1>5, <1>6, <1>7, <1>8, <1>9, <1>10, <1>11
     DEF Next, WorkerStep, Failure

(* Rows, locks, workers and their connections stay well typed.               *)
THEOREM TypeCorrect == Spec => []TypeOK
<1> QED
  BY TypeInit, TypeNext, PTL DEF Spec

-----------------------------------------------------------------------------
(* Locks and connections *)

\* A locked row is queued and its worker is in the claim; on Postgres a worker that
\* waits, or drains before it waits, has had a connection since it last connected.
LoopInv ==
    /\ \A r \in Runs : lock[r] # Nobody => pc[lock[r]] = "locked" /\ row[r] = "queued"
    /\ \A w \in Workers : pc[w] = "wait" => then[w] = "wait"
    /\ \A w \in Workers :
          postgres /\ then[w] = "wait" /\ pc[w] \in {"claim", "locked", "busy", "wait"} => conn[w] # "none"

(* Every step preserves it.                                                  *)
LEMMA LoopNext ==
    ASSUME TypeOK, LoopInv, [Next]_vars
    PROVE  LoopInv'
<1>1. ASSUME NEW r \in Runs, Offer(r) \/ Withdraw(r) PROVE LoopInv'
  BY <1>1 DEF Offer, Withdraw, LoopInv, TypeOK, ears, Free, Nobody
<1>2. ASSUME NEW w \in Workers, LockOldest(w) PROVE LoopInv'
  BY <1>2, QueueAssumption DEF LockOldest, LoopInv, TypeOK, ears, Free, GoTo, Nobody
<1>3. ASSUME NEW w \in Workers, FindNone(w) \/ ClaimUnsupported(w) \/ Finish(w) PROVE LoopInv'
  BY <1>3 DEF FindNone, ClaimUnsupported, Finish, LoopInv, TypeOK, table, ears, GoTo
<1>4. ASSUME NEW w \in Workers, ClaimCommit(w) \/ CommitLost(w) \/ ClaimFails(w) PROVE LoopInv'
  <2>1. \A r \in Runs : lock'[r] # Nobody => /\ lock'[r] = lock[r] /\ lock[r] # w
                                             /\ row'[r] = row[r]
    BY <1>4 DEF ClaimCommit, CommitLost, ClaimFails, Unlock, LoopInv, TypeOK, Nobody
  <2>2. \A v \in Workers \ {w} : pc'[v] = pc[v]
    BY <1>4 DEF ClaimCommit, CommitLost, ClaimFails, Errs, GoTo, TypeOK
  <2>3. /\ pc'[w] \in {"busy", "claim", then[w]}
        /\ pc[w] \in {"claim", "locked"}
        /\ UNCHANGED <<postgres, then, conn>>
    BY <1>4 DEF ClaimCommit, CommitLost, ClaimFails, Errs, GoTo, TypeOK, ears
  <2>4. \A r \in Runs : lock'[r] # Nobody => pc'[lock'[r]] = "locked" /\ row'[r] = "queued"
    BY <2>1, <2>2 DEF LoopInv, TypeOK
  <2> QED
    BY <2>2, <2>3, <2>4 DEF LoopInv, TypeOK
<1>5. ASSUME NEW w \in Workers, Connect(w) \/ Notified(w) \/ Due(w) PROVE LoopInv'
  BY <1>5 DEF Connect, Notified, Due, Drain, LoopInv, TypeOK, table, ears, GoTo
<1>6. ASSUME NEW w \in Workers, ConnectFails(w) \/ Reconnect(w) \/ WaitRaises(w) PROVE LoopInv'
  BY <1>6 DEF ConnectFails, Reconnect, WaitRaises, LoopInv, TypeOK, table, ears, GoTo
<1>7. ASSUME NEW w \in Workers, Break(w) PROVE LoopInv'
  BY <1>7 DEF Break, LoopInv, TypeOK, table
<1>8. ASSUME NEW w \in Workers, Crash(w) PROVE LoopInv'
  <2>1. \A r \in Runs : lock'[r] # Nobody => lock'[r] = lock[r] /\ lock[r] # w
    BY <1>8 DEF Crash, Unlock, TypeOK, Nobody
  <2> QED
    BY <1>8, <2>1 DEF Crash, LoopInv, TypeOK, GoTo
<1>9. ASSUME NEW w \in Workers, Restart(w) PROVE LoopInv'
  BY <1>9 DEF Restart, LoopInv, TypeOK, table, ears, GoTo, FirstReturn
<1>10. ASSUME NEW w \in Workers, Poll(w) PROVE LoopInv'
  BY <1>10 DEF Poll, Drain, LoopInv, TypeOK, table, ears, GoTo
<1>11. CASE UNCHANGED vars
  BY <1>11 DEF vars, table, ears, LoopInv
<1> QED
  BY <1>1, <1>2, <1>3, <1>4, <1>5, <1>6, <1>7, <1>8, <1>9, <1>10, <1>11
     DEF Next, WorkerStep, Failure

-----------------------------------------------------------------------------
(* No wakeup is lost *)

\* Somebody will look at the queue, or has an excuse.
Minded == \E w \in Workers : ~Asleep(w) \/ Excused(w)

(* A worker that holds the lock of a row minds the queue.                    *)
LEMMA LockedMinds ==
    ASSUME TypeOK, LoopInv, NEW r \in Runs, lock[r] # Nobody
    PROVE  Minded
  BY DEF Minded, Asleep, LoopInv, TypeOK

(* Every step leaves a queued run minded.                                    *)
LEMMA WakeupNext ==
    ASSUME TypeOK, TypeOK', LoopInv, LoopInv', NoLostWakeup, [Next]_vars
    PROVE  NoLostWakeup'
<1> SUFFICES ASSUME NEW q \in Runs, row'[q] = "queued" PROVE Minded'
  BY DEF NoLostWakeup, Minded
<1>0. CASE ~postgres'
  <2>1. PICK w \in Workers : TRUE
    BY QueueAssumption
  <2> QED
    BY <1>0, <2>1 DEF Minded, Asleep
<1>1. ASSUME NEW r \in Runs, Offer(r) PROVE Minded'
  <2>1. PICK w \in Workers : TRUE
    BY QueueAssumption
  <2>2. CASE pc[w] = "wait" /\ conn[w] = "up"
    BY <1>1, <2>2 DEF Offer, Minded, Asleep
  <2>3. CASE pc[w] = "wait" /\ conn[w] # "up"
    BY <1>1, <2>3 DEF Offer, Minded, Asleep, Excused, LoopInv, TypeOK
  <2>4. CASE pc[w] # "wait"
    BY <1>1, <2>4 DEF Offer, Minded, Asleep
  <2> QED
    BY <2>2, <2>3, <2>4
<1>2. ASSUME NEW r \in Runs, Withdraw(r) PROVE Minded'
  BY <1>2 DEF Withdraw, Minded, Asleep, Excused, NoLostWakeup, TypeOK, ears
<1>3. ASSUME NEW w \in Workers, pc'[w] # "wait" PROVE Minded'
  BY <1>3 DEF Minded, Asleep
<1>4. ASSUME NEW w \in Workers, FindNone(w) PROVE Minded'
  <2>1. row[q] = "queued" /\ lock'[q] # Nobody
    BY <1>4 DEF FindNone, Free, table
  <2> QED
    BY <2>1 DEF Minded, Asleep, LoopInv, TypeOK
<1>5. ASSUME NEW w \in Workers, ClaimFails(w) \/ CommitLost(w) PROVE Minded'
  <2>1. pc'[w] = "claim" \/ lapsed'[w]
    BY <1>5 DEF ClaimFails, CommitLost, Errs, GoTo, TypeOK
  <2> QED
    BY <2>1 DEF Minded, Asleep, Excused
<1>6. ASSUME NEW w \in Workers, Break(w) PROVE Minded'
  BY <1>6 DEF Break, Minded, Asleep, Excused, TypeOK
<1>7. ASSUME NEW w \in Workers,
             \/ LockOldest(w) \/ ClaimCommit(w) \/ Finish(w) \/ Connect(w) \/ Reconnect(w)
             \/ Notified(w) \/ Due(w) \/ WaitRaises(w) \/ Restart(w)
             \/ ConnectFails(w) \/ Crash(w)
      PROVE  Minded'
  <2>1. pc'[w] # "wait"
    BY <1>7 DEF LockOldest, ClaimCommit, Finish, Connect, Reconnect, Notified, Due, WaitRaises,
                Restart, ConnectFails, Crash, Drain, GoTo, TypeOK
  <2> QED
    BY <1>3, <2>1
<1>8. ASSUME NEW w \in Workers, Poll(w) \/ ClaimUnsupported(w) PROVE Minded'
  BY <1>0, <1>8 DEF Poll, ClaimUnsupported, table
<1>9. CASE UNCHANGED vars
  BY <1>9 DEF vars, table, ears, Minded, Asleep, Excused, NoLostWakeup
<1> QED
  BY <1>1, <1>2, <1>4, <1>5, <1>6, <1>7, <1>8, <1>9 DEF Next, WorkerStep, Failure

(* A queued run never goes unnoticed while every worker sleeps,  *)
(* but for a drain that gave up or a connection that died silently.          *)
THEOREM NoWakeupLost == Spec => []NoLostWakeup
<1>1. Init => LoopInv /\ NoLostWakeup
  BY DEF Init, LoopInv, NoLostWakeup, FirstReturn, Nobody
<1>2. TypeOK /\ LoopInv /\ [Next]_vars => LoopInv'
  BY LoopNext
<1>3. TypeOK /\ TypeOK' /\ LoopInv /\ LoopInv' /\ NoLostWakeup /\ [Next]_vars => NoLostWakeup'
  BY WakeupNext
<1> QED
  BY <1>1, <1>2, <1>3, TypeCorrect, PTL DEF Spec

-----------------------------------------------------------------------------
(* The claim transaction implements the queue *)

\* A locked row is queued, and its run was claimed less often than offered.
Accounted ==
    /\ \A r \in Runs : lock[r] # Nobody => row[r] = "queued"
    /\ \A r \in Runs : taken[r] + (IF row[r] = "queued" THEN 1 ELSE 0) <= offers[r]

(* A step that leaves rows and counts alone, and locks only what is queued,  *)
(* preserves it.                                                             *)
LEMMA SameRows ==
    ASSUME Accounted, UNCHANGED <<row, offers, taken>>,
           \A r \in Runs : lock'[r] # Nobody => row[r] = "queued"
    PROVE  Accounted'
  BY DEF Accounted

(* The commit of a claim turns one offer into one claim.                     *)
LEMMA CommitAccounted ==
    ASSUME TypeOK, Accounted, NEW w \in Workers, ClaimCommit(w) \/ CommitLost(w)
    PROVE  Accounted'
<1>1. PICK p \in Runs : /\ lock[p] = w
                        /\ row' = [row EXCEPT ![p] = "taken"]
                        /\ taken' = [taken EXCEPT ![p] = @ + 1]
  BY DEF ClaimCommit, CommitLost
<1>2. Unlock(w) /\ offers' = offers
  BY DEF ClaimCommit, CommitLost
<1>3. row[p] = "queued"
  BY <1>1, QueueAssumption DEF Accounted, Nobody
<1>4. \A r \in Runs : lock'[r] # Nobody => row'[r] = "queued"
  BY <1>1, <1>2 DEF Unlock, Accounted, TypeOK
<1>5. \A r \in Runs : taken'[r] + (IF row'[r] = "queued" THEN 1 ELSE 0) <= offers'[r]
  <2> SUFFICES ASSUME NEW r \in Runs
               PROVE  taken'[r] + (IF row'[r] = "queued" THEN 1 ELSE 0) <= offers'[r]
    OBVIOUS
  <2>1. taken[r] \in Nat /\ offers[r] \in Nat
    BY QueueAssumption DEF TypeOK
  <2>2. taken[r] + (IF row[r] = "queued" THEN 1 ELSE 0) <= offers[r]
    BY DEF Accounted
  <2>3. CASE r = p
    <3>1. taken'[r] = taken[r] + 1 /\ row'[r] = "taken" /\ row[r] = "queued"
      BY <1>1, <1>3, <2>3 DEF TypeOK
    <3> QED
      BY <1>2, <2>1, <2>2, <3>1
  <2>4. CASE r # p
    BY <1>1, <1>2, <2>2, <2>4 DEF TypeOK
  <2> QED
    BY <2>3, <2>4
<1> QED
  BY <1>4, <1>5 DEF Accounted

(* A row is offered, or withdrawn, while nobody has it locked.               *)
LEMMA OfferAccounted ==
    ASSUME TypeOK, Accounted, NEW p \in Runs, Offer(p) \/ Withdraw(p)
    PROVE  Accounted'
<1> SUFFICES ASSUME NEW r \in Runs
             PROVE  /\ lock'[r] # Nobody => row'[r] = "queued"
                    /\ taken'[r] + (IF row'[r] = "queued" THEN 1 ELSE 0) <= offers'[r]
  BY DEF Accounted
<1>1. taken[r] \in Nat /\ offers[r] \in Nat
  BY QueueAssumption DEF TypeOK
<1>2. /\ lock[r] # Nobody => row[r] = "queued"
      /\ taken[r] + (IF row[r] = "queued" THEN 1 ELSE 0) <= offers[r]
  BY DEF Accounted
<1>3. CASE Offer(p)
  <2>1. CASE r = p
    <3>1. row[r] # "queued" /\ row'[r] = "queued" /\ offers'[r] = offers[r] + 1 /\ taken' = taken
      BY <1>3, <2>1 DEF Offer, TypeOK
    <3> QED
      BY <1>1, <1>2, <3>1
  <2>2. CASE r # p
    BY <1>2, <1>3, <2>2 DEF Offer, TypeOK
  <2> QED
    BY <2>1, <2>2
<1>4. CASE Withdraw(p)
  <2>1. CASE r = p
    <3>1. row[r] = "queued" /\ row'[r] = "taken" /\ lock'[r] = Nobody /\ UNCHANGED <<offers, taken>>
      BY <1>4, <2>1 DEF Withdraw, Free, TypeOK
    <3> QED
      BY <1>1, <1>2, <3>1
  <2>2. CASE r # p
    BY <1>2, <1>4, <2>2 DEF Withdraw, TypeOK
  <2> QED
    BY <2>1, <2>2
<1> QED
  BY <1>3, <1>4

(* Every step preserves the account.                                         *)
LEMMA AccountedNext == TypeOK /\ Accounted /\ [Next]_vars => Accounted'
<1> SUFFICES ASSUME TypeOK, Accounted, [Next]_vars PROVE Accounted'
  OBVIOUS
<1>1. CASE UNCHANGED table
  BY <1>1, SameRows DEF table, Accounted
<1>2. ASSUME NEW w \in Workers, LockOldest(w) PROVE Accounted'
  <2>1. \A r \in Runs : lock'[r] # Nobody => row[r] = "queued"
    BY <1>2 DEF LockOldest, Free, Accounted, TypeOK
  <2> QED
    BY <1>2, <2>1, SameRows DEF LockOldest
<1>3. ASSUME NEW w \in Workers, ClaimFails(w) \/ Crash(w) PROVE Accounted'
  <2>1. \A r \in Runs : lock'[r] # Nobody => row[r] = "queued"
    BY <1>3 DEF ClaimFails, Crash, Unlock, Accounted, TypeOK
  <2> QED
    BY <1>3, <2>1, SameRows DEF ClaimFails, Crash
<1> QED
  BY <1>1, <1>2, <1>3, CommitAccounted, OfferAccounted
     DEF Next, WorkerStep, Failure, FindNone, ClaimUnsupported, Finish, Connect, Reconnect, Notified,
         Due, Poll, WaitRaises, Restart, ConnectFails, Break, vars

(* A commit hands the locked run to the worker and to nobody else.           *)
LEMMA CommitIsHand ==
    ASSUME TypeOK, Accounted, NEW w \in Workers, ClaimCommit(w) \/ CommitLost(w)
    PROVE  Queue!Next
<1>1. PICK p \in Runs : /\ lock[p] = w
                        /\ row' = [row EXCEPT ![p] = "taken"]
                        /\ taken' = [taken EXCEPT ![p] = @ + 1]
  BY DEF ClaimCommit, CommitLost
<1>2. row[p] = "queued"
  BY <1>1, QueueAssumption DEF Accounted, Nobody
<1>3. taken[p] < MaxOffers
  <2>1. taken[p] + 1 <= offers[p]
    BY <1>2 DEF Accounted
  <2>2. taken[p] \in Nat /\ offers[p] \in 0..MaxOffers /\ MaxOffers \in Nat
    BY QueueAssumption DEF TypeOK
  <2> QED
    BY <2>1, <2>2
<1>4. {r \in Runs : row'[r] = "queued"} = {r \in Runs : row[r] = "queued"} \ {p}
  BY <1>1 DEF TypeOK
<1> QED
  BY <1>1, <1>2, <1>3, <1>4 DEF Queue!Next, Queue!Hand

(* Every step is a step of the queue or leaves it.                           *)
LEMMA QueueNext == TypeOK /\ Accounted /\ [Next]_vars => [Queue!Next]_(Queue!vars)
<1> SUFFICES ASSUME TypeOK, Accounted, [Next]_vars PROVE [Queue!Next]_(Queue!vars)
  OBVIOUS
<1>1. CASE UNCHANGED <<row, taken>>
  BY <1>1 DEF Queue!vars
<1>2. ASSUME NEW p \in Runs, Offer(p) PROVE Queue!Next
  <2>1. {r \in Runs : row'[r] = "queued"} = {r \in Runs : row[r] = "queued"} \cup {p}
    BY <1>2 DEF Offer, TypeOK
  <2> QED
    BY <1>2, <2>1 DEF Offer, Queue!Next, Queue!Offer
<1>3. ASSUME NEW p \in Runs, Withdraw(p) PROVE Queue!Next
  <2>1. {r \in Runs : row'[r] = "queued"} = {r \in Runs : row[r] = "queued"} \ {p}
    BY <1>3 DEF Withdraw, TypeOK
  <2> QED
    BY <1>3, <2>1 DEF Withdraw, Queue!Next, Queue!Withdraw
<1> QED
  BY <1>1, <1>2, <1>3, CommitIsHand
     DEF Next, WorkerStep, Failure, LockOldest, FindNone, ClaimUnsupported, Finish, Connect, Reconnect,
         Notified, Due, Poll, WaitRaises, Restart, ClaimFails, ConnectFails, Break, Crash, vars, table

(* Row locks, SKIP LOCKED, rollbacks, lost answers and crashes included, the *)
(* claim transaction hands each offer to at most one worker: it implements   *)
(* the queue whose claims RunLifecycle takes as single steps.                *)
THEOREM QueueImplemented == Spec => QueueSpec
<1>1. Init => Queue!Init /\ Accounted
  BY DEF Init, Queue!Init, Accounted, Nobody
<1> QED
  BY <1>1, TypeCorrect, AccountedNext, QueueNext, PTL DEF Spec, QueueSpec, Queue!Spec
=============================================================================
