------------------------- MODULE RunLifecycle_proofs -------------------------
(***************************************************************************)
(* Proofs about RunLifecycle, for every number of runs, workers, runtime    *)
(* processes, attempts and failures.                                        *)
(***************************************************************************)
EXTENDS RunLifecycle, TLAPS

-----------------------------------------------------------------------------
(* Updates of one variable stay within its type. *)

(* The statuses, worker states and execution states the actions write are    *)
(* among the declared ones.                                                  *)
LEMMA Constituents ==
    /\ {"queued", "running", "attention", "success", "error"} \subseteq Status
    /\ {"idle", "claimed", "streaming", "errWrite", "attWrite", "down"} \subseteq WorkerPc
    /\ {"resolve", "provision", "register", "stage", "run", "ended", "drive",
        "terminate", "done", "rejected", "dead"} \subseteq ExecPc
    /\ Settled \cup {"none", "attention", "exit"} \subseteq Outcome
    /\ Settled \subseteq Status
  BY DEF Status, WorkerPc, ExecPc, Settled, Outcome

(* A status write keeps every row's status a status.                         *)
LEMMA SetStatusType ==
    ASSUME status \in [Runs -> Status], NEW r, NEW s \in Status, SetStatus(r, s)
    PROVE  status' \in [Runs -> Status]
  BY DEF SetStatus

(* Moving an execution to its next step keeps its state well formed.         *)
LEMMA ExecToType ==
    ASSUME exec \in [Attempts -> ExecState], NEW a \in Attempts, NEW pc \in ExecPc, ExecTo(a, pc)
    PROVE  exec' \in [Attempts -> ExecState]
<1>1. [exec[a] EXCEPT !.pc = pc] \in ExecState
  BY DEF ExecState
<1> QED
  BY <1>1 DEF ExecTo

(* Ending an execution with an outcome keeps its state well formed.          *)
LEMMA ExecEndType ==
    ASSUME exec \in [Attempts -> ExecState], NEW a \in Attempts, NEW out \in Outcome, ExecEnd(a, out)
    PROVE  exec' \in [Attempts -> ExecState]
<1>1. [[exec[a] EXCEPT !.pc = "ended"] EXCEPT !.out = out] \in ExecState
  BY Constituents DEF ExecState
<1> QED
  BY <1>1 DEF ExecEnd

(* Moving a worker to its next step keeps its state well formed.             *)
LEMMA WorkerToType ==
    ASSUME worker \in [Workers -> WorkerState], NEW w \in Workers, NEW pc \in WorkerPc, WorkerTo(w, pc)
    PROVE  worker' \in [Workers -> WorkerState]
<1>1. [worker[w] EXCEPT !.pc = pc] \in WorkerState
  BY DEF WorkerState
<1> QED
  BY <1>1 DEF WorkerTo

(* Setting a worker to a well-formed state keeps all workers well formed.    *)
LEMMA WorkerSetType ==
    ASSUME worker \in [Workers -> WorkerState], NEW w, NEW s \in WorkerState,
           worker' = [worker EXCEPT ![w] = s]
    PROVE  worker' \in [Workers -> WorkerState]
  OBVIOUS

(* The states a worker starts from, crashes to and claims into.              *)
LEMMA WorkerStates ==
    /\ IdleWorker \in WorkerState
    /\ [pc |-> "down", at |-> NoAttempt] \in WorkerState
    /\ \A a \in Attempts : [pc |-> "claimed", at |-> a] \in WorkerState
  BY DEF IdleWorker, WorkerState, WorkerPc

(* An attempt is an attempt at one of the runs.                              *)
LEMMA RunOfType == ASSUME NEW a \in Attempts PROVE RunOf(a) \in Runs
  BY DEF RunOf, Attempts

(* claim_next_run hands out an attempt of the run it marks 'running'.        *)
LEMMA TakeOldestType ==
    ASSUME TypeOK, NEW r \in Runs, TakeOldest(r)
    PROVE  /\ status' \in [Runs -> Status]
           /\ claims' \in [Runs -> 0..MaxAttempts]
           /\ <<r, claims[r] + 1>> \in Attempts
<1>1. claims[r] + 1 \in 1..MaxAttempts
  BY ConstantsAssumption DEF TypeOK, TakeOldest
<1>2. claims' \in [Runs -> 0..MaxAttempts]
  BY <1>1 DEF TypeOK, TakeOldest
<1>3. status' \in [Runs -> Status]
  BY Constituents, SetStatusType DEF TypeOK, TakeOldest
<1> QED
  BY <1>1, <1>2, <1>3 DEF Attempts

(* Counting one more failure stays within the bound.                         *)
LEMMA FaultType ==
    ASSUME faults \in 0..MaxFaults, NEW kind, Fault(kind)
    PROVE  faults' \in 0..MaxFaults
  BY ConstantsAssumption DEF Fault

-----------------------------------------------------------------------------
(* Type correctness *)

(* The initial state is well typed.                                          *)
LEMMA TypeInit == Init => TypeOK
<1> SUFFICES ASSUME Init PROVE TypeOK
  OBVIOUS
<1>1. [pc |-> "none", rt |-> NoRuntime, out |-> "none"] \in ExecState
  BY DEF ExecState, ExecPc, Outcome
<1>2. \A r \in Runs : status[r] \in Status
  BY DEF Init, Status
<1>3. /\ 0 \in 0..MaxAttempts
      /\ 0 \in 0..MaxFaults
  BY ConstantsAssumption
<1> QED
  BY <1>1, <1>2, <1>3, WorkerStates DEF Init, TypeOK

(* Every step of a worker, with or without a failure, keeps the types.       *)
LEMMA TypeWorker ==
    ASSUME TypeOK, NEW w \in Workers,
           \/ WorkerStep(w)
           \/ ClaimLost(w) \/ StreamBreak(w) \/ WorkerWriteLost(w) \/ WorkerCrash(w)
    PROVE  TypeOK'
<1> USE Constituents, WorkerStates
<1>1. CASE Claim(w)
  <2>1. PICK r \in Runs : /\ TakeOldest(r)
                          /\ worker' = [worker EXCEPT ![w] = [pc |-> "claimed", at |-> <<r, claims[r] + 1>>]]
    BY <1>1 DEF Claim
  <2>2. worker' \in [Workers -> WorkerState]
    BY <2>1, TakeOldestType, WorkerSetType DEF TypeOK
  <2> QED
    BY <1>1, <2>1, <2>2, TakeOldestType DEF Claim, TypeOK
<1>2. CASE DispatchFails(w)
  BY <1>2, WorkerToType DEF DispatchFails, TypeOK
<1>3. CASE Blocked(w)
  BY <1>3, WorkerToType, SetStatusType DEF Blocked, TypeOK
<1>4. ASSUME NEW rt \in Runtimes, Trigger(w, rt) PROVE TypeOK'
  <2>1. [pc |-> "resolve", rt |-> rt, out |-> "none"] \in ExecState
    BY DEF ExecState
  <2>2. exec' \in [Attempts -> ExecState]
    BY <1>4, <2>1 DEF Trigger, TypeOK
  <2> QED
    BY <1>4, <2>2, WorkerToType DEF Trigger, TypeOK
<1>5. CASE StreamEnd(w)
  <2>1. worker' \in [Workers -> WorkerState]
    BY <1>5, WorkerToType, WorkerSetType DEF StreamEnd, TypeOK
  <2> QED
    BY <1>5, <2>1 DEF StreamEnd, TypeOK
<1>6. CASE WorkerWrites(w)
  <2>1. worker' \in [Workers -> WorkerState]
    BY <1>6, WorkerSetType DEF WorkerWrites, TypeOK
  <2>2. status' \in [Runs -> Status]
    BY <1>6, SetStatusType DEF WorkerWrites, TypeOK
  <2> QED
    BY <1>6, <2>1, <2>2 DEF WorkerWrites, TypeOK
<1>7. CASE WorkerRestart(w)
  BY <1>7, WorkerSetType DEF WorkerRestart, TypeOK
<1>8. CASE ClaimLost(w)
  <2>1. PICK r \in Runs : /\ TakeOldest(r)
                          /\ dropped' = [dropped EXCEPT ![<<r, claims[r] + 1>>] = TRUE]
    BY <1>8 DEF ClaimLost
  <2>2. dropped' \in [Attempts -> BOOLEAN]
    BY <2>1 DEF TypeOK
  <2> QED
    BY <1>8, <2>1, <2>2, TakeOldestType, FaultType DEF ClaimLost, TypeOK
<1>9. CASE StreamBreak(w)
  BY <1>9, WorkerToType, FaultType DEF StreamBreak, TypeOK
<1>10. CASE WorkerWriteLost(w)
  <2>1. dropped' \in [Attempts -> BOOLEAN]
    BY <1>10 DEF WorkerWriteLost, TypeOK
  <2> QED
    BY <1>10, <2>1, WorkerSetType, FaultType DEF WorkerWriteLost, TypeOK
<1>11. CASE WorkerCrash(w)
  <2>1. dropped' \in [Attempts -> BOOLEAN]
    BY <1>11 DEF WorkerCrash, TypeOK
  <2> QED
    BY <1>11, <2>1, WorkerSetType, FaultType DEF WorkerCrash, TypeOK
<1> QED
  BY <1>1, <1>2, <1>3, <1>4, <1>5, <1>6, <1>7, <1>8, <1>9, <1>10, <1>11 DEF WorkerStep

(* Every step of an execution, with or without a failure, keeps the types.   *)
LEMMA TypeExec ==
    ASSUME TypeOK, NEW a \in Attempts,
           \/ ExecStep(a)
           \/ ExecContextLost(a) \/ ExecHandbackLost(a) \/ ExecCleanExit(a)
           \/ ExecStatusLost(a) \/ ExecTerminateLost(a)
    PROVE  TypeOK'
<1> USE Constituents
<1>1. CASE ExecResolve(a)
  BY <1>1, ExecToType DEF ExecResolve, TypeOK
<1>2. CASE ExecProvision(a)
  BY <1>2, ExecToType DEF ExecProvision, TypeOK
<1>3. CASE ExecRegister(a)
  <2>1. env' \in [Runs -> Attempts \cup {NoAttempt}]
    BY <1>3 DEF ExecRegister, TypeOK
  <2> QED
    BY <1>3, <2>1, ExecToType DEF ExecRegister, TypeOK
<1>4. CASE ExecStage(a)
  BY <1>4, ExecToType DEF ExecStage, TypeOK
<1>5. CASE ExecReject(a)
  <2>1. dropped' \in [Attempts -> BOOLEAN]
    BY <1>5 DEF ExecReject, TypeOK, Watched
  <2> QED
    BY <1>5, <2>1, ExecToType DEF ExecReject, TypeOK
<1>6. CASE ExecReturn(a)
  BY <1>6, ExecEndType DEF ExecReturn, TypeOK
<1>7. CASE ExecHandback(a)
  <2>1. question' \in [Runs -> BOOLEAN]
    BY <1>7 DEF ExecHandback, TypeOK
  <2> QED
    BY <1>7, <2>1, ExecEndType, SetStatusType DEF ExecHandback, TypeOK
<1>8. CASE ExecWriteStatus(a)
  <2>1. status' \in [Runs -> Status]
    BY <1>8, SetStatusType DEF ExecWriteStatus, TypeOK
  <2> QED
    BY <1>8, <2>1, ExecToType DEF ExecWriteStatus, TypeOK
<1>9. CASE ExecDrive(a)
  BY <1>9, ExecToType DEF ExecDrive, TypeOK
<1>10. CASE ExecTerminate(a)
  <2>1. vm' \in [Attempts -> {"none", "running", "terminated"}]
    BY <1>10 DEF ExecTerminate, TypeOK
  <2> QED
    BY <1>10, <2>1, ExecToType DEF ExecTerminate, TypeOK
<1>11. CASE ExecContextLost(a)
  BY <1>11, ExecToType, FaultType DEF ExecContextLost, TypeOK
<1>12. CASE ExecHandbackLost(a)
  BY <1>12, ExecEndType, FaultType DEF ExecHandbackLost, TypeOK
<1>13. CASE ExecCleanExit(a)
  BY <1>13, ExecEndType, FaultType DEF ExecCleanExit, TypeOK
<1>14. CASE ExecStatusLost(a)
  BY <1>14, ExecToType, FaultType DEF ExecStatusLost, TypeOK
<1>15. CASE ExecTerminateLost(a)
  BY <1>15, ExecToType, FaultType DEF ExecTerminateLost, TypeOK
<1> QED
  BY <1>1, <1>2, <1>3, <1>4, <1>5, <1>6, <1>7, <1>8, <1>9, <1>10, <1>11, <1>12,
     <1>13, <1>14, <1>15 DEF ExecStep

(* Every step of a runtime process and its resume handler keeps the types.   *)
LEMMA TypeRuntime ==
    ASSUME TypeOK, NEW rt \in Runtimes,
           \/ \E r \in Runs : ResumeBegin(rt, r)
           \/ ResumeHandback(rt) \/ ResumeRequeue(rt)
           \/ RuntimeCrash(rt) \/ ResumeRequeueLost(rt)
    PROVE  TypeOK'
<1> USE Constituents
<1>1. ASSUME NEW r \in Runs, ResumeBegin(rt, r) PROVE TypeOK'
  BY <1>1 DEF ResumeBegin, TypeOK
<1>2. CASE ResumeHandback(rt)
  BY <1>2, SetStatusType DEF ResumeHandback, TypeOK
<1>3. CASE ResumeRequeue(rt)
  BY <1>3, SetStatusType DEF ResumeRequeue, TypeOK
<1>4. CASE RuntimeCrash(rt)
  <2>1. \A a \in Attempts : [exec[a] EXCEPT !.pc = "dead"] \in ExecState
    BY DEF TypeOK, ExecState
  <2>2. exec' \in [Attempts -> ExecState]
    BY <1>4, <2>1 DEF RuntimeCrash, TypeOK
  <2>3. dropped' \in [Attempts -> BOOLEAN]
    BY <1>4 DEF RuntimeCrash, TypeOK, Dies, Watched
  <2>4. resume' \in [Runtimes -> Runs \cup {NoRun}]
    BY <1>4 DEF RuntimeCrash, TypeOK
  <2> QED
    BY <1>4, <2>2, <2>3, <2>4, FaultType DEF RuntimeCrash, TypeOK
<1>5. CASE ResumeRequeueLost(rt)
  BY <1>5, FaultType DEF ResumeRequeueLost, TypeOK
<1> QED
  BY <1>1, <1>2, <1>3, <1>4, <1>5

(* Every step keeps the types.                                               *)
LEMMA TypeNext == TypeOK /\ [Next]_vars => TypeOK'
<1> SUFFICES ASSUME TypeOK, [Next]_vars PROVE TypeOK'
  OBVIOUS
<1>1. ASSUME NEW r \in Runs, Submit(r) PROVE TypeOK'
  BY <1>1, Constituents, SetStatusType DEF Submit, TypeOK
<1>2. CASE UNCHANGED vars
  BY <1>2 DEF vars, TypeOK
<1> QED
  BY <1>1, <1>2, TypeWorker, TypeExec, TypeRuntime DEF Next, Failure

(* The rows, VMs, workers, executions and resume handlers of every run stay  *)
(* well typed, for any number of processes and failures.                     *)
THEOREM TypeCorrect == Spec => []TypeOK
<1> QED
  BY TypeInit, TypeNext, PTL DEF Spec

-----------------------------------------------------------------------------
(* Claims never outrun the queue *)

\* The claims of one run, plus the one its queued row still offers.
Accounted(r) == claims[r] + (IF status[r] = "queued" THEN 1 ELSE 0) <= requeues[r]

(* A status write other than 'queued' gives no worker a further claim.       *)
LEMMA WriteKeepsAccount ==
    ASSUME TypeOK, ClaimedOncePerQueueing, NEW p \in Runs, NEW s \in Status \ {"queued"},
           SetStatus(p, s) \/ UNCHANGED status,
           UNCHANGED <<claims, requeues>>
    PROVE  ClaimedOncePerQueueing'
<1> SUFFICES ASSUME NEW r \in Runs PROVE Accounted(r)'
  BY DEF ClaimedOncePerQueueing, Accounted
<1>1. Accounted(r)
  BY DEF ClaimedOncePerQueueing, Accounted
<1>2. claims[r] \in Nat /\ requeues[r] \in Nat
  BY ConstantsAssumption DEF TypeOK
<1>3. status'[r] = "queued" => status[r] = "queued"
  BY DEF SetStatus, TypeOK
<1> QED
  BY <1>1, <1>2, <1>3 DEF Accounted

(* A claim consumes the offer it was made for.                               *)
LEMMA ClaimKeepsAccount ==
    ASSUME TypeOK, ClaimedOncePerQueueing, NEW p \in Runs, TakeOldest(p), UNCHANGED requeues
    PROVE  ClaimedOncePerQueueing'
<1> SUFFICES ASSUME NEW r \in Runs PROVE Accounted(r)'
  BY DEF ClaimedOncePerQueueing, Accounted
<1>1. Accounted(r)
  BY DEF ClaimedOncePerQueueing, Accounted
<1>2. claims[r] \in Nat /\ requeues[r] \in Nat
  BY ConstantsAssumption DEF TypeOK
<1>3. CASE r = p
  <2>1. status[r] = "queued" /\ status'[r] = "running" /\ claims'[r] = claims[r] + 1
    BY <1>3 DEF TakeOldest, Queued, SetStatus, TypeOK
  <2> QED
    BY <1>1, <1>2, <2>1 DEF Accounted
<1>4. CASE r # p
  BY <1>1, <1>4 DEF TakeOldest, SetStatus, TypeOK, Accounted
<1> QED
  BY <1>3, <1>4

(* Queueing a run, first or again, adds one offer.                           *)
LEMMA QueueKeepsAccount ==
    ASSUME TypeOK, ClaimedOncePerQueueing, NEW p \in Runs, SetStatus(p, "queued"),
           requeues' = [requeues EXCEPT ![p] = @ + 1], UNCHANGED claims
    PROVE  ClaimedOncePerQueueing'
<1> SUFFICES ASSUME NEW r \in Runs PROVE Accounted(r)'
  BY DEF ClaimedOncePerQueueing, Accounted
<1>1. Accounted(r)
  BY DEF ClaimedOncePerQueueing, Accounted
<1>2. claims[r] \in Nat /\ requeues[r] \in Nat
  BY ConstantsAssumption DEF TypeOK
<1>3. CASE r = p
  <2>1. status'[r] = "queued" /\ requeues'[r] = requeues[r] + 1
    BY <1>3 DEF SetStatus, TypeOK
  <2> QED
    BY <1>1, <1>2, <2>1 DEF Accounted
<1>4. CASE r # p
  BY <1>1, <1>4 DEF SetStatus, TypeOK, Accounted
<1> QED
  BY <1>3, <1>4

(* A worker's or an execution's step either claims, or writes a status that  *)
(* is not 'queued', or leaves the row alone.                                 *)
LEMMA AccountNext ==
    TypeOK /\ ClaimedOncePerQueueing /\ [Next]_vars => ClaimedOncePerQueueing'
<1> SUFFICES ASSUME TypeOK, ClaimedOncePerQueueing, [Next]_vars
             PROVE  ClaimedOncePerQueueing'
  OBVIOUS
<1>0. CASE UNCHANGED <<status, claims, requeues>>
  BY <1>0 DEF ClaimedOncePerQueueing
<1>1. ASSUME NEW r \in Runs, Submit(r) PROVE ClaimedOncePerQueueing'
  BY <1>1, QueueKeepsAccount DEF Submit
<1>2. ASSUME NEW w \in Workers, WorkerStep(w) PROVE ClaimedOncePerQueueing'
  <2>1. CASE Claim(w)
    BY <2>1, ClaimKeepsAccount DEF Claim
  <2>2. CASE Blocked(w)
    <3>1. CASE worker[w].at \in Attempts
      BY <2>2, <3>1, RunOfType, WriteKeepsAccount, Constituents DEF Blocked
    <3>2. CASE worker[w].at = NoAttempt
      <4>1. UNCHANGED status
        BY <2>2, <3>2 DEF Blocked, SetStatus, RunOf, NoAttempt, Runs, TypeOK
      <4> QED
        BY <2>2, <4>1, <1>0 DEF Blocked
    <3> QED
      BY <3>1, <3>2 DEF TypeOK, WorkerState
  <2>3. CASE WorkerWrites(w)
    <3>1. CASE worker[w].at \in Attempts
      BY <2>3, <3>1, RunOfType, WriteKeepsAccount, Constituents DEF WorkerWrites
    <3>2. CASE worker[w].at = NoAttempt
      <4>1. UNCHANGED status
        BY <2>3, <3>2 DEF WorkerWrites, SetStatus, RunOf, NoAttempt, Runs, TypeOK
      <4> QED
        BY <2>3, <4>1, <1>0 DEF WorkerWrites
    <3> QED
      BY <3>1, <3>2 DEF TypeOK, WorkerState
  <2>4. CASE \/ DispatchFails(w) \/ StreamEnd(w) \/ WorkerRestart(w)
             \/ \E rt \in Runtimes : Trigger(w, rt)
    BY <2>4, <1>0 DEF DispatchFails, StreamEnd, WorkerRestart, Trigger
  <2> QED
    BY <1>2, <2>1, <2>2, <2>3, <2>4 DEF WorkerStep
<1>3. ASSUME NEW a \in Attempts, ExecStep(a) PROVE ClaimedOncePerQueueing'
  <2>1. CASE ExecHandback(a)
    BY <2>1, RunOfType, WriteKeepsAccount, Constituents DEF ExecHandback
  <2>2. CASE ExecWriteStatus(a)
    <3>1. CASE exec[a].out \in Settled
      <4>1. exec[a].out \in Status \ {"queued"} /\ RunOf(a) \in Runs
        BY <3>1, RunOfType DEF Settled, Status
      <4>2. SetStatus(RunOf(a), exec[a].out) /\ UNCHANGED <<claims, requeues>>
        BY <2>2, <3>1 DEF ExecWriteStatus
      <4> QED
        BY <4>1, <4>2, WriteKeepsAccount
    <3>2. CASE exec[a].out \notin Settled
      BY <2>2, <3>2, <1>0 DEF ExecWriteStatus
    <3> QED
      BY <3>1, <3>2
  <2>3. CASE \/ ExecResolve(a) \/ ExecProvision(a) \/ ExecRegister(a) \/ ExecStage(a)
             \/ ExecReject(a) \/ ExecReturn(a) \/ ExecDrive(a) \/ ExecTerminate(a)
    BY <2>3, <1>0 DEF ExecResolve, ExecProvision, ExecRegister, ExecStage, ExecReject,
                      ExecReturn, ExecDrive, ExecTerminate
  <2> QED
    BY <1>3, <2>1, <2>2, <2>3 DEF ExecStep
<1>4. ASSUME NEW rt \in Runtimes, ResumeHandback(rt) PROVE ClaimedOncePerQueueing'
  <2>1. resume[rt] \in Runs
    BY <1>4 DEF ResumeHandback, TypeOK
  <2> QED
    BY <1>4, <2>1, WriteKeepsAccount, Constituents DEF ResumeHandback
<1>5. ASSUME NEW rt \in Runtimes, ResumeRequeue(rt) PROVE ClaimedOncePerQueueing'
  <2>1. resume[rt] \in Runs
    BY <1>5 DEF ResumeRequeue, TypeOK
  <2> QED
    BY <1>5, <2>1, QueueKeepsAccount DEF ResumeRequeue
<1>6. CASE \E rt \in Runtimes, r \in Runs : ResumeBegin(rt, r)
  BY <1>6, <1>0 DEF ResumeBegin
<1>7. CASE Failure
  <2>1. ASSUME NEW w \in Workers, ClaimLost(w) PROVE ClaimedOncePerQueueing'
    BY <2>1, ClaimKeepsAccount DEF ClaimLost
  <2>2. CASE \E w \in Workers : StreamBreak(w) \/ WorkerWriteLost(w) \/ WorkerCrash(w)
    BY <2>2, <1>0 DEF StreamBreak, WorkerWriteLost, WorkerCrash
  <2>3. CASE \E a \in Attempts : \/ ExecContextLost(a) \/ ExecHandbackLost(a) \/ ExecCleanExit(a)
                                 \/ ExecStatusLost(a) \/ ExecTerminateLost(a)
    BY <2>3, <1>0 DEF ExecContextLost, ExecHandbackLost, ExecCleanExit, ExecStatusLost,
                      ExecTerminateLost
  <2>4. CASE \E rt \in Runtimes : RuntimeCrash(rt) \/ ResumeRequeueLost(rt)
    BY <2>4, <1>0 DEF RuntimeCrash, ResumeRequeueLost
  <2> QED
    BY <1>7, <2>1, <2>2, <2>3, <2>4 DEF Failure
<1>8. CASE UNCHANGED vars
  BY <1>8, <1>0 DEF vars
<1> QED
  BY <1>1, <1>2, <1>3, <1>4, <1>5, <1>6, <1>7, <1>8 DEF Next

(* Whatever workers, executions, resumes and failures do, the claims of a    *)
(* run never outnumber the times it was put in the queue.                    *)
THEOREM ClaimedOnce == Spec => []ClaimedOncePerQueueing
<1>1. Init => ClaimedOncePerQueueing
  BY DEF Init, ClaimedOncePerQueueing
<1> QED
  BY <1>1, TypeCorrect, AccountNext, PTL DEF Spec

-----------------------------------------------------------------------------
(* A running run is in somebody's custody *)

(* What an update of one worker, or of one execution, changes and leaves.    *)
LEMMA WorkerToFrame ==
    ASSUME TypeOK, NEW w \in Workers, NEW pc, WorkerTo(w, pc)
    PROVE  /\ worker'[w].pc = pc
           /\ worker'[w].at = worker[w].at
           /\ \A v \in Workers \ {w} : worker'[v] = worker[v]
  BY DEF WorkerTo, TypeOK, WorkerState

(* The same of one execution moving to its next step.                        *)
LEMMA ExecToFrame ==
    ASSUME TypeOK, NEW a \in Attempts, NEW pc, ExecTo(a, pc)
    PROVE  /\ exec'[a].pc = pc
           /\ exec'[a].out = exec[a].out
           /\ exec'[a].rt = exec[a].rt
           /\ \A b \in Attempts \ {a} : exec'[b] = exec[b]
  BY DEF ExecTo, TypeOK, ExecState

(* The same of one execution ending.                                         *)
LEMMA ExecEndFrame ==
    ASSUME TypeOK, NEW a \in Attempts, NEW out, ExecEnd(a, out)
    PROVE  /\ exec'[a].pc = "ended"
           /\ exec'[a].out = out
           /\ exec'[a].rt = exec[a].rt
           /\ \A b \in Attempts \ {a} : exec'[b] = exec[b]
  BY DEF ExecEnd, TypeOK, ExecState

\* The latest claim of a run, which is the one its status 'running' is about.
Latest(r) == <<r, claims[r]>>

\* RunningInCustody, and that only a claim makes a run 'running'.
CustodyInv ==
    \A r \in Runs :
        status[r] = "running" => /\ Latest(r) \in Attempts
                                 /\ dropped[Latest(r)] \/ Custody(Latest(r))

(* A step of a worker other than a claim hands an attempt it had custody of  *)
(* to the runtime, writes its status, or keeps it.                           *)
LEMMA WorkerKeepsCustody ==
    ASSUME TypeOK, NEW a \in Attempts, NEW w \in Workers, Custody(a),
           \/ DispatchFails(w) \/ Blocked(w) \/ \E rt \in Runtimes : Trigger(w, rt)
           \/ StreamEnd(w) \/ WorkerWrites(w) \/ WorkerRestart(w)
           \/ StreamBreak(w) \/ WorkerWriteLost(w) \/ WorkerCrash(w),
           status'[RunOf(a)] = "running"
    PROVE  dropped'[a] \/ Custody(a)'
<1>1. CASE DispatchFails(w)
  BY <1>1, WorkerToFrame DEF DispatchFails, Custody, Watched
<1>2. CASE Blocked(w)
  <2>1. worker[w].at # a
    BY <1>2, RunOfType DEF Blocked, SetStatus, TypeOK
  <2> QED
    BY <1>2, <2>1, WorkerToFrame DEF Blocked, Custody, Watched
<1>3. ASSUME NEW rt \in Runtimes, Trigger(w, rt) PROVE Custody(a)'
  <2>1. CASE worker[w].at = a
    BY <1>3, <2>1 DEF Trigger, Custody, TypeOK, OwingPc
  <2>2. CASE worker[w].at # a
    <3>1. exec'[a] = exec[a]
      BY <1>3, <2>2 DEF Trigger, TypeOK
    <3> QED
      BY <1>3, <2>2, <3>1, WorkerToFrame DEF Trigger, Custody, Watched
  <2> QED
    BY <2>1, <2>2
<1>4. CASE StreamEnd(w)
  BY <1>4, WorkerToFrame DEF StreamEnd, Custody, Watched, TypeOK
<1>5. CASE WorkerWrites(w)
  <2>1. worker[w].at # a
    BY <1>5, RunOfType DEF WorkerWrites, SetStatus, TypeOK
  <2> QED
    BY <1>5, <2>1 DEF WorkerWrites, Custody, Watched, TypeOK
<1>6. CASE WorkerRestart(w)
  BY <1>6 DEF WorkerRestart, Custody, Watched, TypeOK
<1>7. CASE StreamBreak(w)
  BY <1>7, WorkerToFrame DEF StreamBreak, Custody, Watched
<1>8. CASE WorkerWriteLost(w)
  BY <1>8 DEF WorkerWriteLost, Custody, Watched, TypeOK
<1>9. CASE WorkerCrash(w)
  BY <1>9 DEF WorkerCrash, Custody, Watched, TypeOK
<1> QED
  BY <1>1, <1>2, <1>3, <1>4, <1>5, <1>6, <1>7, <1>8, <1>9

(* A step of an execution keeps what it owes, unless it writes it, leaves it *)
(* to the worker that watches, or drops it unobserved.                       *)
LEMMA ExecKeepsCustody ==
    ASSUME TypeOK, NEW a \in Attempts, NEW b \in Attempts, Custody(a),
           \/ ExecStep(b)
           \/ ExecContextLost(b) \/ ExecHandbackLost(b) \/ ExecCleanExit(b)
           \/ ExecStatusLost(b) \/ ExecTerminateLost(b),
           status'[RunOf(a)] = "running"
    PROVE  dropped'[a] \/ Custody(a)'
<1>1. CASE \/ ExecResolve(b) \/ ExecProvision(b) \/ ExecRegister(b) \/ ExecStage(b)
           \/ ExecContextLost(b)
  BY <1>1, ExecToFrame
     DEF ExecResolve, ExecProvision, ExecRegister, ExecStage, ExecContextLost, Custody, Watched, OwingPc
<1>2. CASE ExecReject(b)
  <2>1. Watched(a)' <=> Watched(a)
    BY <1>2 DEF ExecReject, Watched
  <2>2. CASE a = b
    <3>1. exec'[a].pc = "rejected"
      BY <1>2, <2>2, ExecToFrame DEF ExecReject
    <3>2. dropped'[a] \/ Watched(a)
      BY <1>2, <2>2 DEF ExecReject, TypeOK
    <3> QED
      BY <2>1, <3>1, <3>2 DEF Custody
  <2>3. CASE a # b
    <3>1. exec'[a] = exec[a]
      BY <1>2, <2>3, ExecToFrame DEF ExecReject
    <3> QED
      BY <1>2, <2>1, <3>1 DEF ExecReject, Custody
  <2> QED
    BY <2>2, <2>3
<1>3. CASE ExecReturn(b)
  BY <1>3, ExecEndFrame DEF ExecReturn, Custody, Watched
<1>4. CASE ExecHandback(b)
  <2>1. a # b
    BY <1>4, RunOfType DEF ExecHandback, SetStatus, TypeOK
  <2> QED
    BY <1>4, <2>1, ExecEndFrame DEF ExecHandback, Custody, Watched
<1>5. CASE ExecHandbackLost(b) \/ ExecCleanExit(b)
  BY <1>5, ExecEndFrame DEF ExecHandbackLost, ExecCleanExit, Custody, Watched, TypeOK
<1>6. CASE ExecWriteStatus(b)
  <2>1. CASE exec[b].out \in Settled
    <3>1. exec[b].out # "running"
      BY <2>1 DEF Settled
    <3>2. a # b
      BY <1>6, <2>1, <3>1, RunOfType DEF ExecWriteStatus, SetStatus, TypeOK
    <3> QED
      BY <1>6, <3>2, ExecToFrame DEF ExecWriteStatus, Custody, Watched
  <2>2. CASE exec[b].out \notin Settled
    BY <1>6, <2>2, ExecToFrame DEF ExecWriteStatus, Custody, Watched, OwingPc
  <2> QED
    BY <2>1, <2>2
<1>7. CASE ExecStatusLost(b)
  BY <1>7, ExecToFrame DEF ExecStatusLost, Custody, Watched, TypeOK
<1>8. CASE ExecDrive(b) \/ ExecTerminate(b) \/ ExecTerminateLost(b)
  BY <1>8, ExecToFrame DEF ExecDrive, ExecTerminate, ExecTerminateLost, Custody, Watched, OwingPc
<1> QED
  BY <1>1, <1>2, <1>3, <1>4, <1>5, <1>6, <1>7, <1>8 DEF ExecStep

(* A runtime crash leaves a worker that watches in custody; without one the  *)
(* attempt is dropped.                                                       *)
LEMMA CrashKeepsCustody ==
    ASSUME TypeOK, NEW a \in Attempts, NEW rt \in Runtimes, Custody(a), RuntimeCrash(rt)
    PROVE  dropped'[a] \/ Custody(a)'
<1>1. CASE Dies(a, rt)
  <2>1. exec'[a].pc = "dead"
    BY <1>1 DEF RuntimeCrash, TypeOK, ExecState
  <2>2. dropped'[a] \/ Watched(a)
    BY <1>1 DEF RuntimeCrash
  <2>3. Watched(a)' <=> Watched(a)
    BY DEF RuntimeCrash, Watched
  <2> QED
    BY <2>1, <2>2, <2>3 DEF Custody
<1>2. CASE ~Dies(a, rt)
  BY <1>2 DEF RuntimeCrash, Custody, Watched
<1> QED
  BY <1>1, <1>2

(* What a step other than a claim leaves: a dropped attempt stays dropped,   *)
(* the claims stay, and no run becomes 'running'.                            *)
Unclaimed ==
    /\ \A a \in Attempts : dropped[a] => dropped'[a]
    /\ claims' = claims
    /\ \A r \in Runs : status'[r] = "running" => status[r] = "running"

(* One write of a status other than 'running' makes no run 'running'.        *)
LEMMA WriteUnclaimed ==
    ASSUME TypeOK, NEW p, NEW s, s # "running", SetStatus(p, s)
    PROVE  \A r \in Runs : status'[r] = "running" => status[r] = "running"
  BY DEF SetStatus, TypeOK

(* A worker makes a run running only by claiming it.                         *)
LEMMA WorkerUnclaimed ==
    ASSUME TypeOK, NEW w \in Workers,
           \/ DispatchFails(w) \/ Blocked(w) \/ \E rt \in Runtimes : Trigger(w, rt)
           \/ StreamEnd(w) \/ WorkerWrites(w) \/ WorkerRestart(w)
           \/ StreamBreak(w) \/ WorkerWriteLost(w) \/ WorkerCrash(w)
    PROVE  Unclaimed
<1>1. CASE Blocked(w) \/ WorkerWrites(w)
  BY <1>1, WriteUnclaimed DEF Blocked, WorkerWrites, Unclaimed
<1>2. CASE \/ DispatchFails(w) \/ \E rt \in Runtimes : Trigger(w, rt)
           \/ StreamEnd(w) \/ WorkerRestart(w) \/ StreamBreak(w)
  BY <1>2 DEF DispatchFails, Trigger, StreamEnd, WorkerRestart, StreamBreak, Unclaimed
<1>3. CASE WorkerWriteLost(w) \/ WorkerCrash(w)
  BY <1>3 DEF WorkerWriteLost, WorkerCrash, Unclaimed, TypeOK
<1> QED
  BY <1>1, <1>2, <1>3

(* An execution makes no run running and forgets no dropped attempt.         *)
LEMMA ExecUnclaimed ==
    ASSUME TypeOK, NEW a \in Attempts,
           \/ ExecStep(a)
           \/ ExecContextLost(a) \/ ExecHandbackLost(a) \/ ExecCleanExit(a)
           \/ ExecStatusLost(a) \/ ExecTerminateLost(a)
    PROVE  Unclaimed
<1>1. CASE ExecHandback(a) \/ ExecWriteStatus(a)
  <2>1. exec[a].out \in Settled => exec[a].out # "running"
    BY DEF Settled
  <2> QED
    BY <1>1, <2>1, WriteUnclaimed DEF ExecHandback, ExecWriteStatus, Unclaimed
<1>2. CASE \/ ExecReject(a) \/ ExecHandbackLost(a) \/ ExecCleanExit(a) \/ ExecStatusLost(a)
  BY <1>2 DEF ExecReject, ExecHandbackLost, ExecCleanExit, ExecStatusLost, Unclaimed, TypeOK
<1>3. CASE \/ ExecResolve(a) \/ ExecProvision(a) \/ ExecRegister(a) \/ ExecStage(a)
           \/ ExecReturn(a) \/ ExecDrive(a) \/ ExecTerminate(a)
           \/ ExecContextLost(a) \/ ExecTerminateLost(a)
  BY <1>3 DEF ExecResolve, ExecProvision, ExecRegister, ExecStage, ExecReturn, ExecDrive,
              ExecTerminate, ExecContextLost, ExecTerminateLost, Unclaimed
<1> QED
  BY <1>1, <1>2, <1>3 DEF ExecStep

(* Neither does a resume handler or a crash of the runtime.                  *)
LEMMA RuntimeUnclaimed ==
    ASSUME TypeOK, NEW rt \in Runtimes,
           \/ \E r \in Runs : ResumeBegin(rt, r)
           \/ ResumeHandback(rt) \/ ResumeRequeue(rt)
           \/ RuntimeCrash(rt) \/ ResumeRequeueLost(rt)
    PROVE  Unclaimed
<1>1. CASE ResumeHandback(rt) \/ ResumeRequeue(rt)
  BY <1>1, WriteUnclaimed DEF ResumeHandback, ResumeRequeue, Unclaimed
<1>2. CASE RuntimeCrash(rt)
  BY <1>2 DEF RuntimeCrash, Unclaimed, TypeOK
<1>3. CASE (\E r \in Runs : ResumeBegin(rt, r)) \/ ResumeRequeueLost(rt)
  BY <1>3 DEF ResumeBegin, ResumeRequeueLost, Unclaimed
<1> QED
  BY <1>1, <1>2, <1>3

(* A step that claims nothing preserves the invariant if it keeps custody of *)
(* every attempt whose run stays 'running'.                                  *)
LEMMA KeptCustody ==
    ASSUME CustodyInv, Unclaimed,
           \A a \in Attempts : Custody(a) /\ status'[RunOf(a)] = "running"
                                  => dropped'[a] \/ Custody(a)'
    PROVE  CustodyInv'
<1> SUFFICES ASSUME NEW r \in Runs, status'[r] = "running"
             PROVE  /\ Latest(r)' \in Attempts
                    /\ dropped'[Latest(r)'] \/ Custody(Latest(r))'
  BY DEF CustodyInv, Attempts, Runs
<1> DEFINE a == Latest(r)
<1>1. Latest(r)' = a /\ RunOf(a) = r
  BY DEF Unclaimed, Latest, RunOf
<1>2. a \in Attempts /\ (dropped[a] \/ Custody(a))
  BY DEF CustodyInv, Unclaimed
<1>3. dropped'[a] \/ Custody(a)'
  BY <1>1, <1>2 DEF Unclaimed
<1> QED
  BY <1>1, <1>2, <1>3

(* A claim passes custody of the new attempt to the worker, or drops it, and *)
(* takes nothing from the other attempts.                                    *)
LEMMA ClaimCustody ==
    ASSUME TypeOK, CustodyInv, NEW w \in Workers, Claim(w) \/ ClaimLost(w)
    PROVE  CustodyInv'
<1>1. PICK p \in Runs :
          /\ TakeOldest(p)
          /\ \/ /\ worker' = [worker EXCEPT ![w] = [pc |-> "claimed", at |-> <<p, claims[p] + 1>>]]
                /\ UNCHANGED dropped
             \/ /\ dropped' = [dropped EXCEPT ![<<p, claims[p] + 1>>] = TRUE]
                /\ UNCHANGED worker
  BY DEF Claim, ClaimLost
<1>2. worker[w].pc = "idle" /\ UNCHANGED exec
  BY DEF Claim, ClaimLost
<1> SUFFICES ASSUME NEW r \in Runs, status'[r] = "running"
             PROVE  /\ Latest(r)' \in Attempts
                    /\ dropped'[Latest(r)'] \/ Custody(Latest(r))'
  BY DEF CustodyInv, Attempts, Runs
<1>3. CASE r = p
  <2>1. Latest(r)' = <<p, claims[p] + 1>>
    BY <1>1, <1>3 DEF TakeOldest, Latest, TypeOK
  <2>2. <<p, claims[p] + 1>> \in Attempts
    BY <1>1, TakeOldestType
  <2>3. CASE dropped' = [dropped EXCEPT ![<<p, claims[p] + 1>>] = TRUE]
    BY <2>1, <2>2, <2>3 DEF TypeOK
  <2>4. CASE worker' = [worker EXCEPT ![w] = [pc |-> "claimed", at |-> <<p, claims[p] + 1>>]]
    <3>1. /\ worker'[w].at = <<p, claims[p] + 1>>
          /\ worker'[w].pc = "claimed"
      BY <2>4 DEF TypeOK
    <3> QED
      BY <2>1, <2>2, <3>1 DEF Custody
  <2> QED
    BY <1>1, <2>3, <2>4
<1>4. CASE r # p
  <2>1. status[r] = "running" /\ Latest(r)' = Latest(r)
    BY <1>1, <1>4 DEF TakeOldest, SetStatus, Latest, TypeOK
  <2>2. Latest(r) \in Attempts /\ (dropped[Latest(r)] \/ Custody(Latest(r)))
    BY <2>1 DEF CustodyInv
  <2>3. CASE dropped[Latest(r)]
    BY <1>1, <2>1, <2>2, <2>3 DEF TypeOK
  <2>4. CASE Custody(Latest(r))
    <3>1. \A v \in Workers : worker'[v] = worker[v] \/ v = w
      BY <1>1 DEF TypeOK
    <3> QED
      BY <1>2, <2>1, <2>2, <2>4, <3>1 DEF Custody, Watched
  <2> QED
    BY <2>2, <2>3, <2>4
<1> QED
  BY <1>3, <1>4

(* Every step preserves custody.                                             *)
LEMMA CustodyNext == TypeOK /\ CustodyInv /\ [Next]_vars => CustodyInv'
<1> SUFFICES ASSUME TypeOK, CustodyInv, [Next]_vars PROVE CustodyInv'
  OBVIOUS
<1>1. ASSUME NEW r \in Runs, Submit(r) PROVE CustodyInv'
  <2>1. Unclaimed
    BY <1>1, WriteUnclaimed DEF Submit, Unclaimed
  <2>2. \A a \in Attempts : Custody(a) => Custody(a)'
    BY <1>1 DEF Submit, Custody, Watched
  <2> QED
    BY <2>1, <2>2, KeptCustody
<1>2. ASSUME NEW w \in Workers, Claim(w) \/ ClaimLost(w) PROVE CustodyInv'
  BY <1>2, ClaimCustody
<1>3. ASSUME NEW w \in Workers,
             \/ DispatchFails(w) \/ Blocked(w) \/ \E rt \in Runtimes : Trigger(w, rt)
             \/ StreamEnd(w) \/ WorkerWrites(w) \/ WorkerRestart(w)
             \/ StreamBreak(w) \/ WorkerWriteLost(w) \/ WorkerCrash(w)
      PROVE  CustodyInv'
  BY <1>3, WorkerUnclaimed, WorkerKeepsCustody, KeptCustody
<1>4. ASSUME NEW b \in Attempts,
             \/ ExecStep(b)
             \/ ExecContextLost(b) \/ ExecHandbackLost(b) \/ ExecCleanExit(b)
             \/ ExecStatusLost(b) \/ ExecTerminateLost(b)
      PROVE  CustodyInv'
  BY <1>4, ExecUnclaimed, ExecKeepsCustody, KeptCustody
<1>5. ASSUME NEW rt \in Runtimes, RuntimeCrash(rt) PROVE CustodyInv'
  BY <1>5, RuntimeUnclaimed, CrashKeepsCustody, KeptCustody
<1>6. ASSUME NEW rt \in Runtimes,
             \/ \E r \in Runs : ResumeBegin(rt, r)
             \/ ResumeHandback(rt) \/ ResumeRequeue(rt) \/ ResumeRequeueLost(rt)
      PROVE  CustodyInv'
  <2>1. \A a \in Attempts : Custody(a) => Custody(a)'
    BY <1>6 DEF ResumeBegin, ResumeHandback, ResumeRequeue, ResumeRequeueLost, Custody, Watched
  <2> QED
    BY <1>6, <2>1, RuntimeUnclaimed, KeptCustody
<1>7. CASE UNCHANGED vars
  BY <1>7 DEF vars, CustodyInv, Latest, Custody, Watched
<1> QED
  BY <1>1, <1>2, <1>3, <1>4, <1>5, <1>6, <1>7 DEF Next, WorkerStep, Failure

(* A run that says 'running' always has a worker or an execution that still  *)
(* owes it a status, unless one of the unobserved failures dropped its claim.*)
THEOREM CustodyKept == Spec => []RunningInCustody
<1>1. Init => CustodyInv
  BY DEF Init, CustodyInv
<1>2. CustodyInv => RunningInCustody
  BY DEF CustodyInv, RunningInCustody, Latest
<1> QED
  BY <1>1, <1>2, TypeCorrect, CustodyNext, PTL DEF Spec

-----------------------------------------------------------------------------
(* An attempt is one worker's, and is executed once *)

Issued(a) == a[2] <= claims[a[1]]

AttemptInv ==
    /\ \A w \in Workers : worker[w].at \in Attempts => Issued(worker[w].at)
    /\ \A v, w \in Workers : worker[v].at = worker[w].at /\ worker[v].at \in Attempts => v = w
    /\ \A w \in Workers : worker[w].pc = "claimed" /\ worker[w].at \in Attempts
                            => exec[worker[w].at].pc = "none"
    /\ \A a \in Attempts : exec[a].pc # "none" => Issued(a)
    /\ \A a \in Attempts : exec[a].pc = "none" => exec[a].rt = NoRuntime
    /\ \A r \in Runs : env[r] = NoAttempt \/ RunOf(env[r]) = r

\* A step that neither claims nor starts an execution nor registers a VM.
Ordinary ==
    /\ claims' = claims
    /\ env' = env
    /\ \A w \in Workers : \/ worker'[w].at = NoAttempt
                          \/ /\ worker'[w].at = worker[w].at
                             /\ worker'[w].pc = "claimed" => worker[w].pc = "claimed"
    /\ \A a \in Attempts : \/ exec'[a] = exec[a]
                           \/ exec[a].pc # "none" /\ exec'[a].pc # "none"

(* Ordinary steps preserve the invariant.                                    *)
LEMMA OrdinaryKeeps == ASSUME AttemptInv, Ordinary PROVE AttemptInv'
<1>1. NoAttempt \notin Attempts
  BY DEF NoAttempt, Attempts, Runs
<1> QED
  BY <1>1 DEF AttemptInv, Ordinary, Issued

(* Steps of a worker that are ordinary.                                      *)
LEMMA WorkerOrdinary ==
    ASSUME TypeOK, NEW w \in Workers,
           \/ DispatchFails(w) \/ Blocked(w) \/ StreamEnd(w) \/ WorkerWrites(w) \/ WorkerRestart(w)
           \/ StreamBreak(w) \/ WorkerWriteLost(w) \/ WorkerCrash(w)
    PROVE  Ordinary
<1>1. CASE DispatchFails(w) \/ Blocked(w) \/ StreamBreak(w)
  BY <1>1, WorkerToFrame DEF DispatchFails, Blocked, StreamBreak, Ordinary
<1>2. CASE StreamEnd(w)
  BY <1>2, WorkerToFrame DEF StreamEnd, Ordinary, IdleWorker, TypeOK
<1>3. CASE WorkerWrites(w) \/ WorkerRestart(w) \/ WorkerWriteLost(w) \/ WorkerCrash(w)
  BY <1>3 DEF WorkerWrites, WorkerRestart, WorkerWriteLost, WorkerCrash, Ordinary, IdleWorker, TypeOK
<1> QED
  BY <1>1, <1>2, <1>3

(* Steps of an execution that are ordinary.                                  *)
LEMMA ExecOrdinary ==
    ASSUME TypeOK, NEW a \in Attempts,
           \/ ExecStep(a) /\ ~ExecRegister(a)
           \/ ExecContextLost(a) \/ ExecHandbackLost(a) \/ ExecCleanExit(a)
           \/ ExecStatusLost(a) \/ ExecTerminateLost(a)
    PROVE  Ordinary
<1>1. CASE \/ ExecResolve(a) \/ ExecProvision(a) \/ ExecStage(a) \/ ExecReject(a)
           \/ ExecWriteStatus(a) \/ ExecDrive(a) \/ ExecTerminate(a)
           \/ ExecContextLost(a) \/ ExecStatusLost(a) \/ ExecTerminateLost(a)
  <2>1. claims' = claims /\ env' = env /\ worker' = worker /\ exec[a].pc # "none"
    BY <1>1 DEF ExecResolve, ExecProvision, ExecStage, ExecReject, ExecWriteStatus, ExecDrive,
                ExecTerminate, ExecContextLost, ExecStatusLost, ExecTerminateLost
  <2>2. PICK pc \in ExecPc \ {"none"} : ExecTo(a, pc)
    BY <1>1, Constituents
       DEF ExecResolve, ExecProvision, ExecStage, ExecReject, ExecWriteStatus, ExecDrive,
           ExecTerminate, ExecContextLost, ExecStatusLost, ExecTerminateLost
  <2> QED
    BY <2>1, <2>2, ExecToFrame DEF Ordinary
<1>2. CASE ExecReturn(a) \/ ExecHandback(a) \/ ExecHandbackLost(a) \/ ExecCleanExit(a)
  <2>1. claims' = claims /\ env' = env /\ worker' = worker /\ exec[a].pc # "none"
    BY <1>2 DEF ExecReturn, ExecHandback, ExecHandbackLost, ExecCleanExit
  <2>2. PICK out \in Outcome : ExecEnd(a, out)
    BY <1>2, Constituents DEF ExecReturn, ExecHandback, ExecHandbackLost, ExecCleanExit
  <2> QED
    BY <2>1, <2>2, ExecEndFrame DEF Ordinary
<1> QED
  BY <1>1, <1>2 DEF ExecStep

(* Steps of a resume handler, and a runtime crash, are ordinary: executions *)
(* that never started belong to no process and stay unstarted.               *)
LEMMA RuntimeOrdinary ==
    ASSUME TypeOK, AttemptInv, NEW rt \in Runtimes,
           \/ \E r \in Runs : ResumeBegin(rt, r)
           \/ ResumeHandback(rt) \/ ResumeRequeue(rt)
           \/ RuntimeCrash(rt) \/ ResumeRequeueLost(rt)
    PROVE  Ordinary
<1>1. CASE RuntimeCrash(rt)
  <2>1. \A a \in Attempts : Dies(a, rt) => exec[a].pc # "none" /\ exec'[a].pc # "none"
    BY <1>1, ConstantsAssumption
       DEF RuntimeCrash, Dies, AttemptInv, NoRuntime, TypeOK, ExecState
  <2>2. \A a \in Attempts : ~Dies(a, rt) => exec'[a] = exec[a]
    BY <1>1 DEF RuntimeCrash
  <2> QED
    BY <1>1, <2>1, <2>2 DEF RuntimeCrash, Ordinary
<1>2. CASE \/ \E r \in Runs : ResumeBegin(rt, r)
           \/ ResumeHandback(rt) \/ ResumeRequeue(rt) \/ ResumeRequeueLost(rt)
  BY <1>2 DEF ResumeBegin, ResumeHandback, ResumeRequeue, ResumeRequeueLost, Ordinary
<1> QED
  BY <1>1, <1>2

(* A claim issues an attempt no worker holds and no execution has.           *)
LEMMA ClaimAttempt ==
    ASSUME TypeOK, AttemptInv, NEW w \in Workers, Claim(w) \/ ClaimLost(w)
    PROVE  AttemptInv'
<1>1. PICK p \in Runs :
          /\ TakeOldest(p)
          /\ \/ worker' = [worker EXCEPT ![w] = [pc |-> "claimed", at |-> <<p, claims[p] + 1>>]]
             \/ UNCHANGED worker
  BY DEF Claim, ClaimLost
<1>0. PICK a \in Attempts : a = <<p, claims[p] + 1>>
  BY <1>1, TakeOldestType
<1>2. a \in Attempts /\ ~Issued(a) /\ Issued(a)'
  <2>1. claims[p] \in Nat /\ claims'[p] = claims[p] + 1
    BY <1>1, ConstantsAssumption DEF TakeOldest, TypeOK
  <2>2. a[1] = p /\ a[2] = claims[p] + 1
    BY <1>0
  <2> QED
    BY <2>1, <2>2 DEF Issued
<1>3. \A b \in Attempts : Issued(b) => Issued(b)'
  BY <1>1, ConstantsAssumption DEF TakeOldest, Issued, TypeOK, Attempts
<1>4. UNCHANGED <<exec, env>>
  BY DEF Claim, ClaimLost
<1>5. exec[a].pc = "none"
  BY <1>2 DEF AttemptInv
<1>6. /\ \A v \in Workers \ {w} : worker'[v] = worker[v]
      /\ worker'[w] = worker[w] \/ worker'[w] = [pc |-> "claimed", at |-> a]
  BY <1>0, <1>1 DEF TypeOK
<1>7. \A v \in Workers : worker[v].at \in Attempts => worker[v].at # a
  BY <1>2 DEF AttemptInv
<1>8. \A v \in Workers : worker'[v].at \in Attempts => Issued(worker[v].at)'
  BY <1>2, <1>3, <1>6 DEF AttemptInv
<1>9. \A u, v \in Workers : worker'[u].at = worker'[v].at /\ worker'[u].at \in Attempts => u = v
  BY <1>6, <1>7 DEF AttemptInv
<1>10. \A v \in Workers : worker'[v].pc = "claimed" /\ worker'[v].at \in Attempts
                            => exec'[worker'[v].at].pc = "none"
  BY <1>4, <1>5, <1>6 DEF AttemptInv
<1> QED
  BY <1>3, <1>4, <1>8, <1>9, <1>10 DEF AttemptInv

(* An attempt is triggered by the one worker that holds it.                  *)
LEMMA TriggerAttempt ==
    ASSUME TypeOK, AttemptInv, NEW w \in Workers, NEW rt \in Runtimes, Trigger(w, rt)
    PROVE  AttemptInv'
<1>1. /\ worker[w].pc = "claimed"
      /\ UNCHANGED <<claims, env>>
      /\ exec' = [exec EXCEPT ![worker[w].at] = [pc |-> "resolve", rt |-> rt, out |-> "none"]]
  BY DEF Trigger
<1>2. /\ worker'[w].pc = "streaming"
      /\ worker'[w].at = worker[w].at
      /\ \A v \in Workers \ {w} : worker'[v] = worker[v]
  BY WorkerToFrame DEF Trigger
<1>3. \A b \in Attempts : b # worker[w].at => exec'[b] = exec[b]
  BY <1>1 DEF TypeOK
<1>4. worker[w].at \in Attempts => exec'[worker[w].at].pc = "resolve"
  BY <1>1 DEF TypeOK
<1>5. \A b : Issued(b)' <=> Issued(b)
  BY <1>1 DEF Issued
<1> QED
  BY <1>1, <1>2, <1>3, <1>4, <1>5 DEF AttemptInv

(* A VM is registered for the run it was provisioned for.                    *)
LEMMA RegisterAttempt ==
    ASSUME TypeOK, AttemptInv, NEW a \in Attempts, ExecRegister(a)
    PROVE  AttemptInv'
<1>1. \A r \in Runs : env'[r] = NoAttempt \/ RunOf(env'[r]) = r
  BY DEF ExecRegister, AttemptInv, TypeOK
<1>2. /\ exec[a].pc # "none" /\ exec'[a].pc # "none"
      /\ \A b \in Attempts \ {a} : exec'[b] = exec[b]
      /\ UNCHANGED <<claims, worker>>
  BY ExecToFrame DEF ExecRegister
<1>3. \A b \in Attempts : exec'[b].pc = "none" => exec[b].pc = "none" /\ exec'[b] = exec[b]
  BY <1>2
<1>4. \A b \in Attempts : exec[b].pc = "none" => exec'[b].pc = "none"
  BY <1>2
<1>5. \A b : Issued(b)' <=> Issued(b)
  BY <1>2 DEF Issued
<1> QED
  BY <1>1, <1>2, <1>3, <1>4, <1>5 DEF AttemptInv

(* Every step preserves the invariant on attempts.                           *)
LEMMA AttemptNext == TypeOK /\ AttemptInv /\ [Next]_vars => AttemptInv'
<1> SUFFICES ASSUME TypeOK, AttemptInv, [Next]_vars PROVE AttemptInv'
  OBVIOUS
<1>1. CASE (\E r \in Runs : Submit(r)) \/ UNCHANGED vars
  BY <1>1, OrdinaryKeeps DEF Submit, vars, Ordinary
<1>2. CASE \E w \in Workers : WorkerStep(w)
  BY <1>2, OrdinaryKeeps, WorkerOrdinary, ClaimAttempt, TriggerAttempt DEF WorkerStep
<1>3. CASE \E a \in Attempts : ExecStep(a)
  BY <1>3, OrdinaryKeeps, ExecOrdinary, RegisterAttempt
<1>4. CASE \/ \E rt \in Runtimes, r \in Runs : ResumeBegin(rt, r)
           \/ \E rt \in Runtimes : ResumeHandback(rt) \/ ResumeRequeue(rt)
  BY <1>4, OrdinaryKeeps, RuntimeOrdinary
<1>5. CASE Failure
  BY <1>5, OrdinaryKeeps, WorkerOrdinary, ExecOrdinary, RuntimeOrdinary, ClaimAttempt DEF Failure
<1> QED
  BY <1>1, <1>2, <1>3, <1>4, <1>5 DEF Next

-----------------------------------------------------------------------------
(* A VM is terminated only after an outcome *)

\* An execution ended in success or error, its tail included.
Concluded(b) == exec[b].pc = "done" /\ exec[b].out \in Settled

OutcomeInv ==
    /\ \A a \in Attempts : exec[a].pc = "terminate" => exec[a].out \in Settled
    /\ TerminatedOnlyAfterOutcome

\* A step that terminates no VM, sends no execution to do so, and touches no
\* execution that is done.
KeepsOutcomes ==
    /\ \A a \in Attempts : vm'[a] = "terminated" => vm[a] = "terminated"
    /\ \A a \in Attempts : \/ exec'[a] = exec[a]
                           \/ /\ exec[a].pc # "done"
                              /\ exec'[a].pc = "terminate" => exec'[a].out \in Settled

(* Steps that keep outcomes preserve the invariant.                          *)
LEMMA KeptOutcomes == ASSUME OutcomeInv, KeepsOutcomes PROVE OutcomeInv'
<1>1. \A b \in Attempts : Concluded(b) => Concluded(b)'
  BY DEF KeepsOutcomes, Concluded
<1>2. \A a \in Attempts : vm[a] = "terminated"
                            => \E b \in Attempts : RunOf(b) = RunOf(a) /\ Concluded(b)
  BY DEF OutcomeInv, TerminatedOnlyAfterOutcome, Concluded
<1>3. \A a \in Attempts : vm'[a] = "terminated"
                            => \E b \in Attempts : RunOf(b) = RunOf(a) /\ Concluded(b)'
  BY <1>1, <1>2 DEF KeepsOutcomes
<1> QED
  BY <1>3 DEF OutcomeInv, KeepsOutcomes, TerminatedOnlyAfterOutcome, Concluded

(* Workers keep outcomes: an attempt is triggered before it has an          *)
(* execution, so no execution that is done is started over.                  *)
LEMMA WorkerKeepsOutcomes ==
    ASSUME TypeOK, AttemptInv, NEW w \in Workers,
           \/ WorkerStep(w)
           \/ ClaimLost(w) \/ StreamBreak(w) \/ WorkerWriteLost(w) \/ WorkerCrash(w)
    PROVE  KeepsOutcomes
<1>1. ASSUME NEW rt \in Runtimes, Trigger(w, rt) PROVE KeepsOutcomes
  <2>1. \A a \in Attempts \ {worker[w].at} : exec'[a] = exec[a]
    BY <1>1 DEF Trigger, TypeOK
  <2>2. worker[w].at \in Attempts => /\ exec[worker[w].at].pc = "none"
                                     /\ exec'[worker[w].at].pc = "resolve"
    BY <1>1 DEF Trigger, TypeOK, AttemptInv
  <2> QED
    BY <1>1, <2>1, <2>2 DEF Trigger, KeepsOutcomes
<1>2. CASE UNCHANGED <<vm, exec>>
  BY <1>2 DEF KeepsOutcomes
<1> QED
  BY <1>1, <1>2 DEF WorkerStep, Claim, DispatchFails, Blocked, StreamEnd, WorkerWrites,
        WorkerRestart, ClaimLost, StreamBreak, WorkerWriteLost, WorkerCrash

(* Executions keep outcomes, but for the termination of a VM.                *)
LEMMA ExecKeepsOutcomes ==
    ASSUME TypeOK, NEW a \in Attempts,
           \/ ExecStep(a) /\ ~ExecTerminate(a)
           \/ ExecContextLost(a) \/ ExecHandbackLost(a) \/ ExecCleanExit(a)
           \/ ExecStatusLost(a) \/ ExecTerminateLost(a)
    PROVE  KeepsOutcomes
<1>1. \A b \in Attempts : vm'[b] = "terminated" => vm[b] = "terminated"
  BY DEF ExecStep, ExecResolve, ExecProvision, ExecRegister, ExecStage, ExecReject, ExecReturn,
         ExecHandback, ExecWriteStatus, ExecDrive, ExecContextLost, ExecHandbackLost,
         ExecCleanExit, ExecStatusLost, ExecTerminateLost, TypeOK
<1>2. CASE ExecDrive(a)
  BY <1>1, <1>2, ExecToFrame DEF ExecDrive, KeepsOutcomes
<1>3. CASE \/ ExecResolve(a) \/ ExecProvision(a) \/ ExecRegister(a) \/ ExecStage(a) \/ ExecReject(a)
           \/ ExecWriteStatus(a) \/ ExecContextLost(a) \/ ExecStatusLost(a) \/ ExecTerminateLost(a)
  <2>1. exec[a].pc # "done"
    BY <1>3 DEF ExecResolve, ExecProvision, ExecRegister, ExecStage, ExecReject, ExecWriteStatus,
                ExecContextLost, ExecStatusLost, ExecTerminateLost
  <2>2. PICK pc \in ExecPc \ {"terminate"} : ExecTo(a, pc)
    BY <1>3, Constituents
       DEF ExecResolve, ExecProvision, ExecRegister, ExecStage, ExecReject, ExecWriteStatus,
           ExecContextLost, ExecStatusLost, ExecTerminateLost
  <2> QED
    BY <1>1, <2>1, <2>2, ExecToFrame DEF KeepsOutcomes
<1>4. CASE ExecReturn(a) \/ ExecHandback(a) \/ ExecHandbackLost(a) \/ ExecCleanExit(a)
  <2>1. exec[a].pc # "done"
    BY <1>4 DEF ExecReturn, ExecHandback, ExecHandbackLost, ExecCleanExit
  <2>2. PICK out \in Outcome : ExecEnd(a, out)
    BY <1>4, Constituents DEF ExecReturn, ExecHandback, ExecHandbackLost, ExecCleanExit
  <2> QED
    BY <1>1, <2>1, <2>2, ExecEndFrame DEF KeepsOutcomes
<1> QED
  BY <1>2, <1>3, <1>4 DEF ExecStep

(* The tail that terminates the registered VM belongs to an execution of the *)
(* same run that ended in success or error.                                  *)
LEMMA TerminateOutcome ==
    ASSUME TypeOK, AttemptInv, OutcomeInv, NEW b \in Attempts, ExecTerminate(b)
    PROVE  OutcomeInv'
<1>1. /\ exec'[b].pc = "done" /\ exec'[b].out = exec[b].out /\ exec[b].pc = "terminate"
      /\ \A a \in Attempts \ {b} : exec'[a] = exec[a]
  BY ExecToFrame DEF ExecTerminate
<1>2. Concluded(b)'
  BY <1>1 DEF Concluded, OutcomeInv
<1>3. \A a \in Attempts : Concluded(a) => Concluded(a)'
  BY <1>1 DEF Concluded
<1>4. \A a \in Attempts : vm'[a] = "terminated" => vm[a] = "terminated" \/ RunOf(a) = RunOf(b)
  BY RunOfType DEF ExecTerminate, TypeOK, AttemptInv
<1>5. \A a \in Attempts : vm[a] = "terminated"
                            => \E c \in Attempts : RunOf(c) = RunOf(a) /\ Concluded(c)
  BY DEF OutcomeInv, TerminatedOnlyAfterOutcome, Concluded
<1>6. \A a \in Attempts : vm'[a] = "terminated"
                            => \E c \in Attempts : RunOf(c) = RunOf(a) /\ Concluded(c)'
  BY <1>2, <1>3, <1>4, <1>5
<1> QED
  BY <1>1, <1>6 DEF OutcomeInv, TerminatedOnlyAfterOutcome, Concluded

(* Every step preserves the invariant on outcomes.                           *)
LEMMA OutcomeNext ==
    TypeOK /\ AttemptInv /\ OutcomeInv /\ [Next]_vars => OutcomeInv'
<1> SUFFICES ASSUME TypeOK, AttemptInv, OutcomeInv, [Next]_vars PROVE OutcomeInv'
  OBVIOUS
<1>1. CASE UNCHANGED <<vm, exec>>
  BY <1>1, KeptOutcomes DEF KeepsOutcomes
<1>2. CASE \E w \in Workers : WorkerStep(w)
  BY <1>2, WorkerKeepsOutcomes, KeptOutcomes
<1>3. CASE \E a \in Attempts : ExecStep(a)
  BY <1>3, ExecKeepsOutcomes, KeptOutcomes, TerminateOutcome
<1>4. ASSUME NEW rt \in Runtimes, RuntimeCrash(rt) PROVE OutcomeInv'
  <2>1. \A a \in Attempts : \/ exec'[a] = exec[a]
                            \/ exec[a].pc # "done" /\ exec'[a].pc = "dead"
    BY <1>4 DEF RuntimeCrash, Dies, TypeOK, ExecState
  <2> QED
    BY <1>4, <2>1, KeptOutcomes DEF RuntimeCrash, KeepsOutcomes
<1>5. CASE Failure
  BY <1>1, <1>4, <1>5, WorkerKeepsOutcomes, ExecKeepsOutcomes, KeptOutcomes
     DEF Failure, ResumeRequeueLost
<1> QED
  BY <1>1, <1>2, <1>3, <1>5 DEF Next, Submit, ResumeBegin, ResumeHandback, ResumeRequeue, vars

(* A VM is terminated only when an execution of its run has ended in success *)
(* or error: a handback never costs a run its VM.                            *)
THEOREM TerminatedAfterOutcome == Spec => []TerminatedOnlyAfterOutcome
<1>1. Init => AttemptInv /\ OutcomeInv
  BY DEF Init, AttemptInv, OutcomeInv, TerminatedOnlyAfterOutcome, IdleWorker, NoAttempt, Attempts, Runs
<1>2. OutcomeInv => TerminatedOnlyAfterOutcome
  BY DEF OutcomeInv
<1> QED
  BY <1>1, <1>2, TypeCorrect, AttemptNext, OutcomeNext, PTL DEF Spec

-----------------------------------------------------------------------------
(* A run that succeeded leaves no VM *)

\* Execution steps before the run has a VM registered, and after.
BarePc == {"provision", "register"}
HousedPc == {"stage", "run", "ended", "drive", "terminate", "done"}
\* The outcome has been written, or will not be.
TailPc == {"drive", "terminate", "done"}

\* A run without a registered VM was queued once at most, and is not resumed.
FirstQueueing ==
    /\ \A r \in Runs : status[r] = "none" => requeues[r] = 0
    /\ \A r \in Runs : env[r] = NoAttempt =>
          requeues[r] <= 1 /\ \A rt \in Runtimes : resume[rt] # r

\* Only an execution that found no VM registered provisions one.
HousedOnce ==
    \A a \in Attempts :
        /\ exec[a].pc \in BarePc => env[RunOf(a)] = NoAttempt
        /\ exec[a].pc \in HousedPc => env[RunOf(a)] # NoAttempt

\* A VM that runs is the one its run has registered, or is not registered yet.
RunningIsRegistered ==
    \A a \in Attempts : vm[a] = "running" =>
        \/ env[RunOf(a)] = a
        \/ env[RunOf(a)] = NoAttempt /\ exec[a].pc \in {"register", "rejected"}

SuccessIsReturned ==
    \A r \in Runs : status[r] = "success" =>
        \E b \in Attempts : RunOf(b) = r /\ exec[b].out = "success" /\ exec[b].pc \in TailPc

ConcludedHasNoVm == \A b \in Attempts : Concluded(b) => vm[env[RunOf(b)]] = "terminated"

VmInv ==
    faults = 0 => /\ FirstQueueing /\ HousedOnce /\ RunningIsRegistered
                  /\ SuccessIsReturned /\ ConcludedHasNoVm

(* Without a failure, and before its VM is registered, a run has one attempt *)
(* at most that ever reached the runtime.                                    *)
LEMMA OneBareAttempt ==
    ASSUME TypeOK, AttemptInv, ClaimedOncePerQueueing, VmInv, faults = 0,
           NEW a \in Attempts, NEW b \in Attempts, RunOf(a) = RunOf(b), env[RunOf(a)] = NoAttempt,
           exec[a].pc # "none", exec[b].pc # "none"
    PROVE  a = b
<1> DEFINE r == RunOf(a)
<1>1. r \in Runs
  BY RunOfType
<1>2. claims[r] \in Nat /\ requeues[r] \in Nat
  BY <1>1, ConstantsAssumption DEF TypeOK
<1>3. claims[r] <= requeues[r]
  BY <1>1, <1>2 DEF ClaimedOncePerQueueing
<1>4. requeues[r] <= 1
  BY <1>1 DEF VmInv, FirstQueueing
<1>5. a[2] <= claims[r] /\ b[2] <= claims[r]
  BY DEF AttemptInv, Issued, RunOf
<1>6. a = <<a[1], a[2]>> /\ b = <<b[1], b[2]>> /\ a[2] \in Nat \ {0} /\ b[2] \in Nat \ {0}
  BY ConstantsAssumption DEF Attempts
<1>7. a[2] = 1 /\ b[2] = 1
  BY <1>2, <1>3, <1>4, <1>5, <1>6
<1> QED
  BY <1>6, <1>7 DEF RunOf

(* One execution moves on, or starts, and at most its run's row is written.  *)
LEMMA ExecMoveKeepsVms ==
    ASSUME TypeOK, VmInv, faults = 0, UNCHANGED <<requeues, env, vm, resume>>,
           NEW a \in Attempts,
           \A b \in Attempts \ {a} : exec'[b] = exec[b],
           exec'[a].pc \in BarePc => env[RunOf(a)] = NoAttempt,
           exec'[a].pc \in HousedPc => env[RunOf(a)] # NoAttempt,
           exec[a].pc \in {"register", "rejected"} =>
              exec'[a].pc = "rejected" \/ env[RunOf(a)] # NoAttempt,
           exec[a].pc = "none" => vm[a] # "running" \/ env[RunOf(a)] = a,
           exec[a].pc \in TailPc => exec'[a].pc \in TailPc /\ exec'[a].out = exec[a].out,
           Concluded(a)' => vm[env[RunOf(a)]] = "terminated",
           \A r \in Runs : \/ status'[r] = status[r]
                           \/ status'[r] \notin {"none", "success"}
                           \/ /\ r = RunOf(a) /\ status'[r] = "success"
                              /\ exec'[a].out = "success" /\ exec'[a].pc \in TailPc
    PROVE  VmInv'
<1> USE DEF VmInv
<1>1. FirstQueueing'
  BY DEF FirstQueueing
<1>2. HousedOnce'
  BY DEF HousedOnce
<1>3. RunningIsRegistered'
  BY DEF RunningIsRegistered
<1>4. SuccessIsReturned'
  <2>1. ASSUME NEW r \in Runs, status'[r] = "success"
        PROVE  \E b \in Attempts : RunOf(b) = r /\ exec'[b].out = "success" /\ exec'[b].pc \in TailPc
    <3>1. CASE status'[r] = status[r]
      <4>1. PICK b \in Attempts : RunOf(b) = r /\ exec[b].out = "success" /\ exec[b].pc \in TailPc
        BY <2>1, <3>1 DEF SuccessIsReturned
      <4>2. exec'[b].out = "success" /\ exec'[b].pc \in TailPc
        BY <4>1
      <4> QED
        BY <4>1, <4>2
    <3>2. CASE status'[r] # status[r]
      BY <2>1, <3>2
    <3> QED
      BY <3>1, <3>2
  <2> QED
    BY <2>1 DEF SuccessIsReturned
<1>5. ConcludedHasNoVm'
  BY DEF ConcludedHasNoVm, Concluded
<1> QED
  BY <1>1, <1>2, <1>3, <1>4, <1>5

(* Nothing happens to executions and VMs, and no row is written 'success'.   *)
LEMMA WriteKeepsVms ==
    ASSUME VmInv, UNCHANGED <<requeues, env, vm, exec, resume, faults>>,
           \A r \in Runs : status'[r] = status[r] \/ status'[r] \notin {"none", "success"}
    PROVE  VmInv'
BY DEF VmInv, FirstQueueing, HousedOnce, RunningIsRegistered, SuccessIsReturned, ConcludedHasNoVm,
       Concluded

(* The workers.                                                              *)
LEMMA WorkerKeepsVms ==
    ASSUME TypeOK, AttemptInv, VmInv, faults = 0, NEW w \in Workers, WorkerStep(w)
    PROVE  VmInv'
<1>1. CASE Claim(w)
  <2>1. \A r \in Runs : status'[r] = status[r] \/ status'[r] \notin {"none", "success"}
    BY <1>1 DEF Claim, TakeOldest, SetStatus, TypeOK
  <2> QED
    BY <1>1, <2>1, WriteKeepsVms DEF Claim
<1>2. CASE DispatchFails(w) \/ StreamEnd(w) \/ WorkerRestart(w)
  BY <1>2, WriteKeepsVms DEF DispatchFails, StreamEnd, WorkerRestart
<1>3. CASE Blocked(w) \/ WorkerWrites(w)
  <2>1. \A r \in Runs : status'[r] = status[r] \/ status'[r] \notin {"none", "success"}
    BY <1>3 DEF Blocked, WorkerWrites, SetStatus, TypeOK
  <2> QED
    BY <1>3, <2>1, WriteKeepsVms DEF Blocked, WorkerWrites
<1>4. ASSUME NEW rt \in Runtimes, Trigger(w, rt) PROVE VmInv'
  <2> DEFINE a == worker[w].at
  <2>0. UNCHANGED <<status, requeues, env, vm, resume, faults>> /\ worker[w].pc = "claimed"
    BY <1>4 DEF Trigger
  <2>1. CASE a \in Attempts
    <3>1. exec[a].pc = "none"
      BY <2>0, <2>1 DEF AttemptInv
    <3>2. exec'[a].pc = "resolve" /\ \A b \in Attempts \ {a} : exec'[b] = exec[b]
      BY <1>4, <2>1 DEF Trigger, TypeOK
    <3>3. vm[a] # "running" \/ env[RunOf(a)] = a
      BY <2>1, <3>1 DEF VmInv, RunningIsRegistered
    <3> HIDE DEF a
    <3> QED
      BY <2>0, <2>1, <3>1, <3>2, <3>3, ExecMoveKeepsVms DEF BarePc, HousedPc, TailPc, Concluded
  <2>2. CASE a \notin Attempts
    <3>1. exec' = exec
      BY <1>4, <2>2 DEF Trigger, TypeOK
    <3> QED
      BY <2>0, <3>1, WriteKeepsVms
  <2> QED
    BY <2>1, <2>2
<1> QED
  BY <1>1, <1>2, <1>3, <1>4 DEF WorkerStep

(* An execution's steps, but for the three that touch a VM or a              *)
(* registration.                                                             *)
LEMMA ExecKeepsVms ==
    ASSUME TypeOK, OutcomeInv, VmInv, faults = 0, NEW a \in Attempts,
           \/ ExecResolve(a) \/ ExecStage(a) \/ ExecReject(a) \/ ExecReturn(a) \/ ExecHandback(a)
           \/ ExecWriteStatus(a) \/ ExecDrive(a)
    PROVE  VmInv'
<1> DEFINE bare == env[RunOf(a)] = NoAttempt
<1>0. /\ exec[a].pc \in BarePc => bare
      /\ exec[a].pc \in HousedPc => ~bare
  BY DEF VmInv, HousedOnce
<1> USE DEF BarePc, HousedPc, TailPc, Concluded
<1>1. CASE ExecResolve(a)
  BY <1>1, ExecToFrame, ExecMoveKeepsVms DEF ExecResolve
<1>2. CASE ExecStage(a)
  BY <1>0, <1>2, ExecToFrame, ExecMoveKeepsVms DEF ExecStage
<1>3. CASE ExecReject(a)
  BY <1>3, ExecToFrame, ExecMoveKeepsVms DEF ExecReject
<1>4. CASE ExecReturn(a)
  <2>1. PICK out \in Settled : ExecEnd(a, out)
    BY <1>4 DEF ExecReturn
  <2> QED
    BY <1>0, <1>4, <2>1, ExecEndFrame, ExecMoveKeepsVms DEF ExecReturn
<1>5. CASE ExecHandback(a)
  <2>1. \A r \in Runs : status'[r] = status[r] \/ status'[r] \notin {"none", "success"}
    BY <1>5 DEF ExecHandback, SetStatus, TypeOK
  <2>2. /\ exec[a].pc = "run" /\ exec'[a].pc = "ended"
        /\ \A b \in Attempts \ {a} : exec'[b] = exec[b]
        /\ UNCHANGED <<requeues, env, vm, resume>>
    BY <1>5, ExecEndFrame DEF ExecHandback
  <2> QED
    BY <1>0, <2>1, <2>2, ExecMoveKeepsVms
<1>6. CASE ExecWriteStatus(a)
  <2>1. /\ exec[a].pc = "ended" /\ exec'[a].pc = "drive" /\ exec'[a].out = exec[a].out
        /\ \A b \in Attempts \ {a} : exec'[b] = exec[b]
        /\ UNCHANGED <<requeues, env, vm, resume>>
    BY <1>6, ExecToFrame DEF ExecWriteStatus
  <2>2. \A r \in Runs : \/ status'[r] = status[r]
                        \/ status'[r] \notin {"none", "success"}
                        \/ /\ r = RunOf(a) /\ status'[r] = "success"
                           /\ exec[a].out = "success"
    BY <1>6 DEF ExecWriteStatus, SetStatus, TypeOK, Settled
  <2> QED
    BY <1>0, <2>1, <2>2, ExecMoveKeepsVms
<1>7. CASE ExecDrive(a)
  <2>1. /\ exec[a].pc = "drive" /\ exec'[a].out = exec[a].out
        /\ exec'[a].pc = (IF exec[a].out \in Settled THEN "terminate" ELSE "done")
        /\ \A b \in Attempts \ {a} : exec'[b] = exec[b]
        /\ UNCHANGED <<status, requeues, env, vm, resume>>
    BY <1>7, ExecToFrame DEF ExecDrive
  <2> QED
    BY <1>0, <2>1, ExecMoveKeepsVms
<1> QED
  BY <1>1, <1>2, <1>3, <1>4, <1>5, <1>6, <1>7

(* The one attempt of a run without a VM provisions one.                     *)
LEMMA ProvisionKeepsVms ==
    ASSUME TypeOK, AttemptInv, ClaimedOncePerQueueing, VmInv, faults = 0,
           NEW a \in Attempts, ExecProvision(a)
    PROVE  VmInv'
<1>1. /\ exec[a].pc = "provision" /\ exec'[a].pc = "register" /\ exec'[a].out = exec[a].out
      /\ \A b \in Attempts \ {a} : exec'[b] = exec[b] /\ vm'[b] = vm[b]
      /\ UNCHANGED <<status, requeues, env, resume>>
  BY ExecToFrame DEF ExecProvision, TypeOK
<1>2. env[RunOf(a)] = NoAttempt
  BY <1>1 DEF VmInv, HousedOnce, BarePc
<1>3. FirstQueueing' /\ HousedOnce'
  BY <1>1, <1>2 DEF VmInv, FirstQueueing, HousedOnce, BarePc, HousedPc
<1>4. RunningIsRegistered'
  BY <1>1, <1>2 DEF VmInv, RunningIsRegistered
<1>5. SuccessIsReturned'
  BY <1>1 DEF VmInv, SuccessIsReturned, TailPc
<1>6. ConcludedHasNoVm'
  <2>1. ASSUME NEW b \in Attempts, Concluded(b)' PROVE vm'[env[RunOf(b)]] = "terminated"
    <3>1. b # a /\ Concluded(b)
      BY <1>1, <2>1 DEF Concluded
    <3>2. env[RunOf(b)] # NoAttempt
      BY <3>1 DEF VmInv, HousedOnce, HousedPc, Concluded
    <3>3. env[RunOf(b)] \in Attempts /\ RunOf(env[RunOf(b)]) = RunOf(b)
      BY <3>2, RunOfType DEF AttemptInv, TypeOK
    <3>4. env[RunOf(b)] # a
      BY <1>2, <3>2, <3>3
    <3> QED
      BY <1>1, <3>1, <3>3, <3>4 DEF VmInv, ConcludedHasNoVm
  <2> QED
    BY <1>1, <2>1 DEF ConcludedHasNoVm
<1> QED
  BY <1>3, <1>4, <1>5, <1>6 DEF VmInv

(* It registers the VM, and no other attempt of the run was on its way.      *)
LEMMA RegisterKeepsVms ==
    ASSUME TypeOK, AttemptInv, ClaimedOncePerQueueing, VmInv, faults = 0,
           NEW a \in Attempts, ExecRegister(a)
    PROVE  VmInv'
<1>1. /\ exec[a].pc = "register" /\ exec'[a].pc = "stage" /\ exec'[a].out = exec[a].out
      /\ \A b \in Attempts \ {a} : exec'[b] = exec[b]
      /\ UNCHANGED <<status, requeues, vm, resume>>
  BY ExecToFrame DEF ExecRegister
<1>2. /\ RunOf(a) \in Runs /\ env'[RunOf(a)] = a
      /\ \A r \in Runs : r # RunOf(a) => env'[r] = env[r]
  BY RunOfType DEF ExecRegister, TypeOK
<1>3. env[RunOf(a)] = NoAttempt /\ a # NoAttempt
  BY <1>1 DEF VmInv, HousedOnce, BarePc, NoAttempt, Attempts, Runs
<1>4. ASSUME NEW b \in Attempts, RunOf(b) = RunOf(a), exec[b].pc # "none" PROVE b = a
  BY <1>1, <1>3, <1>4, OneBareAttempt
<1>5. FirstQueueing'
  BY <1>1, <1>2, <1>3 DEF VmInv, FirstQueueing
<1>6. HousedOnce'
  <2>1. ASSUME NEW b \in Attempts
        PROVE  /\ exec'[b].pc \in BarePc => env'[RunOf(b)] = NoAttempt
               /\ exec'[b].pc \in HousedPc => env'[RunOf(b)] # NoAttempt
    <3>1. CASE b = a
      BY <1>1, <1>2, <1>3, <3>1 DEF BarePc
    <3>2. CASE b # a /\ RunOf(b) = RunOf(a)
      <4>1. exec'[b].pc = "none"
        BY <1>1, <1>4, <3>2
      <4> QED
        BY <4>1 DEF BarePc, HousedPc
    <3>3. CASE RunOf(b) # RunOf(a)
      BY <1>1, <1>2, <3>3, RunOfType DEF VmInv, HousedOnce
    <3> QED
      BY <3>1, <3>2, <3>3
  <2> QED
    BY <2>1 DEF HousedOnce, BarePc, HousedPc
<1>7. RunningIsRegistered'
  <2>1. ASSUME NEW b \in Attempts, vm[b] = "running"
        PROVE  \/ env'[RunOf(b)] = b
               \/ env'[RunOf(b)] = NoAttempt /\ exec'[b].pc \in {"register", "rejected"}
    <3>1. CASE RunOf(b) = RunOf(a)
      <4>1. b # NoAttempt
        BY DEF NoAttempt, Attempts, Runs
      <4>2. exec[b].pc \in {"register", "rejected"}
        BY <1>3, <2>1, <3>1, <4>1 DEF VmInv, RunningIsRegistered
      <4>3. b = a
        BY <1>4, <3>1, <4>2
      <4> QED
        BY <1>2, <4>3
    <3>2. CASE RunOf(b) # RunOf(a)
      BY <1>1, <1>2, <2>1, <3>2, RunOfType DEF VmInv, RunningIsRegistered
    <3> QED
      BY <3>1, <3>2
  <2> QED
    BY <1>1, <2>1 DEF RunningIsRegistered
<1>8. SuccessIsReturned'
  BY <1>1 DEF VmInv, SuccessIsReturned, TailPc
<1>9. ConcludedHasNoVm'
  <2>1. ASSUME NEW b \in Attempts, Concluded(b)' PROVE vm[env'[RunOf(b)]] = "terminated"
    <3>1. b # a /\ Concluded(b)
      BY <1>1, <2>1 DEF Concluded
    <3>2. env[RunOf(b)] # NoAttempt
      BY <3>1 DEF VmInv, HousedOnce, HousedPc, Concluded
    <3>3. env'[RunOf(b)] = env[RunOf(b)]
      BY <1>2, <1>3, <3>2, RunOfType
    <3> QED
      BY <3>1, <3>3 DEF VmInv, ConcludedHasNoVm
  <2> QED
    BY <1>1, <2>1 DEF ConcludedHasNoVm
<1> QED
  BY <1>5, <1>6, <1>7, <1>8, <1>9 DEF VmInv

(* The tail stops the VM its run has registered.                             *)
LEMMA TerminateKeepsVms ==
    ASSUME TypeOK, VmInv, faults = 0, NEW a \in Attempts, ExecTerminate(a)
    PROVE  VmInv'
<1>1. /\ exec[a].pc = "terminate" /\ exec'[a].pc = "done" /\ exec'[a].out = exec[a].out
      /\ \A b \in Attempts \ {a} : exec'[b] = exec[b]
      /\ UNCHANGED <<status, requeues, env, resume>>
  BY ExecToFrame DEF ExecTerminate
<1>2. env[RunOf(a)] # NoAttempt /\ env[RunOf(a)] \in Attempts
  BY <1>1, RunOfType DEF VmInv, HousedOnce, HousedPc, TypeOK
<1>3. /\ vm'[env[RunOf(a)]] = "terminated"
      /\ \A b \in Attempts : vm'[b] = vm[b] \/ vm'[b] = "terminated"
  BY <1>2 DEF ExecTerminate, TypeOK
<1>4. FirstQueueing' /\ HousedOnce'
  BY <1>1, <1>2 DEF VmInv, FirstQueueing, HousedOnce, BarePc, HousedPc
<1>5. RunningIsRegistered'
  BY <1>1, <1>2, <1>3 DEF VmInv, RunningIsRegistered
<1>6. SuccessIsReturned'
  BY <1>1 DEF VmInv, SuccessIsReturned, TailPc
<1>7. ConcludedHasNoVm'
  <2>1. ASSUME NEW b \in Attempts, Concluded(b)' PROVE vm'[env[RunOf(b)]] = "terminated"
    <3>1. CASE b = a
      BY <1>3, <3>1
    <3>2. CASE b # a
      <4>1. Concluded(b)
        BY <1>1, <2>1, <3>2 DEF Concluded
      <4>2. env[RunOf(b)] # NoAttempt
        BY <4>1 DEF VmInv, HousedOnce, HousedPc, Concluded
      <4>3. env[RunOf(b)] \in Attempts
        BY <4>2, RunOfType DEF TypeOK
      <4> QED
        BY <1>3, <4>1, <4>3 DEF VmInv, ConcludedHasNoVm
    <3> QED
      BY <3>1, <3>2
  <2> QED
    BY <1>1, <2>1 DEF ConcludedHasNoVm
<1> QED
  BY <1>4, <1>5, <1>6, <1>7 DEF VmInv

(* A run enters the queue: new, or from a human, with its VM registered.     *)
LEMMA QueueKeepsVms ==
    ASSUME TypeOK, VmInv, faults = 0,
           \/ \E r \in Runs : Submit(r)
           \/ \E rt \in Runtimes : ResumeRequeue(rt) \/ \E r \in Runs : ResumeBegin(rt, r)
           \/ \E rt \in Runtimes : ResumeHandback(rt)
    PROVE  VmInv'
<1>1. ASSUME NEW r \in Runs, Submit(r) PROVE VmInv'
  <2>1. /\ status[r] = "none" /\ requeues[r] = 0 /\ requeues'[r] = 1
        /\ \A q \in Runs : q # r => requeues'[q] = requeues[q] /\ status'[q] = status[q]
        /\ status'[r] = "queued" /\ UNCHANGED <<env, vm, exec, resume>>
    BY <1>1 DEF Submit, SetStatus, VmInv, FirstQueueing, TypeOK
  <2>2. FirstQueueing'
    BY <2>1 DEF VmInv, FirstQueueing
  <2>3. SuccessIsReturned'
    BY <2>1 DEF VmInv, SuccessIsReturned
  <2> QED
    BY <2>1, <2>2, <2>3 DEF VmInv, HousedOnce, RunningIsRegistered, ConcludedHasNoVm, Concluded
<1>2. ASSUME NEW rt \in Runtimes, ResumeRequeue(rt) PROVE VmInv'
  <2> DEFINE r == resume[rt]
  <2>1. /\ r \in Runs /\ env[r] # NoAttempt
        /\ \A q \in Runs : q # r => requeues'[q] = requeues[q] /\ status'[q] = status[q]
        /\ status'[r] = "queued" /\ UNCHANGED <<env, vm, exec>>
        /\ \A t \in Runtimes : resume'[t] = resume[t] \/ resume'[t] = NoRun
    BY <1>2 DEF ResumeRequeue, SetStatus, VmInv, FirstQueueing, TypeOK
  <2>2. FirstQueueing'
    BY <2>1 DEF VmInv, FirstQueueing, NoRun, Runs
  <2>3. SuccessIsReturned'
    BY <2>1 DEF VmInv, SuccessIsReturned
  <2> QED
    BY <2>1, <2>2, <2>3 DEF VmInv, HousedOnce, RunningIsRegistered, ConcludedHasNoVm, Concluded
<1>3. ASSUME NEW rt \in Runtimes, NEW r \in Runs, ResumeBegin(rt, r) PROVE VmInv'
  <2>1. /\ env[r] # NoAttempt /\ UNCHANGED <<status, requeues, env, vm, exec>>
        /\ \A t \in Runtimes : resume'[t] = resume[t] \/ resume'[t] = r
    BY <1>3 DEF ResumeBegin, TypeOK
  <2>2. FirstQueueing'
    BY <2>1 DEF VmInv, FirstQueueing
  <2> QED
    BY <2>1, <2>2 DEF VmInv, HousedOnce, RunningIsRegistered, SuccessIsReturned, ConcludedHasNoVm,
                      Concluded
<1>4. ASSUME NEW rt \in Runtimes, ResumeHandback(rt) PROVE VmInv'
  <2>1. \A r \in Runs : status'[r] = status[r] \/ status'[r] \notin {"none", "success"}
    BY <1>4 DEF ResumeHandback, SetStatus, TypeOK
  <2> QED
    BY <1>4, <2>1, WriteKeepsVms DEF ResumeHandback
<1> QED
  BY <1>1, <1>2, <1>3, <1>4

(* Every step keeps track of the one VM of a run, or is a failure.           *)
LEMMA VmNext ==
    TypeOK /\ AttemptInv /\ OutcomeInv /\ ClaimedOncePerQueueing /\ VmInv /\ [Next]_vars => VmInv'
<1> SUFFICES ASSUME TypeOK, AttemptInv, OutcomeInv, ClaimedOncePerQueueing, VmInv, [Next]_vars,
                    faults' = 0
             PROVE  VmInv'
  BY DEF VmInv
<1>1. faults \in Nat
  BY ConstantsAssumption DEF TypeOK
<1>2. ~Failure
  BY <1>1 DEF Failure, Fault, ClaimLost, StreamBreak, WorkerWriteLost, WorkerCrash, ExecContextLost,
              ExecHandbackLost, ExecCleanExit, ExecStatusLost, ExecTerminateLost, RuntimeCrash,
              ResumeRequeueLost
<1>3. CASE \E w \in Workers : WorkerStep(w)
  <2>1. PICK w \in Workers : WorkerStep(w)
    BY <1>3
  <2>2. faults = 0
    BY <2>1 DEF WorkerStep, Claim, DispatchFails, Blocked, Trigger, StreamEnd, WorkerWrites,
                WorkerRestart
  <2> QED
    BY <2>1, <2>2, WorkerKeepsVms
<1>4. CASE \E a \in Attempts : ExecStep(a)
  <2>1. PICK a \in Attempts : ExecStep(a)
    BY <1>4
  <2>2. faults = 0
    BY <2>1 DEF ExecStep, ExecResolve, ExecProvision, ExecRegister, ExecStage, ExecReject, ExecReturn,
                ExecHandback, ExecWriteStatus, ExecDrive, ExecTerminate
  <2> QED
    BY <2>1, <2>2, ExecKeepsVms, ProvisionKeepsVms, RegisterKeepsVms, TerminateKeepsVms DEF ExecStep
<1>5. CASE \/ \E r \in Runs : Submit(r)
           \/ \E rt \in Runtimes, r \in Runs : ResumeBegin(rt, r)
           \/ \E rt \in Runtimes : ResumeHandback(rt) \/ ResumeRequeue(rt)
  <2>1. faults = 0
    BY <1>5 DEF Submit, ResumeBegin, ResumeHandback, ResumeRequeue
  <2> QED
    BY <1>5, <2>1, QueueKeepsVms
<1>6. CASE UNCHANGED vars
  BY <1>6, WriteKeepsVms DEF vars
<1> QED
  BY <1>2, <1>3, <1>4, <1>5, <1>6 DEF Next

(* SuccessLeavesNoVm: however often a run was handed back, resumed and       *)
(* dispatched again, as long as nothing fails it uses one VM, and that one   *)
(* is terminated when the run has succeeded and nobody works on it.          *)
THEOREM SuccessLeavesNoVm == Spec => []NoVmLeftAfterSuccess
<1>1. Init => AttemptInv /\ OutcomeInv /\ VmInv
  BY DEF Init, AttemptInv, OutcomeInv, TerminatedOnlyAfterOutcome, IdleWorker, NoAttempt, Attempts, Runs,
         VmInv, FirstQueueing, HousedOnce, RunningIsRegistered, SuccessIsReturned, ConcludedHasNoVm,
         Concluded, BarePc, HousedPc, NoRun
<1>2. TypeOK /\ VmInv => NoVmLeftAfterSuccess
  <2> SUFFICES ASSUME TypeOK, VmInv, NEW r \in Runs, faults = 0, status[r] = "success", Quiet(r),
                      NEW a \in Attempts, RunOf(a) = r, vm[a] = "running"
               PROVE  FALSE
    BY DEF NoVmLeftAfterSuccess
  <2>1. PICK b \in Attempts : RunOf(b) = r /\ exec[b].out = "success" /\ exec[b].pc \in TailPc
    BY DEF VmInv, SuccessIsReturned
  <2>2. Concluded(b)
    BY <2>1 DEF Quiet, TailPc, Concluded, Settled
  <2>3. env[r] # NoAttempt /\ vm[env[r]] = "terminated"
    BY <2>1, <2>2 DEF VmInv, HousedOnce, HousedPc, ConcludedHasNoVm, Concluded
  <2> QED
    BY <2>3 DEF VmInv, RunningIsRegistered
<1> QED
  BY <1>1, <1>2, TypeCorrect, ClaimedOnce, AttemptNext, OutcomeNext, VmNext, PTL DEF Spec

-----------------------------------------------------------------------------
(* The queue is implemented *)

(* One status write is an offer or a withdrawal.                             *)
LEMMA WriteIsQueueStep ==
    ASSUME TypeOK, NEW p, NEW s, SetStatus(p, s), claims' = claims
    PROVE  [Queue!Next]_(Queue!vars)
<1>1. CASE p \notin Runs
  BY <1>1 DEF SetStatus, TypeOK, Queued, Queue!vars
<1>2. CASE p \in Runs /\ s = "queued"
  <2>1. Queued' = Queued \cup {p}
    BY <1>2 DEF SetStatus, TypeOK, Queued
  <2> QED
    BY <1>2, <2>1 DEF Queue!Next, Queue!Offer
<1>3. CASE p \in Runs /\ s # "queued"
  <2>1. Queued' = Queued \ {p}
    BY <1>3 DEF SetStatus, TypeOK, Queued
  <2> QED
    BY <1>3, <2>1 DEF Queue!Next, Queue!Withdraw
<1> QED
  BY <1>1, <1>2, <1>3

(* A claim hands the run out.                                                *)
LEMMA ClaimIsQueueStep ==
    ASSUME TypeOK, NEW p \in Runs, TakeOldest(p)
    PROVE  [Queue!Next]_(Queue!vars)
<1>1. Queued' = Queued \ {p}
  BY DEF TakeOldest, SetStatus, TypeOK, Queued
<1> QED
  BY <1>1 DEF TakeOldest, Queue!Next, Queue!Hand

(* Every step is a step of the queue or leaves it.                           *)
LEMMA QueueNext == TypeOK /\ [Next]_vars => [Queue!Next]_(Queue!vars)
<1> SUFFICES ASSUME TypeOK, [Next]_vars PROVE [Queue!Next]_(Queue!vars)
  OBVIOUS
<1>1. CASE UNCHANGED <<status, claims>>
  BY <1>1 DEF Queued, Queue!vars
<1>2. ASSUME NEW r \in Runs, Submit(r) PROVE [Queue!Next]_(Queue!vars)
  BY <1>2, WriteIsQueueStep DEF Submit
<1>3. ASSUME NEW w \in Workers, WorkerStep(w) PROVE [Queue!Next]_(Queue!vars)
  BY <1>1, <1>3, WriteIsQueueStep, ClaimIsQueueStep
     DEF WorkerStep, Claim, DispatchFails, Blocked, Trigger, StreamEnd, WorkerWrites, WorkerRestart
<1>4. ASSUME NEW a \in Attempts, ExecStep(a) PROVE [Queue!Next]_(Queue!vars)
  BY <1>1, <1>4, WriteIsQueueStep
     DEF ExecStep, ExecResolve, ExecProvision, ExecRegister, ExecStage, ExecReject, ExecReturn,
         ExecHandback, ExecWriteStatus, ExecDrive, ExecTerminate
<1>5. ASSUME NEW rt \in Runtimes, ResumeHandback(rt) \/ ResumeRequeue(rt)
      PROVE  [Queue!Next]_(Queue!vars)
  BY <1>5, WriteIsQueueStep DEF ResumeHandback, ResumeRequeue
<1>6. CASE \E rt \in Runtimes, r \in Runs : ResumeBegin(rt, r)
  BY <1>1, <1>6 DEF ResumeBegin
<1>7. CASE Failure
  <2>1. ASSUME NEW w \in Workers, ClaimLost(w) PROVE [Queue!Next]_(Queue!vars)
    BY <2>1, ClaimIsQueueStep DEF ClaimLost
  <2>2. CASE UNCHANGED <<status, claims>>
    BY <2>2, <1>1
  <2> QED
    BY <1>7, <2>1, <2>2
       DEF Failure, StreamBreak, WorkerWriteLost, WorkerCrash, ExecContextLost, ExecHandbackLost,
           ExecCleanExit, ExecStatusLost, ExecTerminateLost, RuntimeCrash, ResumeRequeueLost
<1>8. CASE UNCHANGED vars
  BY <1>1, <1>8 DEF vars
<1> QED
  BY <1>2, <1>3, <1>4, <1>5, <1>6, <1>7, <1>8 DEF Next

(* The rows, whoever writes them, are the work queue of RunQueue: every step *)
(* offers a run, withdraws it, hands it to one worker, or leaves the queue.  *)
THEOREM QueueImplemented == Spec => QueueSpec
<1>1. Init => Queue!Init
  BY DEF Init, Queue!Init, Queued
<1> QED
  BY <1>1, TypeCorrect, QueueNext, PTL DEF Spec, QueueSpec, Queue!Spec
=============================================================================
