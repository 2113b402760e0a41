---------------------------- MODULE RunLifecycle ----------------------------
(***************************************************************************)
(* The life of a workflow run across the control plane, the workers and the *)
(* runtime service: enqueue, claim, dispatch, execution, handback to a      *)
(* human, resume, and the status writes all of them make to one row of      *)
(* workflow_runs.  The k-th claim of run r is the attempt <<r, k>>; it      *)
(* names the worker's dispatch, the execution the runtime starts for it and *)
(* the virtual machine that execution provisions.                           *)
(*                                                                          *)
(* The runtime is one asyncio process: a handler holds its event loop until *)
(* it awaits.  The execute handler, the tail of an execution and the whole  *)
(* resume handler contain no await, so they exclude each other within one   *)
(* process; agents run in executor threads and interleave with everything.  *)
(***************************************************************************)
EXTENDS Naturals, FiniteSets

CONSTANTS NRuns,        \* runs are numbered by created_at
          Workers,      \* worker processes
          Runtimes,     \* runtime service processes
          MaxAttempts,  \* bound: claims of one run, and resumes begun
          Faults,       \* the kinds of failure that may happen
          MaxFaults     \* bound: how many of them happen

FaultKinds == {"claimLost", "statusLost", "handbackLost", "cleanExit",
               "writeLost", "requeueLost", "contextLost", "terminateLost",
               "streamBreak", "runtimeCrash", "workerCrash"}

ASSUME ConstantsAssumption ==
    /\ NRuns \in Nat \ {0}
    /\ MaxAttempts \in Nat \ {0}
    /\ MaxFaults \in Nat
    /\ Faults \subseteq FaultKinds
    /\ "none" \notin Runtimes

VARIABLES
    status,     \* workflow_runs.status, "none" before the row exists
    claims,     \* how often the run was claimed
    requeues,   \* how often the run was put (back) in the queue
    env,        \* environment.endpoint: the attempt that registered the VM
    vm,         \* the VM each attempt provisioned
    worker,     \* what each worker is doing, for which attempt
    exec,       \* the execution of each attempt in the runtime
    resume,     \* the run whose resume handler holds the runtime's event loop
    question,   \* a handback request waits for a human
    dropped,    \* the attempt was lost by a failure nobody observes
    faults      \* failures so far

vars == <<status, claims, requeues, env, vm, worker, exec, resume, question,
          dropped, faults>>

Runs == 1..NRuns
Attempts == Runs \X (1..MaxAttempts)
NoAttempt == <<0, 0>>
NoRun == 0
NoRuntime == "none"

Status == {"none", "queued", "running", "attention", "success", "error"}
Settled == {"success", "error"}
WorkerPc == {"idle", "claimed", "streaming", "errWrite", "attWrite", "down"}
ExecPc == {"none", "resolve", "provision", "register", "stage", "run", "ended",
           "drive", "terminate", "done", "rejected", "dead"}
Outcome == {"none", "success", "error", "attention", "exit"}

\* Execution steps that run on the event loop without awaiting.
SyncPc == {"resolve", "provision", "register", "stage", "drive", "terminate"}
\* Execution steps after which the runtime still owes the run a status.
OwingPc == {"resolve", "provision", "register", "stage", "run"}

WorkerState == [pc : WorkerPc, at : Attempts \cup {NoAttempt}]
ExecState == [pc : ExecPc, rt : Runtimes \cup {NoRuntime}, out : Outcome]

TypeOK ==
    /\ status \in [Runs -> Status]
    /\ claims \in [Runs -> 0..MaxAttempts]
    /\ requeues \in [Runs -> Nat]
    /\ env \in [Runs -> Attempts \cup {NoAttempt}]
    /\ vm \in [Attempts -> {"none", "running", "terminated"}]
    /\ worker \in [Workers -> WorkerState]
    /\ exec \in [Attempts -> ExecState]
    /\ resume \in [Runtimes -> Runs \cup {NoRun}]
    /\ question \in [Runs -> BOOLEAN]
    /\ dropped \in [Attempts -> BOOLEAN]
    /\ faults \in 0..MaxFaults

IdleWorker == [pc |-> "idle", at |-> NoAttempt]

Init ==
    /\ status = [r \in Runs |-> "none"]
    /\ claims = [r \in Runs |-> 0]
    /\ requeues = [r \in Runs |-> 0]
    /\ env = [r \in Runs |-> NoAttempt]
    /\ vm = [a \in Attempts |-> "none"]
    /\ worker = [w \in Workers |-> IdleWorker]
    /\ exec = [a \in Attempts |-> [pc |-> "none", rt |-> NoRuntime, out |-> "none"]]
    /\ resume = [rt \in Runtimes |-> NoRun]
    /\ question = [r \in Runs |-> FALSE]
    /\ dropped = [a \in Attempts |-> FALSE]
    /\ faults = 0

-----------------------------------------------------------------------------
(* Helpers *)

RunOf(a) == a[1]

Queued == {r \in Runs : status[r] = "queued"}

\* No handler or execution tail holds the event loop of the runtime process.
LoopIdle(rt) ==
    /\ resume[rt] = NoRun
    /\ \A a \in Attempts : exec[a].rt = rt => exec[a].pc \notin SyncPc

\* A worker consumes the event stream of the attempt.
Watched(a) == \E w \in Workers : worker[w] = [pc |-> "streaming", at |-> a]

\* A write of workflow_runs.status replaces whatever is there.
SetStatus(r, s) == status' = [status EXCEPT ![r] = s]

ExecTo(a, pc) == exec' = [exec EXCEPT ![a].pc = pc]

ExecEnd(a, out) == exec' = [exec EXCEPT ![a].pc = "ended", ![a].out = out]

WorkerTo(w, pc) == worker' = [worker EXCEPT ![w].pc = pc]

\* The k-th failure of an enabled kind.
Fault(kind) ==
    /\ kind \in Faults
    /\ faults < MaxFaults
    /\ faults' = faults + 1

-----------------------------------------------------------------------------
(* Control plane: enqueue *)

\* enqueue_workflow_run commits the new row (module Accounts has its steps).
Submit(r) ==
    /\ status[r] = "none"
    /\ r > 1 => status[r - 1] # "none"
    /\ SetStatus(r, "queued")
    /\ requeues' = [requeues EXCEPT ![r] = @ + 1]
    /\ UNCHANGED <<claims, env, vm, worker, exec, resume, question, dropped, faults>>

-----------------------------------------------------------------------------
(* Worker *)

\* Mutant of TakeOldest: the row is not marked.
TakeUnmarked(r) ==
    /\ r \in Queued
    /\ claims[r] < MaxAttempts
    /\ UNCHANGED status
    /\ claims' = [claims EXCEPT ![r] = @ + 1]

\* The row change of claim_next_run: the oldest queued run becomes 'running'.
TakeOldest(r) ==
    /\ r \in Queued
    /\ \A q \in Queued : r <= q
    /\ claims[r] < MaxAttempts
    /\ SetStatus(r, "running")
    /\ claims' = [claims EXCEPT ![r] = @ + 1]

Claim(w) ==
    /\ worker[w].pc = "idle"
    /\ \E r \in Runs :
          /\ TakeOldest(r)
          /\ worker' = [worker EXCEPT ![w] = [pc |-> "claimed", at |-> <<r, claims[r] + 1>>]]
    /\ UNCHANGED <<requeues, env, vm, exec, resume, question, dropped, faults>>

\* The commit of the claim succeeds but its answer is lost; the retry claims
\* another run or none, and nobody works on this one.
ClaimLost(w) ==
    /\ Fault("claimLost")
    /\ worker[w].pc = "idle"
    /\ \E r \in Runs :
          /\ TakeOldest(r)
          /\ dropped' = [dropped EXCEPT ![<<r, claims[r] + 1>>] = TRUE]
    /\ UNCHANGED <<requeues, env, vm, worker, exec, resume, question>>

\* Mutant: the worker gives up on a failed dispatch without writing the error.
DispatchGivesUp(w) ==
    /\ worker[w].pc = "claimed"
    /\ worker' = [worker EXCEPT ![w] = IdleWorker]
    /\ UNCHANGED <<status, claims, requeues, env, vm, exec, resume, question, dropped, faults>>

\* fetch_workflow or the request to the executor fails before the runtime acts.
DispatchFails(w) ==
    /\ worker[w].pc = "claimed"
    /\ WorkerTo(w, "errWrite")
    /\ UNCHANGED <<status, claims, requeues, env, vm, exec, resume, question, dropped, faults>>

\* The control plane's pre-execute guard finds an account to refresh: it sets
\* 'attention' itself and answers 409, on which the worker sets it once more.
Blocked(w) ==
    /\ worker[w].pc = "claimed"
    /\ SetStatus(RunOf(worker[w].at), "attention")
    /\ WorkerTo(w, "attWrite")
    /\ UNCHANGED <<claims, requeues, env, vm, exec, resume, question, dropped, faults>>

\* The request reaches the execute handler of a runtime process.
Trigger(w, rt) ==
    /\ worker[w].pc = "claimed"
    /\ LoopIdle(rt)
    /\ WorkerTo(w, "streaming")
    /\ exec' = [exec EXCEPT ![worker[w].at] = [pc |-> "resolve", rt |-> rt, out |-> "none"]]
    /\ UNCHANGED <<status, claims, requeues, env, vm, resume, question, dropped, faults>>

\* Mutant: any end of the response is taken for a clean one.
StreamEndUnchecked(w) ==
    /\ worker[w].pc = "streaming"
    /\ exec[worker[w].at].pc \in {"done", "rejected", "dead"}
    /\ worker' = [worker EXCEPT ![w] = IdleWorker]
    /\ UNCHANGED <<status, claims, requeues, env, vm, exec, resume, question, dropped, faults>>

\* The response ends: cleanly, or as an error status or a reset connection.
StreamEnd(w) ==
    /\ worker[w].pc = "streaming"
    /\ \/ /\ exec[worker[w].at].pc = "done"
          /\ worker' = [worker EXCEPT ![w] = IdleWorker]
       \/ /\ exec[worker[w].at].pc \in {"rejected", "dead"}
          /\ WorkerTo(w, "errWrite")
    /\ UNCHANGED <<status, claims, requeues, env, vm, exec, resume, question, dropped, faults>>

\* The connection breaks while the execution goes on.
StreamBreak(w) ==
    /\ Fault("streamBreak")
    /\ worker[w].pc = "streaming"
    /\ exec[worker[w].at].pc \in ExecPc \ {"rejected", "dead"}
    /\ WorkerTo(w, "errWrite")
    /\ UNCHANGED <<status, claims, requeues, env, vm, exec, resume, question, dropped>>

\* update_run_status of the worker, after an error or a 409.
WorkerWrites(w) ==
    /\ worker[w].pc \in {"errWrite", "attWrite"}
    /\ SetStatus(RunOf(worker[w].at), IF worker[w].pc = "errWrite" THEN "error" ELSE "attention")
    /\ worker' = [worker EXCEPT ![w] = IdleWorker]
    /\ UNCHANGED <<claims, requeues, env, vm, exec, resume, question, dropped, faults>>

\* Every retry of that write fails; the worker logs it and goes on.
WorkerWriteLost(w) ==
    /\ Fault("writeLost")
    /\ worker[w].pc \in {"errWrite", "attWrite"}
    /\ dropped' = [dropped EXCEPT ![worker[w].at] = TRUE]
    /\ worker' = [worker EXCEPT ![w] = IdleWorker]
    /\ UNCHANGED <<status, claims, requeues, env, vm, exec, resume, question>>

\* A crashed worker forgets its run.  An execution it was watching continues,
\* because the task does not depend on the response that streams its events.
WorkerCrash(w) ==
    /\ Fault("workerCrash")
    /\ worker[w].pc \in {"claimed", "streaming", "errWrite", "attWrite"}
    /\ LET a == worker[w].at
       IN dropped' = IF worker[w].pc = "streaming" /\ exec[a].pc \notin {"rejected", "dead"}
                     THEN dropped
                     ELSE [dropped EXCEPT ![a] = TRUE]
    /\ worker' = [worker EXCEPT ![w] = [pc |-> "down", at |-> NoAttempt]]
    /\ UNCHANGED <<status, claims, requeues, env, vm, exec, resume, question>>

WorkerRestart(w) ==
    /\ worker[w].pc = "down"
    /\ worker' = [worker EXCEPT ![w] = IdleWorker]
    /\ UNCHANGED <<status, claims, requeues, env, vm, exec, resume, question, dropped, faults>>

-----------------------------------------------------------------------------
(* Runtime: the execute handler *)

\* Mutant: every execution provisions a VM.
ExecResolveAfresh(a) ==
    /\ exec[a].pc = "resolve"
    /\ ExecTo(a, "provision")
    /\ UNCHANGED <<status, claims, requeues, env, vm, worker, resume, question, dropped, faults>>

\* The VM registered for the run is reused; without one a VM is provisioned.
ExecResolve(a) ==
    /\ exec[a].pc = "resolve"
    /\ ExecTo(a, IF env[RunOf(a)] # NoAttempt THEN "stage" ELSE "provision")
    /\ UNCHANGED <<status, claims, requeues, env, vm, worker, resume, question, dropped, faults>>

\* The context cannot be read: the handler goes on as if no VM were registered.
ExecContextLost(a) ==
    /\ Fault("contextLost")
    /\ exec[a].pc = "resolve"
    /\ ExecTo(a, "provision")
    /\ UNCHANGED <<status, claims, requeues, env, vm, worker, resume, question, dropped>>

ExecProvision(a) ==
    /\ exec[a].pc = "provision"
    /\ vm' = [vm EXCEPT ![a] = "running"]
    /\ ExecTo(a, "register")
    /\ UNCHANGED <<status, claims, requeues, env, worker, resume, question, dropped, faults>>

ExecRegister(a) ==
    /\ exec[a].pc = "register"
    /\ env' = [env EXCEPT ![RunOf(a)] = a]
    /\ ExecTo(a, "stage")
    /\ UNCHANGED <<status, claims, requeues, vm, worker, resume, question, dropped, faults>>

\* Drive files are staged and the execution task is created.
ExecStage(a) ==
    /\ exec[a].pc = "stage"
    /\ ExecTo(a, "run")
    /\ UNCHANGED <<status, claims, requeues, env, vm, worker, resume, question, dropped, faults>>

\* Provisioning, registration or staging fails: the handler answers 500 and
\* leaves the VM and the row as they are.
ExecReject(a) ==
    /\ exec[a].pc \in {"provision", "register", "stage"}
    /\ ExecTo(a, "rejected")
    /\ dropped' = [dropped EXCEPT ![a] = @ \/ ~Watched(a)]
    /\ UNCHANGED <<status, claims, requeues, env, vm, worker, resume, question, faults>>

-----------------------------------------------------------------------------
(* Runtime: the execution task *)

\* The orchestrator returns, or raises.
ExecReturn(a) ==
    /\ exec[a].pc = "run"
    /\ \E out \in Settled : ExecEnd(a, out)
    /\ UNCHANGED <<status, claims, requeues, env, vm, worker, resume, question, dropped, faults>>

\* The computer-use runner persists its snapshot and marks the run, in the
\* agent's thread; the orchestrator then stops with 'attention'.
ExecHandback(a) ==
    /\ exec[a].pc = "run"
    /\ SetStatus(RunOf(a), "attention")
    /\ question' = [question EXCEPT ![RunOf(a)] = TRUE]
    /\ ExecEnd(a, "attention")
    /\ UNCHANGED <<claims, requeues, env, vm, worker, resume, dropped, faults>>

\* Persisting the handback fails; the runner logs it and hands back all the same.
ExecHandbackLost(a) ==
    /\ Fault("handbackLost")
    /\ exec[a].pc = "run"
    /\ dropped' = [dropped EXCEPT ![a] = TRUE]
    /\ ExecEnd(a, "attention")
    /\ UNCHANGED <<status, claims, requeues, env, vm, worker, resume, question>>

\* An operator asked the process to stop: SystemExit(0) leaves the loop.
ExecCleanExit(a) ==
    /\ Fault("cleanExit")
    /\ exec[a].pc = "run"
    /\ dropped' = [dropped EXCEPT ![a] = TRUE]
    /\ ExecEnd(a, "exit")
    /\ UNCHANGED <<status, claims, requeues, env, vm, worker, resume, question>>

\* Mutant: the tail writes whatever the outcome is.
ExecWriteOutcome(a) ==
    /\ exec[a].pc = "ended"
    /\ LoopIdle(exec[a].rt)
    /\ SetStatus(RunOf(a), exec[a].out)
    /\ ExecTo(a, "drive")
    /\ UNCHANGED <<claims, requeues, env, vm, worker, resume, question, dropped, faults>>

\* The tail begins: only success and error are written.
ExecWriteStatus(a) ==
    /\ exec[a].pc = "ended"
    /\ LoopIdle(exec[a].rt)
    /\ IF exec[a].out \in Settled
       THEN SetStatus(RunOf(a), exec[a].out)
       ELSE UNCHANGED status
    /\ ExecTo(a, "drive")
    /\ UNCHANGED <<claims, requeues, env, vm, worker, resume, question, dropped, faults>>

\* The control plane does not answer the one attempt to write the status.
ExecStatusLost(a) ==
    /\ Fault("statusLost")
    /\ exec[a].pc = "ended"
    /\ exec[a].out \in Settled
    /\ LoopIdle(exec[a].rt)
    /\ dropped' = [dropped EXCEPT ![a] = TRUE]
    /\ ExecTo(a, "drive")
    /\ UNCHANGED <<status, claims, requeues, env, vm, worker, resume, question>>

\* Mutant: a run that only handed back loses its VM, too.
ExecDriveThenTerminate(a) ==
    /\ exec[a].pc = "drive"
    /\ ExecTo(a, "terminate")
    /\ UNCHANGED <<status, claims, requeues, env, vm, worker, resume, question, dropped, faults>>

\* Drive changes are detected and committed (module DriveSync).
ExecDrive(a) ==
    /\ exec[a].pc = "drive"
    /\ ExecTo(a, IF exec[a].out \in Settled THEN "terminate" ELSE "done")
    /\ UNCHANGED <<status, claims, requeues, env, vm, worker, resume, question, dropped, faults>>

\* terminate_run_instance stops the VM the run has registered now.
ExecTerminate(a) ==
    /\ exec[a].pc = "terminate"
    /\ vm' = IF env[RunOf(a)] = NoAttempt THEN vm
             ELSE [vm EXCEPT ![env[RunOf(a)]] = "terminated"]
    /\ ExecTo(a, "done")
    /\ UNCHANGED <<status, claims, requeues, env, worker, resume, question, dropped, faults>>

\* The provider or the lookup fails; the tail only logs it.
ExecTerminateLost(a) ==
    /\ Fault("terminateLost")
    /\ exec[a].pc = "terminate"
    /\ ExecTo(a, "done")
    /\ UNCHANGED <<status, claims, requeues, env, vm, worker, resume, question, dropped>>

\* A runtime process dies with its executions and handlers and starts afresh.
Dies(a, rt) == exec[a].rt = rt /\ exec[a].pc \notin {"done", "rejected", "dead"}

RuntimeCrash(rt) ==
    /\ Fault("runtimeCrash")
    /\ exec' = [a \in Attempts |-> IF Dies(a, rt) THEN [exec[a] EXCEPT !.pc = "dead"] ELSE exec[a]]
    /\ dropped' = [a \in Attempts |-> dropped[a] \/ (Dies(a, rt) /\ ~Watched(a))]
    /\ resume' = [resume EXCEPT ![rt] = NoRun]
    /\ UNCHANGED <<status, claims, requeues, env, vm, worker, question>>

-----------------------------------------------------------------------------
(* Runtime: the resume handler *)

\* The handler reads the row, insists on 'attention', and reaches the VM.
ResumeBegin(rt, r) ==
    /\ LoopIdle(rt)
    /\ requeues[r] < MaxAttempts
    /\ status[r] = "attention"
    /\ env[r] # NoAttempt
    /\ vm[env[r]] = "running"
    /\ resume' = [resume EXCEPT ![rt] = r]
    /\ question' = [question EXCEPT ![r] = FALSE]
    /\ UNCHANGED <<status, claims, requeues, env, vm, worker, exec, dropped, faults>>

\* The resumed computer-use run hands back once more.
ResumeHandback(rt) ==
    /\ resume[rt] # NoRun
    /\ ~question[resume[rt]]
    /\ SetStatus(resume[rt], "attention")
    /\ question' = [question EXCEPT ![resume[rt]] = TRUE]
    /\ UNCHANGED <<claims, requeues, env, vm, worker, exec, resume, dropped, faults>>

\* The handler merges its artifacts and writes 'queued' whatever the row says.
ResumeRequeue(rt) ==
    /\ resume[rt] # NoRun
    /\ SetStatus(resume[rt], "queued")
    /\ requeues' = [requeues EXCEPT ![resume[rt]] = @ + 1]
    /\ resume' = [resume EXCEPT ![rt] = NoRun]
    /\ UNCHANGED <<claims, env, vm, worker, exec, question, dropped, faults>>

\* That write fails; the handler answers "resumed" all the same.
ResumeRequeueLost(rt) ==
    /\ Fault("requeueLost")
    /\ resume[rt] # NoRun
    /\ resume' = [resume EXCEPT ![rt] = NoRun]
    /\ UNCHANGED <<status, claims, requeues, env, vm, worker, exec, question, dropped>>

-----------------------------------------------------------------------------
WorkerStep(w) ==
    \/ Claim(w) \/ DispatchFails(w) \/ Blocked(w)
    \/ \E rt \in Runtimes : Trigger(w, rt)
    \/ StreamEnd(w) \/ WorkerWrites(w) \/ WorkerRestart(w)

ExecStep(a) ==
    \/ ExecResolve(a) \/ ExecProvision(a) \/ ExecRegister(a) \/ ExecStage(a)
    \/ ExecReject(a) \/ ExecReturn(a) \/ ExecHandback(a) \/ ExecWriteStatus(a)
    \/ ExecDrive(a) \/ ExecTerminate(a)

Failure ==
    \/ \E w \in Workers : ClaimLost(w) \/ StreamBreak(w) \/ WorkerWriteLost(w) \/ WorkerCrash(w)
    \/ \E a \in Attempts : \/ ExecContextLost(a) \/ ExecHandbackLost(a) \/ ExecCleanExit(a)
                           \/ ExecStatusLost(a) \/ ExecTerminateLost(a)
    \/ \E rt \in Runtimes : RuntimeCrash(rt) \/ ResumeRequeueLost(rt)

Next ==
    \/ \E r \in Runs : Submit(r)
    \/ \E w \in Workers : WorkerStep(w)
    \/ \E a \in Attempts : ExecStep(a)
    \/ \E rt \in Runtimes, r \in Runs : ResumeBegin(rt, r)
    \/ \E rt \in Runtimes : ResumeHandback(rt) \/ ResumeRequeue(rt)
    \/ Failure

Spec == Init /\ [][Next]_vars

(* Processes that are up keep going: workers loop, the event loop serves its *)
(* handlers, agents are bounded by max_steps.  Nobody is obliged to enqueue  *)
(* or to resume, and no failure is obliged to happen.                        *)
Fairness ==
    /\ \A w \in Workers : WF_vars(WorkerStep(w))
    /\ \A a \in Attempts : WF_vars(ExecStep(a))
    /\ \A rt \in Runtimes : WF_vars(ResumeRequeue(rt))

FairSpec == Spec /\ Fairness

-----------------------------------------------------------------------------
(* Properties *)

(* Every time a run is put in the queue it is claimed at most once: however  *)
(* workers, late status writes and resumes interleave, claims never outrun   *)
(* the enqueue and the requeues (claim_next_run's FOR UPDATE SKIP LOCKED).   *)
ClaimedOncePerQueueing ==
    \A r \in Runs : claims[r] + (IF status[r] = "queued" THEN 1 ELSE 0) <= requeues[r]

(* Somebody who will write the run's status has custody of the claim.        *)
Custody(a) ==
    \/ \E w \in Workers : worker[w].at = a /\ worker[w].pc \in {"claimed", "errWrite"}
    \/ exec[a].pc \in OwingPc
    \/ exec[a].pc = "ended" /\ exec[a].out \in Settled
    \/ exec[a].pc \in {"rejected", "dead"} /\ Watched(a)

(* A run that says 'running' is in somebody's custody, worker or runtime, or *)
(* its claim was dropped by one of the failures the code does not observe: a *)
(* broken stream or a runtime crash a worker is watching is never one.       *)
RunningInCustody ==
    \A r \in Runs :
        status[r] = "running" => dropped[<<r, claims[r]>>] \/ Custody(<<r, claims[r]>>)

(* A VM is terminated only after an execution of its run ended in success or *)
(* error: a run that has only handed back to a human keeps its VM.           *)
TerminatedOnlyAfterOutcome ==
    \A a \in Attempts :
        vm[a] = "terminated" =>
            \E b \in Attempts : /\ RunOf(b) = RunOf(a)
                                /\ exec[b].pc = "done"
                                /\ exec[b].out \in Settled

Quiet(r) ==
    /\ \A w \in Workers : worker[w].at # NoAttempt => RunOf(worker[w].at) # r
    /\ \A a \in Attempts : RunOf(a) = r => exec[a].pc \in {"none", "done", "rejected", "dead"}
    /\ \A rt \in Runtimes : resume[rt] # r

(* Without failures a run that succeeded and that nobody works on any more   *)
(* has left no VM running, however often it was handed back and resumed.     *)
NoVmLeftAfterSuccess ==
    \A r \in Runs :
        (faults = 0 /\ status[r] = "success" /\ Quiet(r)) =>
            \A a \in Attempts : RunOf(a) = r => vm[a] # "running"

(* The queue the workers see: RunLifecycle implements RunQueue.              *)
Queue == INSTANCE RunQueue WITH offered <- Queued, handed <- claims
QueueSpec == Queue!Spec

(* A running run eventually gets another status.                             *)
RunningSettles == \A r \in Runs : status[r] = "running" ~> status[r] # "running"

(* A resume puts a run back in the queue only while it waits for a human:    *)
(* the handler refuses a run that "is not in 'attention' status".            *)
RequeuedFromAttention ==
    [][\A r \in Runs : (status[r] \notin {"none", "queued"} /\ status'[r] = "queued")
                          => status[r] = "attention"]_vars
=============================================================================
