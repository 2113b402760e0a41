---------------------------- MODULE Orchestrator ----------------------------
(***************************************************************************)
(* What one run remembers across its executions.  An execution plans one    *)
(* step at a time and hands it to an agent; when the computer-use agent     *)
(* hands back, it leaves a snapshot of plan and results in the run's        *)
(* agent_states, a resume handler finishes the step and adds its result     *)
(* there, and the next execution rebuilds its state from the document.      *)
(* Which process does what, and who holds the VM, is RunLifecycle's; this   *)
(* module opens up the document both sides write.                           *)
(***************************************************************************)
EXTENDS Integers, Sequences

CONSTANTS Executions,   \* slots for executions of the run
          Resumers,     \* processes that may serve a resume of the run
          MaxSteps,     \* budget.max_steps
          MaxClaims,    \* bound: how often the run is claimed
          MaxResumes,   \* bound: how often a resume is accepted
          Faults,       \* the kinds of failure that may happen
          MaxFaults     \* bound: how many of them happen

FaultKinds == {"unreadable", "unmerged", "mcpUnread", "snapshotLost", "markLost",
               "mergeLost", "statusLost"}

ASSUME OrchestratorAssumption ==
    /\ MaxSteps \in Nat
    /\ MaxClaims \in Nat
    /\ MaxResumes \in Nat
    /\ Faults \subseteq FaultKinds
    /\ MaxFaults \in Nat

VARIABLES
    status,     \* workflow_runs.status
    doc,        \* workflow_runs.agent_states
    exec,       \* the orchestrator of each execution: where it is, its RunState
    resumer,    \* each resume handler: where it is and what it read
    issued,     \* how many steps were planned in all executions
    ran,        \* steps an agent carried to their end
    mcpSaved,   \* the MCP step whose state was merged into the document last
    excuses,    \* what happened that may cost the run its memory
    used        \* bounds: claims, resumes and failures so far

vars == <<status, doc, exec, resumer, issued, ran, mcpSaved, excuses, used>>

Steps == Nat \ {0}     \* step ids count from 1
NoStep == 0
Extra == -1            \* resume-<run_id>, for which nothing was planned
StepIds == Steps \cup {Extra}

\* The orchestrator part of the document; it may be missing.
OrchState == [known: BOOLEAN, plan: Seq(Steps), results: Seq(StepIds)]
Unknown == [known |-> FALSE, plan |-> <<>>, results |-> <<>>]

\* agent_states: orchestrator, agents.computer_use (the step that handed back and
\* resume.step_result), agents.orchestrator.last_resume_step, agents.mcp (the step
\* whose task, history, logs and result it holds; raw outputs are keyed by the tool,
\* so those of earlier steps may lie beside them and are left out).
Document == [orch: OrchState, asked: Steps \cup {NoStep}, resume: StepIds \cup {NoStep},
             last: StepIds \cup {NoStep}, mcp: Steps \cup {NoStep}]

EmptyDoc == [orch |-> Unknown, asked |-> NoStep, resume |-> NoStep, last |-> NoStep,
             mcp |-> NoStep]

\* Attempts at one decision of the planner that failed.
Attempts == 0..2

ExecState == [pc: {"idle", "load", "plan", "mcp", "computer_use", "snapshot", "mark", "tail"},
              plan: Seq(Steps), results: Seq(StepIds), tries: Attempts,
              seen: Steps \cup {NoStep}, outcome: {"none", "success", "error"}]

ResumeState == [pc: {"idle", "agent", "snapshot", "mark", "merge", "mergeOrch", "mergeLast",
                     "requeue"},
                orch: OrchState, asked: Steps \cup {NoStep}, seen: Document]

IdleExec == [pc |-> "idle", plan |-> <<>>, results |-> <<>>, tries |-> 0,
             seen |-> NoStep, outcome |-> "none"]
IdleResume == [pc |-> "idle", orch |-> Unknown, asked |-> NoStep, seen |-> EmptyDoc]

TypeOK ==
    /\ status \in {"queued", "running", "attention", "success", "error"}
    /\ doc \in Document
    /\ exec \in [Executions -> ExecState]
    /\ resumer \in [Resumers -> ResumeState]
    /\ issued \in Nat
    /\ ran \subseteq Steps
    /\ mcpSaved \in Steps \cup {NoStep}
    /\ excuses \subseteq {"unreadable", "unmerged", "mcpUnread", "overlap"}
    /\ used \in [claims: 0..MaxClaims, resumes: 0..MaxResumes, faults: 0..MaxFaults]

Init ==
    /\ status = "queued"
    /\ doc = EmptyDoc
    /\ exec = [e \in Executions |-> IdleExec]
    /\ resumer = [p \in Resumers |-> IdleResume]
    /\ issued = 0
    /\ ran = {}
    /\ mcpSaved = NoStep
    /\ excuses = {}
    /\ used = [claims |-> 0, resumes |-> 0, faults |-> 0]

-----------------------------------------------------------------------------
(* Helpers *)

Ids(s) == {s[i] : i \in 1..Len(s)}

\* Positions of planned steps that have no result.
Open(orch) == {i \in 1..Len(orch.plan) : orch.plan[i] \notin Ids(orch.results)}

\* The first of them, if there is one.
FirstOpen(orch) == {i \in Open(orch) : \A j \in Open(orch) : i <= j}

\* The step a resume finishes: the first planned one without a result, or a new
\* one when every planned step has its result.
ResumedStep(orch) ==
    IF FirstOpen(orch) = {} THEN Extra
    ELSE orch.plan[CHOOSE i \in FirstOpen(orch) : TRUE]

\* Mutant: as if only last_resume_step were looked at.
ResumeResultLast(d) == d.last

\* The result a rebuilt state gets from the resume: last_resume_step, or the one
\* under agents.computer_use when that is missing.
ResumeResult(d) == IF d.last # NoStep THEN d.last ELSE d.resume

\* Mutant: as if the resume's result were appended unseen.
WithResultAgain(results, s) == IF s = NoStep THEN results ELSE Append(results, s)

\* _append_resume_result leaves out a step that has a result already.
WithResult(results, s) ==
    IF s = NoStep \/ s \in Ids(results) THEN results ELSE Append(results, s)

Rehydrated(d) ==
    IF d.orch.known
    THEN [IdleExec EXCEPT !.pc = "plan", !.plan = d.orch.plan,
                          !.results = WithResult(d.orch.results, ResumeResult(d))]
    ELSE [IdleExec EXCEPT !.pc = "plan"]

\* Mutant: as if the state of the MCP agent were not carried over.
HandbackDocBare(orch, s, mcp) == [EmptyDoc EXCEPT !.orch = orch, !.asked = s]

\* The document a handback leaves: everything it does not name is gone.
HandbackDoc(orch, s, mcp) ==
    [EmptyDoc EXCEPT !.orch = orch, !.asked = s, !.mcp = mcp]

Busy == (\E e \in Executions : exec[e].pc # "idle") \/ (\E p \in Resumers : resumer[p].pc # "idle")

NoteOverlap == excuses' = IF Busy THEN excuses \cup {"overlap"} ELSE excuses

Fault(kind) ==
    /\ kind \in Faults
    /\ used.faults < MaxFaults
    /\ used' = [used EXCEPT !.faults = @ + 1]

\* The step an agent of execution e is working on: the last one planned.
Current(e) == exec[e].plan[Len(exec[e].plan)]

\* Mutant: as if the state were serialised before the step is added to the plan.
SerialisedEarly(e) ==
    [known |-> TRUE, plan |-> SubSeq(exec[e].plan, 1, Len(exec[e].plan) - 1),
     results |-> exec[e].results]

\* RunState.to_dict() as it is serialised when a step is dispatched.
Serialised(e) == [known |-> TRUE, plan |-> exec[e].plan, results |-> exec[e].results]

\* An agent of e returns and its result is recorded.
Record(e) ==
    /\ exec' = [exec EXCEPT ![e].pc = "plan", ![e].results = Append(@, Current(e))]
    /\ ran' = ran \cup {Current(e)}

-----------------------------------------------------------------------------
(* An execution *)

\* A worker claims the run and its runtime starts the orchestrator.
Claim(e) ==
    /\ status = "queued"
    /\ exec[e].pc = "idle"
    /\ used.claims < MaxClaims
    /\ used' = [used EXCEPT !.claims = @ + 1]
    /\ status' = "running"
    /\ exec' = [exec EXCEPT ![e] = [IdleExec EXCEPT !.pc = "load"]]
    /\ NoteOverlap
    /\ UNCHANGED <<doc, resumer, issued, ran, mcpSaved>>

\* The RunState is rebuilt from the document.
Load(e) ==
    /\ exec[e].pc = "load"
    /\ exec' = [exec EXCEPT ![e] = Rehydrated(doc)]
    /\ UNCHANGED <<status, doc, resumer, issued, ran, mcpSaved, excuses, used>>

\* The document cannot be read: the run starts from nothing.
LoadUnreadable(e) ==
    /\ Fault("unreadable")
    /\ exec[e].pc = "load"
    /\ exec' = [exec EXCEPT ![e] = Rehydrated(EmptyDoc)]
    /\ excuses' = excuses \cup {"unreadable"}
    /\ UNCHANGED <<status, doc, resumer, issued, ran, mcpSaved>>

WithinLimits(e) == Len(exec[e].results) < MaxSteps

\* The loop ends; what it ends with becomes the status of the run.
End(e, outcome) ==
    /\ exec' = [exec EXCEPT ![e].pc = "tail", ![e].outcome = outcome]
    /\ UNCHANGED <<status, doc, resumer, issued, ran, mcpSaved, excuses, used>>

LimitReached(e) == exec[e].pc = "plan" /\ ~WithinLimits(e) /\ End(e, "success")

PlannerStops(e) ==
    /\ exec[e].pc = "plan"
    /\ WithinLimits(e)
    /\ \E outcome \in {"success", "error"} : End(e, outcome)

\* Mutant: as if there were four attempts.
PlannerErrsAgain(e) ==
    /\ exec[e].pc = "plan"
    /\ WithinLimits(e)
    /\ \/ /\ exec[e].tries < 3
          /\ exec' = [exec EXCEPT ![e].tries = @ + 1]
          /\ UNCHANGED <<status, doc, resumer, issued, ran, mcpSaved, excuses, used>>
       \/ /\ exec[e].tries >= 3
          /\ End(e, "error")

\* Mutant: as if the attempts were counted afresh after the last one.
PlannerErrsForever(e) ==
    /\ exec[e].pc = "plan"
    /\ WithinLimits(e)
    /\ exec' = [exec EXCEPT ![e].tries = (@ + 1) % 3]
    /\ UNCHANGED <<status, doc, resumer, issued, ran, mcpSaved, excuses, used>>

\* The planner's answer is no JSON (three attempts), or the call fails or the answer
\* is not a decision (a second attempt only after the first one).
PlannerErrs(e) ==
    /\ exec[e].pc = "plan"
    /\ WithinLimits(e)
    /\ \E attempts \in {2, 3} :
          \/ /\ exec[e].tries + 1 < attempts
             /\ exec' = [exec EXCEPT ![e].tries = @ + 1]
             /\ UNCHANGED <<status, doc, resumer, issued, ran, mcpSaved, excuses, used>>
          \/ /\ exec[e].tries + 1 >= attempts
             /\ End(e, "error")

\* The planner names the next step and it is dispatched to an agent.
Dispatch(e, target) ==
    /\ exec[e].pc = "plan"
    /\ WithinLimits(e)
    /\ issued' = issued + 1
    /\ exec' = [exec EXCEPT ![e].pc = target, ![e].tries = 0,
                            ![e].plan = Append(@, issued + 1)]
    /\ UNCHANGED <<status, doc, resumer, ran, mcpSaved, excuses, used>>

\* The MCP agent returns and its state is merged under the row lock, at the one
\* place there is for it: the merge replaces lists and scalars, so the state of an
\* earlier MCP step is gone.
McpDone(e) ==
    /\ exec[e].pc = "mcp"
    /\ Record(e)
    /\ doc' = [doc EXCEPT !.mcp = Current(e)]
    /\ mcpSaved' = Current(e)
    /\ UNCHANGED <<status, resumer, issued, excuses, used>>

\* It raised, or the merge did: the step has a result all the same.
McpUnsaved(e) ==
    /\ exec[e].pc = "mcp"
    /\ Record(e)
    /\ UNCHANGED <<status, doc, resumer, issued, mcpSaved, excuses, used>>

\* The computer-use agent returns, failed or not.
ComputerUseDone(e) ==
    /\ exec[e].pc = "computer_use"
    /\ Record(e)
    /\ UNCHANGED <<status, doc, resumer, issued, mcpSaved, excuses, used>>

\* It hands back and reads the document for what others have there.
HandBack(e) ==
    /\ exec[e].pc = "computer_use"
    /\ exec' = [exec EXCEPT ![e].pc = "snapshot", ![e].seen = doc.mcp]
    /\ UNCHANGED <<status, doc, resumer, issued, ran, mcpSaved, excuses, used>>

HandBackUnread(e) ==
    /\ Fault("mcpUnread")
    /\ exec[e].pc = "computer_use"
    /\ exec' = [exec EXCEPT ![e].pc = "snapshot"]
    /\ excuses' = excuses \cup {"mcpUnread"}
    /\ UNCHANGED <<status, doc, resumer, issued, ran, mcpSaved>>

\* update_agent_states replaces the document.
Snapshot(e) ==
    /\ exec[e].pc = "snapshot"
    /\ doc' = HandbackDoc(Serialised(e), Current(e), exec[e].seen)
    /\ exec' = [exec EXCEPT ![e].pc = "mark"]
    /\ UNCHANGED <<status, resumer, issued, ran, mcpSaved, excuses, used>>

\* mark_run_attention; the loop has nothing left to do and nothing to write.
Mark(e) ==
    /\ exec[e].pc = "mark"
    /\ status' = "attention"
    /\ exec' = [exec EXCEPT ![e] = IdleExec]
    /\ UNCHANGED <<doc, resumer, issued, ran, mcpSaved, excuses, used>>

\* Either write fails: the error is logged and the run goes on saying `running`.
HandBackLost(e) ==
    /\ \/ exec[e].pc = "snapshot" /\ Fault("snapshotLost")
       \/ exec[e].pc = "mark" /\ Fault("markLost")
    /\ exec' = [exec EXCEPT ![e] = IdleExec]
    /\ UNCHANGED <<status, doc, resumer, issued, ran, mcpSaved, excuses>>

WriteStatus(e) ==
    /\ exec[e].pc = "tail"
    /\ status' = exec[e].outcome
    /\ exec' = [exec EXCEPT ![e] = IdleExec]
    /\ UNCHANGED <<doc, resumer, issued, ran, mcpSaved, excuses, used>>

StatusLost(e) ==
    /\ Fault("statusLost")
    /\ exec[e].pc = "tail"
    /\ exec' = [exec EXCEPT ![e] = IdleExec]
    /\ UNCHANGED <<status, doc, resumer, issued, ran, mcpSaved, excuses>>

-----------------------------------------------------------------------------
(* A resume *)

ResumeTo(p, pc) == resumer' = [resumer EXCEPT ![p].pc = pc]

\* The handler checks the status and reads the document.
ResumeBegin(p) ==
    /\ status = "attention"
    /\ resumer[p].pc = "idle"
    /\ used.resumes < MaxResumes
    /\ used' = [used EXCEPT !.resumes = @ + 1]
    /\ resumer' = [resumer EXCEPT ![p] = [IdleResume EXCEPT
                        !.pc = "agent", !.orch = doc.orch, !.asked = doc.asked]]
    /\ NoteOverlap
    /\ UNCHANGED <<status, doc, exec, issued, ran, mcpSaved>>

\* The resumed agent ends, whichever way, and its trajectory is translated.
ResumeDone(p) ==
    /\ resumer[p].pc = "agent"
    /\ ResumeTo(p, "merge")
    /\ ran' = ran \cup {resumer[p].asked}
    /\ UNCHANGED <<status, doc, exec, issued, mcpSaved, excuses, used>>

\* The resumed agent hands back again, inside the handler.
ResumeHandsBack(p) ==
    /\ resumer[p].pc = "agent"
    /\ resumer' = [resumer EXCEPT ![p].pc = "snapshot", ![p].seen = doc]
    /\ UNCHANGED <<status, doc, exec, issued, ran, mcpSaved, excuses, used>>

ResumeHandsBackUnread(p) ==
    /\ Fault("mcpUnread")
    /\ resumer[p].pc = "agent"
    /\ ResumeTo(p, "snapshot")
    /\ excuses' = excuses \cup {"mcpUnread"}
    /\ UNCHANGED <<status, doc, exec, issued, ran, mcpSaved>>

ResumeSnapshot(p) ==
    /\ resumer[p].pc = "snapshot"
    /\ LET read == resumer[p]
           orch == IF read.orch.known THEN read.orch ELSE read.seen.orch
       IN  doc' = HandbackDoc(orch, read.asked, read.seen.mcp)
    /\ ResumeTo(p, "mark")
    /\ UNCHANGED <<status, exec, issued, ran, mcpSaved, excuses, used>>

\* The handler does not look at how its agent ended: the step counts as done.
ResumeMark(p) ==
    /\ resumer[p].pc = "mark"
    /\ status' = "attention"
    /\ ResumeTo(p, "merge")
    /\ ran' = ran \cup {resumer[p].asked}
    /\ UNCHANGED <<doc, exec, issued, mcpSaved, excuses, used>>

ResumeHandBackLost(p) ==
    /\ \/ resumer[p].pc = "snapshot" /\ Fault("snapshotLost")
       \/ resumer[p].pc = "mark" /\ Fault("markLost")
    /\ ResumeTo(p, "merge")
    /\ ran' = ran \cup {resumer[p].asked}
    /\ UNCHANGED <<status, doc, exec, issued, mcpSaved, excuses>>

\* Three merges in a row: the artifacts with the step's result, the orchestrator
\* state with the result added, and last_resume_step.
MergeResume(p) ==
    /\ resumer[p].pc = "merge"
    /\ doc' = [doc EXCEPT !.resume = ResumedStep(resumer[p].orch)]
    /\ ResumeTo(p, "mergeOrch")
    /\ UNCHANGED <<status, exec, issued, ran, mcpSaved, excuses, used>>

MergeOrch(p) ==
    /\ resumer[p].pc = "mergeOrch"
    /\ LET orch == resumer[p].orch
       IN  doc' = [doc EXCEPT !.orch =
                     [known |-> TRUE, plan |-> orch.plan,
                      results |-> Append(orch.results, ResumedStep(orch))]]
    /\ ResumeTo(p, "mergeLast")
    /\ UNCHANGED <<status, exec, issued, ran, mcpSaved, excuses, used>>

MergeLast(p) ==
    /\ resumer[p].pc = "mergeLast"
    /\ doc' = [doc EXCEPT !.last = ResumedStep(resumer[p].orch)]
    /\ ResumeTo(p, "requeue")
    /\ UNCHANGED <<status, exec, issued, ran, mcpSaved, excuses, used>>

\* A merge fails and those after it are skipped.  Only the loss of the first one
\* leaves the result nowhere.
MergeFails(p) ==
    /\ \/ /\ resumer[p].pc = "merge"
          /\ Fault("unmerged")
          /\ excuses' = excuses \cup {"unmerged"}
       \/ /\ resumer[p].pc \in {"mergeOrch", "mergeLast"}
          /\ Fault("mergeLost")
          /\ UNCHANGED excuses
    /\ ResumeTo(p, "requeue")
    /\ UNCHANGED <<status, doc, exec, issued, ran, mcpSaved>>

Requeue(p) ==
    /\ resumer[p].pc = "requeue"
    /\ status' = "queued"
    /\ resumer' = [resumer EXCEPT ![p] = IdleResume]
    /\ UNCHANGED <<doc, exec, issued, ran, mcpSaved, excuses, used>>

RequeueLost(p) ==
    /\ Fault("statusLost")
    /\ resumer[p].pc = "requeue"
    /\ resumer' = [resumer EXCEPT ![p] = IdleResume]
    /\ UNCHANGED <<status, doc, exec, issued, ran, mcpSaved, excuses>>

-----------------------------------------------------------------------------
ExecStep(e) ==
    \/ Load(e) \/ LimitReached(e) \/ PlannerStops(e) \/ PlannerErrs(e)
    \/ \E target \in {"mcp", "computer_use"} : Dispatch(e, target)
    \/ McpDone(e) \/ McpUnsaved(e) \/ ComputerUseDone(e)
    \/ HandBack(e) \/ Snapshot(e) \/ Mark(e) \/ WriteStatus(e)

ExecFault(e) == LoadUnreadable(e) \/ HandBackUnread(e) \/ HandBackLost(e) \/ StatusLost(e)

ResumeStep(p) ==
    \/ ResumeDone(p) \/ ResumeHandsBack(p) \/ ResumeSnapshot(p) \/ ResumeMark(p)
    \/ MergeResume(p) \/ MergeOrch(p) \/ MergeLast(p) \/ Requeue(p)

ResumeFault(p) ==
    ResumeHandsBackUnread(p) \/ ResumeHandBackLost(p) \/ MergeFails(p) \/ RequeueLost(p)

Next ==
    \/ \E e \in Executions : Claim(e) \/ ExecStep(e) \/ ExecFault(e)
    \/ \E p \in Resumers : ResumeBegin(p) \/ ResumeStep(p) \/ ResumeFault(p)

Spec == Init /\ [][Next]_vars

(* Planner, agents and handlers return: each has its own limits and timeouts. *)
(* Nobody is obliged to claim the run or to answer a handback.                *)
Fairness ==
    /\ \A e \in Executions : WF_vars(ExecStep(e))
    /\ \A p \in Resumers : WF_vars(ResumeStep(p))

FairSpec == Spec /\ Fairness

-----------------------------------------------------------------------------
(* Properties *)

Forgetful == excuses \cap {"unreadable", "unmerged", "overlap"} # {}

(* When the planner is asked for the next step, the results of all the steps  *)
(* that agents finished before, in this execution, in earlier ones and in     *)
(* resumes, are in front of it: only an unreadable document, a lost merge of  *)
(* the resume's result or two sessions of the run at once can cost it one.    *)
WorkSurvives ==
    ~Forgetful => \A e \in Executions : exec[e].pc = "plan" => ran \subseteq Ids(exec[e].results)

(* No step has two results, whatever fails and however sessions overlap; the  *)
(* result of a resume may reach the state along three ways.                   *)
OneResultPerStep ==
    \A e \in Executions : \A i, j \in 1..Len(exec[e].results) :
        (exec[e].results[i] = exec[e].results[j] /\ i # j) => exec[e].results[i] = Extra

(* A resume credits the step whose agent asked the question, unless that step *)
(* has its result already (the handler is called again after its status write *)
(* was lost).                                                                 *)
AnsweredAsAsked ==
    excuses \cap {"unmerged", "overlap"} = {} => \A p \in Resumers :
        resumer[p].pc # "idle" =>
            \/ ResumedStep(resumer[p].orch) = resumer[p].asked
            \/ resumer[p].asked \in Ids(resumer[p].orch.results)

(* The document holds the state of the MCP step that was merged last: the      *)
(* snapshots of handbacks, which replace all of it after an unlocked read,    *)
(* neither drop it nor bring an earlier one back.                             *)
McpStateKept == excuses \cap {"mcpUnread", "overlap"} = {} => doc.mcp = mcpSaved

(* Every execution and every resume comes to its end.                         *)
SessionsEnd == Busy ~> ~Busy
=============================================================================
