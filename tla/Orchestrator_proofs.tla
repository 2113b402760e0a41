------------------------- MODULE Orchestrator_proofs -------------------------
(***************************************************************************)
(* Proofs about Orchestrator, for any number of executions, resumes, steps  *)
(* and failures.                                                            *)
(***************************************************************************)
EXTENDS Orchestrator, TLAPS

-----------------------------------------------------------------------------
(* Sequences of steps *)

(* Appending adds one id.                                                    *)
LEMMA IdsAppend ==
    ASSUME NEW S, NEW s \in Seq(S), NEW x \in S
    PROVE  /\ Append(s, x) \in Seq(S)
           /\ Len(Append(s, x)) = Len(s) + 1
           /\ Append(s, x)[Len(s) + 1] = x
           /\ \A i \in 1..Len(s) : Append(s, x)[i] = s[i]
           /\ Ids(Append(s, x)) = Ids(s) \cup {x}
<1>1. /\ Append(s, x) \in Seq(S)
      /\ Len(Append(s, x)) = Len(s) + 1
      /\ Append(s, x)[Len(s) + 1] = x
      /\ \A i \in 1..Len(s) : Append(s, x)[i] = s[i]
      /\ Len(s) \in Nat
  OBVIOUS
<1>2. 1..(Len(s) + 1) = 1..Len(s) \cup {Len(s) + 1}
  BY <1>1
<1> QED
  BY <1>1, <1>2, Zenon DEF Ids

(* Ids are of the kind the sequence is of.                                   *)
LEMMA IdsType ==
    ASSUME NEW S, NEW s \in Seq(S)
    PROVE  Ids(s) \subseteq S
  BY DEF Ids

(* The step a resume finishes is a planned one without a result, or Extra.   *)
LEMMA ResumedStepType ==
    ASSUME NEW orch \in OrchState
    PROVE  /\ ResumedStep(orch) \in StepIds
           /\ \/ ResumedStep(orch) = Extra
              \/ /\ ResumedStep(orch) \in Ids(orch.plan)
                 /\ ResumedStep(orch) \notin Ids(orch.results)
<1> DEFINE i == CHOOSE i \in FirstOpen(orch) : TRUE
<1>1. CASE FirstOpen(orch) = {}
  BY <1>1 DEF ResumedStep, StepIds
<1>2. CASE FirstOpen(orch) # {}
  <2>1. i \in Open(orch)
    BY <1>2 DEF FirstOpen
  <2>2. i \in 1..Len(orch.plan) /\ orch.plan[i] \notin Ids(orch.results)
    BY <2>1 DEF Open
  <2>3. ResumedStep(orch) = orch.plan[i]
    BY <1>2 DEF ResumedStep
  <2>4. orch.plan[i] \in Ids(orch.plan)
    BY <2>2, Zenon DEF Ids
  <2>5. orch.plan[i] \in Steps
    BY <2>2 DEF OrchState
  <2> HIDE DEF i
  <2> QED
    BY <2>2, <2>3, <2>4, <2>5 DEF StepIds
<1> QED
  BY <1>1, <1>2

(* The result of a resume is added at most once.                             *)
LEMMA WithResultType ==
    ASSUME NEW results \in Seq(StepIds), NEW s \in StepIds \cup {NoStep}
    PROVE  /\ WithResult(results, s) \in Seq(StepIds)
           /\ Ids(results) \subseteq Ids(WithResult(results, s))
           /\ Ids(WithResult(results, s)) \subseteq Ids(results) \cup ({s} \ {NoStep})
           /\ s # NoStep => s \in Ids(WithResult(results, s))
<1>1. CASE s = NoStep \/ s \in Ids(results)
  BY <1>1 DEF WithResult
<1>2. CASE ~(s = NoStep \/ s \in Ids(results))
  BY <1>2, IdsAppend DEF WithResult
<1> QED
  BY <1>1, <1>2

-----------------------------------------------------------------------------
(* Type correctness *)

(* The idle states and the empty document are well typed.                    *)
LEMMA EmptyType ==
    /\ <<>> \in Seq(Steps) /\ <<>> \in Seq(StepIds)
    /\ Unknown \in OrchState
    /\ EmptyDoc \in Document
    /\ IdleExec \in ExecState
    /\ IdleResume \in ResumeState
  BY DEF Unknown, OrchState, EmptyDoc, Document, IdleExec, ExecState,
         IdleResume, ResumeState, Attempts

(* The initial state is well typed.                                          *)
LEMMA TypeInit == Init => TypeOK
<1> SUFFICES ASSUME Init PROVE TypeOK
  OBVIOUS
<1>1. used \in [claims: 0..MaxClaims, resumes: 0..MaxResumes, faults: 0..MaxFaults]
  BY OrchestratorAssumption DEF Init
<1> QED
  BY <1>1, EmptyType DEF Init, TypeOK

(* A rebuilt state is well typed, and knows what the document tells.         *)
LEMMA RehydratedType ==
    ASSUME NEW d \in Document
    PROVE  Rehydrated(d) \in ExecState
<1>1. ResumeResult(d) \in StepIds \cup {NoStep}
  BY DEF ResumeResult, Document
<1>2. d.orch.plan \in Seq(Steps) /\ d.orch.results \in Seq(StepIds)
  BY DEF Document, OrchState
<1>3. WithResult(d.orch.results, ResumeResult(d)) \in Seq(StepIds)
  BY <1>1, <1>2, WithResultType
<1> DEFINE results == WithResult(d.orch.results, ResumeResult(d))
<1>4. Rehydrated(d) = IF d.orch.known
         THEN [IdleExec EXCEPT !.pc = "plan", !.plan = d.orch.plan,
                               !.results = results]
         ELSE [IdleExec EXCEPT !.pc = "plan"]
  BY DEF Rehydrated
<1> HIDE DEF results
<1>5. IdleExec \in ExecState
  BY EmptyType
<1>6. [IdleExec EXCEPT !.pc = "plan"] \in ExecState
  BY <1>5 DEF ExecState
<1>7. [IdleExec EXCEPT !.pc = "plan", !.plan = d.orch.plan,
                       !.results = results] \in ExecState
  BY <1>2, <1>3, <1>5 DEF ExecState, results
<1> QED
  BY <1>4, <1>6, <1>7

(* The document a handback leaves is well typed.                             *)
LEMMA HandbackType ==
    ASSUME NEW orch \in OrchState, NEW s \in Steps \cup {NoStep},
           NEW mcp \in Steps \cup {NoStep}
    PROVE  HandbackDoc(orch, s, mcp) \in Document
  BY DEF HandbackDoc, EmptyDoc, Document

(* Counting a failure, a claim or a resume stays within the bounds.          *)
LEMMA FaultType ==
    ASSUME TypeOK, NEW kind, Fault(kind)
    PROVE  used' \in [claims: 0..MaxClaims, resumes: 0..MaxResumes, faults: 0..MaxFaults]
<1> DEFINE n == used.faults + 1
<1>1. n \in 0..MaxFaults
  BY OrchestratorAssumption DEF TypeOK, Fault
<1>0. used \in [claims: 0..MaxClaims, resumes: 0..MaxResumes, faults: 0..MaxFaults]
  BY DEF TypeOK
<1>2. used' = [used EXCEPT !.faults = n]
  BY DEF Fault
<1> DEFINE C == 0..MaxClaims
           R == 0..MaxResumes
           F == 0..MaxFaults
<1> HIDE DEF n, C, R, F
<1>3. used \in [claims: C, resumes: R, faults: F] /\ n \in F
  BY <1>0, <1>1 DEF C, R, F
<1>4. used' \in [claims: C, resumes: R, faults: F]
  BY <1>2, <1>3
<1> QED
  BY <1>4 DEF C, R, F

(* A step of an execution changes its own state only.                        *)
LEMMA ExecType ==
    ASSUME exec \in [Executions -> ExecState], NEW e \in Executions,
           NEW x \in ExecState, exec' = [exec EXCEPT ![e] = x]
    PROVE  exec' \in [Executions -> ExecState]
  OBVIOUS

LEMMA ResumerType ==
    ASSUME resumer \in [Resumers -> ResumeState], NEW p \in Resumers,
           NEW x \in ResumeState, resumer' = [resumer EXCEPT ![p] = x]
    PROVE  resumer' \in [Resumers -> ResumeState]
  OBVIOUS

(* Going from one place to another keeps an execution, or a resume, typed.    *)
LEMMA ResumeToType ==
    ASSUME TypeOK, NEW p \in Resumers, NEW pc \in {"idle", "agent", "snapshot", "mark",
               "merge", "mergeOrch", "mergeLast", "requeue"},
           ResumeTo(p, pc)
    PROVE  resumer' \in [Resumers -> ResumeState]
  BY DEF TypeOK, ResumeTo, ResumeState

(* A step that is being worked on is the last of the plan.                   *)
LEMMA CurrentType ==
    ASSUME TypeOK, NEW e \in Executions, exec[e].plan # <<>>
    PROVE  /\ Current(e) \in Steps
           /\ Current(e) \in Ids(exec[e].plan)
<1>1. exec[e].plan \in Seq(Steps)
  BY DEF TypeOK, ExecState
<1>2. Len(exec[e].plan) \in 1..Len(exec[e].plan)
  BY <1>1
<1>3. exec[e].plan[Len(exec[e].plan)] \in Steps
  BY <1>1, <1>2
<1> QED
  BY <1>2, <1>3, Zenon DEF Current, Ids

\* An execution that has dispatched a step has a plan; one that has ended has an
\* outcome.
Working(e) == exec[e].pc \in {"mcp", "computer_use", "snapshot"}
PlanInv ==
    \A e \in Executions :
        /\ Working(e) => exec[e].plan # <<>>
        /\ exec[e].pc = "tail" => exec[e].outcome \in {"success", "error"}

(* Recording the result of a step keeps the types.                           *)
LEMMA RecordType ==
    ASSUME TypeOK, PlanInv, NEW e \in Executions, Working(e), Record(e)
    PROVE  /\ exec' \in [Executions -> ExecState]
           /\ ran' \subseteq Steps
<1>1. Current(e) \in Steps
  BY CurrentType DEF PlanInv
<1>2. exec[e].results \in Seq(StepIds)
  BY DEF TypeOK, ExecState
<1>3. Append(exec[e].results, Current(e)) \in Seq(StepIds)
  BY <1>1, <1>2 DEF StepIds
<1> DEFINE new == Append(exec[e].results, Current(e))
<1>4. exec' = [exec EXCEPT ![e].pc = "plan", ![e].results = new]
  BY DEF Record
<1> HIDE DEF new
<1>5. [exec[e] EXCEPT !.pc = "plan", !.results = new] \in ExecState
  BY <1>3 DEF TypeOK, ExecState, new
<1> QED
  BY <1>1, <1>4, <1>5 DEF TypeOK, Record


(* Going to another place keeps an execution typed.                          *)
LEMMA ExecMoveType ==
    ASSUME TypeOK, NEW e \in Executions,
           NEW pc \in {"idle", "load", "plan", "mcp", "computer_use", "snapshot",
                       "mark", "tail"}
    PROVE  [exec[e] EXCEPT !.pc = pc] \in ExecState
  BY DEF TypeOK, ExecState

(* So does one more attempt of the planner.                                  *)
LEMMA TriesType ==
    ASSUME NEW x \in ExecState, NEW n \in Attempts
    PROVE  [x EXCEPT !.tries = n] \in ExecState
  BY DEF ExecState

(* A step of an execution keeps the types.                                   *)
LEMMA TypeExec ==
    ASSUME TypeOK, PlanInv, NEW e \in Executions, ExecStep(e)
    PROVE  TypeOK'
<1> USE DEF TypeOK
<1>1. CASE Load(e)
  <2>1. Rehydrated(doc) \in ExecState
    BY RehydratedType
  <2> QED
    BY <1>1, <2>1, ExecType DEF Load
<1>2. ASSUME NEW outcome \in {"success", "error"}, End(e, outcome) PROVE TypeOK'
  <2>1. [exec[e] EXCEPT !.pc = "tail", !.outcome = outcome] \in ExecState
    BY DEF ExecState
  <2>2. exec' \in [Executions -> ExecState]
    BY <1>2, <2>1 DEF End
  <2> QED
    BY <1>2, <2>2 DEF End
<1>3. CASE PlannerErrs(e)
  <2>1. PICK attempts \in {2, 3} :
          \/ /\ exec[e].tries + 1 < attempts
             /\ exec' = [exec EXCEPT ![e].tries = @ + 1]
             /\ UNCHANGED <<status, doc, resumer, issued, ran, mcpSaved, excuses, used>>
          \/ /\ exec[e].tries + 1 >= attempts
             /\ End(e, "error")
    BY <1>3 DEF PlannerErrs
  <2>2. CASE End(e, "error")
    BY <1>2, <2>2
  <2>3. CASE /\ exec[e].tries + 1 < attempts
             /\ exec' = [exec EXCEPT ![e].tries = @ + 1]
             /\ UNCHANGED <<status, doc, resumer, issued, ran, mcpSaved, excuses, used>>
    <3> DEFINE n == exec[e].tries + 1
    <3>0. exec[e].tries \in Attempts
      BY DEF ExecState
    <3>1. n \in Attempts
      <4> DEFINE tries == exec[e].tries
      <4>1. tries \in Attempts /\ tries + 1 < attempts /\ attempts \in {2, 3}
        BY <2>3, <3>0
      <4> HIDE DEF tries
      <4>2. tries + 1 \in Attempts
        BY <4>1 DEF Attempts
      <4> QED
        BY <4>2 DEF tries
    <3>2. exec' = [exec EXCEPT ![e].tries = n]
      BY <2>3
    <3> HIDE DEF n
    <3>3. [exec[e] EXCEPT !.tries = n] \in ExecState
      BY <3>1, TriesType
    <3>4. exec' \in [Executions -> ExecState]
      BY <3>2, <3>3
    <3> QED
      BY <2>3, <3>4
  <2> QED
    BY <2>1, <2>2, <2>3
<1>4. ASSUME NEW target \in {"mcp", "computer_use"}, Dispatch(e, target)
      PROVE  TypeOK'
  <2> DEFINE new == Append(exec[e].plan, issued + 1)
  <2>1. issued + 1 \in Steps /\ issued' \in Nat
    BY <1>4 DEF Dispatch, Steps
  <2>2. exec[e].plan \in Seq(Steps)
    BY DEF ExecState
  <2>3. new \in Seq(Steps)
    BY <2>1, <2>2
  <2>4. exec' = [exec EXCEPT ![e].pc = target, ![e].tries = 0, ![e].plan = new]
    BY <1>4 DEF Dispatch
  <2> HIDE DEF new
  <2>0. 0 \in Attempts
    BY DEF Attempts
  <2>5. [exec[e] EXCEPT !.pc = target, !.tries = 0, !.plan = new] \in ExecState
    BY <2>0, <2>3 DEF ExecState
  <2>6. exec' \in [Executions -> ExecState]
    BY <2>4, <2>5
  <2> QED
    BY <1>4, <2>1, <2>6 DEF Dispatch
<1>5. CASE McpDone(e) \/ McpUnsaved(e) \/ ComputerUseDone(e)
  <2>1. Working(e) /\ Record(e)
    BY <1>5 DEF McpDone, McpUnsaved, ComputerUseDone, Working
  <2>2. exec' \in [Executions -> ExecState] /\ ran' \subseteq Steps
    BY <2>1, RecordType
  <2>3. Current(e) \in Steps
    BY <2>1, CurrentType DEF PlanInv
  <2>4. doc' \in Document /\ mcpSaved' \in Steps \cup {NoStep}
    BY <1>5, <2>3 DEF McpDone, McpUnsaved, ComputerUseDone, Document
  <2> QED
    BY <1>5, <2>2, <2>4 DEF McpDone, McpUnsaved, ComputerUseDone
<1>6. CASE HandBack(e)
  <2>1. doc.mcp \in Steps \cup {NoStep}
    BY DEF Document
  <2>2. [exec[e] EXCEPT !.pc = "snapshot", !.seen = doc.mcp] \in ExecState
    BY <2>1 DEF ExecState
  <2>3. exec' \in [Executions -> ExecState]
    BY <1>6, <2>2 DEF HandBack
  <2> QED
    BY <1>6, <2>3 DEF HandBack
<1>7. CASE Snapshot(e)
  <2>1. Serialised(e) \in OrchState /\ exec[e].seen \in Steps \cup {NoStep}
    BY DEF Serialised, OrchState, ExecState
  <2>2. Current(e) \in Steps
    BY <1>7, CurrentType DEF PlanInv, Snapshot, Working
  <2>3. doc' \in Document
    BY <1>7, <2>1, <2>2, HandbackType DEF Snapshot
  <2>4. exec' \in [Executions -> ExecState]
    BY <1>7, ExecMoveType DEF Snapshot
  <2> QED
    BY <1>7, <2>3, <2>4 DEF Snapshot
<1>8. CASE Mark(e)
  BY <1>8, EmptyType, ExecType DEF Mark
<1>9. CASE WriteStatus(e)
  <2>1. exec[e].outcome \in {"success", "error"}
    BY <1>9 DEF WriteStatus, PlanInv
  <2> QED
    BY <1>9, <2>1, EmptyType, ExecType DEF WriteStatus
<1> QED
  BY <1>1, <1>2, <1>3, <1>4, <1>5, <1>6, <1>7, <1>8, <1>9
  DEF ExecStep, LimitReached, PlannerStops

\* A run that waits for an answer says which step asked; so does a handler.
AskInv ==
    /\ \/ status = "attention"
       \/ \E e \in Executions : exec[e].pc = "mark"
       \/ \E p \in Resumers : resumer[p].pc # "idle"
       => doc.asked # NoStep
    /\ \A p \in Resumers : resumer[p].pc # "idle" => resumer[p].asked # NoStep

\* What a step of a resume may do to the counters and to the excuses.
ResumeFrame ==
    /\ UNCHANGED used \/ \E kind \in FaultKinds : Fault(kind)
    /\ excuses' \subseteq excuses \cup {"mcpUnread", "unmerged"}
    /\ UNCHANGED <<exec, issued, mcpSaved>>

(* Within that frame only the run's own fields remain to be typed.           *)
LEMMA ResumeFrameType ==
    ASSUME TypeOK, ResumeFrame, status' \in {status, "attention", "queued"},
           doc' \in Document, resumer' \in [Resumers -> ResumeState],
           ran' \subseteq Steps
    PROVE  TypeOK'
<1>1. used' \in [claims: 0..MaxClaims, resumes: 0..MaxResumes, faults: 0..MaxFaults]
  BY FaultType DEF ResumeFrame, TypeOK
<1> QED
  BY <1>1 DEF ResumeFrame, TypeOK

(* A step of a resume keeps the types.                                       *)
LEMMA TypeResume ==
    ASSUME TypeOK, AskInv, NEW p \in Resumers, ResumeStep(p) \/ ResumeFault(p)
    PROVE  TypeOK'
<1>0. /\ resumer[p].orch \in OrchState
      /\ resumer[p].asked \in Steps \cup {NoStep}
      /\ resumer[p].seen \in Document
      /\ ResumedStep(resumer[p].orch) \in StepIds
  BY ResumedStepType DEF TypeOK, ResumeState
<1>1. resumer[p].pc # "idle" => ran \cup {resumer[p].asked} \subseteq Steps
  BY <1>0 DEF TypeOK, AskInv
<1>2. CASE ResumeHandsBack(p)
  <2>1. [resumer[p] EXCEPT !.pc = "snapshot", !.seen = doc] \in ResumeState
    BY DEF TypeOK, ResumeState
  <2>2. resumer' \in [Resumers -> ResumeState]
    BY <1>2, <2>1, ResumerType DEF ResumeHandsBack, TypeOK
  <2> QED
    BY <1>2, <2>2, ResumeFrameType DEF ResumeHandsBack, ResumeFrame, TypeOK
<1>3. CASE ResumeSnapshot(p)
  <2> DEFINE orch == IF resumer[p].orch.known THEN resumer[p].orch
                     ELSE resumer[p].seen.orch
  <2>1. orch \in OrchState /\ resumer[p].seen.mcp \in Steps \cup {NoStep}
    BY <1>0 DEF Document
  <2>2. doc' = HandbackDoc(orch, resumer[p].asked, resumer[p].seen.mcp)
    BY <1>3 DEF ResumeSnapshot
  <2> HIDE DEF orch
  <2>3. doc' \in Document
    BY <1>0, <2>1, <2>2, HandbackType
  <2>4. resumer' \in [Resumers -> ResumeState]
    BY <1>3, ResumeToType DEF ResumeSnapshot
  <2> QED
    BY <1>3, <2>3, <2>4, ResumeFrameType DEF ResumeSnapshot, ResumeFrame, TypeOK
<1>4. CASE ResumeDone(p) \/ ResumeMark(p)
  <2>1. resumer' \in [Resumers -> ResumeState]
    BY <1>4, ResumeToType DEF ResumeDone, ResumeMark
  <2> QED
    BY <1>1, <1>4, <2>1, ResumeFrameType
    DEF ResumeDone, ResumeMark, ResumeFrame, TypeOK
<1>5. CASE ResumeHandsBackUnread(p) \/ ResumeHandBackLost(p) \/ MergeFails(p)
  <2>1. resumer' \in [Resumers -> ResumeState]
    BY <1>5, ResumeToType DEF ResumeHandsBackUnread, ResumeHandBackLost, MergeFails
  <2>2. ResumeFrame
    BY <1>5 DEF ResumeHandsBackUnread, ResumeHandBackLost, MergeFails,
                ResumeFrame, FaultKinds
  <2>3. ran' \subseteq Steps
    BY <1>1, <1>5 DEF ResumeHandsBackUnread, ResumeHandBackLost, MergeFails, TypeOK
  <2> QED
    BY <1>5, <2>1, <2>2, <2>3, ResumeFrameType
    DEF ResumeHandsBackUnread, ResumeHandBackLost, MergeFails, TypeOK
<1>6. CASE MergeResume(p) \/ MergeLast(p)
  <2>1. resumer' \in [Resumers -> ResumeState]
    BY <1>6, ResumeToType DEF MergeResume, MergeLast
  <2>2. doc' \in Document
    BY <1>0, <1>6 DEF MergeResume, MergeLast, Document, TypeOK
  <2> QED
    BY <1>6, <2>1, <2>2, ResumeFrameType
    DEF MergeResume, MergeLast, ResumeFrame, TypeOK
<1>7. CASE MergeOrch(p)
  <2> DEFINE orch == resumer[p].orch
             new == [known |-> TRUE, plan |-> orch.plan,
                     results |-> Append(orch.results, ResumedStep(orch))]
  <2>1. resumer' \in [Resumers -> ResumeState]
    BY <1>7, ResumeToType DEF MergeOrch
  <2>2. orch.plan \in Seq(Steps) /\ orch.results \in Seq(StepIds)
    BY <1>0 DEF OrchState
  <2>3. new \in OrchState
    BY <1>0, <2>2, IdsAppend DEF OrchState
  <2>4. doc' = [doc EXCEPT !.orch = new]
    BY <1>7 DEF MergeOrch
  <2> HIDE DEF new
  <2>5. doc' \in Document
    BY <2>3, <2>4 DEF Document, TypeOK
  <2> QED
    BY <1>7, <2>1, <2>5, ResumeFrameType DEF MergeOrch, ResumeFrame, TypeOK
<1>8. CASE Requeue(p) \/ RequeueLost(p)
  <2>1. resumer' \in [Resumers -> ResumeState]
    BY <1>8, EmptyType, ResumerType DEF Requeue, RequeueLost, TypeOK
  <2>2. ResumeFrame
    BY <1>8 DEF Requeue, RequeueLost, ResumeFrame, FaultKinds
  <2> QED
    BY <1>8, <2>1, <2>2, ResumeFrameType DEF Requeue, RequeueLost, TypeOK
<1> QED
  BY <1>2, <1>3, <1>4, <1>5, <1>6, <1>7, <1>8 DEF ResumeStep, ResumeFault

(* Every step keeps the types.                                               *)
LEMMA TypeNext == TypeOK /\ PlanInv /\ AskInv /\ [Next]_vars => TypeOK'
<1> SUFFICES ASSUME TypeOK, PlanInv, AskInv, [Next]_vars PROVE TypeOK'
  OBVIOUS
<1>1. ASSUME NEW e \in Executions, Claim(e) PROVE TypeOK'
  <2> DEFINE n == used.claims + 1
  <2>1. n \in 0..MaxClaims
    BY <1>1, OrchestratorAssumption DEF Claim, TypeOK
  <2>2. used' = [used EXCEPT !.claims = n]
    BY <1>1 DEF Claim
  <2> HIDE DEF n
  <2>3. used' \in [claims: 0..MaxClaims, resumes: 0..MaxResumes, faults: 0..MaxFaults]
    BY <2>1, <2>2 DEF TypeOK
  <2>4. [IdleExec EXCEPT !.pc = "load"] \in ExecState
    BY EmptyType DEF ExecState
  <2>5. exec' \in [Executions -> ExecState]
    BY <1>1, <2>4, ExecType DEF Claim, TypeOK
  <2> QED
    BY <1>1, <2>3, <2>5 DEF Claim, NoteOverlap, TypeOK
<1>2. ASSUME NEW e \in Executions, ExecFault(e) PROVE TypeOK'
  <2>1. used' \in [claims: 0..MaxClaims, resumes: 0..MaxResumes, faults: 0..MaxFaults]
    BY <1>2, FaultType DEF ExecFault, LoadUnreadable, HandBackUnread,
       HandBackLost, StatusLost
  <2>2. /\ [exec[e] EXCEPT !.pc = "snapshot"] \in ExecState
        /\ Rehydrated(EmptyDoc) \in ExecState
        /\ IdleExec \in ExecState
    BY ExecMoveType, RehydratedType, EmptyType
  <2>3. exec' \in [Executions -> ExecState]
    BY <1>2, <2>2 DEF ExecFault, LoadUnreadable, HandBackUnread,
       HandBackLost, StatusLost, TypeOK
  <2> QED
    BY <1>2, <2>1, <2>3 DEF ExecFault, LoadUnreadable, HandBackUnread,
       HandBackLost, StatusLost, TypeOK
<1>3. ASSUME NEW p \in Resumers, ResumeBegin(p) PROVE TypeOK'
  <2> DEFINE n == used.resumes + 1
  <2>1. n \in 0..MaxResumes
    BY <1>3, OrchestratorAssumption DEF ResumeBegin, TypeOK
  <2>2. used' = [used EXCEPT !.resumes = n]
    BY <1>3 DEF ResumeBegin
  <2> HIDE DEF n
  <2>3. used' \in [claims: 0..MaxClaims, resumes: 0..MaxResumes, faults: 0..MaxFaults]
    BY <2>1, <2>2 DEF TypeOK
  <2>4. doc.orch \in OrchState /\ doc.asked \in Steps \cup {NoStep}
    BY DEF TypeOK, Document
  <2>5. [IdleResume EXCEPT !.pc = "agent", !.orch = doc.orch, !.asked = doc.asked]
            \in ResumeState
    BY <2>4, EmptyType DEF ResumeState
  <2>6. resumer' \in [Resumers -> ResumeState]
    BY <1>3, <2>5, ResumerType DEF ResumeBegin, TypeOK
  <2> QED
    BY <1>3, <2>3, <2>6 DEF ResumeBegin, NoteOverlap, TypeOK
<1>4. CASE UNCHANGED vars
  BY <1>4 DEF vars, TypeOK
<1> QED
  BY <1>1, <1>2, <1>3, <1>4, TypeExec, TypeResume DEF Next

\* Nothing but execution e moves.
Only(e) ==
    /\ \A f \in Executions \ {e} : exec'[f] = exec[f]
    /\ UNCHANGED resumer

(* What a step of an execution does to its own state.                        *)
LEMMA ExecFacts ==
    ASSUME TypeOK, NEW e \in Executions
    PROVE  /\ Load(e) => Only(e) /\ exec'[e] = Rehydrated(doc)
           /\ LoadUnreadable(e) => Only(e) /\ exec'[e] = Rehydrated(EmptyDoc)
           /\ \A outcome : End(e, outcome) =>
                 /\ Only(e) /\ exec'[e].pc = "tail" /\ exec'[e].outcome = outcome
                 /\ exec'[e].results = exec[e].results
           /\ PlannerErrs(e) =>
                 \/ End(e, "error")
                 \/ /\ Only(e) /\ exec'[e].pc = "plan" /\ exec[e].pc = "plan"
                    /\ exec'[e].plan = exec[e].plan
                    /\ exec'[e].results = exec[e].results
                    /\ UNCHANGED <<status, doc, issued, ran, mcpSaved, excuses>>
           /\ \A target : Dispatch(e, target) =>
                 /\ Only(e) /\ exec'[e].pc = target
                 /\ exec'[e].plan = Append(exec[e].plan, issued + 1)
                 /\ exec'[e].results = exec[e].results
           /\ McpDone(e) \/ McpUnsaved(e) \/ ComputerUseDone(e) =>
                 /\ Only(e) /\ exec'[e].pc = "plan"
                 /\ exec'[e].plan = exec[e].plan
                 /\ exec'[e].results = Append(exec[e].results, Current(e))
           /\ HandBack(e) \/ HandBackUnread(e) =>
                 /\ Only(e) /\ exec'[e].pc = "snapshot"
                 /\ exec'[e].plan = exec[e].plan
                 /\ exec'[e].results = exec[e].results
           /\ HandBack(e) => exec'[e].seen = doc.mcp
           /\ Snapshot(e) =>
                 /\ Only(e) /\ exec'[e].pc = "mark"
                 /\ exec'[e].results = exec[e].results
           /\ Mark(e) \/ HandBackLost(e) \/ WriteStatus(e) \/ StatusLost(e) =>
                 Only(e) /\ exec'[e] = IdleExec
<1> USE DEF TypeOK, ExecState, Only
<1>1. Load(e) => Only(e) /\ exec'[e] = Rehydrated(doc)
  BY DEF Load
<1>2. LoadUnreadable(e) => Only(e) /\ exec'[e] = Rehydrated(EmptyDoc)
  BY DEF LoadUnreadable
<1>3. \A outcome : End(e, outcome) =>
        /\ Only(e) /\ exec'[e].pc = "tail" /\ exec'[e].outcome = outcome
        /\ exec'[e].results = exec[e].results
  BY DEF End
<1>4. ASSUME PlannerErrs(e)
      PROVE  \/ End(e, "error")
             \/ /\ Only(e) /\ exec'[e].pc = "plan" /\ exec[e].pc = "plan"
                /\ exec'[e].plan = exec[e].plan
                /\ exec'[e].results = exec[e].results
                /\ UNCHANGED <<status, doc, issued, ran, mcpSaved, excuses>>
  <2> DEFINE n == exec[e].tries + 1
  <2>1. \/ End(e, "error")
        \/ /\ exec' = [exec EXCEPT ![e].tries = n] /\ exec[e].pc = "plan"
           /\ UNCHANGED <<status, doc, resumer, issued, ran, mcpSaved, excuses>>
    BY <1>4 DEF PlannerErrs
  <2> HIDE DEF n
  <2> QED
    BY <2>1
<1>5. \A target : Dispatch(e, target) =>
        /\ Only(e) /\ exec'[e].pc = target
        /\ exec'[e].plan = Append(exec[e].plan, issued + 1)
        /\ exec'[e].results = exec[e].results
  BY DEF Dispatch
<1>6. McpDone(e) \/ McpUnsaved(e) \/ ComputerUseDone(e) =>
        /\ Only(e) /\ exec'[e].pc = "plan"
        /\ exec'[e].plan = exec[e].plan
        /\ exec'[e].results = Append(exec[e].results, Current(e))
  BY DEF McpDone, McpUnsaved, ComputerUseDone, Record
<1>7. /\ HandBack(e) \/ HandBackUnread(e) =>
            /\ Only(e) /\ exec'[e].pc = "snapshot"
            /\ exec'[e].plan = exec[e].plan
            /\ exec'[e].results = exec[e].results
      /\ HandBack(e) => exec'[e].seen = doc.mcp
  BY DEF HandBack, HandBackUnread
<1>8. Snapshot(e) => /\ Only(e) /\ exec'[e].pc = "mark"
                     /\ exec'[e].results = exec[e].results
  BY DEF Snapshot
<1>9. Mark(e) \/ HandBackLost(e) \/ WriteStatus(e) \/ StatusLost(e) =>
        Only(e) /\ exec'[e] = IdleExec
  BY DEF Mark, HandBackLost, WriteStatus, StatusLost
<1> QED
  BY <1>1, <1>2, <1>3, <1>4, <1>5, <1>6, <1>7, <1>8, <1>9

(* What a rebuilt state is.                                                  *)
LEMMA RehydratedFacts ==
    ASSUME NEW d
    PROVE  /\ Rehydrated(d).pc = "plan"
           /\ d.orch.known =>
                 /\ Rehydrated(d).plan = d.orch.plan
                 /\ Rehydrated(d).results
                       = WithResult(d.orch.results, ResumeResult(d))
           /\ ~d.orch.known =>
                 Rehydrated(d).plan = <<>> /\ Rehydrated(d).results = <<>>
  BY DEF Rehydrated, IdleExec

(* Initially nothing is under way.                                           *)
LEMMA PlanInit == Init => PlanInv /\ AskInv
  BY DEF Init, PlanInv, AskInv, Working, IdleExec, IdleResume

(* A step leaves the executions with a plan, and those that ended an outcome. *)
LEMMA PlanNext == TypeOK /\ PlanInv /\ [Next]_vars => PlanInv'
<1> SUFFICES ASSUME TypeOK, PlanInv, [Next]_vars PROVE PlanInv'
  OBVIOUS
<1> USE DEF PlanInv, Working, Only
<1>1. ASSUME NEW e \in Executions, Claim(e) PROVE PlanInv'
  <2>1. exec' = [exec EXCEPT ![e] = [IdleExec EXCEPT !.pc = "load"]]
    BY <1>1 DEF Claim
  <2> QED
    BY <2>1 DEF TypeOK, IdleExec
<1>2. ASSUME NEW e \in Executions, ExecStep(e) \/ ExecFault(e) PROVE PlanInv'
  <2>0. /\ Rehydrated(doc).pc = "plan" /\ Rehydrated(EmptyDoc).pc = "plan"
        /\ IdleExec.pc = "idle"
    BY RehydratedFacts DEF IdleExec
  <2>1. CASE Load(e) \/ LoadUnreadable(e)
    BY <2>0, <2>1, ExecFacts
  <2>2. ASSUME NEW outcome \in {"success", "error"}, End(e, outcome) PROVE PlanInv'
    BY <2>2, ExecFacts
  <2>3. CASE PlannerErrs(e)
    BY <2>2, <2>3, ExecFacts
  <2>4. ASSUME NEW target \in {"mcp", "computer_use"}, Dispatch(e, target)
        PROVE  PlanInv'
    <3>1. exec[e].plan \in Seq(Steps) /\ issued + 1 \in Steps
      BY DEF TypeOK, ExecState, Steps
    <3>2. Append(exec[e].plan, issued + 1) # <<>>
      <4>1. Len(Append(exec[e].plan, issued + 1)) = Len(exec[e].plan) + 1
        BY <3>1, IdsAppend
      <4>2. Len(exec[e].plan) \in Nat
        BY <3>1
      <4> DEFINE new == Append(exec[e].plan, issued + 1)
                 n == Len(exec[e].plan)
      <4> HIDE DEF new, n
      <4>3. Len(new) = n + 1 /\ n \in Nat
        BY <4>1, <4>2 DEF new, n
      <4>4. new # <<>>
        BY <4>3
      <4> QED
        BY <4>4 DEF new
    <3>3. Only(e) /\ exec'[e].pc = target
          /\ exec'[e].plan = Append(exec[e].plan, issued + 1)
      BY <2>4, ExecFacts, Zenon
    <3> QED
      BY <3>2, <3>3
  <2>5. CASE McpDone(e) \/ McpUnsaved(e) \/ ComputerUseDone(e)
    BY <2>5, ExecFacts
  <2>6. CASE HandBack(e) \/ HandBackUnread(e)
    <3>1. exec[e].plan # <<>>
      BY <2>6 DEF HandBack, HandBackUnread
    <3>2. Only(e) /\ exec'[e].pc = "snapshot" /\ exec'[e].plan = exec[e].plan
      BY <2>6, ExecFacts, Zenon
    <3> QED
      BY <3>1, <3>2
  <2>7. CASE Snapshot(e)
    BY <2>7, ExecFacts
  <2>8. CASE Mark(e) \/ HandBackLost(e) \/ WriteStatus(e) \/ StatusLost(e)
    BY <2>0, <2>8, ExecFacts
  <2> QED
    BY <1>2, <2>1, <2>2, <2>3, <2>4, <2>5, <2>6, <2>7, <2>8
    DEF ExecStep, ExecFault, LimitReached, PlannerStops
<1>3. ASSUME NEW p \in Resumers, ResumeBegin(p) \/ ResumeStep(p) \/ ResumeFault(p)
      PROVE  exec' = exec
  BY <1>3 DEF ResumeBegin, ResumeStep, ResumeFault, ResumeDone, ResumeHandsBack,
     ResumeSnapshot, ResumeMark, MergeResume, MergeOrch, MergeLast, Requeue,
     ResumeHandsBackUnread, ResumeHandBackLost, MergeFails, RequeueLost
<1>4. CASE exec' = exec
  BY <1>4
<1> QED
  BY <1>1, <1>2, <1>3, <1>4 DEF Next, vars

(* Who waits for an answer knows of which step.                              *)
LEMMA AskNext == TypeOK /\ PlanInv /\ AskInv /\ [Next]_vars => AskInv'
<1> SUFFICES ASSUME TypeOK, PlanInv, AskInv, [Next]_vars PROVE AskInv'
  OBVIOUS
<1>1. ASSUME NEW e \in Executions, ExecStep(e) \/ ExecFault(e) \/ Claim(e)
      PROVE  AskInv'
  <2>0. /\ Rehydrated(doc).pc = "plan" /\ Rehydrated(EmptyDoc).pc = "plan"
        /\ IdleExec.pc = "idle"
    BY RehydratedFacts DEF IdleExec
  <2>1. CASE Snapshot(e)
    <3>1. Current(e) # NoStep
      BY <2>1, CurrentType DEF Snapshot, PlanInv, Working, Steps, NoStep
    <3>2. doc'.asked = Current(e) /\ resumer' = resumer
      BY <2>1 DEF Snapshot, HandbackDoc, EmptyDoc
    <3> QED
      BY <3>1, <3>2 DEF AskInv
  <2>2. CASE Mark(e)
    <3>1. doc' = doc /\ exec[e].pc = "mark" /\ resumer' = resumer
      BY <2>2 DEF Mark
    <3> QED
      BY <3>1 DEF AskInv
  <2>3. ASSUME doc'.asked = doc.asked, resumer' = resumer, status' = "attention" => status = "attention",
               \A d \in Executions : exec'[d].pc = "mark" => exec[d].pc = "mark"
        PROVE  AskInv'
    BY <2>3 DEF AskInv
  <2>4. CASE Claim(e)
    <3>1. exec' = [exec EXCEPT ![e] = [IdleExec EXCEPT !.pc = "load"]]
      BY <2>4 DEF Claim
    <3>2. \A d \in Executions : exec'[d].pc = "mark" => exec[d].pc = "mark"
      BY <3>1 DEF TypeOK, IdleExec
    <3> QED
      BY <2>3, <2>4, <3>2 DEF Claim
  <2>5. CASE Load(e) \/ LoadUnreadable(e)
    BY <2>0, <2>3, <2>5, ExecFacts DEF Only, Load, LoadUnreadable
  <2>6. ASSUME NEW outcome, End(e, outcome) PROVE AskInv'
    BY <2>3, <2>6, ExecFacts DEF Only, End
  <2>7. CASE PlannerErrs(e)
    BY <2>3, <2>6, <2>7, ExecFacts DEF Only
  <2>8. ASSUME NEW target \in {"mcp", "computer_use"}, Dispatch(e, target)
        PROVE  AskInv'
    <3>1. Only(e) /\ exec'[e].pc = target
      BY <2>8, ExecFacts, Zenon
    <3> QED
      BY <2>3, <2>8, <3>1 DEF Only, Dispatch
  <2>9. CASE McpDone(e) \/ McpUnsaved(e) \/ ComputerUseDone(e)
    <3>1. doc'.asked = doc.asked
      BY <2>9 DEF McpDone, McpUnsaved, ComputerUseDone, TypeOK, Document
    <3> QED
      BY <2>3, <2>9, <3>1, ExecFacts DEF Only, McpDone, McpUnsaved, ComputerUseDone
  <2>10. CASE HandBack(e) \/ HandBackUnread(e)
    BY <2>3, <2>10, ExecFacts DEF Only, HandBack, HandBackUnread
  <2>11. CASE HandBackLost(e) \/ WriteStatus(e) \/ StatusLost(e)
    <3>1. status' = "attention" => status = "attention"
      BY <2>11 DEF HandBackLost, WriteStatus, StatusLost, PlanInv
    <3> QED
      BY <2>0, <2>3, <2>11, <3>1, ExecFacts
      DEF Only, HandBackLost, WriteStatus, StatusLost
  <2> QED
    BY <1>1, <2>1, <2>2, <2>4, <2>5, <2>6, <2>7, <2>8, <2>9, <2>10, <2>11
    DEF ExecStep, ExecFault, LimitReached, PlannerStops
<1>2. ASSUME NEW p \in Resumers, ResumeStep(p) \/ ResumeFault(p) PROVE AskInv'
  <2>1. resumer[p].pc # "idle" /\ exec' = exec
    BY <1>2 DEF ResumeStep, ResumeFault, ResumeDone, ResumeHandsBack,
       ResumeSnapshot, ResumeMark, MergeResume, MergeOrch, MergeLast, Requeue,
       ResumeHandsBackUnread, ResumeHandBackLost, MergeFails, RequeueLost
  <2>2. doc.asked # NoStep /\ resumer[p].asked # NoStep
    BY <2>1 DEF AskInv
  <2>3. doc'.asked \in {doc.asked, resumer[p].asked}
    BY <1>2 DEF ResumeStep, ResumeFault, ResumeDone, ResumeHandsBack,
       ResumeSnapshot, ResumeMark, MergeResume, MergeOrch, MergeLast, Requeue,
       ResumeHandsBackUnread, ResumeHandBackLost, MergeFails, RequeueLost,
       HandbackDoc, EmptyDoc, TypeOK, Document
  <2>4. \A q \in Resumers : resumer'[q].pc # "idle" => resumer'[q].asked = resumer[q].asked /\ (resumer[q].pc # "idle" \/ q = p)
    BY <1>2, EmptyType DEF ResumeStep, ResumeFault, ResumeDone, ResumeHandsBack,
       ResumeSnapshot, ResumeMark, MergeResume, MergeOrch, MergeLast, Requeue,
       ResumeHandsBackUnread, ResumeHandBackLost, MergeFails, RequeueLost,
       ResumeTo, IdleResume, TypeOK, ResumeState
  <2> QED
    BY <2>1, <2>2, <2>3, <2>4 DEF AskInv
<1>3. ASSUME NEW p \in Resumers, ResumeBegin(p) PROVE AskInv'
  <2>1. /\ doc.asked # NoStep /\ doc' = doc
        /\ resumer'[p].asked = doc.asked
        /\ \A q \in Resumers \ {p} : resumer'[q] = resumer[q]
    BY <1>3 DEF ResumeBegin, AskInv, TypeOK
  <2> QED
    BY <2>1 DEF AskInv
<1>4. CASE UNCHANGED vars
  BY <1>4 DEF vars, AskInv
<1> QED
  BY <1>1, <1>2, <1>3, <1>4 DEF Next

(* Every variable keeps its type.                                            *)
THEOREM TypeCorrect == Spec => []TypeOK
<1>1. Init => TypeOK /\ PlanInv /\ AskInv
  BY TypeInit, PlanInit
<1>2. TypeOK /\ PlanInv /\ AskInv /\ [Next]_vars
        => (TypeOK /\ PlanInv /\ AskInv)'
  BY TypeNext, PlanNext, AskNext
<1> QED
  BY <1>1, <1>2, PTL DEF Spec

(* The invariants it rests on.                                               *)
LEMMA PlanCorrect == Spec => [](TypeOK /\ PlanInv /\ AskInv)
<1>1. Init => TypeOK /\ PlanInv /\ AskInv
  BY TypeInit, PlanInit
<1>2. TypeOK /\ PlanInv /\ AskInv /\ [Next]_vars
        => (TypeOK /\ PlanInv /\ AskInv)'
  BY TypeNext, PlanNext, AskNext
<1> QED
  BY <1>1, <1>2, PTL DEF Spec

-----------------------------------------------------------------------------
(* One result per step *)

\* No id but Extra occurs twice.
Unique(s) == \A i, j \in 1..Len(s) : s[i] = s[j] /\ s[i] # Extra => i = j

\* No id is larger than n.
UpTo(s, n) == \A x \in Ids(s) : x <= n

Sound(orch, n) ==
    /\ Unique(orch.plan) /\ UpTo(orch.plan, n)
    /\ Unique(orch.results) /\ UpTo(orch.results, n)

\* Step ids are handed out once, and a step that is being worked on has no result.
IdInv ==
    /\ Sound(doc.orch, issued) /\ doc.resume <= issued /\ doc.last <= issued
    /\ \A e \in Executions :
         /\ Sound(exec[e], issued)
         /\ Working(e) => Current(e) \notin Ids(exec[e].results)
    /\ \A p \in Resumers :
         Sound(resumer[p].orch, issued) /\ Sound(resumer[p].seen.orch, issued)

(* The empty sequence is sound.                                              *)
LEMMA SoundEmpty ==
    ASSUME NEW n \in Nat
    PROVE  Unique(<<>>) /\ UpTo(<<>>, n) /\ Ids(<<>>) = {}
  BY DEF Unique, UpTo, Ids

(* A new id, or Extra, can be appended.                                      *)
LEMMA UniqueAppend ==
    ASSUME NEW S, NEW s \in Seq(S), NEW x \in S, Unique(s),
           x \notin Ids(s) \/ x = Extra
    PROVE  Unique(Append(s, x))
<1> DEFINE new == Append(s, x)
           n == Len(s)
<1>1. /\ n \in Nat /\ Len(new) = n + 1 /\ new[n + 1] = x
      /\ \A i \in 1..n : new[i] = s[i]
  BY IdsAppend
<1>2. \A i \in 1..n : s[i] = x => x = Extra
  BY Zenon DEF Ids
<1>3. \A i, j \in 1..n : s[i] = s[j] /\ s[i] # Extra => i = j
  BY DEF Unique
<1> HIDE DEF new, n
<1>4. 1..(n + 1) = 1..n \cup {n + 1}
  BY <1>1
<1>5. \A i, j \in 1..n \cup {n + 1} : new[i] = new[j] /\ new[i] # Extra => i = j
  BY <1>1, <1>2, <1>3
<1>6. Unique(new)
  BY <1>1, <1>4, <1>5 DEF Unique
<1> QED
  BY <1>6 DEF new

(* Appending a bounded id keeps the bound, and a larger bound holds, too.     *)
LEMMA UpToAppend ==
    ASSUME NEW S, NEW s \in Seq(S), NEW x \in S, NEW n, UpTo(s, n), x <= n
    PROVE  UpTo(Append(s, x), n)
  BY IdsAppend DEF UpTo

LEMMA UpToMore ==
    ASSUME NEW s \in Seq(StepIds), NEW n \in Nat, UpTo(s, n)
    PROVE  UpTo(s, n + 1)
<1>1. \A x \in Ids(s) : x \in Int
  BY IdsType DEF StepIds, Steps, Extra
<1> QED
  BY <1>1 DEF UpTo

(* Step ids are ids.                                                         *)
LEMMA PlanIsIds == ASSUME NEW s \in Seq(Steps) PROVE s \in Seq(StepIds)
<1>1. Steps \subseteq StepIds
  BY DEF StepIds
<1> QED
  BY <1>1

(* A bound that grows stays a bound of a plan and its results.               *)
LEMMA SoundMore ==
    ASSUME NEW x, x.plan \in Seq(Steps), x.results \in Seq(StepIds),
           NEW n \in Nat, Sound(x, n)
    PROVE  Sound(x, n + 1)
  BY UpToMore, PlanIsIds DEF Sound

(* The result of a resume is added without a duplicate.                      *)
LEMMA UniqueWithResult ==
    ASSUME NEW s \in Seq(StepIds), NEW x \in StepIds \cup {NoStep}, NEW n,
           Unique(s), UpTo(s, n), x <= n
    PROVE  Unique(WithResult(s, x)) /\ UpTo(WithResult(s, x), n)
<1>1. CASE x = NoStep \/ x \in Ids(s)
  BY <1>1 DEF WithResult
<1>2. CASE ~(x = NoStep \/ x \in Ids(s))
  BY <1>2, UniqueAppend, UpToAppend DEF WithResult
<1> QED
  BY <1>1, <1>2

(* Initially nothing was planned.                                            *)
LEMMA IdInit == Init => IdInv
<1> SUFFICES ASSUME Init PROVE IdInv
  OBVIOUS
<1>1. issued \in Nat /\ issued = 0
  BY DEF Init
<1>2. /\ Sound(Unknown, 0) /\ Sound(IdleExec, 0)
  BY SoundEmpty DEF Sound, Unknown, IdleExec
<1> QED
  BY <1>1, <1>2 DEF Init, IdInv, EmptyDoc, IdleResume, Working, IdleExec, NoStep

(* A rebuilt state is sound if the document is.                              *)
LEMMA SoundRehydrated ==
    ASSUME NEW d \in Document, NEW n \in Nat, Sound(d.orch, n),
           d.resume <= n, d.last <= n
    PROVE  Sound(Rehydrated(d), n)
<1>1. ResumeResult(d) \in StepIds \cup {NoStep} /\ ResumeResult(d) <= n
  BY DEF ResumeResult, Document
<1>2. d.orch.plan \in Seq(Steps) /\ d.orch.results \in Seq(StepIds)
  BY DEF Document, OrchState
<1>3. LET r == WithResult(d.orch.results, ResumeResult(d))
      IN  Unique(r) /\ UpTo(r, n)
  BY <1>1, <1>2, UniqueWithResult DEF Sound
<1>4. CASE d.orch.known
  BY <1>3, <1>4, RehydratedFacts DEF Sound
<1>5. CASE ~d.orch.known
  BY <1>5, RehydratedFacts, SoundEmpty DEF Sound
<1> QED
  BY <1>4, <1>5

(* A step of an execution that leaves the document alone keeps the ids, if its *)
(* own state stays in order.                                                 *)
LEMMA IdOnly ==
    ASSUME TypeOK, IdInv, NEW e \in Executions, Only(e), issued' = issued,
           Sound(doc'.orch, issued), doc'.resume <= issued, doc'.last <= issued,
           Sound(exec'[e], issued),
           exec'[e].pc \in {"mcp", "computer_use", "snapshot"} =>
               exec'[e].plan[Len(exec'[e].plan)] \notin Ids(exec'[e].results)
    PROVE  IdInv'
  BY DEF IdInv, Only, Working, Current

(* A step of an execution keeps the ids in order.                            *)
LEMMA IdExec ==
    ASSUME TypeOK, PlanInv, IdInv, NEW e \in Executions,
           ExecStep(e) \/ ExecFault(e)
    PROVE  IdInv'
<1>0. /\ issued \in Nat /\ doc \in Document /\ EmptyDoc \in Document
      /\ exec[e].plan \in Seq(Steps) /\ exec[e].results \in Seq(StepIds)
      /\ Sound(doc.orch, issued) /\ doc.resume <= issued /\ doc.last <= issued
      /\ Sound(exec[e], issued) /\ Sound(IdleExec, issued)
      /\ Sound(EmptyDoc.orch, issued) /\ EmptyDoc.resume <= issued
      /\ EmptyDoc.last <= issued /\ IdleExec.pc = "idle"
  BY EmptyType, SoundEmpty DEF TypeOK, ExecState, IdInv, Sound, IdleExec,
     EmptyDoc, Unknown, NoStep
<1>1. CASE Load(e) \/ LoadUnreadable(e)
  <2>1. \E d \in {doc, EmptyDoc} : exec'[e] = Rehydrated(d)
    BY <1>1, ExecFacts
  <2>2. Sound(exec'[e], issued) /\ exec'[e].pc = "plan"
    BY <1>0, <2>1, SoundRehydrated, RehydratedFacts
  <2>3. Only(e) /\ doc' = doc /\ issued' = issued
    BY <1>1, ExecFacts DEF Load, LoadUnreadable
  <2> QED
    BY <1>0, <2>2, <2>3, IdOnly
<1>2. ASSUME NEW outcome, End(e, outcome) PROVE IdInv'
  <2>1. Only(e) /\ exec'[e].pc = "tail" /\ exec'[e].results = exec[e].results
    BY <1>2, ExecFacts, Zenon
  <2>2. exec'[e].plan = exec[e].plan /\ doc' = doc /\ issued' = issued
    BY <1>2 DEF End, TypeOK, ExecState
  <2> QED
    BY <1>0, <2>1, <2>2, IdOnly DEF Sound
<1>3. CASE PlannerErrs(e)
  <2>1. CASE End(e, "error")
    BY <1>2, <2>1
  <2>2. CASE ~End(e, "error")
    <3>1. /\ Only(e) /\ exec'[e].pc = "plan" /\ exec'[e].plan = exec[e].plan
          /\ exec'[e].results = exec[e].results /\ doc' = doc /\ issued' = issued
      BY <1>3, <2>2, ExecFacts, Zenon
    <3> QED
      BY <1>0, <3>1, IdOnly DEF Sound
  <2> QED
    BY <2>1, <2>2
<1>4. ASSUME NEW target \in {"mcp", "computer_use"}, Dispatch(e, target)
      PROVE  IdInv'
  <2>1. /\ Only(e) /\ exec'[e].results = exec[e].results
        /\ exec'[e].plan = Append(exec[e].plan, issued + 1)
    BY <1>4, ExecFacts, Zenon
  <2>2. issued' = issued + 1 /\ doc' = doc
    BY <1>4 DEF Dispatch
  <2>3. issued + 1 \in Steps
    BY <1>0 DEF Steps
  <2>4. \A x \in Ids(exec[e].plan) \cup Ids(exec[e].results) : x <= issued /\ x \in Int
    BY <1>0, IdsType DEF Sound, UpTo, Steps, StepIds, Extra
  <2>5. issued + 1 \notin Ids(exec[e].plan) \cup Ids(exec[e].results)
    BY <1>0, <2>4
  <2>6. Sound(exec'[e], issued')
    <3>1. Unique(exec'[e].plan)
      BY <1>0, <2>1, <2>3, <2>5, UniqueAppend DEF Sound
    <3>2. UpTo(exec[e].plan, issued + 1) /\ UpTo(exec[e].results, issued + 1)
      BY <1>0, SoundMore DEF Sound
    <3>3. UpTo(exec'[e].plan, issued + 1)
      BY <1>0, <2>1, <2>3, <3>2, UpToAppend
    <3> QED
      BY <1>0, <2>1, <2>2, <3>1, <3>2, <3>3 DEF Sound
  <2>7. Current(e)' = issued + 1
    BY <1>0, <2>1, <2>3, IdsAppend DEF Current
  <2>8. \A d \in Executions \ {e} : Sound(exec'[d], issued') /\ Current(d)' = Current(d)
        /\ exec'[d] = exec[d]
    BY <1>0, <2>1, <2>2, SoundMore DEF Only, IdInv, Current, TypeOK, ExecState
  <2>9. \A p \in Resumers :
          Sound(resumer'[p].orch, issued') /\ Sound(resumer'[p].seen.orch, issued')
    BY <1>0, <2>1, <2>2, SoundMore DEF Only, IdInv, TypeOK, ResumeState, Document,
       OrchState
  <2>10. Sound(doc'.orch, issued')
    BY <1>0, <2>2, SoundMore DEF Document, OrchState
  <2>11. doc'.resume <= issued' /\ doc'.last <= issued'
    <3>1. doc.resume \in Int /\ doc.last \in Int
      BY <1>0 DEF Document, StepIds, Steps, Extra, NoStep
    <3> QED
      BY <1>0, <2>2, <3>1
  <2> QED
    BY <2>1, <2>5, <2>6, <2>7, <2>8, <2>9, <2>10, <2>11 DEF IdInv, Working
<1>5. CASE McpDone(e) \/ McpUnsaved(e) \/ ComputerUseDone(e)
  <2>1. /\ Only(e) /\ exec'[e].pc = "plan" /\ exec'[e].plan = exec[e].plan
        /\ exec'[e].results = Append(exec[e].results, Current(e))
    BY <1>5, ExecFacts, Zenon
  <2>2. Working(e)
    BY <1>5 DEF McpDone, McpUnsaved, ComputerUseDone, Working
  <2>3. /\ Current(e) \in StepIds /\ Current(e) <= issued
        /\ Current(e) \notin Ids(exec[e].results)
    BY <1>0, <2>2, CurrentType DEF PlanInv, IdInv, Sound, UpTo, StepIds
  <2>4. Sound(exec'[e], issued)
    BY <1>0, <2>1, <2>3, UniqueAppend, UpToAppend DEF Sound
  <2>5. /\ doc'.orch = doc.orch /\ doc'.resume = doc.resume
        /\ doc'.last = doc.last /\ issued' = issued
    BY <1>0, <1>5 DEF McpDone, McpUnsaved, ComputerUseDone, Document
  <2> QED
    BY <1>0, <2>1, <2>4, <2>5, IdOnly
<1>6. CASE HandBack(e) \/ HandBackUnread(e)
  <2>1. /\ Only(e) /\ exec'[e].pc = "snapshot" /\ exec'[e].plan = exec[e].plan
        /\ exec'[e].results = exec[e].results
    BY <1>6, ExecFacts, Zenon
  <2>2. Working(e) /\ doc' = doc /\ issued' = issued
    BY <1>6 DEF HandBack, HandBackUnread, Working
  <2>3. Current(e) \notin Ids(exec[e].results)
    BY <2>2 DEF IdInv
  <2> QED
    BY <1>0, <2>1, <2>2, <2>3, IdOnly DEF Sound, Current
<1>7. CASE Snapshot(e)
  <2>1. /\ Only(e) /\ exec'[e].pc = "mark" /\ exec'[e].results = exec[e].results
    BY <1>7, ExecFacts, Zenon
  <2>2. /\ exec'[e].plan = exec[e].plan /\ issued' = issued
        /\ doc' = HandbackDoc(Serialised(e), Current(e), exec[e].seen)
    BY <1>7 DEF Snapshot, TypeOK, ExecState
  <2>3. /\ doc'.orch.plan = exec[e].plan /\ doc'.orch.results = exec[e].results
        /\ doc'.resume = NoStep /\ doc'.last = NoStep
    BY <2>2 DEF HandbackDoc, EmptyDoc, Serialised
  <2> QED
    BY <1>0, <2>1, <2>2, <2>3, IdOnly DEF Sound, NoStep
<1>8. CASE Mark(e) \/ HandBackLost(e) \/ WriteStatus(e) \/ StatusLost(e)
  <2>1. Only(e) /\ exec'[e] = IdleExec
    BY <1>8, ExecFacts, Zenon
  <2>2. doc' = doc /\ issued' = issued
    BY <1>8 DEF Mark, HandBackLost, WriteStatus, StatusLost
  <2> QED
    BY <1>0, <2>1, <2>2, IdOnly
<1> QED
  BY <1>1, <1>2, <1>3, <1>4, <1>5, <1>6, <1>7, <1>8
  DEF ExecStep, ExecFault, LimitReached, PlannerStops

\* Nothing but resume p moves.
OnlyResume(p) ==
    /\ \A q \in Resumers \ {p} : resumer'[q] = resumer[q]
    /\ UNCHANGED <<exec, issued>>

(* What a step of a resume does to its own state.                            *)
LEMMA ResumeFacts ==
    ASSUME TypeOK, NEW p \in Resumers
    PROVE  /\ ResumeBegin(p) =>
                 /\ OnlyResume(p) /\ resumer'[p].pc = "agent"
                 /\ resumer'[p].orch = doc.orch /\ resumer'[p].asked = doc.asked
                 /\ resumer'[p].seen = EmptyDoc
           /\ ResumeHandsBack(p) =>
                 /\ OnlyResume(p) /\ resumer'[p].pc = "snapshot"
                 /\ resumer'[p].orch = resumer[p].orch
                 /\ resumer'[p].asked = resumer[p].asked
                 /\ resumer'[p].seen = doc
           /\ \A pc : ResumeTo(p, pc) =>
                 /\ \A q \in Resumers \ {p} : resumer'[q] = resumer[q]
                 /\ resumer'[p].pc = pc
                 /\ resumer'[p].orch = resumer[p].orch
                 /\ resumer'[p].asked = resumer[p].asked
                 /\ resumer'[p].seen = resumer[p].seen
           /\ Requeue(p) \/ RequeueLost(p) =>
                 OnlyResume(p) /\ resumer'[p] = IdleResume
<1> USE DEF TypeOK, ResumeState, OnlyResume
<1>1. ResumeBegin(p) =>
        /\ OnlyResume(p) /\ resumer'[p].pc = "agent"
        /\ resumer'[p].orch = doc.orch /\ resumer'[p].asked = doc.asked
        /\ resumer'[p].seen = EmptyDoc
  BY DEF ResumeBegin, IdleResume
<1>2. ResumeHandsBack(p) =>
        /\ OnlyResume(p) /\ resumer'[p].pc = "snapshot"
        /\ resumer'[p].orch = resumer[p].orch
        /\ resumer'[p].asked = resumer[p].asked
        /\ resumer'[p].seen = doc
  BY DEF ResumeHandsBack
<1>3. \A pc : ResumeTo(p, pc) =>
        /\ \A q \in Resumers \ {p} : resumer'[q] = resumer[q]
        /\ resumer'[p].pc = pc
        /\ resumer'[p].orch = resumer[p].orch
        /\ resumer'[p].asked = resumer[p].asked
        /\ resumer'[p].seen = resumer[p].seen
  BY DEF ResumeTo
<1>4. Requeue(p) \/ RequeueLost(p) => OnlyResume(p) /\ resumer'[p] = IdleResume
  BY DEF Requeue, RequeueLost
<1> QED
  BY <1>1, <1>2, <1>3, <1>4

(* Where a step of a resume goes when it is neither its first nor its last,   *)
(* nor the one that reads the document.                                      *)
LEMMA ResumeGoes ==
    ASSUME NEW p \in Resumers,
           \/ ResumeDone(p) \/ ResumeSnapshot(p) \/ ResumeMark(p)
           \/ MergeResume(p) \/ MergeOrch(p) \/ MergeLast(p)
           \/ ResumeHandsBackUnread(p) \/ ResumeHandBackLost(p) \/ MergeFails(p)
    PROVE  \E pc : ResumeTo(p, pc) /\ UNCHANGED <<exec, issued>>
  BY DEF ResumeDone, ResumeSnapshot, ResumeMark, MergeResume, MergeOrch, MergeLast,
     ResumeHandsBackUnread, ResumeHandBackLost, MergeFails

(* A resume keeps the ids in order if its own state and the document stay so. *)
LEMMA IdOnlyResume ==
    ASSUME TypeOK, IdInv, NEW p \in Resumers, OnlyResume(p),
           Sound(doc'.orch, issued), doc'.resume <= issued, doc'.last <= issued,
           Sound(resumer'[p].orch, issued), Sound(resumer'[p].seen.orch, issued)
    PROVE  IdInv'
  BY DEF IdInv, OnlyResume, Working, Current

(* A step of a resume keeps the ids in order.                                *)
LEMMA IdResume ==
    ASSUME TypeOK, IdInv, NEW p \in Resumers,
           ResumeBegin(p) \/ ResumeStep(p) \/ ResumeFault(p)
    PROVE  IdInv'
<1>0. /\ issued \in Nat
      /\ Sound(doc.orch, issued) /\ doc.resume <= issued /\ doc.last <= issued
      /\ Sound(resumer[p].orch, issued) /\ Sound(resumer[p].seen.orch, issued)
      /\ Sound(Unknown, issued) /\ EmptyDoc.orch = Unknown
      /\ IdleResume.orch = Unknown /\ IdleResume.seen = EmptyDoc
      /\ resumer[p].orch \in OrchState
  BY SoundEmpty DEF TypeOK, IdInv, Sound, Unknown, EmptyDoc, IdleResume, ResumeState
<1>1. CASE ResumeBegin(p)
  <2>1. doc' = doc
    BY <1>1 DEF ResumeBegin
  <2> QED
    BY <1>0, <1>1, <2>1, ResumeFacts, IdOnlyResume
<1>2. CASE ResumeHandsBack(p)
  <2>1. doc' = doc
    BY <1>2 DEF ResumeHandsBack
  <2> QED
    BY <1>0, <1>2, <2>1, ResumeFacts, IdOnlyResume
<1>3. CASE Requeue(p) \/ RequeueLost(p)
  <2>1. doc' = doc
    BY <1>3 DEF Requeue, RequeueLost
  <2> QED
    BY <1>0, <1>3, <2>1, ResumeFacts, IdOnlyResume
<1>4. ASSUME \/ ResumeDone(p) \/ ResumeSnapshot(p) \/ ResumeMark(p)
             \/ MergeResume(p) \/ MergeOrch(p) \/ MergeLast(p)
             \/ ResumeHandsBackUnread(p) \/ ResumeHandBackLost(p) \/ MergeFails(p)
      PROVE  IdInv'
  <2>1. PICK pc : ResumeTo(p, pc) /\ UNCHANGED <<exec, issued>>
    BY <1>4, ResumeGoes
  <2>2. /\ OnlyResume(p) /\ resumer'[p].orch = resumer[p].orch
        /\ resumer'[p].seen = resumer[p].seen
    BY <2>1, ResumeFacts DEF OnlyResume
  <2>3. \/ ResumedStep(resumer[p].orch) = Extra
        \/ /\ ResumedStep(resumer[p].orch) \in Ids(resumer[p].orch.plan)
           /\ ResumedStep(resumer[p].orch) \notin Ids(resumer[p].orch.results)
    BY <1>0, ResumedStepType
  <2>4. ResumedStep(resumer[p].orch) <= issued
    BY <1>0, <2>3 DEF Sound, UpTo, Extra
  <2>5. CASE doc' = doc
    BY <1>0, <2>2, <2>5, IdOnlyResume
  <2>6. CASE ResumeSnapshot(p)
    <3>1. \E orch \in {resumer[p].orch, resumer[p].seen.orch} :
            doc' = HandbackDoc(orch, resumer[p].asked, resumer[p].seen.mcp)
      BY <2>6 DEF ResumeSnapshot
    <3>2. Sound(doc'.orch, issued) /\ doc'.resume = NoStep /\ doc'.last = NoStep
      BY <1>0, <3>1 DEF HandbackDoc, EmptyDoc
    <3> QED
      BY <1>0, <2>2, <3>2, IdOnlyResume DEF NoStep
  <2>7. CASE MergeResume(p) \/ MergeLast(p)
    <3>1. /\ doc'.orch = doc.orch
          /\ doc'.resume \in {doc.resume, ResumedStep(resumer[p].orch)}
          /\ doc'.last \in {doc.last, ResumedStep(resumer[p].orch)}
      BY <2>7 DEF MergeResume, MergeLast, TypeOK, Document
    <3> QED
      BY <1>0, <2>2, <2>4, <3>1, IdOnlyResume
  <2>8. CASE MergeOrch(p)
    <3> DEFINE orch == resumer[p].orch
               new == Append(orch.results, ResumedStep(orch))
    <3>1. /\ doc'.orch.plan = orch.plan /\ doc'.orch.results = new
          /\ doc'.resume = doc.resume /\ doc'.last = doc.last
      BY <2>8 DEF MergeOrch, TypeOK, Document
    <3>2. orch.results \in Seq(StepIds) /\ ResumedStep(orch) \in StepIds
      BY <1>0, ResumedStepType DEF OrchState
    <3>3. Unique(new) /\ UpTo(new, issued)
      BY <1>0, <2>3, <2>4, <3>2, UniqueAppend, UpToAppend DEF Sound
    <3>4. Sound(doc'.orch, issued)
      BY <1>0, <3>1, <3>3 DEF Sound
    <3> QED
      BY <1>0, <2>2, <3>1, <3>4, IdOnlyResume
  <2> QED
    BY <1>4, <2>5, <2>6, <2>7, <2>8 DEF ResumeDone, ResumeMark,
       ResumeHandsBackUnread, ResumeHandBackLost, MergeFails
<1> QED
  BY <1>1, <1>2, <1>3, <1>4 DEF ResumeStep, ResumeFault

(* Every step keeps the ids in order.                                        *)
LEMMA IdNext == TypeOK /\ PlanInv /\ IdInv /\ [Next]_vars => IdInv'
<1> SUFFICES ASSUME TypeOK, PlanInv, IdInv, [Next]_vars PROVE IdInv'
  OBVIOUS
<1>1. ASSUME NEW e \in Executions, Claim(e) PROVE IdInv'
  <2> DEFINE new == [IdleExec EXCEPT !.pc = "load"]
  <2>1. /\ exec' = [exec EXCEPT ![e] = new]
        /\ UNCHANGED <<resumer, doc, issued>>
    BY <1>1 DEF Claim
  <2>2. new.pc = "load" /\ Sound(new, issued)
    BY SoundEmpty DEF IdleExec, Sound, TypeOK
  <2> HIDE DEF new
  <2>3. Only(e) /\ exec'[e] = new
    BY <2>1 DEF Only, TypeOK
  <2> QED
    BY <2>1, <2>2, <2>3, IdOnly DEF IdInv
<1>2. CASE UNCHANGED vars
  BY <1>2 DEF vars, IdInv, Working, Current
<1> QED
  BY <1>1, <1>2, IdExec, IdResume DEF Next

(* No step has two results, whatever fails and however sessions overlap.     *)
THEOREM OneResultCorrect == Spec => []OneResultPerStep
<1>1. IdInv => OneResultPerStep
  BY DEF IdInv, Sound, Unique, OneResultPerStep
<1> QED
  BY PlanCorrect, IdInit, IdNext, <1>1, PTL DEF Spec

-----------------------------------------------------------------------------
(* One session at a time *)

\* What is true while no two sessions of the run have met.
Alone ==
    "overlap" \notin excuses =>
        /\ \A e, f \in Executions :
             exec[e].pc # "idle" /\ exec[f].pc # "idle" => e = f
        /\ \A p, q \in Resumers :
             resumer[p].pc # "idle" /\ resumer[q].pc # "idle" => p = q
        /\ \A e \in Executions, p \in Resumers :
             exec[e].pc = "idle" \/ resumer[p].pc = "idle"
        /\ \A e \in Executions : exec[e].pc # "idle" => status = "running"
        /\ \A p \in Resumers : resumer[p].pc # "idle" => status = "attention"

SoloExec(e) ==
    /\ \A f \in Executions \ {e} : exec[f].pc = "idle"
    /\ \A p \in Resumers : resumer[p].pc = "idle"

SoloResume(p) ==
    /\ \A e \in Executions : exec[e].pc = "idle"
    /\ \A q \in Resumers \ {p} : resumer[q].pc = "idle"

(* Who moves is alone, and the status says which kind of session there is.    *)
LEMMA AloneSolo ==
    ASSUME Alone, "overlap" \notin excuses
    PROVE  /\ \A e \in Executions :
                exec[e].pc # "idle" => SoloExec(e) /\ status = "running"
           /\ \A p \in Resumers :
                resumer[p].pc # "idle" => SoloResume(p) /\ status = "attention"
           /\ status = "queued" => ~Busy
  BY DEF Alone, SoloExec, SoloResume, Busy

(* A step never takes back what was noted.                                   *)
LEMMA ExcusesGrow == ASSUME [Next]_vars PROVE excuses \subseteq excuses'
  BY DEF Next, vars, Claim, NoteOverlap, ExecStep, ExecFault, ResumeBegin,
     ResumeStep, ResumeFault, Load, LoadUnreadable, LimitReached, PlannerStops,
     PlannerErrs, End, Dispatch, McpDone, McpUnsaved, ComputerUseDone, HandBack,
     HandBackUnread, Snapshot, Mark, HandBackLost, WriteStatus, StatusLost,
     ResumeDone, ResumeHandsBack, ResumeHandsBackUnread, ResumeSnapshot,
     ResumeMark, ResumeHandBackLost, MergeResume, MergeOrch, MergeLast,
     MergeFails, Requeue, RequeueLost

(* An execution that moves is under way, and says `running' until it ends.    *)
LEMMA ExecMoves ==
    ASSUME TypeOK, PlanInv, NEW e \in Executions, ExecStep(e) \/ ExecFault(e)
    PROVE  /\ exec[e].pc # "idle" /\ Only(e)
           /\ status' = status \/ exec'[e].pc = "idle"
           /\ status' \in {status, "attention", "success", "error"}
<1>0. IdleExec.pc = "idle"
  BY DEF IdleExec
<1>1. CASE Load(e) \/ LoadUnreadable(e)
  BY <1>1, ExecFacts DEF Load, LoadUnreadable
<1>2. ASSUME NEW outcome, End(e, outcome), exec[e].pc = "plan"
      PROVE  exec[e].pc # "idle" /\ Only(e) /\ status' = status
  BY <1>2, ExecFacts, Zenon DEF End
<1>3. CASE PlannerErrs(e)
  <2>1. exec[e].pc = "plan"
    BY <1>3 DEF PlannerErrs
  <2>2. End(e, "error") \/ (Only(e) /\ status' = status)
    BY <1>3, ExecFacts, Zenon
  <2> QED
    BY <1>2, <2>1, <2>2
<1>4. ASSUME NEW target, Dispatch(e, target)
      PROVE  exec[e].pc # "idle" /\ Only(e) /\ status' = status
  BY <1>4, ExecFacts DEF Dispatch
<1>5. CASE McpDone(e) \/ McpUnsaved(e) \/ ComputerUseDone(e)
  <2>1. exec[e].pc # "idle" /\ status' = status
    BY <1>5 DEF McpDone, McpUnsaved, ComputerUseDone
  <2> QED
    BY <1>5, <2>1, ExecFacts, Zenon
<1>6. CASE HandBack(e) \/ HandBackUnread(e) \/ Snapshot(e)
  BY <1>6, ExecFacts DEF HandBack, HandBackUnread, Snapshot
<1>7. CASE Mark(e) \/ HandBackLost(e) \/ WriteStatus(e) \/ StatusLost(e)
  <2>1. Only(e) /\ exec'[e] = IdleExec
    BY <1>7, ExecFacts, Zenon
  <2>2. exec[e].pc # "idle"
    BY <1>7 DEF Mark, HandBackLost, WriteStatus, StatusLost
  <2>3. status' \in {status, "attention", "success", "error"}
    BY <1>7 DEF Mark, HandBackLost, WriteStatus, StatusLost, PlanInv
  <2> QED
    BY <1>0, <2>1, <2>2, <2>3
<1> QED
  BY <1>1, <1>2, <1>3, <1>4, <1>5, <1>6, <1>7
  DEF ExecStep, ExecFault, LimitReached, PlannerStops

(* A resume that moves is under way, and says `attention' until it ends.      *)
LEMMA ResumeMoves ==
    ASSUME TypeOK, NEW p \in Resumers, ResumeStep(p) \/ ResumeFault(p)
    PROVE  /\ resumer[p].pc # "idle" /\ OnlyResume(p)
           /\ status' \in {status, "attention"} \/ resumer'[p].pc = "idle"
           /\ status' \in {status, "attention", "queued"}
<1>1. CASE Requeue(p) \/ RequeueLost(p)
  <2>1. OnlyResume(p) /\ resumer'[p].pc = "idle"
    BY <1>1, ResumeFacts DEF IdleResume
  <2> QED
    BY <1>1, <2>1 DEF Requeue, RequeueLost
<1>2. CASE ResumeHandsBack(p)
  <2>1. OnlyResume(p)
    BY <1>2, ResumeFacts
  <2> QED
    BY <1>2, <2>1 DEF ResumeHandsBack
<1>3. ASSUME \/ ResumeDone(p) \/ ResumeSnapshot(p) \/ ResumeMark(p)
             \/ MergeResume(p) \/ MergeOrch(p) \/ MergeLast(p)
             \/ ResumeHandsBackUnread(p) \/ ResumeHandBackLost(p) \/ MergeFails(p)
      PROVE  /\ resumer[p].pc # "idle" /\ OnlyResume(p)
             /\ status' \in {status, "attention"}
  <2>1. OnlyResume(p)
    BY <1>3, ResumeGoes, ResumeFacts DEF OnlyResume
  <2>2. resumer[p].pc # "idle" /\ status' \in {status, "attention"}
    BY <1>3 DEF ResumeDone, ResumeSnapshot, ResumeMark, MergeResume, MergeOrch,
       MergeLast, ResumeHandsBackUnread, ResumeHandBackLost, MergeFails
  <2> QED
    BY <2>1, <2>2
<1> QED
  BY <1>1, <1>2, <1>3 DEF ResumeStep, ResumeFault

(* Sessions that meet are noted.                                             *)
LEMMA AloneNext == TypeOK /\ PlanInv /\ Alone /\ [Next]_vars => Alone'
<1> SUFFICES ASSUME TypeOK, PlanInv, Alone, [Next]_vars, "overlap" \notin excuses'
             PROVE  Alone'
  BY DEF Alone
<1>0. "overlap" \notin excuses
  BY ExcusesGrow
<1>1. ASSUME NEW e \in Executions, Claim(e) PROVE Alone'
  <2>1. ~Busy /\ status' = "running" /\ resumer' = resumer
    BY <1>1 DEF Claim, NoteOverlap
  <2>2. \A f \in Executions \ {e} : exec'[f] = exec[f]
    BY <1>1 DEF Claim, TypeOK
  <2> QED
    BY <2>1, <2>2 DEF Busy, Alone
<1>2. ASSUME NEW e \in Executions, ExecStep(e) \/ ExecFault(e) PROVE Alone'
  <2>1. SoloExec(e) /\ status = "running"
    BY <1>0, <1>2, AloneSolo, ExecMoves
  <2> QED
    BY <1>2, <2>1, ExecMoves DEF SoloExec, Only, Alone
<1>3. ASSUME NEW p \in Resumers, ResumeStep(p) \/ ResumeFault(p) PROVE Alone'
  <2>1. SoloResume(p) /\ status = "attention"
    BY <1>0, <1>3, AloneSolo, ResumeMoves
  <2> QED
    BY <1>3, <2>1, ResumeMoves DEF SoloResume, OnlyResume, Alone
<1>4. ASSUME NEW p \in Resumers, ResumeBegin(p) PROVE Alone'
  <2>1. ~Busy /\ status = "attention" /\ status' = status /\ exec' = exec
    BY <1>4 DEF ResumeBegin, NoteOverlap
  <2>2. \A q \in Resumers \ {p} : resumer'[q] = resumer[q]
    BY <1>4, ResumeFacts DEF OnlyResume
  <2> QED
    BY <2>1, <2>2 DEF Busy, Alone
<1>5. CASE UNCHANGED vars
  BY <1>5 DEF vars, Alone
<1> QED
  BY <1>1, <1>2, <1>3, <1>4, <1>5 DEF Next

-----------------------------------------------------------------------------
(* The state of the MCP agents *)

\* A handback that is under way has read what was saved last.
McpInv ==
    excuses \cap {"mcpUnread", "overlap"} = {} =>
        /\ doc.mcp = mcpSaved
        /\ \A e \in Executions :
             exec[e].pc = "snapshot" => exec[e].seen = mcpSaved
        /\ \A p \in Resumers :
             resumer[p].pc = "snapshot" => resumer[p].seen.mcp = mcpSaved

(* Initially nobody is under way and nothing is saved.                       *)
LEMMA AloneInit == Init => Alone /\ McpInv
  BY DEF Init, Alone, McpInv, IdleExec, IdleResume, EmptyDoc

(* What was saved last for the MCP agents survives the handbacks.            *)
LEMMA McpNext == TypeOK /\ PlanInv /\ Alone /\ McpInv /\ [Next]_vars => McpInv'
<1> SUFFICES ASSUME TypeOK, PlanInv, Alone, McpInv, [Next]_vars,
                    excuses' \cap {"mcpUnread", "overlap"} = {}
             PROVE  McpInv'
  BY DEF McpInv
<1>0. /\ "overlap" \notin excuses /\ doc.mcp = mcpSaved
      /\ \A e \in Executions :
           exec[e].pc = "snapshot" => exec[e].seen = mcpSaved
      /\ \A p \in Resumers :
           resumer[p].pc = "snapshot" => resumer[p].seen.mcp = mcpSaved
  BY ExcusesGrow DEF McpInv
<1>1. ASSUME NEW e \in Executions, Claim(e) PROVE McpInv'
  <2>1. \A f \in Executions : exec'[f].pc = "snapshot" => exec'[f] = exec[f]
    BY <1>1 DEF Claim, TypeOK, IdleExec
  <2> QED
    BY <1>0, <1>1, <2>1 DEF McpInv, Claim
<1>2. ASSUME NEW e \in Executions, ExecStep(e) \/ ExecFault(e) PROVE McpInv'
  <2>1. SoloExec(e) /\ Only(e)
    BY <1>0, <1>2, AloneSolo, ExecMoves
  <2>2. \A p \in Resumers : resumer'[p].pc # "snapshot"
    BY <2>1 DEF SoloExec, Only
  <2>3. \A f \in Executions \ {e} : exec'[f].pc # "snapshot"
    BY <2>1 DEF SoloExec, Only
  <2>4. ASSUME exec'[e].pc # "snapshot", doc'.mcp = mcpSaved' PROVE McpInv'
    BY <2>2, <2>3, <2>4 DEF McpInv
  <2>5. CASE HandBack(e)
    <3>1. exec'[e].seen = doc.mcp
      BY <2>5, ExecFacts, Zenon
    <3> QED
      BY <1>0, <2>2, <2>3, <2>5, <3>1 DEF McpInv, HandBack
  <2>6. CASE HandBackUnread(e)
    BY <2>6 DEF HandBackUnread
  <2>7. CASE McpDone(e)
    <3>1. doc'.mcp = mcpSaved'
      BY <1>0, <2>7 DEF McpDone, TypeOK, Document
    <3>2. exec'[e].pc = "plan"
      BY <2>7, ExecFacts, Zenon
    <3> QED
      BY <2>4, <3>1, <3>2
  <2>8. CASE McpUnsaved(e) \/ ComputerUseDone(e)
    <3>1. exec'[e].pc = "plan"
      BY <2>8, ExecFacts, Zenon
    <3> QED
      BY <1>0, <2>4, <2>8, <3>1 DEF McpUnsaved, ComputerUseDone
  <2>9. CASE Snapshot(e)
    <3>1. exec[e].pc = "snapshot" /\ doc'.mcp = exec[e].seen /\ mcpSaved' = mcpSaved
      BY <2>9 DEF Snapshot, HandbackDoc, EmptyDoc
    <3>2. exec'[e].pc = "mark"
      BY <2>9, ExecFacts, Zenon
    <3> QED
      BY <1>0, <2>4, <3>1, <3>2
  <2>10. CASE Mark(e) \/ HandBackLost(e) \/ WriteStatus(e) \/ StatusLost(e)
    <3>0. exec'[e] = IdleExec
      BY <2>10, ExecFacts, Zenon
    <3>1. exec'[e].pc = "idle"
      BY <3>0 DEF IdleExec
    <3> QED
      BY <1>0, <2>4, <2>10, <3>1 DEF Mark, HandBackLost, WriteStatus, StatusLost
  <2>11. CASE Load(e) \/ LoadUnreadable(e)
    <3>1. exec'[e].pc = "plan"
      BY <2>11, ExecFacts, RehydratedFacts
    <3> QED
      BY <1>0, <2>4, <2>11, <3>1 DEF Load, LoadUnreadable
  <2>12. ASSUME NEW outcome, End(e, outcome) PROVE McpInv'
    <3>1. exec'[e].pc = "tail"
      BY <2>12, ExecFacts, Zenon
    <3> QED
      BY <1>0, <2>4, <2>12, <3>1 DEF End
  <2>13. CASE PlannerErrs(e)
    <3>1. CASE ~End(e, "error")
      <4>1. exec'[e].pc = "plan" /\ doc' = doc /\ mcpSaved' = mcpSaved
        BY <2>13, <3>1, ExecFacts, Zenon
      <4> QED
        BY <1>0, <2>4, <4>1
    <3> QED
      BY <2>12, <3>1
  <2>14. ASSUME NEW target \in {"mcp", "computer_use"}, Dispatch(e, target)
         PROVE  McpInv'
    <3>1. exec'[e].pc = target
      BY <2>14, ExecFacts, Zenon
    <3> QED
      BY <1>0, <2>4, <2>14, <3>1 DEF Dispatch
  <2> QED
    BY <1>2, <2>5, <2>6, <2>7, <2>8, <2>9, <2>10, <2>11, <2>12, <2>13, <2>14
    DEF ExecStep, ExecFault, LimitReached, PlannerStops
<1>3. ASSUME NEW p \in Resumers, ResumeStep(p) \/ ResumeFault(p) PROVE McpInv'
  <2>1. SoloResume(p) /\ OnlyResume(p)
    BY <1>0, <1>3, AloneSolo, ResumeMoves
  <2>2. /\ \A e \in Executions : exec'[e].pc # "snapshot"
        /\ \A q \in Resumers \ {p} : resumer'[q].pc # "snapshot"
    BY <2>1 DEF SoloResume, OnlyResume
  <2>3. mcpSaved' = mcpSaved
    BY <1>3 DEF ResumeStep, ResumeFault, ResumeDone, ResumeHandsBack,
       ResumeSnapshot, ResumeMark, MergeResume, MergeOrch, MergeLast, Requeue,
       ResumeHandsBackUnread, ResumeHandBackLost, MergeFails, RequeueLost
  <2>4. doc'.mcp \in {doc.mcp, resumer[p].seen.mcp}
    BY <1>3 DEF ResumeStep, ResumeFault, ResumeDone, ResumeHandsBack,
       ResumeSnapshot, ResumeMark, MergeResume, MergeOrch, MergeLast, Requeue,
       ResumeHandsBackUnread, ResumeHandBackLost, MergeFails, RequeueLost,
       HandbackDoc, EmptyDoc, TypeOK, Document
  <2>5. CASE ResumeHandsBack(p)
    BY <1>0, <2>2, <2>3, <2>5, ResumeFacts DEF McpInv, ResumeHandsBack
  <2>6. CASE ResumeHandsBackUnread(p)
    BY <2>6 DEF ResumeHandsBackUnread
  <2>7. CASE ResumeSnapshot(p)
    <3>1. resumer[p].pc = "snapshot" /\ ResumeTo(p, "mark")
      BY <2>7 DEF ResumeSnapshot
    <3>2. resumer'[p].pc # "snapshot"
      BY <3>1, ResumeFacts
    <3> QED
      BY <1>0, <2>2, <2>3, <2>4, <3>1, <3>2 DEF McpInv
  <2>8. CASE ~(ResumeHandsBack(p) \/ ResumeHandsBackUnread(p) \/ ResumeSnapshot(p))
    <3>1. doc'.mcp = doc.mcp
      BY <1>3, <2>8 DEF ResumeStep, ResumeFault, ResumeDone, ResumeMark,
         MergeResume, MergeOrch, MergeLast, Requeue, ResumeHandBackLost,
         MergeFails, RequeueLost, TypeOK, Document
    <3>2. \/ \E pc \in {"merge", "mergeOrch", "mergeLast", "requeue"} : ResumeTo(p, pc)
          \/ Requeue(p) \/ RequeueLost(p)
      BY <1>3, <2>8 DEF ResumeStep, ResumeFault, ResumeDone, ResumeMark,
         MergeResume, MergeOrch, MergeLast, ResumeHandBackLost, MergeFails
    <3>3. resumer'[p].pc # "snapshot"
      BY <3>2, ResumeFacts DEF IdleResume
    <3> QED
      BY <1>0, <2>2, <2>3, <3>1, <3>3 DEF McpInv
  <2> QED
    BY <2>5, <2>6, <2>7, <2>8
<1>4. ASSUME NEW p \in Resumers, ResumeBegin(p) PROVE McpInv'
  <2>1. /\ resumer'[p].pc = "agent"
        /\ \A q \in Resumers \ {p} : resumer'[q] = resumer[q]
    BY <1>4, ResumeFacts DEF OnlyResume
  <2> QED
    BY <1>0, <1>4, <2>1 DEF McpInv, ResumeBegin
<1>5. CASE UNCHANGED vars
  BY <1>0, <1>5 DEF vars, McpInv
<1> QED
  BY <1>1, <1>2, <1>3, <1>4, <1>5 DEF Next

(* The document keeps the state of the MCP step that was merged last, through *)
(* every handback of the run.                                                 *)
THEOREM McpStateCorrect == Spec => []McpStateKept
<1>1. McpInv => McpStateKept
  BY DEF McpInv, McpStateKept
<1> QED
  BY PlanCorrect, AloneInit, AloneNext, McpNext, <1>1, PTL DEF Spec

-----------------------------------------------------------------------------
(* The work that survives *)

\* The steps that count: all that ran, unless a state was rebuilt from nothing.
Counted == IF "unreadable" \in excuses THEN {} ELSE ran

\* What an execution that starts from the document will know.
Reach(d) == Ids(WithResult(d.orch.results, ResumeResult(d)))

\* The document is complete: a queued run can be claimed.
Ready(d, counted) ==
    IF d.orch.known THEN Ids(d.orch.plan) \cup counted \subseteq Reach(d)
    ELSE counted = {}

\* The plan is finished but for the step that asked.
Asks(orch, asked) ==
    /\ orch.known
    /\ asked \in Ids(orch.plan)
    /\ Ids(orch.plan) \subseteq Ids(orch.results) \cup {asked}

\* The document waits for an answer, or has got one.
Asking(d, counted) ==
    /\ Asks(d.orch, d.asked)
    /\ counted \subseteq Ids(d.orch.results) \cup {d.asked}
    /\ d.asked \in Ids(d.orch.results) \/ d.last = NoStep

\* What execution e has to know at each place.
ExecMem(e) ==
    LET known == Ids(exec[e].results) IN
    /\ exec[e].pc = "load" => Ready(doc, Counted)
    /\ exec[e].pc = "plan" => Ids(exec[e].plan) \cup Counted \subseteq known
    /\ Working(e) =>
         Ids(exec[e].plan) \subseteq known \cup {Current(e)} /\ Counted \subseteq known
    /\ exec[e].pc = "mark" => Asking(doc, Counted)

\* What resume p has read, and what the document is at each place.
ResumeMem(p) ==
    LET orch == resumer[p].orch IN
    /\ resumer[p].pc # "idle" => Asks(orch, resumer[p].asked)
    /\ resumer[p].pc \in {"agent", "snapshot", "mark", "merge", "mergeOrch"} =>
         doc.orch = orch /\ doc.asked = resumer[p].asked
    /\ resumer[p].pc = "mergeOrch" => doc.resume = ResumedStep(orch)
    /\ resumer[p].pc = "mergeLast" => doc.asked \in Ids(doc.orch.results)
    /\ resumer[p].pc = "requeue" => Ready(doc, Counted)

MemInv ==
    excuses \cap {"unmerged", "overlap"} = {} =>
        /\ status = "queued" => Ready(doc, Counted)
        /\ status = "attention" => Asking(doc, Counted)
        /\ \A e \in Executions : ExecMem(e)
        /\ \A p \in Resumers : ResumeMem(p)

(* A plan that misses one result resumes the step of that.                   *)
LEMMA ResumedIsAsked ==
    ASSUME NEW orch \in OrchState, NEW asked \in Steps, Unique(orch.plan),
           Asks(orch, asked), asked \notin Ids(orch.results)
    PROVE  ResumedStep(orch) = asked
<1>1. PICK i \in 1..Len(orch.plan) : orch.plan[i] = asked
  BY Zenon DEF Asks, Ids
<1>2. asked # Extra
  BY DEF Steps, Extra
<1>3. ASSUME NEW j \in Open(orch) PROVE j = i
  <2>1. j \in 1..Len(orch.plan) /\ orch.plan[j] \notin Ids(orch.results)
    BY <1>3 DEF Open
  <2>2. orch.plan[j] \in Ids(orch.plan)
    BY <2>1, Zenon DEF Ids
  <2>3. orch.plan[j] = asked
    BY <2>1, <2>2 DEF Asks
  <2> QED
    BY <1>1, <1>2, <2>1, <2>3 DEF Unique
<1>4. i \in Open(orch)
  BY <1>1 DEF Open
<1>5. FirstOpen(orch) = {i}
  <2>1. i <= i
    OBVIOUS
  <2> QED
    BY <1>3, <1>4, <2>1 DEF FirstOpen
<1>6. (CHOOSE j \in FirstOpen(orch) : TRUE) = i
  BY <1>5
<1> QED
  BY <1>1, <1>5, <1>6 DEF ResumedStep

(* A document that waits for an answer makes a run ready once the answer is    *)
(* in the results, or where a rebuilt state looks for it.                    *)
LEMMA AnsweredReady ==
    ASSUME NEW d \in Document, NEW counted, Asking(d, counted),
           d.asked \in Ids(d.orch.results) \/ d.resume = d.asked
    PROVE  Ready(d, counted)
<1>0. /\ d.orch.results \in Seq(StepIds) /\ d.orch.plan \in Seq(Steps)
      /\ ResumeResult(d) \in StepIds \cup {NoStep}
  BY DEF Document, OrchState, ResumeResult
<1>1. Ids(d.orch.results) \subseteq Reach(d)
  BY <1>0, WithResultType DEF Reach
<1>2. d.asked \in Reach(d)
  <2>1. CASE d.asked \in Ids(d.orch.results)
    BY <1>1, <2>1
  <2>2. CASE d.asked \notin Ids(d.orch.results)
    <3>1. ResumeResult(d) = d.asked
      BY <2>2 DEF Asking, ResumeResult
    <3>2. d.asked \in Steps
      BY <1>0, IdsType DEF Asking, Asks
    <3>3. d.asked # NoStep
      BY <3>2 DEF Steps, NoStep
    <3> QED
      BY <1>0, <3>1, <3>3, WithResultType DEF Reach
  <2> QED
    BY <2>1, <2>2
<1> QED
  BY <1>1, <1>2 DEF Asking, Asks, Ready

(* A state rebuilt from a document that is ready knows all it has to.        *)
LEMMA RehydratedMem ==
    ASSUME Ready(doc, Counted)
    PROVE  Ids(Rehydrated(doc).plan) \cup Counted \subseteq Ids(Rehydrated(doc).results)
<1>1. CASE doc.orch.known
  BY <1>1, RehydratedFacts DEF Ready, Reach
<1>2. CASE ~doc.orch.known
  <2>1. Ids(<<>>) = {}
    BY DEF Ids
  <2> QED
    BY <1>2, <2>1, RehydratedFacts DEF Ready
<1> QED
  BY <1>1, <1>2

(* Initially there is nothing to know.                                       *)
LEMMA MemInit == Init => MemInv
<1> SUFFICES ASSUME Init PROVE MemInv
  OBVIOUS
<1>1. Ready(doc, Counted)
  BY DEF Init, Ready, Counted, EmptyDoc, Unknown
<1> QED
  BY <1>1 DEF Init, MemInv, ExecMem, ResumeMem, Working, IdleExec, IdleResume

\* The part of MemInv the places of the sessions do not matter for.
DocMem ==
    /\ status = "queued" => Ready(doc, Counted)
    /\ status = "attention" => Asking(doc, Counted)

(* With one session, only that has to be looked at.                          *)
LEMMA MemOnly ==
    ASSUME NEW e \in Executions, SoloExec(e), Only(e), DocMem', ExecMem(e)'
    PROVE  MemInv'
<1>1. \A p \in Resumers : resumer'[p].pc = "idle"
  BY DEF SoloExec, Only
<1>2. \A f \in Executions \ {e} : exec'[f].pc = "idle"
  BY DEF SoloExec, Only
<1>3. \A p \in Resumers : ResumeMem(p)'
  BY <1>1 DEF ResumeMem
<1>4. \A f \in Executions \ {e} : ExecMem(f)'
  BY <1>2 DEF ExecMem, Working
<1> QED
  BY <1>3, <1>4 DEF MemInv, DocMem

LEMMA MemOnlyResume ==
    ASSUME NEW p \in Resumers, SoloResume(p), OnlyResume(p), DocMem', ResumeMem(p)'
    PROVE  MemInv'
<1>1. \A q \in Resumers \ {p} : resumer'[q].pc = "idle"
  BY DEF SoloResume, OnlyResume
<1>2. \A e \in Executions : exec'[e].pc = "idle"
  BY DEF SoloResume, OnlyResume
<1>3. \A q \in Resumers \ {p} : ResumeMem(q)'
  BY <1>1 DEF ResumeMem
<1>4. \A e \in Executions : ExecMem(e)'
  BY <1>2 DEF ExecMem, Working
<1> QED
  BY <1>3, <1>4 DEF MemInv, DocMem

(* What an execution has to know is kept by its steps.                       *)
LEMMA MemExec ==
    ASSUME TypeOK, PlanInv, Alone, MemInv, NEW e \in Executions,
           ExecStep(e) \/ ExecFault(e),
           excuses' \cap {"unmerged", "overlap"} = {}, excuses \subseteq excuses'
    PROVE  MemInv'
<1>0. /\ ExecMem(e) /\ SoloExec(e) /\ status = "running" /\ Only(e)
      /\ exec[e].plan \in Seq(Steps) /\ exec[e].results \in Seq(StepIds)
  BY ExecMoves, AloneSolo DEF MemInv, TypeOK, ExecState
<1>1. ASSUME status' \notin {"queued", "attention"}, ExecMem(e)' PROVE MemInv'
  BY <1>0, <1>1, MemOnly DEF DocMem
<1>2. CASE Load(e)
  <2>1. /\ exec'[e] = Rehydrated(doc) /\ exec[e].pc = "load"
        /\ UNCHANGED <<status, doc, ran, excuses>>
    BY <1>2, ExecFacts, Zenon DEF Load
  <2>2. Ids(exec'[e].plan) \cup Counted \subseteq Ids(exec'[e].results)
    BY <1>0, <2>1, RehydratedMem DEF ExecMem
  <2>3. exec'[e].pc = "plan" /\ Counted' = Counted
    BY <2>1, RehydratedFacts DEF Counted
  <2> QED
    BY <1>0, <1>1, <2>1, <2>2, <2>3 DEF ExecMem, Working
<1>3. CASE LoadUnreadable(e)
  <2>1. /\ exec'[e] = Rehydrated(EmptyDoc) /\ status' = status
        /\ "unreadable" \in excuses'
    BY <1>3, ExecFacts, Zenon DEF LoadUnreadable
  <2>2. exec'[e].pc = "plan" /\ exec'[e].plan = <<>> /\ Counted' = {}
    BY <2>1, RehydratedFacts DEF Counted, EmptyDoc, Unknown
  <2>3. Ids(exec'[e].plan) = {}
    BY <2>2 DEF Ids
  <2> QED
    BY <1>0, <1>1, <2>1, <2>2, <2>3 DEF ExecMem, Working
<1>4. ASSUME NEW outcome, End(e, outcome) PROVE MemInv'
  <2>1. exec'[e].pc = "tail"
    BY <1>4, ExecFacts, Zenon
  <2> QED
    BY <1>0, <1>1, <1>4, <2>1 DEF End, ExecMem, Working
<1>5. CASE PlannerErrs(e)
  <2>1. CASE ~End(e, "error")
    <3>1. /\ exec'[e].pc = "plan" /\ exec[e].pc = "plan"
          /\ exec'[e].plan = exec[e].plan /\ exec'[e].results = exec[e].results
          /\ UNCHANGED <<status, doc, ran, excuses>>
      BY <1>5, <2>1, ExecFacts, Zenon
    <3> QED
      BY <1>0, <1>1, <3>1 DEF ExecMem, Working, Counted
  <2> QED
    BY <1>4, <2>1
<1>6. ASSUME NEW target \in {"mcp", "computer_use"}, Dispatch(e, target)
      PROVE  MemInv'
  <2>1. /\ exec'[e].pc = target /\ exec'[e].results = exec[e].results
        /\ exec'[e].plan = Append(exec[e].plan, issued + 1)
    BY <1>6, ExecFacts, Zenon
  <2>2. exec[e].pc = "plan" /\ UNCHANGED <<status, doc, ran, excuses>>
    BY <1>6 DEF Dispatch
  <2>3. issued + 1 \in Steps
    BY DEF TypeOK, Steps
  <2>4. /\ Ids(exec'[e].plan) = Ids(exec[e].plan) \cup {issued + 1}
        /\ Current(e)' = issued + 1
    BY <1>0, <2>1, <2>3, IdsAppend DEF Current
  <2>5. Counted' = Counted
    BY <2>2 DEF Counted
  <2> QED
    BY <1>0, <1>1, <2>1, <2>2, <2>4, <2>5 DEF ExecMem, Working
<1>7. CASE McpDone(e) \/ McpUnsaved(e) \/ ComputerUseDone(e)
  <2>1. /\ exec'[e].pc = "plan" /\ exec'[e].plan = exec[e].plan
        /\ exec'[e].results = Append(exec[e].results, Current(e))
    BY <1>7, ExecFacts, Zenon
  <2>2. Working(e) /\ ran' = ran \cup {Current(e)} /\ UNCHANGED <<status, excuses>>
    BY <1>7 DEF McpDone, McpUnsaved, ComputerUseDone, Record, Working
  <2>3. Current(e) \in StepIds
    BY <2>2, CurrentType DEF PlanInv, StepIds
  <2>4. Ids(exec'[e].results) = Ids(exec[e].results) \cup {Current(e)}
    BY <1>0, <2>1, <2>3, IdsAppend
  <2>5. Counted' \subseteq Counted \cup {Current(e)}
    BY <2>2 DEF Counted
  <2> QED
    BY <1>0, <1>1, <2>1, <2>2, <2>4, <2>5 DEF ExecMem, Working
<1>8. CASE HandBack(e) \/ HandBackUnread(e)
  <2>1. /\ exec'[e].pc = "snapshot" /\ exec'[e].plan = exec[e].plan
        /\ exec'[e].results = exec[e].results
    BY <1>8, ExecFacts, Zenon
  <2>2. Working(e) /\ status' = status /\ Counted' = Counted
    BY <1>8 DEF HandBack, HandBackUnread, Working, Counted
  <2> QED
    BY <1>0, <1>1, <2>1, <2>2 DEF ExecMem, Working, Current
<1>9. CASE Snapshot(e)
  <2>1. /\ Working(e) /\ status' = status /\ Counted' = Counted
        /\ doc' = HandbackDoc(Serialised(e), Current(e), exec[e].seen)
    BY <1>9 DEF Snapshot, Working, Counted
  <2>2. exec'[e].pc = "mark"
    BY <1>9, ExecFacts, Zenon
  <2>3. /\ doc'.orch = Serialised(e) /\ doc'.asked = Current(e)
        /\ doc'.last = NoStep
    BY <2>1 DEF HandbackDoc, EmptyDoc
  <2>4. Current(e) \in Ids(exec[e].plan)
    BY <2>1, CurrentType DEF PlanInv
  <2>5. /\ Ids(exec[e].plan) \subseteq Ids(exec[e].results) \cup {Current(e)}
        /\ Counted \subseteq Ids(exec[e].results)
    BY <1>0, <2>1, Zenon DEF ExecMem
  <2>6. /\ doc'.orch.known
        /\ doc'.orch.plan = exec[e].plan /\ doc'.orch.results = exec[e].results
    BY <2>3 DEF Serialised
  <2>7. Asking(doc', Counted')
    BY <2>1, <2>3, <2>4, <2>5, <2>6 DEF Asking, Asks
  <2> QED
    BY <1>0, <1>1, <2>1, <2>2, <2>7 DEF ExecMem, Working
<1>10. CASE Mark(e)
  <2>1. /\ exec[e].pc = "mark" /\ status' = "attention" /\ doc' = doc
        /\ Counted' = Counted
    BY <1>10 DEF Mark, Counted
  <2>2. exec'[e] = IdleExec
    BY <1>10, ExecFacts, Zenon
  <2>3. ExecMem(e)'
    BY <2>2 DEF ExecMem, Working, IdleExec
  <2>4. DocMem'
    BY <1>0, <2>1 DEF DocMem, ExecMem
  <2> QED
    BY <1>0, <2>3, <2>4, MemOnly
<1>11. CASE HandBackLost(e) \/ WriteStatus(e) \/ StatusLost(e)
  <2>1. exec'[e] = IdleExec
    BY <1>11, ExecFacts, Zenon
  <2>2. status' \notin {"queued", "attention"}
    BY <1>0, <1>11 DEF HandBackLost, WriteStatus, StatusLost, PlanInv
  <2> QED
    BY <1>1, <2>1, <2>2 DEF ExecMem, Working, IdleExec
<1> QED
  BY <1>2, <1>3, <1>4, <1>5, <1>6, <1>7, <1>8, <1>9, <1>10, <1>11
  DEF ExecStep, ExecFault, LimitReached, PlannerStops

(* What a resume has to know is kept by its steps.                           *)
LEMMA MemResume ==
    ASSUME TypeOK, TypeOK', AskInv, IdInv, Alone, MemInv, NEW p \in Resumers,
           ResumeStep(p) \/ ResumeFault(p),
           excuses' \cap {"unmerged", "overlap"} = {}, excuses \subseteq excuses'
    PROVE  MemInv'
<1> DEFINE orch == resumer[p].orch
           asked == resumer[p].asked
<1>0. /\ ResumeMem(p) /\ SoloResume(p) /\ status = "attention" /\ OnlyResume(p)
      /\ Asking(doc, Counted) /\ Asks(orch, asked) /\ resumer[p].pc # "idle"
  BY ResumeMoves, AloneSolo DEF MemInv, ResumeMem
<1>1. /\ orch \in OrchState /\ asked \in Steps /\ Unique(orch.plan)
      /\ orch.plan \in Seq(Steps) /\ orch.results \in Seq(StepIds)
      /\ doc \in Document /\ doc' \in Document
  BY <1>0 DEF TypeOK, AskInv, IdInv, Sound, ResumeState, OrchState
<1>2. asked \in Ids(orch.results) \/ ResumedStep(orch) = asked
  BY <1>0, <1>1, ResumedIsAsked
<1>3. Counted' \subseteq Counted \cup {asked}
  BY <1>0 DEF ResumeStep, ResumeFault, ResumeDone, ResumeHandsBack,
       ResumeSnapshot, ResumeMark, MergeResume, MergeOrch, MergeLast, Requeue,
       ResumeHandsBackUnread, ResumeHandBackLost, MergeFails, RequeueLost, Counted
<1>4. ASSUME status' = "attention", Asking(doc', Counted'), ResumeMem(p)'
      PROVE  MemInv'
  BY <1>0, <1>4, MemOnlyResume DEF DocMem
<1>5. ASSUME NEW pc, ResumeTo(p, pc)
      PROVE  resumer'[p].pc = pc /\ resumer'[p].orch = orch /\ resumer'[p].asked = asked
  BY <1>5, ResumeFacts, Zenon
<1> HIDE DEF orch, asked
<1>6. CASE ResumeDone(p) \/ ResumeMark(p) \/ ResumeHandBackLost(p)
  <2>1. /\ ResumeTo(p, "merge") /\ status' = "attention" /\ doc' = doc
        /\ resumer[p].pc \in {"agent", "snapshot", "mark"}
    BY <1>0, <1>6 DEF ResumeDone, ResumeMark, ResumeHandBackLost
  <2>2. doc.orch = orch /\ doc.asked = asked
    BY <1>0, <2>1 DEF ResumeMem, orch, asked
  <2>3. Asking(doc', Counted')
    BY <1>0, <1>3, <2>1, <2>2 DEF Asking
  <2>4. ResumeMem(p)'
    BY <1>0, <1>5, <2>1, <2>2 DEF ResumeMem
  <2> QED
    BY <1>4, <2>1, <2>3, <2>4
<1>7. CASE ResumeHandsBack(p) \/ ResumeHandsBackUnread(p)
  <2>1. /\ status' = "attention" /\ doc' = doc /\ resumer[p].pc = "agent"
        /\ Counted' = Counted
    BY <1>0, <1>7 DEF ResumeHandsBack, ResumeHandsBackUnread, Counted
  <2>2. /\ resumer'[p].pc = "snapshot" /\ resumer'[p].orch = orch
        /\ resumer'[p].asked = asked
    BY <1>5, <1>7, ResumeFacts DEF ResumeHandsBackUnread, orch, asked
  <2>3. doc.orch = orch /\ doc.asked = asked
    BY <1>0, <2>1 DEF ResumeMem, orch, asked
  <2>4. ResumeMem(p)'
    BY <1>0, <2>1, <2>2, <2>3 DEF ResumeMem
  <2> QED
    BY <1>0, <1>4, <2>1, <2>4
<1>8. CASE ResumeSnapshot(p)
  <2>1. /\ ResumeTo(p, "mark") /\ status' = "attention" /\ Counted' = Counted
        /\ resumer[p].pc = "snapshot"
    BY <1>0, <1>8 DEF ResumeSnapshot, Counted
  <2>2. doc.orch = orch /\ doc.asked = asked
    BY <1>0, <2>1 DEF ResumeMem, orch, asked
  <2>3. doc'.orch = orch /\ doc'.asked = asked /\ doc'.last = NoStep
    BY <1>0, <1>8 DEF ResumeSnapshot, HandbackDoc, EmptyDoc, Asks, orch, asked
  <2>4. Asking(doc', Counted')
    BY <1>0, <2>1, <2>2, <2>3 DEF Asking
  <2>5. ResumeMem(p)'
    BY <1>0, <1>5, <2>1, <2>3 DEF ResumeMem
  <2> QED
    BY <1>4, <2>1, <2>4, <2>5
<1>9. CASE MergeResume(p)
  <2>1. /\ ResumeTo(p, "mergeOrch") /\ status' = "attention"
        /\ Counted' = Counted /\ resumer[p].pc = "merge"
        /\ doc'.orch = doc.orch /\ doc'.asked = doc.asked /\ doc'.last = doc.last
        /\ doc'.resume = ResumedStep(orch)
    BY <1>0, <1>1, <1>9 DEF MergeResume, Counted, Document, orch
  <2>2. doc.orch = orch /\ doc.asked = asked
    BY <1>0, <2>1 DEF ResumeMem, orch, asked
  <2>3. Asking(doc', Counted')
    BY <1>0, <2>1 DEF Asking
  <2>4. ResumeMem(p)'
    BY <1>0, <1>5, <2>1, <2>2 DEF ResumeMem
  <2> QED
    BY <1>4, <2>1, <2>3, <2>4
<1>10. CASE MergeOrch(p)
  <2>1. /\ ResumeTo(p, "mergeLast") /\ status' = "attention"
        /\ Counted' = Counted /\ resumer[p].pc = "mergeOrch"
        /\ doc'.orch = [known |-> TRUE, plan |-> orch.plan,
                        results |-> Append(orch.results, ResumedStep(orch))]
        /\ doc'.asked = doc.asked
    BY <1>0, <1>1, <1>10 DEF MergeOrch, Counted, Document, orch
  <2>2. doc.orch = orch /\ doc.asked = asked
    BY <1>0, <2>1 DEF ResumeMem, orch, asked
  <2>3. ResumedStep(orch) \in StepIds
    BY <1>1, ResumedStepType
  <2>4. Ids(doc'.orch.results) = Ids(orch.results) \cup {ResumedStep(orch)}
    BY <1>1, <2>1, <2>3, IdsAppend
  <2>5. asked \in Ids(doc'.orch.results)
    BY <1>2, <2>4
  <2>6. Asking(doc', Counted')
    BY <1>0, <2>1, <2>2, <2>4, <2>5 DEF Asking, Asks
  <2>7. ResumeMem(p)'
    BY <1>0, <1>5, <2>1, <2>2, <2>5 DEF ResumeMem
  <2> QED
    BY <1>4, <2>1, <2>6, <2>7
<1>11. CASE MergeLast(p)
  <2>1. /\ ResumeTo(p, "requeue") /\ status' = "attention"
        /\ Counted' = Counted /\ resumer[p].pc = "mergeLast"
        /\ doc'.orch = doc.orch /\ doc'.asked = doc.asked
    BY <1>0, <1>1, <1>11 DEF MergeLast, Counted, Document
  <2>2. doc.asked \in Ids(doc.orch.results)
    BY <1>0, <2>1 DEF ResumeMem
  <2>3. Asking(doc', Counted')
    BY <1>0, <2>1, <2>2 DEF Asking
  <2>4. Ready(doc', Counted')
    BY <1>1, <2>1, <2>2, <2>3, AnsweredReady
  <2>5. ResumeMem(p)'
    BY <1>0, <1>5, <2>1, <2>4 DEF ResumeMem
  <2> QED
    BY <1>4, <2>1, <2>3, <2>5
<1>12. CASE MergeFails(p)
  <2>1. /\ ResumeTo(p, "requeue") /\ status' = "attention" /\ doc' = doc
        /\ Counted' = Counted /\ resumer[p].pc \in {"mergeOrch", "mergeLast"}
    BY <1>0, <1>12 DEF MergeFails, Counted
  <2>2. doc.asked \in Ids(doc.orch.results) \/ doc.resume = doc.asked
    <3>1. CASE resumer[p].pc = "mergeOrch"
      BY <1>0, <1>2, <3>1 DEF ResumeMem, orch, asked
    <3>2. CASE resumer[p].pc = "mergeLast"
      BY <1>0, <3>2 DEF ResumeMem
    <3> QED
      BY <2>1, <3>1, <3>2
  <2>3. Ready(doc, Counted)
    BY <1>0, <1>1, <2>2, AnsweredReady
  <2>4. ResumeMem(p)'
    BY <1>0, <1>5, <2>1, <2>3 DEF ResumeMem
  <2> QED
    BY <1>0, <1>4, <2>1, <2>4
<1>13. CASE Requeue(p) \/ RequeueLost(p)
  <2>1. /\ status' \in {"attention", "queued"} /\ doc' = doc
        /\ Counted' = Counted /\ resumer[p].pc = "requeue"
    BY <1>0, <1>13 DEF Requeue, RequeueLost, Counted
  <2>2. resumer'[p] = IdleResume
    BY <1>13, ResumeFacts
  <2>3. ResumeMem(p)'
    BY <2>2 DEF ResumeMem, IdleResume
  <2>4. DocMem'
    BY <1>0, <2>1 DEF DocMem, ResumeMem
  <2> QED
    BY <1>0, <2>3, <2>4, MemOnlyResume
<1> QED
  BY <1>6, <1>7, <1>8, <1>9, <1>10, <1>11, <1>12, <1>13
  DEF ResumeStep, ResumeFault

(* Every step keeps what has to be known.                                    *)
LEMMA MemNext ==
    TypeOK /\ TypeOK' /\ PlanInv /\ AskInv /\ IdInv /\ Alone /\ MemInv
      /\ [Next]_vars => MemInv'
<1> SUFFICES ASSUME TypeOK, TypeOK', PlanInv, AskInv, IdInv, Alone, MemInv,
                    [Next]_vars, excuses' \cap {"unmerged", "overlap"} = {}
             PROVE  MemInv'
  BY DEF MemInv
<1>0. excuses \subseteq excuses'
  BY ExcusesGrow
<1>1. excuses \cap {"unmerged", "overlap"} = {}
  BY <1>0
<1>2. ASSUME NEW e \in Executions, Claim(e) PROVE MemInv'
  <2>1. /\ ~Busy /\ status = "queued" /\ status' = "running" /\ resumer' = resumer
        /\ UNCHANGED <<doc, ran>> /\ excuses' = excuses
        /\ exec' = [exec EXCEPT ![e] = [IdleExec EXCEPT !.pc = "load"]]
    BY <1>2 DEF Claim, NoteOverlap
  <2>2. SoloExec(e) /\ Only(e) /\ exec'[e].pc = "load"
    BY <2>1 DEF Busy, SoloExec, Only, TypeOK, IdleExec
  <2>3. Ready(doc, Counted) /\ doc' = doc /\ Counted' = Counted
    BY <1>1, <2>1 DEF MemInv, Counted
  <2>4. ExecMem(e)' /\ DocMem'
    BY <2>1, <2>2, <2>3 DEF ExecMem, DocMem, Working
  <2> QED
    BY <2>2, <2>4, MemOnly
<1>3. ASSUME NEW p \in Resumers, ResumeBegin(p) PROVE MemInv'
  <2>1. /\ ~Busy /\ status = "attention" /\ status' = status
        /\ UNCHANGED <<doc, ran>> /\ excuses' = excuses
    BY <1>3 DEF ResumeBegin, NoteOverlap
  <2>2. /\ OnlyResume(p) /\ resumer'[p].pc = "agent"
        /\ resumer'[p].orch = doc.orch /\ resumer'[p].asked = doc.asked
    BY <1>3, ResumeFacts, Zenon
  <2>3. SoloResume(p)
    BY <2>1 DEF Busy, SoloResume
  <2>4. Asking(doc, Counted) /\ doc' = doc /\ Counted' = Counted
    BY <1>1, <2>1 DEF MemInv, Counted
  <2>5. ResumeMem(p)' /\ DocMem'
    BY <2>1, <2>2, <2>4 DEF ResumeMem, DocMem, Asking
  <2> QED
    BY <2>2, <2>3, <2>5, MemOnlyResume
<1>4. CASE UNCHANGED vars
  BY <1>1, <1>4 DEF vars, MemInv, ExecMem, ResumeMem, Working, Current, Counted
<1> QED
  BY <1>0, <1>2, <1>3, <1>4, MemExec, MemResume DEF Next

(* The invariants together.                                                  *)
LEMMA MemCorrect == Spec => [](TypeOK /\ IdInv /\ MemInv)
<1> DEFINE Inv == TypeOK /\ PlanInv /\ AskInv /\ IdInv /\ Alone /\ MemInv
<1>1. Init => Inv
  BY TypeInit, PlanInit, IdInit, AloneInit, MemInit
<1>2. Inv /\ [Next]_vars => Inv'
  BY TypeNext, PlanNext, AskNext, IdNext, AloneNext, MemNext
<1> QED
  BY <1>1, <1>2, PTL DEF Spec

(* When the planner is asked, the results of all the steps that ran are before *)
(* it, but for an unreadable document, a lost merge or sessions that met.    *)
THEOREM MemoryCorrect == Spec => []WorkSurvives
<1>1. TypeOK /\ IdInv /\ MemInv => WorkSurvives
  BY DEF MemInv, ExecMem, Counted, WorkSurvives, Forgetful
<1> QED
  BY MemCorrect, <1>1, PTL

(* A resume credits the step whose agent asked.                              *)
THEOREM AnswerCorrect == Spec => []AnsweredAsAsked
<1>1. ASSUME TypeOK, IdInv, MemInv PROVE AnsweredAsAsked
  <2> SUFFICES ASSUME excuses \cap {"unmerged", "overlap"} = {},
                      NEW p \in Resumers, resumer[p].pc # "idle",
                      resumer[p].asked \notin Ids(resumer[p].orch.results)
               PROVE  ResumedStep(resumer[p].orch) = resumer[p].asked
    BY DEF AnsweredAsAsked
  <2>1. Asks(resumer[p].orch, resumer[p].asked)
    BY <1>1 DEF MemInv, ResumeMem
  <2>2. /\ resumer[p].orch \in OrchState /\ Unique(resumer[p].orch.plan)
        /\ resumer[p].orch.plan \in Seq(Steps)
    BY <1>1 DEF TypeOK, ResumeState, OrchState, IdInv, Sound
  <2>3. resumer[p].asked \in Steps
    BY <2>1, <2>2, IdsType DEF Asks
  <2> QED
    BY <2>1, <2>2, <2>3, ResumedIsAsked
<1> QED
  BY MemCorrect, <1>1, PTL

-----------------------------------------------------------------------------
(* How long an execution can be *)

\* Results that may still be recorded.
Room(x) == IF Len(x.results) < MaxSteps THEN MaxSteps - Len(x.results) ELSE 0

\* Steps an execution can still take: seven at most for a result, and a few before
\* the first and after the last of them.
Left(x) ==
    CASE x.pc = "load" -> 7 * MaxSteps + 5
      [] x.pc = "plan" -> 7 * Room(x) + 4 - x.tries
      [] x.pc \in {"mcp", "computer_use"} -> 7 * Room(x) - 1
      [] x.pc = "snapshot" -> 2
      [] x.pc \in {"mark", "tail"} -> 1
      [] OTHER -> 0

\* A step is only dispatched while there is room for its result.
HasRoom(x) == x.pc \in {"mcp", "computer_use"} => Room(x) > 0
RoomInv == \A e \in Executions : HasRoom(exec[e])

\* Ways an execution moves from x to y.
Advances(x, y) ==
    \/ x.pc = "load" /\ y.pc = "plan" /\ y.tries = 0
    \/ x.pc = "plan" /\ y.pc = "tail"
    \/ /\ x.pc = "plan" /\ y.pc = "plan"
       /\ y.results = x.results /\ y.tries = x.tries + 1
    \/ /\ x.pc = "plan" /\ y.pc \in {"mcp", "computer_use"}
       /\ y.results = x.results /\ Len(x.results) < MaxSteps
    \/ /\ x.pc \in {"mcp", "computer_use"} /\ y.pc = "plan"
       /\ \E s \in StepIds : y.results = Append(x.results, s)
    \/ x.pc = "computer_use" /\ y.pc = "snapshot"
    \/ x.pc = "snapshot" /\ y.pc = "mark"
    \/ x.pc \in {"snapshot", "mark", "tail"} /\ y.pc = "idle"

(* What is left is a number, and which one depends on the place.             *)
LEMMA LeftIs ==
    ASSUME NEW x \in ExecState
    PROVE  /\ Room(x) \in 0..MaxSteps /\ x.tries \in 0..2
           /\ x.pc = "load" => Left(x) = 7 * MaxSteps + 5
           /\ x.pc = "plan" => Left(x) = 7 * Room(x) + 4 - x.tries
           /\ x.pc \in {"mcp", "computer_use"} => Left(x) = 7 * Room(x) - 1
           /\ x.pc = "snapshot" => Left(x) = 2
           /\ x.pc \in {"mark", "tail"} => Left(x) = 1
           /\ x.pc = "idle" => Left(x) = 0
<1>1. MaxSteps \in Nat
  BY OrchestratorAssumption
<1>2. Len(x.results) \in Nat /\ x.tries \in 0..2
  BY DEF ExecState, Attempts
<1>3. Room(x) \in 0..MaxSteps
  BY <1>1, <1>2 DEF Room
<1>4. x.pc = "load" => Left(x) = 7 * MaxSteps + 5
  BY DEF Left
<1>5. x.pc = "plan" => Left(x) = 7 * Room(x) + 4 - x.tries
  BY DEF Left
<1>6. x.pc \in {"mcp", "computer_use"} => Left(x) = 7 * Room(x) - 1
  BY DEF Left
<1>7. x.pc = "snapshot" => Left(x) = 2
  BY DEF Left
<1>8. x.pc \in {"mark", "tail"} => Left(x) = 1
  BY DEF Left
<1>9. x.pc = "idle" => Left(x) = 0
  BY DEF Left
<1> QED
  BY <1>2, <1>3, <1>4, <1>5, <1>6, <1>7, <1>8, <1>9

(* It is bounded.                                                            *)
LEMMA LeftBound ==
    ASSUME NEW x \in ExecState, HasRoom(x)
    PROVE  Left(x) \in 0..(7 * MaxSteps + 5)
<1>1. MaxSteps \in Nat
  BY OrchestratorAssumption
<1>2. x.pc \in {"idle", "load", "plan", "mcp", "computer_use", "snapshot", "mark", "tail"}
  BY DEF ExecState
<1>3. Room(x) \in 0..MaxSteps /\ x.tries \in 0..2
  BY LeftIs
<1> QED
  BY <1>1, <1>2, <1>3, LeftIs DEF HasRoom

(* An execution that advances has less left, and room for what it dispatched. *)
LEMMA AdvanceFacts ==
    ASSUME NEW x \in ExecState, NEW y \in ExecState, HasRoom(x), Advances(x, y)
    PROVE  HasRoom(y) /\ Left(y) < Left(x)
<1>1. MaxSteps \in Nat
  BY OrchestratorAssumption
<1>2. /\ Len(x.results) \in Nat /\ x.tries \in 0..2
      /\ Len(y.results) \in Nat /\ y.tries \in 0..2
      /\ x.results \in Seq(StepIds) /\ y.results \in Seq(StepIds)
  BY DEF ExecState, Attempts
<1>3. Room(x) \in 0..MaxSteps /\ Room(y) \in 0..MaxSteps
  BY <1>1, <1>2 DEF Room
<1>4. CASE x.pc = "load" /\ y.pc = "plan" /\ y.tries = 0
  BY <1>1, <1>3, <1>4, LeftIs DEF HasRoom
<1>5. CASE x.pc = "plan" /\ y.pc = "tail"
  <2>1. Left(x) = 7 * Room(x) + 4 - x.tries /\ Left(y) = 1
    BY <1>5, LeftIs
  <2>2. 7 * Room(x) \in Nat
    BY <1>1, <1>3
  <2>3. 7 * Room(x) + 4 - x.tries > 1
    BY <1>2, <2>2
  <2> QED
    BY <1>5, <2>1, <2>3 DEF HasRoom
<1>6. CASE /\ x.pc = "plan" /\ y.pc = "plan"
           /\ y.results = x.results /\ y.tries = x.tries + 1
  <2>1. Room(y) = Room(x)
    BY <1>6 DEF Room
  <2> QED
    BY <1>2, <1>3, <1>6, <2>1, LeftIs DEF HasRoom
<1>7. CASE /\ x.pc = "plan" /\ y.pc \in {"mcp", "computer_use"}
           /\ y.results = x.results /\ Len(x.results) < MaxSteps
  <2>1. Room(y) = Room(x) /\ Room(x) > 0
    BY <1>1, <1>2, <1>7 DEF Room
  <2> QED
    BY <1>2, <1>3, <1>7, <2>1, LeftIs DEF HasRoom
<1>8. CASE /\ x.pc \in {"mcp", "computer_use"} /\ y.pc = "plan"
           /\ \E s \in StepIds : y.results = Append(x.results, s)
  <2>1. Len(y.results) = Len(x.results) + 1
    BY <1>2, <1>8
  <2>2. Room(x) > 0 /\ Room(y) = Room(x) - 1
    BY <1>1, <1>2, <1>8, <2>1 DEF HasRoom, Room
  <2>3. Left(x) = 7 * Room(x) - 1 /\ Left(y) = 7 * Room(y) + 4 - y.tries
    BY <1>8, LeftIs
  <2>4. \A r \in Nat, n \in 0..2 : r > 0 => 7 * (r - 1) + 4 - n < 7 * r - 1
    OBVIOUS
  <2>5. Room(x) \in Nat /\ y.tries \in 0..2
    BY <1>1, <1>2, <1>3
  <2>6. Left(y) < Left(x)
    BY <2>2, <2>3, <2>4, <2>5
  <2> QED
    BY <1>8, <2>6 DEF HasRoom
<1>9. CASE x.pc = "computer_use" /\ y.pc = "snapshot"
  BY <1>3, <1>9, LeftIs DEF HasRoom
<1>10. CASE x.pc = "snapshot" /\ y.pc = "mark"
  BY <1>10, LeftIs DEF HasRoom
<1>11. CASE x.pc \in {"snapshot", "mark", "tail"} /\ y.pc = "idle"
  BY <1>11, LeftIs DEF HasRoom
<1> QED
  BY <1>4, <1>5, <1>6, <1>7, <1>8, <1>9, <1>10, <1>11 DEF Advances

(* Every step of an execution, failures included, advances it.               *)
LEMMA ExecAdvances ==
    ASSUME TypeOK, PlanInv, NEW e \in Executions, ExecStep(e) \/ ExecFault(e)
    PROVE  Advances(exec[e], exec'[e])
<1>0. /\ Rehydrated(doc).pc = "plan" /\ Rehydrated(doc).tries = 0
      /\ Rehydrated(EmptyDoc).pc = "plan" /\ Rehydrated(EmptyDoc).tries = 0
      /\ IdleExec.pc = "idle"
  BY DEF Rehydrated, IdleExec
<1>1. CASE Load(e) \/ LoadUnreadable(e)
  <2>1. exec[e].pc = "load"
    BY <1>1 DEF Load, LoadUnreadable
  <2> QED
    BY <1>0, <1>1, <2>1, ExecFacts DEF Advances
<1>2. ASSUME NEW outcome, End(e, outcome), exec[e].pc = "plan"
      PROVE  Advances(exec[e], exec'[e])
  <2>1. exec'[e].pc = "tail"
    BY <1>2, ExecFacts, Zenon
  <2> QED
    BY <1>2, <2>1 DEF Advances
<1>3. CASE PlannerErrs(e)
  <2>1. exec[e].pc = "plan"
    BY <1>3 DEF PlannerErrs
  <2>2. End(e, "error") \/ exec' = [exec EXCEPT ![e].tries = @ + 1]
    BY <1>3 DEF PlannerErrs
  <2>3. exec[e] \in ExecState /\ exec \in [Executions -> ExecState]
    BY DEF TypeOK
  <2>4. CASE exec' = [exec EXCEPT ![e].tries = @ + 1]
    <3> DEFINE n == exec[e].tries + 1
    <3>1. exec' = [exec EXCEPT ![e].tries = n]
      BY <2>4
    <3> HIDE DEF n
    <3>2. /\ exec'[e].pc = exec[e].pc /\ exec'[e].results = exec[e].results
          /\ exec'[e].tries = n
      BY <2>3, <3>1 DEF ExecState
    <3> QED
      BY <2>1, <3>2 DEF n, Advances
  <2> QED
    BY <1>2, <2>1, <2>2, <2>4
<1>4. ASSUME NEW target \in {"mcp", "computer_use"}, Dispatch(e, target)
      PROVE  Advances(exec[e], exec'[e])
  <2>1. exec[e].pc = "plan" /\ Len(exec[e].results) < MaxSteps
    BY <1>4 DEF Dispatch, WithinLimits
  <2>2. exec'[e].pc = target /\ exec'[e].results = exec[e].results
    BY <1>4, ExecFacts, Zenon
  <2> QED
    BY <2>1, <2>2 DEF Advances
<1>5. CASE McpDone(e) \/ McpUnsaved(e) \/ ComputerUseDone(e)
  <2>1. exec[e].pc \in {"mcp", "computer_use"}
    BY <1>5 DEF McpDone, McpUnsaved, ComputerUseDone
  <2>2. exec'[e].pc = "plan" /\ exec'[e].results = Append(exec[e].results, Current(e))
    BY <1>5, ExecFacts, Zenon
  <2>3. Current(e) \in StepIds
    BY <2>1, CurrentType DEF PlanInv, Working, StepIds
  <2> QED
    BY <2>1, <2>2, <2>3 DEF Advances
<1>6. CASE HandBack(e) \/ HandBackUnread(e) \/ Snapshot(e)
  BY <1>6, ExecFacts DEF HandBack, HandBackUnread, Snapshot, Advances
<1>7. CASE Mark(e) \/ HandBackLost(e) \/ WriteStatus(e) \/ StatusLost(e)
  <2>1. exec'[e] = IdleExec
    BY <1>7, ExecFacts, Zenon
  <2>2. exec[e].pc \in {"snapshot", "mark", "tail"}
    BY <1>7 DEF Mark, HandBackLost, WriteStatus, StatusLost
  <2> QED
    BY <1>0, <2>1, <2>2 DEF Advances
<1> QED
  BY <1>1, <1>2, <1>3, <1>4, <1>5, <1>6, <1>7
  DEF ExecStep, ExecFault, LimitReached, PlannerStops

\* An execution that is under way and moves has less left.
Shrinks ==
    \A e \in Executions :
        exec[e].pc # "idle" /\ exec'[e] # exec[e] => Left(exec'[e]) < Left(exec[e])

(* Every step preserves the room and lessens what is left.                   *)
LEMMA LeftNext ==
    ASSUME TypeOK, TypeOK', PlanInv, RoomInv, [Next]_vars
    PROVE  RoomInv' /\ Shrinks
<1> SUFFICES ASSUME NEW f \in Executions
             PROVE  /\ HasRoom(exec'[f])
                    /\ exec[f].pc # "idle" /\ exec'[f] # exec[f]
                          => Left(exec'[f]) < Left(exec[f])
  BY Zenon DEF RoomInv, Shrinks
<1>1. HasRoom(exec[f]) /\ exec[f] \in ExecState /\ exec'[f] \in ExecState
  BY DEF RoomInv, TypeOK
<1>2. CASE exec'[f] = exec[f]
  BY <1>1, <1>2
<1>3. ASSUME Claim(f) PROVE exec[f].pc = "idle" /\ HasRoom(exec'[f])
  <2>1. exec[f].pc = "idle" /\ exec'[f] = [IdleExec EXCEPT !.pc = "load"]
    BY <1>3 DEF Claim, TypeOK
  <2>2. exec'[f].pc = "load"
    BY <2>1 DEF IdleExec
  <2> QED
    BY <2>1, <2>2 DEF HasRoom
<1>4. ASSUME ExecStep(f) \/ ExecFault(f)
      PROVE  HasRoom(exec'[f]) /\ Left(exec'[f]) < Left(exec[f])
  <2>1. Advances(exec[f], exec'[f])
    BY <1>4, ExecAdvances
  <2> QED
    BY <1>1, <2>1, AdvanceFacts
<1>5. ASSUME NEW e \in Executions, e # f, Claim(e) \/ ExecStep(e) \/ ExecFault(e)
      PROVE  exec'[f] = exec[f]
  <2>1. CASE Claim(e)
    BY <1>5, <2>1 DEF Claim, TypeOK
  <2>2. CASE ExecStep(e) \/ ExecFault(e)
    BY <1>5, <2>2, ExecMoves DEF Only
  <2> QED
    BY <1>5, <2>1, <2>2
<1>6. ASSUME NEW p \in Resumers, ResumeBegin(p) \/ ResumeStep(p) \/ ResumeFault(p)
      PROVE  exec'[f] = exec[f]
  BY <1>6 DEF ResumeBegin, ResumeStep, ResumeFault, ResumeDone, ResumeHandsBack,
     ResumeHandsBackUnread, ResumeSnapshot, ResumeMark, ResumeHandBackLost, MergeResume,
     MergeOrch, MergeLast, MergeFails, Requeue, RequeueLost
<1>7. UNCHANGED vars => exec'[f] = exec[f]
  BY DEF vars
<1> QED
  BY <1>2, <1>3, <1>4, <1>5, <1>6, <1>7 DEF Next

(* An execution takes at most 7 * MaxSteps + 5 steps, whatever the planner   *)
(* answers, whatever agents do and whatever fails: every step of it leaves   *)
(* less to do.  (That it is taken is fairness, and SessionsEnd stays with    *)
(* TLC.)                                                                     *)
THEOREM ExecutionIsFinite ==
    Spec => /\ [](\A e \in Executions : Left(exec[e]) \in 0..(7 * MaxSteps + 5))
            /\ [][Shrinks]_vars
<1>1. Init => RoomInv
  BY DEF Init, RoomInv, HasRoom, IdleExec
<1>2. TypeOK /\ TypeOK' /\ PlanInv /\ RoomInv /\ [Next]_vars => RoomInv' /\ Shrinks
  BY LeftNext
<1>3. TypeOK /\ RoomInv => \A e \in Executions : Left(exec[e]) \in 0..(7 * MaxSteps + 5)
  <2> SUFFICES ASSUME TypeOK, RoomInv, NEW e \in Executions
               PROVE  Left(exec[e]) \in 0..(7 * MaxSteps + 5)
    BY Zenon
  <2>1. exec[e] \in ExecState /\ HasRoom(exec[e])
    BY DEF TypeOK, RoomInv
  <2> QED
    BY <2>1, LeftBound
<1> QED
  BY <1>1, <1>2, <1>3, PlanCorrect, PTL DEF Spec
=============================================================================
