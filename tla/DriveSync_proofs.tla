--------------------------- MODULE DriveSync_proofs ---------------------------
(***************************************************************************)
(* Proofs about DriveSync, for every set of paths and contents and every    *)
(* bound on executions, edits, calls and failures.                          *)
(***************************************************************************)
EXTENDS DriveSync, TLAPS

-----------------------------------------------------------------------------
(* The invariants. *)

\* What the upload loop holds in its hand between the upload and the status.
UploadInv ==
    /\ pc = "mark" /\ mark[2] = "committed" => offered[mark[1]] # Absent
    /\ CommittedWasUploaded

\* Rows that are still to be staged exist only where nobody has worked yet.
StagingInv ==
    /\ executions = 0 => pc = "start" /\ disk = NoFile /\ ~tracked
    /\ tracked => Rows # {}
    /\ tracked => \A p \in Paths :
                     row[p].st \in {"pending", "failed"} =>
                        pc \in {"stage", "rejected"} /\ disk[p] = Absent

Dirty(p) == disk[p] # Absent /\ disk[p] # staged[p]
Uncommitted(p) == change[p] \in {"pending", "failed"}
Detected(p) == found[p] = IF disk[p] = row[p].sum THEN Absent ELSE disk[p]

\* A row whose checksum is not the staged one came with a change.
RowInv ==
    \A p \in Paths :
        /\ row[p].st # "ready" => row[p].sum = Absent
        /\ row[p].st = "ready" /\ row[p].sum # staged[p] => change[p] # "none"

\* How far the tail of a settled, failure-free execution has got.
TailInv ==
    /\ pc \in TailPc \cup {"paused", "over"} => outcome # "none"
    /\ pc = "over" => outcome = "settled"
    /\ pc = "mark" => mark[1] \notin todo
    /\ (outcome = "settled" /\ clean) =>
          /\ pc = "detect" => \A p \in Rows \ todo : Detected(p)
          /\ pc = "scan" => \A p \in Present(disk) \ todo : Detected(p)
          /\ Rows # {} => \A p \in Paths : Dirty(p) =>
                /\ pc = "list" => Uncommitted(p) \/ (change[p] = "committed" /\ row[p].sum = disk[p])
                /\ pc \in {"commit", "mark"} =>
                      \/ Captured(p)
                      \/ p \in todo /\ Uncommitted(p)
                      \/ pc = "mark" /\ mark = <<p, "committed">> /\ offered[p] = disk[p]
                /\ pc = "over" => Captured(p)
          /\ pc = "mark" /\ mark[2] = "failed" => disk[mark[1]] = Absent

-----------------------------------------------------------------------------
(* Types, in four parts. *)

FilesOK ==
    /\ drive \in [Paths -> MaybeContent]
    /\ offered \in [Paths -> MaybeContent]
    /\ row \in [Paths -> RowState]
    /\ change \in [Paths -> ChangeState]
    /\ disk \in [Paths -> MaybeContent]
    /\ found \in [Paths -> MaybeContent]
    /\ staged \in [Paths -> MaybeContent]
    /\ todo \subseteq Paths /\ applying \subseteq Paths

MarkOK ==
    /\ mark \in {NoMark} \cup (Paths \X {"committed", "failed"})
    /\ IF pc = "mark" THEN mark \in Paths \X {"committed", "failed"} ELSE mark = NoMark

ControlOK ==
    /\ pc \in Pc
    /\ outcome \in {"none", "settled", "attention"}
    /\ tracked \in BOOLEAN /\ clean \in BOOLEAN

CountersOK ==
    /\ executions \in 0..MaxExecutions /\ edits \in 0..MaxEdits
    /\ userOps \in 0..MaxUserOps /\ faults \in 0..MaxFaults

(* Whatever a step writes to the drive, the rows, the changes or the VM are  *)
(* files, rows and changes again; change statuses come from the mark.        *)
LEMMA FilesType == FilesOK /\ MarkOK /\ [Next]_vars => FilesOK'
<1> SUFFICES ASSUME FilesOK, MarkOK, [Next]_vars PROVE FilesOK'
  OBVIOUS
<1> USE DEF FilesOK, user, history
<1>1. CASE StageBegin
  BY <1>1 DEF StageBegin, Pending, NoRow, RowState, MaybeContent
<1>2. CASE \E p \in Paths : StageFile(p)
  BY <1>2 DEF StageFile, Ready, RowState, MaybeContent
<1>3. ASSUME NEW p \in Paths, StageFails(p) PROVE FilesOK'
  <2>1. PICK st \in {row[p].st, "failed"} : row' = [row EXCEPT ![p].st = st]
    BY <1>3 DEF StageFails
  <2>2. [row[p] EXCEPT !.st = st] \in RowState
    BY DEF RowState
  <2>3. row' \in [Paths -> RowState]
    BY <2>1, <2>2
  <2> QED
    BY <1>3, <2>3 DEF StageFails
<1>4. CASE StageEnd \/ ListChanges \/ \E out \in {"settled", "attention"} : Return(out)
  BY <1>4 DEF StageEnd, ListChanges, Return, Rows
<1>5. CASE Upsert
  BY <1>5 DEF Upsert, Ready, RowState, MaybeContent, ChangeState, NoFile
<1>6. CASE Mark
  <2>1. mark[2] \in ChangeState
    BY <1>6 DEF Mark, MarkOK, ChangeState
  <2> QED
    BY <1>6, <2>1 DEF Mark
<1>7. CASE \E p \in Paths : HashFile(p) \/ HashFails(p) \/ Upload(p)
  BY <1>7 DEF HashFile, HashFails, Upload, MaybeContent
<1>8. CASE TailAborts \/ TailEnd \/ DetectFails \/ Scan
  BY <1>8 DEF TailAborts, TailEnd, DetectFails, Scan, NoFile, MaybeContent, Present, Rows
<1>9. CASE Reprovision \/ Resume \/ \E p \in Paths, c \in MaybeContent : Edit(p, c)
  BY <1>9 DEF Reprovision, Resume, Edit, MaybeContent, NoFile
<1>10. CASE User
  BY <1>10 DEF User, UserCall, Put, Rename, ApplyBegin, ApplyCopy, CommitFile, MaybeContent
<1>11. CASE UNCHANGED vars
  BY <1>11 DEF vars
<1> QED
  BY <1>1, <1>2, <1>3, <1>4, <1>5, <1>6, <1>7, <1>8, <1>9, <1>10, <1>11 DEF Next, Runtime

(* A status waits to be written exactly at "mark", for a path of the run.    *)
LEMMA MarkType == FilesOK /\ MarkOK /\ [Next]_vars => MarkOK'
<1> SUFFICES ASSUME FilesOK, MarkOK, [Next]_vars PROVE MarkOK'
  OBVIOUS
<1> USE DEF MarkOK, user, history, NoMark
<1>1. CASE StageBegin \/ StageEnd \/ \E p \in Paths : StageFile(p) \/ StageFails(p)
  BY <1>1 DEF StageBegin, StageEnd, StageFile, StageFails
<1>2. CASE Scan \/ Upsert \/ DetectFails \/ ListChanges \/ Reprovision \/ Resume
  BY <1>2 DEF Scan, Upsert, DetectFails, ListChanges, Reprovision, Resume
<1>3. CASE \E out \in {"settled", "attention"} : Return(out)
  BY <1>3 DEF Return
<1>4. CASE \E p \in Paths : HashFile(p) \/ HashFails(p)
  BY <1>4 DEF HashFile, HashFails
<1>5. CASE \E p \in Paths : Upload(p)
  BY <1>5 DEF Upload
<1>6. CASE Mark \/ TailEnd \/ TailAborts
  BY <1>6 DEF Mark, TailEnd, TailAborts, AfterTail
<1>7. CASE User \/ \E p \in Paths, c \in MaybeContent : Edit(p, c)
  BY <1>7 DEF User, UserCall, Put, Rename, ApplyBegin, ApplyCopy, CommitFile, Edit
<1>8. CASE UNCHANGED vars
  BY <1>8 DEF vars
<1> QED
  BY <1>1, <1>2, <1>3, <1>4, <1>5, <1>6, <1>7, <1>8 DEF Next, Runtime

(* The program counter, the outcome and the flags keep their types.          *)
LEMMA ControlType == ControlOK /\ [Next]_vars => ControlOK'
<1> SUFFICES ASSUME ControlOK, [Next]_vars PROVE ControlOK'
  OBVIOUS
<1> USE DEF ControlOK, Pc, TailPc, Fault, NoFault, user, history
<1>1. CASE StageBegin \/ \E p \in Paths : StageFile(p) \/ StageFails(p)
  BY <1>1 DEF StageBegin, StageFile, StageFails
<1>2. CASE \/ StageEnd \/ Upsert \/ ListChanges \/ Mark
           \/ \E out \in {"settled", "attention"} : Return(out)
  BY <1>2 DEF StageEnd, Upsert, ListChanges, Mark, Return
<1>3. CASE \E p \in Paths : HashFile(p) \/ HashFails(p)
  BY <1>3 DEF HashFile, HashFails
<1>4. ASSUME NEW p \in Paths, Upload(p) PROVE ControlOK'
  <2>1. NoFault \/ Fault("upload")
    BY <1>4 DEF Upload
  <2> QED
    BY <1>4, <2>1 DEF Upload
<1>5. CASE Scan \/ DetectFails \/ TailEnd \/ TailAborts
  BY <1>5 DEF Scan, DetectFails, TailEnd, TailAborts, AfterTail
<1>6. CASE Reprovision \/ Resume \/ \E p \in Paths, c \in MaybeContent : Edit(p, c)
  BY <1>6 DEF Reprovision, Resume, Edit
<1>7. CASE User
  BY <1>7 DEF User, UserCall, Put, Rename, ApplyBegin, ApplyCopy, CommitFile
<1>8. CASE UNCHANGED vars
  BY <1>8 DEF vars
<1> QED
  BY <1>1, <1>2, <1>3, <1>4, <1>5, <1>6, <1>7, <1>8 DEF Next, Runtime

(* No step takes a counter over its bound.                                   *)
LEMMA CountersType == CountersOK /\ [Next]_vars => CountersOK'
  BY ConstantsAssumption
  DEF CountersOK, vars, Next, Runtime, StageBegin, StageFile, StageFails, StageEnd, Return,
      HashFile, HashFails, Upload, Scan, Upsert, DetectFails, ListChanges, Mark, TailEnd,
      TailAborts, Reprovision, Edit, Resume, User, UserCall, Put, Rename, ApplyBegin,
      ApplyCopy, CommitFile, NoFault, Fault, user, history

TypesOK == FilesOK /\ MarkOK /\ ControlOK /\ CountersOK

(* The four parts together are inductive.                                   *)
LEMMA TypesInvariant == Spec => []TypesOK
<1>1. Init => TypesOK
  <2>1. Init => FilesOK
    BY DEF Init, FilesOK, MaybeContent, NoFile, NoRow, Pending, RowState, ChangeState
  <2>2. Init => MarkOK /\ ControlOK
    BY DEF Init, MarkOK, ControlOK, NoMark, Pc
  <2>3. Init => CountersOK
    BY ConstantsAssumption DEF Init, CountersOK
  <2> QED
    BY <2>1, <2>2, <2>3 DEF TypesOK
<1>2. TypesOK /\ [Next]_vars => TypesOK'
  BY FilesType, MarkType, ControlType, CountersType DEF TypesOK
<1> QED
  BY <1>1, <1>2, PTL DEF Spec

(* Every variable of DriveSync keeps its type.                               *)
THEOREM TypeCorrect == Spec => []TypeOK
<1>1. TypesOK => TypeOK
  BY DEF TypesOK, TypeOK, FilesOK, MarkOK, ControlOK, CountersOK
<1> QED
  BY <1>1, TypesInvariant, PTL

-----------------------------------------------------------------------------
(* What is committed was uploaded. *)

(* A 'committed' on its way, or arrived, has an object behind it: uploads    *)
(* only replace objects, and the verdict is the upload's own.                *)
LEMMA UploadStep == TypesOK /\ UploadInv /\ [Next]_vars => UploadInv'
<1> SUFFICES ASSUME FilesOK, MarkOK, UploadInv, [Next]_vars PROVE UploadInv'
  BY DEF TypesOK
<1> USE DEF UploadInv, CommittedWasUploaded, user, history
<1>1. CASE StageBegin \/ StageEnd \/ \E p \in Paths : StageFile(p) \/ StageFails(p)
  BY <1>1 DEF StageBegin, StageEnd, StageFile, StageFails
<1>2. CASE Scan \/ DetectFails \/ ListChanges \/ Reprovision \/ Resume
  BY <1>2 DEF Scan, DetectFails, ListChanges, Reprovision, Resume
<1>3. CASE \E out \in {"settled", "attention"} : Return(out)
  BY <1>3 DEF Return
<1>4. CASE \E p \in Paths : HashFile(p) \/ HashFails(p)
  BY <1>4 DEF HashFile, HashFails
<1>5. CASE Upsert
  BY <1>5 DEF Upsert
<1>6. CASE \E p \in Paths : Upload(p)
  BY <1>6 DEF Upload, FilesOK
<1>7. CASE Mark
  BY <1>7 DEF Mark, MarkOK, FilesOK
<1>8. CASE TailEnd \/ TailAborts
  BY <1>8 DEF TailEnd, TailAborts, AfterTail
<1>9. CASE \E p \in Paths : CommitFile(p)
  BY <1>9 DEF CommitFile, UserCall, FilesOK
<1>10. CASE \/ \E p \in Paths, c \in MaybeContent : Put(p, c) \/ Edit(p, c)
            \/ \E p, q \in Paths : Rename(p, q)
            \/ \E chosen \in SUBSET Paths : ApplyBegin(chosen)
            \/ \E p \in Paths : ApplyCopy(p)
  BY <1>10 DEF UserCall, Put, Edit, Rename, ApplyBegin, ApplyCopy
<1>11. CASE UNCHANGED vars
  BY <1>11 DEF vars
<1> QED
  BY <1>1, <1>2, <1>3, <1>4, <1>5, <1>6, <1>7, <1>8, <1>9, <1>10, <1>11 DEF Next, Runtime, User

(* A change that says 'committed' has its object, whatever failed, was       *)
(* retried or was uploaded again in between.                                 *)
THEOREM CommitsAreBacked == Spec => []CommittedWasUploaded
<1>1. Init => UploadInv
  BY DEF Init, UploadInv, CommittedWasUploaded
<1>2. UploadInv => CommittedWasUploaded
  BY DEF UploadInv
<1> QED
  BY <1>1, <1>2, TypesInvariant, UploadStep, PTL DEF Spec

-----------------------------------------------------------------------------
(* Staging keeps the work on the VM. *)

(* Once the first execution has staged its rows none is pending any more,    *)
(* and none is added, because rows exist.                                    *)
LEMMA StagingStep == TypesOK /\ StagingInv /\ [Next]_vars => StagingInv'
<1> SUFFICES ASSUME FilesOK, ControlOK, CountersOK, StagingInv, [Next]_vars PROVE StagingInv'
  BY DEF TypesOK
<1> USE DEF StagingInv, Rows, user, history
<1>1. CASE StageBegin
  <2>1. executions' # 0
    BY <1>1, ConstantsAssumption DEF StageBegin, CountersOK
  <2>2. CASE executions = 0
    <3>1. tracked' => pc' = "stage"
      BY <1>1, <2>2 DEF StageBegin
    <3>2. pc' = "stage" => Rows \cup Present(drive) # {}
      BY <1>1 DEF StageBegin
    <3>3. tracked' => Rows' # {}
      BY <1>1, <3>1, <3>2 DEF StageBegin, Present, FilesOK, Pending
    <3>4. \A p \in Paths : disk'[p] = Absent
      BY <1>1, <2>2 DEF StageBegin, NoFile
    <3> QED
      BY <2>1, <3>1, <3>3, <3>4
  <2>3. CASE executions # 0
    <3>1. tracked' <=> tracked
      BY <1>1, <2>3 DEF StageBegin
    <3>2. tracked => row' = row
      BY <1>1 DEF StageBegin
    <3>3. disk' = disk
      BY <1>1 DEF StageBegin
    <3>4. pc = "start"
      BY <1>1 DEF StageBegin
    <3> QED
      BY <2>1, <3>1, <3>2, <3>3, <3>4
  <2> QED
    BY <2>2, <2>3
<1>2. CASE \E p \in Paths : StageFile(p)
  BY <1>2 DEF StageFile, FilesOK, Ready
<1>3. ASSUME NEW p \in Paths, StageFails(p) PROVE StagingInv'
  <2>1. PICK st \in {row[p].st, "failed"} : row' = [row EXCEPT ![p].st = st]
    BY <1>3 DEF StageFails
  <2>2. \A q \in Paths : row'[q].st = row[q].st \/ (q = p /\ row'[q].st = "failed")
    BY <2>1 DEF FilesOK, RowState
  <2> QED
    BY <1>3, <2>2 DEF StageFails, FilesOK
<1>4. CASE StageEnd
  BY <1>4 DEF StageEnd
<1>5. CASE Upsert
  BY <1>5 DEF Upsert, FilesOK, Ready
<1>6. CASE \/ Scan \/ DetectFails \/ ListChanges \/ Mark \/ TailEnd \/ TailAborts
           \/ Resume \/ \E out \in {"settled", "attention"} : Return(out)
  BY <1>6 DEF Scan, DetectFails, ListChanges, Mark, TailEnd, TailAborts, Resume, Return, AfterTail, TailPc
<1>7. CASE \E p \in Paths : HashFile(p) \/ HashFails(p) \/ Upload(p)
  BY <1>7 DEF HashFile, HashFails, Upload
<1>8. CASE Reprovision
  BY <1>8 DEF Reprovision, NoFile
<1>9. CASE \E p \in Paths, c \in MaybeContent : Edit(p, c)
  BY <1>9 DEF Edit, AtWork, TailPc
<1>10. CASE User
  BY <1>10 DEF User, UserCall, Put, Rename, ApplyBegin, ApplyCopy, CommitFile
<1>11. CASE UNCHANGED vars
  BY <1>11 DEF vars
<1> QED
  BY <1>1, <1>2, <1>3, <1>4, <1>5, <1>6, <1>7, <1>8, <1>9, <1>10, <1>11 DEF Next, Runtime

(* A resumed run whose first execution found drive rows never has a file on  *)
(* its VM overwritten by staging.                                            *)
THEOREM StagingIsSafe == Spec => StagingKeepsWork
<1>1. Init => StagingInv
  BY DEF Init, StagingInv
<1>2. TypesOK /\ StagingInv /\ [Next]_vars =>
         [tracked /\ pc = "stage" => \A p \in Paths : disk'[p] # disk[p] => disk[p] = Absent]_vars
  <2> SUFFICES ASSUME FilesOK, StagingInv, Next, tracked, pc = "stage",
                      NEW p \in Paths, disk'[p] # disk[p]
               PROVE  disk[p] = Absent
    BY DEF TypesOK
  <2>1. \E q \in Paths : StageFile(q)
    BY DEF Next, Runtime, User, StageBegin, StageFails, StageEnd, Return, HashFile, HashFails,
           Upload, Scan, Upsert, DetectFails, ListChanges, Mark, TailEnd, TailAborts, TailPc,
           Reprovision, Edit, AtWork, Resume, UserCall, Put, Rename, ApplyBegin, ApplyCopy, CommitFile
  <2> QED
    BY <2>1 DEF StageFile, StagingInv, FilesOK
<1> QED
  BY <1>1, <1>2, TypesInvariant, StagingStep, PTL DEF Spec, StagingKeepsWork

-----------------------------------------------------------------------------
(* No work is lost. *)

(* A row gets its checksum from staging, or together with a change, and no   *)
(* change ever goes away.                                                    *)
LEMMA RowStep == TypesOK /\ RowInv /\ [Next]_vars => RowInv'
<1> SUFFICES ASSUME FilesOK, MarkOK, RowInv, [Next]_vars PROVE RowInv'
  BY DEF TypesOK
<1> USE DEF RowInv, user, history
<1>1. CASE StageBegin
  BY <1>1 DEF StageBegin, Pending, NoRow, FilesOK
<1>2. CASE \E p \in Paths : StageFile(p)
  BY <1>2 DEF StageFile, FilesOK, Ready
<1>3. ASSUME NEW p \in Paths, StageFails(p) PROVE RowInv'
  <2>1. PICK st \in {row[p].st, "failed"} : row' = [row EXCEPT ![p].st = st]
    BY <1>3 DEF StageFails
  <2>2. \A q \in Paths : /\ row'[q].sum = row[q].sum
                         /\ row'[q].st = row[q].st \/ (q = p /\ row'[q].st = "failed")
    BY <2>1 DEF FilesOK, RowState
  <2> QED
    BY <1>3, <2>2 DEF StageFails, FilesOK
<1>4. CASE Upsert
  BY <1>4 DEF Upsert, FilesOK, Ready
<1>5. CASE Mark
  BY <1>5 DEF Mark, MarkOK, FilesOK
<1>6. CASE \/ StageEnd \/ Scan \/ DetectFails \/ ListChanges \/ TailEnd \/ TailAborts
           \/ Resume \/ Reprovision \/ \E out \in {"settled", "attention"} : Return(out)
  BY <1>6 DEF StageEnd, Scan, DetectFails, ListChanges, TailEnd, TailAborts, Resume, Reprovision, Return
<1>7. CASE \/ \E p \in Paths : HashFile(p) \/ HashFails(p) \/ Upload(p)
           \/ \E p \in Paths, c \in MaybeContent : Edit(p, c)
  BY <1>7 DEF HashFile, HashFails, Upload, Edit
<1>8. CASE User
  BY <1>8 DEF User, UserCall, Put, Rename, ApplyBegin, ApplyCopy, CommitFile
<1>9. CASE UNCHANGED vars
  BY <1>9 DEF vars
<1> QED
  BY <1>1, <1>2, <1>3, <1>4, <1>5, <1>6, <1>7, <1>8, <1>9 DEF Next, Runtime

(* The tail leaves every file that differs from what was staged uncommitted  *)
(* until it has uploaded it; nobody works on the VM of a settled execution.  *)
LEMMA TailStep == TypesOK /\ RowInv /\ TailInv /\ [Next]_vars => TailInv'
<1> SUFFICES ASSUME FilesOK, MarkOK, ControlOK, RowInv, TailInv, [Next]_vars PROVE TailInv'
  BY DEF TypesOK
<1> USE DEF TailInv, TailPc, Dirty, Uncommitted, Detected, Captured, Rows, user, history, NoFault, Fault
<1>1. CASE StageBegin \/ StageEnd
  BY <1>1 DEF StageBegin, StageEnd
<1>2. CASE \E p \in Paths : StageFile(p) \/ StageFails(p)
  BY <1>2 DEF StageFile, StageFails
<1>3. CASE \E out \in {"settled", "attention"} : Return(out)
  BY <1>3 DEF Return
<1>4. CASE \E p \in Paths : HashFile(p)
  BY <1>4 DEF HashFile, FilesOK, Present
<1>5. CASE \E p \in Paths : HashFails(p)
  BY <1>5 DEF HashFails
<1>6. CASE Scan
  BY <1>6 DEF Scan, Present
<1>7. CASE Upsert
  <2> SUFFICES ASSUME outcome = "settled", clean, NEW p \in Paths, Dirty(p)
               PROVE  change'[p] \in {"pending", "failed"}
                         \/ (change'[p] = "committed" /\ row'[p].sum = disk[p])
    BY <1>7 DEF Upsert
  <2>1. Detected(p)
    BY <1>7 DEF Upsert, Present
  <2>2. CASE found[p] # Absent
    BY <1>7, <2>2 DEF Upsert, FilesOK
  <2>3. CASE found[p] = Absent
    <3>1. row[p].sum = disk[p]
      BY <2>1, <2>3
    <3>2. change[p] # "none"
      BY <3>1 DEF RowInv
    <3> QED
      BY <1>7, <2>3, <3>1, <3>2 DEF Upsert, FilesOK, ChangeState
  <2> QED
    BY <2>2, <2>3
<1>8. CASE DetectFails \/ TailAborts
  BY <1>8 DEF DetectFails, TailAborts, AfterTail, ControlOK
<1>9. CASE ListChanges
  BY <1>9 DEF ListChanges
<1>10. CASE \E p \in Paths : Upload(p)
  BY <1>10 DEF Upload, FilesOK
<1>11. CASE Mark
  <2>1. PICK q \in Paths, s \in {"committed", "failed"} : mark = <<q, s>>
    BY <1>11 DEF Mark, MarkOK
  <2>2. pc' = "commit" /\ change' = [change EXCEPT ![q] = s]
    BY <1>11, <2>1 DEF Mark
  <2>3. UNCHANGED <<outcome, clean, row, disk, staged, todo, offered>>
    BY <1>11 DEF Mark
  <2> SUFFICES ASSUME outcome = "settled", clean, Rows # {}, NEW p \in Paths, Dirty(p)
               PROVE  Captured(p)' \/ (p \in todo /\ Uncommitted(p)')
    BY <1>11, <2>2, <2>3 DEF Mark
  <2>4. pc = "mark"
    BY <1>11 DEF Mark
  <2>5. CASE p = q
    <3>1. s = "committed"
      BY <2>1, <2>4, <2>5
    <3> QED
      BY <2>1, <2>2, <2>3, <2>4, <2>5, <3>1 DEF FilesOK
  <2>6. CASE p # q
    BY <2>1, <2>2, <2>3, <2>4, <2>6 DEF FilesOK
  <2> QED
    BY <2>5, <2>6
<1>12. CASE TailEnd
  BY <1>12 DEF TailEnd, AfterTail, ControlOK
<1>13. CASE Resume \/ Reprovision
  BY <1>13 DEF Resume, Reprovision
<1>14. CASE \E p \in Paths, c \in MaybeContent : Edit(p, c)
  BY <1>14 DEF Edit, AtWork
<1>15. CASE \E p \in Paths : CommitFile(p)
  BY <1>15 DEF CommitFile, UserCall, FilesOK
<1>16. CASE \/ \E p \in Paths, c \in MaybeContent : Put(p, c)
            \/ \E p, q \in Paths : Rename(p, q)
            \/ \E chosen \in SUBSET Paths : ApplyBegin(chosen)
            \/ \E p \in Paths : ApplyCopy(p)
  BY <1>16 DEF UserCall, Put, Rename, ApplyBegin, ApplyCopy
<1>17. CASE UNCHANGED vars
  BY <1>17 DEF vars
<1> QED
  BY <1>1, <1>2, <1>3, <1>4, <1>5, <1>6, <1>7, <1>8, <1>9, <1>10, <1>11, <1>12, <1>13, <1>14,
     <1>15, <1>16, <1>17 DEF Next, Runtime, User

(* A run with drive rows loses no work, however its files were edited, by    *)
(* whom, and whatever failed in the executions before the last one.          *)
THEOREM WorkIsKept == Spec => []NothingLost
<1>1. Init => RowInv /\ TailInv
  BY DEF Init, RowInv, TailInv, TailPc, Pending, NoRow
<1>2. TailInv => NothingLost
  BY DEF TailInv, NothingLost, Dirty, Present
<1> QED
  BY <1>1, <1>2, TypesInvariant, RowStep, TailStep, PTL DEF Spec
=============================================================================
