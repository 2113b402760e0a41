------------------------------ MODULE DriveSync ------------------------------
(***************************************************************************)
(* The files of one run: the user's drive is staged onto the VM before an   *)
(* execution, the agent (and, while the run is paused, a human) works on    *)
(* them there, and the tail of the execution detects what changed, uploads  *)
(* it under the run's own prefix and marks it committed, so that the user   *)
(* can apply it to the drive.  A file is its path and its content; a        *)
(* checksum is the content it stands for.                                   *)
(*                                                                          *)
(* The tail is one call after another on the runtime's event loop, each to  *)
(* the control plane, the VM or the object store; an execution that handed  *)
(* back has set 'attention' before its tail begins, so a human may already  *)
(* be at work on the VM.  The row of a file and the row of its change are   *)
(* the ones of the path: each is created where none exists.                 *)
(***************************************************************************)
EXTENDS Naturals, FiniteSets

CONSTANTS Paths,          \* drive paths
          Contents,       \* what a file can contain
          Absent,         \* there is no such file
          MaxExecutions,  \* bound: executions of the run
          MaxEdits,       \* bound: changes made on the VM
          MaxUserOps,     \* bound: calls of the user's drive API
          Faults,         \* the kinds of failure that may happen
          MaxFaults       \* bound: how many of them happen

FaultKinds == {"stage", "hash", "detect", "upload", "tail", "reprovision"}

ASSUME ConstantsAssumption ==
    /\ Absent \notin Contents
    /\ MaxExecutions \in Nat /\ MaxEdits \in Nat
    /\ MaxUserOps \in Nat /\ MaxFaults \in Nat
    /\ Faults \subseteq FaultKinds

VARIABLES
    drive,      \* the user's drive: objects under drive/<user>
    offered,    \* objects under drive_changes/<user>/<run>
    row,        \* workflow_run_files of the run: status and checksum
    change,     \* workflow_run_drive_changes of the run: status
    disk,       \* the drive directory on the VM
    pc,         \* what the runtime is doing for the run
    outcome,    \* how the current execution ended
    todo,       \* files the current loop has not reached
    found,      \* what detection has seen: the content, or Absent
    mark,       \* the status about to be written, and for which path
    applying,   \* committed paths apply_drive_changes has read
    executions, edits, userOps, faults,   \* counters of the bounds
    staged,     \* history: what staging put on the VM
    tracked,    \* history: the first execution found drive rows
    clean       \* history: no failure since the last start or resume

vars == <<drive, offered, row, change, disk, pc, outcome, todo, found, mark,
          applying, executions, edits, userOps, faults, staged, tracked, clean>>

MaybeContent == Contents \cup {Absent}
NoFile == [p \in Paths |-> Absent]
NoMark == <<>>

RowState == [st : {"none", "pending", "failed", "ready"}, sum : MaybeContent]
ChangeState == {"none", "pending", "committed", "failed"}
TailPc == {"detect", "scan", "list", "commit", "mark"}
Pc == {"start", "stage", "run", "paused", "over", "rejected"} \cup TailPc

TypeOK ==
    /\ drive \in [Paths -> MaybeContent]
    /\ offered \in [Paths -> MaybeContent]
    /\ row \in [Paths -> RowState]
    /\ change \in [Paths -> ChangeState]
    /\ disk \in [Paths -> MaybeContent]
    /\ pc \in Pc
    /\ outcome \in {"none", "settled", "attention"}
    /\ todo \subseteq Paths
    /\ found \in [Paths -> MaybeContent]
    /\ mark \in {NoMark} \cup (Paths \X {"committed", "failed"})
    /\ applying \subseteq Paths
    /\ executions \in 0..MaxExecutions /\ edits \in 0..MaxEdits
    /\ userOps \in 0..MaxUserOps /\ faults \in 0..MaxFaults
    /\ staged \in [Paths -> MaybeContent]
    /\ tracked \in BOOLEAN /\ clean \in BOOLEAN

NoRow == [st |-> "none", sum |-> Absent]
Pending == [st |-> "pending", sum |-> Absent]
Ready(c) == [st |-> "ready", sum |-> c]

\* The user picked drive files when the run was enqueued, or none.
Init ==
    /\ drive \in [Paths -> MaybeContent]
    /\ \E picked \in SUBSET Paths :
          row = [p \in Paths |-> IF p \in picked THEN Pending ELSE NoRow]
    /\ offered = NoFile
    /\ change = [p \in Paths |-> "none"]
    /\ disk = NoFile
    /\ pc = "start"
    /\ outcome = "none"
    /\ todo = {}
    /\ found = NoFile
    /\ mark = NoMark
    /\ applying = {}
    /\ executions = 0 /\ edits = 0 /\ userOps = 0 /\ faults = 0
    /\ staged = NoFile
    /\ tracked = FALSE
    /\ clean = TRUE

-----------------------------------------------------------------------------
(* Helpers *)

Fault(kind) ==
    /\ kind \in Faults
    /\ faults < MaxFaults
    /\ faults' = faults + 1
    /\ clean' = FALSE

NoFault == UNCHANGED <<faults, clean>>

Rows == {p \in Paths : row[p].st # "none"}
Present(files) == {p \in Paths : files[p] # Absent}

\* The tail is over: the run waits for a human, or its VM is terminated.
AfterTail == IF outcome = "attention" THEN "paused" ELSE "over"

user == <<drive, applying, userOps>>
history == <<staged, tracked>>

-----------------------------------------------------------------------------
(* Staging, before the execution *)

\* get_drive_files with ensure_full: a run without rows gets one for every
\* object of the user's drive; nothing is staged where there are none.
StageBegin ==
    /\ pc = "start"
    /\ executions < MaxExecutions
    /\ row' = IF Rows # {} THEN row
              ELSE [p \in Paths |-> IF drive[p] # Absent THEN Pending ELSE NoRow]
    /\ pc' = IF Rows \cup Present(drive) = {} THEN "run" ELSE "stage"
    /\ executions' = executions + 1
    /\ tracked' = IF executions = 0 THEN pc' = "stage" ELSE tracked
    /\ UNCHANGED <<user, offered, change, disk, outcome, todo, found, mark, edits, staged>>
    /\ NoFault

\* Mutant: a file is staged whatever its row says.
StageFileAgain(p) ==
    /\ pc = "stage"
    /\ p \in Rows
    /\ drive[p] # Absent
    /\ disk' = [disk EXCEPT ![p] = drive[p]]
    /\ row' = [row EXCEPT ![p] = Ready(drive[p])]
    /\ staged' = [staged EXCEPT ![p] = drive[p]]
    /\ UNCHANGED <<user, offered, change, pc, outcome, todo, found, mark, executions, edits, tracked>>
    /\ NoFault

\* One file is downloaded and hashed on the VM, and its row becomes 'ready';
\* a row that is 'ready' is passed over.
StageFile(p) ==
    /\ pc = "stage"
    /\ row[p].st \in {"pending", "failed"}
    /\ drive[p] # Absent
    /\ disk' = [disk EXCEPT ![p] = drive[p]]
    /\ row' = [row EXCEPT ![p] = Ready(drive[p])]
    /\ staged' = [staged EXCEPT ![p] = drive[p]]
    /\ UNCHANGED <<user, offered, change, pc, outcome, todo, found, mark, executions, edits, tracked>>
    /\ NoFault

\* The object is gone or the transfer fails: the row becomes 'failed', if that
\* can be written, and the execute handler answers 500.
StageFails(p) ==
    /\ pc = "stage"
    /\ row[p].st \in {"pending", "failed"}
    /\ IF drive[p] = Absent THEN NoFault ELSE Fault("stage")
    /\ \E st \in {row[p].st, "failed"} : row' = [row EXCEPT ![p].st = st]
    /\ pc' = "rejected"
    /\ UNCHANGED <<user, offered, change, disk, outcome, todo, found, mark, executions, edits, history>>

StageEnd ==
    /\ pc = "stage"
    /\ \A p \in Rows : row[p].st = "ready"
    /\ pc' = "run"
    /\ UNCHANGED <<user, offered, row, change, disk, outcome, todo, found, mark, executions, edits, history>>
    /\ NoFault

-----------------------------------------------------------------------------
(* Work on the VM *)

\* The agent during the execution; a human, or an agent the human resumed,
\* once the execution has handed back.
AtWork == pc \in {"run", "paused"} \/ (pc \in TailPc /\ outcome = "attention")

Edit(p, c) ==
    /\ AtWork
    /\ edits < MaxEdits
    /\ disk[p] # c
    /\ disk' = [disk EXCEPT ![p] = c]
    /\ edits' = edits + 1
    /\ UNCHANGED <<user, offered, row, change, pc, outcome, todo, found, mark, executions, history>>
    /\ NoFault

-----------------------------------------------------------------------------
(* The tail: detection *)

\* The execution ends.  Without drive rows there is nothing to detect.
Return(out) ==
    /\ pc = "run"
    /\ outcome' = out
    /\ pc' = IF Rows = {} THEN "list" ELSE "detect"
    /\ todo' = Rows
    /\ UNCHANGED <<user, offered, row, change, disk, found, mark, executions, edits, history>>
    /\ NoFault

\* A file is hashed and compared with the checksum of its row; a new file has
\* none.  A file that is not there cannot be hashed.
HashFile(p) ==
    /\ pc \in {"detect", "scan"}
    /\ p \in todo
    /\ todo' = todo \ {p}
    /\ found' = [found EXCEPT ![p] = IF disk[p] = row[p].sum THEN Absent ELSE disk[p]]
    /\ UNCHANGED <<user, offered, row, change, disk, pc, outcome, mark, executions, edits, history>>
    /\ NoFault

HashFails(p) ==
    /\ Fault("hash")
    /\ pc \in {"detect", "scan"}
    /\ p \in todo
    /\ todo' = todo \ {p}
    /\ UNCHANGED <<user, offered, row, change, disk, pc, outcome, found, mark, executions, edits, history>>

\* The VM's drive directory is listed for files without a row.
Scan ==
    /\ pc = "detect"
    /\ todo = {}
    /\ pc' = "scan"
    /\ \/ todo' = Present(disk) \ Rows /\ NoFault
       \/ todo' = {} /\ Fault("hash")
    /\ UNCHANGED <<user, offered, row, change, disk, outcome, found, mark, executions, edits, history>>

\* One transaction: the change of every file that was found is replaced by a
\* pending one, and a new file gets a row with the checksum just computed.
Upsert ==
    /\ pc = "scan"
    /\ todo = {}
    /\ change' = [p \in Paths |-> IF found[p] # Absent THEN "pending" ELSE change[p]]
    /\ row' = [p \in Paths |-> IF found[p] # Absent /\ p \notin Rows THEN Ready(found[p]) ELSE row[p]]
    /\ found' = NoFile
    /\ pc' = "list"
    /\ UNCHANGED <<user, offered, disk, outcome, todo, mark, executions, edits, history>>
    /\ NoFault

\* The control plane or the VM does not answer: detection is given up and the
\* tail goes on.
DetectFails ==
    /\ Fault("detect")
    /\ pc \in {"detect", "scan"}
    /\ todo' = {}
    /\ found' = NoFile
    /\ pc' = "list"
    /\ UNCHANGED <<user, offered, row, change, disk, outcome, mark, executions, edits, history>>

-----------------------------------------------------------------------------
(* The tail: upload *)

\* Mutant: only what this execution found is uploaded; a failed upload of an
\* earlier one is not tried again.
ListPending ==
    /\ pc = "list"
    /\ todo' = {p \in Paths : change[p] = "pending"}
    /\ pc' = "commit"
    /\ UNCHANGED <<user, offered, row, change, disk, outcome, found, mark, executions, edits, history>>
    /\ NoFault

\* list_drive_changes: everything that is not committed is to be uploaded.
ListChanges ==
    /\ pc = "list"
    /\ todo' = {p \in Paths : change[p] \in {"pending", "failed"}}
    /\ pc' = "commit"
    /\ UNCHANGED <<user, offered, row, change, disk, outcome, found, mark, executions, edits, history>>
    /\ NoFault

\* Mutant: the verdict does not depend on the upload.
UploadUnchecked(p) ==
    /\ pc = "commit"
    /\ p \in todo
    /\ \/ disk[p] # Absent /\ offered' = [offered EXCEPT ![p] = disk[p]] /\ NoFault
       \/ UNCHANGED offered /\ (IF disk[p] = Absent THEN NoFault ELSE Fault("upload"))
    /\ mark' = <<p, "committed">>
    /\ todo' = todo \ {p}
    /\ pc' = "mark"
    /\ UNCHANGED <<user, row, change, disk, outcome, found, executions, edits, history>>

\* The VM uploads the file as it is now, or fails to.
Upload(p) ==
    /\ pc = "commit"
    /\ p \in todo
    /\ \/ /\ disk[p] # Absent
          /\ offered' = [offered EXCEPT ![p] = disk[p]]
          /\ mark' = <<p, "committed">>
          /\ NoFault
       \/ /\ IF disk[p] = Absent THEN NoFault ELSE Fault("upload")
          /\ mark' = <<p, "failed">>
          /\ UNCHANGED offered
    /\ todo' = todo \ {p}
    /\ pc' = "mark"
    /\ UNCHANGED <<user, row, change, disk, outcome, found, executions, edits, history>>

\* update_drive_change_status, a request of its own after the upload.
Mark ==
    /\ pc = "mark"
    /\ change' = [change EXCEPT ![mark[1]] = mark[2]]
    /\ mark' = NoMark
    /\ pc' = "commit"
    /\ UNCHANGED <<user, offered, row, disk, outcome, todo, found, executions, edits, history>>
    /\ NoFault

TailEnd ==
    /\ pc = "commit"
    /\ todo = {}
    /\ pc' = AfterTail
    /\ UNCHANGED <<user, offered, row, change, disk, outcome, todo, found, mark, executions, edits, history>>
    /\ NoFault

\* A request of the upload loop gets no answer, which ends the loop, or the
\* runtime dies in its tail.
TailAborts ==
    /\ Fault("tail")
    /\ pc \in TailPc
    /\ pc' = AfterTail
    /\ todo' = {}
    /\ found' = NoFile
    /\ mark' = NoMark
    /\ UNCHANGED <<user, offered, row, change, disk, outcome, executions, edits, history>>

-----------------------------------------------------------------------------
(* Resume *)

Resume ==
    /\ pc = "paused"
    /\ executions < MaxExecutions
    /\ pc' = "start"
    /\ outcome' = "none"
    /\ clean' = TRUE
    /\ UNCHANGED <<user, offered, row, change, disk, todo, found, mark, executions, edits, faults, history>>

\* The run's VM could not be found: the next execution gets an empty one.
Reprovision ==
    /\ Fault("reprovision")
    /\ pc = "start"
    /\ executions > 0
    /\ disk' = NoFile
    /\ UNCHANGED <<user, offered, row, change, pc, outcome, todo, found, mark, executions, edits, history>>

-----------------------------------------------------------------------------
(* The user's drive API, at any time *)

UserCall ==
    /\ userOps < MaxUserOps
    /\ userOps' = userOps + 1
    /\ UNCHANGED <<row, change, disk, pc, outcome, todo, found, mark, executions, edits, history>>
    /\ NoFault

\* request-upload and the PUT that follows it; delete.
Put(p, c) ==
    /\ UserCall
    /\ drive[p] # c
    /\ drive' = [drive EXCEPT ![p] = c]
    /\ UNCHANGED <<offered, applying>>

\* The object is copied, then the original deleted, which may fail.
Rename(p, q) ==
    /\ UserCall
    /\ drive[p] # Absent
    /\ p # q
    /\ \E left \in {drive[p], Absent} :
          drive' = [drive EXCEPT ![q] = drive[p], ![p] = left]
    /\ UNCHANGED <<offered, applying>>

\* apply_drive_changes reads the changes of the chosen paths ...
ApplyBegin(chosen) ==
    /\ UserCall
    /\ applying = {}
    /\ applying' = {p \in chosen : change[p] = "committed"}
    /\ applying' # {}
    /\ UNCHANGED <<drive, offered>>

\* ... and copies them one by one; a copy of a missing object fails.
ApplyCopy(p) ==
    /\ p \in applying
    /\ applying' = applying \ {p}
    /\ drive' = IF offered[p] = Absent THEN drive ELSE [drive EXCEPT ![p] = offered[p]]
    /\ UNCHANGED <<offered, row, change, disk, pc, outcome, todo, found, mark,
                   executions, edits, userOps, history>>
    /\ NoFault

\* commit-drive-file uploads one changed file again, whatever its status is.
CommitFile(p) ==
    /\ UserCall
    /\ change[p] # "none"
    /\ p \in Rows
    /\ pc \notin {"over", "rejected"}
    /\ disk[p] # Absent
    /\ offered' = [offered EXCEPT ![p] = disk[p]]
    /\ UNCHANGED <<drive, applying>>

-----------------------------------------------------------------------------
Runtime ==
    \/ StageBegin \/ StageEnd
    \/ \E p \in Paths : StageFile(p) \/ StageFails(p)
    \/ \E out \in {"settled", "attention"} : Return(out)
    \/ \E p \in Paths : HashFile(p) \/ HashFails(p) \/ Upload(p)
    \/ Scan \/ Upsert \/ DetectFails \/ ListChanges \/ Mark \/ TailEnd \/ TailAborts
    \/ Reprovision

User ==
    \/ \E p \in Paths, c \in MaybeContent : Put(p, c)
    \/ \E p, q \in Paths : Rename(p, q)
    \/ \E chosen \in SUBSET Paths : ApplyBegin(chosen)
    \/ \E p \in Paths : ApplyCopy(p) \/ CommitFile(p)

Next ==
    \/ Runtime
    \/ \E p \in Paths, c \in MaybeContent : Edit(p, c)
    \/ Resume
    \/ User

Spec == Init /\ [][Next]_vars

-----------------------------------------------------------------------------
(* Properties *)

(* A change that says 'committed' can be applied: its object was uploaded,   *)
(* whichever of the upload, the two status writes and their retries failed.  *)
CommittedWasUploaded ==
    \A p \in Paths : change[p] = "committed" => offered[p] # Absent

(* The work left in p is safe: p is on offer with what the VM holds.  A file *)
(* that detection added to the run is compared with what it held then, so    *)
(* one a human changed and changed back during the upload is on offer with   *)
(* what it held in between.                                                  *)
Captured(p) ==
    /\ change[p] = "committed"
    /\ offered[p] = disk[p] \/ row[p].sum = disk[p]

(* A run that has drive rows loses no work: when its last execution settled  *)
(* without a failure since the resume, every file that differs from what was *)
(* staged is captured, also one whose detection, upload or status write      *)
(* failed in an earlier execution.                                           *)
NothingLost ==
    (pc = "over" /\ clean /\ Rows # {}) =>
        \A p \in Present(disk) : disk[p] # staged[p] => Captured(p)

(* The same of every run, those whose user has an empty drive included.      *)
ChangesPreserved ==
    (pc = "over" /\ clean) =>
        \A p \in Present(disk) : disk[p] # staged[p] => Captured(p)

(* Staging a resumed run never overwrites a file somebody left on the VM,    *)
(* if its first execution found drive rows: later uploads to the user's      *)
(* drive and files the agent made do not make staging run again.             *)
StagingKeepsWork ==
    [][tracked /\ pc = "stage" =>
          \A p \in Paths : disk'[p] # disk[p] => disk[p] = Absent]_vars
=============================================================================
