---------------------------- MODULE Accounts_proofs ----------------------------
(***************************************************************************)
(* For any number of runs and processes, any balance, cost and length of    *)
(* the list of recent runs: the state of Accounts stays well-typed, the     *)
(* credits that are gone are the runs in the table, the gauges of the       *)
(* metadata cover the list, and the counters and the list of active runs    *)
(* agree with the run rows as far as the code can make them.  And the       *)
(* transactions are serializable: Accounts implements SerialAccounts.       *)
(***************************************************************************)
EXTENDS Accounts, FiniteSetTheorems, SequenceTheorems, TLAPS

-----------------------------------------------------------------------------
(* The document keeps its shape *)

(* Taking a run's entry out of the list, as items.pop does, leaves a list.  *)
LEMMA PoppedIsAList ==
    ASSUME NEW recent \in Seq(Entry), NEW r
    PROVE  Popped(recent, r) \in Seq(Entry)
<1>1. CASE Positions(recent, r) = {}
    BY <1>1 DEF Popped
<1>2. CASE Positions(recent, r) # {}
    <2> DEFINE i == CHOOSE i \in Positions(recent, r) : TRUE
    <2>1. i \in 1..Len(recent)
        BY <1>2 DEF Positions
    <2>2. Len(recent) \in Nat /\ i \in Nat
        BY <2>1, LenProperties
    <2> HIDE DEF i
    <2>3. /\ SubSeq(recent, 1, i - 1) \in Seq(Entry)
          /\ SubSeq(recent, i + 1, Len(recent)) \in Seq(Entry)
        BY <2>1, <2>2, SMT
    <2>4. SubSeq(recent, 1, i - 1) \o SubSeq(recent, i + 1, Len(recent)) \in Seq(Entry)
        BY <2>3, ConcatProperties
    <2> QED
        BY <2>4, <1>2 DEF Popped, i
<1> QED
    BY <1>1, <1>2

(* _upsert_recent_entry and _trim_list leave a list no longer than the      *)
(* limit.                                                                    *)
LEMMA UpsertedIsCut ==
    ASSUME NEW recent \in Seq(Entry), NEW r \in Runs, NEW st \in Status
    PROVE  Upserted(recent, r, st) \in RecentRuns
<1> DEFINE all == <<[run |-> r, st |-> st]>> \o Popped(recent, r)
<1> DEFINE n == IF Len(all) < Limit THEN Len(all) ELSE Limit
<1>1. <<[run |-> r, st |-> st]>> \in Seq(Entry)
    BY DEF Entry
<1>2. all \in Seq(Entry)
    BY <1>1, PoppedIsAList, ConcatProperties
<1> HIDE DEF all
<1>3. n \in 0..Len(all) /\ n <= Limit
    BY <1>2, LenProperties, ConstantsAssumption
<1> HIDE DEF n
<1>4. SubSeq(all, 1, n) \in Seq(Entry) /\ Len(SubSeq(all, 1, n)) = n
    BY <1>2, <1>3, SubSeqProperties, LenProperties
<1>5. Upserted(recent, r, st) = SubSeq(all, 1, n)
    BY DEF Upserted, all, n
<1> QED
    BY <1>3, <1>4, <1>5 DEF RecentRuns

(* Counters never go below zero.                                             *)
LEMMA CountersAreNatural ==
    ASSUME NEW n \in Nat, NEW one \in BOOLEAN
    PROVE  Plus(n, one) \in Nat /\ Minus(n, one) \in Nat
BY DEF Plus, Minus

(* A run is listed.                                                          *)
LEMMA ListedIsADoc ==
    ASSUME NEW d \in Doc, NEW r \in Runs, NEW st \in Status
    PROVE  Listed(d, r, st) \in Doc
<1>1. Upserted(d.recent, r, st) \in RecentRuns
    BY UpsertedIsCut DEF Doc, RecentRuns
<1>2. Plus(d.total, ~Known(d, r)) \in Nat
    BY CountersAreNatural DEF Doc, Known
<1> QED
    BY <1>1, <1>2 DEF Listed, Doc

(* Each of the four records leaves a document.                               *)
LEMMA RecordsAreDocs ==
    ASSUME NEW d \in Doc, NEW r \in Runs, NEW kept \in SUBSET d.active
    PROVE  /\ RecordEnqueued(d, r) \in Doc
           /\ RecordStarted(d, r, kept) \in Doc
           /\ \A st \in Status : RecordTerminal(d, r, st, kept) \in Doc
           /\ \A st \in Status : RecordBeat(d, r, st, kept) \in Doc
<1>0. kept \in SUBSET Runs
    BY DEF Doc
<1>1. RecordEnqueued(d, r) \in Doc
    <2>1. Listed(d, r, "queued") \in Doc
        BY ListedIsADoc DEF Status
    <2>2. Listed(d, r, "queued").spent \in Nat /\ Listed(d, r, "queued").spent + Cost \in Nat
        BY <2>1, ConstantsAssumption DEF Doc
    <2> QED
        BY <2>1, <2>2 DEF RecordEnqueued, Doc
<1>2. RecordStarted(d, r, kept) \in Doc
    <2>1. Listed(d, r, "running") \in Doc
        BY ListedIsADoc DEF Status
    <2> QED
        BY <1>0, <2>1 DEF RecordStarted, Doc
<1>3. ASSUME NEW st \in Status PROVE RecordTerminal(d, r, st, kept) \in Doc
    <2> DEFINE prev == Recorded(d, r)
               moves == prev # st
               l == Listed(d, r, st)
               terminal == Plus(Minus(l.terminal, moves /\ prev \in Terminal), moves /\ st \in Terminal)
               count == [s \in Terminal |-> Plus(Minus(l.count[s], moves /\ s = prev), moves /\ s = st)]
    <2>1. l \in Doc
        BY ListedIsADoc
    <2>2. RecordTerminal(d, r, st, kept) =
            [l EXCEPT !.terminal = terminal, !.count = count, !.active = kept \ {r}]
        BY DEF RecordTerminal
    <2> HIDE DEF l
    <2>3. terminal \in Nat
        <3>1. l.terminal \in Nat
            BY <2>1 DEF Doc
        <3> QED
            BY <3>1, CountersAreNatural
    <2>4. count \in [Terminal -> Nat]
        <3>1. ASSUME NEW s \in Terminal
              PROVE  Plus(Minus(l.count[s], moves /\ s = prev), moves /\ s = st) \in Nat
            <4>1. l.count[s] \in Nat
                BY <2>1 DEF Doc
            <4> QED
                BY <4>1, CountersAreNatural
        <3> QED
            BY <3>1
    <2> HIDE DEF terminal, count
    <2>5. kept \ {r} \in SUBSET Runs
        BY <1>0
    <2> QED
        BY <2>1, <2>2, <2>3, <2>4, <2>5 DEF Doc
<1>4. ASSUME NEW st \in Status PROVE RecordBeat(d, r, st, kept) \in Doc
    BY <1>0 DEF RecordBeat, Doc
<1> QED
    BY <1>1, <1>2, <1>3, <1>4

-----------------------------------------------------------------------------
(* Type correctness *)

(* A handler at work has a run.                                              *)
Busy == \A t \in Procs : tx[t].kind # "idle" => tx[t].run \in Runs

TypeInv == TypeOK /\ Busy

LEMMA TxFields ==
    ASSUME NEW x \in Tx
    PROVE  /\ x.kind \in Kind /\ x.pc \in TxPc /\ x.run \in 0..NRuns
           /\ x.st \in Status /\ x.left \in 0..Credits /\ x.doc \in Doc
BY DEF Tx

(* The null record of a handler with nothing to do is a record of its kind. *)
LEMMA IdleIsATx == IdleTx \in Tx /\ IdleTx.kind = "idle" /\ IdleTx.pc = "open" /\ EmptyDoc \in Doc
<1>1. EmptyDoc \in Doc
    <2>1. <<>> \in RecentRuns
        BY EmptySeq, ConstantsAssumption DEF RecentRuns
    <2>2. [s \in Terminal |-> 0] \in [Terminal -> Nat]
        OBVIOUS
    <2> QED
        BY <2>1, <2>2 DEF EmptyDoc, Doc
<1>2. 0 \in 0..NRuns /\ 0 \in 0..Credits
    BY ConstantsAssumption
<1> QED
    BY <1>1, <1>2 DEF IdleTx, Tx, Kind, TxPc, Status

(* A transaction that opens is a transaction.                                *)
LEMMA OpenedIsATx ==
    ASSUME NEW kind \in Kind, NEW r \in Runs, NEW st \in Status
    PROVE  /\ \A left \in 0..Credits :
                 [IdleTx EXCEPT !.kind = kind, !.run = r, !.st = st, !.left = left] \in Tx
           /\ [IdleTx EXCEPT !.kind = kind, !.run = r, !.st = st] \in Tx
<1>1. r \in 0..NRuns /\ 0 \in 0..Credits
    BY ConstantsAssumption DEF Runs
<1> QED
    BY <1>1, IdleIsATx DEF IdleTx, Tx

(* Every initial state is well-typed.                                        *)
LEMMA TypeInit == Init => TypeInv
<1> SUFFICES ASSUME Init PROVE TypeInv
    OBVIOUS
<1>1. credits \in 0..Credits /\ writes \in 0..MaxWrites /\ faults \in 0..MaxFaults
    BY ConstantsAssumption DEF Init
<1>2. status \in [Runs -> Status]
    BY DEF Init, Status
<1>3. doc \in Doc /\ tx \in [Procs -> Tx] /\ Busy
    BY IdleIsATx DEF Init, Busy
<1>4. begun \subseteq Runs /\ overtaken \subseteq Runs /\ revived \subseteq Runs
    BY DEF Init
<1> QED
    BY <1>1, <1>2, <1>3, <1>4 DEF TypeInv, TypeOK

(* Every step keeps the types: the accounts and their rows, the document,    *)
(* the transactions, the bounds and the histories.                           *)
LEMMA TypeStep == TypeInv /\ [Next]_vars => TypeInv'
<1> SUFFICES ASSUME TypeInv, [Next]_vars PROVE TypeInv'
    OBVIOUS
<1> USE DEF TypeInv
<1>1. ASSUME NEW t \in Procs, NEW r \in Runs, Debit(t, r) PROVE TypeInv'
    <2>1. credits - Cost \in 0..Credits
        BY <1>1, ConstantsAssumption DEF Debit, TypeOK
    <2>2. [IdleTx EXCEPT !.kind = "enqueue", !.run = r, !.st = "queued", !.left = credits - Cost] \in Tx
        BY <2>1, OpenedIsATx DEF Kind, Status
    <2> QED
        BY <1>1, <2>2, IdleIsATx DEF Debit, TypeOK, Busy, IdleTx
<1>2. ASSUME NEW t \in Procs, NEW r \in Runs, Claim(t, r) PROVE TypeInv'
    <2>1. [IdleTx EXCEPT !.kind = "started", !.run = r, !.st = "running"] \in Tx
        BY OpenedIsATx DEF Kind, Status
    <2>2. status' \in [Runs -> Status]
        BY <1>2 DEF Claim, TypeOK, Status
    <2> QED
        BY <1>2, <2>1, <2>2 DEF Claim, Open, TypeOK, Busy, IdleTx
<1>3. ASSUME NEW t \in Procs, NEW r \in Runs, NEW st \in Terminal \cup {"queued"}, WriteStatus(t, r, st)
      PROVE  TypeInv'
    <2>1. [IdleTx EXCEPT !.kind = "write", !.run = r, !.st = st] \in Tx
        BY OpenedIsATx DEF Kind, Status
    <2>2. writes' \in 0..MaxWrites
        BY <1>3, ConstantsAssumption DEF WriteStatus, TypeOK
    <2> QED
        BY <1>3, <2>1, <2>2 DEF WriteStatus, Open, TypeOK, Busy, IdleTx
<1>4. ASSUME NEW t \in Procs, NEW r \in Runs, TouchRun(t, r) PROVE TypeInv'
    <2>1. [IdleTx EXCEPT !.kind = "beat", !.run = r, !.st = status[r]] \in Tx
        BY OpenedIsATx, ConstantsAssumption DEF Kind, TypeOK
    <2>2. writes' \in 0..MaxWrites
        BY <1>4, ConstantsAssumption DEF TouchRun, TypeOK
    <2> QED
        BY <1>4, <2>1, <2>2 DEF TouchRun, Open, TypeOK, Busy, IdleTx
<1>5. ASSUME NEW t \in Procs, Load(t) PROVE TypeInv'
    <2>1. PICK kept \in SUBSET doc.active :
             tx' = [tx EXCEPT ![t].pc = "loaded", ![t].doc = Changed(t, kept)]
        BY <1>5 DEF Load
    <2>2. tx[t] \in Tx /\ tx[t].run \in Runs /\ tx[t].kind \in Kind \ {"idle"} /\ tx[t].st \in Status
        BY <1>5, TxFields DEF Load, TypeOK, Busy
    <2>3. Changed(t, kept) \in Doc
        <3>1. doc \in Doc
            BY DEF TypeOK
        <3> QED
            BY <2>2, <3>1, RecordsAreDocs DEF Changed, Kind
    <2>4. [tx[t] EXCEPT !.pc = "loaded", !.doc = Changed(t, kept)] \in Tx
        BY <2>2, <2>3 DEF Tx, TxPc
    <2>5. tx' = [tx EXCEPT ![t] = [tx[t] EXCEPT !.pc = "loaded", !.doc = Changed(t, kept)]]
        BY <2>1 DEF TypeOK
    <2>6. Busy'
        <3>1. [tx[t] EXCEPT !.pc = "loaded", !.doc = Changed(t, kept)].run = tx[t].run
            BY <2>2 DEF Tx
        <3> QED
            BY <2>2, <2>5, <3>1 DEF TypeOK, Busy
    <2> QED
        BY <1>5, <2>4, <2>5, <2>6 DEF Load, TypeOK
<1>6. ASSUME NEW t \in Procs, LoadFails(t) PROVE TypeInv'
    <2>1. tx[t] \in Tx /\ tx[t].run \in Runs
        BY <1>6 DEF LoadFails, TypeOK, Busy
    <2>2. /\ [tx[t] EXCEPT !.pc = "unrecorded"] \in Tx
          /\ [tx[t] EXCEPT !.pc = "unrecorded"].run = tx[t].run
        BY <2>1 DEF Tx, TxPc
    <2>3. tx' = [tx EXCEPT ![t] = [tx[t] EXCEPT !.pc = "unrecorded"]]
        BY <1>6 DEF LoadFails, TypeOK
    <2>4. faults' \in 0..MaxFaults
        BY <1>6, ConstantsAssumption DEF LoadFails, TypeOK
    <2>5. Busy'
        BY <2>1, <2>2, <2>3 DEF TypeOK, Busy
    <2> QED
        BY <1>6, <2>2, <2>3, <2>4, <2>5 DEF LoadFails, TypeOK
<1>7. ASSUME NEW t \in Procs, Commit(t) PROVE TypeInv'
    <2>1. tx[t] \in Tx
        BY DEF TypeOK
    <2>2. credits' \in 0..Credits
        BY <1>7, <2>1, TxFields DEF Commit, TypeOK
    <2>3. status' \in [Runs -> Status]
        BY <1>7, <2>1, TxFields DEF Commit, TypeOK
    <2>4. doc' \in Doc
        BY <1>7, <2>1, TxFields DEF Commit, TypeOK
    <2>5. overtaken' \subseteq Runs
        BY <1>7 DEF Commit, TypeOK, Busy
    <2>6. revived' \subseteq Runs
        BY <1>7 DEF Commit, TypeOK, Busy
    <2>7. tx' \in [Procs -> Tx] /\ Busy'
        BY <1>7, IdleIsATx DEF Commit, TypeOK, Busy
    <2> QED
        BY <1>7, <2>2, <2>3, <2>4, <2>5, <2>6, <2>7 DEF Commit, TypeOK
<1>8. ASSUME NEW t \in Procs, Rollback(t) PROVE TypeInv'
    BY <1>8, IdleIsATx DEF Rollback, TypeOK, Busy
<1>9. ASSUME UNCHANGED vars PROVE TypeInv'
    BY <1>9 DEF vars, TypeOK, Busy
<1> QED
    BY <1>1, <1>2, <1>3, <1>4, <1>5, <1>6, <1>7, <1>8, <1>9 DEF Next

(* Every reachable state of account, rows, document and transactions is      *)
(* well-typed; the list of recent runs in particular is always cut.          *)
THEOREM TypeCorrect == Spec => []TypeOK
<1>1. TypeInv => TypeOK
    BY DEF TypeInv
<1> QED
    BY <1>1, TypeInit, TypeStep, PTL DEF Spec

-----------------------------------------------------------------------------
(* Money *)

(* At most one enqueue has its debit open, of a run nobody sees yet, and the *)
(* balance it will leave is the one it found less the cost.  Every other     *)
(* handler works on a run that is in the table.                              *)
DebitOpen ==
    /\ \A t \in Procs : tx[t].kind = "enqueue" =>
          /\ status[tx[t].run] = "none"
          /\ tx[t].st = "queued"
          /\ tx[t].left = credits - Cost
    /\ \A t, u \in Procs : tx[t].kind = "enqueue" /\ tx[u].kind = "enqueue" => t = u

Seen ==
    /\ \A r \in begun : status[r] # "none"
    /\ \A t \in Procs : tx[t].kind \in {"write", "started", "beat"} =>
          status[tx[t].run] # "none"
    /\ \A t \in Procs : tx[t].kind = "write" => tx[t].st # "none"

PayInv == DebitOpen /\ Seen /\ RunsArePaidFor

(* A step that moves no status from or to "none" and no credits keeps the    *)
(* account balanced.                                                         *)
LEMMA SameRunsSamePrice ==
    ASSUME RunsArePaidFor, credits' = credits, Enqueued' = Enqueued
    PROVE  RunsArePaidFor'
BY DEF RunsArePaidFor

(* The runs in the table can be counted, and one more is one more.           *)
LEMMA OneMoreRun ==
    /\ IsFiniteSet(Enqueued) /\ Cardinality(Enqueued) \in Nat
    /\ \A r \in Runs : r \notin Enqueued =>
          Cardinality(Enqueued \cup {r}) = Cardinality(Enqueued) + 1
<1>1. IsFiniteSet(Runs)
    BY FS_Interval, ConstantsAssumption DEF Runs
<1>2. IsFiniteSet(Enqueued)
    BY <1>1, FS_Subset DEF Enqueued
<1> QED
    BY <1>2, FS_CardinalityType, FS_AddElement

LEMMA PayInit == Init => PayInv
<1> SUFFICES ASSUME Init PROVE PayInv
    OBVIOUS
<1>1. DebitOpen /\ Seen
    BY DEF Init, DebitOpen, Seen, IdleTx
<1>2. Enqueued = {}
    BY DEF Init, Enqueued
<1>3. Cardinality(Enqueued) = 0
    BY <1>2, FS_EmptySet
<1>4. Cost * 0 = 0
    BY ConstantsAssumption
<1>5. RunsArePaidFor
    BY <1>3, <1>4, ConstantsAssumption DEF Init, RunsArePaidFor
<1> QED
    BY <1>1, <1>5 DEF PayInv

(* Loading the document, or failing to, leaves what a transaction is about.  *)
LEMMA LoadingKeepsTheRest ==
    ASSUME TypeOK, NEW t \in Procs, Load(t) \/ LoadFails(t)
    PROVE  \A u \in Procs : /\ tx'[u].kind = tx[u].kind /\ tx'[u].run = tx[u].run
                            /\ tx'[u].st = tx[u].st /\ tx'[u].left = tx[u].left
<1>1. tx[t] \in Tx /\ tx \in [Procs -> Tx]
    BY DEF TypeOK
<1>2. CASE Load(t)
    <2>1. PICK kept \in SUBSET doc.active :
             tx' = [tx EXCEPT ![t].pc = "loaded", ![t].doc = Changed(t, kept)]
        BY <1>2 DEF Load
    <2> DEFINE new == Changed(t, kept)
    <2> HIDE DEF new
    <2>2. tx' = [tx EXCEPT ![t] = [tx[t] EXCEPT !.pc = "loaded", !.doc = new]]
        BY <1>1, <2>1 DEF new
    <2>3. LET x == [tx[t] EXCEPT !.pc = "loaded", !.doc = new]
          IN x.kind = tx[t].kind /\ x.run = tx[t].run /\ x.st = tx[t].st /\ x.left = tx[t].left
        BY <1>1 DEF Tx
    <2> QED
        BY <1>1, <2>2, <2>3
<1>3. CASE LoadFails(t)
    <2>1. tx' = [tx EXCEPT ![t] = [tx[t] EXCEPT !.pc = "unrecorded"]]
        BY <1>1, <1>3 DEF LoadFails
    <2>2. LET x == [tx[t] EXCEPT !.pc = "unrecorded"]
          IN x.kind = tx[t].kind /\ x.run = tx[t].run /\ x.st = tx[t].st /\ x.left = tx[t].left
        BY <1>1 DEF Tx
    <2> QED
        BY <1>1, <2>1, <2>2
<1> QED
    BY <1>2, <1>3

(* Each step keeps at most one debit open, and the commit of the debit is    *)
(* the commit of its run.                                                    *)
LEMMA PayStep == TypeInv /\ PayInv /\ [Next]_vars => PayInv'
<1> SUFFICES ASSUME TypeInv, PayInv, [Next]_vars PROVE PayInv'
    OBVIOUS
<1> USE DEF TypeInv, PayInv
<1>0. status \in [Runs -> Status] /\ tx \in [Procs -> Tx]
    BY DEF TypeOK
<1>1. ASSUME NEW t \in Procs, NEW r \in Runs, Debit(t, r) PROVE PayInv'
    <2>1. status[r] = "none" /\ status' = status /\ credits' = credits /\ begun' = begun
        BY <1>1 DEF Debit, NextId, Fresh
    <2>2. tx' = [tx EXCEPT ![t] = [IdleTx EXCEPT !.kind = "enqueue", !.run = r, !.st = "queued",
                                                 !.left = credits - Cost]]
        BY <1>1 DEF Debit
    <2>3. /\ tx'[t].kind = "enqueue" /\ tx'[t].run = r /\ tx'[t].st = "queued"
          /\ tx'[t].left = credits - Cost
        BY <1>0, <2>2 DEF IdleTx
    <2>4. \A u \in Procs \ {t} : tx'[u] = tx[u] /\ tx[u].kind # "enqueue"
        BY <1>1, <2>2 DEF Debit, ProfileFree
    <2>5. DebitOpen'
        BY <2>1, <2>3, <2>4 DEF DebitOpen
    <2>6. Seen'
        BY <2>1, <2>3, <2>4 DEF Seen
    <2>7. RunsArePaidFor'
        BY <2>1, SameRunsSamePrice DEF Enqueued
    <2> QED
        BY <2>5, <2>6, <2>7
<1>2. ASSUME NEW t \in Procs, NEW r \in Runs, Claim(t, r) PROVE PayInv'
    <2>1. /\ status[r] = "queued" /\ status' = [status EXCEPT ![r] = "running"]
          /\ credits' = credits /\ begun' = begun \cup {r}
        BY <1>2 DEF Claim
    <2>2. \A q \in Runs : status'[q] = "none" <=> status[q] = "none"
        BY <1>0, <2>1
    <2>3. tx'[t].kind = "started" /\ tx'[t].run = r
        BY <1>0, <1>2 DEF Claim, Open, IdleTx
    <2>4. \A u \in Procs \ {t} : tx'[u] = tx[u]
        BY <1>0, <1>2 DEF Claim, Open
    <2>5. DebitOpen'
        BY <1>0, <2>1, <2>2, <2>3, <2>4 DEF DebitOpen, Busy
    <2>6. Seen'
        BY <1>0, <2>1, <2>2, <2>3, <2>4 DEF Seen, Busy, TypeOK
    <2>7. RunsArePaidFor'
        BY <2>1, <2>2, SameRunsSamePrice DEF Enqueued
    <2> QED
        BY <2>5, <2>6, <2>7
<1>3. ASSUME NEW t \in Procs, NEW r \in Runs, NEW st \in Terminal \cup {"queued"}, WriteStatus(t, r, st)
      PROVE  PayInv'
    <2>1. r \in begun /\ status' = status /\ credits' = credits /\ begun' = begun
        BY <1>3 DEF WriteStatus
    <2>2. tx'[t].kind = "write" /\ tx'[t].run = r /\ tx'[t].st = st /\ st # "none"
        BY <1>0, <1>3 DEF WriteStatus, Open, IdleTx, Terminal
    <2>3. \A u \in Procs \ {t} : tx'[u] = tx[u]
        BY <1>0, <1>3 DEF WriteStatus, Open
    <2>4. DebitOpen'
        BY <2>1, <2>2, <2>3 DEF DebitOpen
    <2>5. Seen'
        BY <2>1, <2>2, <2>3 DEF Seen
    <2>6. RunsArePaidFor'
        BY <2>1, SameRunsSamePrice DEF Enqueued
    <2> QED
        BY <2>4, <2>5, <2>6
<1>4. ASSUME NEW t \in Procs, NEW r \in Runs, TouchRun(t, r) PROVE PayInv'
    <2>1. r \in begun /\ status' = status /\ credits' = credits /\ begun' = begun
        BY <1>4 DEF TouchRun
    <2>2. tx'[t].kind = "beat" /\ tx'[t].run = r
        BY <1>0, <1>4 DEF TouchRun, Open, IdleTx
    <2>3. \A u \in Procs \ {t} : tx'[u] = tx[u]
        BY <1>0, <1>4 DEF TouchRun, Open
    <2>4. DebitOpen'
        BY <2>1, <2>2, <2>3 DEF DebitOpen
    <2>5. Seen'
        BY <2>1, <2>2, <2>3 DEF Seen
    <2>6. RunsArePaidFor'
        BY <2>1, SameRunsSamePrice DEF Enqueued
    <2> QED
        BY <2>4, <2>5, <2>6
<1>5. ASSUME NEW t \in Procs, Load(t) \/ LoadFails(t) PROVE PayInv'
    <2>1. \A u \in Procs : /\ tx'[u].kind = tx[u].kind /\ tx'[u].run = tx[u].run
                           /\ tx'[u].st = tx[u].st /\ tx'[u].left = tx[u].left
        BY <1>5, LoadingKeepsTheRest
    <2>2. status' = status /\ credits' = credits /\ begun' = begun
        BY <1>5 DEF Load, LoadFails
    <2>3. DebitOpen'
        BY <2>1, <2>2 DEF DebitOpen
    <2>4. Seen'
        BY <2>1, <2>2 DEF Seen
    <2>5. RunsArePaidFor'
        BY <2>2, SameRunsSamePrice DEF Enqueued
    <2> QED
        BY <2>3, <2>4, <2>5
<1>6. ASSUME NEW t \in Procs, Commit(t) PROVE PayInv'
    <2>1. /\ tx'[t].kind = "idle" /\ begun' = begun
          /\ \A u \in Procs \ {t} : tx'[u] = tx[u]
        BY <1>0, <1>6 DEF Commit, IdleTx
    <2>2. CASE tx[t].kind = "enqueue"
        <3> DEFINE r == tx[t].run
        <3>1. /\ status[r] = "none" /\ r \in Runs
              /\ status' = [status EXCEPT ![r] = "queued"] /\ credits' = credits - Cost
            BY <1>6, <2>2 DEF Commit, DebitOpen, Busy
        <3>2. \A u \in Procs \ {t} : tx[u].kind # "enqueue"
            BY <2>2 DEF DebitOpen
        <3>3. \A q \in Runs : status[q] # "none" => status'[q] # "none"
            BY <1>0, <3>1
        <3>4. DebitOpen'
            BY <2>1, <3>2 DEF DebitOpen
        <3>5. Seen'
            BY <2>1, <3>3 DEF Seen, Busy, TypeOK
        <3>6. Enqueued' = Enqueued \cup {r} /\ r \notin Enqueued
            BY <1>0, <3>1 DEF Enqueued
        <3>7. Cardinality(Enqueued') = Cardinality(Enqueued) + 1
            BY <3>1, <3>6, OneMoreRun
        <3>8. Cardinality(Enqueued) \in Nat /\ credits \in Nat
            BY OneMoreRun, ConstantsAssumption DEF TypeOK
        <3>9. \A n \in Nat : Cost * (n + 1) = Cost * n + Cost /\ Cost * n \in Nat
            BY ConstantsAssumption
        <3>10. RunsArePaidFor'
            <4> DEFINE n == Cardinality(Enqueued)
            <4>1. credits + Cost * n = Credits
                BY DEF RunsArePaidFor
            <4> HIDE DEF n
            <4>2. n \in Nat /\ Cost * (n + 1) = Cost * n + Cost /\ Cost * n \in Nat
                BY <3>8, <3>9 DEF n
            <4>3. (credits - Cost) + (Cost * n + Cost) = Credits
                BY <3>8, <4>1, <4>2, ConstantsAssumption
            <4> QED
                BY <3>1, <3>7, <4>2, <4>3 DEF RunsArePaidFor, n
        <3> QED
            BY <3>4, <3>5, <3>10
    <2>3. CASE tx[t].kind # "enqueue"
        <3>1. credits' = credits
            BY <1>6, <2>3 DEF Commit
        <3>2. \A q \in Runs : status'[q] = "none" <=> status[q] = "none"
            BY <1>0, <1>6, <2>3 DEF Commit, Seen, Busy
        <3>3. DebitOpen'
            BY <2>1, <3>1, <3>2 DEF DebitOpen, Busy
        <3>4. Seen'
            BY <2>1, <3>2 DEF Seen, Busy, TypeOK
        <3>5. RunsArePaidFor'
            BY <3>1, <3>2, SameRunsSamePrice DEF Enqueued
        <3> QED
            BY <3>3, <3>4, <3>5
    <2> QED
        BY <2>2, <2>3
<1>7. ASSUME NEW t \in Procs, Rollback(t) PROVE PayInv'
    <2>1. /\ tx'[t].kind = "idle" /\ \A u \in Procs \ {t} : tx'[u] = tx[u]
          /\ status' = status /\ credits' = credits /\ begun' = begun
        BY <1>0, <1>7 DEF Rollback, IdleTx
    <2>2. DebitOpen'
        BY <2>1 DEF DebitOpen
    <2>3. Seen'
        BY <2>1 DEF Seen
    <2>4. RunsArePaidFor'
        BY <2>1, SameRunsSamePrice DEF Enqueued
    <2> QED
        BY <2>2, <2>3, <2>4
<1>8. ASSUME UNCHANGED vars PROVE PayInv'
    BY <1>8, SameRunsSamePrice DEF vars, DebitOpen, Seen, Enqueued
<1> QED
    BY <1>1, <1>2, <1>3, <1>4, <1>5, <1>6, <1>7, <1>8 DEF Next

(* Whatever enqueues of one user run at the same time, fail or roll back,    *)
(* the credits that are gone are the price of the runs that are there.       *)
THEOREM EveryRunIsPaidFor == Spec => []RunsArePaidFor
<1>1. PayInv => RunsArePaidFor
    BY DEF PayInv
<1> QED
    BY <1>1, TypeInit, TypeStep, PayInit, PayStep, PTL DEF Spec
-----------------------------------------------------------------------------
(* The list of recent runs as a relation between runs and statuses *)

Lists(recent, r, s) == \E i \in 1..Len(recent) : recent[i].run = r /\ recent[i].st = s

Unique(recent) == \A i, j \in 1..Len(recent) : recent[i].run = recent[j].run => i = j

RunsWith(recent, s) == {r \in Runs : Lists(recent, r, s)}

(* Where the entry of a run was taken out, no other entry of it is left, the *)
(* entries of the other runs all are, and no run has two.                    *)
LEMMA PoppedLists ==
    ASSUME NEW recent \in Seq(Entry), Unique(recent), NEW r
    PROVE  /\ Unique(Popped(recent, r))
           /\ \A q, s : Lists(Popped(recent, r), q, s) <=> q # r /\ Lists(recent, q, s)
<1>1. CASE Positions(recent, r) = {}
    <2>1. \A s : ~Lists(recent, r, s)
        BY <1>1 DEF Positions, Lists
    <2> QED
        BY <1>1, <2>1 DEF Popped
<1>2. CASE Positions(recent, r) # {}
    <2> DEFINE k == CHOOSE k \in Positions(recent, r) : TRUE
               n == Len(recent)
               p == SubSeq(recent, 1, k - 1) \o SubSeq(recent, k + 1, n)
    <2>1. k \in 1..n /\ recent[k].run = r
        BY <1>2 DEF Positions
    <2>2. n \in Nat /\ k \in Nat
        BY <2>1, LenProperties
    <2>3. Popped(recent, r) = p
        BY <1>2 DEF Popped
    <2> HIDE DEF k
    <2>4. /\ Len(p) = n - 1
          /\ \A i \in 1..(n - 1) : p[i] = IF i < k THEN recent[i] ELSE recent[i + 1]
        <3> DEFINE a == SubSeq(recent, 1, k - 1)
                   b == SubSeq(recent, k + 1, n)
        <3>1. /\ a \in Seq(Entry) /\ Len(a) = k - 1
              /\ \A i \in 1..(k - 1) : a[i] = recent[i]
            BY <2>1, <2>2, SubSeqProperties
        <3>2. /\ b \in Seq(Entry) /\ Len(b) = n - k
              /\ \A i \in 1..(n - k) : b[i] = recent[k + i]
            BY <2>1, <2>2, SubSeqProperties
        <3> HIDE DEF a, b
        <3>3. /\ Len(a \o b) = n - 1
              /\ \A i \in 1..(n - 1) :
                    (a \o b)[i] = IF i <= k - 1 THEN a[i] ELSE b[i - (k - 1)]
            <4>1. Len(a) + Len(b) = n - 1
                BY <2>1, <2>2, <3>1, <3>2
            <4>2. /\ Len(a \o b) = Len(a) + Len(b)
                  /\ \A i \in 1..Len(a) + Len(b) :
                        (a \o b)[i] = IF i <= Len(a) THEN a[i] ELSE b[i - Len(a)]
                BY <3>1, <3>2, ConcatProperties
            <4> QED
                BY <2>2, <3>1, <3>2, <4>1, <4>2
        <3>4. ASSUME NEW i \in 1..(n - 1)
              PROVE  (a \o b)[i] = IF i < k THEN recent[i] ELSE recent[i + 1]
            <4>1. CASE i < k
                <5>1. i \in 1..(k - 1) /\ i <= k - 1
                    BY <2>1, <2>2, <4>1
                <5> QED
                    BY <3>1, <3>3, <4>1, <5>1
            <4>2. CASE ~(i < k)
                <5>1. i - (k - 1) \in 1..(n - k) /\ ~(i <= k - 1) /\ k + (i - (k - 1)) = i + 1
                    BY <2>1, <2>2, <4>2
                <5> QED
                    BY <3>2, <3>3, <4>2, <5>1
            <4> QED
                BY <4>1, <4>2
        <3>5. p = a \o b
            BY DEF a, b
        <3> QED
            BY <3>3, <3>4, <3>5
    <2> HIDE DEF p
    <2>5. ASSUME NEW i \in 1..(n - 1), NEW j \in 1..(n - 1), p[i].run = p[j].run PROVE i = j
        <3> DEFINE a == IF i < k THEN i ELSE i + 1
                   b == IF j < k THEN j ELSE j + 1
        <3>1. a \in 1..n /\ b \in 1..n /\ p[i] = recent[a] /\ p[j] = recent[b] /\ (a = b => i = j)
            BY <2>1, <2>2, <2>4
        <3> QED
            BY <2>5, <3>1 DEF Unique
    <2>6. ASSUME NEW q, NEW s PROVE Lists(p, q, s) <=> q # r /\ Lists(recent, q, s)
        <3>1. ASSUME Lists(p, q, s) PROVE q # r /\ Lists(recent, q, s)
            <4>1. PICK i \in 1..(n - 1) : p[i].run = q /\ p[i].st = s
                BY <2>4, <3>1 DEF Lists
            <4> DEFINE a == IF i < k THEN i ELSE i + 1
            <4>2. a \in 1..n /\ p[i] = recent[a] /\ a # k
                BY <2>1, <2>2, <2>4
            <4>3. recent[a].run = q /\ recent[a].st = s
                BY <4>1, <4>2
            <4>4. q # r
                BY <2>1, <4>2, <4>3 DEF Unique
            <4> QED
                BY <4>2, <4>3, <4>4 DEF Lists
        <3>2. ASSUME q # r, Lists(recent, q, s) PROVE Lists(p, q, s)
            <4>1. PICK a \in 1..n : recent[a].run = q /\ recent[a].st = s
                BY <3>2 DEF Lists
            <4>2. a # k
                BY <2>1, <3>2, <4>1
            <4> DEFINE i == IF a < k THEN a ELSE a - 1
            <4>3. i \in 1..(n - 1) /\ p[i] = recent[a]
                BY <2>1, <2>2, <2>4, <4>2
            <4> QED
                BY <2>4, <4>1, <4>3 DEF Lists
        <3> QED
            BY <3>1, <3>2
    <2> QED
        BY <2>3, <2>4, <2>5, <2>6 DEF Unique
<1> QED
    BY <1>1, <1>2

(* The run that is put first is listed with its new status only; the others  *)
(* keep theirs or fall off the end.                                          *)
LEMMA UpsertedLists ==
    ASSUME NEW recent \in Seq(Entry), Unique(recent), NEW r \in Runs, NEW st \in Status
    PROVE  /\ Unique(Upserted(recent, r, st))
           /\ Lists(Upserted(recent, r, st), r, st)
           /\ \A q, s : Lists(Upserted(recent, r, st), q, s) =>
                 IF q = r THEN s = st ELSE Lists(recent, q, s)
<1> DEFINE p == Popped(recent, r)
           e == [run |-> r, st |-> st]
           all == <<e>> \o p
           n == IF Len(all) < Limit THEN Len(all) ELSE Limit
           u == SubSeq(all, 1, n)
<1>1. p \in Seq(Entry) /\ e \in Entry
    BY PoppedIsAList DEF Entry
<1>2. Unique(p) /\ \A q, s : Lists(p, q, s) <=> q # r /\ Lists(recent, q, s)
    BY PoppedLists
<1>3. Upserted(recent, r, st) = u
    BY DEF Upserted
<1> HIDE DEF p
<1>4. /\ Len(p) \in Nat /\ Len(all) = Len(p) + 1 /\ all \in Seq(Entry)
      /\ all[1] = e /\ \A i \in 2..(Len(p) + 1) : all[i] = p[i - 1]
    <2> HIDE DEF e
    <2> QED
        BY <1>1, SMT
<1> HIDE DEF all
<1>5. n \in 1..(Len(p) + 1)
    BY <1>4, ConstantsAssumption
<1> HIDE DEF n
<1>6. Len(u) = n /\ \A i \in 1..n : u[i] = all[i]
    BY <1>4, <1>5, SMT
<1> HIDE DEF u
<1>7. u[1] = e /\ \A i \in 2..n : i - 1 \in 1..Len(p) /\ u[i] = p[i - 1]
    BY <1>4, <1>5, <1>6
<1>8. \A j \in 1..Len(p) : p[j].run # r
    BY <1>2 DEF Lists
<1>9. ASSUME NEW i \in 1..n, NEW j \in 1..n, u[i].run = u[j].run PROVE i = j
    <2>1. CASE i = 1 \/ j = 1
        BY <1>5, <1>7, <1>8, <1>9, <2>1
    <2>2. CASE i # 1 /\ j # 1
        <3>1. i - 1 \in 1..Len(p) /\ j - 1 \in 1..Len(p) /\ u[i] = p[i - 1] /\ u[j] = p[j - 1]
            BY <1>5, <1>7, <2>2
        <3>2. i - 1 = j - 1
            BY <1>2, <1>9, <3>1 DEF Unique
        <3> QED
            BY <1>5, <3>2
    <2> QED
        BY <2>1, <2>2
<1>10. Lists(u, r, st)
    BY <1>5, <1>6, <1>7 DEF Lists
<1>11. ASSUME NEW q, NEW s, Lists(u, q, s) PROVE IF q = r THEN s = st ELSE Lists(recent, q, s)
    <2>1. PICK i \in 1..n : u[i].run = q /\ u[i].st = s
        BY <1>6, <1>11 DEF Lists
    <2>2. CASE i = 1
        BY <1>7, <2>1, <2>2
    <2>3. CASE i # 1
        <3>1. i - 1 \in 1..Len(p) /\ u[i] = p[i - 1]
            BY <1>5, <1>7, <2>3
        <3>2. Lists(p, q, s)
            BY <2>1, <3>1 DEF Lists
        <3> QED
            BY <1>2, <3>2
    <2> QED
        BY <2>2, <2>3
<1> QED
    BY <1>3, <1>6, <1>9, <1>10, <1>11 DEF Unique

(* What is recorded for a run is the status it is listed with.               *)
LEMMA RecordedIsListed ==
    ASSUME NEW d \in Doc, Unique(d.recent), NEW r
    PROVE  /\ Known(d, r) => Lists(d.recent, r, Recorded(d, r))
           /\ ~Known(d, r) => Recorded(d, r) = "none"
           /\ \A s : Lists(d.recent, r, s) => Known(d, r) /\ Recorded(d, r) = s
<1>1. ASSUME Known(d, r) PROVE Lists(d.recent, r, Recorded(d, r))
    <2>1. (CHOOSE i \in Positions(d.recent, r) : TRUE) \in Positions(d.recent, r)
        BY <1>1 DEF Known
    <2> QED
        BY <1>1, <2>1 DEF Recorded, Positions, Lists
<1>2. ~Known(d, r) => Recorded(d, r) = "none"
    BY DEF Recorded
<1>3. ASSUME NEW s, Lists(d.recent, r, s) PROVE Known(d, r) /\ Recorded(d, r) = s
    <2>1. Known(d, r)
        BY <1>3 DEF Lists, Known, Positions
    <2>2. Lists(d.recent, r, Recorded(d, r))
        BY <1>1, <2>1
    <2> QED
        BY <1>3, <2>1, <2>2 DEF Lists, Unique
<1> QED
    BY <1>1, <1>2, <1>3

-----------------------------------------------------------------------------
(* The gauges *)

DocOk(d) ==
    /\ Unique(d.recent)
    /\ \A s \in Terminal : d.count[s] >= Cardinality(RunsWith(d.recent, s))
    /\ d.terminal = d.count["success"] + d.count["error"] + d.count["attention"]

(* What is about to be written back is as good as what is there.             *)
GaugeInv == DocOk(doc) /\ \A t \in Procs : tx[t].pc = "loaded" => DocOk(tx[t].doc)

LEMMA RunsAreCountable ==
    ASSUME NEW S \in SUBSET Runs
    PROVE  /\ IsFiniteSet(S) /\ Cardinality(S) \in Nat
           /\ \A r \in S : /\ IsFiniteSet(S \ {r}) /\ Cardinality(S \ {r}) = Cardinality(S) - 1
                           /\ Cardinality(S) > 0
           /\ \A T \in SUBSET S : Cardinality(T) <= Cardinality(S)
<1>1. IsFiniteSet(Runs)
    BY FS_Interval, ConstantsAssumption DEF Runs
<1>2. IsFiniteSet(S) /\ Cardinality(S) \in Nat
    BY <1>1, FS_Subset, FS_CardinalityType
<1>3. ASSUME NEW r \in S
      PROVE  /\ IsFiniteSet(S \ {r}) /\ Cardinality(S \ {r}) = Cardinality(S) - 1
             /\ Cardinality(S) > 0
    <2>1. IsFiniteSet(S \ {r}) /\ Cardinality(S \ {r}) = Cardinality(S) - 1
        BY <1>2, FS_RemoveElement
    <2>2. Cardinality(S \ {r}) \in Nat
        BY <2>1, FS_CardinalityType
    <2> QED
        BY <1>2, <2>1, <2>2
<1>4. \A T \in SUBSET S : Cardinality(T) <= Cardinality(S)
    BY <1>2, FS_Subset
<1> QED
    BY <1>2, <1>3, <1>4

(* How the number of runs listed with a status moves when a run is put first *)
(* with the status st.                                                       *)
LEMMA ListedRuns ==
    ASSUME NEW d \in Doc, Unique(d.recent), NEW r \in Runs, NEW st \in Status, NEW s \in Terminal
    PROVE  LET now == Cardinality(RunsWith(d.recent, s))
               then == Cardinality(RunsWith(Upserted(d.recent, r, st), s))
           IN  /\ now \in Nat /\ then \in Nat
               /\ s # st => then <= now
               /\ s # st /\ Recorded(d, r) = s => then < now
               /\ s = st => then <= now + 1
               /\ s = st /\ Recorded(d, r) = s => then <= now
<1> DEFINE R == RunsWith(d.recent, s)
           U == RunsWith(Upserted(d.recent, r, st), s)
<1>1. d.recent \in Seq(Entry)
    BY DEF Doc, RecentRuns
<1>2. R \in SUBSET Runs /\ U \in SUBSET Runs
    BY DEF RunsWith
<1>3. \A q \in U : q # r => q \in R
    BY <1>1, UpsertedLists DEF RunsWith
<1>4. r \in U => s = st
    BY <1>1, UpsertedLists DEF RunsWith
<1>5. Recorded(d, r) = s => r \in R
    BY RecordedIsListed DEF RunsWith, Terminal
<1> HIDE DEF R, U
<1>6. Cardinality(R) \in Nat /\ Cardinality(U) \in Nat
    BY <1>2, RunsAreCountable
<1>7. CASE r \in U
    <2>1. U \ {r} \in SUBSET (R \ {r}) /\ R \ {r} \in SUBSET Runs
        BY <1>2, <1>3
    <2>2. Cardinality(U \ {r}) <= Cardinality(R \ {r})
        BY <2>1, RunsAreCountable
    <2>3. Cardinality(U \ {r}) = Cardinality(U) - 1
        BY <1>2, <1>7, RunsAreCountable
    <2>4. r \in R => Cardinality(R \ {r}) = Cardinality(R) - 1
        BY <1>2, RunsAreCountable
    <2>5. r \notin R => Cardinality(R \ {r}) = Cardinality(R)
        <3>1. r \notin R => R \ {r} = R
            OBVIOUS
        <3> QED
            BY <3>1
    <2> QED
        BY <1>4, <1>5, <1>6, <1>7, <2>2, <2>3, <2>4, <2>5 DEF R, U
<1>8. CASE r \notin U
    <2>1. U \in SUBSET R
        BY <1>3, <1>8
    <2>2. Cardinality(U) <= Cardinality(R)
        BY <1>2, <2>1, RunsAreCountable
    <2>3. ASSUME r \in R PROVE Cardinality(U) < Cardinality(R)
        <3>1. U \in SUBSET (R \ {r}) /\ R \ {r} \in SUBSET Runs
            BY <1>2, <1>8, <2>1
        <3>2. Cardinality(U) <= Cardinality(R \ {r})
            BY <3>1, RunsAreCountable
        <3>3. Cardinality(R \ {r}) = Cardinality(R) - 1
            BY <1>2, <2>3, RunsAreCountable
        <3> QED
            BY <1>6, <3>2, <3>3
    <2> QED
        BY <1>5, <1>6, <2>2, <2>3 DEF R, U
<1> QED
    BY <1>7, <1>8

(* Listing a run with a status no gauge counts keeps the gauges above the    *)
(* list.                                                                     *)
LEMMA ListedKeepsGauges ==
    ASSUME NEW d \in Doc, DocOk(d), NEW r \in Runs, NEW st \in Status \ Terminal
    PROVE  DocOk(Listed(d, r, st))
<1> DEFINE l == Listed(d, r, st)
<1>1. l.recent = Upserted(d.recent, r, st) /\ l.count = d.count /\ l.terminal = d.terminal
    BY DEF Listed, Doc
<1>2. Unique(d.recent) /\ d.recent \in Seq(Entry)
    BY DEF DocOk, Doc, RecentRuns
<1>3. Unique(l.recent)
    BY <1>1, <1>2, UpsertedLists
<1>4. ASSUME NEW s \in Terminal PROVE l.count[s] >= Cardinality(RunsWith(l.recent, s))
    <2>1. /\ Cardinality(RunsWith(d.recent, s)) \in Nat
          /\ Cardinality(RunsWith(l.recent, s)) \in Nat
          /\ Cardinality(RunsWith(l.recent, s)) <= Cardinality(RunsWith(d.recent, s))
        BY <1>1, <1>2, ListedRuns
    <2>2. d.count[s] \in Nat /\ d.count[s] >= Cardinality(RunsWith(d.recent, s))
        BY DEF DocOk, Doc
    <2> QED
        BY <1>1, <2>1, <2>2
<1> QED
    BY <1>1, <1>3, <1>4 DEF DocOk

(* A status write moves its run from one gauge to another: the one it leaves *)
(* counted it, so no counter meets its floor.                                *)
LEMMA TerminalKeepsGauges ==
    ASSUME NEW d \in Doc, DocOk(d), NEW r \in Runs, NEW st \in Status, NEW kept
    PROVE  LET then == RecordTerminal(d, r, st, kept)
               prev == Recorded(d, r)
           IN  /\ DocOk(then)
               /\ \A s \in Terminal :
                     then.count[s] = IF prev = st THEN d.count[s]
                                     ELSE IF s = prev THEN d.count[s] - 1
                                     ELSE IF s = st THEN d.count[s] + 1
                                     ELSE d.count[s]
<1> DEFINE prev == Recorded(d, r)
           then == RecordTerminal(d, r, st, kept)
           moves == prev # st
<1>1. /\ then.recent = Upserted(d.recent, r, st)
      /\ then.terminal = Plus(Minus(d.terminal, moves /\ prev \in Terminal), moves /\ st \in Terminal)
      /\ then.count = [s \in Terminal |-> Plus(Minus(d.count[s], moves /\ s = prev), moves /\ s = st)]
    BY DEF RecordTerminal, Listed, Doc
<1> HIDE DEF prev, then
<1>2. Unique(d.recent) /\ d.recent \in Seq(Entry)
    BY DEF DocOk, Doc, RecentRuns
<1>3. Unique(then.recent)
    BY <1>1, <1>2, UpsertedLists
<1>4. \A s \in Terminal : d.count[s] \in Nat /\ d.count[s] >= Cardinality(RunsWith(d.recent, s))
    BY DEF DocOk, Doc
<1>5. ASSUME prev \in Terminal PROVE d.count[prev] > 0
    <2>1. prev \in {"success", "error", "attention"} /\ prev # "none"
        BY <1>5 DEF Terminal
    <2>2. prev \in Terminal /\ r \in RunsWith(d.recent, prev)
        BY <1>2, <1>5, <2>1, RecordedIsListed DEF RunsWith, prev
    <2>3. Cardinality(RunsWith(d.recent, prev)) > 0 /\ Cardinality(RunsWith(d.recent, prev)) \in Nat
        BY <2>2, RunsAreCountable DEF RunsWith
    <2> QED
        BY <1>4, <2>2, <2>3
<1>6. ASSUME NEW s \in Terminal
      PROVE  then.count[s] = IF prev = st THEN d.count[s]
                             ELSE IF s = prev THEN d.count[s] - 1
                             ELSE IF s = st THEN d.count[s] + 1
                             ELSE d.count[s]
    BY <1>1, <1>4, <1>5 DEF Plus, Minus
<1>7. ASSUME NEW s \in Terminal PROVE then.count[s] >= Cardinality(RunsWith(then.recent, s))
    <2>1. /\ Cardinality(RunsWith(d.recent, s)) \in Nat
          /\ Cardinality(RunsWith(then.recent, s)) \in Nat
          /\ s # st => Cardinality(RunsWith(then.recent, s)) <= Cardinality(RunsWith(d.recent, s))
          /\ s # st /\ prev = s =>
                Cardinality(RunsWith(then.recent, s)) < Cardinality(RunsWith(d.recent, s))
          /\ s = st => Cardinality(RunsWith(then.recent, s)) <= Cardinality(RunsWith(d.recent, s)) + 1
          /\ s = st /\ prev = s =>
                Cardinality(RunsWith(then.recent, s)) <= Cardinality(RunsWith(d.recent, s))
        BY <1>1, <1>2, ListedRuns DEF prev
    <2> QED
        BY <1>4, <1>6, <2>1
<1>8. then.terminal = then.count["success"] + then.count["error"] + then.count["attention"]
    <2>1. d.terminal = d.count["success"] + d.count["error"] + d.count["attention"]
        BY DEF DocOk
    <2>2. "success" \in Terminal /\ "error" \in Terminal /\ "attention" \in Terminal
        BY DEF Terminal
    <2>3. prev \in Terminal => d.terminal > 0
        <3>1. prev \in Terminal => prev = "success" \/ prev = "error" \/ prev = "attention"
            BY DEF Terminal
        <3> QED
            BY <1>4, <1>5, <2>1, <2>2, <3>1
    <2>4. d.terminal \in Nat
        BY DEF Doc
    <2>5. then.terminal = IF prev = st THEN d.terminal
                          ELSE d.terminal - (IF prev \in Terminal THEN 1 ELSE 0)
                                          + (IF st \in Terminal THEN 1 ELSE 0)
        BY <1>1, <2>3, <2>4 DEF Plus, Minus
    <2>6. st \in Terminal => st = "success" \/ st = "error" \/ st = "attention"
        BY DEF Terminal
    <2>7. prev \in Terminal => prev = "success" \/ prev = "error" \/ prev = "attention"
        BY DEF Terminal
    <2> QED
        BY <1>4, <1>6, <2>1, <2>2, <2>4, <2>5, <2>6, <2>7
<1> QED
    BY <1>3, <1>6, <1>7, <1>8 DEF DocOk, prev, then

LEMMA ChangedKeepsGauges ==
    ASSUME TypeInv, DocOk(doc), NEW t \in Procs, tx[t].kind # "idle", NEW kept \in SUBSET doc.active
    PROVE  DocOk(Changed(t, kept))
<1> DEFINE r == tx[t].run
           st == tx[t].st
<1>1. /\ doc \in Doc /\ r \in Runs /\ st \in Status
      /\ tx[t].kind \in {"enqueue", "started", "write", "beat"}
    BY TxFields DEF TypeInv, TypeOK, Busy, Kind
<1>2. CASE tx[t].kind = "enqueue"
    <2> DEFINE l == Listed(doc, r, "queued")
    <2>1. DocOk(l) /\ l \in Doc
        BY <1>1, ListedKeepsGauges, ListedIsADoc DEF Status, Terminal
    <2> HIDE DEF l
    <2>2. LET e == [l EXCEPT !.spent = IF Known(doc, r) THEN @ ELSE @ + Cost]
          IN e.recent = l.recent /\ e.count = l.count /\ e.terminal = l.terminal
        BY <2>1 DEF Doc
    <2>3. DocOk(RecordEnqueued(doc, r))
        BY <2>1, <2>2 DEF RecordEnqueued, DocOk, l
    <2> QED
        BY <1>2, <2>3 DEF Changed
<1>3. CASE tx[t].kind = "started"
    <2> DEFINE l == Listed(doc, r, "running")
    <2>1. DocOk(l) /\ l \in Doc
        BY <1>1, ListedKeepsGauges, ListedIsADoc DEF Status, Terminal
    <2> HIDE DEF l
    <2>2. LET e == [l EXCEPT !.active = kept \cup {r}]
          IN e.recent = l.recent /\ e.count = l.count /\ e.terminal = l.terminal
        BY <2>1 DEF Doc
    <2>3. DocOk(RecordStarted(doc, r, kept))
        BY <2>1, <2>2 DEF RecordStarted, DocOk, l
    <2> QED
        BY <1>3, <2>3 DEF Changed
<1>4. CASE tx[t].kind = "write"
    <2>1. DocOk(RecordTerminal(doc, r, st, kept))
        BY <1>1, TerminalKeepsGauges
    <2> QED
        BY <1>4, <2>1 DEF Changed
<1>5. CASE tx[t].kind = "beat"
    <2>1. LET e == [doc EXCEPT !.active = kept \cup {r}]
          IN e.recent = doc.recent /\ e.count = doc.count /\ e.terminal = doc.terminal
        BY <1>1 DEF Doc
    <2>2. DocOk(RecordBeat(doc, r, st, kept))
        BY <2>1 DEF RecordBeat, DocOk
    <2> QED
        BY <1>5, <2>2 DEF Changed
<1> QED
    BY <1>1, <1>2, <1>3, <1>4, <1>5

LEMMA GaugeInit == Init => GaugeInv
<1> SUFFICES ASSUME Init PROVE GaugeInv
    OBVIOUS
<1>1. Unique(EmptyDoc.recent) /\ \A s : RunsWith(EmptyDoc.recent, s) = {}
    BY DEF EmptyDoc, Unique, RunsWith, Lists
<1>2. \A s \in Terminal : EmptyDoc.count[s] = 0
    BY DEF EmptyDoc
<1>3. EmptyDoc.terminal = EmptyDoc.count["success"] + EmptyDoc.count["error"] + EmptyDoc.count["attention"]
    BY DEF EmptyDoc, Terminal
<1>4. DocOk(EmptyDoc)
    BY <1>1, <1>2, <1>3, FS_EmptySet DEF DocOk
<1>5. \A t \in Procs : tx[t].pc = "open"
    BY IdleIsATx DEF Init
<1> QED
    BY <1>4, <1>5 DEF Init, GaugeInv

(* What another handler's step leaves of a transaction: all of it.  What the *)
(* handler's own step makes of it: an idle one, an opened one, or one with a *)
(* changed document.                                                         *)
LEMMA TxMoves ==
    ASSUME TypeInv, NEW t \in Procs
    PROVE  /\ \A u \in Procs \ {t} :
                 (\/ \E r \in Runs : Debit(t, r) \/ Claim(t, r) \/ TouchRun(t, r)
                  \/ \E r \in Runs, st \in Status : WriteStatus(t, r, st)
                  \/ Load(t) \/ LoadFails(t) \/ Commit(t) \/ Rollback(t)) => tx'[u] = tx[u]
           /\ \A r \in Runs : Debit(t, r) \/ Claim(t, r) \/ TouchRun(t, r) =>
                 tx'[t].pc = "open" /\ tx'[t].kind # "idle" /\ tx'[t].run = r
           /\ \A r \in Runs, st \in Status : WriteStatus(t, r, st) =>
                 tx'[t].pc = "open" /\ tx'[t].kind = "write" /\ tx'[t].run = r /\ tx'[t].st = st
           /\ Load(t) =>
                 tx'[t].pc = "loaded" /\ \E kept \in SUBSET doc.active : tx'[t].doc = Changed(t, kept)
           /\ LoadFails(t) => tx'[t].pc = "unrecorded"
           /\ Commit(t) \/ Rollback(t) => tx'[t] = IdleTx
<1>0. tx \in [Procs -> Tx] /\ tx[t] \in Tx
    BY DEF TypeInv, TypeOK
<1>1. ASSUME NEW r \in Runs, Debit(t, r) \/ Claim(t, r) \/ TouchRun(t, r)
      PROVE  /\ tx'[t].pc = "open" /\ tx'[t].kind # "idle" /\ tx'[t].run = r
             /\ \A u \in Procs \ {t} : tx'[u] = tx[u]
    BY <1>0, <1>1 DEF Debit, Claim, TouchRun, Open, IdleTx
<1>2. ASSUME NEW r \in Runs, NEW st \in Status, WriteStatus(t, r, st)
      PROVE  /\ tx'[t].pc = "open" /\ tx'[t].kind = "write" /\ tx'[t].run = r
             /\ tx'[t].st = st
             /\ \A u \in Procs \ {t} : tx'[u] = tx[u]
    BY <1>0, <1>2 DEF WriteStatus, Open, IdleTx
<1>3. ASSUME Load(t)
      PROVE  /\ tx'[t].pc = "loaded"
             /\ \E kept \in SUBSET doc.active : tx'[t].doc = Changed(t, kept)
             /\ \A u \in Procs \ {t} : tx'[u] = tx[u]
    <2>1. PICK kept \in SUBSET doc.active :
             tx' = [tx EXCEPT ![t].pc = "loaded", ![t].doc = Changed(t, kept)]
        BY <1>3 DEF Load
    <2> DEFINE new == Changed(t, kept)
    <2> HIDE DEF new
    <2>2. tx' = [tx EXCEPT ![t] = [tx[t] EXCEPT !.pc = "loaded", !.doc = new]]
        BY <1>0, <2>1 DEF new
    <2>3. LET x == [tx[t] EXCEPT !.pc = "loaded", !.doc = new] IN x.pc = "loaded" /\ x.doc = new
        BY <1>0 DEF Tx
    <2> QED
        BY <1>0, <2>2, <2>3 DEF new
<1>4. ASSUME LoadFails(t)
      PROVE  tx'[t].pc = "unrecorded" /\ \A u \in Procs \ {t} : tx'[u] = tx[u]
    <2>1. tx' = [tx EXCEPT ![t] = [tx[t] EXCEPT !.pc = "unrecorded"]]
        BY <1>0, <1>4 DEF LoadFails
    <2>2. [tx[t] EXCEPT !.pc = "unrecorded"].pc = "unrecorded"
        BY <1>0 DEF Tx
    <2> QED
        BY <1>0, <2>1, <2>2
<1>5. ASSUME Commit(t) \/ Rollback(t)
      PROVE  tx'[t] = IdleTx /\ \A u \in Procs \ {t} : tx'[u] = tx[u]
    BY <1>0, <1>5 DEF Commit, Rollback
<1> QED
    BY <1>1, <1>2, <1>3, <1>4, <1>5

(* Every document written back covers its list, and so does the one that is  *)
(* about to be.                                                              *)
LEMMA GaugeStep == TypeInv /\ GaugeInv /\ [Next]_vars => GaugeInv'
<1> SUFFICES ASSUME TypeInv, GaugeInv, [Next]_vars PROVE GaugeInv'
    OBVIOUS
<1> USE DEF GaugeInv
<1>1. ASSUME NEW t \in Procs, NEW r \in Runs, Debit(t, r) \/ Claim(t, r) \/ TouchRun(t, r)
      PROVE  GaugeInv'
    <2>1. tx'[t].pc = "open" /\ \A u \in Procs \ {t} : tx'[u] = tx[u]
        BY <1>1, TxMoves
    <2>2. doc' = doc
        BY <1>1 DEF Debit, Claim, TouchRun
    <2> QED
        BY <2>1, <2>2 DEF DocOk
<1>2. ASSUME NEW t \in Procs, NEW r \in Runs, NEW st \in Terminal \cup {"queued"}, WriteStatus(t, r, st)
      PROVE  GaugeInv'
    <2>1. tx'[t].pc = "open" /\ \A u \in Procs \ {t} : tx'[u] = tx[u]
        BY <1>2, TxMoves DEF Status
    <2>2. doc' = doc
        BY <1>2 DEF WriteStatus
    <2> QED
        BY <2>1, <2>2 DEF DocOk
<1>3. ASSUME NEW t \in Procs, Load(t) PROVE GaugeInv'
    <2>1. PICK kept \in SUBSET doc.active : tx'[t].doc = Changed(t, kept)
        BY <1>3, TxMoves
    <2>2. DocOk(Changed(t, kept))
        BY <1>3, ChangedKeepsGauges DEF Load
    <2>3. doc' = doc /\ \A u \in Procs \ {t} : tx'[u] = tx[u]
        BY <1>3, TxMoves DEF Load
    <2>4. DocOk(tx'[t].doc) /\ DocOk(doc')
        BY <2>1, <2>2, <2>3
    <2> QED
        BY <2>3, <2>4 DEF DocOk
<1>4. ASSUME NEW t \in Procs, LoadFails(t) PROVE GaugeInv'
    <2>1. tx'[t].pc = "unrecorded" /\ \A u \in Procs \ {t} : tx'[u] = tx[u]
        BY <1>4, TxMoves
    <2>2. doc' = doc
        BY <1>4 DEF LoadFails
    <2> QED
        BY <2>1, <2>2 DEF DocOk
<1>5. ASSUME NEW t \in Procs, Commit(t) \/ Rollback(t) PROVE GaugeInv'
    <2>1. tx'[t].pc = "open" /\ \A u \in Procs \ {t} : tx'[u] = tx[u]
        BY <1>5, TxMoves, IdleIsATx
    <2>2. doc' = doc \/ (tx[t].pc = "loaded" /\ doc' = tx[t].doc)
        BY <1>5 DEF Commit, Rollback
    <2>3. DocOk(doc')
        BY <2>2
    <2> QED
        BY <2>1, <2>3 DEF DocOk
<1>6. ASSUME UNCHANGED vars PROVE GaugeInv'
    BY <1>6 DEF vars, DocOk
<1> QED
    BY <1>1, <1>2, <1>3, <1>4, <1>5, <1>6 DEF Next

(* A run has one entry in the list, so there are no more entries with a      *)
(* status than runs listed with it.                                          *)
LEMMA OneEntryPerRun ==
    ASSUME NEW d \in Doc, Unique(d.recent), NEW s
    PROVE  Cardinality({i \in 1..Len(d.recent) : d.recent[i].st = s}) <= Cardinality(RunsWith(d.recent, s))
<1> DEFINE I == {i \in 1..Len(d.recent) : d.recent[i].st = s}
           R == RunsWith(d.recent, s)
           f == [i \in I |-> d.recent[i].run]
<1>1. d.recent \in Seq(Entry)
    BY DEF Doc, RecentRuns
<1>2. ASSUME NEW i \in I PROVE d.recent[i].run \in R
    <2>1. d.recent[i] \in Entry /\ d.recent[i].st = s
        BY <1>1, ElementOfSeq
    <2> QED
        BY <2>1 DEF RunsWith, Lists, Entry
<1>3. f \in Injection(I, R)
    BY <1>2 DEF Injection, IsInjective, Unique
<1>4. IsFiniteSet(R)
    BY RunsAreCountable DEF RunsWith
<1> HIDE DEF f, I, R
<1> QED
    BY <1>3, <1>4, FS_Injection DEF I, R

(* GaugesCorrect: whatever is evicted from the list, overtaken, not recorded *)
(* or rolled back, for any length of the list, the gauges of a user's        *)
(* metadata add up and none is below what the list of recent runs shows.     *)
THEOREM GaugesCorrect == Spec => []GaugesCoverRecent
<1>1. TypeInv /\ GaugeInv => GaugesCoverRecent
    <2> SUFFICES ASSUME TypeInv, GaugeInv PROVE GaugesCoverRecent
        OBVIOUS
    <2>1. doc \in Doc /\ DocOk(doc)
        BY DEF TypeInv, TypeOK, GaugeInv
    <2>2. ASSUME NEW s \in Terminal
          PROVE  doc.count[s] >= Cardinality({i \in 1..Len(doc.recent) : doc.recent[i].st = s})
        <3>1. Cardinality({i \in 1..Len(doc.recent) : doc.recent[i].st = s})
                 <= Cardinality(RunsWith(doc.recent, s))
            BY <2>1, OneEntryPerRun DEF DocOk
        <3>2. doc.count[s] >= Cardinality(RunsWith(doc.recent, s)) /\ doc.count[s] \in Nat
            BY <2>1 DEF DocOk, Doc
        <3>3. Cardinality(RunsWith(doc.recent, s)) \in Nat
            BY RunsAreCountable DEF RunsWith
        <3>4. Cardinality({i \in 1..Len(doc.recent) : doc.recent[i].st = s}) \in Nat
            <4>1. Len(doc.recent) \in Nat
                BY <2>1 DEF Doc, RecentRuns
            <4>2. IsFiniteSet(1..Len(doc.recent))
                BY <4>1, FS_Interval
            <4> QED
                BY <4>2, FS_Subset, FS_CardinalityType
        <3> QED
            BY <3>1, <3>2, <3>3, <3>4
    <2> QED
        BY <2>1, <2>2 DEF GaugesCoverRecent, DocOk
<1> QED
    BY <1>1, TypeInit, TypeStep, GaugeInit, GaugeStep, PTL DEF Spec

-----------------------------------------------------------------------------
(* What the row locks keep apart *)

\* A run's row is locked by one status write or heartbeat at a time.
OneWriter ==
    \A t, u \in Procs :
        /\ tx[t].kind \in {"write", "beat"} /\ tx[u].kind \in {"write", "beat"}
        /\ tx[t].run = tx[u].run
        => t = u

\* The users row is locked by one handler, whose document is a change of the
\* one that is there.
OneLoaded ==
    /\ \A t, u \in Procs : tx[t].pc = "loaded" /\ tx[u].pc = "loaded" => t = u
    /\ \A t \in Procs : tx[t].pc = "loaded" =>
          \E kept \in SUBSET doc.active : tx[t].doc = Changed(t, kept)
    /\ \A t \in Procs : tx[t].kind = "idle" => tx[t].pc = "open"

\* What a heartbeat read under its lock still holds; what a claim made of its
\* run does, too, unless a status write overtook the record of the start.
StatusFresh ==
    /\ \A t \in Procs : tx[t].kind = "beat" => tx[t].st = status[tx[t].run]
    /\ \A t \in Procs : tx[t].kind = "started" =>
          tx[t].run \in overtaken \/ status[tx[t].run] = "running"

AllRecorded == faults = 0 => \A t \in Procs : tx[t].pc # "unrecorded"

LockInv == OneWriter /\ OneLoaded /\ StatusFresh /\ AllRecorded

LEMMA LockInit == Init => LockInv
BY IdleIsATx DEF Init, LockInv, OneWriter, OneLoaded, StatusFresh, AllRecorded

(* The change a handler makes depends on what it is about and on the         *)
(* document that is there.                                                   *)
LEMMA SameChange ==
    ASSUME NEW t \in Procs, doc' = doc,
           tx'[t].kind = tx[t].kind, tx'[t].run = tx[t].run, tx'[t].st = tx[t].st
    PROVE  \A kept : Changed(t, kept)' = Changed(t, kept)
BY DEF Changed

(* While the document stays, so does what a handler that holds it does to it. *)
LEMMA HolderKeeps ==
    ASSUME LockInv, NEW u \in Procs, doc' = doc, tx'[u] = tx[u], tx[u].pc = "loaded"
    PROVE  (\E kept \in SUBSET doc.active : tx[u].doc = Changed(u, kept))'
<1>1. PICK kept \in SUBSET doc.active : tx[u].doc = Changed(u, kept)
    BY DEF LockInv, OneLoaded
<1>2. Changed(u, kept)' = Changed(u, kept)
    BY SameChange
<1> QED
    BY <1>1, <1>2

(* Opening a transaction keeps the locks apart when the run it locks is free *)
(* and what it says of the run is so.                                        *)
LEMMA OpeningKeepsLocks ==
    ASSUME TypeInv, LockInv, NEW t \in Procs, NEW r,
           tx'[t].pc = "open", tx'[t].run = r, tx'[t].kind # "idle",
           \A u \in Procs \ {t} : tx'[u] = tx[u],
           doc' = doc, faults' = faults, overtaken' = overtaken,
           \A q \in Runs : q # r => status'[q] = status[q],
           tx'[t].kind \in {"write", "beat"} \/ status' # status => RunFree(r),
           tx'[t].kind = "beat" => tx'[t].st = status'[r],
           status' # status => status'[r] = "running",
           tx'[t].kind = "started" => status'[r] = "running"
    PROVE  LockInv'
<1> USE DEF LockInv
<1>1. \A u \in Procs : tx[u].kind # "idle" => tx[u].run \in Runs
    BY DEF TypeInv, Busy
<1>2. OneWriter'
    BY DEF OneWriter, RunFree
<1>3. OneLoaded'
    <2>1. \A u \in Procs \ {t} : tx[u].pc = "loaded" =>
             (\E kept \in SUBSET doc.active : tx[u].doc = Changed(u, kept))'
        BY HolderKeeps
    <2>2. (\A u \in Procs : tx[u].pc = "loaded" =>
             \E kept \in SUBSET doc.active : tx[u].doc = Changed(u, kept))'
        BY <2>1
    <2> QED
        BY <2>2 DEF OneLoaded
<1>4. StatusFresh'
    <2>1. ASSUME NEW u \in Procs, tx'[u].kind = "beat" PROVE tx'[u].st = status'[tx'[u].run]
        BY <1>1, <2>1 DEF StatusFresh, RunFree
    <2>2. ASSUME NEW u \in Procs, tx'[u].kind = "started"
          PROVE  tx'[u].run \in overtaken' \/ status'[tx'[u].run] = "running"
        BY <1>1, <2>2 DEF StatusFresh
    <2> QED
        BY <2>1, <2>2 DEF StatusFresh
<1>5. AllRecorded'
    BY DEF AllRecorded
<1> QED
    BY <1>2, <1>3, <1>4, <1>5

(* Every step keeps the locks apart, and a handler that waits for the users  *)
(* row finds its run as it left it.                                          *)
LEMMA LockStep == TypeInv /\ PayInv /\ LockInv /\ [Next]_vars => LockInv'
<1> SUFFICES ASSUME TypeInv, PayInv, LockInv, [Next]_vars PROVE LockInv'
    OBVIOUS
<1>0. /\ status \in [Runs -> Status] /\ tx \in [Procs -> Tx]
      /\ \A u \in Procs : tx[u].kind # "idle" => tx[u].run \in Runs
    BY DEF TypeInv, TypeOK, Busy
<1>1. ASSUME NEW t \in Procs, NEW r \in Runs, Debit(t, r) PROVE LockInv'
    <2>1. tx'[t].pc = "open" /\ tx'[t].kind = "enqueue" /\ tx'[t].run = r
        BY <1>0, <1>1 DEF Debit, IdleTx
    <2>2. doc' = doc /\ faults' = faults /\ overtaken' = overtaken /\ status' = status
        BY <1>1 DEF Debit
    <2>3. \A u \in Procs \ {t} : tx'[u] = tx[u]
        BY <1>1, TxMoves
    <2> QED
        BY <2>1, <2>2, <2>3, OpeningKeepsLocks
<1>2. ASSUME NEW t \in Procs, NEW r \in Runs, Claim(t, r) PROVE LockInv'
    <2>1. tx'[t].pc = "open" /\ tx'[t].kind = "started" /\ tx'[t].run = r
        BY <1>0, <1>2 DEF Claim, Open, IdleTx
    <2>2. /\ doc' = doc /\ faults' = faults /\ overtaken' = overtaken
          /\ status' = [status EXCEPT ![r] = "running"] /\ RunFree(r)
        BY <1>2 DEF Claim
    <2>3. \A u \in Procs \ {t} : tx'[u] = tx[u]
        BY <1>2, TxMoves
    <2>4. status'[r] = "running" /\ \A q \in Runs : q # r => status'[q] = status[q]
        BY <1>0, <2>2
    <2> QED
        BY <2>1, <2>2, <2>3, <2>4, OpeningKeepsLocks
<1>3. ASSUME NEW t \in Procs, NEW r \in Runs, NEW st \in Terminal \cup {"queued"}, WriteStatus(t, r, st)
      PROVE  LockInv'
    <2>1. tx'[t].pc = "open" /\ tx'[t].kind = "write" /\ tx'[t].run = r
        BY <1>0, <1>3 DEF WriteStatus, Open, IdleTx
    <2>2. doc' = doc /\ faults' = faults /\ overtaken' = overtaken /\ status' = status /\ RunFree(r)
        BY <1>3 DEF WriteStatus
    <2>3. \A u \in Procs \ {t} : tx'[u] = tx[u]
        BY <1>3, TxMoves DEF Status
    <2> QED
        BY <2>1, <2>2, <2>3, OpeningKeepsLocks
<1>4. ASSUME NEW t \in Procs, NEW r \in Runs, TouchRun(t, r) PROVE LockInv'
    <2>1. /\ tx'[t].pc = "open" /\ tx'[t].kind = "beat" /\ tx'[t].run = r
          /\ tx'[t].st = status[r]
        BY <1>0, <1>4 DEF TouchRun, Open, IdleTx
    <2>2. doc' = doc /\ faults' = faults /\ overtaken' = overtaken /\ status' = status /\ RunFree(r)
        BY <1>4 DEF TouchRun
    <2>3. \A u \in Procs \ {t} : tx'[u] = tx[u]
        BY <1>4, TxMoves
    <2> QED
        BY <2>1, <2>2, <2>3, OpeningKeepsLocks
<1>5. ASSUME NEW t \in Procs, Load(t) PROVE LockInv'
    <2>1. /\ doc' = doc /\ faults' = faults /\ overtaken' = overtaken /\ status' = status
          /\ UsersFree /\ tx[t].kind # "idle"
        BY <1>5 DEF Load
    <2>2. \A u \in Procs : tx'[u].kind = tx[u].kind /\ tx'[u].run = tx[u].run /\ tx'[u].st = tx[u].st
        BY <1>5, LoadingKeepsTheRest DEF TypeInv
    <2>3. /\ tx'[t].pc = "loaded" /\ \A u \in Procs \ {t} : tx'[u] = tx[u]
          /\ \E kept \in SUBSET doc.active : tx'[t].doc = Changed(t, kept)
        BY <1>5, TxMoves
    <2>4. OneWriter'
        BY <2>2 DEF LockInv, OneWriter
    <2>5. OneLoaded'
        <3>1. (\E kept \in SUBSET doc.active : tx[t].doc = Changed(t, kept))'
            <4>1. \A kept : Changed(t, kept)' = Changed(t, kept)
                BY <2>1, <2>2, SameChange
            <4> QED
                BY <2>1, <2>3, <4>1
        <3>2. \A u \in Procs : tx'[u].pc = "loaded" => u = t
            BY <2>1, <2>3 DEF UsersFree
        <3> QED
            BY <2>1, <2>2, <2>3, <3>1, <3>2 DEF LockInv, OneLoaded
    <2>6. StatusFresh'
        BY <2>1, <2>2 DEF LockInv, StatusFresh
    <2>7. AllRecorded'
        BY <2>1, <2>3 DEF LockInv, AllRecorded
    <2> QED
        BY <2>4, <2>5, <2>6, <2>7 DEF LockInv
<1>6. ASSUME NEW t \in Procs, LoadFails(t) PROVE LockInv'
    <2>1. /\ doc' = doc /\ overtaken' = overtaken /\ status' = status /\ faults' = faults + 1
          /\ tx[t].kind # "idle"
        BY <1>6 DEF LoadFails
    <2>2. \A u \in Procs : tx'[u].kind = tx[u].kind /\ tx'[u].run = tx[u].run /\ tx'[u].st = tx[u].st
        BY <1>6, LoadingKeepsTheRest DEF TypeInv
    <2>3. tx'[t].pc = "unrecorded" /\ \A u \in Procs \ {t} : tx'[u] = tx[u]
        BY <1>6, TxMoves
    <2>4. OneWriter'
        BY <2>2 DEF LockInv, OneWriter
    <2>5. OneLoaded'
        <3>1. \A u \in Procs \ {t} : tx[u].pc = "loaded" =>
                 (\E kept \in SUBSET doc.active : tx[u].doc = Changed(u, kept))'
            BY <2>1, <2>3, HolderKeeps
        <3>2. (\A u \in Procs : tx[u].pc = "loaded" =>
                 \E kept \in SUBSET doc.active : tx[u].doc = Changed(u, kept))'
            BY <2>3, <3>1
        <3> QED
            BY <2>1, <2>2, <2>3, <3>2 DEF LockInv, OneLoaded
    <2>6. StatusFresh'
        BY <2>1, <2>2 DEF LockInv, StatusFresh
    <2>7. faults' # 0
        BY <2>1, ConstantsAssumption DEF TypeInv, TypeOK
    <2> QED
        BY <2>4, <2>5, <2>6, <2>7 DEF LockInv, AllRecorded
<1>7. ASSUME NEW t \in Procs, Commit(t) PROVE LockInv'
    <2>1. tx'[t] = IdleTx /\ \A u \in Procs \ {t} : tx'[u] = tx[u]
        BY <1>7, TxMoves
    <2>2. /\ faults' = faults /\ overtaken \subseteq overtaken'
          /\ tx[t].pc # "loaded" => doc' = doc
          /\ tx[t].kind # "idle" /\ tx[t].run \in Runs
        BY <1>0, <1>7 DEF Commit, LockInv, OneLoaded
    <2>3. OneWriter'
        BY <2>1, IdleIsATx DEF LockInv, OneWriter
    <2>4. OneLoaded'
        <3>1. \A u \in Procs \ {t} : tx[u].pc = "loaded" => doc' = doc
            BY <2>2 DEF LockInv, OneLoaded
        <3>2. \A u \in Procs \ {t} : tx[u].pc = "loaded" =>
                 (\E kept \in SUBSET doc.active : tx[u].doc = Changed(u, kept))'
            BY <2>1, <3>1, HolderKeeps
        <3>3. (\A u \in Procs : tx[u].pc = "loaded" =>
                 \E kept \in SUBSET doc.active : tx[u].doc = Changed(u, kept))'
            BY <2>1, <3>2, IdleIsATx
        <3> QED
            BY <2>1, <3>3, IdleIsATx DEF LockInv, OneLoaded
    <2>5. \A q \in Runs : q # tx[t].run => status'[q] = status[q]
        BY <1>0, <1>7 DEF Commit
    <2>6. tx[t].kind \notin {"enqueue", "write"} => status' = status
        BY <1>7 DEF Commit
    <2>7. ASSUME NEW u \in Procs \ {t}, tx[u].kind = "beat" PROVE tx[u].st = status'[tx[u].run]
        <3>1. tx[t].kind \in {"enqueue", "write"} => tx[u].run # tx[t].run
            BY <2>7 DEF LockInv, OneWriter, PayInv, DebitOpen, Seen
        <3> QED
            BY <1>0, <2>5, <2>6, <2>7, <3>1 DEF LockInv, StatusFresh
    <2>8. ASSUME NEW u \in Procs \ {t}, tx[u].kind = "started"
          PROVE  tx[u].run \in overtaken' \/ status'[tx[u].run] = "running"
        <3>1. tx[t].kind = "enqueue" => tx[u].run # tx[t].run
            BY <2>8 DEF PayInv, DebitOpen, Seen
        <3>2. tx[t].kind = "write" /\ tx[u].run = tx[t].run => tx[u].run \in overtaken'
            BY <1>7, <2>8 DEF Commit
        <3> QED
            BY <1>0, <2>2, <2>5, <2>6, <2>8, <3>1, <3>2 DEF LockInv, StatusFresh
    <2>9. StatusFresh'
        BY <2>1, <2>7, <2>8, IdleIsATx DEF StatusFresh
    <2>10. AllRecorded'
        BY <2>1, <2>2, IdleIsATx DEF LockInv, AllRecorded
    <2> QED
        BY <2>3, <2>4, <2>9, <2>10 DEF LockInv
<1>8. ASSUME NEW t \in Procs, Rollback(t) PROVE LockInv'
    <2>1. tx'[t] = IdleTx /\ \A u \in Procs \ {t} : tx'[u] = tx[u]
        BY <1>8, TxMoves
    <2>2. doc' = doc /\ faults' = faults /\ overtaken' = overtaken /\ status' = status
        BY <1>8 DEF Rollback
    <2>3. \A u \in Procs \ {t} : tx[u].pc = "loaded" =>
             (\E kept \in SUBSET doc.active : tx[u].doc = Changed(u, kept))'
        BY <2>1, <2>2, HolderKeeps
    <2>4. (\A u \in Procs : tx[u].pc = "loaded" =>
             \E kept \in SUBSET doc.active : tx[u].doc = Changed(u, kept))'
        BY <2>1, <2>3, IdleIsATx
    <2>5. OneLoaded'
        BY <2>1, <2>4, IdleIsATx DEF LockInv, OneLoaded
    <2> QED
        BY <2>1, <2>2, <2>5, IdleIsATx DEF LockInv, OneWriter, StatusFresh, AllRecorded
<1>9. ASSUME UNCHANGED vars PROVE LockInv'
    <2>1. \A u \in Procs : tx[u].pc = "loaded" =>
             (\E kept \in SUBSET doc.active : tx[u].doc = Changed(u, kept))'
        BY <1>9, HolderKeeps DEF vars
    <2>2. OneLoaded'
        BY <1>9, <2>1 DEF vars, LockInv, OneLoaded
    <2> QED
        BY <1>9, <2>2 DEF vars, LockInv, OneWriter, StatusFresh, AllRecorded
<1> QED
    BY <1>1, <1>2, <1>3, <1>4, <1>5, <1>6, <1>7, <1>8, <1>9 DEF Next

-----------------------------------------------------------------------------
(* The document and the run rows *)

\* The list shows no run that is not in the table and, as long as no run came
\* back to it and no write overtook the record of a start, tells settled runs
\* apart as the rows do.
ListAgrees ==
    faults = 0 =>
        /\ \A r \in Runs : Known(doc, r) => r \in Enqueued
        /\ revived = {} /\ overtaken = {} =>
              \A r \in Runs, s \in Terminal :
                 Known(doc, r) => (Recorded(doc, r) = s <=> status[r] = s)

AgreeInv == ListAgrees /\ CountersExact /\ ActiveIsRunning

(* A step that neither writes the document nor adds, settles or revives a    *)
(* run keeps the two in agreement.                                           *)
LEMMA QuietStep ==
    ASSUME TypeInv, AgreeInv, doc' = doc, overtaken' = overtaken, revived' = revived,
           faults' = 0 => faults = 0,
           \A q \in Runs : status'[q] = status[q] \/ (status[q] = "queued" /\ status'[q] = "running")
    PROVE  AgreeInv'
<1>1. /\ Enqueued' = Enqueued
      /\ \A s \in Terminal : With(s)' = With(s)
      /\ \A q \in Runs, s \in Terminal : status'[q] = s <=> status[q] = s
    BY DEF Enqueued, With, Terminal
<1>2. (\A q : Known(doc, q)' = Known(doc, q)) /\ (\A q : Recorded(doc, q)' = Recorded(doc, q))
    OBVIOUS
<1>3. ListAgrees'
    BY <1>1, <1>2 DEF AgreeInv, ListAgrees
<1>4. CountersExact'
    BY <1>1 DEF AgreeInv, CountersExact
<1>5. ActiveIsRunning'
    BY DEF AgreeInv, ActiveIsRunning, TypeInv, TypeOK, Doc
<1> QED
    BY <1>3, <1>4, <1>5 DEF AgreeInv

(* What each kind of handler makes of the document.                          *)
LEMMA ChangedFields ==
    ASSUME TypeInv, DocOk(doc), NEW t \in Procs, tx[t].kind # "idle", NEW kept \in SUBSET doc.active
    PROVE  LET r == tx[t].run
               d == Changed(t, kept)
           IN  /\ d \in Doc /\ DocOk(d)
               /\ tx[t].kind = "enqueue" =>
                     /\ d.recent = Upserted(doc.recent, r, "queued")
                     /\ d.total = Plus(doc.total, ~Known(doc, r))
                     /\ d.spent = (IF Known(doc, r) THEN doc.spent ELSE doc.spent + Cost)
                     /\ d.count = doc.count /\ d.active = doc.active
               /\ tx[t].kind = "started" =>
                     /\ d.recent = Upserted(doc.recent, r, "running")
                     /\ d.total = Plus(doc.total, ~Known(doc, r))
                     /\ d.spent = doc.spent
                     /\ d.count = doc.count /\ d.active = kept \cup {r}
               /\ tx[t].kind = "write" =>
                     /\ d.recent = Upserted(doc.recent, r, tx[t].st)
                     /\ d.total = Plus(doc.total, ~Known(doc, r))
                     /\ d.spent = doc.spent
                     /\ \A s \in Terminal :
                           d.count[s] = IF Recorded(doc, r) = tx[t].st THEN doc.count[s]
                                        ELSE IF s = Recorded(doc, r) THEN doc.count[s] - 1
                                        ELSE IF s = tx[t].st THEN doc.count[s] + 1
                                        ELSE doc.count[s]
                     /\ d.active = kept \ {r}
               /\ tx[t].kind = "beat" =>
                     /\ d.recent = doc.recent /\ d.total = doc.total /\ d.spent = doc.spent
                     /\ d.count = doc.count
                     /\ d.active = (IF tx[t].st = "running" THEN kept \cup {r} ELSE doc.active)
<1> DEFINE r == tx[t].run
           st == tx[t].st
           d == Changed(t, kept)
<1>1. /\ doc \in Doc /\ r \in Runs /\ st \in Status
      /\ tx[t].kind \in {"enqueue", "started", "write", "beat"}
    BY TxFields DEF TypeInv, TypeOK, Busy, Kind
<1>2. DocOk(d)
    BY ChangedKeepsGauges
<1>3. ASSUME NEW new \in Status
      PROVE  LET l == Listed(doc, r, new)
             IN  /\ l \in Doc /\ l.recent = Upserted(doc.recent, r, new)
                 /\ l.total = Plus(doc.total, ~Known(doc, r))
                 /\ l.spent = doc.spent /\ l.count = doc.count /\ l.active = doc.active
    <2>1. Listed(doc, r, new) \in Doc
        BY <1>1, ListedIsADoc
    <2> QED
        BY <1>1, <2>1 DEF Listed, Doc
<1>4. CASE tx[t].kind = "enqueue"
    <2> DEFINE l == Listed(doc, r, "queued")
    <2>1. /\ l \in Doc /\ l.recent = Upserted(doc.recent, r, "queued")
          /\ l.total = Plus(doc.total, ~Known(doc, r))
          /\ l.spent = doc.spent /\ l.count = doc.count /\ l.active = doc.active
        BY <1>3 DEF Status
    <2> HIDE DEF l
    <2>2. d = [l EXCEPT !.spent = IF Known(doc, r) THEN @ ELSE @ + Cost]
        BY <1>4 DEF Changed, RecordEnqueued, l
    <2>3. d \in Doc
        BY <1>1, <1>4, RecordsAreDocs DEF Changed
    <2> HIDE DEF d
    <2>4. /\ d.recent = l.recent /\ d.total = l.total /\ d.count = l.count /\ d.active = l.active
          /\ d.spent = IF Known(doc, r) THEN l.spent ELSE l.spent + Cost
        BY <2>1, <2>2 DEF Doc
    <2> QED
        BY <1>2, <1>4, <2>1, <2>3, <2>4 DEF d
<1>5. CASE tx[t].kind = "started"
    <2> DEFINE l == Listed(doc, r, "running")
    <2>1. /\ l \in Doc /\ l.recent = Upserted(doc.recent, r, "running")
          /\ l.total = Plus(doc.total, ~Known(doc, r))
          /\ l.spent = doc.spent /\ l.count = doc.count /\ l.active = doc.active
        BY <1>3 DEF Status
    <2> HIDE DEF l
    <2>2. d = [l EXCEPT !.active = kept \cup {r}]
        BY <1>5 DEF Changed, RecordStarted, l
    <2>3. d \in Doc
        BY <1>1, <1>5, RecordsAreDocs DEF Changed
    <2> HIDE DEF d
    <2>4. /\ d.recent = l.recent /\ d.total = l.total /\ d.count = l.count /\ d.spent = l.spent
          /\ d.active = kept \cup {r}
        BY <2>1, <2>2 DEF Doc
    <2> QED
        BY <1>2, <1>5, <2>1, <2>3, <2>4 DEF d
<1>6. CASE tx[t].kind = "write"
    <2> DEFINE l == Listed(doc, r, st)
    <2>1. /\ l \in Doc /\ l.recent = Upserted(doc.recent, r, st)
          /\ l.total = Plus(doc.total, ~Known(doc, r))
          /\ l.spent = doc.spent
        BY <1>1, <1>3
    <2>2. d = RecordTerminal(doc, r, st, kept)
        BY <1>6 DEF Changed
    <2>3. /\ d.recent = l.recent /\ d.total = l.total /\ d.spent = l.spent
          /\ d.active = kept \ {r}
        BY <1>1, <2>1, <2>2 DEF RecordTerminal, Doc
    <2>4. \A s \in Terminal :
             d.count[s] = IF Recorded(doc, r) = st THEN doc.count[s]
                          ELSE IF s = Recorded(doc, r) THEN doc.count[s] - 1
                          ELSE IF s = st THEN doc.count[s] + 1
                          ELSE doc.count[s]
        BY <1>1, <2>2, TerminalKeepsGauges
    <2>5. d \in Doc
        BY <1>1, <2>2, RecordsAreDocs
    <2> HIDE DEF d, l
    <2> QED
        BY <1>2, <1>6, <2>1, <2>3, <2>4, <2>5 DEF d
<1>7. CASE tx[t].kind = "beat"
    <2>1. d = IF st = "running" THEN [doc EXCEPT !.active = kept \cup {r}] ELSE doc
        BY <1>7 DEF Changed, RecordBeat
    <2>2. d \in Doc
        BY <1>1, <1>7, RecordsAreDocs DEF Changed
    <2> HIDE DEF d
    <2>3. /\ d.recent = doc.recent /\ d.total = doc.total /\ d.spent = doc.spent
          /\ d.count = doc.count
          /\ d.active = IF st = "running" THEN kept \cup {r} ELSE doc.active
        BY <1>1, <2>1 DEF Doc
    <2> QED
        BY <1>2, <1>7, <2>2, <2>3 DEF d
<1> QED
    BY <1>1, <1>4, <1>5, <1>6, <1>7

(* What the list shows after a run was put first.                            *)
LEMMA ListShows ==
    ASSUME NEW e \in Doc, Unique(e.recent), NEW d \in Doc, Unique(d.recent),
           NEW r \in Runs, NEW st \in Status, d.recent = Upserted(e.recent, r, st)
    PROVE  /\ Known(d, r) /\ Recorded(d, r) = st
           /\ \A q : q # r /\ Known(d, q) => Known(e, q) /\ Recorded(d, q) = Recorded(e, q)
<1>1. e.recent \in Seq(Entry)
    BY DEF Doc, RecentRuns
<1>2. Known(d, r) /\ Recorded(d, r) = st
    <2>1. Lists(d.recent, r, st)
        BY <1>1, UpsertedLists
    <2> QED
        BY <2>1, RecordedIsListed
<1>3. ASSUME NEW q, q # r, Known(d, q) PROVE Known(e, q) /\ Recorded(d, q) = Recorded(e, q)
    <2>1. Lists(d.recent, q, Recorded(d, q))
        BY <1>3, RecordedIsListed
    <2>2. Lists(e.recent, q, Recorded(d, q))
        BY <1>1, <1>3, <2>1, UpsertedLists
    <2> QED
        BY <2>2, RecordedIsListed
<1> QED
    BY <1>2, <1>3

(* How the number of runs with a status moves when a row is written.         *)
LEMMA WithMoves ==
    ASSUME TypeInv, NEW r \in Runs, NEW st, status' = [status EXCEPT ![r] = st], NEW s
    PROVE  LET now == Cardinality(With(s))
               then == Cardinality(With(s))'
           IN  /\ now \in Nat
               /\ status[r] = st \/ (status[r] # s /\ st # s) => then = now
               /\ status[r] = s /\ st # s => then = now - 1
               /\ status[r] # s /\ st = s => then = now + 1
<1> DEFINE W == With(s)
<1>1. W \in SUBSET Runs /\ (r \in W <=> status[r] = s)
    BY DEF With
<1>2. With(s)' = IF s = st THEN W \cup {r} ELSE W \ {r}
    BY DEF With, TypeInv, TypeOK
<1> HIDE DEF W
<1>3. IsFiniteSet(W) /\ Cardinality(W) \in Nat
    BY <1>1, RunsAreCountable
<1>4. /\ r \in W => W \cup {r} = W
      /\ r \notin W => W \ {r} = W
    OBVIOUS
<1>5. r \notin W => Cardinality(W \cup {r}) = Cardinality(W) + 1
    BY <1>3, FS_AddElement
<1>6. r \in W => Cardinality(W \ {r}) = Cardinality(W) - 1
    BY <1>1, RunsAreCountable
<1>7. Cardinality(With(s))' = Cardinality(IF s = st THEN W \cup {r} ELSE W \ {r})
    BY <1>2
<1> QED
    BY <1>1, <1>3, <1>4, <1>5, <1>6, <1>7 DEF W

LEMMA AgreeInit == Init => AgreeInv
<1> SUFFICES ASSUME Init PROVE AgreeInv
    OBVIOUS
<1>1. Enqueued = {} /\ \A s \in Terminal : With(s) = {}
    BY DEF Init, Enqueued, With, Terminal
<1>2. Cardinality({}) = 0 /\ Cost * 0 = 0
    BY FS_EmptySet, ConstantsAssumption
<1>3. /\ doc.spent = 0 /\ doc.total = 0 /\ doc.active = {}
      /\ \A s \in Terminal : doc.count[s] = 0
      /\ \A r : ~Known(doc, r)
    BY DEF Init, EmptyDoc, Known, Positions
<1>4. ListAgrees
    BY <1>3 DEF ListAgrees
<1>5. CountersExact
    BY <1>1, <1>2, <1>3 DEF CountersExact
<1>6. ActiveIsRunning
    BY <1>3 DEF ActiveIsRunning
<1> QED
    BY <1>4, <1>5, <1>6 DEF AgreeInv

(* The commit of an enqueue: the run is new to the table and to the list.    *)
LEMMA EnqueueAgrees ==
    ASSUME TypeInv, PayInv, GaugeInv, LockInv, AgreeInv, faults = 0,
           NEW t \in Procs, Commit(t), tx[t].kind = "enqueue"
    PROVE  AgreeInv'
<1> DEFINE r == tx[t].run
<1>1. /\ r \in Runs /\ status[r] = "none" /\ status' = [status EXCEPT ![r] = "queued"]
      /\ faults' = faults /\ revived' = revived /\ overtaken' = overtaken
    BY DEF Commit, TypeInv, Busy, PayInv, DebitOpen
<1>2. tx[t].pc = "loaded" /\ doc' = tx[t].doc
    BY DEF Commit, LockInv, AllRecorded
<1>3. PICK kept \in SUBSET doc.active : doc' = Changed(t, kept)
    BY <1>2 DEF LockInv, OneLoaded
<1>4. ~Known(doc, r)
    BY <1>1 DEF AgreeInv, ListAgrees, Enqueued
<1>5. /\ doc' \in Doc /\ Unique(doc'.recent) /\ doc'.recent = Upserted(doc.recent, r, "queued")
      /\ doc'.total = Plus(doc.total, TRUE) /\ doc'.spent = doc.spent + Cost
      /\ doc'.count = doc.count /\ doc'.active = doc.active
    BY <1>3, <1>4, ChangedFields DEF GaugeInv, DocOk
<1>6. doc \in Doc /\ Unique(doc.recent) /\ status \in [Runs -> Status]
    BY DEF TypeInv, TypeOK, GaugeInv, DocOk
<1>7. /\ Known(doc', r) /\ Recorded(doc', r) = "queued"
      /\ \A q : q # r /\ Known(doc', q) => Known(doc, q) /\ Recorded(doc', q) = Recorded(doc, q)
    BY <1>1, <1>5, <1>6, ListShows DEF Status
<1>8. Enqueued' = Enqueued \cup {r} /\ r \notin Enqueued
    BY <1>1, <1>6 DEF Enqueued
<1>9. Cardinality(Enqueued)' = Cardinality(Enqueued) + 1 /\ Cardinality(Enqueued) \in Nat
    BY <1>1, <1>8, OneMoreRun
<1>10. \A s \in Terminal : With(s)' = With(s)
    BY <1>1, <1>6 DEF With, Terminal
<1>11. ListAgrees'
    BY <1>1, <1>6, <1>7, <1>8 DEF AgreeInv, ListAgrees, Terminal
<1>12. CountersExact'
    <2>1. doc.spent \in Nat /\ doc.total \in Nat /\ doc'.total = doc.total + 1
        BY <1>5, <1>6 DEF Doc, Plus
    <2>2. \A n \in Nat : Cost * (n + 1) = Cost * n + Cost
        BY ConstantsAssumption
    <2>3. doc'.spent = Cost * Cardinality(Enqueued)'
        BY <1>5, <1>9, <2>2 DEF AgreeInv, CountersExact
    <2>4. revived' = {} => doc'.total = Cardinality(Enqueued)'
        BY <1>1, <1>9, <2>1 DEF AgreeInv, CountersExact
    <2>5. revived' = {} /\ overtaken' = {} =>
             \A s \in Terminal : doc'.count[s] = Cardinality(With(s))'
        BY <1>1, <1>5, <1>10 DEF AgreeInv, CountersExact
    <2> QED
        BY <2>3, <2>4, <2>5 DEF CountersExact
<1>13. ActiveIsRunning'
    BY <1>1, <1>5, <1>6 DEF AgreeInv, ActiveIsRunning, Doc
<1> QED
    BY <1>11, <1>12, <1>13 DEF AgreeInv

(* The commit of a status write: the run's gauge and its row move together.  *)
LEMMA WriteAgrees ==
    ASSUME TypeInv, PayInv, GaugeInv, LockInv, AgreeInv, faults = 0,
           NEW t \in Procs, Commit(t), tx[t].kind = "write"
    PROVE  AgreeInv'
<1> DEFINE r == tx[t].run
           st == tx[t].st
<1>1. /\ r \in Runs /\ st \in Status /\ st # "none" /\ status[r] # "none"
      /\ status' = [status EXCEPT ![r] = st]
      /\ faults' = faults /\ revived \subseteq revived' /\ overtaken \subseteq overtaken'
    BY TxFields DEF Commit, TypeInv, TypeOK, Busy, PayInv, Seen
<1>2. tx[t].pc = "loaded" /\ doc' = tx[t].doc
    BY DEF Commit, LockInv, AllRecorded
<1>3. PICK kept \in SUBSET doc.active : doc' = Changed(t, kept)
    BY <1>2 DEF LockInv, OneLoaded
<1>4. /\ doc' \in Doc /\ Unique(doc'.recent) /\ doc'.recent = Upserted(doc.recent, r, st)
      /\ doc'.total = Plus(doc.total, ~Known(doc, r)) /\ doc'.spent = doc.spent
      /\ \A s \in Terminal :
            doc'.count[s] = IF Recorded(doc, r) = st THEN doc.count[s]
                            ELSE IF s = Recorded(doc, r) THEN doc.count[s] - 1
                            ELSE IF s = st THEN doc.count[s] + 1
                            ELSE doc.count[s]
      /\ doc'.active = kept \ {r}
    BY <1>3, ChangedFields DEF GaugeInv, DocOk
<1>5. doc \in Doc /\ Unique(doc.recent) /\ status \in [Runs -> Status]
    BY DEF TypeInv, TypeOK, GaugeInv, DocOk
<1>6. /\ Known(doc', r) /\ Recorded(doc', r) = st
      /\ \A q : q # r /\ Known(doc', q) => Known(doc, q) /\ Recorded(doc', q) = Recorded(doc, q)
    BY <1>1, <1>4, <1>5, ListShows
<1>7. Enqueued' = Enqueued
    BY <1>1, <1>5 DEF Enqueued
<1>8. revived' = {} => Known(doc, r)
    BY <1>2 DEF Commit
<1>9. ListAgrees'
    <2>1. \A q \in Runs : Known(doc', q) => q \in Enqueued'
        BY <1>1, <1>6, <1>7 DEF AgreeInv, ListAgrees, Enqueued
    <2>2. ASSUME revived' = {}, overtaken' = {}, NEW q \in Runs, NEW s \in Terminal, Known(doc', q)
          PROVE  Recorded(doc', q) = s <=> status'[q] = s
        BY <1>1, <1>5, <1>6, <2>2 DEF AgreeInv, ListAgrees
    <2> QED
        BY <2>1, <2>2 DEF ListAgrees
<1>10. CountersExact'
    <2>1. doc'.spent = Cost * Cardinality(Enqueued)'
        BY <1>4, <1>7 DEF AgreeInv, CountersExact
    <2>2. ASSUME revived' = {} PROVE doc'.total = Cardinality(Enqueued)'
        BY <1>1, <1>4, <1>7, <1>8, <2>2 DEF AgreeInv, CountersExact, Plus
    <2>3. ASSUME revived' = {}, overtaken' = {}, NEW s \in Terminal
          PROVE  doc'.count[s] = Cardinality(With(s))'
        <3>1. revived = {} /\ overtaken = {} /\ Known(doc, r)
            BY <1>1, <1>8, <2>3
        <3>2. \A u \in Terminal : Recorded(doc, r) = u <=> status[r] = u
            BY <1>1, <3>1 DEF AgreeInv, ListAgrees
        <3>3. doc.count[s] = Cardinality(With(s))
            BY <3>1 DEF AgreeInv, CountersExact
        <3>4. /\ Cardinality(With(s)) \in Nat
              /\ status[r] = st \/ (status[r] # s /\ st # s) =>
                    Cardinality(With(s))' = Cardinality(With(s))
              /\ status[r] = s /\ st # s => Cardinality(With(s))' = Cardinality(With(s)) - 1
              /\ status[r] # s /\ st = s => Cardinality(With(s))' = Cardinality(With(s)) + 1
            BY <1>1, WithMoves
        <3>5. doc'.count[s] = IF Recorded(doc, r) = st THEN doc.count[s]
                              ELSE IF s = Recorded(doc, r) THEN doc.count[s] - 1
                              ELSE IF s = st THEN doc.count[s] + 1
                              ELSE doc.count[s]
            BY <1>4
        <3> QED
            BY <3>2, <3>3, <3>4, <3>5
    <2> QED
        BY <2>1, <2>2, <2>3 DEF CountersExact
<1>11. ActiveIsRunning'
    BY <1>1, <1>4, <1>5 DEF AgreeInv, ActiveIsRunning, Doc
<1> QED
    BY <1>9, <1>10, <1>11 DEF AgreeInv

(* The commit of a start or of a heartbeat: what was settled stays so in     *)
(* both, and a run made active is running unless its start was overtaken.    *)
LEMMA StartOrBeatAgrees ==
    ASSUME TypeInv, PayInv, GaugeInv, LockInv, AgreeInv, faults = 0,
           NEW t \in Procs, Commit(t), tx[t].kind \in {"started", "beat"}
    PROVE  AgreeInv'
<1> DEFINE r == tx[t].run
<1>1. /\ r \in Runs /\ status[r] # "none" /\ status' = status
      /\ faults' = faults /\ overtaken' = overtaken /\ revived \subseteq revived'
    BY DEF Commit, TypeInv, Busy, PayInv, Seen
<1>2. tx[t].pc = "loaded" /\ doc' = tx[t].doc
    BY DEF Commit, LockInv, AllRecorded
<1>3. PICK kept \in SUBSET doc.active : doc' = Changed(t, kept)
    BY <1>2 DEF LockInv, OneLoaded
<1>4. doc \in Doc /\ Unique(doc.recent) /\ doc.active \in SUBSET Runs
    BY DEF TypeInv, TypeOK, GaugeInv, DocOk, Doc
<1>5. Enqueued' = Enqueued /\ \A s : With(s)' = With(s)
    BY <1>1 DEF Enqueued, With
<1>6. CASE tx[t].kind = "started"
    <2>1. /\ doc' \in Doc /\ Unique(doc'.recent) /\ doc'.recent = Upserted(doc.recent, r, "running")
          /\ doc'.total = Plus(doc.total, ~Known(doc, r)) /\ doc'.spent = doc.spent
          /\ doc'.count = doc.count /\ doc'.active = kept \cup {r}
        BY <1>3, <1>6, ChangedFields DEF GaugeInv, DocOk
    <2>2. r \in overtaken \/ status[r] = "running"
        BY <1>6 DEF LockInv, StatusFresh
    <2>3. /\ Known(doc', r) /\ Recorded(doc', r) = "running"
          /\ \A q : q # r /\ Known(doc', q) => Known(doc, q) /\ Recorded(doc', q) = Recorded(doc, q)
        BY <1>1, <1>4, <2>1, ListShows DEF Status
    <2>4. revived' = {} => Known(doc, r)
        BY <1>2, <1>6 DEF Commit
    <2>5. ListAgrees'
        <3>1. \A q \in Runs : Known(doc', q) => q \in Enqueued'
            BY <1>1, <1>5, <2>3 DEF AgreeInv, ListAgrees, Enqueued
        <3>2. ASSUME revived' = {}, overtaken' = {}, NEW q \in Runs, NEW s \in Terminal, Known(doc', q)
              PROVE  Recorded(doc', q) = s <=> status'[q] = s
            BY <1>1, <2>2, <2>3, <3>2 DEF AgreeInv, ListAgrees
        <3> QED
            BY <3>1, <3>2 DEF ListAgrees
    <2>6. CountersExact'
        BY <1>1, <1>5, <2>1, <2>4 DEF AgreeInv, CountersExact, Plus
    <2>7. ActiveIsRunning'
        BY <1>1, <1>4, <2>1, <2>2 DEF AgreeInv, ActiveIsRunning
    <2> QED
        BY <2>5, <2>6, <2>7 DEF AgreeInv
<1>7. CASE tx[t].kind = "beat"
    <2>1. /\ doc'.recent = doc.recent /\ doc'.total = doc.total /\ doc'.spent = doc.spent
          /\ doc'.count = doc.count
          /\ doc'.active = IF tx[t].st = "running" THEN kept \cup {r} ELSE doc.active
        BY <1>3, <1>7, ChangedFields DEF GaugeInv, DocOk
    <2>2. tx[t].st = status[r]
        BY <1>7 DEF LockInv, StatusFresh
    <2>3. (\A q : Known(doc', q) = Known(doc, q)) /\ \A q : Recorded(doc', q) = Recorded(doc, q)
        BY <2>1 DEF Known, Recorded
    <2>4. ListAgrees'
        BY <1>1, <1>5, <2>3 DEF AgreeInv, ListAgrees
    <2>5. CountersExact'
        BY <1>1, <1>5, <2>1 DEF AgreeInv, CountersExact
    <2>6. ActiveIsRunning'
        BY <1>1, <1>4, <2>1, <2>2 DEF AgreeInv, ActiveIsRunning
    <2> QED
        BY <2>4, <2>5, <2>6 DEF AgreeInv
<1> QED
    BY <1>6, <1>7

(* Every step keeps list, gauges, active runs and rows in agreement.         *)
LEMMA AgreeStep ==
    TypeInv /\ PayInv /\ GaugeInv /\ LockInv /\ AgreeInv /\ [Next]_vars => AgreeInv'
<1> SUFFICES ASSUME TypeInv, PayInv, GaugeInv, LockInv, AgreeInv, [Next]_vars PROVE AgreeInv'
    OBVIOUS
<1>0. status \in [Runs -> Status] /\ faults \in Nat
    BY ConstantsAssumption DEF TypeInv, TypeOK
<1>1. ASSUME NEW t \in Procs, NEW r \in Runs, Debit(t, r) \/ TouchRun(t, r) PROVE AgreeInv'
    BY <1>1, QuietStep DEF Debit, TouchRun
<1>2. ASSUME NEW t \in Procs, NEW r \in Runs, Claim(t, r) PROVE AgreeInv'
    <2>1. \A q \in Runs : status'[q] = status[q] \/ (status[q] = "queued" /\ status'[q] = "running")
        BY <1>0, <1>2 DEF Claim
    <2> QED
        BY <1>2, <2>1, QuietStep DEF Claim
<1>3. ASSUME NEW t \in Procs, NEW r \in Runs, NEW st \in Terminal \cup {"queued"}, WriteStatus(t, r, st)
      PROVE  AgreeInv'
    BY <1>3, QuietStep DEF WriteStatus
<1>4. ASSUME NEW t \in Procs, Load(t) PROVE AgreeInv'
    BY <1>4, QuietStep DEF Load
<1>5. ASSUME NEW t \in Procs, LoadFails(t) PROVE AgreeInv'
    <2>1. faults' # 0
        BY <1>0, <1>5 DEF LoadFails
    <2> QED
        BY <1>5, <2>1, QuietStep DEF LoadFails
<1>6. ASSUME NEW t \in Procs, Commit(t) PROVE AgreeInv'
    <2>1. CASE faults = 0
        <3>1. tx[t].kind \in {"enqueue", "started", "write", "beat"}
            BY <1>6, TxFields DEF Commit, LockInv, OneLoaded, TypeInv, TypeOK, Kind
        <3> QED
            BY <1>6, <2>1, <3>1, EnqueueAgrees, WriteAgrees, StartOrBeatAgrees
    <2>2. CASE faults # 0
        BY <1>6, <2>2 DEF Commit, AgreeInv, ListAgrees, CountersExact, ActiveIsRunning
    <2> QED
        BY <2>1, <2>2
<1>7. ASSUME NEW t \in Procs, Rollback(t) PROVE AgreeInv'
    BY <1>7, QuietStep DEF Rollback
<1>8. ASSUME UNCHANGED vars PROVE AgreeInv'
    BY <1>8, QuietStep DEF vars
<1> QED
    BY <1>1, <1>2, <1>3, <1>4, <1>5, <1>6, <1>7, <1>8 DEF Next

LEMMA Agreement == Spec => []AgreeInv
BY TypeInit, TypeStep, PayInit, PayStep, GaugeInit, GaugeStep, LockInit, LockStep,
   AgreeInit, AgreeStep, PTL DEF Spec

(* CountersAgree: as long as no aggregation fails, what the metadata says    *)
(* was spent is what the runs cost, whatever runs at the same time; and its  *)
(* counters are the rows' until a run comes back to the list or a write      *)
(* overtakes the record of a start.                                          *)
THEOREM CountersAgree == Spec => []CountersExact
<1>1. AgreeInv => CountersExact
    BY DEF AgreeInv
<1> QED
    BY <1>1, Agreement, PTL

(* ActiveAreRunning: as long as no aggregation fails, only a run whose start *)
(* was overtaken by a status write can be listed as active and not be        *)
(* running.                                                                  *)
THEOREM ActiveAreRunning == Spec => []ActiveIsRunning
<1>1. AgreeInv => ActiveIsRunning
    BY DEF AgreeInv
<1> QED
    BY <1>1, Agreement, PTL

-----------------------------------------------------------------------------
(* One handler after the other *)

\* A status write does not make a run `running'.
Written == \A t \in Procs : tx[t].kind = "write" => tx[t].st \in Terminal \cup {"queued"}

LEMMA WrittenStep == TypeInv /\ Written /\ [Next]_vars => Written'
<1> SUFFICES ASSUME TypeInv, Written, [Next]_vars PROVE Written'
    OBVIOUS
<1>0. tx \in [Procs -> Tx]
    BY DEF TypeInv, TypeOK
<1>1. ASSUME NEW t \in Procs, NEW r \in Runs, Debit(t, r) \/ Claim(t, r) \/ TouchRun(t, r)
      PROVE  Written'
    <2>1. tx'[t].kind # "write"
        BY <1>0, <1>1 DEF Debit, Claim, TouchRun, Open, IdleTx
    <2>2. \A u \in Procs \ {t} : tx'[u] = tx[u]
        BY <1>1, TxMoves
    <2> QED
        BY <2>1, <2>2 DEF Written
<1>2. ASSUME NEW t \in Procs, NEW r \in Runs, NEW st \in Terminal \cup {"queued"},
             WriteStatus(t, r, st)
      PROVE  Written'
    <2>1. tx'[t].st = st /\ \A u \in Procs \ {t} : tx'[u] = tx[u]
        BY <1>2, TxMoves DEF Status
    <2> QED
        BY <2>1 DEF Written
<1>3. ASSUME NEW t \in Procs, Load(t) PROVE Written'
    <2>1. \A u \in Procs : tx'[u].kind = tx[u].kind /\ tx'[u].st = tx[u].st
        BY <1>3, LoadingKeepsTheRest DEF TypeInv
    <2> QED
        BY <2>1 DEF Written
<1>4. ASSUME NEW t \in Procs, LoadFails(t) PROVE Written'
    <2>1. \A u \in Procs : tx'[u].kind = tx[u].kind /\ tx'[u].st = tx[u].st
        BY <1>4, LoadingKeepsTheRest DEF TypeInv
    <2> QED
        BY <2>1 DEF Written
<1>5. ASSUME NEW t \in Procs, Commit(t) \/ Rollback(t) PROVE Written'
    BY <1>0, <1>5 DEF Commit, Rollback, IdleTx, Written
<1>6. CASE UNCHANGED vars
    BY <1>6 DEF vars, Written
<1> QED
    BY <1>1, <1>2, <1>3, <1>4, <1>5, <1>6 DEF Next

\* What the abstract account sees of a step.
Hidden == UNCHANGED <<credits, status, doc>>

(* A commit is one whole handler: nothing it read has changed since.         *)
LEMMA CommitIsSerial ==
    ASSUME TypeInv, PayInv, LockInv, Written, NEW t \in Procs, Commit(t)
    PROVE  Hidden \/ \E r \in Runs :
              \/ Serial!Enqueue(r) \/ Serial!RecordStart(r) \/ Serial!Beat(r)
              \/ \E st \in Terminal \cup {"queued"} : Serial!WriteStatus(r, st)
<1> DEFINE r == tx[t].run
<1>1. /\ tx[t] \in Tx /\ tx[t].kind \in Kind /\ tx[t].pc \in {"loaded", "unrecorded"}
      /\ tx[t].kind # "idle" => r \in Runs
    BY TxFields DEF TypeInv, TypeOK, Busy, Commit
<1>2. \/ doc' = doc
      \/ \E kept \in SUBSET doc.active : doc' = Changed(t, kept)
    BY <1>1 DEF Commit, LockInv, OneLoaded
<1>3. CASE tx[t].kind = "idle"
    BY <1>1, <1>3 DEF LockInv, OneLoaded, Commit, Hidden
<1>4. CASE tx[t].kind = "enqueue"
    <2>1. status[r] = "none" /\ tx[t].st = "queued" /\ tx[t].left = credits - Cost
        BY <1>4 DEF PayInv, DebitOpen
    <2>2. tx[t].left \in Nat /\ credits \in Nat /\ Cost \in Nat
        BY <1>1, TxFields, ConstantsAssumption DEF TypeInv, TypeOK
    <2>3. credits >= Cost
        BY <2>1, <2>2
    <2>4. credits' = credits - Cost /\ status' = [status EXCEPT ![r] = "queued"]
        BY <1>4, <2>1 DEF Commit
    <2>5. Serial!Aggregate({RecordEnqueued(doc, r)})
        BY <1>2, <1>4 DEF Changed, Serial!Aggregate
    <2> QED
        BY <1>1, <1>4, <2>1, <2>3, <2>4, <2>5 DEF Serial!Enqueue
<1>5. CASE tx[t].kind = "started"
    <2>1. status[r] # "none"
        BY <1>5 DEF PayInv, Seen
    <2>2. UNCHANGED <<credits, status>>
        BY <1>5 DEF Commit
    <2>3. Serial!Aggregate({RecordStarted(doc, r, kept) : kept \in SUBSET doc.active})
        BY <1>2, <1>5 DEF Changed, Serial!Aggregate
    <2> QED
        BY <1>1, <1>5, <2>1, <2>2, <2>3 DEF Serial!RecordStart
<1>6. CASE tx[t].kind = "write"
    <2>1. status[r] # "none" /\ tx[t].st \in Terminal \cup {"queued"}
        BY <1>6 DEF PayInv, Seen, Written
    <2>2. credits' = credits /\ status' = [status EXCEPT ![r] = tx[t].st]
        BY <1>6 DEF Commit
    <2>3. Serial!Aggregate({RecordTerminal(doc, r, tx[t].st, kept) : kept \in SUBSET doc.active})
        BY <1>2, <1>6 DEF Changed, Serial!Aggregate
    <2> QED
        BY <1>1, <1>6, <2>1, <2>2, <2>3 DEF Serial!WriteStatus
<1>7. CASE tx[t].kind = "beat"
    <2>1. status[r] # "none" /\ tx[t].st = status[r]
        BY <1>7 DEF PayInv, Seen, LockInv, StatusFresh
    <2>2. UNCHANGED <<credits, status>>
        BY <1>7 DEF Commit
    <2>3. Serial!Aggregate({RecordBeat(doc, r, status[r], kept) : kept \in SUBSET doc.active})
        BY <1>2, <1>7, <2>1 DEF Changed, Serial!Aggregate
    <2> QED
        BY <1>1, <1>7, <2>1, <2>2, <2>3 DEF Serial!Beat
<1> QED
    BY <1>1, <1>3, <1>4, <1>5, <1>6, <1>7 DEF Kind

LEMMA SerialStep ==
    TypeInv /\ PayInv /\ LockInv /\ Written /\ [Next]_vars => [Serial!Next]_(Serial!vars)
<1> SUFFICES ASSUME TypeInv, PayInv, LockInv, Written, [Next]_vars
             PROVE  Hidden \/ Serial!Next
    BY DEF Hidden, Serial!vars
<1>1. CASE UNCHANGED vars
    BY <1>1 DEF vars, Hidden
<1>2. ASSUME NEW t \in Procs, NEW r \in Runs, Claim(t, r) PROVE Serial!Next
    BY <1>2 DEF Claim, Serial!Next, Serial!Claim
<1>3. ASSUME NEW t \in Procs, NEW r \in Runs, Debit(t, r) \/ TouchRun(t, r) PROVE Hidden
    BY <1>3 DEF Debit, TouchRun, Hidden
<1>4. ASSUME NEW t \in Procs, NEW r \in Runs, NEW st, WriteStatus(t, r, st) PROVE Hidden
    BY <1>4 DEF WriteStatus, Hidden
<1>5. ASSUME NEW t \in Procs, Load(t) \/ LoadFails(t) \/ Rollback(t) PROVE Hidden
    BY <1>5 DEF Load, LoadFails, Rollback, Hidden
<1>6. ASSUME NEW t \in Procs, Commit(t) PROVE Hidden \/ Serial!Next
    BY <1>6, CommitIsSerial DEF Serial!Next
<1> QED
    BY <1>1, <1>2, <1>3, <1>4, <1>5, <1>6 DEF Next

(* The handlers of a user are transactions one after the other: each commit  *)
(* changes the balance, the status and the document that the one before it   *)
(* left, however many handlers overlap, fail or are rolled back.             *)
THEOREM SerialImplemented == Spec => SerialSpec
<1>1. Init => Serial!Init /\ Written
    BY DEF Init, Serial!Init, Written, IdleTx
<1>2. TypeInv /\ Written /\ [Next]_vars => Written'
    BY WrittenStep
<1> QED
    BY <1>1, <1>2, TypeInit, TypeStep, PayInit, PayStep, LockInit, LockStep, SerialStep, PTL
       DEF Spec, SerialSpec, Serial!Spec
=============================================================================
