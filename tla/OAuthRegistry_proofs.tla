------------------------- MODULE OAuthRegistry_proofs -------------------------
(***************************************************************************)
(* Proofs about OAuthRegistry, for all sets of accounts, processes and      *)
(* requests and any number of changes.                                      *)
(***************************************************************************)
EXTENDS OAuthRegistry, TLAPS

-----------------------------------------------------------------------------
(* Type correctness *)

(* What a request is given to do is well typed.                              *)
LEMMA TaskInType ==
    ASSUME NEW p \in Procs, NEW pc \in TaskStates,
           NEW ca \in Accounts \cup {None}
    PROVE  /\ [TaskIn(p) EXCEPT !.pc = pc, !.ca = ca] \in Task
           /\ [TaskIn(p) EXCEPT !.pc = pc] \in Task
           /\ [Idle EXCEPT !.pc = pc, !.ca = ca] \in Task
  BY DEF TaskIn, Idle, Task, Seen

(* A request that is idle, or has something else to do, is well typed.       *)
LEMMA IdleType == Idle \in Task
  BY DEF Idle, Task, Seen, TaskStates

LEMMA BecomeType ==
    ASSUME task \in [Tasks -> Task], NEW t \in Tasks, NEW new \in Task,
           Become(t, new)
    PROVE  task' \in [Tasks -> Task]
  BY DEF Become

(* The row that is found linked has an account.                              *)
LEMMA LinkedType == row \in Row => Linked \in Accounts \cup {None}
  BY DEF Row, Linked

(* Recording a commit keeps the types of what it changes.                    *)
LEMMA CommittedType ==
    ASSUME TypeOK, NEW t \in Tasks, NEW p \in Procs \cup {None}, Committed(t, p),
           changes < MaxChanges
    PROVE  /\ task' \in [Tasks -> Task]
           /\ cache' \in [Procs -> Entry \cup {None}]
           /\ changes' \in 0..MaxChanges
<1>1. task' \in [Tasks -> Task]
  <2>1. [TaskIn(p) EXCEPT !.pc = "invalidating"] \in Task
    BY DEF TaskIn, Idle, Task, Seen, TaskStates
  <2> QED
    BY <2>1, BecomeType DEF TypeOK, Committed
<1>2. cache' \in [Procs -> Entry \cup {None}]
  <2>1. \A e \in Entry : [e EXCEPT !.old = TRUE] \in Entry
    BY DEF Entry
  <2> QED
    BY <2>1 DEF TypeOK, Committed
<1>3. changes' \in 0..MaxChanges
  BY RegistryAssumption DEF TypeOK, Committed
<1> QED
  BY <1>1, <1>2, <1>3

(* The initial state is well typed.                                          *)
LEMMA TypeInit == Init => TypeOK
<1> SUFFICES ASSUME Init PROVE TypeOK
  OBVIOUS
<1>1. row \in Row
  BY DEF Init, NoRow, Row, RowStatuses
<1>2. task \in [Tasks -> Task]
  BY IdleType DEF Init
<1>3. changes \in 0..MaxChanges
  BY RegistryAssumption DEF Init
<1> QED
  BY <1>1, <1>2, <1>3 DEF Init, TypeOK, ComposioStatuses

(* A step of a request that is under way keeps the types.                    *)
LEMMA TypeTask ==
    ASSUME TypeOK, NEW t \in Tasks, TaskStep(t)
    PROVE  TypeOK'
<1> USE DEF TypeOK
<1>1. CASE AskComposio(t)
  <2>1. PICK reached \in BOOLEAN :
            Become(t, [task[t] EXCEPT
              !.pc = "storing",
              !.ok = ~reached \/ composio[task[t].ca] = "ACTIVE"])
    BY <1>1 DEF AskComposio
  <2>2. [task[t] EXCEPT
              !.pc = "storing",
              !.ok = ~reached \/ composio[task[t].ca] = "ACTIVE"] \in Task
    BY DEF Task, TaskStates
  <2> QED
    BY <1>1, <2>1, <2>2, BecomeType DEF AskComposio
<1>2. CASE StoreStatus(t)
  <2>1. [ca |-> task[t].ca, authorized |-> task[t].ok, old |-> FALSE] \in Entry
    BY DEF Task, Entry
  <2>2. cache' \in [Procs -> Entry \cup {None}]
    BY <1>2, <2>1 DEF StoreStatus
  <2> QED
    BY <1>2, <2>2, IdleType, BecomeType DEF StoreStatus, Finish
<1>3. CASE Poll(t)
  <2> DEFINE active == composio[task[t].ca] = "ACTIVE"
             new == [task[t] EXCEPT
                !.seen = IF active THEN "ACTIVE" ELSE "other",
                !.pc = IF active THEN "saving" ELSE "polling"]
  <2>1. new \in Task
    BY DEF Task, TaskStates, Seen
  <2>2. Become(t, new)
    BY <1>3 DEF Poll
  <2> HIDE DEF new
  <2> QED
    BY <1>3, <2>1, <2>2, BecomeType DEF Poll
<1>4. CASE PollTimesOut(t)
  <2>1. task' \in [Tasks -> Task]
    BY <1>4 DEF PollTimesOut, Goto, Task, TaskStates
  <2> QED
    BY <1>4, <2>1 DEF PollTimesOut
<1>5. CASE SaveAccount(t)
  <2>1. PICK url, token \in BOOLEAN :
          row' = [ca |-> task[t].ca, status |-> StatusSaved(task[t].seen),
                  url |-> url, token |-> url /\ token,
                  blind |-> task[t].seen = "nothing"]
    BY <1>5 DEF SaveAccount
  <2>2. StatusSaved(task[t].seen) \in RowStatuses
    BY DEF StatusSaved, Task, Seen, RowStatuses
  <2>3. row' \in Row
    BY <2>1, <2>2 DEF Row, Task
  <2>4. task[t].proc \in Procs \cup {None}
    BY DEF Task
  <2>5. Committed(t, task[t].proc) /\ changes < MaxChanges
    BY <1>5 DEF SaveAccount
  <2>6. /\ task' \in [Tasks -> Task]
        /\ cache' \in [Procs -> Entry \cup {None}]
        /\ changes' \in 0..MaxChanges
    BY <2>4, <2>5, CommittedType
  <2> QED
    BY <1>5, <2>3, <2>6 DEF SaveAccount
<1>6. CASE FinalizeFails(t)
  BY <1>6, IdleType, BecomeType DEF FinalizeFails, Finish
<1>7. CASE Invalidate(t)
  <2>1. cache' \in [Procs -> Entry \cup {None}]
    BY <1>7 DEF Invalidate
  <2> QED
    BY <1>7, <2>1, IdleType, BecomeType DEF Invalidate, Finish
<1>8. CASE StoreToken(t)
  <2>1. row' \in Row
    BY <1>8 DEF StoreToken, Row
  <2> QED
    BY <1>8, <2>1, IdleType, BecomeType DEF StoreToken, Finish
<1>9. CASE NoToken(t)
  BY <1>9, IdleType, BecomeType DEF NoToken, Finish
<1> QED
  BY <1>1, <1>2, <1>3, <1>4, <1>5, <1>6, <1>7, <1>8, <1>9 DEF TaskStep

(* Every step keeps the types.                                               *)
LEMMA TypeNext == TypeOK /\ [Next]_vars => TypeOK'
<1> SUFFICES ASSUME TypeOK, [Next]_vars PROVE TypeOK'
  OBVIOUS
<1> USE DEF TypeOK
<1>1. ASSUME NEW a \in Accounts, StartOauth(a) \/ Consent(a) \/ Lapse(a)
      PROVE  TypeOK'
  BY <1>1 DEF StartOauth, Consent, Lapse, ComposioStatuses
<1>2. ASSUME NEW t \in Tasks, ReadHeaders(t) PROVE TypeOK'
  <2>1. [Idle EXCEPT !.pc = "minting", !.ca = Linked] \in Task
    BY LinkedType DEF Idle, Task, Seen, TaskStates
  <2> QED
    BY <1>2, <2>1, BecomeType DEF ReadHeaders
<1>3. ASSUME NEW t \in Tasks, NEW p \in Procs, StatusMiss(t, p) PROVE TypeOK'
  <2> DEFINE pc == IF Linked = None THEN "storing" ELSE "asking"
  <2>1. pc \in TaskStates
    BY DEF TaskStates
  <2>2. [TaskIn(p) EXCEPT !.pc = pc, !.ca = Linked] \in Task
    BY <2>1, LinkedType DEF TaskIn, Idle, Task, Seen
  <2> QED
    BY <1>3, <2>2, BecomeType DEF StatusMiss
<1>4. ASSUME NEW t \in Tasks, NEW p \in Servers, Disconnect(t, p)
      PROVE  TypeOK'
  <2>1. row' \in Row
    BY <1>4 DEF Disconnect, Row, RowStatuses
  <2>2. p \in Procs \cup {None}
    BY DEF Procs
  <2>3. /\ task' \in [Tasks -> Task]
        /\ cache' \in [Procs -> Entry \cup {None}]
        /\ changes' \in 0..MaxChanges
    BY <1>4, <2>2, CommittedType DEF Disconnect
  <2> QED
    BY <1>4, <2>1, <2>3 DEF Disconnect
<1>5. ASSUME NEW t \in Tasks, NEW p \in Servers, RefreshAccount(t, p)
      PROVE  TypeOK'
  <2>1. row.ca \in Accounts \cup {None}
    BY DEF Row
  <2>2. [TaskIn(p) EXCEPT !.pc = "polling", !.ca = row.ca] \in Task
    BY <2>1 DEF TaskIn, Idle, Task, Seen, TaskStates, Procs
  <2>3. composio' \in [Accounts -> ComposioStatuses]
    BY <1>5 DEF RefreshAccount, ComposioStatuses
  <2> QED
    BY <1>5, <2>2, <2>3, BecomeType DEF RefreshAccount
<1>6. ASSUME NEW t \in Tasks, NEW p \in Servers, NEW a \in Accounts,
             StartFinalize(t, p, a)
      PROVE  TypeOK'
  <2>1. [TaskIn(p) EXCEPT !.pc = "polling", !.ca = a] \in Task
    BY DEF TaskIn, Idle, Task, Seen, TaskStates, Procs
  <2> QED
    BY <1>6, <2>1, BecomeType DEF StartFinalize
<1>7. ASSUME NEW p \in Procs, Expire(p) PROVE TypeOK'
  BY <1>7 DEF Expire
<1>8. ASSUME NEW p \in Procs, Restart(p) PROVE TypeOK'
  <2>1. task' \in [Tasks -> Task]
    BY <1>8, IdleType DEF Restart
  <2> QED
    BY <1>8, <2>1 DEF Restart
<1>9. CASE UNCHANGED vars
  BY <1>9 DEF vars
<1> QED
  BY <1>1, <1>2, <1>3, <1>4, <1>5, <1>6, <1>7, <1>8, <1>9, TypeTask DEF Next

(* Every variable keeps its type.                                            *)
THEOREM TypeCorrect == Spec => []TypeOK
  BY TypeInit, TypeNext, PTL DEF Spec

-----------------------------------------------------------------------------
(* What a finalization knows *)

WasActive(a) == a \in Accounts /\ composio[a] \in {"ACTIVE", "EXPIRED"}

\* A finalization is of an account, which Composio has had active if a poll
\* said so.
TaskInv ==
    \A t \in Tasks :
        /\ task[t].pc \in {"polling", "saving"} => task[t].ca \in Accounts
        /\ task[t].seen = "ACTIVE" => WasActive(task[t].ca)

(* Initially no request is under way.                                        *)
LEMMA TaskInit == Init => TaskInv
  BY DEF Init, TaskInv, Idle

(* A request that is replaced by one that has seen nothing is no exception.   *)
LEMMA BecomeTask ==
    ASSUME TypeOK, TaskInv, NEW t \in Tasks, NEW new \in Task, Become(t, new),
           composio' = composio, new.seen # "ACTIVE",
           new.pc \in {"polling", "saving"} => new.ca \in Accounts
    PROVE  TaskInv'
  BY DEF TypeOK, TaskInv, WasActive, Become

(* An account that Composio has had active stays one it has had active.       *)
LEMMA ActiveStays ==
    ASSUME TypeOK, [Next]_vars
    PROVE  \A a \in Accounts : WasActive(a) => WasActive(a)'
<1> USE DEF TypeOK, WasActive
<1>1. ASSUME NEW a \in Accounts, StartOauth(a) \/ Consent(a) \/ Lapse(a)
      PROVE  \A b \in Accounts : WasActive(b) => WasActive(b)'
  BY <1>1 DEF StartOauth, Consent, Lapse
<1>2. ASSUME NEW t \in Tasks, NEW p \in Servers, RefreshAccount(t, p)
      PROVE  \A b \in Accounts : WasActive(b) => WasActive(b)'
  BY <1>2 DEF RefreshAccount
<1>3. CASE UNCHANGED composio
  BY <1>3
<1> QED
  BY <1>1, <1>2, <1>3 DEF Next, vars, TaskStep, AskComposio, StoreStatus, Poll,
     PollTimesOut, SaveAccount, FinalizeFails, Invalidate, StoreToken, NoToken,
     ReadHeaders, StatusMiss, Disconnect, StartFinalize, Expire, Restart

(* Every step keeps what the finalizations know.                             *)
LEMMA TaskNext == TypeOK /\ TaskInv /\ [Next]_vars => TaskInv'
<1> SUFFICES ASSUME TypeOK, TaskInv, [Next]_vars PROVE TaskInv'
  OBVIOUS
<1> USE DEF TypeOK
<1>0. \A a \in Accounts : WasActive(a) => WasActive(a)'
  BY ActiveStays
<1>1. ASSUME UNCHANGED task PROVE TaskInv'
  BY <1>0, <1>1 DEF TaskInv, WasActive
<1>2. ASSUME NEW t \in Tasks, Finish(t), UNCHANGED composio PROVE TaskInv'
  <2>1. Idle.seen # "ACTIVE" /\ Idle.pc \notin {"polling", "saving"}
    BY DEF Idle
  <2> QED
    BY <1>2, <2>1, IdleType, BecomeTask DEF Finish
<1>3. ASSUME NEW t \in Tasks, ReadHeaders(t) PROVE TaskInv'
  <2> DEFINE new == [Idle EXCEPT !.pc = "minting", !.ca = Linked]
  <2>1. new \in Task /\ new.seen # "ACTIVE" /\ new.pc \notin {"polling", "saving"}
    BY LinkedType DEF Idle, Task, Seen, TaskStates
  <2>2. Become(t, new) /\ composio' = composio
    BY <1>3 DEF ReadHeaders
  <2> HIDE DEF new
  <2> QED
    BY <2>1, <2>2, BecomeTask
<1>4. ASSUME NEW t \in Tasks, NEW p \in Procs, StatusMiss(t, p) PROVE TaskInv'
  <2> DEFINE pc == IF Linked = None THEN "storing" ELSE "asking"
             new == [TaskIn(p) EXCEPT !.pc = pc, !.ca = Linked]
  <2>1. new \in Task /\ new.seen # "ACTIVE" /\ new.pc \notin {"polling", "saving"}
    BY LinkedType DEF TaskIn, Idle, Task, Seen, TaskStates
  <2>2. Become(t, new) /\ composio' = composio
    BY <1>4 DEF StatusMiss
  <2> HIDE DEF new
  <2> QED
    BY <2>1, <2>2, BecomeTask
<1>5. ASSUME NEW t \in Tasks, NEW p \in Procs \cup {None}, Committed(t, p),
             UNCHANGED composio
      PROVE  TaskInv'
  <2> DEFINE new == [TaskIn(p) EXCEPT !.pc = "invalidating"]
  <2>1. new \in Task /\ new.seen # "ACTIVE" /\ new.pc \notin {"polling", "saving"}
    BY DEF TaskIn, Idle, Task, Seen, TaskStates
  <2>2. Become(t, new) /\ composio' = composio
    BY <1>5 DEF Committed
  <2> HIDE DEF new
  <2> QED
    BY <2>1, <2>2, BecomeTask
<1>6. ASSUME NEW t \in Tasks, NEW p \in Servers, NEW a \in Accounts,
             Become(t, [TaskIn(p) EXCEPT !.pc = "polling", !.ca = a])
      PROVE  TaskInv'
  <2> DEFINE new == [TaskIn(p) EXCEPT !.pc = "polling", !.ca = a]
  <2>1. new.seen # "ACTIVE" /\ new.ca \in Accounts
    BY DEF TaskIn, Idle
  <2>2. task' = [task EXCEPT ![t] = new]
    BY <1>6 DEF Become
  <2> HIDE DEF new
  <2> QED
    BY <1>0, <2>1, <2>2 DEF TaskInv, WasActive
<1>7. ASSUME NEW t \in Tasks, AskComposio(t) PROVE TaskInv'
  <2>1. PICK reached \in BOOLEAN :
            Become(t, [task[t] EXCEPT
              !.pc = "storing",
              !.ok = ~reached \/ composio[task[t].ca] = "ACTIVE"])
    BY <1>7 DEF AskComposio
  <2>2. /\ task'[t].pc = "storing" /\ task'[t].seen = task[t].seen
        /\ task'[t].ca = task[t].ca
        /\ \A u \in Tasks \ {t} : task'[u] = task[u]
        /\ composio' = composio
    BY <1>7, <2>1 DEF Become, Task, AskComposio
  <2> QED
    BY <2>2 DEF TaskInv, WasActive
<1>8. ASSUME NEW t \in Tasks, Poll(t) PROVE TaskInv'
  <2>1. /\ task'[t].pc \in {"saving", "polling"} /\ task'[t].ca = task[t].ca
        /\ task'[t].seen = "ACTIVE" => composio[task[t].ca] = "ACTIVE"
        /\ \A u \in Tasks \ {t} : task'[u] = task[u]
        /\ composio' = composio /\ task[t].pc = "polling"
    BY <1>8 DEF Become, Task, Poll
  <2> QED
    BY <2>1 DEF TaskInv, WasActive
<1>9. ASSUME NEW t \in Tasks, PollTimesOut(t) PROVE TaskInv'
  <2>1. /\ task'[t].seen = task[t].seen /\ task'[t].ca = task[t].ca
        /\ \A u \in Tasks \ {t} : task'[u] = task[u]
        /\ composio' = composio /\ task[t].pc = "polling"
    BY <1>9 DEF Goto, Task, PollTimesOut
  <2> QED
    BY <2>1 DEF TaskInv, WasActive
<1>10. ASSUME NEW p \in Procs, Restart(p) PROVE TaskInv'
  <2>1. \A u \in Tasks : task'[u] \in {Idle, task[u]}
    BY <1>10 DEF Restart
  <2>2. Idle.seen # "ACTIVE" /\ Idle.pc \notin {"polling", "saving"}
    BY DEF Idle
  <2>3. composio' = composio
    BY <1>10 DEF Restart
  <2> QED
    BY <2>1, <2>2, <2>3 DEF TaskInv, WasActive
<1>11. ASSUME NEW t \in Tasks, TaskStep(t) PROVE TaskInv'
  <2>1. CASE SaveAccount(t)
    BY <1>5, <2>1 DEF SaveAccount, Task
  <2> QED
    BY <1>2, <1>7, <1>8, <1>9, <1>11, <2>1 DEF TaskStep, StoreStatus,
       FinalizeFails, Invalidate, StoreToken, NoToken
<1>12. ASSUME NEW t \in Tasks, NEW p \in Servers, Disconnect(t, p) PROVE TaskInv'
  BY <1>5, <1>12 DEF Disconnect, Procs
<1>13. ASSUME NEW t \in Tasks, NEW p \in Servers, RefreshAccount(t, p)
       PROVE  TaskInv'
  BY <1>6, <1>13 DEF RefreshAccount, Row
<1>14. ASSUME NEW t \in Tasks, NEW p \in Servers, NEW a \in Accounts,
              StartFinalize(t, p, a)
       PROVE  TaskInv'
  BY <1>6, <1>14 DEF StartFinalize
<1> QED
  BY <1>1, <1>3, <1>4, <1>10, <1>11, <1>12, <1>13, <1>14
  DEF Next, vars, StartOauth, Consent, Lapse, Expire

-----------------------------------------------------------------------------
(* The row *)

\* While a disconnect is in force the row is marked: nothing writes the status
\* but finalizations and disconnects.  An active row was seen active or blind.
RowInv ==
    /\ cut # None => row.status = "DISCONNECTED"
    /\ row.status = "ACTIVE" => row.ca \in Accounts
    /\ row.ca = None => row.status = "DISCONNECTED"
    /\ row.status = "ACTIVE" /\ ~row.blind => WasActive(row.ca)

(* Initially there is no row.                                                *)
LEMMA RowInit == Init => RowInv
  BY DEF Init, RowInv, NoRow

(* Every step keeps the row's status true.                                   *)
LEMMA RowNext == TypeOK /\ TaskInv /\ RowInv /\ [Next]_vars => RowInv'
<1> SUFFICES ASSUME TypeOK, TaskInv, RowInv, [Next]_vars PROVE RowInv'
  OBVIOUS
<1> USE DEF TypeOK
<1>0. \A a \in Accounts : WasActive(a) => WasActive(a)'
  BY ActiveStays
<1>1. CASE UNCHANGED <<row, cut>>
  BY <1>0, <1>1 DEF RowInv, WasActive
<1>2. ASSUME NEW t \in Tasks, SaveAccount(t) PROVE RowInv'
  <2>1. PICK url, token \in BOOLEAN :
          row' = [ca |-> task[t].ca, status |-> StatusSaved(task[t].seen),
                  url |-> url, token |-> url /\ token,
                  blind |-> task[t].seen = "nothing"]
    BY <1>2 DEF SaveAccount
  <2>2. row'.ca \in Accounts /\ cut' = None
    BY <1>2, <2>1 DEF SaveAccount, TaskInv
  <2>3. ASSUME row'.status = "ACTIVE", ~row'.blind PROVE WasActive(row'.ca)
    <3>1. task[t].seen = "ACTIVE"
      BY <2>1, <2>3 DEF StatusSaved
    <3> QED
      BY <2>1, <3>1 DEF TaskInv
  <2>4. composio' = composio
    BY <1>2 DEF SaveAccount
  <2> QED
    BY <2>2, <2>3, <2>4, RegistryAssumption DEF RowInv, WasActive
<1>3. ASSUME NEW t \in Tasks, NEW p \in Servers, Disconnect(t, p) PROVE RowInv'
  <2>1. row'.status = "DISCONNECTED"
    BY <1>3 DEF Disconnect, RowInv, Row
  <2> QED
    BY <2>1 DEF RowInv
<1>4. ASSUME NEW t \in Tasks, StoreToken(t) PROVE RowInv'
  <2>1. row'.ca = row.ca /\ row'.status = row.status /\ row'.blind = row.blind
    BY <1>4 DEF StoreToken, Row
  <2>2. cut' = cut /\ composio' = composio
    BY <1>4 DEF StoreToken
  <2> QED
    BY <2>1, <2>2 DEF RowInv, WasActive
<1> QED
  BY <1>1, <1>2, <1>3, <1>4 DEF Next, vars, TaskStep, AskComposio, StoreStatus,
     Poll, PollTimesOut, FinalizeFails, Invalidate, NoToken, ReadHeaders,
     StatusMiss, StartFinalize, Expire, Restart, StartOauth, Consent, Lapse,
     RefreshAccount

(* A disconnect holds until the next finalization commits, whatever requests  *)
(* and tool calls are under way.                                             *)
THEOREM DisconnectCorrect == Spec => []DisconnectHolds
<1>1. RowInv => DisconnectHolds
  BY DEF RowInv, DisconnectHolds, Linked
<1> QED
  BY TypeCorrect, TaskInit, TaskNext, RowInit, RowNext, <1>1, PTL DEF Spec

(* A row says ACTIVE only of an account that Composio has had active, or of   *)
(* one whose poll got no answer.                                             *)
THEOREM ActiveCorrect == Spec => []ActiveWasSeen
<1>1. RowInv => ActiveWasSeen
  BY DEF RowInv, ActiveWasSeen, WasActive
<1> QED
  BY TypeCorrect, TaskInit, TaskNext, RowInit, RowNext, <1>1, PTL DEF Spec

-----------------------------------------------------------------------------
(* The cache *)

(* Initially the caches are empty.                                           *)
LEMMA DropsInit == Init => InvalidationDrops
  BY DEF Init, InvalidationDrops

(* A step that leaves the entries alone, or drops some, and the handlers that *)
(* are to invalidate.                                                        *)
LEMMA DropsKept ==
    ASSUME TypeOK, InvalidationDrops,
           \A p \in Procs : cache'[p] # None => cache'[p] = cache[p],
           \A t \in Tasks : task[t].pc = "invalidating" =>
               \/ task'[t].pc = "invalidating" /\ task'[t].proc = task[t].proc
               \/ task[t].proc \in Procs => cache'[task[t].proc] = None
    PROVE  InvalidationDrops'
  BY DEF TypeOK, InvalidationDrops, Invalidating

(* Every step keeps the entries in order.                                    *)
LEMMA DropsNext ==
    TypeOK /\ InvalidationDrops /\ [Next]_vars => InvalidationDrops'
<1> SUFFICES ASSUME TypeOK, InvalidationDrops, [Next]_vars
             PROVE  InvalidationDrops'
  OBVIOUS
<1> USE DEF TypeOK
<1>1. CASE UNCHANGED <<task, cache>>
  BY <1>1 DEF InvalidationDrops, Invalidating
<1>2. ASSUME NEW t \in Tasks, task[t].pc # "invalidating", UNCHANGED cache,
             \A u \in Tasks \ {t} : task'[u] = task[u]
      PROVE  InvalidationDrops'
  BY <1>2, DropsKept
<1>3. ASSUME NEW t \in Tasks, StoreStatus(t) PROVE InvalidationDrops'
  <2> DEFINE p == task[t].proc
             e == [ca |-> task[t].ca, authorized |-> task[t].ok, old |-> FALSE]
  <2>1. /\ cache' = [cache EXCEPT ![p] = e] /\ ~e.old
        /\ task[t].pc = "storing"
        /\ \A u \in Tasks \ {t} : task'[u] = task[u]
    BY <1>3 DEF StoreStatus, Finish, Become
  <2> HIDE DEF p, e
  <2> QED
    BY <2>1 DEF InvalidationDrops, Invalidating
<1>4. ASSUME NEW t \in Tasks, Invalidate(t) PROVE InvalidationDrops'
  <2> DEFINE p == task[t].proc
  <2>1. /\ cache' = [cache EXCEPT ![p] = None]
        /\ \A u \in Tasks \ {t} : task'[u] = task[u]
    BY <1>4 DEF Invalidate, Finish, Become
  <2> QED
    BY <2>1 DEF InvalidationDrops, Invalidating
<1>5. ASSUME NEW t \in Tasks, task[t].pc # "invalidating",
             NEW p \in Procs \cup {None}, Committed(t, p)
      PROVE  InvalidationDrops'
  <2>1. /\ \A r \in Procs \ {p} : cache'[r] = cache[r]
        /\ task'[t].pc = "invalidating" /\ task'[t].proc = p
        /\ \A u \in Tasks \ {t} : task'[u] = task[u]
    BY <1>5 DEF Committed, Become, TaskIn, Idle
  <2> QED
    BY <1>5, <2>1 DEF InvalidationDrops, Invalidating
<1>6. ASSUME NEW p \in Procs, Restart(p) PROVE InvalidationDrops'
  <2>1. /\ cache' = [cache EXCEPT ![p] = None]
        /\ \A u \in Tasks : task[u].proc = p \/ task'[u] = task[u]
    BY <1>6 DEF Restart
  <2> QED
    BY <2>1 DEF InvalidationDrops, Invalidating
<1>7. ASSUME NEW p \in Procs, Expire(p) PROVE InvalidationDrops'
  <2>1. cache' = [cache EXCEPT ![p] = None] /\ task' = task
    BY <1>7 DEF Expire
  <2> QED
    BY <2>1 DEF InvalidationDrops, Invalidating
<1>8. ASSUME NEW t \in Tasks, TaskStep(t) PROVE InvalidationDrops'
  <2>1. CASE AskComposio(t)
    BY <1>2, <2>1 DEF AskComposio, Become
  <2>2. CASE Poll(t)
    BY <1>2, <2>2 DEF Poll, Become
  <2>3. CASE PollTimesOut(t)
    BY <1>2, <2>3 DEF PollTimesOut, Goto
  <2>4. CASE SaveAccount(t)
    BY <1>5, <2>4 DEF SaveAccount, Task
  <2>5. CASE FinalizeFails(t) \/ StoreToken(t) \/ NoToken(t)
    BY <1>2, <2>5 DEF FinalizeFails, StoreToken, NoToken, Finish, Become
  <2> QED
    BY <1>3, <1>4, <1>8, <2>1, <2>2, <2>3, <2>4, <2>5 DEF TaskStep
<1>9. ASSUME NEW t \in Tasks, ReadHeaders(t) PROVE InvalidationDrops'
  BY <1>2, <1>9 DEF ReadHeaders, Free, Become
<1>10. ASSUME NEW t \in Tasks, NEW p \in Procs, StatusMiss(t, p)
       PROVE  InvalidationDrops'
  BY <1>2, <1>10 DEF StatusMiss, Free, Become
<1>11. ASSUME NEW t \in Tasks, NEW p \in Servers, Disconnect(t, p)
       PROVE  InvalidationDrops'
  BY <1>5, <1>11 DEF Disconnect, Free, Procs
<1>12. ASSUME NEW t \in Tasks, NEW p \in Servers, RefreshAccount(t, p)
       PROVE  InvalidationDrops'
  BY <1>2, <1>12 DEF RefreshAccount, Free, Become
<1>13. ASSUME NEW t \in Tasks, NEW p \in Servers, NEW a \in Accounts,
              StartFinalize(t, p, a)
       PROVE  InvalidationDrops'
  BY <1>2, <1>13 DEF StartFinalize, Free, Become
<1> QED
  BY <1>1, <1>6, <1>7, <1>8, <1>9, <1>10, <1>11, <1>12, <1>13
  DEF Next, vars, StartOauth, Consent, Lapse

(* No entry that was cached before a change outlives the handler of the       *)
(* change in that process.                                                   *)
THEOREM CacheCorrect == Spec => []InvalidationDrops
  BY TypeCorrect, DropsInit, DropsNext, PTL DEF Spec
=============================================================================
