--------------------------- MODULE McpAgent_proofs ---------------------------
(***************************************************************************)
(* What one task of the MCP agent keeps, for any tools, labels and limits:  *)
(* its types, its limits, its records, its cache and what it may spend.     *)
(***************************************************************************)
EXTENDS McpAgent, FiniteSetTheorems, SequenceTheorems, TLAPS

(* Records are made of what the executor fills in.                           *)
LEMMA EntryType ==
    ASSUME NEW type \in EntryTypes, NEW ok \in BOOLEAN, NEW code \in Codes,
           NEW label \in Labels \cup {Unlabelled}, NEW ran \in BOOLEAN
    PROVE  Entry(type, ok, code, label, ran) \in Entries
BY DEF Entry, Entries

LEMMA FinishType ==
    ASSUME NEW code \in Codes
    PROVE  FinishEntry(code) \in Entries
BY EntryType DEF FinishEntry, EntryTypes

\* Whether a record is one of a tool that was started.
Did(entry) == IF entry.type = "tool" /\ entry.ran THEN 1 ELSE 0

\* The failures of sandbox code that end the task the third time.
StrikeCodes == CountedCodes \ {"sandbox_runtime_error"}

\* Records of such a failure under a label.
Strikes(records, label, code) ==
    {i \in 1..Len(records) : /\ records[i].type = "sandbox"
                             /\ records[i].code = code
                             /\ records[i].label = label}

\* A record that is not the third of its kind.
Harmless(entry) ==
    (entry.type = "sandbox" /\ entry.code \in StrikeCodes /\ entry.label \in Labels)
       => Cardinality(Strikes(history, entry.label, entry.code)) < 2

LEMMA HarmlessType ==
    ASSUME NEW type, NEW ok, NEW code, NEW label, NEW ran,
           type # "sandbox" \/ code \notin StrikeCodes \/ label \notin Labels
    PROVE  Harmless(Entry(type, ok, code, label, ran))
BY DEF Harmless, Entry

\* The ways a command ends: it is recorded and the task goes on or returns, or
\* _failure adds a record of its own.
Goes(entry) == GoOn(entry) /\ called' = called + Did(entry) /\ Harmless(entry)

Returns(ok, code, entry) ==
    Return(ok, code, <<entry>>) /\ called' = called + Did(entry)

Gives(code, entry) ==
    /\ Return(FALSE, code, <<entry, FinishEntry(code)>>)
    /\ Did(entry) = 0
    /\ called' = called

Ends ==
    \/ \E entry \in Entries : Goes(entry) /\ called' + toolCalls <= called + toolCalls'
    \/ \E ok \in BOOLEAN, code \in Codes, entry \in Entries : Returns(ok, code, entry)
    \/ \E code \in Codes, entry \in Entries : Gives(code, entry)

\* What a command may do to the counters.
Counts ==
    /\ UNCHANGED <<attempt, steps, cost>>
    /\ toolCalls' \in {toolCalls, toolCalls + 1}
    /\ codeRuns' \in {codeRuns, codeRuns + 1}
    /\ \E c \in CallCosts \cup {0} : spent' = spent + c

LEMMA DidType ==
    ASSUME NEW type, NEW ok, NEW code, NEW label, NEW ran
    PROVE  /\ type # "tool" => Did(Entry(type, ok, code, label, ran)) = 0
           /\ type = "tool" /\ ran = TRUE => Did(Entry(type, ok, code, label, ran)) = 1
           /\ ran = FALSE => Did(Entry(type, ok, code, label, ran)) = 0
BY DEF Did, Entry

LEMMA StrikesCount ==
    ASSUME NEW records \in Seq(Entries), NEW label, NEW code
    PROVE  /\ IsFiniteSet(Strikes(records, label, code))
           /\ Cardinality(Strikes(records, label, code)) \in Nat
<1>1. Strikes(records, label, code) \in SUBSET (1..Len(records))
  BY DEF Strikes
<1>2. IsFiniteSet(1..Len(records))
  BY FS_Interval
<1>3. IsFiniteSet(Strikes(records, label, code))
  BY <1>1, <1>2, FS_Subset
<1> QED
  BY <1>3, FS_CardinalityType

(* A search returns a sequence of tools.                                     *)
LEMMA HitsType ==
    ASSUME NEW hits \in Hits
    PROVE  {hits[i] : i \in 1..Len(hits)} \subseteq Tools
<1>1. PICK n \in 0..SearchLimit : hits \in [1..n -> Tools]
  BY DEF Hits
<1>2. n \in Nat
  BY AgentAssumption
<1>3. hits \in Seq(Tools)
  BY <1>1, <1>2, SeqDef
<1>4. \A i \in 1..Len(hits) : hits[i] \in Tools
  BY <1>3
<1> QED
  BY <1>4

(* The counters are numbers.                                                 *)
LEMMA Numbers ==
    ASSUME TypeOK
    PROVE  /\ attempt \in Nat /\ steps \in Nat /\ toolCalls \in Nat
           /\ codeRuns \in Nat /\ cost \in Nat /\ spent \in Nat /\ called \in Nat
           /\ CallCosts \subseteq Nat
<1>1. MaxSteps \in Nat /\ CallCosts \subseteq Nat
  BY AgentAssumption, Zenon
<1>2. /\ attempt \in 0..3 /\ steps \in 0..MaxSteps
      /\ toolCalls \in Nat /\ codeRuns \in Nat /\ cost \in Nat /\ spent \in Nat
      /\ called \in Nat
  BY Zenon DEF TypeOK
<1> QED
  BY <1>1, <1>2

(* A command that starts no tool is recorded, and the task goes on.          *)
LEMMA GoesOn ==
    ASSUME TypeOK, NEW entry \in Entries, GoOn(entry), Did(entry) = 0, Harmless(entry),
           called' = called, toolCalls' \in {toolCalls, toolCalls + 1}
    PROVE  Ends
<1>1. called' = called + Did(entry) /\ called' + toolCalls <= called + toolCalls'
  BY Numbers
<1> QED
  BY <1>1 DEF Ends, Goes

LEMMA ReturnsEnd ==
    ASSUME TypeOK, NEW entry \in Entries, NEW ok \in BOOLEAN, NEW code \in Codes,
           Return(ok, code, <<entry>>), called' = called + Did(entry)
    PROVE  Ends
BY DEF Ends, Returns

LEMMA GivesEnd ==
    ASSUME TypeOK, NEW entry \in Entries, NEW code \in Codes, Did(entry) = 0,
           Return(FALSE, code, <<entry, FinishEntry(code)>>), called' = called
    PROVE  Ends
BY DEF Ends, Gives

LEMMA NothingCounts ==
    ASSUME TypeOK, UNCHANGED <<attempt, steps, counters, money>>
    PROVE  Counts
<1>1. /\ UNCHANGED <<attempt, steps, cost>> /\ toolCalls' = toolCalls
      /\ codeRuns' = codeRuns /\ spent' = spent + 0
  BY Numbers DEF counters, money
<1>2. 0 \in CallCosts \cup {0}
  OBVIOUS
<1> QED
  BY <1>1, <1>2, Zenon DEF Counts

(* Every command ends in one of these ways.                                  *)
LEMMA CommandFacts ==
    ASSUME TypeOK, Command
    PROVE  pc = "act" /\ Ends /\ Counts
<1>1. CASE SearchFinds
  <2> DEFINE entry == Entry("search", TRUE, "none", Unlabelled, FALSE)
  <2>1. GoOn(entry) /\ UNCHANGED <<attempt, steps, counters, money, called>> /\ pc = "act"
    BY <1>1 DEF SearchFinds
  <2>2. entry \in Entries /\ Did(entry) = 0 /\ Harmless(entry)
    BY EntryType, DidType, HarmlessType DEF EntryTypes, Codes
  <2> HIDE DEF entry
  <2>3. Ends
    BY <2>1, <2>2, GoesOn DEF counters
  <2>4. Counts
    BY <2>1, Numbers DEF Counts, counters, money
  <2> QED
    BY <2>1, <2>3, <2>4
<1>2. CASE SearchFails
  <2> DEFINE entry == Entry("search", FALSE, "search_failed", Unlabelled, FALSE)
  <2>1. entry \in Entries /\ Did(entry) = 0 /\ "search_failed" \in Codes
    BY EntryType, DidType DEF EntryTypes, Codes
  <2>2. /\ pc = "act" /\ called' = called /\ UNCHANGED <<attempt, steps, counters, money>>
        /\ Return(FALSE, "search_failed", <<entry, FinishEntry("search_failed")>>)
    BY <1>2 DEF SearchFails
  <2> HIDE DEF entry
  <2> QED
    BY <2>1, <2>2, GivesEnd, NothingCounts
<1>3. CASE ToolRefused
  <2>1. PICK code \in {"planner_used_unknown_tool", "planner_used_undiscovered_tool"} :
           Return(FALSE, code, <<Entry("tool", FALSE, code, Unlabelled, FALSE)>>)
    BY <1>3 DEF ToolRefused
  <2> DEFINE entry == Entry("tool", FALSE, code, Unlabelled, FALSE)
  <2>2. entry \in Entries /\ Did(entry) = 0 /\ code \in Codes
    BY EntryType, DidType DEF EntryTypes, Codes
  <2>3. Return(FALSE, code, <<entry>>)
    BY <2>1
  <2> HIDE DEF entry
  <2>4. pc = "act" /\ called' = called /\ UNCHANGED <<attempt, steps, counters, money>>
    BY <1>3 DEF ToolRefused
  <2>5. called' = called + Did(entry)
    BY <2>2, <2>4, Numbers
  <2> QED
    BY <2>2, <2>3, <2>4, <2>5, ReturnsEnd, NothingCounts
<1>4. CASE ToolReturns
  <2>1. /\ pc = "act" /\ called' = called + 1 /\ toolCalls' = toolCalls + 1
        /\ UNCHANGED <<attempt, steps, codeRuns, cost>>
    BY <1>4 DEF ToolReturns
  <2>2. \A ok \in BOOLEAN : ToolEntry(ok) \in Entries /\ Did(ToolEntry(ok)) = 1
    BY EntryType, DidType DEF ToolEntry, EntryTypes, Codes
  <2>3. CASE GoOn(ToolEntry(TRUE)) /\ \E c \in CallCosts \cup {0} : spent' = spent + c
    <3>1. /\ called' = called + Did(ToolEntry(TRUE)) /\ ToolEntry(TRUE) \in Entries
          /\ Harmless(ToolEntry(TRUE))
      BY <2>1, <2>2, HarmlessType DEF ToolEntry
    <3>2. called' + toolCalls <= called + toolCalls'
      BY <2>1, Numbers
    <3>3. Ends
      BY <2>3, <3>1, <3>2 DEF Ends, Goes
    <3> QED
      BY <2>1, <2>3, <3>3, Numbers DEF Counts
  <2>4. CASE Return(FALSE, "tool_execution_failed", <<ToolEntry(FALSE)>>) /\ spent' = spent
    <3>1. called' = called + Did(ToolEntry(FALSE)) /\ "tool_execution_failed" \in Codes
      BY <2>1, <2>2 DEF Codes
    <3>2. Ends
      BY <2>2, <2>4, <3>1, ReturnsEnd
    <3> QED
      BY <2>1, <2>4, <3>2, Numbers DEF Counts
  <2> QED
    BY <1>4, <2>3, <2>4 DEF ToolReturns
<1>5. CASE ToolRaises
  <2>1. ToolEntry(FALSE) \in Entries /\ Did(ToolEntry(FALSE)) = 1
    BY EntryType, DidType DEF ToolEntry, EntryTypes, Codes
  <2>2. /\ pc = "act" /\ called' = called + 1 /\ UNCHANGED <<attempt, steps, counters, money>>
        /\ Return(FALSE, "tool_execution_failed", <<ToolEntry(FALSE)>>)
        /\ "tool_execution_failed" \in Codes
    BY <1>5 DEF ToolRaises, Codes
  <2> QED
    BY <2>1, <2>2, ReturnsEnd, NothingCounts
<1>6. CASE Inspect
  <2>1. \A ok \in BOOLEAN : /\ InspectEntry(ok) \in Entries /\ Did(InspectEntry(ok)) = 0
                            /\ Harmless(InspectEntry(ok))
    BY EntryType, DidType, HarmlessType DEF InspectEntry, EntryTypes, Codes
  <2>2. /\ pc = "act" /\ called' = called /\ toolCalls' \in {toolCalls, toolCalls + 1}
        /\ UNCHANGED <<attempt, steps, codeRuns, cost>>
        /\ \E c \in CallCosts \cup {0} : spent' = spent + c
        /\ \E ok \in BOOLEAN : GoOn(InspectEntry(ok))
    <3>1. spent' = spent => \E c \in CallCosts \cup {0} : spent' = spent + c
      <4>1. 0 \in CallCosts \cup {0} /\ spent = spent + 0
        BY Numbers
      <4> QED
        BY <4>1, Zenon
    <3>2. pc = "act" /\ called' = called /\ UNCHANGED <<attempt, steps, codeRuns, cost>>
      BY <1>6 DEF Inspect
    <3>3. toolCalls' \in {toolCalls, toolCalls + 1}
      BY <1>6 DEF Inspect
    <3>4. \E c \in CallCosts \cup {0} : spent' = spent + c
      BY <1>6, <3>1 DEF Inspect
    <3>5. \E ok \in BOOLEAN : GoOn(InspectEntry(ok))
      BY <1>6 DEF Inspect
    <3> QED
      BY <3>2, <3>3, <3>4, <3>5
  <2>3. Ends
    BY <2>1, <2>2, GoesOn
  <2> QED
    BY <2>2, <2>3, Numbers DEF Counts
<1>7. CASE Finish
  <2> DEFINE entry == Entry("finish", TRUE, "none", Unlabelled, FALSE)
  <2>1. entry \in Entries /\ Did(entry) = 0 /\ "none" \in Codes
    BY EntryType, DidType DEF EntryTypes, Codes
  <2>2. /\ pc = "act" /\ Return(TRUE, "none", <<entry>>) /\ called' = called
        /\ UNCHANGED <<attempt, steps, counters, money>>
    BY <1>7 DEF Finish
  <2> HIDE DEF entry
  <2>3. called' = called + Did(entry)
    BY <2>1, <2>2, Numbers
  <2> QED
    BY <2>1, <2>2, <2>3, ReturnsEnd, NothingCounts
<1>8. CASE Fail
  <2> DEFINE entry == Entry("fail", FALSE, "planner_fail_action", Unlabelled, FALSE)
  <2>1. entry \in Entries /\ Did(entry) = 0 /\ "planner_fail_action" \in Codes
    BY EntryType, DidType DEF EntryTypes, Codes
  <2>2. /\ pc = "act" /\ called' = called /\ UNCHANGED <<attempt, steps, counters, money>>
        /\ Return(FALSE, "planner_fail_action",
                  <<entry, FinishEntry("planner_fail_action")>>)
    BY <1>8 DEF Fail
  <2> HIDE DEF entry
  <2> QED
    BY <2>1, <2>2, GivesEnd, NothingCounts
<1>9. ASSUME NEW label \in Labels \cup {Unlabelled}, NEW code \in Codes,
             NEW ran \in BOOLEAN, SandboxFails(label, code, ran), called' = called,
             toolCalls' = toolCalls
      PROVE  Ends
  <2> DEFINE entry == Entry("sandbox", FALSE, code, label, ran)
  <2>1. entry \in Entries /\ Did(entry) = 0
    BY EntryType, DidType DEF EntryTypes
  <2>2. Return(FALSE, code, <<entry>>) \/ (GoOn(entry) /\ ~StruckOut(label, code))
    BY <1>9 DEF SandboxFails
  <2>3. ASSUME ~StruckOut(label, code) PROVE Harmless(entry)
    <3>1. CASE label \in Labels
      <4>1. label # Unlabelled
        BY <3>1, AgentAssumption, Zenon
      <4>2. Earlier(label, code) = Strikes(history, label, code)
        BY <4>1 DEF Earlier, LookedFor, Strikes
      <4>3. Cardinality(Strikes(history, label, code)) \in Nat
        BY StrikesCount, Zenon DEF TypeOK
      <4>4. Cardinality(Strikes(history, label, code)) < 2
        BY <2>3, <4>2, <4>3 DEF StruckOut
      <4> QED
        BY <4>4 DEF Harmless, Entry
    <3>2. CASE label \notin Labels
      BY <3>2, HarmlessType
    <3> QED
      BY <3>1, <3>2
  <2> HIDE DEF entry
  <2>4. called' = called + Did(entry)
    BY <1>9, <2>1, Numbers
  <2> QED
    BY <1>9, <2>1, <2>2, <2>3, <2>4, ReturnsEnd, GoesOn
<1>10. CASE SandboxUnrun
  <2>1. PICK label \in Labels \cup {Unlabelled}, code \in SandboxCodes \cap UnrunCodes :
           SandboxFails(label, code, FALSE)
    BY <1>10 DEF SandboxUnrun
  <2>2. /\ pc = "act" /\ called' = called /\ UNCHANGED <<attempt, steps, counters, money>>
        /\ toolCalls' = toolCalls
    BY <1>10 DEF SandboxUnrun, counters
  <2>3. code \in Codes
    BY DEF UnrunCodes, CountedCodes, RecoverableCodes, Codes
  <2> QED
    BY <1>9, <2>1, <2>2, <2>3, NothingCounts
<1>11. CASE SandboxRefused
  <2>1. PICK code \in {"planner_used_unknown_server", "planner_used_undiscovered_tool"} :
           Return(FALSE, code, <<Entry("sandbox", FALSE, code, Unlabelled, FALSE)>>)
    BY <1>11 DEF SandboxRefused
  <2> DEFINE entry == Entry("sandbox", FALSE, code, Unlabelled, FALSE)
  <2>2. entry \in Entries /\ Did(entry) = 0 /\ code \in Codes
    BY EntryType, DidType DEF EntryTypes, Codes
  <2>3. Return(FALSE, code, <<entry>>)
    BY <2>1
  <2> HIDE DEF entry
  <2>4. pc = "act" /\ called' = called /\ UNCHANGED <<attempt, steps, counters, money>>
    BY <1>11 DEF SandboxRefused
  <2>5. called' = called + Did(entry)
    BY <2>2, <2>4, Numbers
  <2> QED
    BY <2>2, <2>3, <2>4, <2>5, ReturnsEnd, NothingCounts
<1>12. CASE SandboxUncounted
  <2>1. PICK label \in Labels \cup {Unlabelled},
             code \in {"sandbox_invalid_args", "sandbox_runtime_error"} :
           GoOn(Entry("sandbox", FALSE, code, label, FALSE))
    BY <1>12 DEF SandboxUncounted
  <2> DEFINE entry == Entry("sandbox", FALSE, code, label, FALSE)
  <2>2. entry \in Entries /\ Did(entry) = 0 /\ Harmless(entry)
    BY EntryType, DidType, HarmlessType
    DEF EntryTypes, Codes, RecoverableCodes, CountedCodes, StrikeCodes
  <2>3. GoOn(entry)
    BY <2>1
  <2> HIDE DEF entry
  <2>4. /\ pc = "act" /\ called' = called /\ UNCHANGED <<attempt, steps, counters, money>>
        /\ toolCalls' = toolCalls
    BY <1>12 DEF SandboxUncounted, counters
  <2> QED
    BY <2>2, <2>3, <2>4, GoesOn, NothingCounts
<1>13. CASE SandboxRuns
  <2>1. /\ pc = "act" /\ called' = called /\ toolCalls' = toolCalls
        /\ codeRuns' = codeRuns + 1 /\ UNCHANGED <<attempt, steps, cost>>
    BY <1>13 DEF SandboxRuns
  <2>2. PICK label \in Labels \cup {Unlabelled} :
          \/ /\ GoOn(Entry("sandbox", TRUE, "none", label, TRUE))
             /\ \E c \in CallCosts \cup {0} : spent' = spent + c
          \/ /\ \E code \in SandboxCodes \ UnrunCodes : SandboxFails(label, code, TRUE)
             /\ spent' = spent
    BY <1>13 DEF SandboxRuns
  <2>3. Counts
    <3>1. \E c \in CallCosts \cup {0} : spent' = spent + c
      <4>1. spent' = spent => spent' = spent + 0
        BY Numbers
      <4> QED
        BY <2>2, <4>1
    <3> QED
      BY <2>1, <3>1, Numbers DEF Counts
  <2>4. CASE GoOn(Entry("sandbox", TRUE, "none", label, TRUE))
    <3> DEFINE entry == Entry("sandbox", TRUE, "none", label, TRUE)
    <3>1. entry \in Entries /\ Did(entry) = 0 /\ GoOn(entry) /\ Harmless(entry)
      BY <2>4, EntryType, DidType, HarmlessType
      DEF EntryTypes, Codes, StrikeCodes, CountedCodes
    <3> HIDE DEF entry
    <3> QED
      BY <2>1, <2>3, <3>1, GoesOn
  <2>5. CASE \E code \in SandboxCodes \ UnrunCodes : SandboxFails(label, code, TRUE)
    <3>1. SandboxCodes \subseteq Codes
      BY AgentAssumption DEF CountedCodes, RecoverableCodes, Codes
    <3> QED
      BY <1>9, <2>1, <2>3, <2>5, <3>1
  <2> QED
    BY <2>2, <2>4, <2>5
<1> QED
  BY <1>1, <1>2, <1>3, <1>4, <1>5, <1>6, <1>7, <1>8, <1>10, <1>11, <1>12, <1>13 DEF Command
-----------------------------------------------------------------------------
(* Types *)

ResultType == [over : BOOLEAN, ok : BOOLEAN, code : Codes]

LEMMA ReturnType ==
    ASSUME NEW ok \in BOOLEAN, NEW code \in Codes, NEW entries \in Seq(Entries),
           history \in Seq(Entries), Return(ok, code, entries)
    PROVE  pc' = "done" /\ history' \in Seq(Entries) /\ result' \in ResultType
BY DEF Return, ResultType

LEMMA FinishOnlyType ==
    ASSUME NEW code \in Codes
    PROVE  <<FinishEntry(code)>> \in Seq(Entries)
<1>1. FinishEntry(code) \in Entries
  BY FinishType
<1> QED
  BY <1>1

(* However a command ends, the record of the task keeps its type.            *)
LEMMA EndsType ==
    ASSUME TypeOK, Ends
    PROVE  /\ pc' \in {"check", "done"}
           /\ history' \in Seq(Entries)
           /\ result' \in ResultType
           /\ called' \in Nat
<1>1. \A entry \in Entries : Did(entry) \in Nat
  BY DEF Did
<1>2. history \in Seq(Entries) /\ result \in ResultType /\ called \in Nat
  BY Zenon DEF TypeOK, ResultType
<1>3. ASSUME NEW entry \in Entries, Goes(entry)
      PROVE  /\ pc' = "check" /\ history' \in Seq(Entries)
             /\ result' = result /\ called' \in Nat
  BY <1>1, <1>2, <1>3 DEF Goes, GoOn
<1>4. ASSUME NEW ok \in BOOLEAN, NEW code \in Codes, NEW entry \in Entries,
             Returns(ok, code, entry)
      PROVE  /\ pc' = "done" /\ history' \in Seq(Entries)
             /\ result' \in ResultType /\ called' \in Nat
  <2>1. <<entry>> \in Seq(Entries) /\ Return(ok, code, <<entry>>) /\ called' \in Nat
    BY <1>1, <1>2, <1>4 DEF Returns
  <2> QED
    BY <1>2, <2>1, ReturnType
<1>5. ASSUME NEW code \in Codes, NEW entry \in Entries, Gives(code, entry)
      PROVE  /\ pc' = "done" /\ history' \in Seq(Entries)
             /\ result' \in ResultType /\ called' \in Nat
  <2>1. FinishEntry(code) \in Entries
    BY FinishType
  <2>2. <<entry, FinishEntry(code)>> \in Seq(Entries)
    BY <2>1
  <2>3. Return(FALSE, code, <<entry, FinishEntry(code)>>) /\ called' \in Nat
    BY <1>2, <1>5, Zenon DEF Gives
  <2> QED
    BY <1>2, <2>2, <2>3, ReturnType
<1> QED
  BY <1>2, <1>3, <1>4, <1>5 DEF Ends

\* What TypeOK says of the counters, and of the rest.
CountType ==
    /\ attempt \in 0..3 /\ steps \in 0..MaxSteps
    /\ toolCalls \in Nat /\ codeRuns \in Nat /\ cost \in Nat /\ spent \in Nat

RecordType ==
    /\ history \in Seq(Entries) /\ result \in ResultType /\ called \in Nat

LEMMA TypeParts == TypeOK <=>
    /\ pc \in {"start", "check", "ask", "again", "act", "done", "raised"}
    /\ CountType /\ RecordType
    /\ found \subseteq Tools
BY Zenon DEF TypeOK, CountType, RecordType, ResultType

(* A planner call is paid for.                                               *)
LEMMA CallFacts ==
    ASSUME TypeOK, Call
    PROVE  /\ pc \in {"ask", "again"} /\ spent' \in Nat /\ cost' = spent'
           /\ \E c \in CallCosts : spent' = spent + c
<1>1. PICK c \in CallCosts : spent' = spent + c
  BY DEF Call
<1>2. spent' \in Nat
  BY <1>1, Numbers
<1> QED
  BY <1>1, <1>2 DEF Call

(* Every step keeps the types.                                               *)
LEMMA TypeStep ==
    ASSUME TypeOK, Step
    PROVE  TypeOK'
<1>0. /\ pc \in {"start", "check", "ask", "again", "act", "done", "raised"}
      /\ CountType /\ RecordType /\ found \subseteq Tools
  BY TypeParts
<1>1. ASSUME NEW code \in Codes, NEW end \in Codes, UNCHANGED found, CountType', called' = called,
             Return(FALSE, code, <<FinishEntry(end)>>)
      PROVE  TypeOK'
  <2>1. pc' = "done" /\ history' \in Seq(Entries) /\ result' \in ResultType
    BY <1>0, <1>1, FinishOnlyType, ReturnType DEF RecordType
  <2> QED
    BY <1>0, <1>1, <2>1, TypeParts DEF TypeOK, CountType, RecordType, ResultType
<1>2. ASSUME pc' \in {"check", "ask", "again", "act", "raised"}, UNCHANGED <<history, result>>,
             UNCHANGED found, CountType', called' \in Nat
      PROVE  TypeOK'
  BY <1>0, <1>2 DEF TypeOK, CountType, RecordType, ResultType
<1>3. UNCHANGED <<attempt, steps, counters, money>> => CountType'
  BY <1>0 DEF CountType, counters, money
<1>4. CASE Start
  <2>1. CountType' /\ UNCHANGED <<found, called>>
    BY <1>3, <1>4 DEF Start
  <2> QED
    BY <1>0, <1>1, <1>2, <1>4, <2>1 DEF Start, Raise, RecordType, Codes
<1>5. CASE BudgetOver
  <2>1. CountType' /\ UNCHANGED <<found, called>>
        /\ Return(FALSE, "budget_exceeded", <<FinishEntry(Exceeded)>>)
    BY <1>3, <1>5 DEF BudgetOver
  <2>2. Exceeded \in Codes /\ "budget_exceeded" \in Codes
    BY DEF Exceeded, Codes
  <2> QED
    BY <1>1, <2>1, <2>2
<1>6. CASE NextStep
  <2>1. /\ steps' = steps + 1 /\ attempt' = 1 /\ steps < MaxSteps
        /\ UNCHANGED <<toolCalls, codeRuns, cost, spent>>
    BY <1>6 DEF NextStep, Within, counters, money
  <2>2. steps' \in 0..MaxSteps
    <3>1. MaxSteps \in Nat /\ steps \in 0..MaxSteps
      BY <1>0, AgentAssumption, Zenon DEF CountType
    <3> QED
      BY <2>1, <3>1
  <2>3. attempt' \in 0..3
    BY <2>1
  <2>4. CountType'
    BY <1>0, <2>1, <2>2, <2>3, Zenon DEF CountType
  <2> QED
    BY <1>0, <1>2, <1>6, <2>4 DEF NextStep, RecordType
<1>7. ASSUME Call, attempt' \in 0..3, UNCHANGED <<steps, counters>> PROVE CountType'
  BY <1>0, <1>7, CallFacts DEF CountType, counters
<1>8. CASE Empty
  <2>1. CountType'
    BY <1>0, <1>7, <1>8 DEF Empty, CountType
  <2> QED
    BY <1>0, <1>2, <1>8, <2>1 DEF Empty, RecordType
<1>9. CASE Garbled
  <2>1. attempt' \in 0..3
    <3>1. attempt' = attempt \/ (attempt <= 2 /\ attempt' = attempt + 1)
      BY <1>9, Zenon DEF Garbled
    <3>2. attempt \in 0..3
      BY <1>0, Zenon DEF CountType
    <3> QED
      BY <3>1, <3>2
  <2>2. CountType' /\ UNCHANGED <<found, called>>
    BY <1>7, <1>9, <2>1 DEF Garbled
  <2>3. "planner_parse_error" \in Codes
    BY DEF Codes
  <2> QED
    BY <1>0, <1>1, <1>2, <1>9, <2>2, <2>3 DEF Garbled, RecordType
<1>10. CASE Answered
  <2>1. Call /\ attempt' = 0 /\ UNCHANGED <<steps, counters>>
    BY <1>10 DEF Answered
  <2>2. CountType'
    BY <1>7, <2>1
  <2> QED
    BY <1>0, <1>2, <1>10, <2>2 DEF Answered, RecordType
<1>11. CASE Command
  <2>1. pc = "act" /\ Ends /\ Counts
    BY <1>11, CommandFacts
  <2>2. /\ pc' \in {"check", "done"} /\ history' \in Seq(Entries)
        /\ result' \in ResultType /\ called' \in Nat
    BY <2>1, EndsType
  <2>3. PICK c \in CallCosts \cup {0} : spent' = spent + c
    BY <2>1 DEF Counts
  <2>4. CountType'
    BY <1>0, <2>1, <2>3, Numbers DEF Counts, CountType
  <2>5. found' \subseteq Tools
    BY <1>0, <1>11, HitsType DEF Command, SearchFinds, SearchFails, ToolRefused, ToolReturns,
       ToolRaises, Inspect, Finish, Fail, SandboxUnrun, SandboxRefused, SandboxUncounted,
       SandboxRuns
  <2> QED
    BY <2>2, <2>4, <2>5 DEF TypeOK, CountType, ResultType
<1>12. CASE SummaryRaises
  <2>1. PICK c \in CallCosts : spent' = spent + c
    BY <1>12 DEF SummaryRaises
  <2>2. /\ UNCHANGED <<attempt, steps, toolCalls, cost, found>>
        /\ codeRuns' \in {codeRuns, codeRuns + 1} /\ called' \in {called, called + 1}
        /\ pc' = "raised" /\ UNCHANGED <<history, result>>
    BY <1>12 DEF SummaryRaises, Raise
  <2>3. spent' \in Nat /\ codeRuns' \in Nat /\ called' \in Nat
    BY <2>1, <2>2, Numbers
  <2>4. CountType'
    BY <1>0, <2>2, <2>3 DEF CountType
  <2> QED
    BY <1>2, <2>2, <2>3, <2>4
<1>13. CASE Interrupted
  BY <1>0, <1>2, <1>3, <1>13 DEF Interrupted, Raise, RecordType
<1> QED
  BY <1>4, <1>5, <1>6, <1>8, <1>9, <1>10, <1>11, <1>12, <1>13 DEF Step, Planner

LEMMA TypeStutter ==
    ASSUME TypeOK, UNCHANGED vars
    PROVE  TypeOK'
BY DEF TypeOK, vars, counters, money

LEMMA TypeInit == Init => TypeOK
<1> SUFFICES ASSUME Init PROVE TypeOK
  OBVIOUS
<1>1. history \in Seq(Entries)
  BY DEF Init
<1>2. result \in [over : BOOLEAN, ok : BOOLEAN, code : Codes]
  BY DEF Init, Running, Codes
<1>3. /\ attempt \in 0..3 /\ steps \in 0..MaxSteps
      /\ toolCalls \in Nat /\ codeRuns \in Nat /\ cost \in Nat /\ spent \in Nat
      /\ called \in Nat
  BY AgentAssumption DEF Init
<1> QED
  BY <1>1, <1>2, <1>3 DEF Init, TypeOK

(* The state of a task is well-typed, for any tools, labels and limits.      *)
THEOREM TypeCorrect == Spec => []TypeOK
<1>1. TypeOK /\ [Step]_vars => TypeOK'
  BY TypeStep, TypeStutter
<1> QED
  BY <1>1, TypeInit, PTL DEF Spec

-----------------------------------------------------------------------------
(* Limits and records *)

Asking == pc \in {"ask", "again", "act"}
Going == Asking \/ pc \in {"start", "check"}

\* While the task goes on no call is uncounted; a command starts below the limits.
LimitInv ==
    /\ Going => called <= toolCalls /\ toolCalls <= MaxToolCalls /\ codeRuns <= MaxCodeRuns
    /\ Asking => toolCalls < MaxToolCalls /\ codeRuns < MaxCodeRuns
    /\ called <= MaxToolCalls /\ codeRuns <= MaxCodeRuns

\* The step the planner is asked for has no record yet.
RecordInv ==
    /\ pc \in {"start", "check"} => Len(history) = steps
    /\ Asking => Len(history) + 1 = steps
    /\ pc # "raised" => called = Cardinality(Started(history))

(* The steps other than commands, as far as calls and records go.            *)
Quiets ==
    /\ UNCHANGED <<called, counters>>
    /\ \/ pc = "start" /\ pc' = "check" /\ history' = history /\ steps' = steps
       \/ Within /\ pc = "check" /\ Asking' /\ history' = history /\ steps' = steps + 1
       \/ Asking /\ Asking' /\ history' = history /\ steps' = steps
       \/ pc' = "raised"
       \/ /\ Going /\ pc' = "done"
          /\ \E code \in Codes : history' = history \o <<FinishEntry(code)>>

LEMMA OtherFacts ==
    ASSUME TypeOK, Start \/ Planner \/ Interrupted
    PROVE  Quiets
<1>1. CASE Start
  BY <1>1 DEF Start, Return, Raise, Quiets, Going, Codes
<1>2. CASE BudgetOver
  <2>1. Exceeded \in Codes
    BY DEF Exceeded, Codes
  <2> QED
    BY <1>2, <2>1 DEF BudgetOver, Return, Quiets, Going
<1>3. CASE NextStep
  BY <1>3 DEF NextStep, Quiets, Asking
<1>4. CASE Empty
  BY <1>4 DEF Empty, Call, Quiets, Asking
<1>5. CASE Garbled
  BY <1>5 DEF Garbled, Call, Return, Quiets, Asking, Going, Codes
<1>6. CASE Answered
  BY <1>6 DEF Answered, Call, Quiets, Asking
<1>7. CASE Interrupted
  BY <1>7 DEF Interrupted, Raise, Quiets
<1> QED
  BY <1>1, <1>2, <1>3, <1>4, <1>5, <1>6, <1>7 DEF Planner

(* A record more is a tool more, if it is one of a tool that was started.    *)
LEMMA StartedAppend ==
    ASSUME NEW records \in Seq(Entries), NEW entry \in Entries
    PROVE  Cardinality(Started(Append(records, entry)))
             = Cardinality(Started(records)) + Did(entry)
<1> DEFINE n == Len(records)
           more == Append(records, entry)
<1>1. /\ n \in Nat /\ Len(more) = n + 1 /\ more[n + 1] = entry
      /\ \A i \in 1..n : more[i] = records[i]
  OBVIOUS
<1>2. IsFiniteSet(Started(records)) /\ n + 1 \notin Started(records)
  <2>1. Started(records) \in SUBSET (1..n) /\ IsFiniteSet(1..n)
    BY <1>1, FS_Interval DEF Started
  <2> QED
    BY <1>1, <2>1, FS_Subset
<1>3. Cardinality(Started(records)) \in Nat
  BY <1>2, FS_CardinalityType
<1> HIDE DEF more
<1>4. CASE entry.type = "tool" /\ entry.ran
  <2>1. Started(more) = Started(records) \cup {n + 1}
    BY <1>1, <1>4 DEF Started
  <2>2. Cardinality(Started(more)) = Cardinality(Started(records)) + 1
    BY <1>2, <2>1, FS_AddElement
  <2> QED
    BY <1>4, <2>2 DEF Did, more
<1>5. CASE ~(entry.type = "tool" /\ entry.ran)
  <2>1. Started(more) = Started(records)
    BY <1>1, <1>5 DEF Started
  <2> QED
    BY <1>3, <1>5, <2>1 DEF Did, more
<1> QED
  BY <1>4, <1>5

LEMMA FinishDid ==
    ASSUME NEW code
    PROVE  Did(FinishEntry(code)) = 0
BY DidType DEF FinishEntry

LEMMA LimitStep ==
    ASSUME TypeOK, LimitInv, Step
    PROVE  LimitInv'
<1>0. /\ MaxToolCalls \in Nat /\ MaxCodeRuns \in Nat /\ toolCalls \in Nat
      /\ codeRuns \in Nat /\ called \in Nat
  BY AgentAssumption, Numbers, Zenon
<1>1. CASE Start \/ Planner \/ Interrupted
  <2>1. Quiets
    BY <1>1, OtherFacts
  <2> QED
    BY <1>0, <2>1 DEF Quiets, LimitInv, Going, Asking, Within, counters
<1>2. CASE Command
  <2>1. pc = "act" /\ Ends /\ Counts
    BY <1>2, CommandFacts
  <2>2. /\ called <= toolCalls /\ toolCalls < MaxToolCalls /\ codeRuns < MaxCodeRuns
        /\ toolCalls' \in {toolCalls, toolCalls + 1} /\ codeRuns' \in {codeRuns, codeRuns + 1}
    BY <2>1 DEF LimitInv, Going, Asking, Counts
  <2>3. \A entry \in Entries : Did(entry) \in {0, 1}
    BY DEF Did
  <2>4. /\ toolCalls' <= MaxToolCalls /\ codeRuns' <= MaxCodeRuns
        /\ called + 1 <= MaxToolCalls
    BY <1>0, <2>2
  <2>5. CASE \E entry \in Entries : Goes(entry) /\ called' + toolCalls <= called + toolCalls'
    <3>1. PICK entry \in Entries : Goes(entry) /\ called' + toolCalls <= called + toolCalls'
      BY <2>5
    <3>2. called' \in Nat /\ called' <= toolCalls' /\ pc' = "check"
      BY <1>0, <2>2, <2>3, <3>1 DEF Goes, GoOn
    <3>3. called' <= MaxToolCalls
      BY <1>0, <2>2, <2>4, <3>2
    <3> QED
      BY <2>4, <3>2, <3>3 DEF LimitInv, Going, Asking
  <2>6. CASE \/ \E ok \in BOOLEAN, code \in Codes, entry \in Entries : Returns(ok, code, entry)
             \/ \E code \in Codes, entry \in Entries : Gives(code, entry)
    <3>1. called' = called \/ \E entry \in Entries : called' = called + Did(entry)
      BY <2>6, Zenon DEF Returns, Gives
    <3>2. pc' = "done"
      BY <2>6 DEF Returns, Gives, Return
    <3>3. called' <= MaxToolCalls
      BY <1>0, <2>3, <2>4, <3>1
    <3> QED
      BY <2>4, <3>2, <3>3 DEF LimitInv, Going, Asking
  <2> QED
    BY <2>1, <2>5, <2>6 DEF Ends
<1>3. CASE SummaryRaises
  <2>1. /\ pc = "act" /\ pc' = "raised"
        /\ codeRuns' \in {codeRuns, codeRuns + 1} /\ called' \in {called, called + 1}
    BY <1>3 DEF SummaryRaises, Raise
  <2> QED
    BY <1>0, <2>1 DEF LimitInv, Going, Asking
<1> QED
  BY <1>1, <1>2, <1>3 DEF Step

LEMMA RecordStep ==
    ASSUME TypeOK, RecordInv, Step
    PROVE  RecordInv'
<1>0. /\ history \in Seq(Entries) /\ steps \in Nat /\ called \in Nat
      /\ Len(history) \in Nat
  <2>1. history \in Seq(Entries)
    BY Zenon DEF TypeOK
  <2> QED
    BY <2>1, Numbers
<1>1. ASSUME NEW code \in Codes
      PROVE  /\ FinishEntry(code) \in Entries /\ Did(FinishEntry(code)) = 0
             /\ history \o <<FinishEntry(code)>> = Append(history, FinishEntry(code))
  <2>1. FinishEntry(code) \in Entries /\ Did(FinishEntry(code)) = 0
    BY FinishType, FinishDid
  <2> QED
    BY <1>0, <2>1
<1>2. CASE Start \/ Planner \/ Interrupted
  <2>1. Quiets
    BY <1>2, OtherFacts
  <2>2. CASE Going /\ pc' = "done" /\ \E code \in Codes : history' = history \o <<FinishEntry(code)>>
    <3>1. PICK code \in Codes : history' = Append(history, FinishEntry(code))
      BY <1>1, <2>2
    <3>2. Cardinality(Started(history')) = Cardinality(Started(history)) + 0
      BY <1>0, <1>1, <3>1, StartedAppend
    <3>3. called = Cardinality(Started(history)) /\ called' = called
      BY <2>1, <2>2 DEF Quiets, RecordInv, Going, Asking
    <3>4. called' = Cardinality(Started(history'))
      BY <1>0, <3>2, <3>3
    <3> QED
      BY <2>2, <3>4 DEF RecordInv, Asking
  <2> QED
    BY <1>0, <2>1, <2>2 DEF Quiets, RecordInv, Asking
<1>3. CASE Command
  <2>1. pc = "act" /\ Ends /\ steps' = steps
    BY <1>3, CommandFacts DEF Counts
  <2>2. Len(history) + 1 = steps /\ called = Cardinality(Started(history))
    BY <2>1 DEF RecordInv, Asking
  <2>3. ASSUME NEW entry \in Entries, history' = Append(history, entry),
               called' = called + Did(entry)
        PROVE  Len(history') = steps' /\ called' = Cardinality(Started(history'))
    BY <1>0, <2>1, <2>2, <2>3, StartedAppend
  <2>4. ASSUME NEW entry \in Entries, Goes(entry) PROVE RecordInv'
    BY <2>3, <2>4 DEF Goes, GoOn, RecordInv, Asking
  <2>5. ASSUME NEW ok \in BOOLEAN, NEW code \in Codes, NEW entry \in Entries,
               Returns(ok, code, entry)
        PROVE  RecordInv'
    <3>1. /\ history' = history \o <<entry>> /\ called' = called + Did(entry)
          /\ pc' = "done"
      BY <2>5 DEF Returns, Return
    <3>2. history \o <<entry>> = Append(history, entry)
      BY <1>0
    <3> QED
      BY <2>3, <3>1, <3>2 DEF RecordInv, Asking
  <2>6. ASSUME NEW code \in Codes, NEW entry \in Entries, Gives(code, entry)
        PROVE  RecordInv'
    <3>1. /\ history' = history \o <<entry, FinishEntry(code)>> /\ called' = called
          /\ Did(entry) = 0 /\ pc' = "done"
      BY <2>6 DEF Gives, Return
    <3>2. /\ history' = Append(Append(history, entry), FinishEntry(code))
          /\ Append(history, entry) \in Seq(Entries)
      BY <1>0, <1>1, <3>1
    <3>3. /\ Cardinality(Started(Append(history, entry))) = called + 0
          /\ Cardinality(Started(history')) = Cardinality(Started(Append(history, entry))) + 0
      BY <1>0, <1>1, <2>2, <3>1, <3>2, StartedAppend
    <3>4. called' = Cardinality(Started(history'))
      BY <1>0, <3>1, <3>3
    <3> QED
      BY <3>1, <3>4 DEF RecordInv, Asking
  <2> QED
    BY <2>1, <2>4, <2>5, <2>6 DEF Ends
<1>4. CASE SummaryRaises
  BY <1>4 DEF SummaryRaises, Raise, RecordInv, Asking
<1> QED
  BY <1>2, <1>3, <1>4 DEF Step

-----------------------------------------------------------------------------
(* Cost *)

LEMMA DearestFacts ==
    /\ Dearest \in Nat
    /\ \A c \in CallCosts \cup {0} : c \in Nat /\ c <= Dearest
<1>1. CallCosts \subseteq Nat /\ \E c \in CallCosts : \A d \in CallCosts : d <= c
  BY AgentAssumption, Zenon
<1>2. Dearest \in CallCosts /\ \A d \in CallCosts : d <= Dearest
  BY <1>1, Zenon DEF Dearest
<1> QED
  BY <1>1, <1>2

\* What the attempts up to this one cost at most: each is two calls.
Calls(n) ==
    IF n = 1 THEN 2 * Dearest ELSE IF n = 2 THEN 4 * Dearest ELSE 6 * Dearest

\* What may have been spent at each place of the loop: the loop was below the limit
\* when the step began, but for one summary.
CostInv ==
    /\ pc = "start" => spent = 0 /\ cost = 0
    /\ pc = "check" => spent <= cost + Dearest
    /\ pc \in {"ask", "again"} => attempt \in 1..3
    /\ pc = "ask" => spent + 2 * Dearest < MaxCost + Dearest + Calls(attempt)
    /\ pc = "again" => spent + Dearest < MaxCost + Dearest + Calls(attempt)
    /\ pc = "act" => cost = spent /\ spent < MaxCost + 7 * Dearest
    /\ OvershootBounded

LEMMA CostStep ==
    ASSUME TypeOK, CostInv, Step
    PROVE  CostInv'
<1>0. Dearest \in Nat /\ MaxCost \in Nat /\ spent \in Nat /\ cost \in Nat
  BY DearestFacts, Numbers, AgentAssumption, Zenon
<1>1. CASE Start
  <2>1. pc = "start" /\ spent' = spent /\ cost' = cost /\ pc' \in {"check", "done", "raised"}
    BY <1>1 DEF Start, Return, Raise, money
  <2>2. spent' = 0 /\ spent' <= cost' + Dearest
    BY <1>0, <2>1 DEF CostInv
  <2> QED
    BY <2>1, <2>2 DEF CostInv, OvershootBounded
<1>2. CASE BudgetOver \/ Interrupted
  <2>1. spent' = spent /\ pc' \in {"done", "raised"}
    BY <1>2 DEF BudgetOver, Interrupted, Return, Raise, money
  <2> QED
    BY <2>1 DEF CostInv, OvershootBounded
<1>3. CASE NextStep
  <2>1. /\ pc = "check" /\ pc' = "ask" /\ attempt' = 1 /\ spent' = spent /\ cost < MaxCost
    BY <1>3 DEF NextStep, Within, money
  <2>2. spent <= cost + Dearest /\ OvershootBounded
    BY <2>1 DEF CostInv
  <2>3. spent + 2 * Dearest < MaxCost + Dearest + Calls(1)
    BY <1>0, <2>1, <2>2 DEF Calls
  <2> QED
    BY <2>1, <2>2, <2>3 DEF CostInv, OvershootBounded
<1>4. ASSUME Call
      PROVE  /\ attempt \in 1..3 /\ cost' = spent' /\ spent' \in Nat
             /\ pc = "ask" => spent' + Dearest < MaxCost + Dearest + Calls(attempt)
             /\ spent' < MaxCost + Dearest + Calls(attempt)
             /\ spent' < MaxCost + 7 * Dearest
  <2>1. PICK c \in CallCosts : spent' = spent + c
    BY <1>4, CallFacts
  <2>2. pc \in {"ask", "again"} /\ cost' = spent'
    BY <1>4, CallFacts
  <2>3. /\ attempt \in 1..3
        /\ pc = "ask" => spent + 2 * Dearest < MaxCost + Dearest + Calls(attempt)
        /\ pc = "again" => spent + Dearest < MaxCost + Dearest + Calls(attempt)
    BY <2>2 DEF CostInv
  <2>4. c \in Nat /\ c <= Dearest
    BY DearestFacts
  <2>5. Calls(attempt) \in Nat /\ Calls(attempt) <= 6 * Dearest
    BY <1>0 DEF Calls
  <2>6. /\ spent' \in Nat
        /\ pc = "ask" => spent' + Dearest < MaxCost + Dearest + Calls(attempt)
        /\ spent' < MaxCost + Dearest + Calls(attempt)
    <3>1. spent' <= spent + Dearest /\ spent' \in Nat
      BY <1>0, <2>1, <2>4
    <3>2. pc = "ask" => spent' + Dearest < MaxCost + Dearest + Calls(attempt)
      BY <1>0, <2>3, <2>5, <3>1
    <3>3. \/ spent + 2 * Dearest < MaxCost + Dearest + Calls(attempt)
          \/ spent + Dearest < MaxCost + Dearest + Calls(attempt)
      BY <2>2, <2>3, Zenon
    <3>4. spent' < MaxCost + Dearest + Calls(attempt)
      BY <1>0, <2>5, <3>1, <3>3
    <3> QED
      BY <3>1, <3>2, <3>4
  <2>7. spent' < MaxCost + 7 * Dearest
    BY <1>0, <2>5, <2>6
  <2> QED
    BY <2>2, <2>3, <2>6, <2>7
<1>5. CASE Empty
  <2>1. pc = "ask" /\ pc' = "again" /\ attempt' = attempt /\ Call
    BY <1>5 DEF Empty
  <2>2. spent' < MaxCost + 8 * Dearest
    <3>1. spent' \in Nat /\ spent' < MaxCost + 7 * Dearest
      BY <1>4, <2>1, Zenon
    <3> QED
      BY <1>0, <3>1
  <2>3. /\ attempt' \in 1..3
        /\ spent' + Dearest < MaxCost + Dearest + Calls(attempt')
    BY <1>4, <2>1
  <2> QED
    BY <2>1, <2>2, <2>3 DEF CostInv, OvershootBounded
<1>6. CASE Garbled
  <2>1. Call
    BY <1>6 DEF Garbled
  <2>2. spent' < MaxCost + 8 * Dearest
    BY <1>0, <1>4, <2>1
  <2>3. CASE attempt <= 2 /\ attempt' = attempt + 1 /\ pc' = "ask"
    <3>1. attempt' \in 1..3 /\ Calls(attempt') = Calls(attempt) + 2 * Dearest
      BY <1>0, <1>4, <2>1, <2>3 DEF Calls
    <3>2. Calls(attempt) \in Nat
      BY <1>0 DEF Calls
    <3>3. spent' + 2 * Dearest < MaxCost + Dearest + Calls(attempt')
      BY <1>0, <1>4, <2>1, <3>1, <3>2
    <3> QED
      BY <2>2, <2>3, <3>1, <3>3 DEF CostInv, OvershootBounded
  <2>4. CASE pc' = "done"
    BY <2>2, <2>4 DEF CostInv, OvershootBounded
  <2> QED
    BY <1>6, <2>3, <2>4 DEF Garbled, Return
<1>7. CASE Answered
  <2>1. Call /\ pc' = "act"
    BY <1>7 DEF Answered
  <2>2. spent' < MaxCost + 8 * Dearest
    BY <1>0, <1>4, <2>1
  <2> QED
    BY <1>4, <2>1, <2>2 DEF CostInv, OvershootBounded
<1>8. CASE Command \/ SummaryRaises
  <2>1. /\ pc = "act" /\ pc' \in {"check", "done", "raised"} /\ cost' = cost
        /\ \E c \in CallCosts \cup {0} : spent' = spent + c
    <3>1. CASE Command
      BY <3>1, CommandFacts, EndsType DEF Counts
    <3>2. CASE SummaryRaises
      BY <3>2 DEF SummaryRaises, Raise
    <3> QED
      BY <1>8, <3>1, <3>2
  <2>2. PICK c \in CallCosts \cup {0} : spent' = spent + c
    BY <2>1
  <2>3. cost = spent /\ spent < MaxCost + 7 * Dearest
    BY <2>1 DEF CostInv
  <2>4. c \in Nat /\ c <= Dearest
    BY DearestFacts
  <2>5. spent' <= cost' + Dearest /\ spent' < MaxCost + 8 * Dearest
    BY <1>0, <2>1, <2>2, <2>3, <2>4
  <2> QED
    BY <2>1, <2>5 DEF CostInv, OvershootBounded
<1> QED
  BY <1>1, <1>2, <1>3, <1>5, <1>6, <1>7, <1>8 DEF Step, Planner

-----------------------------------------------------------------------------
(* Strikes *)

\* Each failure came twice at most while the task goes on.
StrikeInv ==
    \A label \in Labels, code \in StrikeCodes :
        /\ Cardinality(Strikes(history, label, code)) <= 3
        /\ Going => Cardinality(Strikes(history, label, code)) <= 2

\* Whether a record is of that failure.
Hit(entry, label, code) ==
    IF entry.type = "sandbox" /\ entry.code = code /\ entry.label = label THEN 1 ELSE 0

LEMMA StrikesAppend ==
    ASSUME NEW records \in Seq(Entries), NEW entry \in Entries, NEW label, NEW code
    PROVE  Cardinality(Strikes(Append(records, entry), label, code))
             = Cardinality(Strikes(records, label, code)) + Hit(entry, label, code)
<1> DEFINE n == Len(records)
           more == Append(records, entry)
<1>1. /\ n \in Nat /\ Len(more) = n + 1 /\ more[n + 1] = entry
      /\ \A i \in 1..n : more[i] = records[i]
  OBVIOUS
<1>2. /\ IsFiniteSet(Strikes(records, label, code))
      /\ Cardinality(Strikes(records, label, code)) \in Nat
      /\ n + 1 \notin Strikes(records, label, code)
  <2>1. n + 1 \notin Strikes(records, label, code)
    BY <1>1 DEF Strikes
  <2> QED
    BY <2>1, StrikesCount, Zenon
<1> HIDE DEF more
<1>3. CASE Hit(entry, label, code) = 1
  <2>1. Strikes(more, label, code) = Strikes(records, label, code) \cup {n + 1}
    BY <1>1, <1>3 DEF Strikes, Hit
  <2>2. Cardinality(Strikes(more, label, code)) = Cardinality(Strikes(records, label, code)) + 1
    BY <1>2, <2>1, FS_AddElement
  <2> QED
    BY <1>3, <2>2 DEF more
<1>4. CASE Hit(entry, label, code) = 0
  <2>1. Strikes(more, label, code) = Strikes(records, label, code)
    BY <1>1, <1>4 DEF Strikes, Hit
  <2> QED
    BY <1>2, <1>4, <2>1 DEF more
<1> QED
  BY <1>3, <1>4 DEF Hit

LEMMA StrikeStep ==
    ASSUME TypeOK, StrikeInv, Step
    PROVE  StrikeInv'
<1> SUFFICES ASSUME NEW label \in Labels, NEW code \in StrikeCodes
             PROVE  /\ Cardinality(Strikes(history', label, code)) <= 3
                    /\ Going' => Cardinality(Strikes(history', label, code)) <= 2
  BY DEF StrikeInv
<1> DEFINE strikes(records) == Cardinality(Strikes(records, label, code))
<1>0. /\ history \in Seq(Entries) /\ strikes(history) \in Nat
      /\ strikes(history) <= 3
      /\ Going => strikes(history) <= 2
  <2>1. history \in Seq(Entries)
    BY Zenon DEF TypeOK
  <2> QED
    BY <2>1, StrikesCount DEF StrikeInv
<1>1. \A records \in Seq(Entries), entry \in Entries :
         strikes(Append(records, entry)) = strikes(records) + Hit(entry, label, code)
  BY StrikesAppend
<1>2. \A entry \in Entries : Hit(entry, label, code) \in {0, 1}
  BY DEF Hit
<1>3. \A end \in Codes : FinishEntry(end) \in Entries /\ Hit(FinishEntry(end), label, code) = 0
  BY FinishType DEF FinishEntry, Entry, Hit
<1> HIDE DEF strikes
<1>4. ASSUME NEW records \in Seq(Entries), NEW end \in Codes
      PROVE  /\ records \o <<FinishEntry(end)>> = Append(records, FinishEntry(end))
             /\ strikes(Append(records, FinishEntry(end))) = strikes(records) + 0
  <2>1. FinishEntry(end) \in Entries
    BY <1>3
  <2> QED
    BY <1>1, <1>3, <2>1
<1>5. CASE Start \/ Planner \/ Interrupted
  <2>1. Quiets
    BY <1>5, OtherFacts
  <2>2. CASE history' = history /\ Going
    BY <1>0, <2>2 DEF strikes
  <2>3. CASE Going /\ pc' = "done" /\ \E end \in Codes : history' = history \o <<FinishEntry(end)>>
    <3>1. strikes(history') = strikes(history) + 0
      BY <1>0, <1>4, <2>3
    <3>2. strikes(history') <= 2 /\ strikes(history') <= 3
      <4>1. strikes(history) <= 2
        BY <1>0, <2>3, Zenon
      <4> QED
        BY <1>0, <3>1, <4>1
    <3> QED
      BY <3>2 DEF strikes
  <2>4. CASE pc' = "raised" /\ history' = history
    BY <1>0, <2>4 DEF strikes, Going, Asking
  <2>5. pc' = "raised" => history' = history
    BY <1>5 DEF Start, Planner, BudgetOver, NextStep, Empty, Garbled, Answered, Interrupted,
       Raise, Return
  <2> QED
    BY <2>1, <2>2, <2>3, <2>4, <2>5 DEF Quiets, Going, Asking
<1>6. CASE Command
  <2>1. pc = "act" /\ Ends
    BY <1>6, CommandFacts
  <2>2. strikes(history) <= 2
    BY <1>0, <2>1 DEF Going, Asking
  <2>3. ASSUME NEW entry \in Entries, Goes(entry) PROVE strikes(history') <= 2
    <3>1. history' = Append(history, entry) /\ Harmless(entry)
      BY <2>3 DEF Goes, GoOn
    <3>2. strikes(history') = strikes(history) + Hit(entry, label, code)
      BY <1>0, <1>1, <3>1
    <3>3. Hit(entry, label, code) = 1 => strikes(history) < 2
      BY <3>1 DEF Hit, Harmless, strikes
    <3> QED
      BY <1>0, <1>2, <2>2, <3>2, <3>3
  <2>4. ASSUME NEW ok \in BOOLEAN, NEW end \in Codes, NEW entry \in Entries,
               Returns(ok, end, entry)
        PROVE  pc' = "done" /\ strikes(history') <= 3
    <3>1. history' = Append(history, entry) /\ pc' = "done"
      <4>1. history \o <<entry>> = Append(history, entry)
        BY <1>0
      <4> QED
        BY <2>4, <4>1 DEF Returns, Return
    <3>2. strikes(history') = strikes(history) + Hit(entry, label, code)
      BY <1>0, <1>1, <3>1
    <3> QED
      BY <1>0, <1>2, <2>2, <3>1, <3>2
  <2>5. ASSUME NEW end \in Codes, NEW entry \in Entries, Gives(end, entry)
        PROVE  pc' = "done" /\ strikes(history') <= 3
    <3>1. history' = history \o <<entry, FinishEntry(end)>> /\ pc' = "done"
      BY <2>5 DEF Gives, Return
    <3>2. /\ history' = Append(Append(history, entry), FinishEntry(end))
          /\ Append(history, entry) \in Seq(Entries)
      BY <1>0, <1>3, <3>1
    <3>3. /\ strikes(Append(history, entry)) = strikes(history) + Hit(entry, label, code)
          /\ strikes(history') = strikes(Append(history, entry)) + 0
      BY <1>0, <1>1, <1>4, <3>2
    <3> QED
      BY <1>0, <1>2, <2>2, <3>1, <3>3
  <2>6. strikes(history') <= 3 /\ (pc' = "done" \/ strikes(history') <= 2)
    <3>1. strikes(history') <= 2 => strikes(history') <= 3
      <4>1. history' \in Seq(Entries)
        BY <2>1, EndsType
      <4>2. strikes(history') \in Nat
        BY <4>1, StrikesCount DEF strikes
      <4> QED
        BY <4>2
    <3> QED
      BY <2>1, <2>3, <2>4, <2>5, <3>1, Zenon DEF Ends
  <2> QED
    BY <2>6 DEF strikes, Going, Asking
<1>7. CASE SummaryRaises
  <2>1. history' = history /\ pc' = "raised"
    BY <1>7 DEF SummaryRaises, Raise
  <2> QED
    BY <1>0, <2>1 DEF strikes, Going, Asking
<1> QED
  BY <1>5, <1>6, <1>7 DEF Step

-----------------------------------------------------------------------------
(* Theorems *)

LEMMA LimitInit == Init => LimitInv
<1> SUFFICES ASSUME Init PROVE LimitInv
  OBVIOUS
<1>1. MaxToolCalls \in Nat /\ MaxCodeRuns \in Nat
  BY AgentAssumption, Zenon
<1> QED
  BY <1>1 DEF Init, LimitInv, Going, Asking

LEMMA RecordInit == Init => RecordInv
<1> SUFFICES ASSUME Init PROVE RecordInv
  OBVIOUS
<1>1. Started(history) = {} /\ Len(history) = 0
  BY DEF Init, Started
<1> QED
  BY <1>1, FS_EmptySet DEF Init, RecordInv, Asking

LEMMA StrikeInit == Init => StrikeInv
<1> SUFFICES ASSUME Init, NEW label, NEW code
             PROVE  Cardinality(Strikes(history, label, code)) = 0
  BY DEF StrikeInv
<1>1. Strikes(history, label, code) = {}
  BY DEF Init, Strikes
<1> QED
  BY <1>1, FS_EmptySet

LEMMA CostInit == Init => CostInv
BY DEF Init, CostInv, OvershootBounded

LEMMA Stutter ==
    ASSUME UNCHANGED vars
    PROVE  /\ LimitInv => LimitInv'
           /\ RecordInv => RecordInv'
           /\ CostInv => CostInv'
           /\ StrikeInv => StrikeInv'
BY DEF vars, counters, money, LimitInv, RecordInv, CostInv, Going, Asking, Started,
       OvershootBounded, StrikeInv, Strikes

(* No more tools are called, and no more code is run, than the budget of the *)
(* task allows, for any limits and whatever the planner asks for.            *)
THEOREM BudgetCorrect == Spec => []BudgetKept
<1>1. TypeOK /\ LimitInv /\ [Step]_vars => LimitInv'
  BY LimitStep, Stutter
<1>2. TypeOK /\ LimitInv => BudgetKept
  <2>1. MaxSteps \in Nat
    BY AgentAssumption, Zenon
  <2>2. TypeOK => steps \in 0..MaxSteps
    BY Zenon DEF TypeOK
  <2> QED
    BY <2>1, <2>2 DEF LimitInv, BudgetKept
<1> QED
  BY <1>1, <1>2, TypeCorrect, LimitInit, PTL DEF Spec

(* Each step of a task that goes on has its record, and so has every tool    *)
(* that was started, unless an exception ended the task.                     *)
THEOREM RecordsCorrect == Spec => []EveryStepRecorded
<1>1. TypeOK /\ RecordInv /\ [Step]_vars => RecordInv'
  BY RecordStep, Stutter
<1>2. RecordInv => EveryStepRecorded
  BY DEF RecordInv, EveryStepRecorded
<1> QED
  BY <1>1, <1>2, TypeCorrect, RecordInit, PTL DEF Spec

(* A limit on cost is overshot by less than eight of the dearest calls.      *)
THEOREM CostCorrect == Spec => []OvershootBounded
<1>1. TypeOK /\ CostInv /\ [Step]_vars => CostInv'
  BY CostStep, Stutter
<1>2. CostInv => OvershootBounded
  BY DEF CostInv
<1> QED
  BY <1>1, <1>2, TypeCorrect, CostInit, PTL DEF Spec

(* The same failure of sandbox code comes three times at most under a label, *)
(* for any labels and failures.                                              *)
THEOREM StrikesCorrect == Spec => []ThreeStrikes
<1>1. TypeOK /\ StrikeInv /\ [Step]_vars => StrikeInv'
  BY StrikeStep, Stutter
<1>2. StrikeInv => ThreeStrikes
  <2> SUFFICES ASSUME StrikeInv, NEW label \in Labels, NEW code \in StrikeCodes
               PROVE  Cardinality(Earlier(label, code)) <= 3
    BY DEF ThreeStrikes, StrikeCodes
  <2>1. label # Unlabelled
    BY AgentAssumption, Zenon
  <2>2. Earlier(label, code) = Strikes(history, label, code)
    BY <2>1 DEF Earlier, LookedFor, Strikes
  <2> QED
    BY <2>2 DEF StrikeInv
<1> QED
  BY <1>1, <1>2, TypeCorrect, StrikeInit, PTL DEF Spec

-----------------------------------------------------------------------------
(* The tool cache *)

\* The tools of a sequence, and that none is there twice.
Elems(s) == {s[i] : i \in 1..Len(s)}

Distinct(s) == \A i, j \in 1..Len(s) : s[i] = s[j] => i = j

(* Induction over a set of numbers: the least number outside would follow    *)
(* one inside.                                                               *)
LEMMA SetInduction ==
    ASSUME NEW G \in SUBSET Nat, 0 \in G, \A n \in G : n + 1 \in G
    PROVE  G = Nat
<1> SUFFICES ASSUME Nat \ G # {} PROVE FALSE
  OBVIOUS
<1> DEFINE Below == {pair \in Nat \X Nat : pair[1] < pair[2]}
<1>1. IsWellFoundedOn(Below, Nat)
  BY NatLessThanWellFounded DEF OpToRel
<1>2. PICK m \in Nat \ G : \A k \in Nat \ G : ~ (<<k, m>> \in Below)
  <2> HIDE DEF Below
  <2> DEFINE T == Nat \ G
  <2>1. T \subseteq Nat /\ T # {}
    OBVIOUS
  <2> HIDE DEF T
  <2>2. \E m \in T : \A k \in T : ~ (<<k, m>> \in Below)
    BY <1>1, <2>1, WFMin
  <2> QED
    BY <2>2 DEF T
<1>3. m # 0 /\ m - 1 \in Nat
  BY <1>2
<1>4. <<m - 1, m>> \in Below
  BY <1>2, <1>3
<1>5. m - 1 \in G
  BY <1>2, <1>3, <1>4
<1>6. (m - 1) + 1 = m
  BY <1>2, <1>3
<1> QED
  BY <1>2, <1>5, <1>6

(* Adding a tool keeps the others, and doubles none.                         *)
LEMMA AddedFacts ==
    ASSUME NEW s \in Seq(Tools), NEW t \in Tools
    PROVE  /\ Added(s, t) \in Seq(Tools)
           /\ Elems(Added(s, t)) = Elems(s) \cup {t}
           /\ Distinct(s) => Distinct(Added(s, t))
<1>1. CASE \E i \in 1..Len(s) : s[i] = t
  <2>1. Added(s, t) = s
    BY <1>1 DEF Added
  <2>2. t \in Elems(s)
    BY <1>1 DEF Elems
  <2> QED
    BY <2>1, <2>2
<1>2. CASE ~ \E i \in 1..Len(s) : s[i] = t
  <2> DEFINE more == Append(s, t)
  <2>1. Added(s, t) = more
    BY <1>2 DEF Added
  <2>2. /\ more \in Seq(Tools) /\ Len(s) \in Nat /\ Len(more) = Len(s) + 1
        /\ more[Len(s) + 1] = t
        /\ \A i \in 1..Len(s) : more[i] = s[i]
    OBVIOUS
  <2> HIDE DEF more
  <2>3. Elems(more) = Elems(s) \cup {t}
    <3>1. 1..Len(more) = 1..Len(s) \cup {Len(s) + 1}
      BY <2>2
    <3>2. Elems(more) \subseteq Elems(s) \cup {t}
      BY <2>2, <3>1 DEF Elems
    <3>3. Elems(s) \cup {t} \subseteq Elems(more)
      BY <2>2, <3>1 DEF Elems
    <3> QED
      BY <3>2, <3>3
  <2>4. Distinct(s) => Distinct(more)
    BY <1>2, <2>2 DEF Distinct
  <2> QED
    BY <2>1, <2>2, <2>3, <2>4
<1> QED
  BY <1>1, <1>2

\* The loop of merge_search_results after n results.
Course(s, hits, n, f) ==
    /\ f \in [0..n -> Seq(Tools)]
    /\ f[0] = s
    /\ \A k \in 1..n : f[k] = Added(f[k - 1], hits[k])

(* The loop of merge_search_results has a course, for any number of results. *)
LEMMA MergedExists ==
    ASSUME NEW s \in Seq(Tools), NEW hits \in Seq(Tools)
    PROVE  \E f : f = [n \in 0..Len(hits) |-> IF n = 0 THEN s ELSE Added(f[n - 1], hits[n])]
<1> DEFINE G == {n \in Nat : n <= Len(hits) => \E f : Course(s, hits, n, f)}
<1>0. Len(hits) \in Nat
  OBVIOUS
<1>1. 0 \in G
  <2>1. Course(s, hits, 0, [k \in 0..0 |-> s])
    BY DEF Course
  <2> QED
    BY <2>1
<1>2. ASSUME NEW n \in G PROVE n + 1 \in G
  <2>1. n \in Nat
    OBVIOUS
  <2> SUFFICES ASSUME n + 1 <= Len(hits) PROVE \E f : Course(s, hits, n + 1, f)
    BY <2>1
  <2>2. PICK f : Course(s, hits, n, f)
    BY <1>0, <2>1
  <2> DEFINE g == [k \in 0..(n + 1) |-> IF k <= n THEN f[k] ELSE Added(f[n], hits[n + 1])]
  <2>3. f[n] \in Seq(Tools) /\ hits[n + 1] \in Tools
    <3>1. n + 1 \in 1..Len(hits)
      BY <1>0, <2>1
    <3> QED
      BY <2>1, <2>2, <3>1, ElementOfSeq DEF Course
  <2>4. Added(f[n], hits[n + 1]) \in Seq(Tools)
    BY <2>3, AddedFacts
  <2>5. g \in [0..(n + 1) -> Seq(Tools)]
    BY <2>1, <2>2, <2>4 DEF Course
  <2>6. g[0] = s
    BY <2>1, <2>2 DEF Course
  <2>7. ASSUME NEW k \in 1..(n + 1) PROVE g[k] = Added(g[k - 1], hits[k])
    <3>1. k - 1 \in 0..n /\ g[k - 1] = f[k - 1]
      BY <2>1
    <3>2. CASE k <= n
      BY <2>1, <2>2, <3>1, <3>2 DEF Course
    <3>3. CASE k = n + 1
      BY <2>1, <3>1, <3>3
    <3> QED
      BY <2>1, <3>2, <3>3
  <2>8. Course(s, hits, n + 1, g)
    BY <2>5, <2>6, <2>7 DEF Course
  <2> QED
    BY <2>8
<1>3. G = Nat
  <2>1. G \in SUBSET Nat
    OBVIOUS
  <2> HIDE DEF G
  <2> QED
    BY <1>1, <1>2, <2>1, SetInduction
<1>4. PICK f : Course(s, hits, Len(hits), f)
  BY <1>0, <1>3
<1>5. f = [n \in 0..Len(hits) |-> IF n = 0 THEN s ELSE Added(f[n - 1], hits[n])]
  <2>1. \A n \in 0..Len(hits) : f[n] = IF n = 0 THEN s ELSE Added(f[n - 1], hits[n])
    BY <1>0, <1>4 DEF Course
  <2> QED
    BY <1>4, <2>1 DEF Course
<1> QED
  BY <1>5

(* A sequence in which nothing is twice is no longer than a set that holds   *)
(* all of it.                                                                *)
LEMMA DistinctFits ==
    ASSUME NEW s \in Seq(Tools), Distinct(s), NEW F, IsFiniteSet(F), Elems(s) \subseteq F
    PROVE  Len(s) <= Cardinality(F)
<1>1. Len(s) \in Nat /\ Cardinality(F) \in Nat
  BY FS_CardinalityType
<1>2. IsFiniteSet(1..Len(s)) /\ Cardinality(1..Len(s)) = Len(s)
  <2>1. /\ IsFiniteSet(1..Len(s))
        /\ Cardinality(1..Len(s)) = IF 1 > Len(s) THEN 0 ELSE Len(s) - 1 + 1
    <3>1. 1 \in Int /\ Len(s) \in Int
      BY <1>1
    <3> QED
      BY <3>1, FS_Interval
  <2> QED
    BY <1>1, <2>1
<1>3. s \in [1..Len(s) -> F]
  <2>1. s \in [1..Len(s) -> Tools]
    BY LenProperties
  <2>2. \A i \in 1..Len(s) : s[i] \in F
    BY DEF Elems
  <2> QED
    BY <2>1, <2>2
<1>4. CASE Cardinality(F) < Len(s)
  <2>1. \E i, j \in 1..Len(s) : i # j /\ s[i] = s[j]
    BY <1>2, <1>3, <1>4, FS_PigeonHole
  <2> QED
    BY <2>1 DEF Distinct
<1> QED
  BY <1>1, <1>4

(* What _trim_context_for_llm leaves: all of it when it fits.                *)
LEMMA TrimFacts ==
    ASSUME NEW s \in Seq(Tools)
    PROVE  /\ Trim(s) \in Seq(Tools)
           /\ Len(Trim(s)) <= CacheSize
           /\ Elems(Trim(s)) \subseteq Elems(s)
           /\ Distinct(s) => Distinct(Trim(s))
           /\ Len(s) <= CacheSize => Trim(s) = s
<1>0. CacheSize \in Nat /\ Len(s) \in Nat
  <2>1. CacheSize \in Nat
    BY AgentAssumption, Zenon
  <2> QED
    BY <2>1
<1>1. CASE Len(s) <= CacheSize
  <2>1. Trim(s) = s
    BY <1>0, <1>1 DEF Trim
  <2> QED
    BY <1>1, <2>1
<1>2. CASE Len(s) > CacheSize
  <2> DEFINE from == Len(s) - CacheSize + 1
             rest == SubSeq(s, from, Len(s))
  <2>0. from \in Int /\ from >= 1
    BY <1>0, <1>2
  <2>1. Trim(s) = rest
    BY <1>2 DEF Trim
  <2>2. \A i \in from..Len(s) : s[i] \in Tools
    BY <1>0, <2>0, ElementOfSeq
  <2>3. /\ rest \in Seq(Tools)
        /\ Len(rest) = IF from <= Len(s) THEN Len(s) - from + 1 ELSE 0
        /\ \A i \in 1..(Len(s) - from + 1) : rest[i] = s[from + i - 1]
    <3> HIDE DEF from
    <3> QED
      BY <1>0, <2>0, <2>2, SubSeqProperties
  <2>4. Len(s) - from + 1 = CacheSize /\ Len(rest) = CacheSize
    BY <1>0, <2>3
  <2>5. \A i \in 1..CacheSize : from + i - 1 \in 1..Len(s) /\ rest[i] = s[from + i - 1]
    BY <1>0, <1>2, <2>3, <2>4
  <2>6. Elems(rest) \subseteq Elems(s)
    <3> HIDE DEF from, rest
    <3> QED
      BY <2>4, <2>5 DEF Elems
  <2>7. Distinct(s) => Distinct(rest)
    <3> SUFFICES ASSUME Distinct(s), NEW i \in 1..CacheSize, NEW j \in 1..CacheSize,
                        rest[i] = rest[j]
                 PROVE  i = j
      BY <2>4 DEF Distinct
    <3> HIDE DEF rest, from
    <3>1. from + i - 1 = from + j - 1
      BY <2>5 DEF Distinct
    <3> QED
      BY <1>0, <2>0, <3>1
  <2> QED
    BY <1>0, <1>2, <2>1, <2>3, <2>4, <2>6, <2>7
<1> QED
  BY <1>0, <1>1, <1>2

\* The cache s with the first n results.
With(s, hits, n, m) ==
    /\ m \in Seq(Tools)
    /\ Distinct(m)
    /\ Elems(m) = Elems(s) \cup {hits[i] : i \in 1..n}

(* The results of a search are merged into the cache: it doubles nothing,    *)
(* holds nothing else, and loses nothing that fits.                          *)
LEMMA MergeFacts ==
    ASSUME NEW s \in Seq(Tools), Distinct(s), NEW hits \in Seq(Tools)
    PROVE  /\ Merge(s, hits) \in Seq(Tools)
           /\ Distinct(Merge(s, hits))
           /\ Len(Merge(s, hits)) <= CacheSize
           /\ Elems(Merge(s, hits)) \subseteq Elems(s) \cup Elems(hits)
           /\ \A F : IsFiniteSet(F) /\ Elems(s) \cup Elems(hits) \subseteq F
                       /\ Cardinality(F) <= CacheSize
                     => Elems(Merge(s, hits)) = Elems(s) \cup Elems(hits)
<1> DEFINE merged == CHOOSE f :
             f = [n \in 0..Len(hits) |-> IF n = 0 THEN s ELSE Added(f[n - 1], hits[n])]
           last == merged[Len(hits)]
           G == {n \in Nat : n <= Len(hits) => With(s, hits, n, merged[n])}
<1>0. Len(hits) \in Nat /\ CacheSize \in Nat
  <2>1. CacheSize \in Nat
    BY AgentAssumption, Zenon
  <2> QED
    BY <2>1
<1>1. merged = [n \in 0..Len(hits) |-> IF n = 0 THEN s ELSE Added(merged[n - 1], hits[n])]
  BY MergedExists, Zenon
<1>2. Merge(s, hits) = Trim(last)
  BY DEF Merge
<1> HIDE DEF merged
<1>3. \A n \in 0..Len(hits) : merged[n] = IF n = 0 THEN s ELSE Added(merged[n - 1], hits[n])
  BY <1>1
<1>4. 0 \in G
  <2>1. merged[0] = s
    BY <1>0, <1>3
  <2>2. With(s, hits, 0, s)
    BY DEF With
  <2> QED
    BY <2>1, <2>2
<1>5. ASSUME NEW n \in G PROVE n + 1 \in G
  <2>1. n \in Nat
    OBVIOUS
  <2> SUFFICES ASSUME n + 1 <= Len(hits) PROVE With(s, hits, n + 1, merged[n + 1])
    BY <2>1
  <2>2. With(s, hits, n, merged[n])
    BY <1>0, <2>1
  <2>3. hits[n + 1] \in Tools
    BY <1>0, <2>1, ElementOfSeq
  <2>4. merged[n + 1] = Added(merged[n], hits[n + 1])
    BY <1>0, <1>3, <2>1
  <2>5. 1..(n + 1) = 1..n \cup {n + 1}
    BY <2>1
  <2>6. {hits[i] : i \in 1..(n + 1)} = {hits[i] : i \in 1..n} \cup {hits[n + 1]}
    BY <2>5
  <2>7. /\ Added(merged[n], hits[n + 1]) \in Seq(Tools)
        /\ Elems(Added(merged[n], hits[n + 1])) = Elems(merged[n]) \cup {hits[n + 1]}
        /\ Distinct(Added(merged[n], hits[n + 1]))
    <3>1. merged[n] \in Seq(Tools) /\ Distinct(merged[n])
      BY <2>2 DEF With
    <3> QED
      BY <2>3, <3>1, AddedFacts
  <2>8. Elems(merged[n]) = Elems(s) \cup {hits[i] : i \in 1..n}
    BY <2>2 DEF With
  <2>9. Elems(merged[n + 1]) = Elems(s) \cup {hits[i] : i \in 1..(n + 1)}
    BY <2>4, <2>6, <2>7, <2>8
  <2> QED
    BY <2>4, <2>7, <2>9 DEF With
<1>6. G = Nat
  <2>1. G \in SUBSET Nat
    OBVIOUS
  <2> HIDE DEF G
  <2> QED
    BY <1>4, <1>5, <2>1, SetInduction
<1>7. last \in Seq(Tools) /\ Distinct(last) /\ Elems(last) = Elems(s) \cup Elems(hits)
  <2>1. With(s, hits, Len(hits), last)
    BY <1>0, <1>6
  <2> QED
    BY <2>1 DEF With, Elems
<1> HIDE DEF last, G
<1>8. ASSUME NEW F, IsFiniteSet(F), Elems(s) \cup Elems(hits) \subseteq F,
             Cardinality(F) <= CacheSize
      PROVE  Elems(Trim(last)) = Elems(s) \cup Elems(hits)
  <2>1. Len(last) <= Cardinality(F) /\ Cardinality(F) \in Nat /\ Len(last) \in Nat
    BY <1>7, <1>8, DistinctFits, FS_CardinalityType
  <2>2. Len(last) <= CacheSize
    BY <1>0, <1>8, <2>1
  <2> QED
    BY <1>7, <2>2, TrimFacts
<1> QED
  BY <1>2, <1>7, <1>8, TrimFacts

(* The cache holds tools that were found, each once; as long as all fit,     *)
(* all of them.                                                              *)
FoundInv ==
    /\ cache \in Seq(Tools)
    /\ Distinct(cache)
    /\ Elems(cache) \subseteq found
    /\ IsFiniteSet(found)
    /\ Len(cache) <= CacheSize
    /\ Cardinality(found) <= CacheSize => Elems(cache) = found

(* A search returns finitely many tools.                                     *)
LEMMA HitsFacts ==
    ASSUME NEW hits \in Hits
    PROVE  hits \in Seq(Tools) /\ IsFiniteSet(Elems(hits))
<1>1. PICK n \in 0..SearchLimit : hits \in [1..n -> Tools]
  BY DEF Hits
<1>2. n \in Nat
  BY AgentAssumption
<1>3. hits \in Seq(Tools) /\ Len(hits) = n
  BY <1>1, <1>2, SeqDef
<1>4. hits \in Surjection(1..n, Elems(hits))
  BY <1>1, <1>3 DEF Surjection, Elems
<1>5. IsFiniteSet(1..n)
  BY <1>2, FS_Interval
<1> QED
  BY <1>3, <1>4, <1>5, FS_Surjection

LEMMA FoundStep ==
    ASSUME FoundInv, Step
    PROVE  FoundInv'
<1>1. CASE SearchFinds
  <2>1. PICK hits \in Hits : /\ cache' = Merge(Merge(cache, hits), hits)
                             /\ found' = found \cup Elems(hits)
    BY <1>1 DEF SearchFinds, Elems
  <2> DEFINE once == Merge(cache, hits)
  <2>2. /\ hits \in Seq(Tools) /\ IsFiniteSet(Elems(hits))
        /\ cache \in Seq(Tools) /\ Distinct(cache)
        /\ Elems(cache) \subseteq found
        /\ IsFiniteSet(found)
        /\ CacheSize \in Nat
        /\ Cardinality(found) <= CacheSize => Elems(cache) = found
    BY HitsFacts, AgentAssumption, Zenon DEF FoundInv
  <2>3. /\ once \in Seq(Tools) /\ Distinct(once)
        /\ Elems(once) \subseteq Elems(cache) \cup Elems(hits)
        /\ \A F : IsFiniteSet(F) /\ Elems(cache) \cup Elems(hits) \subseteq F
                    /\ Cardinality(F) <= CacheSize
                  => Elems(once) = Elems(cache) \cup Elems(hits)
    BY <2>2, MergeFacts, Zenon
  <2>4. cache' = Merge(once, hits)
    BY <2>1
  <2> HIDE DEF once
  <2>5. /\ cache' \in Seq(Tools) /\ Distinct(cache') /\ Len(cache') <= CacheSize
        /\ Elems(cache') \subseteq Elems(once) \cup Elems(hits)
        /\ \A F : IsFiniteSet(F) /\ Elems(once) \cup Elems(hits) \subseteq F
                    /\ Cardinality(F) <= CacheSize
                  => Elems(cache') = Elems(once) \cup Elems(hits)
    BY <2>2, <2>3, <2>4, MergeFacts, Zenon
  <2>6. Elems(cache') \subseteq found'
    BY <2>1, <2>2, <2>3, <2>5
  <2>7. IsFiniteSet(found')
    BY <2>1, <2>2, FS_Union
  <2>8. ASSUME Cardinality(found') <= CacheSize PROVE Elems(cache') = found'
    <3>1. Cardinality(found) <= Cardinality(found')
      BY <2>1, <2>7, FS_Subset
    <3>2. Cardinality(found) \in Nat /\ Cardinality(found') \in Nat
      BY <2>2, <2>7, FS_CardinalityType
    <3>3. Elems(cache) = found
      BY <2>2, <2>8, <3>1, <3>2
    <3>4. Elems(once) = found'
      BY <2>1, <2>3, <2>7, <2>8, <3>3
    <3> QED
      BY <2>1, <2>5, <2>7, <2>8, <3>4
  <2>9. Distinct(cache)' /\ Elems(cache)' = Elems(cache')
    BY <2>5 DEF Distinct, Elems
  <2> QED
    BY <2>5, <2>6, <2>7, <2>8, <2>9 DEF FoundInv
<1>2. CASE UNCHANGED <<cache, found>>
  BY <1>2 DEF FoundInv, Distinct, Elems
<1>3. SearchFinds \/ UNCHANGED <<cache, found>>
  BY Zenon
     DEF Step, Start, Planner, BudgetOver, NextStep, Empty, Garbled, Answered, Interrupted,
     Command, SearchFails, ToolRefused, ToolReturns, ToolRaises, SummaryRaises, Inspect,
     Finish, Fail, SandboxUnrun, SandboxRefused, SandboxUncounted, SandboxRuns
<1> QED
  BY <1>1, <1>2, <1>3

LEMMA FoundInit == Init => FoundInv
<1> SUFFICES ASSUME Init PROVE FoundInv
  OBVIOUS
<1>1. cache = <<>> /\ found = {} /\ CacheSize \in Nat
  BY AgentAssumption, Zenon DEF Init
<1>2. Elems(<<>>) = {} /\ Distinct(<<>>) /\ <<>> \in Seq(Tools) /\ Len(<<>>) = 0
  BY DEF Elems, Distinct
<1> QED
  BY <1>1, <1>2, FS_EmptySet DEF FoundInv

(* The cache never outgrows its size, and while all the tools that searches  *)
(* found fit into it the planner may use each of them, for any tools, sizes  *)
(* and searches.                                                             *)
THEOREM FoundCorrect == Spec => []FoundIsKept
<1>1. FoundInv /\ [Step]_vars => FoundInv'
  <2>1. FoundInv /\ UNCHANGED vars => FoundInv'
    BY DEF FoundInv, vars, Distinct, Elems
  <2> QED
    BY <2>1, FoundStep
<1>2. FoundInv => FoundIsKept
  BY DEF FoundInv, FoundIsKept, Cached, Elems
<1> QED
  BY <1>1, <1>2, FoundInit, PTL DEF Spec

-----------------------------------------------------------------------------
(* How long a task can be *)

\* Steps the loop can still take: ten in an iteration, for three attempts with two
\* calls each, the command, and the looks at the limits.
LeftAt(at, number, try) ==
    LET more == 10 * (MaxSteps - number)
    IN CASE at = "start" -> more + 2
         [] at = "ask" -> more + 10 - 2 * try
         [] at = "again" -> more + 9 - 2 * try
         [] at = "act" -> more + 2
         [] at = "check" -> more + 1
         [] OTHER -> 0

Left == LeftAt(pc, steps, attempt)

\* The place, the number of the step and the attempt, in the ranges they have.
Placed(at, number, try) ==
    /\ at \in {"start", "check", "ask", "again", "act", "done", "raised"}
    /\ number \in 0..MaxSteps
    /\ at \in {"ask", "again"} => try \in 1..3

(* Between the start and the end of a task, they determine what is left.     *)
LEMMA LeftFacts ==
    ASSUME NEW at, NEW number, NEW try, Placed(at, number, try)
    PROVE  LET more == 10 * (MaxSteps - number)
           IN  /\ more \in Nat
               /\ LeftAt(at, number, try) \in Nat
               /\ at \in {"start", "act"} => LeftAt(at, number, try) = more + 2
               /\ at = "ask" => LeftAt(at, number, try) = more + 10 - 2 * try
               /\ at = "again" => LeftAt(at, number, try) = more + 9 - 2 * try
               /\ at = "check" => LeftAt(at, number, try) = more + 1
               /\ at \in {"done", "raised"} => LeftAt(at, number, try) = 0
<1> DEFINE more == 10 * (MaxSteps - number)
<1>1. MaxSteps \in Nat
  BY AgentAssumption, Zenon
<1>2. more \in Nat
  BY <1>1 DEF Placed
<1> HIDE DEF more
<1>3. LeftAt(at, number, try) =
        CASE at = "start" -> more + 2
          [] at = "ask" -> more + 10 - 2 * try
          [] at = "again" -> more + 9 - 2 * try
          [] at = "act" -> more + 2
          [] at = "check" -> more + 1
          [] OTHER -> 0
  BY DEF LeftAt, more
<1>4. /\ LeftAt(at, number, try) \in Nat
      /\ at \in {"start", "act"} => LeftAt(at, number, try) = more + 2
      /\ at = "ask" => LeftAt(at, number, try) = more + 10 - 2 * try
      /\ at = "again" => LeftAt(at, number, try) = more + 9 - 2 * try
      /\ at = "check" => LeftAt(at, number, try) = more + 1
      /\ at \in {"done", "raised"} => LeftAt(at, number, try) = 0
  BY <1>2, <1>3 DEF Placed
<1> QED
  BY <1>2, <1>4, Zenon DEF more

(* The state before a step and the one after it are in these ranges.         *)
LEMMA IsPlaced ==
    /\ TypeOK /\ CostInv => Placed(pc, steps, attempt)
    /\ TypeOK' /\ CostInv' => Placed(pc', steps', attempt')
BY Zenon DEF TypeOK, CostInv, Placed

\* What each kind of step does to the three.
Moves ==
    \/ pc \in {"start", "check", "ask", "again", "act"} /\ pc' \in {"done", "raised"}
    \/ pc = "start" /\ pc' = "check" /\ steps' = steps
    \/ pc = "check" /\ pc' = "ask" /\ steps' = steps + 1 /\ attempt' = 1
    \/ pc = "ask" /\ pc' = "again" /\ UNCHANGED <<steps, attempt>>
    \/ pc \in {"ask", "again"} /\ pc' = "ask" /\ steps' = steps /\ attempt' = attempt + 1
    \/ pc \in {"ask", "again"} /\ pc' = "act" /\ steps' = steps
    \/ pc = "act" /\ pc' = "check" /\ steps' = steps

(* Every step of the loop moves on.                                          *)
LEMMA MovesFacts ==
    ASSUME TypeOK, Step
    PROVE  Moves
<1>1. CASE Start
  BY <1>1 DEF Start, Return, Raise, Moves
<1>2. CASE BudgetOver
  BY <1>2 DEF BudgetOver, Return, Moves
<1>3. CASE NextStep
  BY <1>3 DEF NextStep, Moves
<1>4. CASE Empty
  BY <1>4 DEF Empty, Moves
<1>5. CASE Garbled
  BY <1>5 DEF Garbled, Call, Return, Moves
<1>6. CASE Answered
  BY <1>6 DEF Answered, Call, Moves
<1>7. CASE Interrupted
  BY <1>7 DEF Interrupted, Raise, Moves
<1>8. CASE Command
  <2>1. pc = "act" /\ Ends /\ steps' = steps
    BY <1>8, CommandFacts DEF Counts
  <2>2. pc' \in {"check", "done"}
    BY <2>1, EndsType
  <2> QED
    BY <2>1, <2>2 DEF Moves
<1>9. CASE SummaryRaises
  BY <1>9 DEF SummaryRaises, Raise, Moves
<1> QED
  BY <1>1, <1>2, <1>3, <1>4, <1>5, <1>6, <1>7, <1>8, <1>9 DEF Step, Planner

(* Every step of the loop leaves less to do.                                 *)
LEMMA LeftStep ==
    ASSUME TypeOK, CostInv, TypeOK', CostInv', Step
    PROVE  Left' \in Nat /\ Left' < Left
<1>0. Left = LeftAt(pc, steps, attempt) /\ Left' = LeftAt(pc', steps', attempt')
  BY DEF Left
<1>1. Placed(pc, steps, attempt) /\ Placed(pc', steps', attempt')
  BY IsPlaced
<1>2. Moves
  BY MovesFacts
<1>3. MaxSteps \in Nat /\ steps \in 0..MaxSteps /\ steps' \in 0..MaxSteps
  BY <1>1, AgentAssumption, Zenon DEF Placed
<1>4. CASE pc' \in {"done", "raised"}
  <2>1. Left' = 0
    BY <1>0, <1>1, <1>4, LeftFacts
  <2>2. pc \in {"start", "check", "ask", "again", "act"}
    BY <1>2, <1>4 DEF Moves
  <2>3. Left \in Nat /\ Left > 0
    BY <1>0, <1>1, <2>2, LeftFacts DEF Placed
  <2> QED
    BY <2>1, <2>3
<1>5. CASE pc' = "check"
  <2>1. pc \in {"start", "act"} /\ steps' = steps
    BY <1>2, <1>5 DEF Moves
  <2> QED
    BY <1>0, <1>1, <1>5, <2>1, LeftFacts
<1>6. CASE pc' = "ask"
  <2>1. CASE pc = "check" /\ steps' = steps + 1 /\ attempt' = 1
    <3>1. Left = 10 * (MaxSteps - steps) + 1 /\ Left' = 10 * (MaxSteps - steps') + 10 - 2
          /\ Left' \in Nat
      BY <1>0, <1>1, <1>6, <2>1, LeftFacts
    <3> QED
      BY <1>3, <2>1, <3>1
  <2>2. CASE pc \in {"ask", "again"} /\ steps' = steps /\ attempt' = attempt + 1
    <3>1. attempt \in 1..3
      BY <1>1, <2>2 DEF Placed
    <3> QED
      BY <1>0, <1>1, <1>6, <2>2, <3>1, LeftFacts
  <2> QED
    BY <1>2, <1>6, <2>1, <2>2 DEF Moves
<1>7. CASE pc' = "again"
  <2>1. pc = "ask" /\ UNCHANGED <<steps, attempt>> /\ attempt \in 1..3
    BY <1>1, <1>2, <1>7 DEF Moves, Placed
  <2> QED
    BY <1>0, <1>1, <1>7, <2>1, LeftFacts
<1>8. CASE pc' = "act"
  <2>1. pc \in {"ask", "again"} /\ steps' = steps /\ attempt \in 1..3
    BY <1>1, <1>2, <1>8 DEF Moves, Placed
  <2> QED
    BY <1>0, <1>1, <1>8, <2>1, LeftFacts
<1> QED
  BY <1>1, <1>4, <1>5, <1>6, <1>7, <1>8, <1>2 DEF Moves

(* A task takes at most 10 * MaxSteps + 2 steps, whatever the planner answers *)
(* and whatever fails: each of them leaves less to do, and nothing is left of *)
(* a task that has ended.  (That the next step is taken is fairness, and      *)
(* TaskEnds stays with TLC.)                                                  *)
THEOREM TaskIsFinite ==
    Spec => /\ [](Left \in 0..(10 * MaxSteps + 2))
            /\ [][Left' < Left]_vars
<1>1. TypeOK /\ CostInv /\ [Step]_vars => CostInv'
  BY CostStep, Stutter
<1>2. TypeOK /\ CostInv /\ RecordInv => Left \in 0..(10 * MaxSteps + 2)
  <2> SUFFICES ASSUME TypeOK, CostInv, RecordInv PROVE Left \in 0..(10 * MaxSteps + 2)
    OBVIOUS
  <2>1. Placed(pc, steps, attempt) /\ Left = LeftAt(pc, steps, attempt)
    BY IsPlaced DEF Left
  <2>2. MaxSteps \in Nat
    BY AgentAssumption, Zenon
  <2>3. pc \in {"ask", "again"} => steps > 0
    <3>1. Len(history) \in Nat
      BY Zenon, LenProperties DEF TypeOK
    <3> QED
      BY <3>1 DEF RecordInv, Asking
  <2> QED
    BY <2>1, <2>2, <2>3, LeftFacts DEF Placed
<1>3. TypeOK /\ CostInv /\ TypeOK' /\ CostInv' /\ [Step]_vars => [Left' < Left]_vars
  BY LeftStep
<1>4. TypeOK /\ RecordInv /\ [Step]_vars => RecordInv'
  BY RecordStep, Stutter
<1> QED
  BY <1>1, <1>2, <1>3, <1>4, TypeCorrect, CostInit, RecordInit, PTL DEF Spec
=============================================================================
