------------------------------- MODULE McpAgent -------------------------------
(***************************************************************************)
(* One task of the MCP agent.  A planner LLM names one command at a time:   *)
(* search the toolbox, call a tool, look into a tool's output, run code in  *)
(* the sandbox, finish or fail.  Limits are looked at between the commands, *)
(* some failures go back to the planner and others end the task, and what   *)
(* the planner may use is what its searches left in a bounded cache.        *)
(* Orchestrator takes a task as one step; it runs on one thread.            *)
(***************************************************************************)
EXTENDS Naturals, Sequences, FiniteSets

CONSTANTS Tools,          \* tools the index of the user knows
          CacheSize,      \* max_cached_tools
          SearchLimit,    \* how many tools a search returns at most
          Labels,         \* labels the planner gives its sandbox code
          DefaultLabel,   \* the label "sandbox", which the planner may give as well
          SandboxCodes,   \* the failures of sandbox code that are looked at
          MaxSteps, MaxToolCalls, MaxCodeRuns, MaxCost,    \* Budget
          CallCosts       \* what an LLM call may cost

Unlabelled == "no label"

\* Sandbox failures that carry prior_errors, and those among them that need no run.
CountedCodes == {"sandbox_syntax_error", "sandbox_invalid_body", "sandbox_runtime_error",
                 "sandbox_empty_result", "sandbox_timeout"}
UnrunCodes == {"sandbox_syntax_error", "sandbox_invalid_body"}
RecoverableCodes == CountedCodes \cup {"sandbox_invalid_args"}

ASSUME AgentAssumption ==
    /\ CacheSize \in Nat \ {0}
    /\ SearchLimit \in Nat
    /\ DefaultLabel \in Labels
    /\ Unlabelled \notin Labels
    /\ MaxSteps \in Nat /\ MaxToolCalls \in Nat /\ MaxCodeRuns \in Nat /\ MaxCost \in Nat
    /\ CallCosts \subseteq Nat
    /\ \E c \in CallCosts : \A d \in CallCosts : d <= c
    /\ SandboxCodes \subseteq CountedCodes

VARIABLES
    pc,          \* where the loop is
    attempt,     \* attempts to get a command out of the planner, in this step
    steps,       \* budget_tracker.steps_taken
    toolCalls,   \* budget_tracker.tool_calls
    codeRuns,    \* budget_tracker.code_runs
    cost,        \* budget_tracker.estimated_llm_cost_usd
    spent,       \* token_tracker.total_cost_usd, which it is copied from
    history,     \* the recorded steps
    cache,       \* tool_cache.search_results
    result,      \* what the task returns
    \* and what happened, for the properties:
    called,      \* tools that were dispatched
    found        \* tools some search returned

counters == <<toolCalls, codeRuns>>
money == <<cost, spent>>
vars == <<pc, attempt, steps, counters, money, history, cache, result, called, found>>

\* A recorded step; `ran` says that a tool or the sandbox was started for it.
Entry(type, ok, code, label, ran) ==
    [type |-> type, ok |-> ok, code |-> code, label |-> label, ran |-> ran]

EntryTypes == {"search", "tool", "inspect_tool_output", "sandbox", "finish", "fail"}
Codes == RecoverableCodes \cup
    {"none", "search_failed", "planner_used_unknown_tool", "planner_used_undiscovered_tool",
     "planner_used_unknown_server", "tool_execution_failed", "inspect_tool_output_failed",
     "planner_fail_action", "planner_parse_error", "planner_llm_disabled",
     "max_steps", "max_tool_calls", "max_code_runs", "max_llm_cost_usd", "budget_exceeded"}

Entries == [type : EntryTypes, ok : BOOLEAN, code : Codes, label : Labels \cup {Unlabelled},
            ran : BOOLEAN]

Running == [over |-> FALSE, ok |-> FALSE, code |-> "none"]

TypeOK ==
    /\ pc \in {"start", "check", "ask", "again", "act", "done", "raised"}
    /\ attempt \in 0..3
    /\ steps \in 0..MaxSteps
    /\ toolCalls \in Nat /\ codeRuns \in Nat /\ cost \in Nat /\ spent \in Nat
    /\ history \in Seq(Entries)
    /\ result \in [over : BOOLEAN, ok : BOOLEAN, code : Codes]
    /\ called \in Nat
    /\ found \subseteq Tools

Init ==
    /\ pc = "start"
    /\ attempt = 0
    /\ steps = 0
    /\ toolCalls = 0 /\ codeRuns = 0 /\ cost = 0 /\ spent = 0
    /\ history = <<>>
    /\ cache = <<>>
    /\ result = Running
    /\ called = 0
    /\ found = {}

-----------------------------------------------------------------------------
(* The tool cache *)

Cached == {cache[i] : i \in 1..Len(cache)}

\* _trim_context_for_llm keeps the most recent.
Trim(s) == IF Len(s) > CacheSize THEN SubSeq(s, Len(s) - CacheSize + 1, Len(s)) ELSE s

\* Mutant: what is known is not looked for.
MergeAll(s, hits) == Trim(s \o hits)

\* A tool that is known keeps its place.
Added(s, t) == IF \E i \in 1..Len(s) : s[i] = t THEN s ELSE Append(s, t)

\* merge_search_results adds one result after the other.
Merge(s, hits) ==
    LET merged[n \in 0..Len(hits)] == IF n = 0 THEN s ELSE Added(merged[n - 1], hits[n])
    IN Trim(merged[Len(hits)])

\* What a search may return: different tools, best first.
Hits == UNION {{s \in [1..n -> Tools] : \A i, j \in 1..n : s[i] = s[j] => i = j} :
                 n \in 0..SearchLimit}

-----------------------------------------------------------------------------
(* How a step ends *)

\* The step is recorded and the planner is asked for the next.
GoOn(entry) ==
    /\ pc' = "check"
    /\ history' = Append(history, entry)
    /\ UNCHANGED result

\* The last records are made and the task returns.
Return(ok, code, entries) ==
    /\ pc' = "done"
    /\ history' = history \o entries
    /\ result' = [over |-> TRUE, ok |-> ok, code |-> code]

\* _failure records a finish step of its own unless told that the step is recorded.
FinishEntry(code) == Entry("finish", FALSE, code, Unlabelled, FALSE)

\* An exception nothing in the loop catches: there is no result, and the record of
\* the step is lost.
Raise == pc' = "raised" /\ UNCHANGED <<history, result>>

-----------------------------------------------------------------------------
(* The loop *)

\* _ensure_llm_enabled and _load_inventory
Start ==
    /\ pc = "start"
    /\ \/ pc' = "check" /\ UNCHANGED <<history, result>>
       \/ Return(FALSE, "planner_llm_disabled", <<FinishEntry("planner_llm_disabled")>>)
       \/ Raise
    /\ UNCHANGED <<attempt, steps, counters, money, cache, called, found>>

Within ==
    steps < MaxSteps /\ toolCalls < MaxToolCalls /\ codeRuns < MaxCodeRuns /\ cost < MaxCost

Exceeded ==
    IF steps >= MaxSteps THEN "max_steps"
    ELSE IF toolCalls >= MaxToolCalls THEN "max_tool_calls"
    ELSE IF codeRuns >= MaxCodeRuns THEN "max_code_runs"
    ELSE "max_llm_cost_usd"

BudgetOver ==
    /\ pc = "check"
    /\ ~Within
    /\ Return(FALSE, "budget_exceeded", <<FinishEntry(Exceeded)>>)
    /\ UNCHANGED <<attempt, steps, counters, money, cache, called, found>>

NextStep ==
    /\ pc = "check"
    /\ Within
    /\ pc' = "ask"
    /\ steps' = steps + 1
    /\ attempt' = 1
    /\ UNCHANGED <<counters, money, history, cache, result, called, found>>

\* A planner call is made and paid for.
Call ==
    /\ pc \in {"ask", "again"}
    /\ \E c \in CallCosts : spent' = spent + c
    /\ cost' = spent'

\* Mutant: an empty answer is asked for again and again.
EmptyAlways ==
    /\ Call
    /\ pc' = "again"
    /\ UNCHANGED <<attempt, steps, counters, history, cache, result, called, found>>

\* An empty answer is asked for once more before it counts as an attempt.
Empty ==
    /\ pc = "ask"
    /\ Call
    /\ pc' = "again"
    /\ UNCHANGED <<attempt, steps, counters, history, cache, result, called, found>>

\* Mutant: the attempt is not counted.
GarbledAgain ==
    /\ Call
    /\ pc' = "ask"
    /\ UNCHANGED <<attempt, steps, counters, history, cache, result, called, found>>

\* The answer is no command: three attempts.
Garbled ==
    /\ Call
    /\ \/ /\ attempt <= 2
          /\ attempt' = attempt + 1
          /\ pc' = "ask"
          /\ UNCHANGED <<history, result>>
       \/ /\ attempt > 2
          /\ Return(FALSE, "planner_parse_error", <<FinishEntry("planner_parse_error")>>)
          /\ UNCHANGED attempt
    /\ UNCHANGED <<steps, counters, cache, called, found>>

Answered ==
    /\ Call
    /\ pc' = "act"
    /\ attempt' = 0
    /\ UNCHANGED <<steps, counters, history, cache, result, called, found>>

\* The call fails for good, or the user asks to exit.
Interrupted ==
    /\ pc \in {"check", "ask", "again", "act"}
    /\ Raise
    /\ UNCHANGED <<attempt, steps, counters, money, cache, called, found>>

-----------------------------------------------------------------------------
(* Commands *)

\* Results are merged by the executor and again by the loop.
SearchFinds ==
    /\ pc = "act"
    /\ \E hits \in Hits :
          /\ cache' = Merge(Merge(cache, hits), hits)
          /\ found' = found \cup {hits[i] : i \in 1..Len(hits)}
    /\ GoOn(Entry("search", TRUE, "none", Unlabelled, FALSE))
    /\ UNCHANGED <<attempt, steps, counters, money, called>>

SearchFails ==
    /\ pc = "act"
    /\ Return(FALSE, "search_failed",
              <<Entry("search", FALSE, "search_failed", Unlabelled, FALSE),
                FinishEntry("search_failed")>>)
    /\ UNCHANGED <<attempt, steps, counters, money, cache, called, found>>

Searched == \E i \in 1..Len(history) : history[i].type = "search"

\* A tool the index does not know; or, once there was a search, one that no search
\* found or that has fallen out of the cache.
ToolRefused ==
    /\ pc = "act"
    /\ \E code \in {"planner_used_unknown_tool", "planner_used_undiscovered_tool"} :
          /\ code = "planner_used_undiscovered_tool" => Searched /\ Tools \ Cached # {}
          /\ Return(FALSE, code, <<Entry("tool", FALSE, code, Unlabelled, FALSE)>>)
    /\ UNCHANGED <<attempt, steps, counters, money, cache, called, found>>

\* A tool may be called when nothing was searched for yet, or when it is cached.
MayCall(t) == Searched => t \in Cached

ToolEntry(ok) ==
    Entry("tool", ok, IF ok THEN "none" ELSE "tool_execution_failed", Unlabelled, TRUE)

\* Mutant: a call is counted when it succeeds.
ToolReturnsCounted ==
    /\ pc = "act"
    /\ \E t \in Tools : MayCall(t)
    /\ called' = called + 1
    /\ \/ GoOn(ToolEntry(TRUE)) /\ toolCalls' = toolCalls + 1
       \/ GoOn(ToolEntry(FALSE)) /\ UNCHANGED toolCalls
    /\ \E c \in CallCosts \cup {0} : spent' = spent + c
    /\ UNCHANGED <<attempt, steps, codeRuns, cost, cache, found>>

\* It returns, and a large result is summarised at a price; a result that says it
\* was not successful ends the task.
ToolReturns ==
    /\ pc = "act"
    /\ \E t \in Tools : MayCall(t)
    /\ called' = called + 1
    /\ toolCalls' = toolCalls + 1
    /\ \/ GoOn(ToolEntry(TRUE)) /\ \E c \in CallCosts \cup {0} : spent' = spent + c
       \/ Return(FALSE, "tool_execution_failed", <<ToolEntry(FALSE)>>) /\ UNCHANGED spent
    /\ UNCHANGED <<attempt, steps, codeRuns, cost, cache, found>>

\* Mutant: the record is left to _failure.
ToolRaisesUnrecorded ==
    /\ pc = "act"
    /\ \E t \in Tools : MayCall(t)
    /\ called' = called + 1
    /\ Return(FALSE, "tool_execution_failed", <<FinishEntry("tool_execution_failed")>>)
    /\ UNCHANGED <<attempt, steps, counters, money, cache, found>>

\* The dispatch raises.
ToolRaises ==
    /\ pc = "act"
    /\ \E t \in Tools : MayCall(t)
    /\ called' = called + 1
    /\ Return(FALSE, "tool_execution_failed", <<ToolEntry(FALSE)>>)
    /\ UNCHANGED <<attempt, steps, counters, money, cache, found>>

\* The tool, the inspection or the sandbox did its work and the summary of the result
\* fails: nothing counts a tool then.
SummaryRaises ==
    /\ pc = "act"
    /\ \/ (\E t \in Tools : MayCall(t)) /\ called' = called + 1 /\ UNCHANGED codeRuns
       \/ Cached # {} /\ UNCHANGED <<called, codeRuns>>
       \/ codeRuns' = codeRuns + 1 /\ UNCHANGED called
    /\ \E c \in CallCosts : spent' = spent + c
    /\ Raise
    /\ UNCHANGED <<attempt, steps, toolCalls, cost, cache, found>>

InspectEntry(ok) ==
    Entry("inspect_tool_output", ok, IF ok THEN "none" ELSE "inspect_tool_output_failed",
          Unlabelled, FALSE)

\* Looking into a tool's output counts as a call of it unless it is refused or
\* raises, and never ends the task; what it finds is summarised like a result.
Inspect ==
    /\ pc = "act"
    /\ \/ GoOn(InspectEntry(FALSE)) /\ UNCHANGED <<toolCalls, spent>>
       \/ /\ Cached # {}
          /\ toolCalls' = toolCalls + 1
          /\ \/ GoOn(InspectEntry(FALSE)) /\ UNCHANGED spent
             \/ GoOn(InspectEntry(TRUE)) /\ \E c \in CallCosts \cup {0} : spent' = spent + c
    /\ UNCHANGED <<attempt, steps, codeRuns, cost, cache, called, found>>

Finish ==
    /\ pc = "act"
    /\ Return(TRUE, "none", <<Entry("finish", TRUE, "none", Unlabelled, FALSE)>>)
    /\ UNCHANGED <<attempt, steps, counters, money, cache, called, found>>

Fail ==
    /\ pc = "act"
    /\ Return(FALSE, "planner_fail_action",
              <<Entry("fail", FALSE, "planner_fail_action", Unlabelled, FALSE),
                FinishEntry("planner_fail_action")>>)
    /\ UNCHANGED <<attempt, steps, counters, money, cache, called, found>>

-----------------------------------------------------------------------------
(* The sandbox *)

\* The label the executor looks for; the record has the label of the command.
LookedFor(label) == IF label = Unlabelled THEN DefaultLabel ELSE label

Earlier(label, code) ==
    {i \in 1..Len(history) : /\ history[i].type = "sandbox"
                             /\ history[i].code = code
                             /\ history[i].label = LookedFor(label)}

\* Mutant: the third failure is the last that goes back to the planner.
StruckOutLate(label, code) == Cardinality(Earlier(label, code)) > 2

\* The third failure of a kind under a label.
StruckOut(label, code) == Cardinality(Earlier(label, code)) >= 2

SandboxFails(label, code, ran) ==
    LET entry == Entry("sandbox", FALSE, code, label, ran)
    IN  IF StruckOut(label, code) THEN Return(FALSE, code, <<entry>>) ELSE GoOn(entry)

\* The code does not parse, or wraps itself into a main().
SandboxUnrun ==
    /\ pc = "act"
    /\ \E label \in Labels \cup {Unlabelled}, code \in SandboxCodes \cap UnrunCodes :
          SandboxFails(label, code, FALSE)
    /\ UNCHANGED <<attempt, steps, counters, money, cache, called, found>>

\* The code names a server or a function that is not in the cache.
SandboxRefused ==
    /\ pc = "act"
    /\ Tools \ Cached # {}
    /\ \E code \in {"planner_used_unknown_server", "planner_used_undiscovered_tool"} :
          Return(FALSE, code, <<Entry("sandbox", FALSE, code, Unlabelled, FALSE)>>)
    /\ UNCHANGED <<attempt, steps, counters, money, cache, called, found>>

\* Wrong arguments for a cached tool, or run_python_plan raises: nobody counts.
SandboxUncounted ==
    /\ pc = "act"
    /\ \E label \in Labels \cup {Unlabelled} :
          \/ Cached # {} /\ GoOn(Entry("sandbox", FALSE, "sandbox_invalid_args", label, FALSE))
          \/ GoOn(Entry("sandbox", FALSE, "sandbox_runtime_error", label, FALSE))
    /\ UNCHANGED <<attempt, steps, counters, money, cache, called, found>>

\* The code runs; only code that calls a tool must return something.
SandboxRuns ==
    /\ pc = "act"
    /\ codeRuns' = codeRuns + 1
    /\ \E label \in Labels \cup {Unlabelled} :
          \/ /\ GoOn(Entry("sandbox", TRUE, "none", label, TRUE))
             /\ \E c \in CallCosts \cup {0} : spent' = spent + c
          \/ /\ \E code \in SandboxCodes \ UnrunCodes :
                   /\ code = "sandbox_empty_result" => Cached # {}
                   /\ SandboxFails(label, code, TRUE)
             /\ UNCHANGED spent
    /\ UNCHANGED <<attempt, steps, toolCalls, cost, cache, called, found>>

-----------------------------------------------------------------------------
Planner == BudgetOver \/ NextStep \/ Empty \/ Garbled \/ Answered

Command ==
    \/ SearchFinds \/ SearchFails \/ ToolRefused \/ ToolReturns \/ ToolRaises \/ Inspect
    \/ Finish \/ Fail \/ SandboxUnrun \/ SandboxRefused \/ SandboxUncounted \/ SandboxRuns

Step == Start \/ Planner \/ Command \/ SummaryRaises \/ Interrupted

Spec == Init /\ [][Step]_vars

(* The calls of the loop return or raise: the LLM client, the tools and the  *)
(* sandbox have timeouts of their own.                                       *)
FairSpec == Spec /\ WF_vars(Step)

-----------------------------------------------------------------------------
(* Properties *)

(* The limits hold at every moment, not only where the loop looks at them:   *)
(* no call of a tool goes uncounted and leaves the task going.               *)
BudgetKept == steps <= MaxSteps /\ called <= MaxToolCalls /\ codeRuns <= MaxCodeRuns

\* Records of tools that were started.
Started(records) ==
    {i \in 1..Len(records) : records[i].type = "tool" /\ records[i].ran}

(* Every command that was started has its record, in order, unless an        *)
(* exception took it: one record for each step while the task goes on.       *)
EveryStepRecorded ==
    /\ pc = "check" => Len(history) = steps
    /\ pc # "raised" => called = Cardinality(Started(history))

(* Under a label the same failure of sandbox code comes three times at most, *)
(* whatever succeeds or fails in between.  Runtime errors are not among them *)
(* since those of run_python_plan itself are recorded but never strike.      *)
ThreeStrikes ==
    \A label \in Labels, code \in CountedCodes \ {"sandbox_runtime_error"} :
        Cardinality(Earlier(label, code)) <= 3

(* As long as all the tools that searches found fit into the cache, the      *)
(* planner may use each of them: merging twice loses and doubles nothing.    *)
(* The cache never outgrows its size.                                        *)
FoundIsKept ==
    /\ Len(cache) <= CacheSize
    /\ Cardinality(found) <= CacheSize => Cached = found

(* A limit on cost is noticed between the commands: it is exceeded by no more *)
(* than the planner calls of a step and the summaries of this step and the   *)
(* one before, which the loop had not heard of.                              *)
Dearest == CHOOSE c \in CallCosts : \A d \in CallCosts : d <= c
OvershootBounded == spent < MaxCost + 8 * Dearest \/ spent = 0

(* A task ends within its limits however the planner answers.                *)
TaskEnds == <>(pc \in {"done", "raised"})

=============================================================================
