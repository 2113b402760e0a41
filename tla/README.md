# TakeBridge runs: a TLA+ development

TakeBridge lets a user enqueue *workflow runs*. A worker claims a run, hands it
to a runtime service, which gives it a virtual machine, stages the user's drive
on it and lets an orchestrator of LLM agents work. An agent may hand back to a
human; the human answers, the run goes back in the queue. The state all of this
shares is in Postgres rows that half a dozen processes write. This directory
models that core in TLA+, checks it with TLC on small instances and proves the
safety part of it with TLAPS for every instance.

## 1. What is here

| module | what it is |
|---|---|
| `RunQueue` | abstract: `workflow_runs` as a work queue that hands each offer out at most once |
| `SerialAccounts` | abstract: the handlers of one user's account one after the other, each in one step |
| `RunLifecycle` | control plane, workers and runtimes around the status of a run; implements `RunQueue` |
| `WorkerQueue` | claim transaction, LISTEN/NOTIFY, sweep, polling; implements `RunQueue` |
| `DriveSync` | the files of one run: staging, work on the VM, detection, upload, marking, apply |
| `Accounts` | the money and the aggregates of one user: enqueue, claim, status write and heartbeat as transactions with row locks; implements `SerialAccounts` |
| `Orchestrator` | what a run remembers across executions: plan, results, `agent_states`, handback, resume |
| `McpAgent` | one task of the MCP agent: planner loop, budget, records, tool cache, strikes |
| `OAuthRegistry` | a user's connection to a provider: handlers, tool calls and caches of several processes |
| `LlmRequests` | cancel-and-retry of an LLM request in flight |
| `MC*` | constants and symmetry for TLC |
| `*_proofs` | theorems and their proofs |

`RunLifecycle` takes three things as single steps that another module opens up:
a claim (`WorkerQueue`), an enqueue (`Accounts`), and the drive tail
(`DriveSync`). `RunQueue` joins the first pair formally: both `RunLifecycle` and
`WorkerQueue` refine it, so the claim the one assumes is the claim the other
implements.

`RunLifecycle` leaves the contents of `agent_states` aside; `Orchestrator` opens
them up and in turn leaves aside who holds the VM and how a claim works. It takes a
whole MCP task as one step, which `McpAgent` opens up. `OAuthRegistry` decides which
providers such a task may use, and `LlmRequests` is one call of any planner.

Definitions carry the names of the code where they can. `PROJECT.json` maps each
of them to the lines it was translated from. A definition whose comment says
"Mutant" is a plausible bug: it is not part of any specification, and shows
which property would notice it.

## 2. Inventory

For every part of the system: its state, its operations, who it talks to, what
is hard about it, and what makes it correct.

**Control-plane API** (`server/api`). State: the tables `workflow_runs`,
`workflow_run_files`, `workflow_run_drive_changes`, `profiles`, `users`.
Operations: enqueue, the internal endpoints of workers and runtimes (context,
status, VM registration, events, files, drive rows, agent states), user
endpoints for runs and drive. Each request is its own transaction(s). Hard:
requests of several processes about one run in any order, answers that get
lost after the commit. Correct when no write undoes what another one decided.

**Work queue** (`worker/run_worker.py`, `shared/db/workflow_runs.py`). State: the
status column, row locks, one LISTEN connection per worker. Operations: claim
(`FOR UPDATE SKIP LOCKED`), NOTIFY at enqueue and requeue, drain, sweep, poll,
`_with_db_retry`. Hard: a notification between drain and LISTEN, a connection
that dies silently, a locked row that is skipped and then rolled back, a commit
whose answer is lost. Correct when a queueing is handed out once and no queued
run is slept through.

**Worker dispatch** (`run_once`). State: the run it holds. Operations: fetch the
workflow, POST to the executor, consume the event stream without a timeout,
write `error` (or `attention` on a 409). Hard: the stream breaks while the
execution goes on; both sides then write the status.

**Runtime service** (`runtime/api/server.py`). State: per-process tasks, two
semaphores, the event queue of each stream. Operations: execute (resolve or
provision the VM, register, stage), the execution task and its tail (status,
drive, terminate), resume. Calls the control plane over HTTP with one attempt
each. Hard: order of the tail, what happens when each call fails, that
handlers without an `await` hold the event loop, crashes. Correct when a run
that says `running` is in somebody's hands and a VM outlives exactly as long
as its run needs it.

**Handback and resume** (`computer_use_agent/orchestrator/runner.py`,
`resume_run`). State: `agent_states`, the handback request, status
`attention`. Hard: the check of the status and the write of `queued` are minutes
apart; the resumed agent may hand back again.

**Drive** (`runtime/api/run_drive.py`, `routes_drive.py`, `routes_workflows.py`).
State: the user's objects, objects under the run's change prefix, file rows with
checksum and status, change rows, files on the VM. Operations: stage, detect,
upload, mark, apply, commit one file, user upload/delete/rename. Hard: upload and
mark are separate, a human may work during the tail, executions of one run
share rows. Correct when work is not lost and not written over.

**Accounts** (`profiles.py`, `user_metadata.py`). State: credits; counters, recent
runs (capped), active runs in one JSON document. Operations: debit, record of
enqueue, start, status, heartbeat. Hard: concurrent read-modify-write of one
document, eviction, records that cross each other, swallowed failures. Correct
when every run is paid once and the counters count runs.

**Agent states** (`workflow_runs.py`, `runner.py`, `runtime.py`, `bridges.py`). State:
one JSON document per run: the orchestrator's plan and results, the step that handed
back and the result of its resume, the states of MCP agents. Operations: locked
merge, unlocked snapshot replacement, rehydration. Hard: the replacement follows an
unlocked read, a resume is three merges, any of them may fail. Correct when finished
work is in front of the planner of every later execution, once.

**Runtime admission** (`_run_slot`). A global and a per-user semaphore, taken in
that order, the second outside the `try` that releases the first. Correct when
permits are not lost and one user cannot hold all of them.

**Event stream** (`_run_and_stream`, `shared/streaming.py`). An asyncio queue fed
from agent threads, keepalives, and the emitter kept in a context variable, a
thread-local and a process-wide fallback. Hard: the fallback belongs to
whichever run set it last. Correct when events reach the stream of their run
and each stream ends.

**Orchestrator loop** (`orchestrator_agent`). State: steps, budget, results.
Operations: plan (three attempts), dispatch to the MCP or computer-use bridge,
record, stop on attention, resume from a step. Hard: rehydration after a resume,
finding the step that asked, the cost of a run measured with a process-wide tracker.

**Agent signals** (`shared/agent_signal.py`). Process-wide pause and exit flags
set by SIGINT, cleared when a run starts. Hard: one process runs many runs.

**Computer-use agent** (`computer_use_agent`). Step loop with a step limit,
grounding, coder, handback.

**MCP agent** (`mcp_agent/agent`). State: budget counters, recorded steps, cached
tools, raw outputs. Operations: search, tool call, inspect, sandbox code, finish, fail,
and the retries of the planner. Hard: limits are looked at between the commands,
each way out of a command keeps its own record, searches merge into a bounded
cache twice, failures of sandbox code are counted through the history. Correct when
it stops, keeps to its budget and records what it did.

**OAuth registry** (`mcp_agent/registry`, `routes_mcp_auth.py`,
`route_composio_redirect.py`). State: connected account and MCP connection per user
and provider, Composio's accounts, a status cache with a TTL in each process.
Operations: start, callback or finalize (poll, then save), refresh, disconnect, status,
headers of a tool call. Hard: a cache that is filled after it was invalidated, a URL
written back after a disconnect, a poll without an answer. Correct when a disconnect
holds and no process believes the old status for good.

**LLM clients and request registry** (`shared/llm_*.py`). One entry per run, two
events per request, cancel-and-retry from another thread. Hard: the retry races the
answer and the polling of the events; requests of one run overlap. Correct when
one call is in flight, an acknowledged retry is carried out and the entry is that
of the latest request.

**VM and workspace manager** (`vm_manager`). Create, look up and stop instances.
Hard: `ensure_workspace` looks and then creates without a lock.

**Knowledge, sandbox and tool execution; tool wrappers; authentication; migrations
and scripts.** Data transformation, generated wrappers, stateless checks and one-off
tools: listed, not modelled.

Every place where these hazards bite is in `PROJECT.json` under `hazards`, with the
properties that watch it or the reason none does.

## 3. Models and their correspondence to the code

### RunLifecycle

The k-th claim of run `r` is the *attempt* `<<r, k>>`. It names the worker's
dispatch, the execution in the runtime and the VM that execution provisions.

| variable | in the code |
|---|---|
| `status` | `workflow_runs.status`; every writer replaces it (`update_status` has no precondition) |
| `claims`, `requeues` | counted by the model: claims and queueings of a run |
| `env` | `environment.endpoint`, written by `register_vm` |
| `vm` | the instance each attempt created |
| `worker` | where `run_once` is |
| `exec` | where the execute handler or the execution task is, in which process, and how the agent ended |
| `resume` | the run whose resume handler holds that process's event loop |
| `question` | an open handback request |
| `dropped` | history: the attempt met a failure that nobody looks at |

A runtime is one asyncio process. The execute handler, the tail and the resume
handler are synchronous between their first line and their last, so while one is
in the middle no other of that process starts (`LoopIdle`); agents run in
threads and are free. Failures are named (`FaultKinds`): a lost commit answer, a
lost status write, a failed handback write, a clean exit, a lost worker write, a
lost requeue, an unreadable context, a failed terminate, a broken stream, crashes
of either process. `Faults` and `MaxFaults` choose which and how many happen.
Failures the code reacts to at once (provisioning, registration or staging that
fails, a dispatch that fails, a 409) are ordinary choices and not counted.

### WorkerQueue

A claim locks the oldest unlocked queued row (`LockOldest`), commits
(`ClaimCommit`), fails and is retried (`ClaimFails`, at most `MaxTries`), or
commits without the worker learning it (`CommitLost`). A notification sets the
`inbox` of every worker that has a live LISTEN connection. `Due` is the
reconciliation sweep. Which database there is, `postgres`, is chosen at the start from
`Backends`: on one that is not Postgres the loop polls (`Poll`) and the claim
statement itself cannot run (`ClaimUnsupported`).

### DriveSync

One run, one execution at a time. A file is a path with a content; a checksum is
the content it stands for; a row and a change exist per path. `StageBegin` to
`StageEnd` are `stage_drive_files_for_run` with the control plane's
`get_drive_files`; `Return` to `TailEnd` are the tail in the order of its calls,
with `Upload` and `Mark` as the two requests they are. `Edit` is the agent's or
the human's work on the VM and external. After a handback the row already says
`attention` when the tail runs, so a human may edit during it. `Put`, `Rename`,
`ApplyBegin`/`ApplyCopy` and `CommitFile` are the user's calls at any time.
`tracked` remembers whether the first execution found drive rows, `staged` what
staging put on the VM, `clean` whether anything failed since the last start or
resume.

### Accounts

Each handler is a transaction on Postgres, from the first lock it is granted:
profile row or run row first, the `users` row second, commit or rollback. `Load` is
`update_user_metadata`, `SELECT ... FOR UPDATE`, change and `UPDATE` in one. `LoadFails`
is the aggregation raising inside the `try` that only logs it. `Rollback` is any
failure, and the commit that Postgres turns into a rollback because a swallowed
statement had failed. The record of a start is a transaction after the claim's, so
anything may come between (`overtaken`). The recent list is kept in order and cut
to `Limit`; `revived` remembers runs that were recorded again after they fell off.
Heartbeat ages are abstracted to a free choice of the entries that are pruned.

`SerialAccounts` has no locks and no processes: an enqueue, a claim, a record of a
start, a status write and a heartbeat are one step each, which changes balance, status
and document as the one before left them (or leaves the document alone, when the
aggregation failed). How a document changes is its parameter, for which `Accounts`
puts its own definitions. A transaction of `Accounts` is the step of its commit; before
that nothing of it is seen.

### Orchestrator

One run, its document and the executions and resumes that read and write it.

| variable | in the code |
|---|---|
| `doc` | `workflow_runs.agent_states`: orchestrator part, step that handed back, `resume.step_result`, `last_resume_step`, MCP state (of the step merged last) |
| `exec` | each execution: where the loop is, `RunState.plan` and `.results`, attempts at the current decision |
| `resumer` | each resume handler: where it is, the state it read and the step it believes asked |
| `issued`, `ran`, `mcpSaved` | history: steps planned, steps an agent finished, the MCP step merged last |
| `excuses` | history: what happened that may cost the run its memory |

`Claim` and `Load` are the claim and the rebuilding of the state (from
`orchestrator`, then `last_resume_step`, then `resume.step_result`); the planning
actions follow `run_orchestrator`; a handback is `snapshot` (replace the document after an
unlocked read, carrying over what it read of MCP) and `mark` (status `attention`). A
resume reads, works, possibly hands back again, and then merges three times before it
writes `queued`. Every one of these transactions may fail, as `FaultKinds` names them.
Nothing keeps two sessions apart once a status was lost or a late write came, so
they may overlap, which `excuses` notes.

### McpAgent

One task, one thread, so the interest is in sequence and not in concurrency. A
step of the loop is `NextStep`, calls to the planner (`Call`, with the retries for empty
and for garbled answers), then one command. Each way out of a command is an action:
`ToolReturnsCounted` and `ToolReturns`, `ToolRaises`, `ToolRaisesUnrecorded`,
`ToolRefused`; `SandboxUnrun`, `SandboxRefused`, `SandboxUncounted`,
`SandboxRuns`. `SummaryRaises` and `Interrupted` are exceptions on the way.
What comes from a tool, and what is inspected again, may be summarised, which costs.
`Hits` is what an index may return, `history` the recorded steps with the fields that are
looked at again, `cache` the ordered list of tools. `called` and `found` are history.
What an LLM call costs is a choice from `CallCosts`; `spent` is the token tracker and
`cost` the copy the loop compares, which lags behind it.

### OAuthRegistry

One user and one provider: every query and every cache key names both. `row` is the
connected account together with its MCP connection, `composio` the status of each
account there, `cache` the status each process has stored. A request or a tool call is
a `task` whose transactions and calls to Composio are steps of their own: `StatusMiss`,
`AskComposio`, `StoreStatus`; `StartFinalize`, `Poll` or `PollTimesOut`, `SaveAccount`
or `FinalizeFails`, `Invalidate`; `Disconnect`, `Invalidate`; `ReadHeaders`, then
`StoreToken` or `NoToken`. A connection may be saved without a URL or without a token. Servers run the handlers, runtimes only read. `Consent`,
`Lapse` are external, `Expire` is the TTL. Ghosts: `cut` (a disconnect is in force),
`old` (the entry is from before a change of the same process), `blind` (the row's status
comes from a poll that got no answer).

### LlmRequests

The thread of each request polls two events and reads and clears them without the
registry's lock, so every read and every clearing is a step. `RequestRetry` is the second
half of the handler: `cancel` is set in one step, `retry` in the next. `calls` counts
calls in flight: leaving the pool's `with` block waits (`draining`). Ghosts: `latest` (the
request registered last), `torn` (the handler's two steps were interleaved with the
thread's), `missed` (asked after the last look, or of a streamed request).

## 4. What is checked

All passing runs explore their whole state space. Deadlock checking is off except in
the `oauth` runs: the other models run out of their bounds, or end as a task or a
request does.

| run | asks | instance |
|---|---|---|
| `run_safety` | custody of running runs, VM lifetime, refinement of `RunQueue` | 1 run, 2 workers, 2 runtimes, 3 attempts, any one failure |
| `run_settles` | liveness: running runs settle | 2 runs, 1 worker, 1 runtime, 2 attempts, 2 observed failures |
| `queue_safety` | no lost wake-up, refinement of `RunQueue`; queued runs are served, the loop never stops | 2 runs, 2 workers, 2 tries, 2 offers, any two failures, with the sweep, both databases |
| `orchestrator_memory` | finished work survives handbacks, resumes and failures, once; sessions end | 1 execution and 2 resumers at a time, 3 steps, 2 claims, 2 resumes, any one failure |
| `mcp_agent` | budgets, records, strikes and tool cache; the task ends | 3 tools, cache of 2, 1 hit per search, 1 label, 2 failure codes, 4 steps, 2 tool calls, 2 sandbox runs, cost limit 1 |
| `oauth` | a disconnect holds, caches settle, ACTIVE was seen | 2 accounts, 1 server, 1 runtime, 2 tasks, 2 commits |
| `llm_retry` | one call, no lost retry, the right entry; requests end | 2 requests of one run, 3 retries |
| `drive_safety` | nothing is lost, written over or called committed without an object | 2 paths, 2 contents, 2 executions, 3 edits, 1 user call, any two failures |
| `accounts_safety` | money and aggregates under concurrency, refinement of `SerialAccounts` | 3 runs, money for 2, 2 handlers, list of 1, 3 writes, 1 failed aggregation |
| `run_lateerror`, `drive_emptydrive`, `oauth_flips` | a statement of the docs or code that the code does not keep | the smallest that shows it |

Why the bounds are enough. Runs meet only in the queue's order, so one run with
two workers and two runtimes has every race for a row; two runs appear where the
order matters. Three attempts are a handback, a resume and another; a third
execution of a run finds the state a second one found. Two workers and two
handlers are what a race needs; a lock with two waiters behaves like a lock with
one. Two failures cover a failure during the recovery from a failure. In
`DriveSync` two paths suffice because rows, changes and objects are per path
and only loops join them. In `Accounts` a list of one makes eviction happen with
the second run, two affordable runs and a third that is refused reach the 402, and
three writes reach a status that is changed twice with a heartbeat in between.
In `Orchestrator` three steps are two before the handback, of which the second may
overwrite the MCP state of the first, and one that hands back; two
claims and two resumes reach the second handback inside a resume and a resume
that is accepted again after its status write was lost, and either may overlap an
execution; two executions that overlap would take a third claim. In `McpAgent` three tools and a cache of two evict, four steps allow three
strikes and one success, and each limit is below the number of steps, so each is the
one that ends some task. In `OAuthRegistry` two tasks are a read and a change that
cross, two commits a change and its reversal, one process that serves and one that
only reads are the two kinds of cache. In `LlmRequests` two requests of one run
overlap and three retries reach a request that is retried, then retried again while
it is between its events. `MaxAttempts` also stops resumes once a run was queued that
often: the liveness runs speak of queueings within the bound.

### The properties

- `RunningInCustody`: a run that says `running` has a worker or a runtime that will
  still write its status, unless one of the unobserved failures dropped it. The
  list of those failures *is* the result: a broken stream or a runtime that dies
  under a live worker is not on it.
- `TerminatedOnlyAfterOutcome`, `NoVmLeftAfterSuccess`: VM lifetime from both sides.
- `QueueSpec`: the queue is a queue that hands each offer out at most once, through late
  writes, resumes, retries and lost commits.
- `NoLostWakeup`: while a run is queued some worker will look, except behind a drain
  that gave up on errors or a connection that died silently. The sweep covers
  those: `QueuedIsServed`, on Postgres. `KeepsLooking`: the loop comes round, on either
  database, which is not to say that it claims anything.
- `WorkSurvives`: whenever the planner is asked, the results of all steps agents finished
  before are in front of it, except after an unreadable document, a lost merge of a
  resume's result or overlapping sessions. That list of exceptions is the result: a lost
  snapshot, a lost mark, a lost second or third merge and a lost status write are not
  on it. `OneResultPerStep`: no step counts twice, whatever happens, although a
  resume's result can reach the state in three ways. `AnsweredAsAsked`: the resume,
  which is not told which step asked, credits the right one. `McpStateKept`: there is
  one place for the state of an MCP agent and a later step overwrites it; snapshots,
  which replace the document after an unlocked read, keep the state merged last.
- `BudgetKept`: the limits hold at every moment although they are looked at between the
  commands. `OvershootBounded`: the cost limit is overshot by less than eight of the
  dearest calls, the most a step, its retries and the summaries nobody has heard of yet
  can add. `EveryStepRecorded`: what was started has its record unless an exception took
  it. `ThreeStrikes`: the third failure of a kind under a label ends the task.
  `FoundIsKept`: nothing found is lost while all of it fits.
- `DisconnectHolds`: no tool call finds a connection between a disconnect and the next
  finalization, although a call that began before may write the URL back: the
  row's status protects it. `InvalidationDrops`, `CachesSettle`: what a process believes
  is dropped after each change of its own, and right in the end. `ActiveWasSeen`: ACTIVE
  was ACTIVE at Composio, except for a poll that got no answer at all.
- `OneCallAtATime`, `RetryLostOnlyLate`, `CancelledOnlyTorn`, `LatestIsFound`: retrying a
  request pays for one call at a time, loses an acknowledged retry only in the window
  after the last look, fails the request only if the two threads cut each other's two
  steps, and addresses the request of the run that was registered last.
- `NothingLost`: a settled, failure-free end has captured every file that differs from
  what was staged, including what an earlier execution failed to upload.
  `CommittedWasUploaded`: committed means there is an object. `StagingKeepsWork`
  (action property): staging never writes over a file that is on the VM.
- `RunsArePaidFor`: credits gone = cost of the runs that exist, at every moment.
  `CountersExact`: the aggregates equal the rows until a run returns after eviction, or
  (for the gauges) a write overtakes a start. `GaugesCoverRecent` holds without
  any such excuse. `ActiveIsRunning`: crossing heartbeats and status writes leave no
  settled run on the active list. `SerialSpec`: no interleaving of handlers, failures and
  rollbacks shows a balance, status or document that handlers in a row would not.

Every property has a mutant in `PROJECT.json`, a small bug in one definition that
makes its run fail.

### Fairness

Liveness is claimed only under weak fairness of steps the code keeps taking.
`RunLifecycle` and `WorkerQueue`: a worker's loop (a supervisor restarts a crashed one),
the steps of an execution (the agents have step limits, so they return) and the end of
a resume. `Orchestrator`: planner, agents and handlers return; nobody is obliged to
claim the run or to answer. `McpAgent`: the loop goes on, since its calls have timeouts.
`OAuthRegistry`: cached entries expire, and a status request or an invalidation that has
begun goes on. `LlmRequests`: threads run, calls end (the client has a timeout), the
handler finishes. Nothing obliges anyone to enqueue, to answer a handback, to ask for a
retry or to fail. `run_settles` allows only the failures somebody observes, since an
unobserved one does leave a run in `running`.

### Disagreements found

1. `run_lateerror`: the resume handler checks `attention` at its start and writes
   `queued` at its end without looking; a late `error` in between is undone.
2. `drive_emptydrive`: a run that starts with an empty drive gets no change detection
   in the runtime, so its new files go with the VM; the code it was split from
   looked up the user and scanned.
3. `oauth_flips`: the disconnect handler promises that the status flips immediately; a
   status request that read the database before it stores `authorized` after it, and
   the same process answers with that until the entry expires.

Also seen. Each of these is behaviour of a model, named here because a reader of
the code would want to know it; where a property has an exception, this is why.

- Runs. The final status write of a runtime is tried once and its failure swallowed, so
  the run says `running` for ever (`docs/runtime_decoupling_plan.md:175` promises an
  error "via retry queue"). A resumed agent that hands back again is overwritten with
  `queued` and executed while its question is open. Where the database is not
  Postgres the worker polls ("polling fallback elsewhere", `run_worker.py:794`) with a
  claim that only Postgres accepts, so a queued run stays queued. A run that fell off
  the capped list of recent runs is counted again (`docs/user_metadata_plan.md:169`).
- Orchestrator. After a lost first merge of a resume the older snapshot stays, and a
  later resume may credit the step that was answered already (the `unmerged` excuse). A
  failing `update_agent_states` at the start leaves the status `running`. An exception
  in the MCP bridge becomes a stub result that says success.
  `continuation.inference_context` is read but a resume never writes it.
- MCP agent. A tool that did its work loses its record when summarising its output
  raises. Sandbox commands without a label never strike out, nor do exceptions of
  `run_python_plan`; tools called inside the sandbox do not count against
  `max_tool_calls`. Merging the results of a search twice into a full cache brings back
  a tool the first merge evicted and evicts another of the same results.
- OAuth. A finalization for which Composio gives no URL commits an ACTIVE row that no
  query finds. `live_status`, documented as asking Composio, may answer from the cache. A poll
  that never got an answer stores ACTIVE. Caches are per process, so a disconnect is
  known to the others after up to an hour. A disconnect revokes nothing at Composio.
  `get_mcp_client` reads URL and headers in two transactions, and `get_headers` may
  write an older URL over a newer one.
- LLM requests. Leaving the pool's `with` block waits for the call that hangs, so the
  retry takes effect when that call ends on its own. Overlapping requests of one run
  hide each other from the handler; a streamed one acknowledges and never looks.

## 5. What is proved

For every value of the constants allowed by the assumptions each module names
(naturals for the bounds, `Faults \subseteq FaultKinds`, `Absent \notin Contents`,
`"none"` no process, at least one worker, `None` no account and no request, a dearest
call, the default label a label). No set needs to be finite, except runs, which are
numbered.

| theorem | module | argument |
|---|---|---|
| `TypeCorrect` | all eight | `TypeOK` step by step; `Accounts` adds that a busy handler has a run |
| `ClaimedOnce` | `RunLifecycle_proofs` | inductive by itself with the types |
| `CustodyKept` | `RunLifecycle_proofs` | `CustodyInv`: only a claim makes a run `running`, and its latest attempt is in custody or dropped; a claim starts from an attempt nobody has touched (`Unclaimed`) |
| `TerminatedAfterOutcome` | `RunLifecycle_proofs` | `AttemptInv`: attempts that workers or executions hold were issued by a claim, one worker each, executed at most once, and a VM is registered for its own run; `OutcomeInv`: only a settled execution reaches the terminate call |
| `SuccessLeavesNoVm` | `RunLifecycle_proofs` | `VmInv`, all of it while nothing failed: a run without a registered VM was queued once at most, so one attempt at most reached the runtime before it has one (`OneBareAttempt`), and a VM that runs is the registered one; a `success` was written by an execution that returned it, and once one has concluded the registered VM is terminated |
| `QueueImplemented` | `RunLifecycle_proofs`, `WorkerQueue_proofs` | every step is a step of `RunQueue` or a stutter; `WorkerQueue` needs `Accounted`: a locked row is queued, and a run was claimed less often than offered while it is queued |
| `NoWakeupLost` | `WorkerQueue_proofs` | `LoopInv`: the holder of a lock is in the claim and the row is queued; a worker that waits, or drains before it waits, has had a connection since it last connected. A skipped row therefore has an awake holder, and an offer reaches every sleeper's inbox or the sleeper has its excuse |
| `CommitsAreBacked` | `DriveSync_proofs` | `UploadInv`: a mark of `committed` is in flight only after the upload |
| `StagingIsSafe` | `DriveSync_proofs` | `StagingInv`: in a tracked run a row is still `pending` or `failed` only during staging (or after a rejected one), and its file is not on the VM |
| `WorkIsKept` | `DriveSync_proofs` | `RowInv`: a row whose checksum is not the staged one came with a change; `TailInv` says at each point of the tail which differing files are found, pending or captured |
| `EveryRunIsPaidFor` | `Accounts_proofs` | `PayInv`: at most one debit is open, of a run not yet visible, and it leaves what it found less the cost; every other handler works on a visible run |
| `GaugesCorrect` | `Accounts_proofs` | `GaugeInv`: the document, and any that a handler has loaded and will write back, lists a run once, counts at least what it lists and adds up |
| `CountersAgree`, `ActiveAreRunning` | `Accounts_proofs` | `LockInv`: the document is rewritten under the row lock, so what a handler loaded is still what is there, and a change of status is recorded by the transaction that makes it; `AgreeInv`: until a run is revived or overtaken the entry of each run agrees with its row (`ListAgrees`), which makes a pop and push move one run between two counts |
| `SerialImplemented` | `Accounts_proofs` | every step but a claim and a commit is a stutter; at a commit `LockInv` says that what the handler had read is still there, `PayInv` the same of the balance, and `Written` that the status it writes is one that may be written |
| `OneResultCorrect` | `Orchestrator_proofs` | `IdInv`: in the document and in every state that came from it, planned ids and results are distinct and no later than the last one issued, and the step at work has no result yet; `PlanInv`: a step at work is in a plan |
| `MemoryCorrect`, `AnswerCorrect` | `Orchestrator_proofs` | `MemInv`: at every point of a session, where each finished step's result is (state, snapshot, one of the three places of a resume), and that while a handback is open the step that asked is the only one of the plan without a result; rests on `AskInv` (an open handback names its step) and `Alone` (one session unless `overlap`) |
| `McpStateCorrect` | `Orchestrator_proofs` | `McpInv`: what the writer of a snapshot has read is what was merged last; rests on `Alone` |
| `BudgetCorrect` | `McpAgent_proofs` | `LimitInv`: the loop is in a command only below each limit; `CommandFacts` says what a command changes |
| `RecordsCorrect`, `StrikesCorrect` | `McpAgent_proofs` | `RecordInv`, `StrikeInv`: per command one record; two strikes at most while the task goes on |
| `CostCorrect` | `McpAgent_proofs` | `CostInv`: how far `spent` may be ahead of the limit at each point of a step, in calls |
| `FoundCorrect` | `McpAgent_proofs` | `FoundInv`: the cache holds found tools, each once; `MergeFacts` says what the loop of a merge leaves, `DistinctFits` that a sequence without doubles is no longer than the set it is from |
| `DisconnectCorrect`, `ActiveCorrect` | `OAuthRegistry_proofs` | `RowInv`, `TaskInv`: a disconnect in force leaves the row `DISCONNECTED` (only a commit changes that), and a task that has seen ACTIVE carries an account that was |
| `CacheCorrect` | `OAuthRegistry_proofs` | `InvalidationDrops` is inductive with the types |
| `OneCallCorrect` | `LlmRequests_proofs` | `CallInv`: a thread that does not wait has no call in flight |
| `RegistryCorrect` | `LlmRequests_proofs` | `LatestInv`: the request registered last has started and is of its run |
| `RetryCorrect`, `CancelCorrect` | `LlmRequests_proofs` | `LateInv`: `retry` is set behind the last look only with `missed`; `TornInv`: for requests that are not torn, `cancel` is never seen without `retry` |
| `TaskIsFinite` | `McpAgent_proofs` | a task takes at most `10 * MaxSteps + 2` steps: `Left` counts what is left of the iteration and ten for each one the limit allows; every step takes some of it |
| `ExecutionIsFinite` | `Orchestrator_proofs` | an execution takes at most `7 * MaxSteps + 5` steps, failures included: `Left` is made of the results there is room for; `RoomInv`: a step is dispatched only while there is room for its result |
| `RequestIsFinite` | `LlmRequests_proofs` | a request and its calls take nine steps and eight for each retry of the handler: `Left` counts an event that is set as one more round; `SetInv`: the event a thread is about to clear is set, so clearing pays for the call that is made again |

The strengthenings are needed because the plain properties say nothing of the
steps in between: `NothingLost` speaks only of the end, `RunsArePaidFor` not of a
debit that is about to commit, `WorkSurvives` only of the moment the planner is asked.
Each was first checked as an invariant with TLC, and the three measures as action
properties.

The loop of `merge_search_results` is a recursive function, and what it computes is
shown for searches of any length. The induction theorems of the library take an
operator as a parameter, which the provers cannot instantiate; `SetInduction` states
induction for a set of numbers instead, from the well-foundedness of `<`, and is used
twice: the function exists, and after n results the cache holds those n.

Every invariant, every action property and every refinement that a run checks is proved
(types too: those of `Accounts`, `DriveSync`, `McpAgent`, `OAuthRegistry` and
`LlmRequests` are only proved). Model-checked only: all liveness, which is out of the
prover's reach. The last three theorems are the part of it that can be proved: in the three
loops there is a number that every step lessens, so they end if they keep going; that they
keep going is what fairness says and TLC checks (`TaskEnds`, `SessionsEnd`,
`RequestsEnd`). For `RunningSettles`, `QueuedIsServed`, `KeepsLooking` and `CachesSettle`
there is no such number, since workers and caches go round for ever.

## 6. Plan

Order: what decides a run's fate first, then its data, then what runs inside it.

1. *Done:* `RunQueue`, `RunLifecycle`, `WorkerQueue`, `DriveSync`, `Accounts` with
   `SerialAccounts`, and their proofs.
2. *Done:* `Orchestrator` (the document, the loop, handback and resume), `McpAgent`,
   `OAuthRegistry`, `LlmRequests`, with their proofs.
3. `RunRow`: the unlocked merges of environment and metadata; abstract specification: a
   document to which patches are applied.
4. `RunSlots` and the event stream: the two semaphores, the emitter fallback, the close
   of a stream against its keepalives; starvation and events of the wrong run.
5. `CuaRunner`: step limits and terminal states; `Workspaces`: look-then-create.
6. Compositions: overlapping tails of one run on two runtimes (`DriveSync` with
   `RunLifecycle`), which the single-execution model excludes.

## 7. Not modelled, and why

Prompt building, tool schemas, formatting, logging, HTML reports and search
indexes: no state that outlives a call. Cloud SDKs, Supabase, Composio, LLM
providers and the VM's controller are external: their answers are choices.
Workflow, folder and file CRUD is one statement per request. Clocks are
abstracted: a timeout or a sweep may happen whenever it is armed. In `RunLifecycle`
the contents of `agent_states` (`Orchestrator`) and the drive are left to other modules,
and a worker's `fetch_workflow` is part of its dispatch. `DriveSync` takes one
execution at a time, an upload as one step, and the rows of a full drive as
inserted once. In `Accounts` token costs, durations, recent errors and the
attachments copied at enqueue are left out, and the database is Postgres.
`Orchestrator` leaves out screenshots, trajectories and translated text, and takes the
stop for cost as a choice of the loop. `McpAgent` takes an ill-formed command as a refused
call and leaves out observations. `OAuthRegistry` leaves out redirect hints and the list of
providers. In `LlmRequests` a call with its own retries is one call.

More than half of the lines of the repository are tool wrappers, the tables that
describe their outputs, and their helpers (`mcp_agent/actions`): one HTTP call or one
literal each, no state, no control. That is why the models map to a small share of the
lines of the whole.
