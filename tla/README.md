# A TLA+ model of the Agentic Data Engineering OS

The modules in this directory model the parts of the platform whose correctness
is decided by the order in which processes, threads, requests and people act on
shared tables and files: four control planes (the hosted runner queue, incident
remediation, scheduled automations, agent teams) and eleven services (background
jobs, the approval gate in front of them, billing, the agent loop, session
todos, workspace files, the ingestion DAGs, the warehouse diff, the document
index, memories and training, the editor protocol server). TLC checks them on
small instances; TLAPS proves every safety property that the runs check,
invariants, action properties and the refinements, for every value of the
constants. All paths below are relative to `src/src/agentic_data_platform/`
unless they begin with `src/`.

## 1. Inventory

The platform is one Python package of about 59 000 lines, a set of scripts, two
front ends and demonstration projects. Its state lives in SQLite files (one per
store, or PostgreSQL for the control plane) that are shared by the API's thread
pool, the CLI, tool handlers and long-running worker loops. Almost no operation
runs in a transaction wider than one statement, so what is hard about the system
is what happens between a read and the write that relies on it.

| Component | State | Operations | Hard behaviours | What makes it correct |
|---|---|---|---|---|
| Hosted runner queue, `runners/hosted.py`, `src/scripts/run_hosted_runner.py` | jobs (status, lease, attempts), runner registrations | submit, register, heartbeat, cancel, recover leases, lease, complete, run_once | many workers, one runner id used twice, crashes, leases that lapse under a live worker, unconditional writes after a check | one worker per attempt, outcomes attributed to the attempt that made them, bounded retries, every job settled |
| Incident control plane, `agents/supervisor.py`, `agents/store.py`, `agents/postgres_store.py` | incidents, plans, outcome columns, certifications | investigate, approve, reject, execute, verify, certify | overlapping requests, check-then-write transitions, interrupted executions | nothing runs unapproved, nothing unverified is certified, a rejected incident stays rejected, executions conclude |
| Automations, `automations/scheduler.py`, `src/scripts/run_automation_worker.py` | schedules, approval and enabled flags, next and last run, counts | create, approve, enable, delete, due, run_due, queue_due_hosted | two dispatchers on one table, snapshots used after long tools, late sweeps, crashes, an unknown tool | one-shots once, intervals spaced, withdrawal honoured, due means run |
| Agent teams, `agents/teams.py`, `agents/parallel.py`, `teammates/service.py` | teams, teammates and their contracts, approved plans, run rows, outcomes | edit, set members, delete, plan, run in waves on a thread pool | teams and contracts edited after the approval, failures inside a wave, crashes | dependencies pass first, what is below a failure is blocked, the verdict accounts for every task, runs end |
| Background jobs, `jobs/engine.py`, `tools/builtin.py` | job rows, futures, one engine per process | job_submit, the pool's runner, job_list, job_show, job_cancel | the future and the row move apart; two first requests, of whatever kind, make two engines; a restart loses futures | a cancelled job never runs, a waiting one can be cancelled, every job settles |
| Approval gate of the API, `api/app.py`, `api/security.py` | approvals | approve, resolve, invoke, consume | two calls with one approval, a crash after the tool | single use |
| Billing, `billing.py`, `api/billing.py` | one entitlement row per principal | checkout, webhook, entitlement check | events repeated, late, out of order, of several subscriptions | a principal is entitled to what it pays for |
| Agent runtime, `runtime/agent.py`, `runtime/store.py` | messages, tool_calls | a turn of a session, with tool calls | turns that overlap, fail or are resumed; ids of the provider | what is sent is a conversation, rows tell what ran |
| Session todos, `session/store.py` | todo rows with dependencies | add, plan, update, complete, reopen, rewire, remove | decisions on rows read earlier | verified means somebody verified it, DONE rests on DONE, no todo is stuck |
| Workspace files, `workspace_files.py` | files, copies and manifests by fingerprint | plan, apply, verify, roll back, undo | files changed underneath, crashes inside a mutation, calls with one fingerprint | nothing is lost, a rollback leaves nothing behind |
| Ingestion DAGs, `src/hospitality-snowflake-data-platform/airflow/dags/` | watermarks, landing directories, RAW rows, audit rows | extract, validate, load, record quality | retries of half-done tasks, late commits at the source, rejected rows, files of entities whose names begin alike | every committed row is loaded, or there is a cause that it is not |
| Warehouse diff, `quality/warehouse_diff.py` | none beyond a run | partition, sign, split, fetch, compare | boundaries, missing keys, two orders of strings, rows rendered alike, tables written to meanwhile | equals a comparison of all rows |
| Document index, `knowledge/pipeline.py`, `retrieval/index.py`, `api/competitive.py` | chunk rows, a manifest per source | process, delete the source, upsert a row | a crash between chunks and manifest, overlapping calls | a document reported as synchronized is in the index |
| Memories and training, `memory/store.py`, `training/learned.py` | memories, training entries, settings of a scope | save, update, remove, reset, configure, import | look, count and insert in separate statements, settings written back whole, rows that expired | what was saved is listed, what was removed is not, the limit holds, disabled stores nothing |
| Editor protocol server, `acp_server.py` | one cancellation flag per session | prompt, cancel | a flag shared by prompts, looked at between awaits | a cancellation stops the prompt it came for |
| Tool registry and policy, `tools/registry.py`, `policy.py` | none (definitions) | describe, invoke | none: a decision function | the decision table |
| Governed plans, `snowflake/governed_mutation.py`, `governance/permissions.py`, `compute/jobs.py`, `apps/generic.py` | persisted plans | plan, approve, execute, verify, roll back | stale plans | executed as approved |
| Lineage, semantic layer, adapters, front ends | indexes, caches | build, search, render | external I/O | outside a model's reach |

How they interact: an automation calls the tool registry (local backend) or
submits a hosted job (hosted backend) that carries its approval; a hosted worker
calls the same registry; the registry's verdict (allowed, or refused for want of
approval) is the only thing the modules need of it, and appears as the constants
`Gated` and `Guarded`. The incident control plane is reached from API routes
that run in a thread pool over one store, and from tools and the CLI that open
their own store on the same file. A call of the mutating tool `job_submit` comes
through the approval gate and submits its job on the thread that was cleared:
`ApiProcess` composes the two, which die together and keep their rows in two
databases. The other services share no state with one another.

`PROJECT.json` lists every component with what is modelled of it, every hazard
with the line where it bites, and the map from definitions to source lines.

## 2. Modules

| Module | Models |
|---|---|
| `HostedRunner` | the job queue and its workers |
| `AttemptLedger` | the abstract specification `HostedRunner` implements |
| `HostedRunner_proofs` | the queue: nine theorems, the refinement among them |
| `IncidentRemediation` | the incident control plane |
| `IncidentRemediation_proofs` | the control plane: two inductive invariants and six properties |
| `Automations` | the scheduler and its dispatchers |
| `Automations_proofs` | types, withdrawal, one-shots and intervals |
| `AgentTeams` | the team coordinator, its thread pool and the tables it reads |
| `AgentTeams_proofs` | its inductive invariant and nine theorems |
| `BackgroundJobs` | the job engine and the tools that submit, list, show and cancel |
| `ApprovalGate` | approvals of mutating calls |
| `ApiProcess` | the gate with the job engine behind it, in one process |
| `ApiProcess_proofs` | invariants of gate and jobs, that the process implements both, and what follows |
| `Billing` | entitlements beside an external Stripe |
| `AgentLoop` | the turns of one session over its two tables |
| `SessionTodos` | the todos of one session |
| `WorkspaceFiles` | governed file mutations with their way back |
| `Ingestion` | an incremental DAG beside a source that commits late |
| `WarehouseDiff` | `hash_diff` of two tables, query by query |
| `DocumentIndex` | one source of the search index and its manifest |
| `MemoryStore` | memories, training and settings of one scope |
| `AcpAgent` | prompts and cancellations of an editor session |
| `Agents_proofs` | `AcpAgent`, `AgentLoop` and `SessionTodos`: their invariants and properties |
| `Stores_proofs` | `WorkspaceFiles`, `Billing`, `DocumentIndex` and `MemoryStore`: the same |
| `Data_proofs` | `Ingestion` and `WarehouseDiff`: the same |
| `MCHostedRunner`, `MCIncidentRemediation`, `MCAutomations`, `MCAgentTeams` | instances for TLC |
| `MCScheduled` | instances of `Automations` and `Ingestion` |
| `MCBackground` | instances of `AgentTeams` and `BackgroundJobs` |
| `MCServices` | nine instances of the other services; gate and jobs run as one, `ApiProcess` |

Operators whose comment says "Variant" are mutated forms of the operator that
follows; no specification uses them. They show that a property notices the
fault.

`MCScheduled`, `MCBackground` and `MCServices` put several independent modules
into one run. A variable `focus`, chosen at the start, says which of them moves;
because they share no variable, every behaviour of each module is a behaviour of
the run and nothing is gained or lost by their being there together.

### HostedRunner

`jobs` is the table `hosted_jobs`, one record per row, with three history fields
(`expiries`, `recorded`, `retried`); `offer` is what the registration of each
runner id lets it take; `worker` holds the local variables of each `run_once` in
progress; `cancelling` the cancels between their SELECT and their UPDATE.
`run_once` is split where it touches the database: `Poll` (heartbeat,
registration, recovery of lapsed leases), `Select` / `FindNothing`, `Claim` /
`LoseClaim` (the conditional UPDATE and its rowcount), `Invoke` (the tool),
`CompleteRead` / `CompleteRefused` / `RaiseRefused` (the ownership check, with
the except branch of `run_once` that completes again as `BLOCKED_POLICY` after
its own `PermissionError`), `CompleteWrite`. A profile stands for a tool name
with its workspace policy and approval: what matters is which registrations
accept it and whether the registry refuses it (`Gated`). Time is reduced to two
facts of a row, "the lease has lapsed" and "the job is available", each of which
may come at any moment.

### AttemptLedger

The promise that survives everything: attempts are numbered, each is granted to
one worker, and an outcome shown is attributed to the attempt of the worker that
reported it, which reports once. `ImplementsLedger` is the refinement.

### IncidentRemediation

`incident` holds the columns of `incidents` and `remediation_plans` that guards
read or the properties name, `asset` the latest certification of each asset,
`caller` the request each thread serves. `transition()` and `update_outcome()`
read the row without the lock and write it under the lock, so each is a read
step that remembers what it saw and a write step that does not look again;
`After` is the supervisor's script, what it does once a state is entered. `torn`
is history: a state was overwritten by a transition that had read another one.
The recheck of the shipped scenarios always passes (`agents/supervisor.py:369`,
`agents/scenarios.py`), but the code has the other branch, so `Sound` is a
constant. The columns an investigation fills before anyone else may act on its
incident are left out. The PostgreSQL store has the same read and write steps.

### Automations

`row` is the table, `sweep` the snapshot of due rows and the fixed `current` of
each `run_due` or `queue_due_hosted` in progress. One tick is the second that
`create` and `set_enabled` take off the time. `NextRun` is `next_run`, with
hourly, daily and cron schedules as a grid of instants. `Advanced` is the UPDATE
after a dispatch, which both functions share. `Dispatch` covers the invocation
and every failure the code catches; `Abort` is the lookup that stands outside
the `try`. `past` is history only.

### AgentTeams

`team` and `contract` are the tables other processes edit; `plan` is the
approved plan with the team and the contracts it was digested from, so that
comparing fingerprints is comparing values; `phase` is the place of
`TeamCoordinator.run`, `row` the row of the run, `work` the subagents on the
thread pool, `outcome` the local dictionary `outcomes`. `run` is split where it
touches a table or waits: `CheckTeam` (the fingerprint), `Validate` (the members
once more), `StartRun`, `Round` (the head of the loop: block, find the ready
tasks, read their teammates, submit), `BeginTask` / `EndTask` (a thread of the
pool), `Collect` (one task's verification, against the contract of that moment),
`CompleteRun`. A result is `VERIFIED` if it delivers what a contract asks for.
The validation of the graph is stated by what makes its loop fail: a set of
pending tasks of which none is ready. `Upstream` is the least set closed under
dependencies. `drift` is history: edits between the comparison and the row, and
the teammates edited since the plan. The approval fingerprint presented to `run`
is the plan's own; another is refused without effect. A plan is run once.

### BackgroundJobs

`jobRow` is the status column of `background_jobs`, `future` the job's future in
the pool with the steps of its runner, `registry` the process-wide
`_JOB_ENGINES`. `handler` says where each request thread stands: one per job
submitted, and one per listing, showing or cancellation (`Lookups`). All four
handlers begin with `_job_engine`, whose lookup and construction are two steps
(`FindEngine`, `MakeEngine`), so that a list or a cancellation that found no
engine may replace the one a submission has registered meanwhile. `submit` is
split where another thread can see the difference: the row, the handing over to
the pool, and the entry in `_futures` without which `cancel()` finds nothing.
`raced` is history: the requests that found no engine beside another that found
none; `refused` is the waiting jobs whose cancellation was answered False, with
the place of their own handler at that time. The runner's first UPDATE stands
outside its `try` (`MarkFails`), a result that cannot be recorded becomes a
failure (`RecordRaises`), and a crash takes futures and engines but no rows. The
verdict of the tool is left open.

### ApprovalGate and ApiProcess

What an approval and a call must agree on (run, tool, environment, action) is
one scope. `Resolve` reads the row and compares, `Invoke` calls the tool,
`Consume` marks the row afterwards: three steps in the code, so two calls may
pass the first before either has done the last. In `ApiProcess` the invocation
is a `job_submit`: the handler's steps are those of `BackgroundJobs` on the
cleared thread, and `ApiCrash` is the crash of both.

### Billing

Stripe is an external model: each change of a subscription makes events that
carry the state it has then, delivered at least once and in any order. `Applied`
is `apply_stripe_event`. `newest` and `reflected` are history that says whether
the row was last written from the latest event.

### AgentLoop

`transcript` and `toolRow` are the tables `messages` and `tool_calls`. A turn
reads the conversation (`AskProvider`, with any suffix that compaction may
leave), gets a sequence of tool calls, and runs them between a row and a
message. The ids of `Positional` turns are places in the response, as
`providers/gemini.py` numbers them; rows are replaced by id. A turn may stop at
any step, may run beside another, and its session is resumed by the next.

### SessionTodos

`todo` is `session_todos`; a call holds what it has read. `update_todo` reads
the row, then each dependency, then writes status and the verified flag it
computed from the row it read; `add_todo`, `todos_from_plan`,
`set_todo_dependencies` and `remove_todo` likewise check first and write later.
Five history sets name what a property excuses.

### WorkspaceFiles

`disk` is the content of each path, with `TORN` for a file truncated and not yet
written; `rollback` the directory of a fingerprint. `workspace_file_apply` is
split at every file operation: `Replan`, the copies, the manifest, the mutation
(in two steps for a write), the verification command, the comparison, and the
undo that a failure or anybody later may run. `Edit` is any other writer. A call
that died before its manifest has `lapsed`: what a later undo finds under its
fingerprint is the manifest of an earlier call.

### Ingestion

`mark` is the Airflow Variable of each entity, `raw` the RAW table by batch,
`task` and `tries` the state of the DAG run. A source transaction stamps its
record and commits later; `late` remembers the records that were in an open
transaction, or stamped in the very instant, when an extraction looked. Each
version of a row is a record, `newer` are its later versions, and an extraction
sees the latest one committed (`Visible`), since `SELECT *` has no others. A
task may be interrupted at any step and begins again from its start. `landed` is
the directory that `mkdir` refuses to make twice.

PUT and COPY are two steps for each entity. COPY takes every file below a stage
prefix that ends with the entity's name and no slash: `takes` says which names
begin with which, as `ROOM_TYPE` begins with `ROOM`. `stage` is the file of each
entity with what the load history of RAW knows of it; whether a file that was
put again counts as new is left open. Rows of RAW carry the name of the
statement that copied them, and the watermark is
`MAX(SOURCE_UPDATED_AT)::varchar` of them, whose rendering (`rendered`) may lose
the end of the instant. COPY may reject the records of `Doubtful`. `overrun` is
history: the instants after its extraction that a watermark was moved past.

### WarehouseDiff

`table` holds the rows of each key on both sides, `stack` the partitions left.
Every query is a step (`FindSourceRange`, `SignSource`, `SignTarget`,
`FetchSource`, `Compare`) so that writes fall in between. The three ways to
partition are the values of `strategy`; a midpoint is the middle of a range or
the key of the middle row. Keys are numbered in the order of Python, in which
`hash_diff` chooses the outer of the two ends it found; `collation` ranks them
in the order in which the warehouses answer MIN, MAX, ranges and ORDER BY, where
strings may also be equal. The two orders are one for numbers and timestamps. A
signature is the number of rows of each digest, whatever their key, as a count
and sums of hashes are, and `digestOf` says which rows the rendering does not
tell apart: `NULL` and the text `<NULL>`, also in the key. Three things are
assumed of the warehouses: both have one collation (`AUTO` takes `LEXICOGRAPHIC`
for one platform only, line 438), both render a value alike, and hashes that
differ have sums that differ.

### DocumentIndex

`row` is the configuration (metadata and embedding provider) of each chunk's
row, `manifest` the version that was recorded. `process` compares both, deletes
the rows, writes the new ones and records the manifest, a statement at a time;
`search_delete_source` and `search_index` write beside it. Ids of chunks depend
on the content only, so two versions may have the same chunks. `alone` and
`loose` are history: whether a call overlapped another, and which rows have had
no manifest written after them by a call of their own.

### MemoryStore

`memory` and `training` are the rows of the two tables, named by the call that
inserted them; `enabled` is the setting of the scope. `save_memory` reads the
settings, looks for a row of the same content and renews it or inserts one;
`update_memory` and `configure_memory` write back what they read;
`save_named_training` looks, counts and inserts, and `import_markdown` does so
for as many sections as there was room for at its start. Tool calls open a
connection each, and a SELECT holds no lock, so other calls come between any two
statements. Only `update_memory` may store text while memory is disabled, since
it does not look at the setting. Listings are not cut at their limit.

### AcpAgent

What lies between two awaits of the event loop is one step. `cancelled` is the
session's membership in `_cancelled`, which `prompt` looks at before the model
is asked, after it, and before each chunk but the first. `struck` and `robbed`
are history: who was there when a cancellation came, and whose it was answered
by another.

## 3. Runs

| Run | Instance | Shows |
|---|---|---|
| `HostedRunner` | 3 workers, two of them with one runner id; 1 job with up to 2 attempts; 1 lease lapsing under a live worker, 1 re-registration; cancels at any time | which guarantees survive stale completions and cancels; refinement of the ledger |
| `HostedRunnerLive` | 2 workers with different capabilities, 2 jobs, one profile refused by the registry, 1 crash | every servable job is settled |
| `HostedRunnerCancel` | 2 workers | **finding**: a cancelled job is queued again |
| `IncidentRemediation` | 2 callers, 2 incidents, one of which fails its recheck, 2 certification targets, 1 interruption | approval, single execution, rejection and resolution under overlapping requests; started remediations conclude |
| `IncidentRemediationTerminal` | 2 callers | **finding**: a rejected incident is remediated |
| `Scheduled` | automations: 2 dispatchers, an interval and a one-shot, 5 instants, 1 request, 1 crash; ingestion: 2 runs over 2 entities, the name of one beginning with that of the other, and 3 records, 2 of them versions of one row, 3 instants, one of them rendered as the one before, 1 retry, 1 interruption, 1 record COPY may reject | one-shots, spacing, withdrawal; nothing passed over without cause, ingestions end as they should |
| `AutomationsLive` | a worker, 3 automations of both backends, one of them with an unknown tool that sorts after the first, limit 1, 1 request and 1 crash at any moment | a due automation gets its turn |
| `AutomationsBroken` | 2 intervals, one with an unknown tool | **finding**: the other one starves |
| `AutomationsDisable` | 1 interval, 2 dispatchers | **finding**: a disable is undone |
| `Background` | teams: 3 tasks, every graph of them up to renaming and three cycles, 2 teammates, a pool of 1 or 2, 1 edit, crashes; jobs: 2 on pools of one thread and a request that lists, shows or cancels, 1 crash, 1 failing statement | order, verdicts, contracts; runs end, cancellations are kept, jobs settle |
| `AgentTeamsStalled` | a chain of 3 tasks | **finding**: a failure at its head ends in the "impossible" error |
| `Services` | the other services, see below | their safety properties |

`Services` has: 2 turns with up to two tool calls per response, two steps, ids
by place; 2 calls and 1 approval at the gate, each submitting a job, with a
crash and a failing statement of each, and, while there is none, a request that
lists, shows or cancels jobs; 2 subscriptions of 1 principal, 5 events, 1
repetition; 2 todos and 4 calls, two at a time, plans of 2 steps; 2 calls of
every file operation on one existing and one new path, 1 foreign write or crash;
tables of up to five rows over 3 keys and the missing one, under all three
strategies, strings in the order of Python and in another, 1 write; 2 calls over
3 versions of a document of 2 chunks, 1 deletion or foreign row, 1 failure; 3
calls on 2 facts, 3 lessons with room for 2, a file of 2 sections and 1 expiry;
3 prompts, 2 cancellations, answers of up to 2 chunks.

Why the bounds suffice. The races are between two or three actors on one row:
three workers give a holder of a lapsed lease, its successor and a third that
polls; a second runner id and a shared one give both outcomes of the ownership
check. Two attempts are one retry. Two lapses in a row add nothing to one,
because the row forgets who held it. Two callers allow two executions, or an
execution and a rejection, to overlap; a second target makes certification
interruptible. Five ticks hold two runs of the interval, one of them late. Three
tasks hold a chain, a fork, a join and a triangle, so every way in which a
failure reaches a task directly or through another; one edit falls between any
two steps. Two turns overlap, or the second resumes what the first left; two
steps make an id by place occur twice. Two subscriptions of one principal and
five events hold an upgrade, a lapse and a cancellation that pass each other.
Two file calls share a fingerprint or a path, and the third party is the foreign
write. A second run of the DAG is the one that relies on the watermark of the
first; a second entity is the one a retry repeats and whose file the first
takes. Two jobs and a third request are an engine that is found, one that is
made and one that is replaced; a second such request reaches nothing new, and
the theorems hold for any number. Three keys with a partition of two rows make a
range split twice, and a key at a midpoint, at both ends and without a value.
Three calls on a store are two that overlap and one that meets what they left.
Three prompts are one that is cancelled, one beside it and one after it.

Symmetry is declared for the dispatchers in `Scheduled`, where nothing tells
them apart, and in no run of a liveness property. `CHECK_DEADLOCK FALSE` is set
where everything may be over: all incidents terminal, the clock at its horizon,
every call answered.

Fairness. `HostedRunner`: each worker's loop
(`src/scripts/run_hosted_runner.py`, restarted by its container) takes a step of
`run_once` when one is possible, and time passes (`BecomeAvailable`,
`LapseAbandoned`); nobody must submit, cancel or register, and a lease need not
lapse under a live worker. `IncidentRemediation`: a request once begun goes on;
no request need be made. `Automations`: the clock ticks, the worker polls, a
sweep once begun goes on. `AgentTeams`: the coordinator goes on, and the pool's
threads take and finish tasks (a subagent is bounded by `max_steps` and
`timeout_seconds`); nobody must plan, and the process may die. `BackgroundJobs`:
a request once begun, a pool thread with work and a cancellation once begun go
on; the conclusion excuses a crash or a failing statement, after which rows do
stay as they are. No strong fairness is used.

## 4. What the checks show

What holds in the control planes. Attempts are exclusive, retries are bounded by
`max_attempts` plus the number of recovered leases, and an outcome is final and
the latest, *until a lease is recovered while its holder still runs*: a lease is
never renewed, and without the proviso the properties are false. Execution,
verification and certification need a persisted approval whatever requests
overlap. A remediation runs once, resolved means recertified, and a rejected
incident is uncertified, *unless a transition overwrote a state it had not read*
(`torn`). One-shots and intervals of automations keep their schedule *unless two
sweeps held the row at once, a crash lost a record or it was enabled again*;
what is withdrawn while no sweep holds it stays quiet. A subagent starts only
after everything upstream of its task has passed, whatever is edited meanwhile;
a recorded `PASS` means every task was executed, passed and met its approved
contract, *unless its teammate was edited after the approval*: `run` reads
contracts afresh and compares only the team. Every run ends with a verdict or in
one of three states that leave its row `RUNNING`: the process died, a teammate
was deleted, or the error below.

What holds in the services, with the exceptions that the properties name because
the code has them:

* `StoppedNeverRuns`, `RefusedForCause`, `JobsSettle`: a job whose cancellation
  was answered True is never run and never shown as run. A waiting job whose
  submission has answered can be cancelled *unless its engine was made by a
  request that found none beside another that found none*, be that a submission,
  a list, a show or a cancellation (`tools/builtin.py:310`): one of the two
  engines is left out of the registry, with the futures of its jobs. Jobs settle
  *unless the process dies or a statement fails*.
* `SingleUseUnlessOverlap`: an approval serves one call, *unless two calls
  overlap*: both are cleared before either consumes it (`api/app.py:327`).
* `EntitledAsPaid`: after any repetition and mixture, once the latest event is
  the last that was applied the principal is entitled to what it pays for,
  *unless it held two subscriptions at once*. Until then a late event rules:
  neither ids nor times of events are looked at (`billing.py:281`).
* `RequestsAreWhole`, `RowsTellTheTruth`: each request is a conversation whose
  calls have their results, *unless a turn broke off or ran beside another*;
  then the next turn sends calls without results. A row of `tool_calls` tells
  what ran, but with ids by place a later step replaces the row of an earlier
  one (`runtime/store.py:62`), so the table is not the complete history that
  `src/README.md:399` would replay.
* `VerifiedByCaller`, `DoneRestsOnDone`, `StuckForCause`: verification, order
  and the possibility of completion hold *unless a call wrote what it had
  computed from an older row*: a progress note undoes a reopening
  (`session/store.py:343`), a removal beside an addition leaves a dependency
  nobody can finish, and `set_todo_dependencies` closes cycles.
* `NothingIsLost`, `RolledBackIsUnchanged`: at every instant the files are as
  the approved plan found them or the copies suffice to bring that back, *unless
  someone else wrote to them, or the call died before its manifest and was
  undone by that of an earlier call* with the same fingerprint, whose directory
  its copies share (`workspace_files.py:411`). A verification command that
  cannot be started leaves the change in place (`workspace_files.py:451`); the
  copies are there.
* `PassedOverForCause`, `RunsEndForCause`: the watermark passes over the current
  version of a row only when COPY rejects it, or its transaction was open when
  an extraction looked, which the strict comparison never makes good, *or a load
  was interrupted between PUT and COPY and repeated*: then the files of two
  entities whose names begin alike may both be in the stage, the rows of
  `ROOM_TYPE` are filed under `ROOM`, and the watermark of `ROOM` moves past
  records nobody extracted (`common.py:137`). A run without interruption fails
  only because an entity had nothing new.
* `DiffIsComplete`: for keys nobody writes to meanwhile, what the diff reports
  is so, and what is so it reports, at every boundary and with missing keys,
  *but for two exceptions*. A string key between the end that Python's `min` or
  `max` chooses and the one the collation would is overlooked
  (`warehouse_diff.py:587`): the source `apple`, `banana` against the target
  `Cherry` gives an empty range and no difference, if the collation ignores
  case. And rows rendered as those of another key, such as a missing key and the
  text `<NULL>` in one bucket, may cancel out in the sums.
* `SyncedIsIndexed`: a document reported as synchronized or unchanged is in the
  index with its metadata, *except rows whose writer died or overlapped before
  its manifest*, where going back to the previous metadata is taken for NOOP
  (`knowledge/pipeline.py:455`).
* `MemoryAnswersHold`: a saved memory is listed until it is taken away or its
  time has come, *unless the save ran beside another call or renewed a row that
  had an expiry*: saving again what has expired, without an expiry, answers with
  the id of a row that no listing shows (`memory/store.py:104`). A disabled
  scope stores nothing *unless a configuration of something else wrote an older
  setting back* (`memory/store.py:228`).
* `TrainingAnswersHold`: what was answered as saved is there, what was answered
  as removed is not, names are unique and the limit holds, *unless saves or
  removals overlapped* (`memory/store.py:454`).
* `CancelStopsPrompt`, `CancelStopsOnePrompt`: a cancellation stops one prompt,
  and the one it came for *unless another of the session takes it*. One that
  comes after the last look at the flag stops the next prompt instead
  (`acp_server.py:229`).

What does not hold although the repository says so, one finding each: a
cancelled job can be queued again; a `BLOCKED` incident can be remediated; one
automation with an unknown tool starves the others; disabling an automation
while its tool runs has no effect; a failed task with a dependent that has a
dependent makes `run` raise what its message calls impossible, and the run never
gets a verdict (the theorem `StallsBelowFailures` shows that nothing else makes
it so).

## 5. Proofs

TLAPS proves every invariant, action property and refinement that a passing run
checks, for every value of the constants that the named assumptions of the
modules allow. The argument is the same everywhere: what a call, worker or
request remembers of a read is tied to the row it was read from, *or* the
history variable that the property names says what came in between; the step
proofs then take one action at a time. For an inductive invariant that no
property had stated, TLC looked for a counterexample on an instance of the
module alone before the proof was begun.

* `HostedRunner_proofs`: `CoreInvariant` (`Spec => []CoreInv`) and from it
  `TypeCorrect`, `LeaseColumns`, `ExclusiveAttempts`. `CoreInv` adds to those
  three what makes them inductive: a worker inside a job holds an attempt not
  larger than the row's counter, and the counter only grows when a lease is
  taken by the conditional UPDATE. `ExclusiveExecution`, `LatestOutcome` and
  `FinalOutcome` rest on a second layer, `SoleInv`: while no lease of a job has
  been recovered, at most one worker is in the job with the current attempt,
  every other worker in it comes from an attempt that was written back as
  `QUEUED` or cancelled, and `recorded` follows the counter.
  `RetriesWithinBudget` counts: the workers in a job, and the row if it is
  queued, are one more than its recovered leases at most, and each of those
  about to queue it again still has an attempt to give (`WithinBudget`, on the
  cardinalities of two sets of workers). `QueueImplementsLedger` maps every step
  of the queue to a grant, a report or a stutter of `AttemptLedger`.
* `IncidentRemediation_proofs`: `CoreInvariant`, `TypeCorrect`,
  `ExecutionApproved` and `OnlyVerifiedCertified`. The strengthening records
  what each step of a request implies: a caller on the way to `REMEDIATING` saw
  a persisted approval (and approvals are never withdrawn), and for an incident
  that fails its recheck no caller ever stands behind verification.
  `RemediationInvariant` is about incidents that are not `torn`: what a request
  read still allows what it is about to write (`ReadAllows`), at most one
  request is past the start of the remediation, and the row is in step with it
  (`InStep`). `RemediatesOnce`, `RejectedUncertified` and `ResolvedRecertified`
  follow from it.
* `Automations_proofs`: `WithdrawnInvariant` says that what was stopped is
  disabled and in no batch, that what was revoked is approved nowhere, and that
  two dispatchers hold one automation only if they overlapped; `WithdrawnStays`
  is the action property. `OneShotsRunOnce` follows a one-shot from its
  dispatch, in the batch, to the write that leaves it without a next run.
  `IntervalsAreKept` bounds the last run, the next one and the instant of every
  sweep against each other, for any period.
* `AgentTeams_proofs`: nine theorems, from `CoreInv`, on any graph. Outcomes are
  only ever added, so the direct dependencies of a started task have passed and
  keep it that way (`StartedInOrder`); the passed tasks are then closed under
  dependencies, and `Upstream`, the least closed set, lies inside them
  (`StartedAfterDependencies`). A block is traced to its cause the same way.
  `GraphsAreAcyclic` takes the tasks upstream of themselves as the pending set
  validation would have been stuck on; `RoundStalls` uses the same fact on the
  tasks that remain.
* `ApiProcess_proofs`: `SingleUse` rests on the pairs of calls that share an
  approval and are past `Resolve`, `CancelledNeverRuns` on a cancelled future
  staying out of the pool across restarts, `CancellationRefusedForCause` on the
  engines: of two requests that are making one both are in `raced`, and so is
  one that is making its own while another is registered (`MakersAreRaced`); a
  request that has its engine, whatever its kind, has that of the registry, or
  both are raced (`HeldEngines`). `ProcessImplementsGate` and
  `ProcessImplementsJobs` map every step of the process to a step of each or a
  stutter, so `ProcessKeepsPromises` follows without another invariant;
  `JobsUnderApproval` is about the composition alone.
* `Agents_proofs`, the editor protocol: `StruckPromptsAreStopped` and
  `OnePromptIsStopped`. The flag stands before every prompt that was struck and
  not robbed; each cancellation is either still the flag or one answered prompt,
  which the proof counts.
* `Agents_proofs`, the agent loop: `RowsAreTrue` rests on where each turn stands
  and which row it has open (`TurnInv`): a row that somebody else replaced is
  the row of a turn with another beside it. `RequestsStayWhole` adds the
  conversation (`TalkInv`): the calls of a turn that is alone are the last
  request of the transcript, with the results so far right behind it, so that
  any end of the conversation that compaction leaves is whole when the turn asks
  again. A conversation only grows, and a message keeps its place.
* `Agents_proofs`, the todos: `VerificationIsVouched` and `CompletionsInOrder`,
  for any number of todos and calls. `FlagInv` adds what a call holds: a flag it
  is about to write was vouched for or the row was written since it was read,
  and the history knows it. `OrderInv` adds to that: the dependencies a call has
  accepted were `DONE` and are, or are in `regressed`, or the row was rewired.
  `StuckOnlyForCause` needs an order of the todos without a variable for it: no
  set of todos that were not rewired waits for itself (`AddedInOrder`), which
  every addition keeps because nothing depends on a todo that is new.
* `Stores_proofs`, the files: `FilesAreRecoverable` and `RollbacksAreComplete`
  from `SafeFiles`, which says at each statement of an undisturbed call what is
  on disk and in its directory. The attempt found what the bounds of the run had
  hidden: a call that dies between its snapshots and its manifest can be undone
  by the manifest of an earlier call with the same fingerprint. The model now
  tells such a call from others (`lapsed`), and the property excuses it.
* `Stores_proofs`, billing: `EntitlementsFollowPayment`. The newest event of a
  principal with one subscription at a time is in the mail or was applied last,
  and would make, or has made, the row what the principal pays for.
* `Stores_proofs`, the index: `ReportedSyncsHold`. Of two calls under way one at
  least has been crossed once either has written; what a call that is alone has
  compared, deleted and written is then still so, and the manifest's rows are
  its own or `loose`.
* `Stores_proofs`, memories and training: `MemoryAnswersAreTrue` and
  `TrainingAnswersAreTrue`. Two calls under way on a table are paired; a row was
  inserted by a call that is over; a save that counted fewer entries than the
  limit knows all that were added by calls it did not overlap. The limit is a
  statement about every set of entries no two of which overlapped (`Limited`).
* `Data_proofs`, ingestion: `PassedOverOnlyForCause` and `RunsEndOnlyForCause`.
  All that a watermark has passed is accounted for; the watermark moves to the
  latest stamp of what COPY took, which is not beyond the instant of the
  extraction unless the instants in between are in `overrun`; an extract has a
  version of every row that was due or stamped up to then, unless it is
  accounted for. Without an interruption COPY finds one file that is new, since
  those of entities before it are loaded and those after it are not put yet.
  Versions are followed without an order of their own: what supersedes a record
  supersedes what it superseded.
* `Data_proofs`, the diff: `DiffsAreComplete`. Every key nobody wrote to is
  agreed on, reported, at hand, in a partition of the stack, overlooked or
  confused; splits and midpoints lose none (`SplitsCover`, in the order of the
  collation), the ends found are keys with every other between them
  (`EndsAreKeys`), so that what the first range leaves out lies between two ends
  (`FirstRange`), and sums that are equal are of equal rows of each key that no
  other is rendered like (`EqualSignatures`).

`TypeCorrect`, `LeaseColumns`, `ExclusiveAttempts`, `BlockedBelowFailures`,
`StallsBelowFailures` and `StartsOnPlannedTeam` are proved for all values of the
constants and are not repeated as properties of a run.

Assumptions on the constants are what the code gives: a job of the ingestion
names at least one entity (`SourceAssumption`), a name begins with itself
(`NamesAssumption`), versions of a row are of one entity and in some order
(`VersionsAssumption`), a rendering cuts off and never adds
(`RenderingAssumption`), a collation ranks every key (`CollationsAssumption`), a
row has one digest (`DigestsAssumption`), an imported file has a section
(`import_markdown` refuses one without), a digest has finitely many different
digits, a version or a fact is not the value that stands for none, there is
something to ask for.

Only model-checked: the five liveness properties (`EventuallySettled`,
`RemediationConcludes`, `DueIsDispatched`, `RunEnds`, `JobsSettle`), since
fairness and `ENABLED` are outside the prover's reach. The findings are
counterexamples of TLC.

## 6. Plan

The modules and runs are complete as far as section 7 goes, and so are the
theorems about the safety properties of the runs. What is left:

1. The safety half of the liveness properties: in which states nothing can go
   on, for any number of jobs, tasks and callers, such as that a started
   remediation which is not over has a request that holds it or was interrupted.
2. An abstract specification for the stores of `Stores_proofs` that have none,
   of what an answer promises, implemented step by step while nobody overlaps.
3. Type correctness as theorems of its own for the services.

## 7. Not modelled

Within the modelled components: time zones and daylight saving of cron
schedules; the contents of tools, evidence, plans and results; SQLite's own
locking (each statement is atomic, a "database is locked" error is one of the
failures); heartbeat metadata; the readiness report of an idle poll; hooks,
traces and context sources of the agent runtime; the permission dialogue of the
editor protocol; the text that is parsed, cut into chunks and searched;
`LOAD_HISTORY` and the file sources of the ingestion.

Whole parts, with the reason:

* `tools/builtin.py` beyond the job tools, `semantic_platform_cli.py`, most of
  `api/app.py`: wrappers that pass arguments to a component and render what it
  answers.
* `snowflake/pipeline.py`, `airflow_compat/control.py`,
  `advanced_capabilities.py`, `dbt/nextgen.py`, lineage, profiling, cost and
  semantic analyses: functions of what an external system answers, without state
  of their own between calls. A model would restate their formulas.
* Governed mutations, permissions, compute jobs and generated apps: one call
  compares the fingerprint of a plan, runs one statement and reads back. The
  window between the reading and the statement is the external warehouse's.
* `tools/registry.py`, `policy.py`: a decision table, whose verdict the modules
  take as a constant.
* Artifacts, checkpoints, the training corpus: stores of single rows, whose
  statements do not depend on one another.
* MCP, notebook, IDE and warehouse adapters, web and desktop front ends, the
  demonstration backend, data generators, deployment files: external programs,
  rendering, and code that is not the platform's.
