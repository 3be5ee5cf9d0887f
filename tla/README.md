# Formal models of the data platform

TLA+ specifications of `src/dataplatform`, the TLC configurations that check
them on small instances, and TLAPS proofs of the properties that matter most.
The code is the reference: every definition that models code is listed with its
lines under `map` in `PROJECT.json`.

## 1. The system

A FastAPI server (`core/api.py`) accepts pipeline runs and keeps everything in
one database (`core/database.py`; PostgreSQL in production, SQLite in
development). Runs are executed by threads of the server ("embedded") or by
external worker processes that poll a queue table. A second, separate program
drains streams into a SQL sink.

| component | state | operations | interacts through |
|---|---|---|---|
| run queue (`database.py:2850-3392`, `leases.py`) | table `pipeline_queue` | enqueue, claim, renew, set status (fenced or not), complete, reap, sweep orphans | the table; the lease a thread works under is a thread-local |
| queue workers (`queue_worker.py`) | program counter, lease, heartbeat flag | sweep once, then reap / claim / execute, heartbeat in a second thread | the queue, the history |
| run API and history (`api.py`, `pipeline_runs`) | history table, embedded pool | submit, run in background, cancel, repair, sync run, log stream | both tables, the pool, triggers |
| streaming runner, source, sink (`streaming/`) | source cursor; `stream_state`, record table, `stream_windows` | read offsets, check fence, poll, commit in one transaction, retry, crash | the sink's tables only |
| event-time windows (`streaming/windows.py`) | per-partition maximum, last-seen times | observe, classify, close, restore, resync | inside the sink's transaction |
| executor and DAG (`executor.py`, `dag.py`, `config.py`) | futures and attempts of the tasks of one run | validate, layer into waves, run, retry, time out, check quality, repair | called by every runner of pipelines |
| embedded pool (`worker.py`) | futures, active runs | submit, file, cancel, clean up | request handlers, `execute_pipeline_background`, both tables |
| backfill and intervals | `pipeline_queue` rows with a window | plan, confirm, submit | the queue |
| scheduler, triggers | jobs, callbacks and threads in memory, mirrored in tables | register, fire, remove, restore | history, executor |
| alert rules, incidents, notifications (`observability.py`, `alerts.py`) | `alert_rules`, `alert_incidents`, channels, deliveries | sample, evaluate, open, update, resolve, acknowledge, notify | the queue table |
| deployments, connections, versions | three tables and the pipeline's file | save, restore, validate, deploy, roll back | the file, connections |
| git integration (`git_integration.py`) | a clone per remote, the pipelines directory | ensure clone, push, pull, status, workspace edits | a remote others push to |
| lineage (`column_lineage.py`, `lineage_checks.py`) | column edges | scan, resolve, check a change | SQL files, a git ref |
| generators (`nlp_generator.py`, `pipeline_generator.py`) | – | text to pipeline, three engines in turn | the executor's validation |
| streaming harness (`generator.py`, `baseline.py`, `verifier.py`) | a sink, a manifest | generate, consume, kill, verify | the streaming runner |
| the rest | one table each, or none | reads and single-row writes | – |

What is hard here: workers and runners that stall, are replaced and come back;
kills between any two steps; two transactions that both read before either
writes; writes to two tables with no transaction around them; acknowledgements
that are lost; threads that outlive what started them; memory that mirrors a
table across restarts; deadlines. `hazards` in `PROJECT.json` lists each place.

What makes each part correct:

* queue: a fencing token is never handed out twice; a holder that lost its run
  can never write under its lease again; a lease with time left is nobody
  else's; a run is buried only after its last attempt; every queued run ends.
* workers: a run is called completed only if the named attempt completed it.
* streaming: no record lost, none counted twice, a drained source is durable.
* windows: lateness depends on the watermark before the batch and survives a
  restart; every record is counted or recorded as late.
* executor: no task starts before what it depends on has succeeded; one report
  per task; no two attempts at once; every run ends.
* embedded pool: a confirmed cancellation stands; an accepted run is forgotten
  only where section 4 says so.
* backfill: every window of a submitted range has a run, and none has two
  unless operators overlap.
* scheduler, triggers: memory and table agree through crashes, except for what a
  restore that failed has left out and logged; what was removed stays removed.
* incidents: one per rule and target, reported once, closed when the metric is.
* deployments: the active record is the newest that stands.
* git: the editor's commands keep drafts (push, pull and status of the other
  family of endpoints reset the clone); "up to date" is said truthfully of a clone
  that is not ahead of its remote.
* lineage, generator, verifier: the answer means what its documentation says.

## 2. Modules

| module | models | kind |
|---|---|---|
| `RunQueue` | `pipeline_queue` and the functions that write it, for arbitrary clients | component |
| `QueueWorkers` | submit path, worker processes, heartbeats, history; extends `RunQueue` | composition |
| `RunLifecycle` | what the queue promises: one numbered attempt at a time, outcomes are final | abstract |
| `StreamCommit` | `run_stream` over `JsonlSource` and `SqlTransactionalSink` | component |
| `ExactlyOnce` | what the stream promises: a cursor that moves with the counts | abstract |
| `StreamCommitProofs` | inductive invariants, theorems and the refinement | proofs |
| `EventTime` | watermark tracker, window planner and the tables they write; extends `StreamCommit` | composition |
| `TaskOrder` | what executing a pipeline promises: tasks start when what they need has passed | abstract |
| `TaskGraph` | layering of a graph, as `config.py`, `dag.py` and the generators use it | functions |
| `Executor` | validation, waves, pool, attempts, checks, repair; maps to `TaskOrder` | component |
| `EmbeddedRuns` | handlers, pool, bodies, log streams and restarts of the API process | component |
| `Backfill` | windows, planning and submission by concurrent operators | component |
| `Triggers` | sensors, completion callbacks, their table, restarts | component |
| `Schedules` | cron jobs, their table, restarts | component |
| `AlertIncidents` | samples, rules, incidents, channels, deliveries, collectors | component |
| `GitSync` | remote, clone, index, pipelines directory | component |
| `Releases` | file, versions, connections, deployment records | component |
| `Lineage` | column resolution, the store, the gate | functions and component |
| `Generator` | a text's sentences to tasks, three engines | functions |
| `Verifier`, `Baseline` | the harness's reports; the consumers they are about | functions, component |
| `Lists` | Python's list comprehension with a condition | functions |
| `DataLemmas` | lemmas on numbers, finite sets, sums and sequences | proofs |
| `QueueProofs` | theorems of `RunQueue` and `QueueWorkers`, and the refinement of `RunLifecycle` | proofs |
| `EventTimeProofs` | theorems of `EventTime` | proofs |
| `PipelineProofs` | theorems of `Executor`, its refinement of `TaskOrder`, and theorems of `Generator` and `Lineage` | proofs |
| `ServerProofs` | theorems of `Triggers`, `EmbeddedRuns` and `AlertIncidents` | proofs |
| `RecordsProofs` | theorems of `Schedules`, `Releases`, `GitSync`, `Backfill` and `Baseline` | proofs |
| `PlatformProofs` | theorems of `MCPlatform`: the invariants above side by side, and the types | proofs |
| `MCRunQueue`, `MCQueueWorkers`, `MCStreamCommit`, `MCEventTime`, `MCPlatform` | instances for TLC | model checking |

Which module uses which: `QueueWorkers` extends `RunQueue` and is mapped to
`RunLifecycle`; `EventTime` extends `StreamCommit`, which is mapped to
`ExactlyOnce`, and `Verifier`, whose comparison it is checked with; `Executor`
extends `TaskGraph` and is mapped to `TaskOrder`; `Generator` loads what it
builds with `TaskGraph`; `Baseline` extends `Verifier`; `Triggers`, `Backfill`,
`Executor` and `Generator` filter lists with `Lists`. The components share nothing
but a database with separate tables, so `MCPlatform` puts them side by side.

### RunQueue

One variable per column, a function from run ids. `attempt` is the fencing
token. Each function of `database.py` opens one connection and commits once, so
it is one action; the reaper's two UPDATEs are in one transaction and are one
action over the whole table. `Lease` is the triple a claim returns;
`leases` (all that were ever granted) and `revoked` (those the reaper took) are
history variables. `QueueNext` lets the holder of *any* lease in `leases` use
it at *any* time: a stalled worker is not a special case. `Unfenced` is the set
of statuses that callers without a lease write: cancellation.

`SkipLocked` chooses between PostgreSQL's claim and the one of other backends,
which reads candidates and then tries to take one of them: `QueueTypeOK` and the
rest hold for both, since a candidate that was taken is only skipped.

The clock is shared (`Tick`): every deadline is computed and compared with
`_now_iso()`, and hosts are taken to agree. A deadline is kept as the ticks
left, an age stops at `StaleTicks`, so time is finite without being cut off.

### QueueWorkers

`pc[w]` is the next step of worker `w`; the heartbeat is a second thread of the
worker (`BeatOnce`) that shares `held` and `lost`. The steps of
`execute_pipeline_background` are one action per transaction, with what the
code computes between them. Any step of the try block may raise instead
(`RaiseInTry`), and so may the except block (`RaiseOut`). A crash forgets the
worker and leaves the tables. The action `SetRunStatusInQueue` ignores the
result of a fenced write, as its caller does; `history` is written unfenced.

Cancelling (`cancel_run`) is a request of its own: the row is read
(`CheckCancel`), the history is written, the queue row is written, each a
transaction and none fenced. A worker that claims in between is *overtaken*; what
the queue still promises of such an attempt is what the properties say.

`Load` has no effect on the tables and stands for loading the config, so that
it can fail before the try block. Whether tasks succeed is open in `Execute`.

### RunLifecycle

A run moves absent, queued, running, outcome. A grant raises the token by one; a
revocation keeps it; a burial happens at `MaxAttempts`. The reaper and the
sweep touch many rows at once, so a step is a step of any set of runs.
`Retract` is there because the code needs it: an error after the report turns
completed into failed.

### StreamCommit

A record is a pair (partition, position). Window sums are sums of increments,
so an aggregate is kept as the number of times each record was added: the
correct value is 1, a double count is 2. `poll` is characterised by the offsets
it can return: a number of whole rounds and a part of the next one, exhausted
partitions skipped. `commit` is two actions, its reads (`BeginCommit`) and its
writes with the COMMIT (`WriteCommit`); `RowLock` says whether the fence row is
read FOR UPDATE. On SQLite the transaction begins with the first write, so
nothing is locked by the reads; a stream without rows has nothing to lock on
either database. `Fail` is a transient error at any sink call, "committed"
being the lost acknowledgement. `Overlap` says whether a runner may start while
an older one is alive: FALSE is the deployment the docs describe, TRUE is what
the code allows.

### EventTime

Every action of `StreamCommit`, with what it does to event time; `Commit`
replaces `WriteCommit`, whose window update it refines: a record may now be set
aside instead of counted. `maxSeen` and `silence` are the tracker in the memory
of the one live runner, `stored`, `late`, `revision` and `closed` are columns.
`Restore` happens when a sink is built (`OpenSink`) and after a commit that
raised (`FailAndResync`); `FailWithoutResync` is the outage in which that read
fails as well, which leaves the tracker as it was or, if the plan had been made,
as the plan left it. Event times are integers; processing time only decides
idleness and is the number of ticks since a partition spoke.

### Executor and TaskOrder

One run at a time, then possibly a repair of it. `ConfigAccepts` is
`validate_task_graph`, which compares names and ids as they are written, and
`Builds` is `DAGBuilder`, which resolves them; they differ, and `PlanRun` refuses
what only the second finds cyclic. A wave is submitted whole, its tasks wait for
one of `Slots` threads (`StartAttempt`), an attempt is executed by a thread of
its own, ends well or badly, or times out; `execute_task` then waits for the
thread it gave up on (`LateEnds`, `executor.py:168-175`). `Collect` is
`as_completed` in any order. A task that raises before its first attempt is a failed
task of the parallel executor (`RaiseEarly`); the sequential one lets the exception out
and its run ends without results (`RaiseOut`, verdict "raised"). `TaskOrder` knows none of this: the mapping takes a
task from waiting to active with its first attempt and to a result when it is
collected. `banked` and `lapses` are history variables: the tasks that succeeded
in an ancestor of a repair, and for each ancestor the tasks it failed at.

### EmbeddedRuns

`submit[j]`, `cancel[j]` and `body[j]` are program counters: of the handler that
accepts the run, of the one that cancels it and of the pool thread. The pool's
dictionary entry is written after the future exists and is removed by a callback,
so `FileFuture` and `AttachCallback` interleave with the body that already runs. `viewer[j]` is a log stream
and counts the ticks since its last line. `KillApi` forgets all of it and leaves the tables;
`StartApi` sweeps, as `recover_orphaned_runs` does in this mode. What the body does
after it reported the outcome may raise too (`RaiseInBody` from "reported"): the
except block then reports a failure of a run that has just been called completed.

### Backfill

A schedule is the set of instants at which it fires; `WindowsBetween` is the
definition of the interval module over that set. Each operator reads
`covered_windows`, plans, confirms and inserts one row per step, and may die
between two. `MaxRuns` is `DEFAULT_MAX_RUNS`.

### Triggers, Schedules

Requests run on the event loop, one at a time, but `Unregister` waits for the
sensor's thread (`JoinThread`), and the callback thread of a finished run
(`CallBack`) works from a copy of the list. `KillProcess` forgets threads and
registry; a start restores them from the table. One try block holds the whole
restore, so an exception in reading the table or on a row ends it, and the server goes on:
`StartProcess` restores any part of the table and puts the rest into `skipped`.
`Schedules` is the same question for cron jobs, where a write that fails is only
logged (`Persists`), and so is a start that cannot read the table: it has no jobs,
and every pipeline with a row is `missed`.

### AlertIncidents

`collectors[c]` is where a collector stands in `collect_observability_metrics`:
sampled, evaluating a rule for a target, creating or resolving an incident,
choosing targets, telling them. Every transaction is a step, so collectors and
operators interleave between the read and the write. Four metrics and one
comparator stand for the rest.

### GitSync

A history is a sequence of commits, a commit a file map. `EnsureClone` clones,
fetches, and resets or fast-forwards, as the code does. The handlers block the
event loop, so a request is one step, except the push: `git push` is a step of
its own (`PushAccepted`, `PushFails`), before which somebody else may push and
after which the acknowledgement may be lost. `OtherCommit` is the rest of the
world, `EditLocal` the platform's own editor of pipeline files.

### Releases

The file, the saved versions and the deployment records of one pipeline.
Validation and snapshot are two reads of the file with an edit possible in
between; a rollback marks the active record and revives the newest one that was
not rolled back.

### Lineage, Generator, Verifier, Baseline

A statement of `Lineage` is the list of its SELECTs, each after those it selects
from, the outermost last. What the resolver finds behind a column of a SELECT
(`ColumnBehind`) is computed from what it finds in the SELECTs before, by one pass
along the list (`Walk`); `MaxDepth` and `MaxHops` are the limits of `_Resolver.resolve`
and of `column_impact`. The edges are those that `_edges_for_scope` records; their
kind is kept as far as the check goes by it. The properties have a reading of SQL of
their own: the columns that each SELECT really has once the models have run
(`RealColumns`), and those a statement is computed from (`Feeds`). The
component around it edits models, merges, scans and checks. A file may fail to parse
(`NotSql`): it has no target and is not among `ParsedModels`. `ModelsAtRef` asks git for
the files that are there now and takes any that it cannot show for a new model;
`Showable` is the bound of the sets of files that git can show. `Generator` takes
sentences as what the patterns found in them. `Verifier` has the two reports as
operators over a manifest and rows; `Baseline` runs the three consumers over every small
stream, kills one after any batch, tampers with the sink, and has it verified. A row whose event
time is no time (`Undated`) gets past `from_dict` and makes `verify` raise, so that
there is no verdict about a sink that holds one.

## 3. Runs

| run | instance | properties | what it shows |
|---|---|---|---|
| `run_queue` | 2 runs, 2 workers, 3 attempts, lease 2 ticks, stale after 3, cancellation, no SKIP LOCKED | `QueueTypeOK`, `TokenUnique`, `FencedOut`, `DeadLetterEarned`, `LiveLeaseKept` | the table is safe whatever its clients do |
| `queue_workers` | 1 run, 2 workers, 2 attempts, lease 1, stale after 2, 1 crash, 1 exception, 1 cancellation | `TypeOK`, `CompletedHonest`, `LifecycleSpec`, `QueuedRunsSettle` | the workers use it correctly |
| `zombie_history` | as above, no exception | `ReportedOutcomeStands` violated | the history is not fenced |
| `orphan_sweep` | as above, no exception | `RequeuedNotSwept` violated | a starting worker fails requeued runs |
| `stream_commit` | partitions of 3 and 2, batches of 2, 3 runners in turn, 2 outages | `TypeOK`, `CountedOnce`, `DoneIsDrained`, `ExactlyOnceSpec`, `StreamDrains` | exactly once, for runners that do not overlap |
| `stream_overlap` | 3 runners at once, tokens 1, 1, 2, no row lock | `NoLoss` | at least once, whatever overlaps |
| `stream_zombie` | 2 runners at once, row lock | `WholeBatchReplays` violated | the premise of the replay test can fail |
| `stale_write` | 2 runners at once, row lock | `NoStaleWrite` violated | the first commit of a stream is not fenced |
| `event_time` | partitions of 5 and 1, windows of 2, batches of 2, 3 runners, 2 outages | `AccountsBalance`, `StoredIsDurable`, `WindowsFollowWatermarks` | no record is dropped or misreported, restored state is durable state |
| `platform` | the components below, one per behaviour | the 22 properties below | each of the other components keeps its promises |
| `self_late` | the `event_time` instance, 2 runners, 1 outage | `NotLateByItself` violated | a failed resync lets a batch make itself late |
| `silent_restatement` | as `self_late` | `NoSilentRestatement` violated | a fired window changes without a revision |

`platform` is one run because its components share no state: a behaviour picks
its `part` in the initial state and is from then on a behaviour of that
component, the variables of the others staying as they were. An invariant of a
component says something in its part and holds initially in the others; the
fairness of a component is that of its own module, restricted to its part. Each
temporal property of the run was violated by a mutant in its part, and every
action of every component fires in it.

| part | instance | properties | what it shows |
|---|---|---|---|
| executor | 3 tasks wired 7 ways, 2 workers, 2 repairs, both executors | `AttemptsDisjoint`, `ReportsAccount`, `RepairMakesWhole`, `RunEnds`, `ImplementsTaskOrder` | tasks run in order, each result is reported once, a run ends; a repair makes the pipeline whole, with the exceptions named |
| embedded | 2 runs, 1 of them watched, a pool of 1, 1 restart | `CancelStands`, `NoRunForgotten`, `StreamsEnd` | a confirmed cancellation is final; memory, pool and history agree; log streams end |
| backfill | 2 operators, 2 schedules, ranges of up to three days, a limit of 4, 2 requests | `SubmittedOnce` | a submitted range is whole, and doubled only by force or by overlap |
| triggers | 1 sensor, 1 completion trigger, 1 completed run, 3 file changes, 3 starts | `RegistryMatchesTable`, `RemovedFiresNoMore`, `SensorCatchesUp` | registry and table survive crashes together, but for rows that a failed restore left out; removal is final; no modification is missed for good |
| schedules | 2 files, 2 cron expressions, 2 starts, 1 fault | `SchedulesFollowRequests` | what was asked for last is in the table and runs, across restarts that could read it |
| alerts | 1 queue row, 1 rule, 2 channels, 2 collectors, 1 upset | `OpenedOnceToldOnce`, `IncidentsFollowMetrics` | one incident and one notice per breach unless collectors overlap; incidents open and close with the metric |
| git | 2 files, 2 contents, 2 commits | `WorkspaceKeepsDrafts`, `UpToDateMeansPushed` | the editor never discards a draft; "up to date" is true, with one exception |
| releases | 3 texts, 1 connection, 1 saved version, 3 releases, 1 edit | `ActiveIsNewestStanding` | one active record, the newest that stands |
| lineage | 3 models with 15 statements of up to 3 SELECTs, walks of depth 1 and 3 hops, 1 edit, git able to show all models or all but one | `CleanCheckBreaksNothing` | a clean check breaks no reader, with the exceptions named |
| generator | every text of up to 3 of 7 sentences | `SentencesBecomeWaves` | the order and parallelism asked for, with the exceptions named |
| baseline | 3 events, batches of 2, a kill, 2 faults in the sink | `VerdictsAreDeserved` | the verifier's verdict is exactly what the sink deserves |

`PlatformTypeOK` is the conjunction of their type invariants.

Bounds. Two runs make the head-of-queue order and the reaper's bulk updates
visible; more runs are independent of each other apart from that order. Three
attempts give a first, a middle and a last one, with two revocations before the
dead letter. A lease of two ticks has a tick on which it can be renewed late and
a tick on which it is expired. `QueueWorkers` needs one run only: two workers
and two attempts are the zombie and its replacement; the crash and the
exception are separate so that both can hit one behaviour. In `StreamCommit`
partitions of different lengths with an odd total make batches end in the
middle of a round, a partition run dry first, and a last batch that is short; three
runners allow a replacement to be replaced; two failures exhaust two retries.
In `EventTime` the
times are chosen so that one partition, with the other idle, closes two windows
and then brings a record that is late and one that is beyond the allowed
lateness. `MaxCrashes`, `MaxFaults`, `MaxFailures`, `Runners` and `MaxLen` are their
bounds; each is a constant and nothing else cuts the state space. `MaxAttempts`
is a parameter of the code. Deadlock is checked for the queue, and switched off
for the stream, where all runners may be done.

In `platform`: three tasks give a chain, a fork, a join and a wave wider than the
pool; one retry lets a late attempt meet a second one, and two repairs make a repair of
a repair; two runs in
a pool of one are one that runs and one that can be cancelled; two collectors are
what it takes to overlap; three starts are a restore that left something out and one
after it; three events and batches of two leave a short last
batch; three models are a source, a reader and a reader's reader, and a
depth of 1 is exceeded by a statement of three SELECTs. What is
symmetric beyond that (more tasks, more runs, more channels) is covered by the
proofs where section 5 names one. `CHECK_DEADLOCK FALSE` is there because a run
of a pipeline, a text or a harness has an end.

Symmetry is used only in `run_queue`, which has no liveness property.

Fairness. `QueueWorkers`: a worker's main thread keeps taking steps, which
includes that a supervisor restarts a dead one (`docker-compose.yml`,
`restart: unless-stopped`; `deploy/kubernetes/worker-deployment.yaml`) and that
tasks end; time passes. Nothing is assumed of heartbeats,
so a worker may lose a lease without any error, and nothing of submissions,
errors or crashes. `StreamCommit`: a replacement is started in the end and a
live runner takes its steps; `StreamDrains` is conditional on the last runner
neither dying nor being fenced. `platform`: a pool thread,
a handler on the event loop and a sensor's thread keep taking steps
(`ExecutorFairness`, `EmbeddedFairness`, `TriggerFairness`), which includes that
a plugin's call ends, as the code waits for it without limit; the API's
collector loop goes on collecting (`AlertFairness`). Nothing is assumed of
clients, operators, other committers, faults or restarts.

## 4. Disagreements between the code and its documentation

### 4.1 Refuted by a run

Six, with the lines in `findings`:

1. `README.md:46-48` promises that a stalled worker cannot report an outcome;
   it does, in `pipeline_runs`, which is what `GET /run/{id}` reads.
2. `recover_orphaned_runs` says requeued runs are left alone; it fails them,
   since requeueing clears the column it goes by.
3. `docs/STREAMING.md:53` says batches are always replayed whole from committed
   offsets; a replacement started early breaks this.
4. `TransactionalSink.commit` must raise `StaleFence` for a superseded writer;
   before the first commit it does not.
5. `windows.py` says a record cannot be late by a watermark it advanced; after
   an outage that also fails the resync, it can.
6. `docs/STREAMING.md` says an arrival in a fired window bumps its revision; when
   the watermark has moved back, because an idle partition counts again, it does
   not.

### 4.2 Seen while modelling

These are what the code does and what the models do; the properties are stated
so that they hold of it and name the exception.

*Queue and API.* `cancel_run` looks at the row once and then writes both tables
without a fence: a claim in between leaves a cancelled row that its worker writes
over, or a running row without a deadline, which neither reaper nor sweep finds.
A body that raises before its try block (`api.py:2457-2500`) or in its handler
leaves its run queued or running (`NoRunForgotten`); a trigger or a log call that
raises after the outcome was reported (`api.py:2571-2576`) turns a completed run
into a failed one; a cancel whose table write fails leaves a
cancelled future reported as queued. In external mode a repair loses its first
task, its parameters and its environment (`queue_worker.py:198`). The log stream
of a run that died with an earlier process never ends.

*Executor.* A timeout waits for the thread it gave up on (`executor.py:168-175`). A
repair starts from the first failed task and what follows it by name
(`api.py:938-965`), and reports completed when that is done. `RepairMakesWhole`
therefore asks that in every ancestor a single task failed, one that
everything in a later wave follows by names (`LeadsTheRest`). What it excludes
stays unrun under a completed repair: the second failure of a wave, a dependent
written by id, a task of a later wave that does not follow the failed one, and any
of these left behind by an earlier repair.
Outputs of dependencies written by id do not reach a task. The validator does not
see a cycle that mixes names and ids; the builder does. The CLI's sequential
executor has no quality checks and no lineage, and an exception before a task's first
attempt goes out of it (`executor.py:288`), so that the CLI prints it instead of results.

*Backfill.* `backfill.py:19` says nothing is enqueued unless the whole plan is;
each run is a commit of its own. A plan of exactly the limit is refused. Failed
and cancelled runs count as coverage; ranges that meet inside a window lose it.
Operators that both plan before either submits queue windows twice
(`backfill.py:136`).

*Triggers, schedules.* Runs started by a trigger, a schedule or an external worker
notify no completion trigger. A restart forgets the modification time a sensor
had seen. A restore of the triggers that meets one bad row, or a database error, is
logged (`triggers.py:216-245`) and leaves that row and those after it unregistered
until the next start; they are still listed as active. A scheduler that cannot read its
table at a start logs it (`scheduler.py:49-53`) and runs without jobs; the rows
stay for the next start. A scheduled run whose pipeline raises stays "started"; a schedule whose
row cannot be written is only logged.

*Alerts.* Overlapping collectors open the same incident twice. Acknowledging a
resolved incident makes it active (`database.py:1535`). Only the collection that
opens an incident notifies, once, without retry: an error before the last delivery, or a
collection that was asked not to notify, leaves people untold for good
(`observability.py:409`). Incidents of rules that were
deleted, disabled or rescoped never resolve by themselves. Dead-lettered runs
count neither as failed nor as completed; no finished run at all is a rate of 0.

*Git, releases.* A push that failed and is repeated finds its commit in the clone
and answers "already up to date in remote" (`git_integration.py:351-354`): the
exception of `UpToDateMeansPushed`. When histories diverge the clone is reset to
the remote; a pull imports drafts of the workspace as pipelines. A deployment's
validated text and its snapshot are two reads of the file; a rollback looks at
neither connection nor file.

*Lineage.* `lineage check --git-ref` takes every `git show` that fails for a new
model (`cli/lineage_cli.py:58-59`): at a ref that does not exist, in a shallow clone
or from another directory the graph before is empty, and no column is found to be
removed. The workflow fetches the whole history (`.github/workflows/tests.yml`). A
model that does not parse leaves the check without a word (`lineage_checks.py:128-131`),
and its readers pass. A clean check also passes: a deleted model file, a column passed
on under a star, a column without inputs under a star of an inner SELECT,
a reader that is itself unresolved. A column that a reader uses in WHERE or
GROUP BY, or inside an inner SELECT without passing it on, has no edge at all;
`Feeds` is about what outputs and outermost joins are computed from.
`column_lineage.py:66-68` gives a column without inputs an edge of its own, so that it
can be seen to disappear; one that a star takes over from an inner SELECT gets none
(`_expand_star`), and its removal is in no finding. Rows of a statement without edges, or of a model that is gone,
stay in the store.

*Generator.* A third sentence said to run in parallel waits for the last task but
one (`nlp_generator.py:841-843` against the comment at 784-785); a sentence after a
parallel group waits for its last member only; a load from one system to another
has the plugin of the target and the config of the source.

*Harness.* `stream verify --table` passes the sum of the offsets as the number of
unique records, so a correct sink of a stream with redelivered records fails by
that check (`cli.py:119`, `verifier.py:201`). A row whose event time is no time makes
`verify` raise instead of counting it as unparseable (`verifier.py:243`). Windows that are not in the manifest
are never looked at.

### 4.3 What no property catches

Five of the hazards in `PROJECT.json` are listed without a property, because the code
goes wrong there and the property next to them names the case as an exception. What
such a property shows is that nothing *else* goes wrong; it would not notice if the
exception were mended or got worse.

| hazard | property next to it | the exception |
|---|---|---|
| a body that raises outside its try block, a cancel whose write fails (`api.py:2457`) | `NoRunForgotten` | the run was left for a reason it names |
| repairs of a run with several failures (`api.py:949`) | `RepairMakesWhole` | an ancestor failed at more than one task, or at one that does not lead the rest |
| operators that plan at the same time (`backfill.py:136`) | `SubmittedOnce` | `raced` |
| a notification that is never sent (`observability.py:409`) | `OpenedOnceToldOnce` | it speaks of telling twice, not of telling at all |
| a push repeated after it failed (`git_integration.py:352`) | `UpToDateMeansPushed` | the clone is ahead of the remote |

## 5. Proofs

Each theorem holds for all values of the constants that satisfy the named
assumptions of its module (`QueueAssumption`, `StreamAssumption`,
`ExecutorAssumption` and so on), which TLC evaluates in the runs: names that
differ, bounds that are natural numbers, finite sets of tasks, the intended types
of inputs. No theorem assumes a value of a bound; `MaxStarts` and `MaxBoots` are not zero,
since the process is up at first, nor `MaxChanges`, since a file may be there. `BaselineAssumption` asks for
finitely many events with integer amounts, which a manifest is; `EventAssumption`
and three theorems of `StreamCommitProofs` ask for runners that do not overlap,
and the stream findings show why.

`QueueProofs`, queue. None of the properties is inductive by itself. `IInv` joins to
`QueueTypeOK` and `TokenUnique`: a running row with a deadline has a worker
(`DeadlineHasHolder`); a row that names a worker names the holder of a granted
lease with its current token (`HolderHasLease`); no lease has a token above its
row's (`TokenNewest`), so the next claim's token is new; a queued or absent row has
no worker and an attempt left (`QueuedClaimable`); every attempt but the current
one was revoked, and the current one too once the row is queued again or
buried (`EarlierRevoked`); a buried row is at its limit (`BuriedAtLimit`).
With it: `TypeCorrect`, `TokensAreUnique`, `FencedOutForGood`,
`DeadLettersAreEarned` and, as an action property, `LiveLeasesAreKept`. The
proof has a lemma per action. Cancellation by callers without a lease is
included for any set of statuses that `QueueAssumption` admits.

`StreamCommitProofs`. `TypeCorrect` is inductive. `NothingIsLost` needs
`LossInv`: a runner's cursor and its batch never go beyond what is stored and
counted, so that any runner's write, even one that moves the durable offsets
back, leaves them behind counted records only. It assumes nothing about overlap
or locks. `CountsAreExact`, `DoneMeansDrained` and `ImplementsExactlyOnce` are
proved under `Overlap = FALSE` from `OnceInv`: a live runner's cursor is the
durable offsets, or its batch is (the acknowledgement is outstanding), and
what it found about `advanced` still holds. The two stream findings show that the
assumption is needed.

`QueueProofs`, workers. `WInv` joins to `IInv`, whose lemmas give the step of each
queue function, what ties rows to processes: an uncancelled running row has a
deadline (`RunningHasDeadline`); until its worker reports, an attempt's row says
running (`RowRunsUntilReport`); a report has an outcome, and a good one was earned
(`OutcomeEarned`); a run is cancelled by its cancellation only (`CancelledOnce`).
From `WInv`: `WorkersTyped`, `CompletionsAreHonest` and, for any number of runs,
workers, crashes and errors, `ImplementsLifecycle`. The refinement needs the
invariant because a worker's write maps to a step of `RunLifecycle` only if the
row still says what the worker last saw or was overtaken by a cancellation.

`EventTimeProofs`. `EventInv` joins to the three properties and to `DurableInv`,
which `StreamCommitProofs` carries over (`Moves`: event time changes what a commit
counts, not when it happens): a stored maximum is the highest event time behind
the durable offsets (`StoredIsLatest`); the tracker of the live runner is equal to
that, or to the same with its batch while a commit is under way (`TrackerKnows`);
a record is counted or set aside once as soon as the offsets have passed it
(`EachOnce`, `LateIsPassed`); a window's revision is the number of late records
counted in it (`RevisionsAreLate`). From it `AccountsDoBalance`,
`StoredWatermarksLast` and `WindowsDoFollow`, for any event times, window size,
lateness and number of outages.

`PipelineProofs`, executor. `AttemptInv`: a task has a plugin thread exactly while
an attempt is executing or late, hence `AttemptsNeverOverlap`. The rest follows
from `RunInv`: the waves are ordered by the dependencies and hold the scope of the run
(`PlanInv`, where the sequential executor's waves are single tasks, since an exception that
goes out of it must leave nothing active), they are entered one after the other, each when the one before is a
success (`ProgressInv`); a task was given what the tasks it names and that are in
scope have left (`GivenInv`); the reports are those of the results (`ReportsInv`,
`VerdictInv`); and, if the lapses so far can be mended, every task is banked or
follows the origin of the repair (`BankInv`). From it `ReportsDoAccount`,
`RepairsMakeWhole` and the refinement `RunsImplementTaskOrder`, for any finite set
of tasks, any wiring that the configuration accepts, any number of
workers and repairs. What they rest on is that layering a graph (`Layered`)
puts each task after what it depends on and, if it comes to an end without a
cycle, every task somewhere.

`PipelineProofs`, generator. A response holds what was made of the text that was
asked about (`AnswerInv`). `WavesAsked` says what the layering does to the graph
that `Wired` draws between the tasks of a text of any length, hence
`SentencesDoBecomeWaves`.

`PipelineProofs`, lineage. `LineageInv` says that the store holds the edges of the files
that were scanned, for those that have edges (`StoreIsScanned`), and that a report is
what the check finds in the files as they are, against those that git could show
(`ReportIsCurrent`). That it implies
`CleanCheckBreaksNothing` is the larger part, a statement about two readings of
SQL. `WalkFinds`, by induction along the SELECTs of a statement: the resolver's walk
finds everything that the database computes a column from, or leaves a note;
so a reader without a note has an edge for each column it is fed by
(`FeedsAre`). `ColumnIsTarget` and `TargetIsColumn`: without an unresolved star, the columns
the check takes a model to have are those the table really has. So a column
that is gone from the table is a removed column, its readers are in its impact
whatever the number of hops (`ImpactIs`), and the check fails: `CleanCheckCorrect`,
for any files, any nesting, any schema, either side to compare with, any
limits of the walks and any files that git cannot show. For those, and for files that
do not parse, it promises nothing: they are exceptions of the property.

`ServerProofs`. `RegistryInv`: a trigger has a row from the moment it is saved until
it is removed, a running thread or one entry in the list of callbacks exactly
while the process is up and its handler left it active and the last start did not skip
it, and a registered sensor's thread has not ended. From it `RegistryDoesMatch`. `StopFlagInv`: a sensor whose stop flag is down is active,
hence `RemovedTriggersAreQuiet`. `PoolInv` states per run which combinations of
future, queue row, history, handler and body can coexist (`FutureInv`, `BodyInv`,
`CancelInv`), and what is left of them when the process is down (`DownInv`): from it
`CancellationsStand` and `RunsAreRemembered`, for any number of runs, any pool and
any number of restarts. Neither half of `OpenedOnceToldOnce` is inductive:
`MemoryInv` adds what a collector knows between its transactions. While it
creates, none of its own incidents for that rule and target is open, one that was
acknowledged after its end apart (`NoneOpen`); while it tells, whom it told and whom
it will tell are disjoint (`StillToTell`). A lemma about what a step of one
collector does to the incidents (`Later`) shows that the others' memory stays
true. `OneCollectorOpensOnce` holds for any number of collectors: the property
itself says what overlap can do.

`RecordsProofs`. `ScheduleInv` says of each file what its row, its job and the
last request have to do with each other, with the two exceptions as sets
(`unsaved`, of rows whose write failed, and `missed`, of rows the last start could not
load or did not read). From it `RequestsAreFollowed`. `ReleaseInv` takes
`ActiveIsNewestStanding` apart, so that no step has to speak of Max: the active
record stands and none that stands is newer, there is one wherever a record
stands, and the version of a standing record is in the history with its text,
which only grows. `GitInv` says that the clone's history and the remote's are
sequences that are never empty, so that resets and fast-forwards have a commit
to go to. From it two action properties: `DraftsAreKept` and `UpToDateIsHonest`;
in the second, a clean clone that took the file holds it in its last commit
(`EnsureCloneHasRemote` and the premise make the two histories the same).
`BackInv`: what a plan leaves out is queued and stays so, and what it does not
leave out only its operator queues, unless two of them work at a time; from it
`WindowsSubmittedOnce`. It rests on `WindowsOf` returning the windows of the
schedule that meet the range, each once.

`RecordsProofs`, harness. `HarnessInv` says for each consumer which rows are in the
sink, in terms of the offset it reached and whether it was killed (`WroteFirst`,
`CommittedFirst`, `WroteTogether`), and that a report is one of the sink as it is.
The lemmas below it relate reports to sinks: a report is ok exactly when the sink
holds every event once, intact and nothing else, and the offset is right (`OkIs`);
a stream has more arrivals than events exactly when some event arrives twice, by
counting (`TwiceIs`). From them `VerdictsDeserved`, for any stream,
batch size, point of the kill and tampering.

`DataLemmas`. The library's induction theorems take an operator as a parameter. The
inductions that are needed are done over *sets* instead: the set of the numbers,
or of the subsets of a finite set, for which the claim holds (`NatInduct`,
`SubsetInduct`). That a recursive function exists (`RecursionExists`, with
`FoldExists` for the folds of the community modules) is proved once in this form, and
with it what `Filtered`, `SetToSeq`, `FlattenSeq` and the sums of `Verifier` return.

`PlatformProofs`. `MCPlatform` runs eleven components side by side. An invariant
of the proofs above contains the types its own proof needs; the rest are
joined to it here and proved with it. Most are a component's bookkeeping, but two
need the invariant: a deployment record names a
version that was saved (`NamesThere`: versions and records only grow, and a rollback
copies the name of an older record), and a collector goes on with an incident that is
there (`FoundThere`: between finding and updating it others add incidents, none
is removed). A step of the whole is, for each component, a step of its own or none
(`EachGoesItsOwnWay`), so that `PlatformInv`, the conjunction, is inductive: from it
`PlatformTypeCorrect` and `PlatformSafe`, the thirteen safety invariants of the run
in one theorem.

Only model-checked: the liveness properties (`QueuedRunsSettle`, `StreamDrains`,
`RunEnds`, `StreamsEnd`, `SensorCatchesUp`, `IncidentsFollowMetrics`), since fairness
and ENABLED are outside what TLAPS proves. Every invariant and every action
property that a passing run checks is a theorem, and so are the refinements' safety
parts. The inductive invariants were model-checked before they were proved.

## 6. Not modelled

* Different clocks on different hosts.
* A heartbeat thread that dies of a database error: to the queue it is a
  heartbeat that stays silent, which is modelled.
* `max_batches` of a runner: to the sink it is a runner that stops.
* Contents and amounts of records; records delivered again at a later offset in
  `StreamCommit` and `EventTime` (`Baseline` has them); a writer without windowing
  that shares a stream with one that has it.
* SLA checks, the delivery of a notification (webhook, SMTP), the webhook trigger,
  what a fired pipeline does: reads, or single calls with no state.
* Task-level lineage, the drift check and the SQL parser; UNION, an expression's
  text and aggregation, which only change the kind of a certain edge.
* Plugins, catalog, marketplace, costs, metrics, authentication, guardrails, CLI
  and UI: adapters, single-row reads and writes, or stateless checks, with no
  order of steps that could go wrong. `PROJECT.json` gives the reason of each.

## 7. What is left

1. Keys that repeat: a record delivered again at a later offset, in
   `StreamCommit` and `EventTime`.
2. The executor inside the embedded pool: concurrent runs share a log handler and
   the plugins' connections.
3. The drift check over the lineage store.
