---------------------------- MODULE Executor ----------------------------
(***************************************************************************)
(* core/dag.py and core/executor.py: a pipeline's tasks are layered into   *)
(* waves, each wave runs on a thread pool, a task is retried, timed out    *)
(* and quality-checked, and a failed run may be repaired from one of its   *)
(* tasks.  One pipeline run at a time; a repair is the next run.           *)
(***************************************************************************)
EXTENDS TaskGraph, Lists, Sequences, FiniteSets, SequencesExt, FiniteSetsExt

CONSTANTS
  Task,        \* task names
  NoTask,      \* repair_from_task = None
  Pipelines,   \* the pipeline configurations examined
  MaxWorkers,  \* execution.max_parallel_tasks
  MaxRepairs   \* bound: repair runs per behaviour

\* A depends_on entry names a task by its name or by its id.
Ref == [task : Task, by : {"name", "id"}]
Pipeline == [deps : [Task -> SUBSET Ref], hasId : SUBSET Task,
             retries : [Task -> Nat], timed : SUBSET Task, check : [Task -> SUBSET {"gate"}]]

ASSUME ExecutorAssumption ==
  /\ IsFiniteSet(Task) /\ NoTask \notin Task
  /\ Pipelines \subseteq Pipeline
  /\ MaxWorkers \in Nat \ {0} /\ MaxRepairs \in Nat

VARIABLES
  pipe,      \* the PipelineConfig
  mode,      \* "parallel": the API, workers, scheduler, triggers; "sequential": the CLI
  origin,    \* repair_from_task
  waves,     \* execution_waves, <<>> until planned
  wave,      \* index of the wave being executed
  work,      \* per task: where its future stands, attempts, plugin threads, outcome
  given,     \* per task: the tasks whose output became its previous_data
  results,   \* per task: "none", "ok" or "bad"
  reports,   \* task_runs, in the order they were appended
  verdict,   \* "open", "completed", "failed", or "refused" when the DAG does not build, or
             \* "raised" when an exception ends a sequential run without a result
  repairs,   \* number of repair runs so far
  banked,    \* tasks that succeeded in an ancestor of this run
  lapses     \* per run this one repairs, the set of tasks that failed in it

executorVars == <<pipe, mode, origin, waves, wave, work, given, results, reports,
                  verdict, repairs, banked, lapses>>
planVars == <<pipe, mode, origin, waves>>
lineageVars == <<repairs, banked, lapses>>

------------------------------------------------------------------------
(* PipelineConfig.validate_task_graph and DAGBuilder                       *)

\* The validator draws its graph with the id of a task where it has one and
\* with the references as they are written.
Key(p, t) == [task |-> t, by |-> IF t \in p.hasId THEN "id" ELSE "name"]
ConfigAccepts(p) ==
  LET nodes == {Key(p, t) : t \in Task} \cup UNION {p.deps[t] : t \in Task}
      preds == [x \in nodes |-> UNION {p.deps[t] : t \in {u \in Task : Key(p, u) = x}}]
  IN  /\ \A t \in Task : \A r \in p.deps[t] : r.by = "id" => r.task \in p.hasId
      /\ \A t \in Task : Key(p, t) \notin p.deps[t]
      /\ Layered(nodes, preds, Cardinality(nodes))[Cardinality(nodes)] = nodes

\* The builder resolves both spellings first.
Canonical(p, t) == {r.task : r \in p.deps[t]}
Placed(p) == Layered(Task, [t \in Task |-> Canonical(p, t)], Cardinality(Task))
Builds(p) == Placed(p)[Cardinality(Task)] = Task
NonEmpty(rounds) == Filtered(rounds, (SUBSET Task) \ {{}})
ExecutionWaves(p) ==
  LET placed == Placed(p)
  IN  NonEmpty([k \in 1..Cardinality(Task) |-> placed[k] \ placed[k - 1]])

\* get_execution_order: some topological order, a task at a time.
ExecutionOrders(p) ==
  {s \in [1..Cardinality(Task) -> Task] :
     \A i, j \in DOMAIN s : i <= j => s[i] \notin Canonical(p, s[i]) /\ s[j] \notin Canonical(p, s[i])
                                       /\ (i < j => s[i] # s[j])}

\* Mutant of Selected: only the direct dependents of the chosen task.
SelectedDirectly(p, from) ==
  {from} \cup {t \in Task : \E r \in p.deps[t] : r.by = "name" /\ r.task = from}

\* _repair_execution_waves: the chosen task and whatever depends on it by name.
Selected(p, from) ==
  LET chosen[k \in 0..Cardinality(Task)] ==
        IF k = 0 THEN {from}
        ELSE chosen[k - 1] \cup
             {t \in Task : \E r \in p.deps[t] : r.by = "name" /\ r.task \in chosen[k - 1]}
  IN  chosen[Cardinality(Task)]
RepairExecutionWaves(p, from) ==
  LET full == ExecutionWaves(p)
  IN  NonEmpty([k \in 1..Len(full) |-> full[k] \cap Selected(p, from)])

\* _first_failed_task: the first failure in the order the run reported them.
FirstFailed ==
  LET failures == {k \in DOMAIN reports : reports[k].status = "failed"}
  IN  IF failures = {} THEN NoTask ELSE reports[Min(failures)].task

------------------------------------------------------------------------
Idle == [at |-> "waiting", tries |-> 0, threads |-> 0, good |-> FALSE]
InWaves == UNION Range(waves)
Busy == {t \in Task : work[t].at \in {"executing", "late", "backoff"}}
Slots == Min({MaxWorkers, Cardinality(waves[wave])})
Executing == verdict = "open" /\ wave > 0

ExecutorInit ==
  /\ pipe \in {p \in Pipelines : ConfigAccepts(p)}
  /\ mode \in {"parallel", "sequential"}
  /\ origin = NoTask /\ waves = <<>> /\ wave = 0
  /\ work = [t \in Task |-> Idle]
  /\ given = [t \in Task |-> {}]
  /\ results = [t \in Task |-> "none"]
  /\ reports = <<>>
  /\ verdict = "open"
  /\ repairs = 0 /\ banked = {} /\ lapses = {}

\* build() and get_execution_waves(), or the waves of a repair.
PlanRun ==
  /\ verdict = "open" /\ wave = 0 /\ waves = <<>>
  /\ IF Builds(pipe)
     THEN /\ \/ /\ mode = "parallel"
                /\ waves' = IF origin = NoTask THEN ExecutionWaves(pipe)
                            ELSE RepairExecutionWaves(pipe, origin)
             \/ /\ mode = "sequential"
                /\ \E order \in ExecutionOrders(pipe) :
                      waves' = [k \in DOMAIN order |-> {order[k]}]
          /\ UNCHANGED verdict
     ELSE verdict' = "refused" /\ UNCHANGED waves
  /\ UNCHANGED <<pipe, mode, origin, wave, work, given, results, reports, lineageVars>>

\* Only outputs the dependency list names exactly as task_data is keyed arrive.
CollectDependencyData(t) ==
  {r.task : r \in {q \in pipe.deps[t] : q.by = "name" /\ results[q.task] # "none"}}

\* Mutant of SubmitWave: the next wave does not wait for this one.
SubmitEarly ==
  /\ verdict = "open" /\ waves # <<>> /\ wave < Len(waves)
  /\ \A t \in InWaves : results[t] # "bad"
  /\ wave' = wave + 1
  /\ work' = [t \in Task |-> IF t \in waves[wave + 1] THEN [Idle EXCEPT !.at = "queued"] ELSE work[t]]
  /\ given' = [t \in Task |-> IF t \in waves[wave + 1] THEN CollectDependencyData(t) ELSE given[t]]
  /\ UNCHANGED <<planVars, results, reports, verdict, lineageVars>>

\* A wave is submitted whole; its tasks queue for the pool's threads.
SubmitWave ==
  /\ verdict = "open" /\ waves # <<>> /\ wave < Len(waves)
  /\ wave > 0 => \A t \in waves[wave] : results[t] # "none"
  /\ \A t \in InWaves : results[t] # "bad"
  /\ wave' = wave + 1
  /\ work' = [t \in Task |-> IF t \in waves[wave + 1] THEN [Idle EXCEPT !.at = "queued"] ELSE work[t]]
  /\ given' = [t \in Task |-> IF t \in waves[wave + 1] THEN CollectDependencyData(t) ELSE given[t]]
  /\ UNCHANGED <<planVars, results, reports, verdict, lineageVars>>

RunsAttempt(t) ==
  work' = [work EXCEPT ![t].at = "executing", ![t].tries = @ + 1, ![t].threads = @ + 1]

StartAttempt(t) ==
  /\ Executing /\ work[t].at = "queued" /\ Cardinality(Busy) < Slots
  /\ RunsAttempt(t)
  /\ UNCHANGED <<planVars, wave, given, results, reports, verdict, lineageVars>>

RetryAttempt(t) ==
  /\ Executing /\ work[t].at = "backoff"
  /\ RunsAttempt(t)
  /\ UNCHANGED <<planVars, wave, given, results, reports, verdict, lineageVars>>

\* Mutant of AfterFailure: each retry starts the count again.
RetryForEver(w, t) == [w EXCEPT !.at = "backoff", !.tries = 0]

\* A failed attempt is retried while attempts are left.
AfterFailure(w, t) ==
  IF w.tries <= pipe.retries[t] THEN [w EXCEPT !.at = "backoff"]
  ELSE [w EXCEPT !.at = "returned", !.good = FALSE]

PluginEnds(t) ==
  /\ Executing /\ work[t].at = "executing"
  /\ LET w == [work[t] EXCEPT !.threads = @ - 1]
     IN  \/ work' = [work EXCEPT ![t] = [w EXCEPT !.at = "returned", !.good = TRUE]]
         \/ work' = [work EXCEPT ![t] = AfterFailure(w, t)]
  /\ UNCHANGED <<planVars, wave, given, results, reports, verdict, lineageVars>>

\* Mutant of TimeOut: the pool is shut down without waiting.
TimeOutAtOnce(t) ==
  /\ Executing /\ work[t].at = "executing" /\ t \in pipe.timed
  /\ work' = [work EXCEPT ![t] = AfterFailure(@, t)]
  /\ UNCHANGED <<planVars, wave, given, results, reports, verdict, lineageVars>>

\* result(timeout=...) raises, but leaving the "with" block waits for the thread.
TimeOut(t) ==
  /\ Executing /\ work[t].at = "executing" /\ t \in pipe.timed
  /\ work' = [work EXCEPT ![t].at = "late"]
  /\ UNCHANGED <<planVars, wave, given, results, reports, verdict, lineageVars>>

LateEnds(t) ==
  /\ Executing /\ work[t].at = "late"
  /\ LET w == [work[t] EXCEPT !.threads = @ - 1]
     IN  work' = [work EXCEPT ![t] = AfterFailure(w, t)]
  /\ UNCHANGED <<planVars, wave, given, results, reports, verdict, lineageVars>>

\* Secrets or parameters that cannot be resolved end the task before any
\* attempt: the parallel executor has the exception from the future,
RaiseEarly(t) ==
  /\ mode = "parallel"
  /\ Executing /\ work[t].at = "queued" /\ Cardinality(Busy) < Slots
  /\ work' = [work EXCEPT ![t].at = "returned", ![t].good = FALSE]
  /\ UNCHANGED <<planVars, wave, given, results, reports, verdict, lineageVars>>

\* the sequential one lets it out, and with it the results so far.
RaiseOut(t) ==
  /\ mode = "sequential"
  /\ Executing /\ work[t].at = "queued" /\ Cardinality(Busy) < Slots
  /\ verdict' = "raised"
  /\ UNCHANGED <<planVars, wave, work, given, results, reports, lineageVars>>

\* as_completed: any returned task may be next.  A task that succeeded may be
\* failed by its quality checks, which only the parallel executor runs; its
\* lineage is recorded without effect here.
QualityPasses(t, ok) ==
  ok \in (IF "gate" \in pipe.check[t] /\ mode = "parallel" THEN BOOLEAN ELSE {TRUE})
Collect(t) ==
  /\ Executing /\ work[t].at = "returned"
  /\ \E ok \in BOOLEAN :
       /\ QualityPasses(t, ok)
       /\ LET success == work[t].good /\ ok
          IN  /\ results' = [results EXCEPT ![t] = IF success THEN "ok" ELSE "bad"]
              /\ reports' = Append(reports, [task |-> t, status |-> IF success THEN "success" ELSE "failed"])
  /\ work' = [work EXCEPT ![t].at = "collected"]
  /\ UNCHANGED <<planVars, wave, given, verdict, lineageVars>>

\* Mutant of WaveOver: the first failure ends the wave.
WaveOverAtFailure ==
  /\ wave > 0
  /\ \/ \A t \in waves[wave] : results[t] # "none"
     \/ \E t \in waves[wave] : results[t] = "bad"

WaveOver == wave > 0 /\ \A t \in waves[wave] : results[t] # "none"
SkippedRuns ==
  LET later == UNION {waves[k] : k \in wave + 1..Len(waves)}
  IN  SetToSeq({[task |-> t, status |-> "skipped"] : t \in later})

\* A wave with a failure ends the run; the tasks of later waves are skipped.
EndInFailure ==
  /\ verdict = "open" /\ WaveOver
  /\ \E t \in waves[wave] : results[t] = "bad"
  /\ reports' = IF mode = "parallel" THEN reports \o SkippedRuns ELSE reports
  /\ verdict' = "failed"
  /\ UNCHANGED <<planVars, wave, work, given, results, lineageVars>>

EndInSuccess ==
  /\ verdict = "open" /\ WaveOver /\ wave = Len(waves)
  /\ \A t \in waves[wave] : results[t] = "ok"
  /\ verdict' = "completed"
  /\ UNCHANGED <<planVars, wave, work, given, results, reports, lineageVars>>

\* POST /run/{id}/repair without from_task: a new run from the first failure.
Repair ==
  /\ mode = "parallel"
  /\ verdict = "failed" /\ repairs < MaxRepairs /\ FirstFailed # NoTask
  /\ origin' = FirstFailed
  /\ waves' = <<>> /\ wave' = 0
  /\ work' = [t \in Task |-> Idle]
  /\ given' = [t \in Task |-> {}]
  /\ results' = [t \in Task |-> "none"]
  /\ reports' = <<>> /\ verdict' = "open"
  /\ repairs' = repairs + 1
  /\ banked' = banked \cup {t \in Task : results[t] = "ok"}
  /\ lapses' = lapses \cup {{t \in Task : results[t] = "bad"}}
  /\ UNCHANGED <<pipe, mode>>

TaskStep(t) ==
  \/ StartAttempt(t) \/ RetryAttempt(t) \/ PluginEnds(t) \/ TimeOut(t)
  \/ LateEnds(t) \/ RaiseEarly(t) \/ Collect(t)
ExecutorStep ==
  \/ PlanRun \/ SubmitWave \/ EndInFailure \/ EndInSuccess
  \/ \E t \in Task : TaskStep(t) \/ RaiseOut(t)
ExecutorNext == ExecutorStep \/ Repair

\* Worker threads run and plugins return; clients may or may not repair.
ExecutorFairness == WF_executorVars(ExecutorStep)
ExecutorSpec == ExecutorInit /\ [][ExecutorNext]_executorVars /\ ExecutorFairness

------------------------------------------------------------------------
ExecutorTypeOK ==
  /\ pipe \in Pipelines /\ mode \in {"parallel", "sequential"} /\ origin \in Task \cup {NoTask}
  /\ \A k \in DOMAIN waves : waves[k] \in SUBSET Task
  /\ wave \in 0..Len(waves)
  /\ work \in [Task -> [at : {"waiting", "queued", "executing", "late", "backoff", "returned", "collected"},
                        tries : Nat, threads : Nat, good : BOOLEAN]]
  /\ given \in [Task -> SUBSET Task] /\ results \in [Task -> {"none", "ok", "bad"}]
  /\ verdict \in {"open", "completed", "failed", "refused", "raised"}
  /\ repairs \in 0..MaxRepairs /\ banked \subseteq Task /\ lapses \subseteq SUBSET Task

\* Two attempts of one task never execute at the same time, whatever timed
\* out: execute_task leaves its timeout pool only when the thread is done.
AttemptsDisjoint == \A t \in Task : work[t].threads <= 1

\* When a run is over, each task of its waves has exactly one entry in
\* task_runs, nothing it started is still executing, no task that follows a
\* failure in the graph is called a success, a success had before it the output
\* of every dependency in scope that is written by name, and a run is completed exactly
\* when every entry is a success.
ReportsAccount ==
  verdict \in {"completed", "failed"} =>
    /\ \A t \in InWaves :
          Cardinality({k \in DOMAIN reports : reports[k].task = t})
            = IF mode = "sequential" /\ results[t] = "none" THEN 0 ELSE 1
    /\ \A t \in Task : work[t].threads = 0
    /\ \A k \in DOMAIN reports : reports[k].status = "success" =>
          LET t == reports[k].task
          IN  /\ \A d \in Canonical(pipe, t) \cap InWaves : results[d] = "ok"
              /\ given[t] = {r.task : r \in {q \in pipe.deps[t] : q.by = "name"}} \cap InWaves
    /\ (verdict = "completed") <=> (\A k \in DOMAIN reports : reports[k].status = "success")

\* Everything in a later wave than t depends on t by names: it is in every set
\* that has t and, with a task, the tasks that name it.
NamedBy(p, S) == {t \in Task : \E r \in p.deps[t] : r.by = "name" /\ r.task \in S}
LeadsTheRest(p, t) ==
  LET full == ExecutionWaves(p)
  IN  \A S \in SUBSET Task : t \in S /\ NamedBy(p, S) \subseteq S =>
        \A i, j \in DOMAIN full : t \in full[i] /\ i < j => full[j] \subseteq S

\* A completed repair means the pipeline is whole -- every task succeeded in
\* this run or in an ancestor -- provided that in each ancestor a single task
\* failed, one that leads the rest.  _repair_execution_waves and
\* _first_failed_task give no more: see the README for the exceptions.
RepairMakesWhole ==
  ( /\ verdict = "completed" /\ origin # NoTask
    /\ \A F \in lapses : \E t \in F : F = {t} /\ LeadsTheRest(pipe, t) )
  => \A t \in Task : results[t] = "ok" \/ t \in banked

\* Every run that is planned comes to a verdict, through retries, timeouts and
\* failing siblings.
RunEnds == (verdict = "open" /\ waves # <<>>) ~> (verdict # "open")

\* The executor implements TaskOrder: tasks start only after what they need
\* and the verdict is honest.
Order == INSTANCE TaskOrder WITH
  need <- [t \in Task |-> Canonical(pipe, t) \cap InWaves],
  scope <- InWaves,
  active <- {t \in Task : results[t] = "none" /\ work[t].at \notin {"waiting", "queued"}},
  passed <- {t \in Task : results[t] = "ok"},
  failed <- {t \in Task : results[t] = "bad"},
  verdict <- IF waves = <<>> THEN "planning" ELSE verdict
ImplementsTaskOrder == Order!OrderSpec
===========================================================================
