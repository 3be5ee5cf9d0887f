------------------------------ MODULE MCPlatform ------------------------------
(***************************************************************************)
(* Model checking of the components that share no state with one another:  *)
(* a behaviour exercises one of them, its part, and leaves the others as   *)
(* they started.  Their reachable states are those of the components, and  *)
(* the fairness of each is that of its own specification.                  *)
(***************************************************************************)
EXTENDS Executor, EmbeddedRuns, Backfill, Triggers, Schedules, AlertIncidents,
        GitSync, Releases, Lineage, Generator, Baseline, TLC

CONSTANTS ta, tb, tc   \* the tasks of Executor

VARIABLE part

platformVars == <<part, executorVars, embeddedVars, backfillVars, triggerVars, scheduleVars,
                  alertVars, gitVars, releaseVars, columnVars, generatorVars, baselineVars>>

-----------------------------------------------------------------------------
(* Executor: three tasks, wired every way that matters.                    *)

By(t)   == [task |-> t, by |-> "name"]
ById(t) == [task |-> t, by |-> "id"]
Deps(da, db, dc) == (ta :> da) @@ (tb :> db) @@ (tc :> dc)
\* tb is retried once; the timed tasks have a timeout, the gated a quality check.
Pipe(deps, ids, timed, gated) ==
  [deps |-> deps, hasId |-> ids, retries |-> [t \in Task |-> IF t = tb THEN 1 ELSE 0],
   timed |-> timed, check |-> [t \in Task |-> IF t \in gated THEN {"gate"} ELSE {}]]
Chain == Pipe(Deps({}, {By(ta)}, {By(tb)}), {}, {tb}, {})
PipelinesUnderTest ==
  { Chain,
    Pipe(Deps({}, {}, {By(ta), By(tb)}), {}, {tb}, {ta}),
    Pipe(Deps({}, {ById(ta)}, {By(ta)}), {ta}, {}, {tc}), \* a dependency by id
    Pipe(Deps({By(tb)}, {By(ta)}, {}), {ta}, {}, {}),    \* a cycle only the builder sees
    Pipe(Deps({By(tb)}, {By(ta)}, {}), {}, {}, {}),      \* a cycle the validator sees
    Pipe(Deps({}, {}, {By(tb)}), {}, {}, {}),            \* a task beside a chain
    Pipe(Deps({}, {}, {}), {}, {tb}, {ta}) }             \* more tasks than workers

\* Backfill: four instants to a day.
Daily == {0, 4, 8, 12}
SchedulesUnderTest == {Daily, {0, 2, 4, 6}}

\* AlertIncidents: one platform-wide rule on the failure rate.
OwnerUnderTest     == [q \in QueueRow |-> "orders"]
MetricUnderTest    == [r \in Rule |-> "pipeline_failure_rate"]
ThresholdUnderTest == [r \in Rule |-> 25]

\* Releases: saving "raw" writes "dump".
DumpedUnderTest == [y \in Loads |-> IF y = "raw" THEN "dump" ELSE y]

\* Lineage: orders from the table raw, daily from orders and the table ref,
\* export from daily.
ColumnsUnderTest == ("raw" :> {"a", "b"}) @@ ("ref" :> {"k"})
Bare(x)        == [alias |-> "-", column |-> x]
At(n, x)       == [alias |-> n, column |-> x]
As(x, refs)    == [name |-> x, reads |-> refs, star |-> FALSE]
Col(x)         == As(x, {Bare(x)})
EveryOf(n)     == As("*", {At(n, "*")})
AllColumns     == [name |-> "*", reads |-> {}, star |-> TRUE]
Select(ps, srcs) == [projections |-> ps, from |-> srcs, on |-> {}]
FromTable(x)   == [t |-> Table(x)]
Both           == [t |-> Table("orders"), u |-> Table("ref")]
Within(k)      == [t |-> Inner(k)]
StatementsUnderTest ==
  ("orders" :> { << Select({Col("a"), Col("b")}, FromTable("raw")) >>,
                 << Select({Col("a")}, FromTable("raw")) >>,
                 << Select({AllColumns}, FromTable("raw")) >>,
                 << Select({EveryOf("t")}, FromTable("raw")) >>,
                 << Select({AllColumns}, FromTable("raw")), Select({AllColumns}, Within(1)) >>,
                 \* SELECT * FROM (SELECT a, COUNT(*) AS b FROM raw)
                 << Select({Col("a"), As("b", {})}, FromTable("raw")), Select({AllColumns}, Within(1)) >> }) @@
  ("daily" :> { << Select({Col("b")}, FromTable("orders")) >>,
                << Select({AllColumns}, FromTable("orders")) >>,
                << Select({As("b", {})}, FromTable("orders")) >>,
                << Select({Col("b")}, Both) >>,
                << [Select({As("k", {At("u", "k")})}, Both) EXCEPT !.on = {At("t", "b"), At("u", "k")}] >>,
                << Select({AllColumns}, FromTable("orders")), Select({Col("b")}, Within(1)) >>,
                << Select({EveryOf("t")}, FromTable("orders")), Select({Col("b")}, Within(1)) >>,
                \* a common table, selected from by two others
                << Select({Col("b")}, FromTable("orders")), Select({As("c", {Bare("b")})}, Within(1)),
                   Select({As("b", {At("t", "c"), At("u", "b")})}, [t |-> Inner(2), u |-> Inner(1)]) >> }) @@
  ("export" :> { << Select({Col("b")}, FromTable("daily")) >> })

\* A ref that git can show whole, and one where the path of a model fails.
ShowableUnderTest == {Asset, Asset \ {"daily"}}

PlainModels == [x \in {"orders", "daily", "export"} |->
                  CHOOSE s \in StatementsUnderTest[x] : TRUE]

\* Generator: every text of up to three of these sentences.
Extract == [operation |-> "query", from |-> "postgres", into |-> "none", using |-> "none",
            mentions |-> {"postgres"}, subject |-> "orders", words |-> 4, naming |-> FALSE,
            cadence |-> FALSE, parallel |-> FALSE, hint |-> TRUE, after |-> {}]
Sentences ==
  { Extract,
    [Extract EXCEPT !.parallel = TRUE, !.after = {"stock"}],
    [Extract EXCEPT !.operation = "load", !.into = "snowflake", !.subject = "stock",
                    !.mentions = {"postgres", "snowflake"}, !.after = {"orders"}],
    [Extract EXCEPT !.operation = "run", !.from = "none", !.mentions = {"dbt"}, !.subject = "models"],
    [Extract EXCEPT !.operation = "execute", !.from = "none", !.mentions = {}, !.naming = TRUE],
    [Extract EXCEPT !.operation = "none", !.from = "none", !.mentions = {}, !.cadence = TRUE, !.hint = FALSE],
    [Extract EXCEPT !.operation = "none", !.from = "none", !.mentions = {}, !.words = 1] }
TextsUnderTest == UNION {[1..n -> Sentences] : n \in 1..3}
SystemsUnderTest == <<"postgres", "snowflake", "dbt", "email">>

\* Baseline: two events of one window and one amount, and one of another.
Field(w, x, y) == [window |-> w, amount |-> x, payload |-> y]
ManifestUnderTest == ("e1" :> Field(0, 5, "p1")) @@ ("e2" :> Field(0, 5, "p2")) @@ ("e3" :> Field(1, 7, "p3"))
EventOrder == SetToSeq(DOMAIN ManifestUnderTest)
DeliveredTwice == {{}, {"e2", "e3"}}
AlteredUnderTest == Field(1, 5, "p4")

-----------------------------------------------------------------------------
Part == {"executor", "embedded", "backfill", "triggers", "schedules", "alerts", "git", "releases",
          "lineage", "generator", "baseline"}

\* What the other components start from does not matter and is fixed.
PlatformInit ==
  /\ part \in Part
  /\ ExecutorInit   /\ (part # "executor" => pipe = Chain /\ mode = "parallel")
  /\ EmbeddedInit
  /\ BackfillInit   /\ (part # "backfill" => fires = Daily)
  /\ TriggerInit    /\ (part # "triggers" => \A s \in Sensor : mtime[s] = 0)
  /\ ScheduleInit /\ AlertInit /\ GitInit
  /\ ReleaseInit    /\ (part # "releases" => yaml = "raw")
  /\ LineageInit    /\ (part # "lineage" => catalog = {} /\ base = PlainModels)
  /\ GeneratorInit  /\ (part # "generator" => text = <<Extract>>)
  /\ BaselineInit   /\ (part # "baseline" => arrivals = EventOrder /\ consumer = "transactional" /\ crashAfter = 0)

InExecutor  == part = "executor" /\ ExecutorNext
               /\ UNCHANGED <<part, embeddedVars, backfillVars, triggerVars, scheduleVars, alertVars, gitVars, releaseVars, columnVars, generatorVars, baselineVars>>
InEmbedded  == part = "embedded" /\ EmbeddedNext
               /\ UNCHANGED <<part, executorVars, backfillVars, triggerVars, scheduleVars, alertVars, gitVars, releaseVars, columnVars, generatorVars, baselineVars>>
InBackfill  == part = "backfill" /\ BackfillNext
               /\ UNCHANGED <<part, executorVars, embeddedVars, triggerVars, scheduleVars, alertVars, gitVars, releaseVars, columnVars, generatorVars, baselineVars>>
InTriggers  == part = "triggers" /\ TriggerNext
               /\ UNCHANGED <<part, executorVars, embeddedVars, backfillVars, scheduleVars, alertVars, gitVars, releaseVars, columnVars, generatorVars, baselineVars>>
InSchedules == part = "schedules" /\ ScheduleNext
               /\ UNCHANGED <<part, executorVars, embeddedVars, backfillVars, triggerVars, alertVars, gitVars, releaseVars, columnVars, generatorVars, baselineVars>>
InAlerts    == part = "alerts" /\ AlertNext
               /\ UNCHANGED <<part, executorVars, embeddedVars, backfillVars, triggerVars, scheduleVars, gitVars, releaseVars, columnVars, generatorVars, baselineVars>>
InGit       == part = "git" /\ GitNext
               /\ UNCHANGED <<part, executorVars, embeddedVars, backfillVars, triggerVars, scheduleVars, alertVars, releaseVars, columnVars, generatorVars, baselineVars>>
InReleases  == part = "releases" /\ ReleaseNext
               /\ UNCHANGED <<part, executorVars, embeddedVars, backfillVars, triggerVars, scheduleVars, alertVars, gitVars, columnVars, generatorVars, baselineVars>>
InLineage   == part = "lineage" /\ LineageNext
               /\ UNCHANGED <<part, executorVars, embeddedVars, backfillVars, triggerVars, scheduleVars, alertVars, gitVars, releaseVars, generatorVars, baselineVars>>
InGenerator == part = "generator" /\ GeneratorNext
               /\ UNCHANGED <<part, executorVars, embeddedVars, backfillVars, triggerVars, scheduleVars, alertVars, gitVars, releaseVars, columnVars, baselineVars>>
InBaseline  == part = "baseline" /\ BaselineNext
               /\ UNCHANGED <<part, executorVars, embeddedVars, backfillVars, triggerVars, scheduleVars, alertVars, gitVars, releaseVars, columnVars, generatorVars>>

PlatformNext ==
  \/ InExecutor \/ InEmbedded \/ InBackfill \/ InTriggers
  \/ InSchedules \/ InAlerts \/ InGit \/ InReleases
  \/ InLineage \/ InGenerator \/ InBaseline

\* A component that is not the part of a behaviour has nothing to be fair about.
PlatformFairness ==
  /\ WF_executorVars(part = "executor" /\ ExecutorStep)
  /\ \A j \in Job : /\ WF_embeddedVars(part = "embedded" /\ HandlerStep(j))
                    /\ WF_embeddedVars(part = "embedded" /\ BodyStep(j))
                    /\ WF_embeddedVars(part = "embedded" /\ StreamTick(j))
  /\ \A s \in Sensor : WF_triggerVars(part = "triggers" /\ SensorStep(s))
  /\ \A t \in Trigger : WF_triggerVars(part = "triggers" /\ TriggerHandler(t))
  /\ \A k \in AutoCollector : WF_alertVars(part = "alerts" /\ Evaluate(k))

PlatformSpec == PlatformInit /\ [][PlatformNext]_platformVars /\ PlatformFairness

-----------------------------------------------------------------------------
\* Every component's variables keep their types.
PlatformTypeOK ==
  /\ ExecutorTypeOK /\ EmbeddedTypeOK /\ BackfillTypeOK /\ TriggerTypeOK
  /\ ScheduleTypeOK /\ AlertTypeOK /\ GitTypeOK /\ ReleaseTypeOK
  /\ LineageTypeOK /\ GeneratorTypeOK /\ BaselineTypeOK
===============================================================================
