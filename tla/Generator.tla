------------------------------ MODULE Generator ------------------------------
(***************************************************************************)
(* POST /generate-pipeline: a pipeline from a text                         *)
(* (core/pipeline_generator.py, core/nlp_generator.py).  A language model  *)
(* is asked first; without an answer that loads, the sentences are parsed  *)
(* by pattern; if that engine raises, a line-by-line parser takes over.    *)
(*                                                                         *)
(* What the patterns find in a sentence is its data here: the operation of *)
(* its verb, the systems it names and after which preposition, the words   *)
(* for naming, cadence and parallelism.  From there on everything that     *)
(* decides the tasks and their order is translated.                        *)
(***************************************************************************)
EXTENDS TaskGraph, Lists, FiniteSets, SequencesExt

CONSTANTS Plugin, NoPlugin,
          PluginOrder,   \* PLUGIN_PATTERNS, in the order they are tried
          NoOperation,
          Texts          \* the texts examined, sequences of sentences

\* A sentence.  from, into, using: the system after such a preposition;
\* mentions: every system named; naming: it only names or schedules the
\* pipeline; hint: a word that makes the line parser take it for a task;
\* after: the task names it says it comes after.
Sentence == [operation : STRING, from : Plugin \cup {NoPlugin}, into : Plugin \cup {NoPlugin},
             using : Plugin \cup {NoPlugin}, mentions : SUBSET Plugin, subject : STRING,
             words : Nat, naming : BOOLEAN, cadence : BOOLEAN, parallel : BOOLEAN,
             hint : BOOLEAN, after : SUBSET STRING]

ASSUME GeneratorAssumption ==
  /\ NoPlugin \notin Plugin /\ Plugin = {PluginOrder[k] : k \in DOMAIN PluginOrder}
  /\ Texts \subseteq Seq(Sentence)

VARIABLES text,
          asking,   \* the engine that is asked: "llm", "nlp", "legacy" or "none"
          response    \* the response

generatorVars == <<text, asking, response>>

-----------------------------------------------------------------------------
(* generate_from_text: sentences, intents, tasks                           *)

Reading == {"query", "validate", "load"}
InOrder(plugins) == Filtered(PluginOrder, plugins)

\* What remains of a text that no sentence of it is a task.
WholeText(t) ==
  [t[1] EXCEPT !.parallel = \E k \in DOMAIN t : t[k].parallel,
               !.cadence  = \E k \in DOMAIN t : t[k].cadence]

Segments(t) == Filtered(t, {s \in Range(t) : s.words >= 2})

TaskSentences(t) ==
  LET likely == Filtered(Segments(t), {s \in Range(t) : s.operation # NoOperation \/ s.mentions # {}})
      longer == Filtered(Segments(t), {s \in Range(t) : s.words >= 3})
  IN CASE likely # <<>> -> likely
       [] likely = <<>> /\ longer # <<>> -> longer
       [] OTHER -> <<WholeText(t)>>

\* Systems without a preposition get a role by their number, by the operation
\* and by their place among the patterns, not in the sentence.
ParseIntent(s) ==
  LET all  == InOrder(s.mentions)
      rest == Filtered(all, Plugin \ {s.from})
  IN CASE s.from = NoPlugin /\ s.into = NoPlugin /\ Len(all) >= 2 ->
            [s EXCEPT !.from = all[1], !.into = all[2]]
       [] s.from = NoPlugin /\ s.into = NoPlugin /\ Len(all) = 1 ->
            IF s.operation \in Reading THEN [s EXCEPT !.from = all[1]]
            ELSE [s EXCEPT !.into = all[1]]
       [] s.from = NoPlugin /\ s.into # NoPlugin -> [s EXCEPT !.from = all[1]]
       [] s.from # NoPlugin /\ s.into = NoPlugin /\ Len(all) > 1 -> [s EXCEPT !.into = rest[1]]
       [] OTHER -> s

IsPipelineHeader(i) ==
  i.naming /\ i.from = NoPlugin /\ i.into = NoPlugin /\ i.using = NoPlugin
IsScheduleOnly(i) ==
  i.operation = NoOperation /\ i.from = NoPlugin /\ i.into = NoPlugin /\ i.cadence
Meaningful(t) ==
  LET intents == [k \in DOMAIN TaskSentences(t) |-> ParseIntent(TaskSentences(t)[k])]
      kept    == Filtered(intents, {i \in Range(intents) : ~IsPipelineHeader(i) /\ ~IsScheduleOnly(i)})
  IN IF kept = <<>> THEN intents ELSE kept

\* The first system there is, in an order of preference.
Preferred(order) ==
  LET some == {k \in DOMAIN order : order[k] # NoPlugin}
  IN IF some = {} THEN "python" ELSE order[Min(some)]

PrimaryPlugin(i) ==
  CASE i.operation = "send" /\ i.using = "email" -> "email"
    [] i.operation \in {"query", "validate"} /\ i.from # NoPlugin -> i.from
    [] OTHER -> Preferred(<<i.into, i.from, i.using>>)
\* The plugin whose template the task's config is filled in from.
ConfigPlugin(i) ==
  CASE "dbt" \in {i.from, i.into} -> "dbt"
    [] "dbt" \notin {i.from, i.into} /\ i.operation \in Reading /\ i.from # NoPlugin -> i.from
    [] OTHER -> Preferred(<<i.into, i.from, i.using>>)

\* _make_task_name, and the suffix that tells tasks of one name apart.
BaseName(i)    == <<i.operation, i.subject, i.from, i.into>>
Names(intents) ==
  [k \in DOMAIN intents |->
     <<BaseName(intents[k]),
       Cardinality({j \in 1..k : BaseName(intents[j]) = BaseName(intents[k])})>>]

\* Mutant of WaitsFor: a parallel sentence always waits for some task.
WaitsForSome(intents, k, before) ==
  IF k = 1 THEN {}
  ELSE IF intents[k].parallel /\ before # {} THEN before ELSE {k - 1}
\* What the task at position k waits for, given what the one before it does.
WaitsFor(intents, k, before) ==
  IF k = 1 THEN {}
  ELSE IF ~intents[k].parallel THEN {k - 1}
  ELSE IF before # {} THEN before ELSE {k - 2} \ {0}
\* depends_on, by position.
Wired(intents) ==
  LET deps[k \in DOMAIN intents] ==
        WaitsFor(intents, k, IF k = 1 THEN {} ELSE deps[k - 1])
  IN deps

-----------------------------------------------------------------------------
(* The line parser                                                         *)

CandidateLines(t) == Filtered(t, {s \in Range(t) : s.hint})
LegacyTasks(t) ==
  Filtered(CandidateLines(t),
           {s \in Range(t) : s.operation # NoOperation \/ s.mentions # {} \/ s.words >= 2})

\* depends_on comes from the candidate line at the task's position, which is
\* another task's line once a line before it was dropped.
LegacyDependencies(t) ==
  LET tasks == LegacyTasks(t)
      lines == CandidateLines(t)
      named(k) == {j \in DOMAIN tasks : tasks[j].subject \in lines[k].after
                                        /\ \A i \in 1..(j - 1) : tasks[i].subject # tasks[j].subject}
  IN [k \in DOMAIN tasks |-> IF named(k) = {} /\ k > 1 THEN {k - 1} ELSE named(k)]

-----------------------------------------------------------------------------
(* The response                                                            *)

NoAnswer == [by |-> "nobody"]
Answer(engine, deps, intents) == [by |-> engine, deps |-> deps, intents |-> intents]

\* PipelineConfig(**payload), for tasks that go by their names.
LoadsAsGraph(deps) ==
  LET n == Len(deps)
  IN /\ \A k \in 1..n : k \notin deps[k]
     /\ Layered(1..n, deps, n)[n] = 1..n
WaveOf(deps, k) ==
  LET placed == Layered(1..Len(deps), deps, Len(deps))
  IN CHOOSE w \in 1..Len(deps) : k \in placed[w] \ placed[w - 1]

GeneratorInit ==
  /\ text \in Texts
  /\ asking = "llm"
  /\ response = NoAnswer

\* A provider answered with YAML that loads.
LlmAnswers ==
  /\ asking = "llm"
  /\ response' = [by |-> "llm"]
  /\ asking' = "none"
  /\ UNCHANGED text

\* No key, no package, an error, no YAML in the response, or one that does not load.
LlmFails ==
  /\ asking = "llm"
  /\ asking' = "nlp"
  /\ UNCHANGED <<text, response>>

NlpAnswers ==
  LET intents == Meaningful(text)
      deps    == Wired(intents)
  IN /\ asking = "nlp"
     /\ IsInjective(Names(intents)) /\ LoadsAsGraph(deps)
     /\ response' = Answer("nlp", deps, intents)
     /\ asking' = "none"
     /\ UNCHANGED text

\* The engine raises, on its own account or because what it built is refused.
NlpFails ==
  /\ asking = "nlp"
  /\ asking' = "legacy"
  /\ UNCHANGED <<text, response>>

\* One default task when no line is one.
LegacyAnswers ==
  LET deps == IF LegacyTasks(text) = <<>> THEN <<{}>> ELSE LegacyDependencies(text)
  IN /\ asking = "legacy"
     /\ response' = IF LoadsAsGraph(deps) THEN Answer("legacy", deps, LegacyTasks(text))
                  ELSE [by |-> "refused"]
     /\ asking' = "none"
     /\ UNCHANGED text

GeneratorNext == LlmAnswers \/ LlmFails \/ NlpAnswers \/ NlpFails \/ LegacyAnswers

GeneratorSpec == GeneratorInit /\ [][GeneratorNext]_generatorVars

-----------------------------------------------------------------------------
(* Properties                                                              *)

GeneratorTypeOK ==
  /\ text \in Seq(Sentence)
  /\ asking \in {"llm", "nlp", "legacy", "none"}
  /\ response.by \in {"nobody", "llm", "nlp", "legacy", "refused"}

\* nlp_generator.py:784-785 and the doc of the module: the tasks come in the
\* order of the sentences, and one said to be parallel shares the wave of the
\* one before.  It does unless everything before it is in the first wave, when
\* from the third sentence on it waits for the last task but one.  What is
\* built always loads, so the line parser is left to an engine that broke, and
\* a task's config is its plugin's, but for a load between two systems, a mail
\* and a task that only reads from, or only names, dbt.
SentencesBecomeWaves ==
  /\ asking = "nlp" => LoadsAsGraph(Wired(Meaningful(text))) /\ IsInjective(Names(Meaningful(text)))
  /\ response.by = "nlp" =>
       \A k \in DOMAIN response.deps :
         LET i    == response.intents[k]
             wave == WaveOf(response.deps, k)
         IN /\ k > 1 /\ ~i.parallel => wave = WaveOf(response.deps, k - 1) + 1
            /\ k > 1 /\ i.parallel =>
                 \/ wave = WaveOf(response.deps, k - 1)
                 \/ k > 2 /\ \A j \in 1..(k - 1) : WaveOf(response.deps, j) = 1
            /\ \/ ConfigPlugin(i) = PrimaryPlugin(i)
               \/ i.operation = "load" /\ NoPlugin \notin {i.from, i.into} /\ i.from # i.into
               \/ i.operation = "send" /\ i.using = "email"
               \/ "dbt" \in {i.from, i.into}
===============================================================================
