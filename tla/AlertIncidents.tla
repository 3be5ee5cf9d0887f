---------------------------- MODULE AlertIncidents ----------------------------
(***************************************************************************)
(* Metric collection and alerting (core/observability.py): collectors -    *)
(* the API's loop, the CLI's loop, requests - read the queue, compute      *)
(* samples, walk the enabled rules and open, update or resolve incidents,  *)
(* each with its own transaction, and notify whoever is to hear of a new   *)
(* one, while operators acknowledge and resolve incidents and edit the     *)
(* rules and the notification channels.                                    *)
(***************************************************************************)
EXTENDS Integers, FiniteSets, Sequences

CONSTANTS
  QueueRow,      \* rows of pipeline_queue
  Owner,         \* the pipeline of each row
  Rule,          \* alert rule ids
  Metric,        \* the metric of each rule
  Threshold,     \* and its threshold; the comparator is ">"
  Seeded,        \* the rules of DEFAULT_ALERT_RULES
  Channel,       \* notification channel ids
  Collector,     \* threads that may collect
  AutoCollector, \* those that collect again and again
  Notifying,     \* those asked or configured to notify
  MaxUpsets      \* bound: operator actions and errors

Platform == "platform"  \* the scope of a sample with no pipeline
Every == "*"            \* pipeline_name of a rule for each pipeline
Subject == {Owner[q] : q \in QueueRow} \union {Platform}

ASSUME AlertAssumption ==
  /\ Seeded \subseteq Rule /\ AutoCollector \subseteq Collector /\ Notifying \subseteq Collector
  /\ MaxUpsets \in Nat /\ Threshold \in [Rule -> Nat]
  /\ Metric \in [Rule -> {"pipeline_failure_rate", "pipeline_success_rate", "queue_depth", "active_runs"}]

VARIABLES
  queueStatus, \* per row: its status, or "future" or "expired" (out of range)
  alertRules,  \* per rule: its row of alert_rules, or NoRule
  channels,    \* per channel: "absent", or whether it "hears" of the rules' severity
  incidents,   \* alert_incidents in the order of creation
  collectors,  \* per collector: what it is doing
  upsets       \* operator actions and errors so far

alertVars == <<queueStatus, alertRules, channels, incidents, collectors, upsets>>

NoRule == [enabled |-> FALSE, scope |-> "absent", direct |-> FALSE]
Resting == [at |-> "rest", samples |-> {}, todo |-> {}, found |-> 0, targets |-> {}]
Active == {"firing", "acknowledged"}

-----------------------------------------------------------------------------
(* Samples *)

Rate(numerator, denominator) ==
  IF denominator <= 0 THEN 0 ELSE (100 * numerator) \div denominator

\* Samples are computed from the rows queued within the range: one per
\* metric for the platform and the per-pipeline ones for each known pipeline.
SampleValue(metric, subject) ==
  LET count(s) == Cardinality({q \in QueueRow : /\ queueStatus[q] = s
                                                /\ subject \in {Platform, Owner[q]}})
      terminal == count("completed") + count("failed")
  IN  CASE metric = "pipeline_failure_rate" -> Rate(count("failed"), terminal)
        [] metric = "pipeline_success_rate" -> Rate(count("completed"), terminal)
        [] metric = "queue_depth" -> count("queued")
        [] metric = "active_runs" -> count("queued") + count("running")

KnownPipelines == {Owner[q] : q \in {q \in QueueRow : queueStatus[q] # "future"}}

BuildSamples ==
  {[metric |-> m, subject |-> s, value |-> SampleValue(m, s)] :
     m \in {Metric[r] : r \in Rule}, s \in {Platform}}
  \union
  {[metric |-> m, subject |-> s, value |-> SampleValue(m, s)] :
     m \in {Metric[r] : r \in Rule} \ {"queue_depth", "active_runs"}, s \in KnownPipelines}

InScope(scope, subject) ==
  CASE scope = Platform -> subject = Platform
    [] scope = Every -> subject # Platform
    [] OTHER -> subject = scope

MatchingSamples(r, samples) ==
  {s \in samples : s.metric = Metric[r] /\ InScope(alertRules[r].scope, s.subject)}

Fires(r, value) == value > Threshold[r]

-----------------------------------------------------------------------------
(* The rest of the platform moves the queue; rows leave the range as time  *)
(* passes.                                                                 *)

Follows == [future |-> {"queued"}, queued |-> {"running", "expired"},
            running |-> {"completed", "failed", "dead_letter"},
            completed |-> {"expired"}, failed |-> {"expired"},
            dead_letter |-> {"expired"}, expired |-> {}]

MoveQueue(q) ==
  \E s \in Follows[queueStatus[q]] :
    /\ queueStatus' = [queueStatus EXCEPT ![q] = s]
    /\ UNCHANGED <<alertRules, channels, incidents, collectors, upsets>>

-----------------------------------------------------------------------------
(* Collectors *)

IncidentsOf(r, subject) ==
  {i \in DOMAIN incidents : /\ incidents[i].rule = r /\ incidents[i].subject = subject
                            /\ incidents[i].status \in Active}

\* Mutant of ActiveIncident: an acknowledged incident is not found again.
FiringIncident(r, subject) ==
  LET live == {i \in IncidentsOf(r, subject) : incidents[i].status = "firing"}
  IN  IF live = {} THEN 0 ELSE CHOOSE i \in live : \A j \in live : j <= i

\* get_active_alert_incident: the newest, or 0.
ActiveIncident(r, subject) ==
  LET live == IncidentsOf(r, subject)
  IN  IF live = {} THEN 0 ELSE CHOOSE i \in live : \A j \in live : j <= i

CollectMetrics(c) ==
  /\ collectors[c].at = "rest"
  /\ collectors' = [collectors EXCEPT ![c] = [Resting EXCEPT !.at = "sampled", !.samples = BuildSamples]]
  /\ UNCHANGED <<queueStatus, alertRules, channels, incidents, upsets>>

\* The enabled rules are listed once; what follows goes by this list.
EvaluateRules(c) ==
  /\ collectors[c].at = "sampled"
  /\ LET matching == {m \in Rule \X collectors[c].samples :
                        alertRules[m[1]].enabled /\ m[2] \in MatchingSamples(m[1], collectors[c].samples)}
         todo == {<<m[1], m[2].subject, Fires(m[1], m[2].value), alertRules[m[1]].direct>> : m \in matching}
     IN  collectors' = [collectors EXCEPT ![c] =
           IF todo = {} THEN Resting ELSE [Resting EXCEPT !.at = "walking", !.todo = todo]]
  /\ UNCHANGED <<queueStatus, alertRules, channels, incidents, upsets>>

Item(c) == CHOOSE item \in collectors[c].todo : TRUE
NextItem(c) ==
  LET rest == collectors[c].todo \ {Item(c)}
  IN  IF rest = {} THEN Resting ELSE [Resting EXCEPT !.at = "walking", !.todo = rest]

LookForIncident(c) ==
  /\ collectors[c].at = "walking" /\ Item(c)[3]
  /\ LET found == ActiveIncident(Item(c)[1], Item(c)[2])
     IN  collectors' = [collectors EXCEPT ![c].at = IF found = 0 THEN "creating" ELSE "updating",
                                          ![c].found = found]
  /\ UNCHANGED <<queueStatus, alertRules, channels, incidents, upsets>>

\* The update goes by the incident's id and says nothing of its status.
UpdateObservation(c) ==
  /\ collectors[c].at = "updating"
  /\ collectors' = [collectors EXCEPT ![c] = NextItem(c)]
  /\ UNCHANGED <<queueStatus, alertRules, channels, incidents, upsets>>

CreateIncident(c) ==
  /\ collectors[c].at = "creating"
  /\ incidents' = Append(incidents,
       [rule |-> Item(c)[1], subject |-> Item(c)[2], status |-> "firing", resolved |-> FALSE,
        opener |-> c, cut |-> FALSE, told |-> <<>>])
  /\ collectors' = [collectors EXCEPT ![c] =
       IF c \in Notifying THEN [collectors[c] EXCEPT !.at = "notifying", !.found = Len(incidents) + 1]
       ELSE NextItem(c)]
  /\ UNCHANGED <<queueStatus, alertRules, channels, upsets>>

\* list_notification_channels(enabled_only, severity)
Hearing == {ch \in Channel : channels[ch] = "hears"}

\* The rule as it was listed has its own destination, or the channels there
\* are by now are told; if there is nobody to tell, a row says so.
Targets(direct) ==
  IF direct THEN {"rule"} ELSE IF Hearing = {} THEN {"none"} ELSE Hearing

PickTargets(c) ==
  /\ collectors[c].at = "notifying"
  /\ collectors' = [collectors EXCEPT ![c].at = "telling", ![c].targets = Targets(Item(c)[4])]
  /\ UNCHANGED <<queueStatus, alertRules, channels, incidents, upsets>>

\* One attempt per target, recorded as sent or failed and never repeated:
\* what the collector does next does not depend on how it went.
NotifyTarget(c) ==
  /\ collectors[c].at = "telling"
  /\ LET t == CHOOSE t \in collectors[c].targets : TRUE IN
       /\ incidents' = [incidents EXCEPT ![collectors[c].found].told = Append(@, t)]
       /\ collectors' = [collectors EXCEPT ![c] =
            IF collectors[c].targets = {t} THEN NextItem(c)
            ELSE [collectors[c] EXCEPT !.targets = @ \ {t}]]
  /\ UNCHANGED <<queueStatus, alertRules, channels, upsets>>

\* Mutant of ResolveCleared: an acknowledged incident is left alone.
ResolveFiring(c) ==
  /\ collectors[c].at = "walking" /\ ~Item(c)[3]
  /\ LET cleared == IncidentsOf(Item(c)[1], Item(c)[2])
     IN  incidents' = [i \in DOMAIN incidents |->
           IF i \in cleared /\ incidents[i].status = "firing"
           THEN [incidents[i] EXCEPT !.status = "resolved", !.resolved = TRUE] ELSE incidents[i]]
  /\ collectors' = [collectors EXCEPT ![c] = NextItem(c)]
  /\ UNCHANGED <<queueStatus, alertRules, channels, upsets>>

ResolveCleared(c) ==
  /\ collectors[c].at = "walking" /\ ~Item(c)[3]
  /\ LET cleared == IncidentsOf(Item(c)[1], Item(c)[2])
     IN  incidents' = [i \in DOMAIN incidents |->
           IF i \in cleared THEN [incidents[i] EXCEPT !.status = "resolved", !.resolved = TRUE]
           ELSE incidents[i]]
  /\ collectors' = [collectors EXCEPT ![c] = NextItem(c)]
  /\ UNCHANGED <<queueStatus, alertRules, channels, upsets>>

Evaluate(c) ==
  \/ CollectMetrics(c) \/ EvaluateRules(c) \/ LookForIncident(c) \/ UpdateObservation(c)
  \/ CreateIncident(c) \/ PickTargets(c) \/ NotifyTarget(c) \/ ResolveCleared(c)

\* A database error ends the iteration; the loop logs it and goes on.  Who
\* was still to be told of a new incident is forgotten.
IterationFails(c) ==
  /\ collectors[c].at # "rest" /\ upsets < MaxUpsets /\ upsets' = upsets + 1
  /\ incidents' = IF collectors[c].at \in {"notifying", "telling"}
                  THEN [incidents EXCEPT ![collectors[c].found].cut = TRUE] ELSE incidents
  /\ collectors' = [collectors EXCEPT ![c] = Resting]
  /\ UNCHANGED <<queueStatus, alertRules, channels>>

-----------------------------------------------------------------------------
(* Operators *)

Upset == upsets < MaxUpsets /\ upsets' = upsets + 1 /\ UNCHANGED <<queueStatus, collectors>>

\* Neither endpoint asks for the status the incident has.
Acknowledge(i) ==
  /\ Upset /\ incidents[i].status # "acknowledged"
  /\ incidents' = [incidents EXCEPT ![i].status = "acknowledged"]
  /\ UNCHANGED <<alertRules, channels>>

ResolveByHand(i) ==
  /\ Upset /\ incidents[i].status # "resolved"
  /\ incidents' = [incidents EXCEPT ![i].status = "resolved", ![i].resolved = TRUE]
  /\ UNCHANGED <<alertRules, channels>>

UpdateRule(r) ==
  /\ alertRules[r] # NoRule
  /\ \/ alertRules' = [alertRules EXCEPT ![r].enabled = ~@]
     \/ \E scope \in Subject \union {Every} :
          /\ scope # alertRules[r].scope
          /\ alertRules' = [alertRules EXCEPT ![r].scope = scope]
     \/ alertRules' = [alertRules EXCEPT ![r].direct = ~@]

DeleteRule(r) ==
  /\ alertRules[r] # NoRule
  /\ alertRules' = [alertRules EXCEPT ![r] = NoRule]

CreateRule(r) ==
  /\ alertRules[r] = NoRule
  /\ alertRules' = [alertRules EXCEPT ![r] = [enabled |-> TRUE, scope |-> Every, direct |-> FALSE]]

EditRule(r) ==
  /\ Upset /\ UNCHANGED <<channels, incidents>>
  /\ UpdateRule(r) \/ DeleteRule(r) \/ CreateRule(r)

CreateChannel(ch) ==
  /\ Upset /\ channels[ch] = "absent"
  /\ \E state \in {"hears", "deaf"} : channels' = [channels EXCEPT ![ch] = state]
  /\ UNCHANGED <<alertRules, incidents>>

\* Enabled or disabled, or given severities that do or do not match the
\* rules': none at all is accepted here and hears of nothing.
UpdateChannel(ch) ==
  /\ Upset /\ channels[ch] # "absent"
  /\ channels' = [channels EXCEPT ![ch] = IF @ = "hears" THEN "deaf" ELSE "hears"]
  /\ UNCHANGED <<alertRules, incidents>>

DeleteChannel(ch) ==
  /\ Upset /\ channels[ch] # "absent"
  /\ channels' = [channels EXCEPT ![ch] = "absent"]
  /\ UNCHANGED <<alertRules, incidents>>

\* ensure_default_alert_rules, at every start: a default rule that was
\* deleted comes back, one that was edited is left alone.
SeedRules ==
  /\ UNCHANGED <<queueStatus, channels, incidents, collectors, upsets>>
  /\ \E r \in Seeded : alertRules[r] = NoRule
  /\ alertRules' = [r \in Rule |->
       IF r \in Seeded /\ alertRules[r] = NoRule THEN [enabled |-> TRUE, scope |-> Platform, direct |-> FALSE]
       ELSE alertRules[r]]

-----------------------------------------------------------------------------
AlertInit ==
  /\ queueStatus = [q \in QueueRow |-> "future"]
  /\ alertRules = [r \in Rule |-> [enabled |-> TRUE, direct |-> FALSE,
                                  scope |-> IF r \in Seeded THEN Platform ELSE Every]]
  /\ channels = [ch \in Channel |-> "hears"]
  /\ incidents = <<>>
  /\ collectors = [c \in Collector |-> Resting]
  /\ upsets = 0

AlertNext ==
  \/ \E q \in QueueRow : MoveQueue(q)
  \/ \E c \in Collector : Evaluate(c) \/ IterationFails(c)
  \/ \E i \in DOMAIN incidents : Acknowledge(i) \/ ResolveByHand(i)
  \/ \E r \in Rule : EditRule(r)
  \/ \E ch \in Channel : CreateChannel(ch) \/ UpdateChannel(ch) \/ DeleteChannel(ch)
  \/ SeedRules

AlertFairness == \A c \in AutoCollector : WF_alertVars(Evaluate(c))

AlertSpec == AlertInit /\ [][AlertNext]_alertVars /\ AlertFairness

-----------------------------------------------------------------------------
(* Properties *)

\* The shape of the tables and of a collector's memory.
AlertTypeOK ==
  /\ queueStatus \in [QueueRow -> DOMAIN Follows]
  /\ \A r \in Rule : alertRules[r] = NoRule \/ alertRules[r].scope \in Subject \union {Every}
  /\ \A i \in DOMAIN incidents : /\ incidents[i].status \in Active \union {"resolved"}
                                 /\ incidents[i].opener \in Collector
  /\ \A i \in DOMAIN incidents : incidents[i].told \in Seq(Channel \union {"rule", "none"})
  /\ channels \in [Channel -> {"absent", "hears", "deaf"}]
  /\ \A c \in Collector : collectors[c].found \in 0 .. Len(incidents)
  /\ upsets \in 0 .. MaxUpsets

\* get_active_alert_incident and create_alert_incident are two transactions,
\* so collectors that overlap can open the same incident twice.  That is the
\* only way: no collector opens a second one while its first is unresolved,
\* acknowledged or not, unless somebody acknowledged a resolved incident and
\* so made it active again.
DuplicatesNeedTwoCollectors ==
  \A i, j \in DOMAIN incidents :
    /\ i < j
    /\ incidents[i].rule = incidents[j].rule /\ incidents[i].subject = incidents[j].subject
    /\ \A k \in {i, j} : incidents[k].status \in Active /\ ~incidents[k].resolved
    => incidents[i].opener # incidents[j].opener

BusyWith(i) == /\ collectors[incidents[i].opener].at \in {"notifying", "telling"}
               /\ collectors[incidents[i].opener].found = i

\* Only the collection that opens an incident ever tells anybody of it, and
\* it never tells again: each target once, the rule's own destination or the
\* "nobody" row alone.  An incident nobody was told of is one that is being
\* notified right now, was opened by a collection asked not to notify, or
\* lost its collector to an error; one whose collector got to the end has
\* its record.
ToldOnce ==
  \A i \in DOMAIN incidents :
    LET told == incidents[i].told
    IN  /\ \A m, n \in DOMAIN told : m # n => told[m] # told[n] /\ told[m] \in Channel
        /\ told = <<>> => BusyWith(i) \/ incidents[i].opener \notin Notifying \/ incidents[i].cut

\* What one collector opens, it opens once and reports once.
OpenedOnceToldOnce == DuplicatesNeedTwoCollectors /\ ToldOnce

\* Once queue, rules and people are quiet, a rule that fires for a subject
\* always ends up with an active incident for it, and one that does not fire
\* with none, duplicates and acknowledged ones included.
Breached(r, s) ==
  /\ alertRules[r].enabled /\ InScope(alertRules[r].scope, s)
  /\ \E sample \in BuildSamples : /\ sample.metric = Metric[r] /\ sample.subject = s
                                  /\ Fires(r, sample.value)
Cleared(r, s) ==
  /\ alertRules[r].enabled /\ InScope(alertRules[r].scope, s)
  /\ \E sample \in BuildSamples : /\ sample.metric = Metric[r] /\ sample.subject = s
                                  /\ ~Fires(r, sample.value)

IncidentsFollowMetrics ==
  \A r \in Rule, s \in Subject :
    /\ <>[]Breached(r, s) => <>[](IncidentsOf(r, s) # {})
    /\ <>[]Cleared(r, s) => <>[](IncidentsOf(r, s) = {})
=============================================================================
