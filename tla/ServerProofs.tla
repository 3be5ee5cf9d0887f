----------------------------- MODULE ServerProofs -----------------------------
(*****************************************************************************)
(* Theorems about what runs in the server besides the requests: the sensors  *)
(* and callbacks of Triggers, for any number of them, of crashes and of      *)
(* restarts; the runs of EmbeddedRuns, for any number of runs, any pool      *)
(* size and any number of restarts; and the collectors of AlertIncidents,    *)
(* for any rules, channels and queue and any number of collectors that       *)
(* overlap.                                                                  *)
(*****************************************************************************)
EXTENDS Triggers, EmbeddedRuns, AlertIncidents, WellFoundedInduction, DataLemmas

(*****************************************************************************)
(* Triggers                                                                  *)
(*****************************************************************************)

Stage == {"new", "saved", "active", "stopped", "joined", "removed", "unsure"}
Poller == [at : {"ended", "poll", "changed", "firing"}, last : Nat, read : Nat]
Enlisted(t) == awake /\ handler[t] = "active" /\ t \notin skipped
RegistryInv ==
  /\ skipped \subseteq Trigger
  /\ handler \in [Trigger -> Stage] /\ mtime \in [Sensor -> Nat] /\ poller \in [Sensor -> Poller]
  /\ table = {t \in Trigger : handler[t] \notin {"new", "removed"}} /\ IsFiniteSet(table)
  /\ callbacks \in Seq(Completion)
  /\ \A i, j \in DOMAIN callbacks : callbacks[i] = callbacks[j] => i = j
  /\ \A c \in Completion : c \in Range(callbacks) <=> Enlisted(c)
  /\ \A s \in Sensor : s \in running <=> Enlisted(s)
  /\ running \subseteq Sensor
  /\ \A s \in running : poller[s].at # "ended"

\* The two threads a sensor may be given.
LEMMA ThreadsAre ==
  /\ NoThread \in Poller /\ NoThread.at = "ended"
  /\ FreshThread \in Poller /\ FreshThread.at = "poll"
BY DEF NoThread, FreshThread, Poller

\* A poll ends no thread.
LEMMA PolledIs ==
  ASSUME NEW p \in Poller, NEW m \in Nat
  PROVE  /\ Polled(p, m) \in Poller
         /\ p.at = "poll" => Polled(p, m).at # "ended"
<1>. DEFINE x == [p EXCEPT !.at = "changed"]
<1>1. x \in Poller /\ x.at = "changed"
  BY DEF Poller
<1>2. CASE m # 0 /\ p.last # 0 /\ m # p.last
  <2>1. Polled(p, m) = [x EXCEPT !.read = m]
    BY <1>2 DEF Polled
  <2>. HIDE DEF x
  <2>. QED
    BY <1>1, <2>1 DEF Poller
<1>3. CASE ~(m # 0 /\ p.last # 0 /\ m # p.last)
  BY <1>3 DEF Poller, Polled
<1>. QED
  BY <1>2, <1>3

\* A process starts with nothing registered.
LEMMA RegistryBegins == ASSUME TriggerInit PROVE RegistryInv
<1>1. callbacks = <<>> /\ callbacks \in Seq(Completion) /\ Range(callbacks) = {}
  BY DEF TriggerInit, Range
<1>2. handler = [t \in Trigger |-> "new"] /\ table = {} /\ running = {} /\ poller = [s \in Sensor |-> NoThread]
  BY DEF TriggerInit
<1>3. mtime \in [Sensor -> Nat]
  BY DEF TriggerInit
<1>4. handler \in [Trigger -> Stage] /\ \A t \in Trigger : handler[t] = "new"
  BY <1>2 DEF Stage
<1>5. DOMAIN callbacks = {}
  BY <1>1
<1>6. poller \in [Sensor -> Poller]
  BY <1>2, ThreadsAre
<1>7. skipped = {} /\ \A c \in Sensor \cup Completion : ~ Enlisted(c)
  BY <1>4 DEF Trigger, TriggerInit, Enlisted
<1>. QED
  BY <1>1, <1>2, <1>3, <1>4, <1>5, <1>6, <1>7, FS_EmptySet DEF RegistryInv

LEMMA RegistryUntouched ==
  ASSUME RegistryInv, UNCHANGED <<awake, table, skipped, handler, callbacks, running, poller, mtime>>
  PROVE  RegistryInv'
<1>1. \A t \in Trigger : Enlisted(t)' <=> Enlisted(t)
  BY DEF Enlisted
<1>. QED
  BY <1>1 DEF RegistryInv, Trigger

\* A thread that polls, fires or ends changes nothing of the registry.
LEMMA ThreadStep ==
  ASSUME RegistryInv, UNCHANGED <<awake, table, skipped, handler, callbacks, running>>,
         mtime' \in [Sensor -> Nat], poller' \in [Sensor -> Poller],
         \A s \in Sensor : poller'[s].at = "ended" => poller[s].at = "ended" \/ s \notin running
  PROVE  RegistryInv'
BY DEF RegistryInv, Enlisted

\* A sensor's thread ends only after its stop flag is up.
LEMMA SensorKeeps ==
  ASSUME RegistryInv, NEW s \in Sensor, ModifyFile(s) \/ SensorStep(s)
  PROVE  RegistryInv'
<1>. USE DEF RegistryInv
<1>. DEFINE v == poller[s]
<1>0. v \in Poller /\ mtime[s] \in Nat
  OBVIOUS
<1>1. CASE ModifyFile(s)
  <2>1. /\ UNCHANGED <<awake, table, skipped, handler, callbacks, running, poller>>
        /\ mtime' \in [Sensor -> Nat]
    BY <1>0, <1>1 DEF ModifyFile, memoryVars
  <2>. QED
    BY <2>1, ThreadStep
<1>2. ASSUME NEW w \in Poller, poller' = [poller EXCEPT ![s] = w], SensorStep(s),
             w.at = "ended" => s \notin running
      PROVE  RegistryInv'
  <2>1. UNCHANGED <<awake, table, skipped, handler, callbacks, running, mtime>>
    BY <1>2 DEF SensorStep, PollFile, FireSensor, SensorReturns, StopSensor, fileVars
  <2>2. poller' \in [Sensor -> Poller] /\ \A x \in Sensor : poller'[x] = IF x = s THEN w ELSE poller[x]
    BY <1>2
  <2>. QED
    BY <1>2, <2>1, <2>2, ThreadStep
<1>3. CASE PollFile(s)
  <2>. DEFINE w == Polled(v, mtime[s])
  <2>1. poller' = [poller EXCEPT ![s] = w] /\ SensorStep(s)
    BY <1>3 DEF PollFile, SensorStep
  <2>2. v.at = "poll"
    BY <1>3 DEF PollFile, PollGoes
  <2>3. w \in Poller /\ w.at # "ended"
    BY <1>0, <2>2, PolledIs
  <2>. HIDE DEF w
  <2>. QED
    BY <1>2, <2>1, <2>3
<1>4. CASE FireSensor(s)
  <2>. DEFINE x == [v EXCEPT !.at = "firing"]
  <2>1. x \in Poller /\ x.at = "firing"
    BY <1>0 DEF Poller
  <2>2. \/ poller' = [poller EXCEPT ![s] = x]
        \/ s \notin running /\ poller' = [poller EXCEPT ![s] = NoThread]
    BY <1>4 DEF FireSensor
  <2>3. SensorStep(s)
    BY <1>4 DEF SensorStep
  <2>. HIDE DEF x
  <2>4. CASE poller' = [poller EXCEPT ![s] = x]
    BY <1>2, <2>1, <2>3, <2>4
  <2>5. CASE s \notin running /\ poller' = [poller EXCEPT ![s] = NoThread]
    BY <1>2, <2>3, <2>5, ThreadsAre
  <2>. QED
    BY <2>2, <2>4, <2>5
<1>5. CASE SensorReturns(s)
  <2>. DEFINE x == [at |-> "poll", last |-> v.read, read |-> 0]
  <2>1. x \in Poller /\ x.at = "poll"
    BY <1>0 DEF Poller
  <2>2. poller' = [poller EXCEPT ![s] = x] /\ SensorStep(s)
    BY <1>5 DEF SensorReturns, SensorStep
  <2>. HIDE DEF x
  <2>. QED
    BY <1>2, <2>1, <2>2
<1>6. CASE StopSensor(s)
  <2>2. poller' = [poller EXCEPT ![s] = NoThread] /\ s \notin running /\ SensorStep(s)
    BY <1>6 DEF StopSensor, SensorStep
  <2>. QED
    BY <1>2, <2>2, ThreadsAre
<1>. QED
  BY <1>1, <1>3, <1>4, <1>5, <1>6 DEF SensorStep

\* SetToSeq of completion triggers.
LEMMA ListOnce ==
  ASSUME NEW S, IsFiniteSet(S), NEW D, S \subseteq D
  PROVE  /\ SetToSeq(S) \in Seq(D) /\ Range(SetToSeq(S)) = S
         /\ \A i, j \in DOMAIN SetToSeq(S) : SetToSeq(S)[i] = SetToSeq(S)[j] => i = j
<1>. DEFINE q == SetToSeq(S)
<1>1. /\ q \in Seq(S) /\ \A i, j \in DOMAIN q : q[i] = q[j] => i = j
      /\ \A x \in S : \E k \in DOMAIN q : q[k] = x
  BY SetToSeqIs
<1>. HIDE DEF q
<1>2. \A k \in DOMAIN q : q[k] \in S
  BY <1>1, ElementOfSeq, LenProperties
<1>3. Range(q) = S
  BY <1>1, <1>2 DEF Range
<1>4. q \in [1..Len(q) -> D] /\ Len(q) \in Nat
  BY <1>1, <1>2, LenProperties
<1>5. q \in Seq(D)
  BY <1>4, SeqDef
<1>. QED
  BY <1>1, <1>3, <1>5 DEF q

\* Triggers that are registered were not: each is called back once.
LEMMA RegistersKeeps ==
  ASSUME RegistryInv, NEW S \in SUBSET Trigger, IsFiniteSet(S), Registers(S), awake',
         \A t \in S : ~ Enlisted(t),
         skipped' \subseteq Trigger, \A t \in Trigger : Enlisted(t)' <=> t \in S \/ Enlisted(t),
         handler' = [t \in Trigger |-> IF t \in S THEN "active" ELSE handler[t]],
         UNCHANGED <<mtime, table>>, S \subseteq table
  PROVE  RegistryInv'
<1>. DEFINE C == S \cap Completion
            q == SetToSeq(C)
<1>1. IsFiniteSet(C)
  BY FS_Subset
<1>2. q \in Seq(Completion) /\ Range(q) = C /\ \A i, j \in DOMAIN q : q[i] = q[j] => i = j
  <2>1. C \subseteq Completion
    OBVIOUS
  <2>. HIDE DEF C
  <2>. QED
    BY <1>1, <2>1, ListOnce
<1>3. /\ callbacks' = callbacks \o q /\ running' = running \cup (S \cap Sensor)
      /\ poller' = [s \in Sensor |-> IF s \in S THEN FreshThread ELSE poller[s]]
  BY DEF Registers
<1>. HIDE DEF q
<1>4. \A i \in DOMAIN callbacks, j \in DOMAIN q : callbacks[i] # q[j]
  <2>1. \A i \in DOMAIN callbacks : callbacks[i] \in Range(callbacks) /\ callbacks[i] \in Completion
    BY LenProperties, ElementOfSeq DEF Range, RegistryInv
  <2>2. \A j \in DOMAIN q : q[j] \in S
    BY <1>2 DEF Range
  <2>. QED
    BY <2>1, <2>2 DEF RegistryInv
<1>5. /\ callbacks' \in Seq(Completion)
      /\ \A i, j \in DOMAIN callbacks' : callbacks'[i] = callbacks'[j] => i = j
      /\ Range(callbacks') = Range(callbacks) \cup C
  <2>1. /\ callbacks \in Seq(Completion)
        /\ \A i, j \in DOMAIN callbacks : callbacks[i] = callbacks[j] => i = j
    BY DEF RegistryInv
  <2>. DEFINE new == callbacks \o q
  <2>2. /\ new \in Seq(Completion)
        /\ \A i, j \in DOMAIN new : new[i] = new[j] => i = j
        /\ Range(new) = Range(callbacks) \cup Range(q)
    <3>. HIDE DEF C
    <3>. QED
      BY ONLY <1>2, <1>4, <2>1, JoinedOnce
  <2>3. callbacks' = new
    BY <1>3
  <2>. HIDE DEF new
  <2>. QED
    BY <1>2, <2>2, <2>3
<1>6. \A t \in Trigger : handler'[t] = IF t \in S THEN "active" ELSE handler[t]
  OBVIOUS
<1>7. \A c \in Completion : c \in Range(callbacks') <=> Enlisted(c)'
  BY <1>5 DEF RegistryInv, Trigger
<1>8. \A s \in Sensor : s \in running' <=> Enlisted(s)'
  BY <1>3 DEF RegistryInv, Trigger
<1>9. handler' \in [Trigger -> Stage] /\ table' = {t \in Trigger : handler'[t] \notin {"new", "removed"}}
  BY <1>6 DEF RegistryInv, Stage
<1>10. poller' \in [Sensor -> Poller] /\ \A s \in running' : poller'[s].at # "ended"
  BY <1>3, ThreadsAre DEF RegistryInv
<1>11. running' \subseteq Sensor
  BY <1>3 DEF RegistryInv
<1>. QED
  BY <1>5, <1>7, <1>8, <1>9, <1>10, <1>11 DEF RegistryInv

\* A request that moves one trigger between stages neither of which is active.
LEMMA HandlerKeeps ==
  ASSUME RegistryInv, NEW t \in Trigger, NEW from \in Stage \ {"active"}, NEW to \in Stage \ {"active"},
         Handles(t, from, to), UNCHANGED <<awake, callbacks, running, poller, mtime>>,
         skipped' \in {skipped, skipped \ {t}},
         table' = IF to \in {"new", "removed"} THEN table \ {t} ELSE table \cup {t}
  PROVE  RegistryInv'
<1>1. \A x \in Trigger : handler'[x] = IF x = t THEN to ELSE handler[x]
  BY DEF Handles, RegistryInv
<1>2. handler' \in [Trigger -> Stage]
  BY DEF Handles, RegistryInv
<1>3. table' = {x \in Trigger : handler'[x] \notin {"new", "removed"}}
  BY <1>1 DEF RegistryInv
<1>4. IsFiniteSet(table')
  BY FS_AddElement, FS_RemoveElement DEF RegistryInv
<1>5. \A x \in Trigger : Enlisted(x)' <=> Enlisted(x)
  BY <1>1 DEF Handles, Enlisted
<1>. QED
  BY <1>2, <1>3, <1>4, <1>5 DEF RegistryInv, Trigger

\* Every request, thread and restart keeps registry and table in step.
LEMMA RegistryStep == ASSUME RegistryInv, TriggerNext PROVE RegistryInv'
<1>1. CASE KillProcess
  <2>1. /\ awake' = FALSE /\ callbacks' = <<>> /\ running' = {} /\ UNCHANGED <<table, mtime>> /\ skipped' = {}
        /\ poller' = [s \in Sensor |-> NoThread]
        /\ handler' = [t \in Trigger |-> IF handler[t] \in {"new", "removed", "active"} THEN handler[t] ELSE "unsure"]
    BY <1>1 DEF KillProcess, fileVars
  <2>2. callbacks' \in Seq(Completion) /\ Range(callbacks') = {} /\ DOMAIN callbacks' = {}
    BY <2>1 DEF Range
  <2>3. handler' \in [Trigger -> Stage] /\ table' = {x \in Trigger : handler'[x] \notin {"new", "removed"}}
    BY <2>1 DEF RegistryInv, Stage
  <2>4. \A t \in Trigger : ~ Enlisted(t)'
    BY <2>1 DEF Enlisted
  <2>. QED
    BY <2>1, <2>2, <2>3, <2>4, ThreadsAre DEF RegistryInv, Trigger
<1>2. CASE StartProcess
  <2>1. PICK restored \in SUBSET table :
          /\ ~ awake /\ awake' /\ Registers(restored) /\ UNCHANGED <<table, mtime>>
          /\ skipped' = table \ restored
          /\ handler' = [t \in Trigger |-> IF t \in restored THEN "active" ELSE handler[t]]
    BY <1>2 DEF StartProcess, fileVars
  <2>2. restored \in SUBSET Trigger /\ restored \subseteq table /\ IsFiniteSet(restored)
    BY FS_Subset DEF RegistryInv
  <2>3. \A t \in Trigger : ~ Enlisted(t) /\ (Enlisted(t)' <=> t \in restored)
    BY <2>1, <2>2 DEF RegistryInv, Enlisted
  <2>4. skipped' \subseteq Trigger
    BY <2>1 DEF RegistryInv
  <2>. QED
    BY <2>1, <2>2, <2>3, <2>4, RegistersKeeps
<1>3. ASSUME NEW t \in Trigger, RegisterTrigger(t) PROVE RegistryInv'
  <2>1. /\ awake /\ awake' /\ handler[t] = "saved" /\ Registers({t}) /\ UNCHANGED <<table, mtime>>
        /\ handler' = [handler EXCEPT ![t] = "active"] /\ skipped' = skipped \ {t}
    BY <1>3 DEF RegisterTrigger, Handles, fileVars
  <2>2. /\ handler' = [x \in Trigger |-> IF x \in {t} THEN "active" ELSE handler[x]]
        /\ {t} \subseteq table /\ {t} \in SUBSET Trigger /\ IsFiniteSet({t})
    BY <2>1, FS_Singleton DEF RegistryInv
  <2>3. \A x \in Trigger : Enlisted(x)' <=> x \in {t} \/ Enlisted(x)
    BY <2>1, <2>2 DEF Enlisted
  <2>4. skipped' \subseteq Trigger /\ \A x \in {t} : ~ Enlisted(x)
    BY <2>1 DEF RegistryInv, Enlisted
  <2>. QED
    BY <2>1, <2>2, <2>3, <2>4, RegistersKeeps
<1>4. ASSUME NEW t \in Trigger, Unregister(t) PROVE RegistryInv'
  <2>1. /\ awake /\ awake' /\ handler[t] \in {"active", "unsure"} /\ handler' = [handler EXCEPT ![t] = "stopped"]
        /\ running' = running \ {t} /\ callbacks' = Filtered(callbacks, Completion \ {t})
        /\ UNCHANGED <<table, skipped, mtime, poller>>
    BY <1>4 DEF Unregister, Handles, fileVars
  <2>2. \A x \in Trigger : handler'[x] = IF x = t THEN "stopped" ELSE handler[x]
    BY <2>1 DEF RegistryInv
  <2>3. /\ callbacks' \in Seq(Completion)
        /\ \A a, b \in DOMAIN callbacks' : callbacks'[a] = callbacks'[b] => a = b
        /\ \A x : x \in Range(callbacks') <=> x \in Range(callbacks) /\ x \in Completion \ {t}
    <3>1. /\ callbacks \in Seq(Completion)
          /\ \A i, j \in DOMAIN callbacks : callbacks[i] = callbacks[j] => i = j
      BY DEF RegistryInv
    <3>. DEFINE S == Completion \ {t}
                new == Filtered(callbacks, S)
    <3>2. callbacks' = new
      BY <2>1
    <3>. HIDE DEF S
    <3>3. /\ new \in Seq(Completion)
          /\ \A a, b \in DOMAIN new : new[a] = new[b] => a = b
          /\ \A x : x \in Range(new) <=> x \in Range(callbacks) /\ x \in S
      BY ONLY <3>1, FilteredOnce
    <3>. HIDE DEF new
    <3>. QED
      BY <3>2, <3>3 DEF S
  <2>4. handler' \in [Trigger -> Stage] /\ table' = {x \in Trigger : handler'[x] \notin {"new", "removed"}}
    BY <2>1, <2>2 DEF RegistryInv, Stage
  <2>7. \A x \in Trigger : Enlisted(x)' <=> x # t /\ Enlisted(x)
    BY <2>1, <2>2 DEF Enlisted
  <2>5. \A c \in Completion : c \in Range(callbacks') <=> Enlisted(c)'
    BY <2>3, <2>7 DEF RegistryInv, Trigger
  <2>6. \A s \in Sensor : s \in running' <=> Enlisted(s)'
    BY <2>1, <2>7 DEF RegistryInv, Trigger
  <2>. QED
    BY <2>1, <2>3, <2>4, <2>5, <2>6 DEF RegistryInv
<1>5. ASSUME NEW t \in Trigger, SaveTrigger(t) PROVE RegistryInv'
  BY <1>5, HandlerKeeps DEF SaveTrigger, Handles, memoryVars, fileVars, Stage
<1>6. ASSUME NEW t \in Trigger, JoinThread(t) \/ DeleteFails(t) PROVE RegistryInv'
  <2>1. t \in table
    BY <1>6 DEF RegistryInv, JoinThread, DeleteFails, Handles
  <2>2. table = table \cup {t}
    BY <2>1
  <2>3. CASE JoinThread(t)
    BY <2>2, <2>3, HandlerKeeps DEF JoinThread, Handles, memoryVars, fileVars, Stage
  <2>4. CASE DeleteFails(t)
    BY <2>2, <2>4, HandlerKeeps DEF DeleteFails, Handles, memoryVars, fileVars, Stage
  <2>. QED
    BY <1>6, <2>3, <2>4
<1>7. ASSUME NEW t \in Trigger, DeleteRow(t) PROVE RegistryInv'
  BY <1>7, HandlerKeeps DEF DeleteRow, Handles, memoryVars, fileVars, Stage
<1>8. ASSUME NEW n \in Notice, NotifyCompleted(n) \/ CallBack(n) PROVE RegistryInv'
  <2>1. UNCHANGED <<awake, table, skipped, handler, callbacks, running, poller, mtime>>
    BY <1>8 DEF NotifyCompleted, CallBack, memoryVars, fileVars
  <2>. QED
    BY <2>1, RegistryUntouched
<1>. QED
  BY <1>1, <1>2, <1>3, <1>4, <1>5, <1>6, <1>7, <1>8, SensorKeeps DEF TriggerNext, TriggerHandler

\* Every step keeps the registry in step with the table ...
LEMMA RegistryInvStep == RegistryInv /\ [TriggerNext]_triggerVars => RegistryInv'
<1>1. UNCHANGED triggerVars => UNCHANGED <<awake, table, skipped, handler, callbacks, running, poller, mtime>>
  BY DEF triggerVars, memoryVars, fileVars
<1>. QED
  BY <1>1, RegistryStep, RegistryUntouched

\* ... which is what the property says.
LEMMA RegistryMatches == RegistryInv => RegistryMatchesTable
<1>. SUFFICES ASSUME RegistryInv PROVE RegistryMatchesTable
  OBVIOUS
<1>. USE DEF RegistryInv
<1>1. ASSUME NEW t \in Completion, Enlisted(t)
      PROVE  Cardinality({k \in DOMAIN callbacks : callbacks[k] = t}) = 1
  <2>1. PICK k \in DOMAIN callbacks : callbacks[k] = t
    BY <1>1 DEF Range
  <2>2. {j \in DOMAIN callbacks : callbacks[j] = t} = {k}
    BY <2>1
  <2>. QED
    BY <2>2, FS_Singleton
<1>2. ASSUME NEW t \in Trigger, handler[t] \in {"new", "removed"}
      PROVE  t \notin table /\ t \notin running /\ t \notin Range(callbacks)
  <2>1. \A i \in DOMAIN callbacks : callbacks[i] \in Completion
    BY LenProperties, ElementOfSeq
  <2>2. Range(callbacks) \subseteq Completion
    BY <2>1 DEF Range
  <2>3. ~ Enlisted(t)
    BY <1>2 DEF Enlisted
  <2>. QED
    BY <1>2, <2>2, <2>3 DEF Trigger
<1>3. ASSUME NEW t \in Trigger, handler[t] = "active" PROVE t \in table
  BY <1>3
<1>4. ASSUME NEW t \in Sensor, Enlisted(t) PROVE t \in running /\ poller[t].at # "ended"
  BY <1>4
<1>5. \A t \in Trigger : handler[t] = "active" /\ awake /\ t \notin skipped => Enlisted(t)
  BY DEF Enlisted
<1>. QED
  BY <1>1, <1>2, <1>3, <1>4, <1>5 DEF RegistryMatchesTable

\* Registry and table agree about every trigger whose last request was
\* answered, through every crash and through starts that restore only some of
\* the rows: an active trigger is persisted, and registered once unless the
\* last start left it out; a removed one is in neither.
THEOREM RegistryDoesMatch == TriggerSpec => []RegistryMatchesTable
<1>1. TriggerInit => RegistryInv
  BY RegistryBegins
<1>. QED
  BY <1>1, RegistryInvStep, RegistryMatches, PTL DEF TriggerSpec


\* A sensor whose stop flag is down belongs to a trigger that is active.
StopFlagInv ==
  /\ running \subseteq Sensor
  /\ DOMAIN handler = Trigger /\ DOMAIN fired = Trigger
  /\ \A s \in running : handler[s] = "active"

LEMMA StopFlagStep == ASSUME StopFlagInv, TriggerNext PROVE StopFlagInv'
<1>. USE DEF StopFlagInv, Trigger
<1>1. CASE KillProcess
  BY <1>1 DEF KillProcess
<1>2. CASE StartProcess
  BY <1>2 DEF StartProcess, Registers
<1>3. ASSUME NEW t \in Trigger, SaveTrigger(t) \/ Unregister(t) PROVE StopFlagInv'
  <2>1. CASE SaveTrigger(t)
    BY <2>1 DEF SaveTrigger, Handles, memoryVars
  <2>2. CASE Unregister(t)
    BY <2>2 DEF Unregister, Handles, memoryVars
  <2>. QED
    BY <1>3, <2>1, <2>2
<1>4. ASSUME NEW t \in Trigger, TriggerHandler(t) PROVE StopFlagInv'
  <2>1. CASE RegisterTrigger(t)
    BY <1>4, <2>1 DEF RegisterTrigger, Registers, Handles
  <2>2. CASE JoinThread(t) \/ DeleteRow(t) \/ DeleteFails(t)
    BY <1>4, <2>2 DEF JoinThread, DeleteRow, DeleteFails, Handles, memoryVars
  <2>. QED
    BY <1>4, <2>1, <2>2 DEF TriggerHandler
<1>5. ASSUME NEW s \in Sensor, ModifyFile(s) \/ SensorStep(s) PROVE StopFlagInv'
  BY <1>5 DEF ModifyFile, SensorStep, PollFile, FireSensor, SensorReturns, StopSensor, memoryVars
<1>6. ASSUME NEW n \in Notice, NotifyCompleted(n) \/ CallBack(n) PROVE StopFlagInv'
  BY <1>6 DEF NotifyCompleted, CallBack, memoryVars
<1>. QED
  BY <1>1, <1>2, <1>3, <1>4, <1>5, <1>6 DEF TriggerNext

LEMMA RemovedIsQuiet ==
  ASSUME StopFlagInv, TriggerNext, NEW t \in Trigger, handler[t] = "removed"
  PROVE  \/ fired'[t] = fired[t]
         \/ \E n \in Notice : notice[n] # <<>> /\ t = Head(notice[n])
<1>1. ASSUME NEW s \in Sensor, SensorStep(s) PROVE fired'[t] = fired[t]
  BY <1>1 DEF StopFlagInv, SensorStep, PollFile, FireSensor, SensorReturns, StopSensor
<1>2. ASSUME NEW n \in Notice, CallBack(n), t # Head(notice[n]) PROVE fired'[t] = fired[t]
  BY <1>2 DEF StopFlagInv, CallBack
<1>3. ASSUME NEW n \in Notice, CallBack(n) PROVE notice[n] # <<>>
  BY <1>3 DEF CallBack
<1>4. ASSUME NEW x \in Trigger, SaveTrigger(x) \/ Unregister(x) \/ TriggerHandler(x)
      PROVE  UNCHANGED fired
  BY <1>4 DEF SaveTrigger, Unregister, TriggerHandler, RegisterTrigger, JoinThread, DeleteRow, DeleteFails
<1>5. KillProcess \/ StartProcess \/ (\E s \in Sensor : ModifyFile(s)) \/ (\E n \in Notice : NotifyCompleted(n))
      => UNCHANGED fired
  BY DEF KillProcess, StartProcess, ModifyFile, NotifyCompleted
<1>. QED
  BY <1>1, <1>2, <1>3, <1>4, <1>5 DEF TriggerNext

\* A sensor whose removal was confirmed never fires again, and a completion
\* trigger only from a list that was copied before.
THEOREM RemovedTriggersAreQuiet == TriggerSpec => RemovedFiresNoMore
<1>1. TriggerInit => StopFlagInv
  BY DEF TriggerInit, StopFlagInv
<1>2. StopFlagInv /\ [TriggerNext]_triggerVars => StopFlagInv'
  BY StopFlagStep DEF StopFlagInv, triggerVars, memoryVars
<1>3. StopFlagInv /\ [TriggerNext]_triggerVars =>
        [\A t \in Trigger : handler[t] = "removed" =>
           \/ fired'[t] = fired[t]
           \/ \E n \in Notice : notice[n] # <<>> /\ t = Head(notice[n])]_triggerVars
  BY RemovedIsQuiet
<1>. QED
  BY <1>1, <1>2, <1>3, PTL DEF TriggerSpec, RemovedFiresNoMore

(*****************************************************************************)
(* The embedded pool: one run at a time is enough to look at                 *)
(*****************************************************************************)

AtWork == {"opened", "begun", "announced", "executed", "settled", "reported", "raised",
           "rowfailed", "closed"}

\* A future exists once it was handed over; it is filed before the callback is
\* attached, and what is filed is forgotten when it is done.
FutureInv(j) ==
  /\ future[j] # "absent" => submit[j] \in {"handed", "filed", "accepted"}
  /\ submit[j] \in {"handed", "filed", "accepted"} => future[j] # "absent"
  /\ hooked[j] => submit[j] = "accepted"
  /\ submit[j] = "accepted" => hooked[j]
  /\ filed[j] => submit[j] \in {"filed", "accepted"}
  /\ submit[j] = "filed" => filed[j]
  /\ submit[j] = "accepted" => (filed[j] <=> future[j] \in {"pending", "running"})

\* The thread executes exactly while the future is running.
BodyInv(j) ==
  /\ future[j] \in {"pending", "cancelled"} => body[j] = "idle"
  /\ future[j] = "running" => body[j] \in AtWork
  /\ future[j] = "done" => body[j] \in {"returned", "abandoned"}
  /\ submit[j] \in {"new", "announced", "enqueued", "sync"} => body[j] = "idle"
  /\ body[j] \in AtWork => up /\ future[j] = "running"
  /\ body[j] \in {"reported", "closed"} => latest[j] \in {"completed", "failed"}
  /\ future[j] = "done" /\ body[j] = "returned" => latest[j] \in {"completed", "failed"}

\* A cancellation that has begun has the future, and when it has been
\* confirmed nothing is left that could write about the run.
CancelInv(j) ==
  /\ cancel[j] \in {"flagged", "saved", "broken"} => submit[j] = "accepted" /\ future[j] = "cancelled"
  /\ future[j] = "cancelled" => cancel[j] \in {"flagged", "saved", "confirmed", "broken"}
  /\ cancel[j] = "saved" => latest[j] = "cancelled"
  /\ cancel[j] = "confirmed" =>
       /\ body[j] = "idle" /\ latest[j] = "cancelled" /\ row[j] = "cancelled"
       /\ \/ submit[j] = "accepted" /\ future[j] = "cancelled"
          \/ submit[j] = "gone" /\ future[j] = "absent"

\* A stopped process has no handlers and no pool.
DownInv(j) ==
  ~up => submit[j] \in {"new", "gone"} /\ future[j] = "absent" /\ cancel[j] \in {"refused", "confirmed"}

JobInv(j) == FutureInv(j) /\ BodyInv(j) /\ CancelInv(j) /\ DownInv(j)

PoolInv ==
  /\ EmbeddedTypeOK
  /\ ~up => restarts < MaxRestarts
  /\ \A j \in Job : JobInv(j)

-----------------------------------------------------------------------------
LEMMA PoolInit == EmbeddedInit => PoolInv
BY EmbeddedAssumption DEF EmbeddedInit, PoolInv, EmbeddedTypeOK, JobInv, FutureInv, BodyInv,
   CancelInv, DownInv, AtWork, Absent, Final

\* The tables, requests, futures and threads keep their types.
LEMMA PoolTypes == ASSUME PoolInv, EmbeddedNext PROVE EmbeddedTypeOK'
<1>. USE DEF PoolInv, EmbeddedTypeOK, tableVars, requestVars, poolVars, bodyVars, logVars
<1>1. CASE KillApi
  <2>1. viewer' \in [Job -> 0..Absent]
    <3>1. QuietTicks \in Nat /\ Absent \in Nat
      BY EmbeddedAssumption DEF Absent
    <3>. QED
      BY <1>1, <3>1 DEF KillApi
  <2>2. /\ submit' \in [Job -> {"new", "announced", "enqueued", "handed", "filed", "accepted",
                                "sync", "answered", "gone"}]
        /\ cancel' \in [Job -> {"none", "flagged", "saved", "confirmed", "refused", "broken"}]
        /\ future' \in [Job -> {"absent", "pending", "running", "done", "cancelled"}]
        /\ body' \in [Job -> {"idle", "opened", "begun", "announced", "executed", "settled",
                              "reported", "raised", "rowfailed", "closed", "returned", "abandoned"}]
        /\ filed' \in [Job -> BOOLEAN] /\ hooked' \in [Job -> BOOLEAN] /\ up' = FALSE
    BY <1>1 DEF KillApi
  <2>3. UNCHANGED <<restarts, latest, row, good, unread>>
    BY <1>1 DEF KillApi
  <2>. QED
    BY <2>1, <2>2, <2>3
<1>2. CASE StartApi
  <2>1. row' \in [Job -> {"absent", "queued", "running"} \cup Final]
    BY <1>2 DEF StartApi, Final
  <2>2. restarts' \in 0..MaxRestarts /\ up' = TRUE
    BY <1>2, EmbeddedAssumption DEF StartApi
  <2>3. UNCHANGED <<latest, requestVars, poolVars, bodyVars, logVars>>
    BY <1>2 DEF StartApi
  <2>. QED
    BY <2>1, <2>2, <2>3
<1>3. ASSUME NEW j \in Job, \/ AnnounceRun(j) \/ AnnounceRepair(j) \/ EnqueueJob(j) \/ HandOver(j)
                            \/ FileFuture(j) \/ AttachCallback(j) \/ SubmitFails(j)
                            \/ RunSync(j) \/ ReportSync(j)
      PROVE  EmbeddedTypeOK'
  <2>1. submit' \in [Job -> {"new", "announced", "enqueued", "handed", "filed", "accepted",
                             "sync", "answered", "gone"}]
    BY <1>3 DEF AnnounceRun, AnnounceRepair, EnqueueJob, HandOver, FileFuture, AttachCallback,
       SubmitFails, RunSync, ReportSync, SubmitGoes
  <2>2. /\ latest' \in [Job -> {"absent", "queued", "running"} \cup Final]
        /\ row' \in [Job -> {"absent", "queued", "running"} \cup Final]
    BY <1>3 DEF AnnounceRun, AnnounceRepair, EnqueueJob, HandOver, FileFuture, AttachCallback,
       SubmitFails, RunSync, ReportSync, Final
  <2>3. /\ future' \in [Job -> {"absent", "pending", "running", "done", "cancelled"}]
        /\ filed' \in [Job -> BOOLEAN] /\ hooked' \in [Job -> BOOLEAN]
    BY <1>3 DEF AnnounceRun, AnnounceRepair, EnqueueJob, HandOver, FileFuture, AttachCallback,
       SubmitFails, RunSync, ReportSync
  <2>4. UNCHANGED <<up, restarts, cancel, bodyVars, logVars>>
    BY <1>3 DEF AnnounceRun, AnnounceRepair, EnqueueJob, HandOver, FileFuture, AttachCallback,
       SubmitFails, RunSync, ReportSync
  <2>. QED
    BY <2>1, <2>2, <2>3, <2>4
<1>4. ASSUME NEW j \in Job, \/ AskPool(j) \/ SaveCancelled(j) \/ CancelRow(j) \/ CancelFails(j)
      PROVE  EmbeddedTypeOK'
  <2>1. CASE AskPool(j)
    BY <2>1 DEF AskPool, CancelGoes
  <2>2. CASE SaveCancelled(j)
    BY <2>2 DEF SaveCancelled, CancelGoes, Final
  <2>3. CASE CancelRow(j)
    BY <2>3 DEF CancelRow, CancelGoes, Final
  <2>4. CASE CancelFails(j)
    BY <2>4 DEF CancelFails, CancelGoes
  <2>. QED
    BY <1>4, <2>1, <2>2, <2>3, <2>4
<1>5. ASSUME NEW j \in Job, BodyStep(j) PROVE EmbeddedTypeOK'
  <2>1. unread' \in [Job -> BOOLEAN]
    BY <1>5 DEF BodyStep, PoolStarts, MarkRunning, ReportRunning, RunTasks, SettleRow,
       ReportOutcome, RaiseInBody, FailRow, ReportFailure, BodyReturns, Logs, LogOpen
  <2>2. good' \in [Job -> BOOLEAN]
    BY <1>5 DEF BodyStep, PoolStarts, MarkRunning, ReportRunning, RunTasks, SettleRow,
       ReportOutcome, RaiseInBody, FailRow, ReportFailure, BodyReturns
  <2>3. Outcome(j) \in Final
    BY DEF Outcome, Final
  <2>4. UNCHANGED <<up, restarts, submit, cancel, hooked, viewer>>
    BY <1>5 DEF BodyStep, PoolStarts, MarkRunning, ReportRunning, RunTasks, SettleRow,
       ReportOutcome, RaiseInBody, FailRow, ReportFailure, BodyReturns
  <2>5. /\ latest' \in [Job -> {"absent", "queued", "running"} \cup Final]
        /\ row' \in [Job -> {"absent", "queued", "running"} \cup Final]
    BY <1>5, <2>3 DEF BodyStep, PoolStarts, MarkRunning, ReportRunning, RunTasks, SettleRow,
       ReportOutcome, RaiseInBody, FailRow, ReportFailure, BodyReturns, Final
  <2>6. future' \in [Job -> {"absent", "pending", "running", "done", "cancelled"}]
        /\ filed' \in [Job -> BOOLEAN]
    BY <1>5 DEF BodyStep, PoolStarts, MarkRunning, ReportRunning, RunTasks, SettleRow,
       ReportOutcome, RaiseInBody, FailRow, ReportFailure, BodyReturns
  <2>7. body' \in [Job -> {"idle", "opened", "begun", "announced", "executed", "settled",
                           "reported", "raised", "rowfailed", "closed", "returned", "abandoned"}]
    BY <1>5 DEF BodyStep, PoolStarts, MarkRunning, ReportRunning, RunTasks, SettleRow,
       ReportOutcome, RaiseInBody, FailRow, ReportFailure, BodyReturns, BodyGoes
  <2>. QED
    BY <2>1, <2>2, <2>4, <2>5, <2>6, <2>7
<1>6. ASSUME NEW j \in Job, OpenStream(j) \/ StreamTick(j) PROVE EmbeddedTypeOK'
  <2>1. viewer' \in [Job -> 0..Absent]
    BY <1>6, EmbeddedAssumption DEF OpenStream, StreamTick, Absent, StreamEnded
  <2>2. unread' \in [Job -> BOOLEAN]
    BY <1>6 DEF OpenStream, StreamTick
  <2>. QED
    BY <1>6, <2>1, <2>2 DEF OpenStream, StreamTick
<1>. QED
  BY <1>1, <1>2, <1>3, <1>4, <1>5, <1>6 DEF EmbeddedNext, HandlerStep

-----------------------------------------------------------------------------
(***************************************************************************)
(* One run at a time.                                                      *)
(***************************************************************************)

\* What JobInv(j) looks at of a run did not change.
Untouched(j) ==
  /\ submit'[j] = submit[j] /\ cancel'[j] = cancel[j] /\ future'[j] = future[j]
  /\ filed'[j] = filed[j] /\ hooked'[j] = hooked[j] /\ body'[j] = body[j]
  /\ latest'[j] = latest[j] /\ row'[j] = row[j]

LEMMA UntouchedInv ==
  ASSUME NEW j \in Job, JobInv(j), Untouched(j), up' = up
  PROVE  JobInv(j)'
BY DEF JobInv, FutureInv, BodyInv, CancelInv, DownInv, Untouched

LEMMA SubmitStep ==
  ASSUME PoolInv, NEW i \in Job, NEW j \in Job,
         \/ AnnounceRun(i) \/ AnnounceRepair(i) \/ EnqueueJob(i) \/ HandOver(i) \/ FileFuture(i)
         \/ AttachCallback(i) \/ SubmitFails(i) \/ RunSync(i) \/ ReportSync(i)
  PROVE  JobInv(j)'
<1>. USE DEF PoolInv, EmbeddedTypeOK, tableVars, requestVars, poolVars, bodyVars
<1>0. up /\ up' = up
  BY DEF AnnounceRun, AnnounceRepair, EnqueueJob, HandOver, FileFuture, AttachCallback,
     SubmitFails, RunSync, ReportSync, SubmitGoes
<1>1. CASE j # i
  <2>1. Untouched(j)
    BY <1>1 DEF Untouched, AnnounceRun, AnnounceRepair, EnqueueJob, HandOver, FileFuture,
       AttachCallback, SubmitFails, RunSync, ReportSync, SubmitGoes
  <2>. QED
    BY <1>0, <2>1, UntouchedInv
<1>2. CASE j = i
  <2>. USE <1>0, <1>2 DEF JobInv, FutureInv, BodyInv, CancelInv, DownInv, AtWork
  <2>1. CASE AnnounceRun(i) \/ AnnounceRepair(i)
    BY <2>1 DEF AnnounceRun, AnnounceRepair, SubmitGoes
  <2>2. CASE EnqueueJob(i)
    BY <2>2 DEF EnqueueJob, SubmitGoes
  <2>3. CASE HandOver(i)
    BY <2>3 DEF HandOver, SubmitGoes
  <2>4. CASE FileFuture(i)
    BY <2>4 DEF FileFuture, SubmitGoes
  <2>5. CASE AttachCallback(i)
    <3>1. /\ submit[i] = "filed" /\ submit'[i] = "accepted" /\ hooked'[i] = TRUE
          /\ filed[i] = TRUE
          /\ UNCHANGED <<cancel, future, body, latest, row>>
      BY <2>5 DEF AttachCallback, SubmitGoes
    <3>2. filed'[i] <=> future[i] \notin {"done", "cancelled"}
      BY <2>5, <3>1 DEF AttachCallback
    <3>. QED
      BY <3>1, <3>2
  <2>6. CASE SubmitFails(i) \/ RunSync(i)
    BY <2>6 DEF SubmitFails, RunSync, SubmitGoes
  <2>7. CASE ReportSync(i)
    BY <2>7 DEF ReportSync, SubmitGoes
  <2>. QED
    BY <2>1, <2>2, <2>3, <2>4, <2>5, <2>6, <2>7
<1>. QED
  BY <1>1, <1>2

LEMMA CancelStep ==
  ASSUME PoolInv, NEW i \in Job, NEW j \in Job,
         AskPool(i) \/ SaveCancelled(i) \/ CancelRow(i) \/ CancelFails(i)
  PROVE  JobInv(j)'
<1>. USE DEF PoolInv, EmbeddedTypeOK, tableVars, requestVars, poolVars, bodyVars
<1>0. up /\ up' = up
  BY DEF AskPool, SaveCancelled, CancelRow, CancelFails, CancelGoes
<1>1. CASE j # i
  <2>1. Untouched(j)
    BY <1>1 DEF Untouched, AskPool, SaveCancelled, CancelRow, CancelFails, CancelGoes
  <2>. QED
    BY <1>0, <2>1, UntouchedInv
<1>2. CASE j = i
  <2>. USE <1>0, <1>2 DEF JobInv, FutureInv, BodyInv, CancelInv, DownInv, AtWork
  <2>1. CASE AskPool(i)
    <3>1. cancel[i] = "none" /\ UNCHANGED <<submit, hooked, body, latest, row>>
      BY <2>1 DEF AskPool, CancelGoes
    <3>2. CASE /\ filed[i] /\ Pending(i) /\ cancel' = [cancel EXCEPT ![i] = "flagged"]
               /\ future' = [future EXCEPT ![i] = "cancelled"]
               /\ filed' = [filed EXCEPT ![i] = ~hooked[i]]
      <4>1. submit[i] = "accepted" /\ hooked[i]
        BY <2>1, <3>2 DEF AskPool, LoopFree
      <4>2. ~filed'[i] /\ future'[i] = "cancelled" /\ cancel'[i] = "flagged"
        BY <3>2, <4>1
      <4>. QED
        BY <3>1, <3>2, <4>1, <4>2 DEF Pending
    <3>3. CASE cancel' = [cancel EXCEPT ![i] = "refused"] /\ UNCHANGED <<future, filed>>
      BY <3>1, <3>3
    <3>. QED
      BY <2>1, <3>2, <3>3 DEF AskPool, CancelGoes
  <2>2. CASE SaveCancelled(i)
    BY <2>2 DEF SaveCancelled, CancelGoes
  <2>3. CASE CancelRow(i)
    BY <2>3 DEF CancelRow, CancelGoes
  <2>4. CASE CancelFails(i)
    BY <2>4 DEF CancelFails, CancelGoes
  <2>. QED
    BY <2>1, <2>2, <2>3, <2>4
<1>. QED
  BY <1>1, <1>2

LEMMA BodyStepInv ==
  ASSUME PoolInv, NEW i \in Job, NEW j \in Job, BodyStep(i)
  PROVE  JobInv(j)'
<1>. USE DEF PoolInv, EmbeddedTypeOK, tableVars, requestVars, poolVars, bodyVars
<1>0. up /\ up' = up
  BY DEF BodyStep, PoolStarts, MarkRunning, ReportRunning, RunTasks, SettleRow,
     ReportOutcome, RaiseInBody, FailRow, ReportFailure, BodyReturns, BodyGoes
<1>1. CASE j # i
  <2>1. Untouched(j)
    BY <1>1 DEF Untouched, BodyStep, PoolStarts, MarkRunning, ReportRunning, RunTasks, SettleRow,
       ReportOutcome, RaiseInBody, FailRow, ReportFailure, BodyReturns, BodyGoes
  <2>. QED
    BY <1>0, <2>1, UntouchedInv
<1>2. CASE j = i
  <2>. USE <1>0, <1>2 DEF JobInv, FutureInv, BodyInv, CancelInv, DownInv, AtWork
  <2>1. CASE PoolStarts(i)
    BY <2>1 DEF PoolStarts, BodyGoes, Pending
  <2>2. CASE MarkRunning(i) \/ SettleRow(i) \/ FailRow(i)
    BY <2>2 DEF MarkRunning, SettleRow, FailRow, BodyGoes
  <2>3. CASE ReportRunning(i)
    BY <2>3 DEF ReportRunning, BodyGoes
  <2>4. CASE RunTasks(i) \/ RaiseInBody(i)
    BY <2>4 DEF RunTasks, RaiseInBody, BodyGoes
  <2>5. CASE ReportOutcome(i) \/ ReportFailure(i)
    BY <2>5 DEF ReportOutcome, ReportFailure, BodyGoes, Outcome
  <2>6. CASE BodyReturns(i)
    <3>1. /\ body[i] \in {"reported", "closed", "opened", "raised", "rowfailed"}
          /\ body'[i] = IF body[i] \in {"reported", "closed"} THEN "returned" ELSE "abandoned"
          /\ future'[i] = "done"
          /\ UNCHANGED <<submit, cancel, hooked, latest, row>>
      BY <2>6 DEF BodyReturns, BodyGoes
    <3>2. filed'[i] <=> filed[i] /\ ~hooked[i]
      BY <2>6 DEF BodyReturns
    <3>3. future[i] = "running" /\ submit[i] \in {"handed", "filed", "accepted"}
      BY <3>1
    <3>. QED
      BY <3>1, <3>2, <3>3
  <2>. QED
    BY <2>1, <2>2, <2>3, <2>4, <2>5, <2>6 DEF BodyStep
<1>. QED
  BY <1>1, <1>2

LEMMA ProcessStep ==
  ASSUME PoolInv, NEW j \in Job, KillApi \/ StartApi
  PROVE  JobInv(j)'
<1>. USE DEF PoolInv, EmbeddedTypeOK, tableVars, requestVars, poolVars, bodyVars,
             JobInv, FutureInv, BodyInv, CancelInv, DownInv, AtWork
<1>1. CASE KillApi
  BY <1>1 DEF KillApi
<1>2. CASE StartApi
  <2>1. cancel[j] = "confirmed" => row'[j] = "cancelled"
    BY <1>2 DEF StartApi
  <2>. QED
    BY <1>2, <2>1 DEF StartApi
<1>. QED
  BY <1>1, <1>2

LEMMA PoolStep == PoolInv /\ [EmbeddedNext]_embeddedVars => PoolInv'
<1>. SUFFICES ASSUME PoolInv, [EmbeddedNext]_embeddedVars PROVE PoolInv'
  OBVIOUS
<1>1. CASE EmbeddedNext
  <2>1. EmbeddedTypeOK'
    BY <1>1, PoolTypes
  <2>2. ASSUME NEW i \in Job, \/ AnnounceRun(i) \/ AnnounceRepair(i) \/ RunSync(i) \/ AskPool(i)
                              \/ HandlerStep(i) \/ BodyStep(i)
        PROVE  (\A j \in Job : JobInv(j)') /\ UNCHANGED <<up, restarts>>
    <3>1. \A j \in Job : JobInv(j)'
      BY <2>2, SubmitStep, CancelStep, BodyStepInv DEF HandlerStep
    <3>2. UNCHANGED <<up, restarts>>
      BY <2>2 DEF HandlerStep, BodyStep, AnnounceRun, AnnounceRepair, EnqueueJob, HandOver,
         FileFuture, AttachCallback, SubmitFails, RunSync, ReportSync, AskPool, SaveCancelled,
         CancelRow, CancelFails, PoolStarts, MarkRunning, ReportRunning, RunTasks, SettleRow,
         ReportOutcome, RaiseInBody, FailRow, ReportFailure, BodyReturns
    <3>. QED
      BY <3>1, <3>2
  <2>3. ASSUME NEW i \in Job, OpenStream(i) \/ StreamTick(i)
        PROVE  (\A j \in Job : JobInv(j)') /\ UNCHANGED <<up, restarts>>
    <3>1. (\A j \in Job : Untouched(j)) /\ UNCHANGED <<up, restarts>>
      BY <2>3 DEF OpenStream, StreamTick, Untouched, tableVars, requestVars, poolVars, bodyVars
    <3>. QED
      BY <3>1, UntouchedInv DEF PoolInv
  <2>4. CASE KillApi \/ StartApi
    <3>1. ~up' => restarts' < MaxRestarts
      BY <2>4 DEF KillApi, StartApi
    <3>2. \A j \in Job : JobInv(j)'
      BY <2>4, ProcessStep
    <3>. QED
      BY <2>1, <3>1, <3>2 DEF PoolInv
  <2>. QED
    <3>1. ASSUME NEW i \in Job, \/ AnnounceRun(i) \/ AnnounceRepair(i) \/ RunSync(i) \/ AskPool(i)
                                \/ HandlerStep(i) \/ BodyStep(i) \/ OpenStream(i) \/ StreamTick(i)
          PROVE  PoolInv'
      BY <2>1, <2>2, <2>3, <3>1 DEF PoolInv
    <3>2. CASE KillApi \/ StartApi
      BY <2>4, <3>2
    <3>. QED
      BY <1>1, <3>1, <3>2 DEF EmbeddedNext
<1>2. CASE UNCHANGED embeddedVars
  <2>1. (\A j \in Job : Untouched(j)) /\ UNCHANGED <<up, restarts>>
    BY <1>2 DEF embeddedVars, Untouched, tableVars, requestVars, poolVars, bodyVars
  <2>2. EmbeddedTypeOK'
    BY <1>2 DEF PoolInv, EmbeddedTypeOK, embeddedVars, tableVars, requestVars, poolVars,
       bodyVars, logVars
  <2>. QED
    BY <2>1, <2>2, UntouchedInv DEF PoolInv
<1>. QED
  BY <1>1, <1>2

\* Futures, threads, handlers and tables move in step, in every run.
THEOREM PoolInvariance == EmbeddedSpec => []PoolInv
BY PoolInit, PoolStep, PTL DEF EmbeddedSpec

\* What was cancelled has nothing running.
LEMMA CancelsHold == PoolInv => CancelStands
BY DEF PoolInv, JobInv, CancelInv, CancelStands

\* A confirmed cancellation stands, whatever the pool, the other requests, a
\* kill and the sweep of the next start do.
THEOREM CancellationsStand == EmbeddedSpec => []CancelStands
BY CancelsHold, PoolInvariance, PTL

\* A run is on file exactly while the pool has it.
LEMMA FiledWhileAlive == PoolInv => NoRunForgotten
<1>. SUFFICES ASSUME PoolInv, NEW j \in Job, up, submit[j] = "accepted"
              PROVE  /\ filed[j] <=> (Pending(j) \/ Running(j))
                     /\ latest[j] \in {"queued", "running"} =>
                          \/ IsPending(j) \/ IsRunning(j)
                          \/ cancel[j] \in {"flagged", "broken"} \/ body[j] = "abandoned"
  BY DEF NoRunForgotten
<1>1. JobInv(j) /\ future[j] \in {"absent", "pending", "running", "done", "cancelled"}
  BY DEF PoolInv, EmbeddedTypeOK
<1>. QED
  BY <1>1 DEF JobInv, FutureInv, BodyInv, CancelInv, Pending, Running, IsPending, IsRunning

\* While the process lives the pool's dictionary holds exactly the runs that
\* are pending or executing, and every unfinished report has somebody who will
\* finish it, but for the failures the property names.
THEOREM RunsAreRemembered == EmbeddedSpec => []NoRunForgotten
BY FiledWhileAlive, PoolInvariance, PTL

(*****************************************************************************)
(* Alerts: what a collector remembers and what it opened                     *)
(*****************************************************************************)

Target == Channel \union {"rule", "none"}
IncidentRow == [rule : Rule, subject : Subject, status : Active \union {"resolved"}, resolved : BOOLEAN,
        opener : Collector, cut : BOOLEAN, told : Seq(Target)]
Incident == {x \in IncidentRow : x.status = "resolved" => x.resolved}
Open(i) == incidents[i].status \in Active /\ ~incidents[i].resolved
Walking == {"walking", "creating", "updating", "notifying", "telling"}
Telling == {"notifying", "telling"}

Shaped(k) == k = [at |-> k.at, samples |-> k.samples, todo |-> k.todo, found |-> k.found,
                  targets |-> k.targets]
TodoOK(todo) == todo # {} /\ \A t \in todo : t[1] \in Rule /\ t[2] \in Subject

\* About to create: since the collector looked it has opened nothing for the
\* item, and what it opened before is closed.
NoneOpen(c) ==
  \A i \in DOMAIN incidents :
    incidents[i].opener = c /\ incidents[i].rule = Item(c)[1] /\ incidents[i].subject = Item(c)[2]
      => ~Open(i)

\* Telling: whom it has still to tell it has not told, and more than one are
\* channels.
StillToTell(c) ==
  LET told == incidents[collectors[c].found].told
      targets == collectors[c].targets
  IN  /\ targets # {} /\ targets \subseteq Target
      /\ \A m \in DOMAIN told : told[m] \notin targets
      /\ told # <<>> => targets \subseteq Channel /\ \A m \in DOMAIN told : told[m] \in Channel
      /\ targets \subseteq Channel \/ \E t \in targets : targets = {t}

MemoryInv(c) ==
  /\ collectors[c].at \in Walking \union {"rest", "sampled"}
  /\ \A s \in collectors[c].samples : s.subject \in Subject
  /\ collectors[c].at \in Walking => TodoOK(collectors[c].todo)
  /\ collectors[c].at = "creating" => NoneOpen(c)
  /\ collectors[c].at \in Telling => /\ collectors[c].found \in DOMAIN incidents
                                     /\ incidents[collectors[c].found].opener = c
  /\ collectors[c].at = "notifying" => incidents[collectors[c].found].told = <<>>
  /\ collectors[c].at = "telling" => StillToTell(c)

AlertInv ==
  /\ incidents \in Seq(Incident)
  /\ DOMAIN collectors = Collector
  /\ \A c \in Collector : Shaped(collectors[c]) /\ MemoryInv(c)
  /\ OpenedOnceToldOnce

-----------------------------------------------------------------------------
(* What a step does to the incidents, as the other collectors see it       *)

\* Only collectors in C create or report; nothing closed opens again.
Later(C) ==
  /\ \A i \in DOMAIN incidents :
       /\ i \in DOMAIN incidents'
       /\ incidents'[i].rule = incidents[i].rule /\ incidents'[i].subject = incidents[i].subject
       /\ incidents'[i].opener = incidents[i].opener
       /\ Open(i)' => Open(i)
       /\ incidents[i].opener \notin C => incidents'[i].told = incidents[i].told
  /\ \A i \in DOMAIN incidents' : i \notin DOMAIN incidents => incidents'[i].opener \in C

LEMMA ItemKept == ASSUME NEW d \in Collector, collectors'[d] = collectors[d] PROVE Item(d)' = Item(d)
BY DEF Item

LEMMA MemoryKept ==
  ASSUME AlertInv, NEW C, Later(C), NEW d \in Collector, d \notin C, collectors'[d] = collectors[d]
  PROVE  Shaped(collectors'[d]) /\ MemoryInv(d)'
<1>. DEFINE k == collectors[d]
<1>1. Shaped(collectors'[d]) /\ MemoryInv(d) /\ Item(d)' = Item(d)
  BY ItemKept DEF AlertInv
<1>2. k.at = "creating" => NoneOpen(d)'
  <2>. SUFFICES ASSUME NoneOpen(d), NEW i \in DOMAIN incidents', incidents'[i].opener = d,
                       incidents'[i].rule = Item(d)'[1], incidents'[i].subject = Item(d)'[2]
                PROVE  ~Open(i)'
    BY <1>1 DEF MemoryInv, NoneOpen
  <2>1. i \in DOMAIN incidents
    BY DEF Later
  <2>. QED
    BY <1>1, <2>1 DEF Later, NoneOpen
<1>3. ASSUME k.at \in Telling
      PROVE /\ k.found \in DOMAIN incidents'
            /\ incidents'[k.found].opener = d /\ incidents'[k.found].told = incidents[k.found].told
  BY <1>1, <1>3 DEF Later, MemoryInv
<1>4. k.at = "telling" => StillToTell(d)'
  BY <1>1, <1>3 DEF MemoryInv, StillToTell, Telling
<1>5. k.at \in Walking => TodoOK(k.todo)
  BY <1>1 DEF MemoryInv
<1>. QED
  BY <1>1, <1>2, <1>3, <1>4 DEF MemoryInv, TodoOK, Telling

\* A step after which nothing new is open leaves no new duplicates.
LEMMA NoNewDuplicates ==
  ASSUME AlertInv, NEW C, Later(C), DOMAIN incidents' = DOMAIN incidents
  PROVE  DuplicatesNeedTwoCollectors'
BY DEF AlertInv, OpenedOnceToldOnce, DuplicatesNeedTwoCollectors, Later, Open

\* Two fields of a record are updated one after the other.
LEMMA PhaseAndSamples ==
  ASSUME NEW k, Shaped(k), NEW x, NEW y
  PROVE  [k EXCEPT !.at = x, !.samples = y] =
           [at |-> x, samples |-> y, todo |-> k.todo, found |-> k.found, targets |-> k.targets]
<1>. DEFINE m == [at |-> x, samples |-> k.samples, todo |-> k.todo, found |-> k.found, targets |-> k.targets]
<1>1. [k EXCEPT !.at = x] = m
  BY DEF Shaped
<1>2. [k EXCEPT !.at = x, !.samples = y] = [[k EXCEPT !.at = x] EXCEPT !.samples = y]
  OBVIOUS
<1>3. [m EXCEPT !.samples = y] =
        [at |-> x, samples |-> y, todo |-> k.todo, found |-> k.found, targets |-> k.targets]
  OBVIOUS
<1>. HIDE DEF m
<1>. QED
  BY <1>1, <1>2, <1>3

LEMMA PhaseAndFound ==
  ASSUME NEW k, Shaped(k), NEW x, NEW y
  PROVE  [k EXCEPT !.at = x, !.found = y] =
           [at |-> x, samples |-> k.samples, todo |-> k.todo, found |-> y, targets |-> k.targets]
<1>. DEFINE m == [at |-> x, samples |-> k.samples, todo |-> k.todo, found |-> k.found, targets |-> k.targets]
<1>1. [k EXCEPT !.at = x] = m
  BY DEF Shaped
<1>2. [k EXCEPT !.at = x, !.found = y] = [[k EXCEPT !.at = x] EXCEPT !.found = y]
  OBVIOUS
<1>3. [m EXCEPT !.found = y] =
        [at |-> x, samples |-> k.samples, todo |-> k.todo, found |-> y, targets |-> k.targets]
  OBVIOUS
<1>. HIDE DEF m
<1>. QED
  BY <1>1, <1>2, <1>3

LEMMA PhaseAndTargets ==
  ASSUME NEW k, Shaped(k), NEW x, NEW y
  PROVE  [k EXCEPT !.at = x, !.targets = y] =
           [at |-> x, samples |-> k.samples, todo |-> k.todo, found |-> k.found, targets |-> y]
<1>. DEFINE m == [at |-> x, samples |-> k.samples, todo |-> k.todo, found |-> k.found, targets |-> k.targets]
<1>1. [k EXCEPT !.at = x] = m
  BY DEF Shaped
<1>2. [k EXCEPT !.at = x, !.targets = y] = [[k EXCEPT !.at = x] EXCEPT !.targets = y]
  OBVIOUS
<1>3. [m EXCEPT !.targets = y] =
        [at |-> x, samples |-> k.samples, todo |-> k.todo, found |-> k.found, targets |-> y]
  OBVIOUS
<1>. HIDE DEF m
<1>. QED
  BY <1>1, <1>2, <1>3

LEMMA NextItemFits ==
  ASSUME AlertInv, NEW c \in Collector, collectors[c].at \in Walking
  PROVE  /\ Shaped(NextItem(c)) /\ NextItem(c).at \in {"walking", "rest"}
         /\ NextItem(c).at = "walking" => TodoOK(NextItem(c).todo)
         /\ NextItem(c).samples = {}
<1>1. TodoOK(collectors[c].todo)
  BY DEF AlertInv, MemoryInv
<1>. QED
  BY <1>1 DEF NextItem, Resting, Shaped, TodoOK

LEMMA IncidentAt ==
  ASSUME AlertInv, NEW i \in DOMAIN incidents PROVE incidents[i] \in Incident
BY ElementOfSeq, LenProperties DEF AlertInv

\* A collector's step that leaves the incidents alone.
LEMMA QuietStep ==
  ASSUME AlertInv, NEW c \in Collector, NEW k, UNCHANGED incidents,
         collectors' = [collectors EXCEPT ![c] = k], Shaped(k), MemoryInv(c)',
         collectors[c].at \in Telling => k.at \in Telling /\ k.found = collectors[c].found
  PROVE  AlertInv'
<1>1. Later({})
  BY DEF Later, Open
<1>2. DOMAIN collectors' = Collector /\ collectors'[c] = k
      /\ \A d \in Collector \ {c} : collectors'[d] = collectors[d]
  BY DEF AlertInv
<1>3. \A d \in Collector \ {c} : Shaped(collectors'[d]) /\ MemoryInv(d)'
  BY <1>1, <1>2, MemoryKept
<1>4. ToldOnce'
  <2>. SUFFICES ASSUME NEW i \in DOMAIN incidents, incidents[i].told = <<>>
                PROVE BusyWith(i)' \/ incidents[i].opener \notin Notifying \/ incidents[i].cut
    BY DEF AlertInv, OpenedOnceToldOnce, ToldOnce
  <2>1. BusyWith(i) \/ incidents[i].opener \notin Notifying \/ incidents[i].cut
    BY DEF AlertInv, OpenedOnceToldOnce, ToldOnce
  <2>2. incidents[i].opener \in Collector
    BY IncidentAt DEF Incident, IncidentRow
  <2>. QED
    BY <1>2, <2>1, <2>2 DEF BusyWith, Telling
<1>5. DuplicatesNeedTwoCollectors'
  BY <1>1, NoNewDuplicates
<1>. QED
  BY <1>2, <1>3, <1>4, <1>5 DEF AlertInv, OpenedOnceToldOnce

\* A step that marks incidents as resolved or acknowledged, by a collector
\* that is not telling anybody or by an operator.
LEMMA MarkingStep ==
  ASSUME AlertInv, incidents' \in Seq(Incident), DOMAIN incidents' = DOMAIN incidents,
         \A i \in DOMAIN incidents :
            /\ incidents'[i].rule = incidents[i].rule /\ incidents'[i].subject = incidents[i].subject
            /\ incidents'[i].opener = incidents[i].opener /\ incidents'[i].told = incidents[i].told
            /\ incidents'[i].cut = incidents[i].cut
            /\ Open(i)' => Open(i),
         NEW C \in SUBSET Collector, DOMAIN collectors' = Collector,
         \A d \in Collector \ C : collectors'[d] = collectors[d],
         \A d \in C : /\ Shaped(collectors'[d]) /\ MemoryInv(d)'
                      /\ collectors[d].at \notin Telling
  PROVE  AlertInv'
<1>1. Later(C)
  BY DEF Later
<1>2. \A d \in Collector \ C : Shaped(collectors'[d]) /\ MemoryInv(d)'
  BY <1>1, MemoryKept
<1>3. DuplicatesNeedTwoCollectors'
  BY <1>1, NoNewDuplicates
<1>4. ToldOnce'
  <2>. SUFFICES ASSUME NEW i \in DOMAIN incidents
                PROVE LET told == incidents[i].told IN
                      /\ \A m, n \in DOMAIN told : m # n => told[m] # told[n] /\ told[m] \in Channel
                      /\ told = <<>> => BusyWith(i)' \/ incidents[i].opener \notin Notifying \/ incidents[i].cut
    BY DEF ToldOnce
  <2>1. incidents[i].opener \in Collector
    BY IncidentAt DEF Incident, IncidentRow
  <2>2. BusyWith(i) => BusyWith(i)'
    BY <2>1 DEF BusyWith, Telling
  <2>. QED
    BY <2>2 DEF AlertInv, OpenedOnceToldOnce, ToldOnce
<1>. QED
  BY <1>2, <1>3, <1>4 DEF AlertInv, OpenedOnceToldOnce

\* The newest of some incidents exists.
LEMMA NewestExists ==
  ASSUME NEW n \in Nat, NEW S \in SUBSET (1..n), S # {}
  PROVE  \E i \in S : \A j \in S : j <= i
<1>. DEFINE R == OpToRel(<, Nat)
            T == {k \in Nat : n - k \in S}
<1>1. R = {p \in Nat \X Nat : p[1] < p[2]}
  BY DEF OpToRel
<1>2. T \subseteq Nat /\ T # {}
  <2>1. PICK i \in S : TRUE
    OBVIOUS
  <2>2. n - i \in T
    <3>1. n - i \in Nat /\ n - (n - i) = i
      OBVIOUS
    <3>. QED
      BY <3>1
  <2>. QED
    BY <2>2
<1>3. IsWellFoundedOn(R, Nat)
  BY NatLessThanWellFounded
<1>4. PICK x \in T : \A y \in T : ~ (<<y, x>> \in R)
  <2>. HIDE DEF R, T
  <2>. QED
    BY <1>2, <1>3, WFMin
<1>5. \A y \in T : x <= y
  <2>. SUFFICES ASSUME NEW y \in T PROVE ~(y < x)
    OBVIOUS
  <2>1. <<y, x>> \notin {p \in Nat \X Nat : p[1] < p[2]}
    BY <1>1, <1>4
  <2>. QED
    BY <2>1
<1>6. n - x \in S
  OBVIOUS
<1>7. ASSUME NEW j \in S PROVE j <= n - x
  <2>1. n - j \in Nat /\ n - (n - j) = j /\ j \in Nat
    OBVIOUS
  <2>2. x <= n - j
    BY <1>5, <2>1
  <2>. QED
    BY <2>1, <2>2
<1>. QED
  BY <1>6, <1>7

-----------------------------------------------------------------------------
(* The steps of a collector *)

LEMMA QuietSteps ==
  ASSUME AlertInv, NEW c \in Collector,
         CollectMetrics(c) \/ EvaluateRules(c) \/ LookForIncident(c) \/ UpdateObservation(c) \/ PickTargets(c)
  PROVE  AlertInv'
<1>. DEFINE k == collectors[c]
<1>0. /\ Shaped(k) /\ MemoryInv(c) /\ UNCHANGED incidents
      /\ \A x : collectors' = [collectors EXCEPT ![c] = x] => collectors'[c] = x
  BY DEF AlertInv, CollectMetrics, EvaluateRules, LookForIncident, UpdateObservation, PickTargets
<1>1. CASE CollectMetrics(c)
  <2>. DEFINE new == [Resting EXCEPT !.at = "sampled", !.samples = BuildSamples]
  <2>1. \A s \in BuildSamples : s.subject \in Subject
    BY DEF BuildSamples, KnownPipelines, Subject
  <2>2. new = [at |-> "sampled", samples |-> BuildSamples, todo |-> {}, found |-> 0, targets |-> {}]
    <3>1. Shaped(Resting)
      BY DEF Resting, Shaped
    <3>2. /\ Resting.todo = {} /\ Resting.found = 0 /\ Resting.targets = {}
      BY DEF Resting
    <3>3. new = [at |-> "sampled", samples |-> BuildSamples, todo |-> Resting.todo,
                 found |-> Resting.found, targets |-> Resting.targets]
      BY <3>1, PhaseAndSamples
    <3>. QED
      BY <3>2, <3>3
  <2>. HIDE DEF new
  <2>3. collectors' = [collectors EXCEPT ![c] = new] /\ k.at = "rest"
    BY <1>1 DEF CollectMetrics, new
  <2>4. Shaped(new) /\ new.at = "sampled" /\ new.samples = BuildSamples
    BY <2>2 DEF Shaped
  <2>5. MemoryInv(c)'
    BY <1>0, <2>1, <2>3, <2>4 DEF MemoryInv, Walking, Telling
  <2>9. /\ UNCHANGED incidents /\ collectors' = [collectors EXCEPT ![c] = new] /\ Shaped(new)
        /\ collectors[c].at \in Telling => new.at \in Telling /\ new.found = collectors[c].found
        /\ MemoryInv(c)'
    BY <1>0, <2>3, <2>4, <2>5 DEF Telling
  <2>. HIDE DEF k
  <2>. QED
    BY <2>9, QuietStep
<1>2. CASE EvaluateRules(c)
  <2>. DEFINE matching == {m \in Rule \X k.samples :
                             alertRules[m[1]].enabled /\ m[2] \in MatchingSamples(m[1], k.samples)}
              todo == {<<m[1], m[2].subject, Fires(m[1], m[2].value), alertRules[m[1]].direct>> : m \in matching}
              new == IF todo = {} THEN Resting ELSE [Resting EXCEPT !.at = "walking", !.todo = todo]
  <2>1. \A t \in todo : t[1] \in Rule /\ t[2] \in Subject
    BY <1>0 DEF MemoryInv
  <2>2. collectors' = [collectors EXCEPT ![c] = new] /\ k.at = "sampled"
    BY <1>2 DEF EvaluateRules
  <2>. HIDE DEF todo
  <2>3. Shaped(new) /\ new.samples = {} /\ \/ new.at = "rest"
                                           \/ new.at = "walking" /\ new.todo = todo /\ todo # {}
    BY DEF Shaped, Resting
  <2>. HIDE DEF new
  <2>4. MemoryInv(c)'
    BY <1>0, <2>1, <2>2, <2>3 DEF MemoryInv, Walking, Telling, TodoOK
  <2>9. /\ UNCHANGED incidents /\ collectors' = [collectors EXCEPT ![c] = new] /\ Shaped(new)
        /\ collectors[c].at \in Telling => new.at \in Telling /\ new.found = collectors[c].found
        /\ MemoryInv(c)'
    BY <1>0, <2>2, <2>3, <2>4 DEF Telling
  <2>. HIDE DEF k
  <2>. QED
    BY <2>9, QuietStep
<1>3. CASE LookForIncident(c)
  <2>. DEFINE found == ActiveIncident(Item(c)[1], Item(c)[2])
              phase == IF found = 0 THEN "creating" ELSE "updating"
              new == [k EXCEPT !.at = phase, !.found = found]
  <2>1. found = 0 => NoneOpen(c)
    <3>. DEFINE live == IncidentsOf(Item(c)[1], Item(c)[2])
    <3>1. live \subseteq DOMAIN incidents
      BY DEF IncidentsOf
    <3>2. live # {} => \E i \in live : \A j \in live : j <= i
      <4>1. PICK n \in Nat : DOMAIN incidents = 1..n
        BY LenProperties DEF AlertInv
      <4>. QED
        BY <3>1, <4>1, NewestExists
    <3>3. live # {} => found # 0
      <4>1. 0 \notin live
        BY <3>1, LenProperties DEF AlertInv
      <4>2. live # {} => found \in live
        BY <3>2 DEF ActiveIncident
      <4>. QED
        BY <4>1, <4>2
    <3>. QED
      BY <3>3 DEF NoneOpen, IncidentsOf, Open
  <2>. HIDE DEF found, phase
  <2>2. new = [at |-> phase, samples |-> k.samples, todo |-> k.todo, found |-> found,
               targets |-> k.targets]
    BY <1>0, PhaseAndFound
  <2>3. collectors' = [collectors EXCEPT ![c] = new] /\ k.at = "walking"
    <3>1. collectors' = [collectors EXCEPT ![c].at = phase, ![c].found = found] /\ k.at = "walking"
      BY <1>3 DEF LookForIncident, found, phase
    <3>. QED
      BY <3>1 DEF AlertInv
  <2>4. /\ Shaped(new) /\ new.samples = k.samples /\ new.todo = k.todo
        /\ new.at = IF found = 0 THEN "creating" ELSE "updating"
    BY <2>2 DEF Shaped, phase
  <2>. HIDE DEF new
  <2>5. Item(c)' = Item(c)
    BY <1>0, <2>3, <2>4 DEF Item
  <2>6. found = 0 => NoneOpen(c)'
    BY <1>0, <2>1, <2>5 DEF NoneOpen, Open
  <2>7. TodoOK(k.todo)
    BY <1>0, <2>3 DEF MemoryInv, Walking
  <2>8. MemoryInv(c)'
    BY <1>0, <2>3, <2>4, <2>6, <2>7 DEF MemoryInv, Walking, Telling, TodoOK
  <2>9. /\ UNCHANGED incidents /\ collectors' = [collectors EXCEPT ![c] = new] /\ Shaped(new)
        /\ collectors[c].at \in Telling => new.at \in Telling /\ new.found = collectors[c].found
        /\ MemoryInv(c)'
    BY <1>0, <2>3, <2>4, <2>8 DEF Telling
  <2>. HIDE DEF k
  <2>. QED
    BY <2>9, QuietStep
<1>4. CASE UpdateObservation(c)
  <2>. DEFINE new == NextItem(c)
  <2>1. collectors' = [collectors EXCEPT ![c] = new] /\ k.at = "updating"
    BY <1>4 DEF UpdateObservation
  <2>2. /\ Shaped(new) /\ new.at \in {"walking", "rest"} /\ new.samples = {}
        /\ new.at = "walking" => TodoOK(new.todo)
    BY <2>1, NextItemFits DEF Walking
  <2>. HIDE DEF new
  <2>3. MemoryInv(c)'
    BY <1>0, <2>1, <2>2 DEF MemoryInv, Walking, Telling, TodoOK
  <2>9. /\ UNCHANGED incidents /\ collectors' = [collectors EXCEPT ![c] = new] /\ Shaped(new)
        /\ collectors[c].at \in Telling => new.at \in Telling /\ new.found = collectors[c].found
        /\ MemoryInv(c)'
    BY <1>0, <2>1, <2>2, <2>3 DEF Telling
  <2>. HIDE DEF k
  <2>. QED
    BY <2>9, QuietStep
<1>5. CASE PickTargets(c)
  <2>. DEFINE new == [k EXCEPT !.at = "telling", !.targets = Targets(Item(c)[4])]
  <2>1. collectors' = [collectors EXCEPT ![c] = new] /\ k.at = "notifying"
    <3>1. collectors' = [collectors EXCEPT ![c].at = "telling", ![c].targets = Targets(Item(c)[4])]
          /\ k.at = "notifying"
      BY <1>5 DEF PickTargets
    <3>. QED
      BY <3>1 DEF AlertInv
  <2>2. new = [at |-> "telling", samples |-> k.samples, todo |-> k.todo, found |-> k.found,
               targets |-> Targets(Item(c)[4])]
    BY <1>0, PhaseAndTargets
  <2>3. /\ Shaped(new) /\ new.at = "telling" /\ new.samples = k.samples /\ new.todo = k.todo
        /\ new.found = k.found /\ new.targets = Targets(Item(c)[4])
    BY <2>2 DEF Shaped
  <2>. HIDE DEF new
  <2>4. /\ Targets(Item(c)[4]) # {} /\ Targets(Item(c)[4]) \subseteq Target
        /\ \/ Targets(Item(c)[4]) \subseteq Channel
           \/ \E t \in Targets(Item(c)[4]) : Targets(Item(c)[4]) = {t}
    BY DEF Targets, Hearing, Target
  <2>5. incidents[k.found].told = <<>> /\ DOMAIN (<<>>) = {}
    BY <1>0, <2>1 DEF MemoryInv
  <2>6. StillToTell(c)'
    BY <1>0, <2>1, <2>3, <2>4, <2>5 DEF StillToTell
  <2>7. TodoOK(k.todo)
    BY <1>0, <2>1 DEF MemoryInv, Walking
  <2>8. MemoryInv(c)'
    BY <1>0, <2>1, <2>3, <2>6, <2>7 DEF MemoryInv, Walking, Telling, TodoOK
  <2>9. /\ UNCHANGED incidents /\ collectors' = [collectors EXCEPT ![c] = new] /\ Shaped(new)
        /\ collectors[c].at \in Telling => new.at \in Telling /\ new.found = collectors[c].found
        /\ MemoryInv(c)'
    BY <1>0, <2>1, <2>3, <2>8 DEF Telling
  <2>. HIDE DEF k
  <2>. QED
    BY <2>9, QuietStep
<1>. QED
  BY <1>1, <1>2, <1>3, <1>4, <1>5

\* A new incident duplicates nothing its collector has open, and unless its
\* collector was asked not to notify it is about to tell.
LEMMA CreateStep == ASSUME AlertInv, NEW c \in Collector, CreateIncident(c) PROVE AlertInv'
<1>. DEFINE k == collectors[c]
            n == Len(incidents) + 1
            born == [rule |-> Item(c)[1], subject |-> Item(c)[2], status |-> "firing", resolved |-> FALSE,
                     opener |-> c, cut |-> FALSE, told |-> <<>>]
            new == IF c \in Notifying THEN [k EXCEPT !.at = "notifying", !.found = n] ELSE NextItem(c)
<1>1. Shaped(k) /\ MemoryInv(c) /\ k.at = "creating" /\ TodoOK(k.todo) /\ NoneOpen(c)
  BY DEF AlertInv, CreateIncident, MemoryInv, Walking
<1>2. born \in Incident
  <2>1. Item(c) \in k.todo
    BY <1>1 DEF Item, TodoOK
  <2>2. <<>> \in Seq(Target)
    BY EmptySeq
  <2>. QED
    BY <1>1, <2>1, <2>2 DEF TodoOK, Incident, IncidentRow, Active
<1>3. incidents' = Append(incidents, born) /\ collectors' = [collectors EXCEPT ![c] = new]
  BY DEF CreateIncident
<1>4. /\ born.rule = Item(c)[1] /\ born.subject = Item(c)[2] /\ born.opener = c /\ born.told = <<>>
  OBVIOUS
<1>. HIDE DEF born, new
<1>5. /\ incidents' \in Seq(Incident) /\ Len(incidents) \in Nat
      /\ DOMAIN incidents = 1..Len(incidents) /\ DOMAIN incidents' = 1..n
      /\ \A i \in DOMAIN incidents : incidents'[i] = incidents[i]
      /\ incidents'[n] = born
  BY <1>2, <1>3, LenProperties DEF AlertInv
<1>6. Later({c})
  BY <1>4, <1>5 DEF Later, Open
<1>7. /\ DOMAIN collectors' = Collector /\ collectors'[c] = new
      /\ \A d \in Collector \ {c} : collectors'[d] = collectors[d]
  BY <1>3 DEF AlertInv
<1>8. \A d \in Collector \ {c} : Shaped(collectors'[d]) /\ MemoryInv(d)'
  BY <1>6, <1>7, MemoryKept
<1>9. /\ Shaped(new) /\ \A s \in new.samples : s.subject \in Subject
      /\ \/ c \notin Notifying /\ new.at = "rest"
         \/ c \notin Notifying /\ new.at = "walking" /\ TodoOK(new.todo)
         \/ c \in Notifying /\ new.at = "notifying" /\ new.found = n /\ new.todo = k.todo
  <2>1. CASE c \in Notifying
    <3>1. new = [at |-> "notifying", samples |-> k.samples, todo |-> k.todo, found |-> n,
                 targets |-> k.targets]
      BY <1>1, <2>1, PhaseAndFound DEF new
    <3>. QED
      BY <1>1, <2>1, <3>1 DEF Shaped, MemoryInv
  <2>2. CASE c \notin Notifying
    BY <1>1, <2>2, NextItemFits DEF new, Walking
  <2>. QED
    BY <2>1, <2>2
<1>10. MemoryInv(c)'
  BY <1>1, <1>4, <1>5, <1>7, <1>9 DEF MemoryInv, Walking, Telling, TodoOK
<1>11. DuplicatesNeedTwoCollectors'
  <2>. SUFFICES ASSUME NEW i \in DOMAIN incidents', NEW j \in DOMAIN incidents', i < j,
                       incidents'[i].rule = incidents'[j].rule, incidents'[i].subject = incidents'[j].subject,
                       Open(i)', Open(j)'
                PROVE  incidents'[i].opener # incidents'[j].opener
    BY DEF DuplicatesNeedTwoCollectors, Open
  <2>1. i \in DOMAIN incidents
    BY <1>5
  <2>2. CASE j \in DOMAIN incidents
    BY <1>5, <2>1, <2>2 DEF AlertInv, OpenedOnceToldOnce, DuplicatesNeedTwoCollectors, Open
  <2>3. CASE j = n
    <3>1. ~Open(i) \/ incidents[i].opener # c
      BY <1>1, <1>4, <1>5, <2>1, <2>3 DEF NoneOpen
    <3>. QED
      BY <1>4, <1>5, <2>1, <2>3, <3>1 DEF Open
  <2>. QED
    BY <1>5, <2>2, <2>3
<1>12. ToldOnce'
  <2>. SUFFICES ASSUME NEW i \in DOMAIN incidents'
                PROVE LET told == incidents'[i].told IN
                      /\ \A m, l \in DOMAIN told : m # l => told[m] # told[l] /\ told[m] \in Channel
                      /\ told = <<>> => \/ BusyWith(i)' \/ incidents'[i].opener \notin Notifying
                                        \/ incidents'[i].cut
    BY DEF ToldOnce
  <2>1. CASE i \in DOMAIN incidents
    <3>1. incidents[i].opener \in Collector
      BY <2>1, IncidentAt DEF Incident, IncidentRow
    <3>2. BusyWith(i) => BusyWith(i)'
      BY <1>1, <1>5, <1>7, <2>1, <3>1 DEF BusyWith, Telling
    <3>. QED
      BY <1>5, <2>1, <3>2 DEF AlertInv, OpenedOnceToldOnce, ToldOnce
  <2>2. CASE i = n
    BY <1>4, <1>5, <1>7, <1>9, <2>2 DEF BusyWith
  <2>. QED
    BY <1>5, <2>1, <2>2
<1>. QED
  BY <1>5, <1>7, <1>8, <1>9, <1>10, <1>11, <1>12 DEF AlertInv, OpenedOnceToldOnce

\* Telling one more.
LEMMA NotifyStep == ASSUME AlertInv, NEW c \in Collector, NotifyTarget(c) PROVE AlertInv'
<1>. DEFINE k == collectors[c]
            f == k.found
            t == CHOOSE t \in k.targets : TRUE
            told == incidents[f].told
            new == IF k.targets = {t} THEN NextItem(c) ELSE [k EXCEPT !.targets = k.targets \ {t}]
<1>1. /\ Shaped(k) /\ MemoryInv(c) /\ k.at = "telling" /\ TodoOK(k.todo) /\ StillToTell(c)
      /\ f \in DOMAIN incidents /\ incidents[f].opener = c
  BY DEF AlertInv, NotifyTarget, MemoryInv, Walking, Telling
<1>2. t \in k.targets /\ t \in Target
  BY <1>1 DEF StillToTell
<1>3. incidents[f] \in Incident /\ told \in Seq(Target)
  BY <1>1, IncidentAt DEF Incident, IncidentRow
<1>4. /\ incidents' = [incidents EXCEPT ![f].told = Append(told, t)]
      /\ collectors' = [collectors EXCEPT ![c] = new]
  BY DEF NotifyTarget
<1>. HIDE DEF t, new
<1>5. /\ Append(told, t) \in Seq(Target) /\ Len(told) \in Nat /\ DOMAIN told = 1..Len(told)
      /\ DOMAIN Append(told, t) = 1..(Len(told) + 1)
      /\ \A m \in DOMAIN told : Append(told, t)[m] = told[m]
      /\ Append(told, t)[Len(told) + 1] = t
  <2>. HIDE DEF told
  <2>1. Append(told, t) \in Seq(Target) /\ Len(Append(told, t)) = Len(told) + 1
    BY <1>2, <1>3
  <2>2. /\ Len(told) \in Nat /\ DOMAIN told = 1..Len(told)
        /\ DOMAIN Append(told, t) = 1..Len(Append(told, t))
    BY <1>3, <2>1, LenProperties
  <2>. QED
    BY <1>2, <1>3, <2>1, <2>2
<1>6. /\ incidents' \in Seq(Incident) /\ DOMAIN incidents' = DOMAIN incidents
      /\ \A i \in DOMAIN incidents : i # f => incidents'[i] = incidents[i]
      /\ incidents'[f] = [incidents[f] EXCEPT !.told = Append(told, t)]
  <2>1. [incidents[f] EXCEPT !.told = Append(told, t)] \in Incident
    BY <1>3, <1>5 DEF Incident, IncidentRow
  <2>2. incidents' = [incidents EXCEPT ![f] = [incidents[f] EXCEPT !.told = Append(told, t)]]
    BY <1>4
  <2>. QED
    BY <1>1, <2>1, <2>2, ExceptSeq, LenProperties DEF AlertInv
<1>7. /\ incidents'[f].told = Append(told, t) /\ incidents'[f].opener = c
      /\ incidents'[f].rule = incidents[f].rule /\ incidents'[f].subject = incidents[f].subject
      /\ incidents'[f].status = incidents[f].status /\ incidents'[f].resolved = incidents[f].resolved
  BY <1>1, <1>3, <1>6 DEF Incident, IncidentRow
<1>8. Later({c})
  BY <1>1, <1>6, <1>7 DEF Later, Open
<1>9. /\ DOMAIN collectors' = Collector /\ collectors'[c] = new
      /\ \A d \in Collector \ {c} : collectors'[d] = collectors[d]
  BY <1>4 DEF AlertInv
<1>10. \A d \in Collector \ {c} : Shaped(collectors'[d]) /\ MemoryInv(d)'
  BY <1>8, <1>9, MemoryKept
<1>11. Shaped(new) /\ MemoryInv(c)'
  <2>1. CASE k.targets = {t}
    <3>1. /\ Shaped(new) /\ new.at \in {"walking", "rest"} /\ new.samples = {}
          /\ new.at = "walking" => TodoOK(new.todo)
      BY <1>1, <2>1, NextItemFits DEF new, Walking
    <3>. QED
      BY <1>9, <3>1 DEF MemoryInv, Walking, Telling, TodoOK
  <2>2. CASE k.targets # {t}
    <3>1. new = [at |-> k.at, samples |-> k.samples, todo |-> k.todo, found |-> f,
                 targets |-> k.targets \ {t}]
      BY <1>1, <2>2 DEF Shaped, new
    <3>2. Shaped(new) /\ new.at = "telling" /\ new.samples = k.samples /\ new.todo = k.todo
          /\ new.found = f /\ new.targets = k.targets \ {t}
      BY <1>1, <3>1 DEF Shaped
    <3>3. k.targets \subseteq Channel
      BY <1>1, <1>2, <2>2 DEF StillToTell
    <3>4. \A m \in DOMAIN told : told[m] \notin k.targets /\ told[m] \in Channel
      BY <1>1, <1>5 DEF StillToTell
    <3>5. \A m \in DOMAIN Append(told, t) :
             Append(told, t)[m] \notin k.targets \ {t} /\ Append(told, t)[m] \in Channel
      BY <1>2, <1>5, <3>3, <3>4
    <3>6. StillToTell(c)'
      BY <1>2, <1>7, <1>9, <2>2, <3>2, <3>3, <3>5 DEF StillToTell, Target
    <3>7. MemoryInv(c)'
      BY <1>1, <1>6, <1>7, <1>9, <3>2, <3>6 DEF MemoryInv, Walking, Telling, TodoOK
    <3>. QED
      BY <3>2, <3>7
  <2>. QED
    BY <2>1, <2>2
<1>12. DuplicatesNeedTwoCollectors'
  BY <1>6, <1>8, NoNewDuplicates
<1>13. ToldOnce'
  <2>. SUFFICES ASSUME NEW i \in DOMAIN incidents
                PROVE LET now == incidents'[i].told IN
                      /\ \A m, l \in DOMAIN now : m # l => now[m] # now[l] /\ now[m] \in Channel
                      /\ now = <<>> => \/ BusyWith(i)' \/ incidents'[i].opener \notin Notifying
                                       \/ incidents'[i].cut
    BY <1>6 DEF ToldOnce
  <2>1. CASE i # f
    <3>1. incidents[i].opener \in Collector
      BY IncidentAt DEF Incident, IncidentRow
    <3>2. BusyWith(i) => BusyWith(i)'
      BY <1>6, <1>9, <2>1, <3>1 DEF BusyWith, Telling
    <3>. QED
      BY <1>6, <2>1, <3>2 DEF AlertInv, OpenedOnceToldOnce, ToldOnce
  <2>2. CASE i = f
    <3>1. \A m, l \in DOMAIN told : m # l => told[m] # told[l] /\ told[m] \in Channel
      BY <1>1 DEF AlertInv, OpenedOnceToldOnce, ToldOnce
    <3>2. \A m \in DOMAIN told : told[m] # t /\ told[m] \in Channel /\ t \in Channel
      BY <1>1, <1>2, <1>5 DEF StillToTell
    <3>3. Append(told, t) # <<>>
      BY <1>5, EmptySeq
    <3>. HIDE DEF told
    <3>4. \A m, l \in DOMAIN Append(told, t) :
             m # l => /\ Append(told, t)[m] # Append(told, t)[l]
                      /\ Append(told, t)[m] \in Channel
      BY <1>5, <3>1, <3>2
    <3>. QED
      BY <1>7, <2>2, <3>3, <3>4
  <2>. QED
    BY <2>1, <2>2
<1>. QED
  BY <1>6, <1>9, <1>10, <1>11, <1>12, <1>13 DEF AlertInv, OpenedOnceToldOnce

LEMMA ResolveStep == ASSUME AlertInv, NEW c \in Collector, ResolveCleared(c) PROVE AlertInv'
<1>. DEFINE cleared == IncidentsOf(Item(c)[1], Item(c)[2])
            marked(i) == IF i \in cleared
                         THEN [incidents[i] EXCEPT !.status = "resolved", !.resolved = TRUE]
                         ELSE incidents[i]
            new == NextItem(c)
<1>1. /\ incidents' = [i \in DOMAIN incidents |-> marked(i)]
      /\ collectors' = [collectors EXCEPT ![c] = new] /\ collectors[c].at = "walking"
  BY DEF ResolveCleared
<1>2. ASSUME NEW i \in DOMAIN incidents
      PROVE  /\ marked(i) \in Incident
             /\ marked(i).rule = incidents[i].rule /\ marked(i).subject = incidents[i].subject
             /\ marked(i).opener = incidents[i].opener /\ marked(i).told = incidents[i].told
             /\ marked(i).cut = incidents[i].cut
             /\ marked(i).status \in Active /\ ~marked(i).resolved => Open(i)
  <2>1. incidents[i] \in Incident
    BY <1>2, IncidentAt
  <2>. QED
    BY <2>1 DEF Incident, IncidentRow, Open, Active
<1>. HIDE DEF marked
<1>3. PICK n \in Nat : DOMAIN incidents = 1..n
  BY LenProperties DEF AlertInv
<1>4. incidents' \in [1..n -> Incident]
  BY <1>1, <1>2, <1>3
<1>5. incidents' \in Seq(Incident) /\ DOMAIN incidents' = DOMAIN incidents
  BY <1>3, <1>4
<1>6. \A i \in DOMAIN incidents : incidents'[i] = marked(i)
  BY <1>1
<1>7. /\ Shaped(new) /\ new.at \in {"walking", "rest"} /\ new.samples = {}
      /\ new.at = "walking" => TodoOK(new.todo)
  BY <1>1, NextItemFits DEF Walking
<1>. HIDE DEF new
<1>8. /\ DOMAIN collectors' = Collector /\ collectors'[c] = new
      /\ \A d \in Collector \ {c} : collectors'[d] = collectors[d]
  BY <1>1 DEF AlertInv
<1>9. Shaped(collectors'[c]) /\ MemoryInv(c)' /\ collectors[c].at \notin Telling
  BY <1>1, <1>7, <1>8 DEF MemoryInv, Walking, Telling, TodoOK
<1>10. \A i \in DOMAIN incidents :
         /\ incidents'[i].rule = incidents[i].rule /\ incidents'[i].subject = incidents[i].subject
         /\ incidents'[i].opener = incidents[i].opener /\ incidents'[i].told = incidents[i].told
         /\ incidents'[i].cut = incidents[i].cut
         /\ Open(i)' => Open(i)
  BY <1>2, <1>6 DEF Open
<1>11. /\ {c} \in SUBSET Collector
       /\ \A d \in {c} : Shaped(collectors'[d]) /\ MemoryInv(d)' /\ collectors[d].at \notin Telling
  BY <1>9
<1>. QED
  BY <1>5, <1>8, <1>10, <1>11, MarkingStep

\* An operator's mark on one incident.
LEMMA OperatorMarks ==
  ASSUME AlertInv, NEW i \in DOMAIN incidents, Acknowledge(i) \/ ResolveByHand(i)
  PROVE  AlertInv'
<1>. DEFINE new == incidents'[i]
<1>1. incidents[i] \in Incident /\ UNCHANGED collectors
  BY IncidentAt DEF Acknowledge, ResolveByHand, Upset
<1>2. PICK n \in Nat : DOMAIN incidents = 1..n /\ n = Len(incidents)
  BY LenProperties DEF AlertInv
<1>3. /\ incidents' \in Seq(Incident) /\ DOMAIN incidents' = DOMAIN incidents
      /\ \A j \in DOMAIN incidents : j # i => incidents'[j] = incidents[j]
      /\ new.rule = incidents[i].rule /\ new.subject = incidents[i].subject
      /\ new.opener = incidents[i].opener /\ new.told = incidents[i].told /\ new.cut = incidents[i].cut
      /\ new.status \in Active /\ ~new.resolved => Open(i)
  <2>1. CASE Acknowledge(i)
    <3>. DEFINE x == [incidents[i] EXCEPT !.status = "acknowledged"]
    <3>1. x \in Incident /\ x.rule = incidents[i].rule /\ x.subject = incidents[i].subject
          /\ x.opener = incidents[i].opener /\ x.told = incidents[i].told /\ x.cut = incidents[i].cut
          /\ x.resolved = incidents[i].resolved
      BY <1>1 DEF Incident, IncidentRow, Active
    <3>2. x.status \in Active /\ ~x.resolved => Open(i)
      BY <1>1, <3>1 DEF Incident, IncidentRow, Open, Active
    <3>3. incidents' = [incidents EXCEPT ![i] = x]
      BY <2>1 DEF Acknowledge
    <3>. HIDE DEF x
    <3>. QED
      BY <1>2, <3>1, <3>2, <3>3, ExceptSeq DEF AlertInv
  <2>2. CASE ResolveByHand(i)
    <3>. DEFINE x == [incidents[i] EXCEPT !.status = "resolved", !.resolved = TRUE]
    <3>1. x \in Incident /\ x.rule = incidents[i].rule /\ x.subject = incidents[i].subject
          /\ x.opener = incidents[i].opener /\ x.told = incidents[i].told /\ x.cut = incidents[i].cut
          /\ x.status \notin Active
      BY <1>1 DEF Incident, IncidentRow, Active
    <3>2. incidents' = [incidents EXCEPT ![i] = x]
      BY <2>2 DEF ResolveByHand
    <3>. HIDE DEF x
    <3>. QED
      BY <1>2, <3>1, <3>2, ExceptSeq DEF AlertInv
  <2>. QED
    BY <2>1, <2>2
<1>4. \A j \in DOMAIN incidents :
        /\ incidents'[j].rule = incidents[j].rule /\ incidents'[j].subject = incidents[j].subject
        /\ incidents'[j].opener = incidents[j].opener /\ incidents'[j].told = incidents[j].told
        /\ incidents'[j].cut = incidents[j].cut
        /\ Open(j)' => Open(j)
  BY <1>3 DEF Open
<1>5. /\ {} \in SUBSET Collector /\ DOMAIN collectors' = Collector
      /\ \A d \in Collector \ {} : collectors'[d] = collectors[d]
      /\ \A d \in {} : Shaped(collectors'[d]) /\ MemoryInv(d)' /\ collectors[d].at \notin Telling
  BY <1>1 DEF AlertInv
<1>. QED
  BY <1>3, <1>4, <1>5, MarkingStep

\* An error forgets what the collector had in hand and whom it had to tell.
LEMMA FailingStep == ASSUME AlertInv, NEW c \in Collector, IterationFails(c) PROVE AlertInv'
<1>. DEFINE k == collectors[c]
            f == k.found
<1>1. /\ MemoryInv(c) /\ collectors' = [collectors EXCEPT ![c] = Resting]
      /\ k.at \in Telling => f \in DOMAIN incidents /\ incidents[f].opener = c
  BY DEF AlertInv, IterationFails, MemoryInv
<1>2. /\ incidents' \in Seq(Incident) /\ DOMAIN incidents' = DOMAIN incidents
      /\ \A i \in DOMAIN incidents :
            /\ incidents'[i].rule = incidents[i].rule /\ incidents'[i].subject = incidents[i].subject
            /\ incidents'[i].opener = incidents[i].opener /\ incidents'[i].told = incidents[i].told
            /\ incidents'[i].status = incidents[i].status
            /\ incidents'[i].resolved = incidents[i].resolved
            /\ incidents[i].cut => incidents'[i].cut
            /\ k.at \in Telling /\ i = f => incidents'[i].cut
  <2>1. CASE k.at \in Telling
    <3>. DEFINE x == [incidents[f] EXCEPT !.cut = TRUE]
    <3>1. incidents[f] \in Incident
      BY <1>1, <2>1, IncidentAt
    <3>2. /\ x \in Incident /\ x.rule = incidents[f].rule /\ x.subject = incidents[f].subject
          /\ x.opener = incidents[f].opener /\ x.told = incidents[f].told
          /\ x.status = incidents[f].status /\ x.resolved = incidents[f].resolved /\ x.cut = TRUE
      BY <3>1 DEF Incident, IncidentRow
    <3>3. incidents' = [incidents EXCEPT ![f] = x]
      BY <2>1 DEF IterationFails, Telling
    <3>4. \A i \in DOMAIN incidents : incidents[i].cut \in BOOLEAN
      BY IncidentAt DEF Incident, IncidentRow
    <3>. HIDE DEF x
    <3>5. incidents' \in Seq(Incident) /\ DOMAIN incidents' = DOMAIN incidents
          /\ \A i \in DOMAIN incidents : incidents'[i] = IF i = f THEN x ELSE incidents[i]
      BY <1>1, <2>1, <3>2, <3>3, ExceptSeq, LenProperties DEF AlertInv
    <3>. QED
      BY <2>1, <3>2, <3>4, <3>5
  <2>2. CASE k.at \notin Telling
    <3>1. UNCHANGED incidents
      BY <2>2 DEF IterationFails, Telling
    <3>2. \A i \in DOMAIN incidents : incidents[i].cut \in BOOLEAN
      BY IncidentAt DEF Incident, IncidentRow
    <3>. QED
      BY <2>2, <3>1, <3>2 DEF AlertInv
  <2>. QED
    BY <2>1, <2>2
<1>3. Later({c})
  BY <1>2 DEF Later, Open
<1>4. /\ DOMAIN collectors' = Collector /\ collectors'[c] = Resting
      /\ \A d \in Collector \ {c} : collectors'[d] = collectors[d]
  BY <1>1 DEF AlertInv
<1>5. \A d \in Collector \ {c} : Shaped(collectors'[d]) /\ MemoryInv(d)'
  BY <1>3, <1>4, MemoryKept
<1>6. Shaped(collectors'[c]) /\ MemoryInv(c)'
  BY <1>4 DEF Shaped, Resting, MemoryInv, Walking, Telling
<1>7. DuplicatesNeedTwoCollectors'
  BY <1>2, <1>3, NoNewDuplicates
<1>8. ToldOnce'
  <2>. SUFFICES ASSUME NEW i \in DOMAIN incidents
                PROVE LET told == incidents[i].told IN
                      /\ \A m, n \in DOMAIN told : m # n => told[m] # told[n] /\ told[m] \in Channel
                      /\ told = <<>> => \/ BusyWith(i)' \/ incidents[i].opener \notin Notifying
                                        \/ incidents'[i].cut
    BY <1>2 DEF ToldOnce
  <2>1. incidents[i].opener \in Collector
    BY IncidentAt DEF Incident, IncidentRow
  <2>2. BusyWith(i) => BusyWith(i)' \/ incidents'[i].cut
    <3>1. CASE incidents[i].opener = c
      BY <1>2, <3>1 DEF BusyWith, Telling
    <3>2. CASE incidents[i].opener # c
      BY <1>2, <1>4, <2>1, <3>2 DEF BusyWith
    <3>. QED
      BY <3>1, <3>2
  <2>3. incidents[i].cut => incidents'[i].cut
    BY <1>2
  <2>. QED
    BY <2>2, <2>3 DEF AlertInv, OpenedOnceToldOnce, ToldOnce
<1>. QED
  BY <1>2, <1>4, <1>5, <1>6, <1>7, <1>8 DEF AlertInv, OpenedOnceToldOnce

-----------------------------------------------------------------------------
LEMMA AlertInitial == AlertInit => AlertInv
<1>. SUFFICES ASSUME AlertInit PROVE AlertInv
  OBVIOUS
<1>1. incidents = <<>> /\ incidents \in Seq(Incident) /\ DOMAIN incidents = {}
  BY EmptySeq DEF AlertInit
<1>2. DOMAIN collectors = Collector /\ \A c \in Collector : collectors[c] = Resting
  BY DEF AlertInit
<1>3. \A c \in Collector : Shaped(collectors[c]) /\ MemoryInv(c)
  BY <1>2 DEF Shaped, Resting, MemoryInv, Walking, Telling
<1>. QED
  BY <1>1, <1>2, <1>3 DEF AlertInv, OpenedOnceToldOnce, DuplicatesNeedTwoCollectors, ToldOnce

\* What neither a collector nor an incident is part of changes nothing here.
LEMMA ElsewhereStep == ASSUME AlertInv, UNCHANGED <<incidents, collectors>> PROVE AlertInv'
<1>1. \A c \in Collector : Item(c)' = Item(c)
  BY DEF Item
<1>2. \A c \in Collector : Shaped(collectors[c])' /\ MemoryInv(c)'
  BY <1>1 DEF AlertInv, MemoryInv, NoneOpen, Open, StillToTell
<1>3. OpenedOnceToldOnce'
  BY DEF AlertInv, OpenedOnceToldOnce, DuplicatesNeedTwoCollectors, ToldOnce, BusyWith
<1>. QED
  BY <1>2, <1>3 DEF AlertInv

LEMMA AlertStep == ASSUME AlertInv, AlertNext PROVE AlertInv'
<1>1. ASSUME NEW c \in Collector, Evaluate(c) PROVE AlertInv'
  BY <1>1, QuietSteps, CreateStep, NotifyStep, ResolveStep DEF Evaluate
<1>2. ASSUME NEW c \in Collector, IterationFails(c) PROVE AlertInv'
  BY <1>2, FailingStep
<1>3. ASSUME NEW i \in DOMAIN incidents, Acknowledge(i) \/ ResolveByHand(i) PROVE AlertInv'
  BY <1>3, OperatorMarks
<1>4. ASSUME NEW q \in QueueRow, MoveQueue(q) PROVE AlertInv'
  BY <1>4, ElsewhereStep DEF MoveQueue
<1>5. ASSUME NEW r \in Rule, EditRule(r) PROVE AlertInv'
  BY <1>5, ElsewhereStep DEF EditRule, Upset
<1>6. ASSUME NEW ch \in Channel, CreateChannel(ch) \/ UpdateChannel(ch) \/ DeleteChannel(ch) PROVE AlertInv'
  BY <1>6, ElsewhereStep DEF CreateChannel, UpdateChannel, DeleteChannel, Upset
<1>7. CASE SeedRules
  BY <1>7, ElsewhereStep DEF SeedRules
<1>. QED
  BY <1>1, <1>2, <1>3, <1>4, <1>5, <1>6, <1>7 DEF AlertNext

\* Every collector's memory agrees with the incidents it opened.
THEOREM AlertInvariance == AlertSpec => []AlertInv
<1>1. AlertInv /\ [AlertNext]_alertVars => AlertInv'
  BY AlertStep, ElsewhereStep DEF alertVars
<1>. QED
  BY AlertInitial, <1>1, PTL DEF AlertSpec

\* However many collectors overlap, whatever operators mark and wherever an
\* iteration fails: one collector never has two incidents open for one rule
\* and subject, and nobody is told twice of one.
THEOREM OneCollectorOpensOnce == AlertSpec => []OpenedOnceToldOnce
<1>1. AlertInv => OpenedOnceToldOnce
  BY DEF AlertInv
<1>. QED
  BY AlertInvariance, <1>1, PTL
===============================================================================
