---------------------------- MODULE PlatformProofs ----------------------------
(*****************************************************************************)
(* Theorems about the components side by side, as MCPlatform runs them: the  *)
(* inductive invariants of the other proof modules, each with what it lacks  *)
(* of the types of its component, hold together, whichever component moves.  *)
(*****************************************************************************)
EXTENDS MCPlatform, PipelineProofs, ServerProofs, RecordsProofs

(*****************************************************************************)
(* Executor                                                                  *)
(*****************************************************************************)

\* What a repair remembers of the runs before it.
RunTyped ==
  /\ RunInv
  /\ repairs \in 0..MaxRepairs /\ banked \subseteq Task /\ lapses \subseteq SUBSET Task

\* The first run repairs nothing.
LEMMA RunTypedBegins == ExecutorInit => RunTyped
BY RunBegins, ExecutorAssumption DEF ExecutorInit, RunTyped

\* Only a repair adds to it.
LEMMA RunTypedStep == RunTyped /\ [ExecutorNext]_executorVars => RunTyped'
<1>. SUFFICES ASSUME RunTyped, [ExecutorNext]_executorVars PROVE RunTyped'
  OBVIOUS
<1>1. RunInv'
  BY RunInvStep DEF RunTyped
<1>2. CASE Repair
  <2>1. /\ repairs < MaxRepairs /\ repairs' = repairs + 1
        /\ banked' = banked \cup {t \in Task : results[t] = "ok"}
        /\ lapses' = lapses \cup {{t \in Task : results[t] = "bad"}}
    BY <1>2 DEF Repair
  <2>2. repairs' \in 0..MaxRepairs
    BY <2>1, ExecutorAssumption DEF RunTyped
  <2>. QED
    BY <1>1, <2>1, <2>2 DEF RunTyped
<1>3. CASE ~Repair
  <2>1. UNCHANGED lineageVars
    BY <1>3 DEF ExecutorNext, ExecutorStep, TaskStep, PlanRun, SubmitWave, EndInFailure, EndInSuccess,
                StartAttempt, RetryAttempt, PluginEnds, TimeOut, LateEnds, RaiseEarly, RaiseOut, Collect,
                executorVars, lineageVars
  <2>. QED
    BY <1>1, <2>1 DEF RunTyped, lineageVars
<1>. QED
  BY <1>2, <1>3

\* With the invariant of a run these are the types of the executor.
LEMMA RunTypedIs == RunTyped => ExecutorTypeOK
<1>. SUFFICES ASSUME RunTyped PROVE ExecutorTypeOK
  OBVIOUS
<1>1. work \in [Task -> [at : {"waiting", "queued", "executing", "late", "backoff", "returned", "collected"},
                         tries : Nat, threads : Nat, good : BOOLEAN]]
  <2>1. Work \subseteq [at : {"waiting", "queued", "executing", "late", "backoff", "returned", "collected"},
                        tries : Nat, threads : Nat, good : BOOLEAN]
    BY DEF Work, Phase
  <2>2. work \in [Task -> Work]
    BY DEF RunTyped, RunInv, AttemptInv
  <2>. QED
    BY <2>1, <2>2
<1>2. \A k \in DOMAIN waves : waves[k] \in SUBSET Task
  BY DEF RunTyped, RunInv, PlanInv, Ordered
<1>. QED
  BY <1>1, <1>2 DEF RunTyped, RunInv, RunTypes, ExecutorTypeOK

(*****************************************************************************)
(* Backfill                                                                  *)
(*****************************************************************************)

\* Requests are numbered as they come, and what is queued is of one of them.
BackTyped ==
  /\ BackInv
  /\ requests \in 0..MaxRequests
  /\ \A o \in Operator : request[o].stage = "planned" => request[o].id \in 1..requests
  /\ \A q \in queued : q.by \in 1..requests

\* Nobody has asked for anything at first.
LEMMA BackTypedBegins == BackfillInit => BackTyped
<1>. SUFFICES ASSUME BackfillInit PROVE BackTyped
  OBVIOUS
<1>1. \A o \in Operator : request[o].stage = "none"
  BY DEF BackfillInit, NoRequest
<1>. QED
  BY <1>1, BackBegins, BackfillAssumption DEF BackfillInit, BackTyped

\* A new request has the next number; nothing is queued for another.
LEMMA BackTypedStep == BackTyped /\ [BackfillNext]_backfillVars => BackTyped'
<1>. SUFFICES ASSUME BackTyped, [BackfillNext]_backfillVars PROVE BackTyped'
  OBVIOUS
<1>1. BackInv'
  BY BackStep DEF BackTyped
<1>2. /\ requests \in 0..MaxRequests /\ requests \in Nat /\ MaxRequests \in Nat
      /\ request \in [Operator -> Request]
  BY BackfillAssumption DEF BackTyped, BackInv
<1>3. CASE UNCHANGED backfillVars
  BY <1>1, <1>3 DEF BackTyped, backfillVars
<1>4. ASSUME NEW o \in Operator, NEW r, request' = [request EXCEPT ![o] = r],
             requests' \in requests..MaxRequests,
             r.stage = "planned" => r.id \in 1..requests',
             \A q \in queued' : q \in queued \/ q.by \in 1..requests
      PROVE  BackTyped'
  <2>1. requests' \in 0..MaxRequests /\ \A n \in 1..requests : n \in 1..requests'
    BY <1>2, <1>4
  <2>2. \A p \in Operator : request'[p] = IF p = o THEN r ELSE request[p]
    BY <1>2, <1>4
  <2>3. \A p \in Operator : request'[p].stage = "planned" => request'[p].id \in 1..requests'
    BY <1>4, <2>1, <2>2 DEF BackTyped
  <2>4. \A q \in queued' : q.by \in 1..requests'
    BY <1>4, <2>1 DEF BackTyped
  <2>. QED
    BY <1>1, <2>1, <2>3, <2>4 DEF BackTyped
<1>5. requests \in requests..MaxRequests /\ (requests < MaxRequests => requests + 1 \in requests..MaxRequests)
  BY <1>2
<1>6. ASSUME NEW o \in Operator, PlanBackfill(o) PROVE BackTyped'
  <2>1. requests < MaxRequests /\ requests' = requests + 1 /\ queued' = queued
    BY <1>6 DEF PlanBackfill
  <2>. DEFINE refused(from, to) == [NoRequest EXCEPT !.stage = "refused", !.from = from, !.to = to]
              planned(from, to, force, todo, omitted) ==
                [stage |-> "planned", id |-> requests + 1, from |-> from, to |-> to,
                 force |-> force, todo |-> todo, skipped |-> omitted]
  <2>3. \E from, to, force, todo, omitted :
           \/ request' = [request EXCEPT ![o] = refused(from, to)]
           \/ request' = [request EXCEPT ![o] = planned(from, to, force, todo, omitted)]
    <3>1. PICK from \in Instants, to \in Instants, force \in BOOLEAN :
            LET windows == IntervalsBetween(fires, from, to, MaxRuns)
                due(w)  == force \/ ~Covered(w)
            IN  request' = [request EXCEPT ![o] =
                  IF Refused(fires, from, to, MaxRuns) THEN refused(from, to)
                  ELSE planned(from, to, force, Filtered(windows, {w \in Range(windows) : due(w)}),
                               {w \in Range(windows) : ~due(w)})]
      BY <1>6, Zenon DEF PlanBackfill
    <3>. HIDE DEF refused, planned
    <3>. QED
      BY <3>1
  <2>4. \A from, to : refused(from, to).stage = "refused"
    BY DEF NoRequest
  <2>5. \A from, to, force, todo, omitted : planned(from, to, force, todo, omitted).id = requests + 1
    OBVIOUS
  <2>. HIDE DEF refused, planned
  <2>2. requests + 1 \in 1..requests'
    BY <1>2, <2>1
  <2>. QED
    BY <1>4, <1>5, <2>1, <2>2, <2>3, <2>4, <2>5
<1>7. ASSUME NEW o \in Operator, SubmitNext(o) PROVE BackTyped'
  <2>. DEFINE raised == [request[o] EXCEPT !.stage = "raised"]
              later == [request[o] EXCEPT !.todo = Tail(@)]
  <2>1. request[o] \in Request /\ request[o].id \in 1..requests /\ requests' = requests
    BY <1>2, <1>7 DEF SubmitNext, BackTyped
  <2>2. raised.stage = "raised" /\ later.id = request[o].id
    BY <2>1 DEF Request
  <2>3. \/ request' = [request EXCEPT ![o] = raised] /\ queued' = queued
        \/ /\ request' = [request EXCEPT ![o] = later]
           /\ \A q \in queued' : q \in queued \/ q.by = request[o].id
    BY <1>7 DEF SubmitNext
  <2>. HIDE DEF raised, later
  <2>. QED
    BY <1>4, <1>5, <2>1, <2>2, <2>3
<1>8. ASSUME NEW o \in Operator, FinishSubmit(o) \/ Abandon(o) PROVE BackTyped'
  <2>. DEFINE over(s) == [request[o] EXCEPT !.stage = s]
  <2>1. over("submitted").stage = "submitted" /\ over("abandoned").stage = "abandoned"
    BY <1>2 DEF Request
  <2>2. /\ requests' = requests /\ queued' = queued
        /\ \/ request' = [request EXCEPT ![o] = over("submitted")]
           \/ request' = [request EXCEPT ![o] = over("abandoned")]
    BY <1>8 DEF FinishSubmit, Abandon
  <2>. HIDE DEF over
  <2>. QED
    BY <1>4, <1>5, <2>1, <2>2
<1>. QED
  BY <1>3, <1>6, <1>7, <1>8 DEF BackfillNext, OperatorStep

\* With the invariant of the windows these are the types of a backfill.
LEMMA BackTypedIs == BackTyped => BackfillTypeOK
BY DEF BackTyped, BackInv, Gap, Request, BackfillTypeOK

(*****************************************************************************)
(* Triggers                                                                  *)
(*****************************************************************************)

\* What a sensor's thread has read, and what was fired for, the file has been.
RegistryTyped ==
  /\ RegistryInv
  /\ awake \in BOOLEAN /\ starts \in 1..MaxStarts /\ noticed \subseteq Notice
  /\ mtime \in [Sensor -> 0..MaxChanges] /\ handled \in [Sensor -> 0..MaxChanges]
  /\ \A s \in Sensor : poller[s].read \in 0..MaxChanges

\* A file may be there when the process starts.
LEMMA RegistryTypedBegins == TriggerInit => RegistryTyped
<1>. SUFFICES ASSUME TriggerInit PROVE RegistryTyped
  OBVIOUS
<1>1. RegistryInv
  BY RegistryBegins
<1>2. MaxChanges \in Nat \ {0} /\ MaxStarts \in Nat \ {0}
  BY TriggerAssumption
<1>3. awake \in BOOLEAN /\ starts \in 1..MaxStarts /\ noticed \subseteq Notice
  BY <1>2 DEF TriggerInit
<1>4. mtime \in [Sensor -> 0..MaxChanges] /\ handled \in [Sensor -> 0..MaxChanges]
  BY <1>2 DEF TriggerInit
<1>5. \A s \in Sensor : poller[s].read \in 0..MaxChanges
  BY <1>2 DEF TriggerInit, NoThread
<1>. QED
  BY <1>1, <1>3, <1>4, <1>5 DEF RegistryTyped

\* A thread reads what the file is at, or forgets.
LEMMA ThreadTyped ==
  ASSUME RegistryTyped, NEW s \in Sensor, SensorStep(s)
  PROVE  /\ mtime' = mtime /\ handled' \in [Sensor -> 0..MaxChanges]
         /\ \A x \in Sensor : poller'[x].read \in 0..MaxChanges
<1>. DEFINE v == poller[s]
<1>0. /\ v \in Poller /\ v.read \in 0..MaxChanges /\ mtime[s] \in 0..MaxChanges /\ 0 \in 0..MaxChanges
      /\ poller \in [Sensor -> Poller]
  BY TriggerAssumption DEF RegistryTyped, RegistryInv
<1>1. mtime' = mtime
  BY DEF SensorStep, PollFile, FireSensor, SensorReturns, StopSensor, fileVars
<1>2. handled' \in [Sensor -> 0..MaxChanges]
  BY <1>0 DEF RegistryTyped, SensorStep, PollFile, FireSensor, SensorReturns, StopSensor, fileVars
<1>. SUFFICES \A x \in Sensor : poller'[x].read \in 0..MaxChanges
  BY <1>1, <1>2
<1>3. ASSUME NEW w, w.read \in 0..MaxChanges, poller' = [poller EXCEPT ![s] = w]
      PROVE  \A x \in Sensor : poller'[x].read \in 0..MaxChanges
  BY <1>0, <1>3 DEF RegistryTyped
<1>4. CASE PollFile(s)
  <2>1. poller' = [poller EXCEPT ![s] = Polled(v, mtime[s])]
    BY <1>4 DEF PollFile
  <2>. DEFINE x == [v EXCEPT !.at = "changed"]
              y == [x EXCEPT !.read = mtime[s]]
              z == [v EXCEPT !.last = IF mtime[s] # 0 THEN mtime[s] ELSE v.last]
  <2>2. x \in Poller /\ z.read = v.read
    BY <1>0 DEF Poller
  <2>3. y.read = mtime[s]
    BY <2>2 DEF Poller
  <2>4. Polled(v, mtime[s]) = y \/ Polled(v, mtime[s]) = z
    BY DEF Polled
  <2>. HIDE DEF x, y, z
  <2>5. Polled(v, mtime[s]).read \in 0..MaxChanges
    BY <1>0, <2>2, <2>3, <2>4
  <2>. QED
    BY <1>3, <2>1, <2>5
<1>5. CASE FireSensor(s)
  <2>. DEFINE x == [v EXCEPT !.at = "firing"]
  <2>1. x.read = v.read
    BY <1>0 DEF Poller
  <2>2. poller' = [poller EXCEPT ![s] = x] \/ poller' = [poller EXCEPT ![s] = NoThread]
    BY <1>5 DEF FireSensor
  <2>3. NoThread.read = 0
    BY DEF NoThread
  <2>. HIDE DEF x
  <2>. QED
    BY <1>0, <1>3, <2>1, <2>2, <2>3
<1>6. CASE SensorReturns(s)
  <2>. DEFINE x == [at |-> "poll", last |-> v.read, read |-> 0]
  <2>1. poller' = [poller EXCEPT ![s] = x] /\ x.read = 0
    BY <1>6 DEF SensorReturns
  <2>. HIDE DEF x
  <2>. QED
    BY <1>0, <1>3, <2>1
<1>7. CASE StopSensor(s)
  <2>1. poller' = [poller EXCEPT ![s] = NoThread] /\ NoThread.read = 0
    BY <1>7 DEF StopSensor, NoThread
  <2>. QED
    BY <1>0, <1>3, <2>1
<1>. QED
  BY <1>4, <1>5, <1>6, <1>7 DEF SensorStep

\* Nobody else reads a file or fires for one.
LEMMA RegistryTypedStep == RegistryTyped /\ [TriggerNext]_triggerVars => RegistryTyped'
<1>. SUFFICES ASSUME RegistryTyped, [TriggerNext]_triggerVars PROVE RegistryTyped'
  OBVIOUS
<1>0. /\ RegistryInv' /\ poller \in [Sensor -> Poller]
      /\ MaxChanges \in Nat /\ MaxStarts \in Nat /\ 0 \in 0..MaxChanges
      /\ NoThread.read = 0 /\ FreshThread.read = 0
  BY RegistryInvStep, TriggerAssumption DEF RegistryTyped, RegistryInv, NoThread, FreshThread
<1>1. ASSUME UNCHANGED <<awake, starts, mtime, handled, poller>>, noticed' \subseteq Notice
      PROVE  RegistryTyped'
  BY <1>0, <1>1 DEF RegistryTyped
<1>2. CASE UNCHANGED triggerVars
  BY <1>1, <1>2 DEF triggerVars, RegistryTyped
<1>3. CASE KillProcess
  <2>1. /\ awake' = FALSE /\ poller' = [s \in Sensor |-> NoThread]
        /\ UNCHANGED <<starts, mtime, handled, noticed>>
    BY <1>3 DEF KillProcess, fileVars
  <2>2. \A s \in Sensor : poller'[s].read \in 0..MaxChanges
    BY <1>0, <2>1
  <2>. QED
    BY <1>0, <2>1, <2>2 DEF RegistryTyped
<1>4. ASSUME NEW S, Registers(S)
      PROVE  \A s \in Sensor : poller'[s].read \in 0..MaxChanges
  BY <1>0, <1>4 DEF Registers, RegistryTyped
<1>5. CASE StartProcess
  <2>1. /\ awake' = TRUE /\ starts < MaxStarts /\ starts' = starts + 1
        /\ UNCHANGED <<mtime, handled, noticed>>
        /\ \A s \in Sensor : poller'[s].read \in 0..MaxChanges
    BY <1>4, <1>5 DEF StartProcess, fileVars, noticeVars
  <2>2. starts' \in 1..MaxStarts
    BY <1>0, <2>1 DEF RegistryTyped
  <2>. QED
    BY <1>0, <2>1, <2>2 DEF RegistryTyped
<1>6. ASSUME NEW t \in Trigger, SaveTrigger(t) \/ Unregister(t) \/ TriggerHandler(t) PROVE RegistryTyped'
  <2>1. CASE RegisterTrigger(t)
    <3>1. \A s \in Sensor : poller'[s].read \in 0..MaxChanges
      BY <1>4, <2>1 DEF RegisterTrigger
    <3>2. UNCHANGED <<starts, mtime, handled, noticed>> /\ awake' = awake
      BY <2>1 DEF RegisterTrigger, fileVars, noticeVars
    <3>. QED
      BY <1>0, <3>1, <3>2 DEF RegistryTyped
  <2>2. CASE SaveTrigger(t) \/ Unregister(t) \/ JoinThread(t) \/ DeleteRow(t) \/ DeleteFails(t)
    <3>1. UNCHANGED <<awake, starts, mtime, handled, poller, noticed>>
      BY <2>2 DEF SaveTrigger, Unregister, JoinThread, DeleteRow, DeleteFails, fileVars, noticeVars, memoryVars
    <3>. QED
      BY <1>1, <3>1 DEF RegistryTyped
  <2>. QED
    BY <1>6, <2>1, <2>2 DEF TriggerHandler
<1>7. ASSUME NEW s \in Sensor, ModifyFile(s) PROVE RegistryTyped'
  <2>1. /\ mtime[s] \in 0..MaxChanges /\ mtime[s] < MaxChanges /\ mtime' = [mtime EXCEPT ![s] = @ + 1]
        /\ UNCHANGED <<awake, starts, handled, poller, noticed>>
    BY <1>7 DEF ModifyFile, memoryVars, noticeVars, RegistryTyped
  <2>2. mtime[s] + 1 \in 0..MaxChanges
    BY <1>0, <2>1
  <2>3. mtime' \in [Sensor -> 0..MaxChanges]
    BY <2>1, <2>2 DEF RegistryTyped
  <2>. QED
    BY <1>0, <2>1, <2>3 DEF RegistryTyped
<1>8. ASSUME NEW s \in Sensor, SensorStep(s) PROVE RegistryTyped'
  <2>1. UNCHANGED <<awake, starts, noticed>>
    BY <1>8 DEF SensorStep, PollFile, FireSensor, SensorReturns, StopSensor, noticeVars
  <2>. QED
    BY <1>0, <1>8, <2>1, ThreadTyped DEF RegistryTyped
<1>9. ASSUME NEW n \in Notice, NotifyCompleted(n) \/ CallBack(n) PROVE RegistryTyped'
  <2>1. UNCHANGED <<awake, starts, mtime, handled, poller>> /\ noticed' \in {noticed, noticed \cup {n}}
    BY <1>9 DEF NotifyCompleted, CallBack, memoryVars, fileVars
  <2>. QED
    BY <1>1, <2>1 DEF RegistryTyped
<1>. QED
  BY <1>2, <1>3, <1>5, <1>6, <1>7, <1>8, <1>9 DEF TriggerNext

\* With the invariant of the registry these are the types of the triggers.
LEMMA RegistryTypedIs == RegistryTyped => TriggerTypeOK
<1>. SUFFICES ASSUME RegistryTyped PROVE TriggerTypeOK
  OBVIOUS
<1>1. handler \in [Trigger -> {"new", "saved", "active", "stopped", "joined", "removed", "unsure"}]
  BY DEF RegistryTyped, RegistryInv, Stage
<1>2. Range(callbacks) \subseteq Completion
  <2>1. callbacks \in Seq(Completion)
    BY DEF RegistryTyped, RegistryInv
  <2>2. \A i \in DOMAIN callbacks : callbacks[i] \in Completion
    BY <2>1, LenProperties, ElementOfSeq
  <2>. QED
    BY <2>2 DEF Range
<1>3. \A s \in Sensor : poller[s].at \in {"ended", "poll", "changed", "firing"}
  BY DEF RegistryTyped, RegistryInv, Poller
<1>4. {table, skipped} \subseteq SUBSET Trigger /\ running \subseteq Sensor
  BY DEF RegistryTyped, RegistryInv
<1>. QED
  BY <1>1, <1>2, <1>3, <1>4 DEF RegistryTyped, TriggerTypeOK

(*****************************************************************************)
(* Schedules                                                                 *)
(*****************************************************************************)

\* A process that is down has a start left, and failures are counted.
ScheduleTyped ==
  /\ ScheduleInv
  /\ online \in BOOLEAN /\ boots \in 1..MaxBoots /\ (~online => boots < MaxBoots)
  /\ faults \in 0..MaxFaults
  /\ cronRun \in [ConfigFile -> {"none", "started", "completed", "failed", "abandoned"}]

\* The first start has nothing to restore.
LEMMA ScheduleTypedBegins == ScheduleInit => ScheduleTyped
BY InitInv, ScheduleAssumption DEF ScheduleInit, ScheduleTyped

\* Whatever number of writes fail, they are failures within the bound.
LEMMA FaultsCounted ==
  ASSUME faults \in 0..MaxFaults, NEW n \in Nat, Fails(n) PROVE faults' \in 0..MaxFaults
BY ScheduleAssumption DEF Fails

\* Every step keeps the counts within their bounds.
LEMMA ScheduleTypedStep == ScheduleTyped /\ [ScheduleNext]_scheduleVars => ScheduleTyped'
<1>. SUFFICES ASSUME ScheduleTyped, [ScheduleNext]_scheduleVars PROVE ScheduleTyped'
  OBVIOUS
<1>0. /\ ScheduleInv' /\ faults \in 0..MaxFaults /\ MaxFaults \in Nat /\ MaxBoots \in Nat /\ boots \in 1..MaxBoots
      /\ cronRun \in [ConfigFile -> {"none", "started", "completed", "failed", "abandoned"}]
  BY StepInv, ScheduleAssumption DEF ScheduleTyped
<1>1. ASSUME UNCHANGED <<online, boots, cronRun>>, faults' \in 0..MaxFaults PROVE ScheduleTyped'
  BY <1>0, <1>1 DEF ScheduleTyped
<1>2. CASE UNCHANGED scheduleVars
  BY <1>0, <1>1, <1>2 DEF scheduleVars
<1>3. CASE StopScheduler
  BY <1>0, <1>3 DEF StopScheduler, ScheduleTyped
<1>4. CASE StartScheduler
  <2>1. /\ ~online /\ online' = TRUE /\ boots' = boots + 1 /\ UNCHANGED cronRun
        /\ faults' = faults \/ Fails(1)
    BY <1>4 DEF StartScheduler
  <2>2. boots' \in 1..MaxBoots
    BY <1>0, <2>1 DEF ScheduleTyped
  <2>3. faults' \in 0..MaxFaults
    BY <1>0, <2>1, FaultsCounted
  <2>. QED
    BY <1>0, <2>1, <2>2, <2>3 DEF ScheduleTyped
<1>5. ASSUME NEW f \in ConfigFile, NEW c \in Cron, SchedulePipeline(f, c) PROVE ScheduleTyped'
  <2>1. PICK lost \in SUBSET ConfigFile : Fails(Cardinality(lost))
    BY <1>5 DEF SchedulePipeline, Persists
  <2>2. Cardinality(lost) \in Nat
    BY ScheduleAssumption, FS_Subset, FS_CardinalityType
  <2>3. faults' \in 0..MaxFaults
    BY <1>0, <2>1, <2>2, FaultsCounted
  <2>. QED
    BY <1>1, <1>5, <2>3 DEF SchedulePipeline
<1>6. ASSUME NEW f \in ConfigFile, UnschedulePipeline(f) \/ BreakFile(f) \/ MendFile(f) PROVE ScheduleTyped'
  <2>1. UNCHANGED <<online, boots, cronRun>> /\ (faults' = faults \/ Fails(1))
    BY <1>6 DEF UnschedulePipeline, BreakFile, MendFile
  <2>. QED
    BY <1>0, <1>1, <2>1, FaultsCounted
<1>7. ASSUME NEW f \in ConfigFile, RunScheduled(f) \/ EndScheduled(f) PROVE ScheduleTyped'
  <2>1. /\ UNCHANGED <<online, boots, faults>>
        /\ cronRun' \in [ConfigFile -> {"none", "started", "completed", "failed", "abandoned"}]
    BY <1>0, <1>7 DEF RunScheduled, EndScheduled
  <2>. QED
    BY <1>0, <2>1 DEF ScheduleTyped
<1>. QED
  BY <1>2, <1>3, <1>4, <1>5, <1>6, <1>7 DEF ScheduleNext

\* With the invariant of the schedules these are their types.
LEMMA ScheduleTypedIs == ScheduleTyped => ScheduleTypeOK
BY DEF ScheduleTyped, ScheduleInv, Typed, ScheduleTypeOK

(*****************************************************************************)
(* Releases                                                                  *)
(*****************************************************************************)

\* A record names a version there is, and one it was rolled back to.
NamesThere(ds, vs) ==
  \A d \in DOMAIN ds : ds[d].version \in 0..Len(vs) /\ ds[d].restored \in 0..Len(ds)
ReleaseTyped == ReleaseInv /\ NamesThere(deployments, versions)

\* There is no record at first.
LEMMA ReleaseTypedBegins == ReleaseInit => ReleaseTyped
BY RecordsInit DEF ReleaseInit, ReleaseTyped, NamesThere

\* A new record is the last and names a version that is there by then.
LEMMA CreationNames ==
  ASSUME ReleaseTyped, NEW link \in Slot, NEW version \in Nat, NEW content \in Yaml,
         NEW status \in {"deployed", "failed"}, CreateDeployment(link, version, content, status),
         versions' \in Seq(Yaml), Len(versions) <= Len(versions'), version \in 0..Len(versions')
  PROVE  NamesThere(deployments', versions')
<1>. DEFINE n == Len(deployments)
            fresh == [link |-> link, version |-> version, hash |-> content, status |-> status,
                      active |-> status = "deployed", restored |-> 0]
            aside == [d \in DOMAIN deployments |->
                        IF status = "deployed" /\ d \in ActiveIn(link)
                        THEN [deployments[d] EXCEPT !.active = FALSE] ELSE deployments[d]]
<1>1. /\ n \in Nat /\ DOMAIN deployments = 1..n /\ Len(versions) \in Nat /\ Len(versions') \in Nat
      /\ \A d \in 1..n : /\ deployments[d] \in Record /\ deployments[d].version \in 0..Len(versions)
                         /\ deployments[d].restored \in 0..n
  BY DEF ReleaseTyped, ReleaseInv, RecordsTyped, NamesThere
<1>2. ASSUME NEW d \in 1..n
      PROVE  aside[d] \in Record /\ aside[d].version = deployments[d].version /\ aside[d].restored = deployments[d].restored
  <2>. DEFINE off == [deployments[d] EXCEPT !.active = FALSE]
  <2>1. off \in Record /\ off.version = deployments[d].version /\ off.restored = deployments[d].restored
    BY <1>1, <1>2 DEF Record
  <2>2. aside[d] = off \/ aside[d] = deployments[d]
    BY <1>1, <1>2
  <2>. HIDE DEF off, aside
  <2>. QED
    BY <1>1, <2>1, <2>2
<1>3. fresh \in Record /\ fresh.version = version /\ fresh.restored = 0
  BY DEF Record
<1>4. aside \in Seq(Record) /\ Len(aside) = n
  <2>1. DOMAIN aside = 1..n /\ aside = [d \in 1..n |-> aside[d]]
    BY <1>1
  <2>. HIDE DEF aside
  <2>2. aside \in [1..n -> Record]
    BY <1>2, <2>1
  <2>. QED
    BY <1>1, <2>2, FunctionIsSeq
<1>5. deployments' = Append(aside, fresh)
  BY DEF CreateDeployment
<1>. HIDE DEF fresh, aside
<1>6. /\ deployments' \in Seq(Record) /\ DOMAIN deployments' = 1..(n + 1) /\ Len(deployments') = n + 1
      /\ \A d \in 1..n : deployments'[d] = aside[d]
      /\ deployments'[n + 1] = fresh
  BY <1>1, <1>3, <1>4, <1>5, AppendProperties
<1>. HIDE DEF n
<1>7. \A d \in 1..(n + 1) : d = n + 1 \/ d \in 1..n
  BY <1>1
<1>8. /\ \A v \in 0..Len(versions) : v \in 0..Len(versions')
      /\ \A v \in 0..n : v \in 0..(n + 1)
      /\ 0 \in 0..(n + 1)
  BY <1>1
<1>. QED
  BY <1>1, <1>2, <1>3, <1>6, <1>7, <1>8 DEF NamesThere, n

\* What is saved, restored, edited or validated changes no record.
LEMMA RecordsNamed ==
  ASSUME ReleaseTyped, deployments' = deployments, versions' \in Seq(Yaml), Len(versions) <= Len(versions')
  PROVE  NamesThere(deployments', versions')
<1>1. Len(versions) \in Nat /\ Len(versions') \in Nat
  BY DEF ReleaseTyped, ReleaseInv, RecordsTyped
<1>2. \A v \in 0..Len(versions) : v \in 0..Len(versions')
  BY <1>1
<1>. QED
  BY <1>2 DEF ReleaseTyped, NamesThere

\* A rollback names the record that takes over.
LEMMA RollbackNames ==
  ASSUME ReleaseTyped, NEW r \in DOMAIN deployments, RollBack(r)
  PROVE  NamesThere(deployments', versions')
<1>. DEFINE n == Len(deployments)
            others == Standing(deployments[r].link) \ {r}
            p == Max(others)
            gone == [[[deployments[r] EXCEPT !.status = "rolled_back"] EXCEPT !.active = FALSE]
                        EXCEPT !.restored = p]
            back == [deployments[p] EXCEPT !.active = TRUE]
<1>1. /\ n \in Nat /\ DOMAIN deployments = 1..n /\ r \in 1..n
      /\ \A d \in 1..n : /\ deployments[d] \in Record /\ deployments[d].version \in 0..Len(versions)
                         /\ deployments[d].restored \in 0..n
  BY DEF ReleaseTyped, ReleaseInv, RecordsTyped, NamesThere
<1>2. others \in SUBSET (1..n) /\ others # {}
  BY <1>1 DEF RollBack, Standing
<1>3. p \in 1..n /\ p # r
  BY <1>1, <1>2, MaxOfRecords
<1>4. /\ versions' = versions
      /\ deployments' = [[[[deployments EXCEPT ![r].status = "rolled_back"] EXCEPT ![r].active = FALSE]
                             EXCEPT ![r].restored = p] EXCEPT ![p].active = TRUE]
  BY DEF RollBack
<1>. HIDE DEF p, others
<1>5. gone.version = deployments[r].version /\ gone.restored = p
  BY <1>1 DEF Record
<1>6. back.version = deployments[p].version /\ back.restored = deployments[p].restored
  BY <1>1, <1>3 DEF Record
<1>7. /\ DOMAIN deployments' = 1..n
      /\ deployments'[r] = gone /\ deployments'[p] = back
      /\ \A d \in 1..n : d # r /\ d # p => deployments'[d] = deployments[d]
  BY <1>1, <1>3, <1>4
<1>. HIDE DEF gone, back
<1>8. Len(deployments') = n
  <2>1. deployments' = [d \in 1..n |-> deployments'[d]]
    BY <1>1, <1>4
  <2>2. deployments' \in Seq({deployments'[d] : d \in 1..n})
    BY <1>1, <2>1, FunctionIsSeq
  <2>. QED
    BY <1>1, <1>7, <2>2, LenProperties
<1>9. p \in 0..n
  BY <1>1, <1>3
<1>. QED
  BY <1>1, <1>3, <1>4, <1>5, <1>6, <1>7, <1>8, <1>9 DEF NamesThere

\* Every step of the releases keeps the names.
LEMMA ReleaseTypedStep == ReleaseTyped /\ [ReleaseNext]_releaseVars => ReleaseTyped'
<1>. SUFFICES ASSUME ReleaseTyped, [ReleaseNext]_releaseVars PROVE NamesThere(deployments', versions')
  BY ReleaseInvStep DEF ReleaseTyped
<1>0. /\ RecordsTyped /\ yaml \in Yaml /\ versions \in Seq(Yaml) /\ Len(versions) \in Nat /\ Len(versions) <= Len(versions)
      /\ Loads \subseteq Yaml
  BY ReleaseAssumption DEF ReleaseTyped, ReleaseInv, RecordsTyped
<1>1. CASE versions' = versions /\ deployments' = deployments
  BY <1>0, <1>1, RecordsNamed
<1>2. ASSUME NEW content \in Yaml, SavePipeline(content) PROVE NamesThere(deployments', versions')
  <2>1. deployments' = deployments /\ (SaveVersion(content) \/ versions' = versions)
    BY <1>2 DEF SavePipeline
  <2>2. versions' \in Seq(Yaml) /\ Len(versions) <= Len(versions')
    BY <1>0, <2>1, SavingGrows DEF Grows
  <2>. QED
    BY <2>1, <2>2, RecordsNamed
<1>3. CASE RecordFailure
  <2>1. /\ checked.link \in Slot /\ checked.version \in 0..Len(versions) /\ checked.version \in Nat
        /\ CreateDeployment(checked.link, checked.version, yaml, "failed") /\ versions' = versions
    BY <1>0, <1>3 DEF RecordFailure, RecordsTyped, Snapshot
  <2>. QED
    BY <1>0, <2>1, CreationNames
<1>4. CASE RecordDeployment
  <2>1. checked.link \in Slot /\ checked.version \in 0..Len(versions) /\ checked.version \in Nat
    BY <1>0, <1>4 DEF RecordDeployment, RecordsTyped, Snapshot
  <2>2. versions' = versions \/ SaveVersion(yaml)
    BY <1>4 DEF RecordDeployment
  <2>3. versions' \in Seq(Yaml) /\ Len(versions) <= Len(versions')
    BY <1>0, <2>2, SavingGrows DEF Grows
  <2>4. PICK v : CreateDeployment(checked.link, v, yaml, "deployed") /\ v \in 0..Len(versions')
    <3>1. CASE checked.version # 0
      BY <1>4, <2>1, <3>1 DEF RecordDeployment
    <3>2. CASE checked.version = 0
      <4>. DEFINE v == VersionForHash(yaml)'
      <4>1. CreateDeployment(checked.link, v, yaml, "deployed") /\ yaml' = yaml
        BY <1>4, <3>2 DEF RecordDeployment
      <4>2. v = 0 \/ v \in DOMAIN versions'
        BY <4>1 DEF VersionForHash, VersionOf
      <4>3. v \in 0..Len(versions')
        BY <2>3, <4>2
      <4>. HIDE DEF v
      <4>. QED
        BY <4>1, <4>3
    <3>. QED
      BY <3>1, <3>2
  <2>5. v \in Nat
    BY <2>3, <2>4
  <2>. QED
    BY <1>0, <2>1, <2>3, <2>4, <2>5, CreationNames
<1>5. ASSUME NEW d \in DOMAIN deployments, RollBack(d) PROVE NamesThere(deployments', versions')
  BY <1>5, RollbackNames
<1>. QED
  BY <1>1, <1>2, <1>3, <1>4, <1>5
     DEF releaseVars, ReleaseNext, EditYaml, RestoreVersion, ValidateRelease, RefuseVersion, CreateLink,
         DeleteLink, EditLinks

\* With the invariant of the records these are their types.
LEMMA ReleaseTypedIs == ReleaseTyped => ReleaseTypeOK
<1>. SUFFICES ASSUME ReleaseTyped PROVE ReleaseTypeOK
  OBVIOUS
<1>1. /\ yaml \in Yaml /\ links \subseteq Link /\ versions \in Seq(Yaml) /\ deployments \in Seq(Record)
  BY DEF ReleaseTyped, ReleaseInv, RecordsTyped
<1>2. /\ \A v \in DOMAIN versions : versions[v] \in Yaml
      /\ \A d \in DOMAIN deployments : deployments[d] \in Record
  BY <1>1
<1>3. \A d \in DOMAIN deployments : deployments[d].status \in {"deployed", "failed", "rolled_back"}
  BY <1>2 DEF Record
<1>. QED
  BY <1>1, <1>2, <1>3 DEF ReleaseTyped, NamesThere, ReleaseTypeOK

(*****************************************************************************)
(* Alerts                                                                    *)
(*****************************************************************************)

\* What an operator changes, and which incident a collector remembers.
RuleState == [enabled : BOOLEAN, scope : Subject \union {Every}, direct : BOOLEAN]
FoundThere == \A c \in Collector : collectors[c].found \in 0..Len(incidents)
SettingsTyped ==
  /\ queueStatus \in [QueueRow -> DOMAIN Follows]
  /\ alertRules \in [Rule -> RuleState \cup {NoRule}]
  /\ channels \in [Channel -> {"absent", "hears", "deaf"}]
  /\ upsets \in 0..MaxUpsets
AlertTyped == AlertInv /\ SettingsTyped /\ FoundThere

\* Rules are seeded, every channel hears, and no collector runs yet.
LEMMA AlertTypedBegins == AlertInit => AlertTyped
<1>. SUFFICES ASSUME AlertInit PROVE AlertTyped
  OBVIOUS
<1>1. queueStatus \in [QueueRow -> DOMAIN Follows]
  BY DEF AlertInit, Follows
<1>2. alertRules \in [Rule -> RuleState \cup {NoRule}]
  BY DEF AlertInit, RuleState, Subject
<1>3. channels \in [Channel -> {"absent", "hears", "deaf"}] /\ upsets \in 0..MaxUpsets
  BY AlertAssumption DEF AlertInit
<1>4. FoundThere
  BY DEF AlertInit, FoundThere, Resting
<1>. QED
  BY <1>1, <1>2, <1>3, <1>4, AlertInitial DEF AlertTyped, SettingsTyped

\* A rule is edited a field at a time, or comes and goes whole.
LEMMA RulesStayTyped ==
  ASSUME alertRules \in [Rule -> RuleState \cup {NoRule}], (\E r \in Rule : EditRule(r)) \/ SeedRules
  PROVE  alertRules' \in [Rule -> RuleState \cup {NoRule}]
<1>1. ASSUME NEW r \in Rule, NEW x \in RuleState \cup {NoRule}, alertRules' = [alertRules EXCEPT ![r] = x]
      PROVE  alertRules' \in [Rule -> RuleState \cup {NoRule}]
  BY <1>1
<1>2. ASSUME NEW r \in Rule, UpdateRule(r) PROVE alertRules' \in [Rule -> RuleState \cup {NoRule}]
  <2>. DEFINE v == alertRules[r]
              enabled == [v EXCEPT !.enabled = ~@]
              direct == [v EXCEPT !.direct = ~@]
              scoped(scope) == [v EXCEPT !.scope = scope]
  <2>1. v \in RuleState
    BY <1>2 DEF UpdateRule
  <2>2. enabled \in RuleState /\ direct \in RuleState
    BY <2>1 DEF RuleState
  <2>3. \A scope \in Subject \union {Every} : scoped(scope) \in RuleState
    BY <2>1 DEF RuleState
  <2>4. \/ alertRules' = [alertRules EXCEPT ![r] = enabled]
        \/ alertRules' = [alertRules EXCEPT ![r] = direct]
        \/ \E scope \in Subject \union {Every} : alertRules' = [alertRules EXCEPT ![r] = scoped(scope)]
    BY <1>2 DEF UpdateRule
  <2>. HIDE DEF enabled, direct, scoped
  <2>. QED
    BY <1>1, <2>2, <2>3, <2>4
<1>3. ASSUME NEW r \in Rule, DeleteRule(r) \/ CreateRule(r) PROVE alertRules' \in [Rule -> RuleState \cup {NoRule}]
  BY <1>1, <1>3 DEF DeleteRule, CreateRule, RuleState
<1>4. CASE SeedRules
  BY <1>4 DEF SeedRules, RuleState, Subject
<1>. QED
  BY <1>2, <1>3, <1>4 DEF EditRule

\* Settings change within their types, whoever changes them.
LEMMA SettingsStep == ASSUME SettingsTyped, AlertNext PROVE SettingsTyped'
<1>. USE DEF SettingsTyped
<1>1. ASSUME NEW q \in QueueRow, MoveQueue(q) PROVE SettingsTyped'
  <2>1. /\ UNCHANGED <<alertRules, channels, upsets>>
        /\ \E s \in Follows[queueStatus[q]] : queueStatus' = [queueStatus EXCEPT ![q] = s]
    BY <1>1 DEF MoveQueue
  <2>2. \A x \in DOMAIN Follows : Follows[x] \subseteq DOMAIN Follows
    BY DEF Follows
  <2>. HIDE DEF SettingsTyped
  <2>3. queueStatus' \in [QueueRow -> DOMAIN Follows]
    BY <2>1, <2>2 DEF SettingsTyped
  <2>. QED
    BY <2>1, <2>3 DEF SettingsTyped
<1>2. ASSUME NEW c \in Collector, Evaluate(c) PROVE SettingsTyped'
  <2>1. UNCHANGED <<queueStatus, alertRules, channels, upsets>>
    BY <1>2 DEF Evaluate, CollectMetrics, EvaluateRules, LookForIncident, UpdateObservation,
                CreateIncident, PickTargets, NotifyTarget, ResolveCleared
  <2>. QED
    BY <2>1
<1>3. ASSUME upsets < MaxUpsets, upsets' = upsets + 1 PROVE upsets' \in 0..MaxUpsets
  BY <1>3, AlertAssumption
<1>4. ASSUME NEW c \in Collector, IterationFails(c) PROVE SettingsTyped'
  BY <1>3, <1>4 DEF IterationFails
<1>5. ASSUME NEW i \in DOMAIN incidents, Acknowledge(i) \/ ResolveByHand(i) PROVE SettingsTyped'
  BY <1>3, <1>5 DEF Acknowledge, ResolveByHand, Upset
<1>6. ASSUME NEW r \in Rule, EditRule(r) PROVE SettingsTyped'
  BY <1>3, <1>6, RulesStayTyped DEF EditRule, Upset
<1>7. ASSUME NEW ch \in Channel, CreateChannel(ch) \/ UpdateChannel(ch) \/ DeleteChannel(ch) PROVE SettingsTyped'
  <2>1. upsets' \in 0..MaxUpsets /\ UNCHANGED <<queueStatus, alertRules>>
    BY <1>3, <1>7 DEF CreateChannel, UpdateChannel, DeleteChannel, Upset
  <2>2. channels' \in [Channel -> {"absent", "hears", "deaf"}]
    BY <1>7 DEF CreateChannel, UpdateChannel, DeleteChannel
  <2>. QED
    BY <2>1, <2>2
<1>8. CASE SeedRules
  BY <1>8, RulesStayTyped DEF SeedRules
<1>. QED
  BY <1>1, <1>2, <1>4, <1>5, <1>6, <1>7, <1>8 DEF AlertNext

\* The newest active incident is one there is, if there is one.
LEMMA ActiveIsThere ==
  ASSUME AlertInv, NEW r, NEW subject PROVE ActiveIncident(r, subject) \in 0..Len(incidents)
<1>. DEFINE live == IncidentsOf(r, subject)
<1>1. Len(incidents) \in Nat /\ live \in SUBSET (1..Len(incidents))
  BY DEF AlertInv, IncidentsOf
<1>2. live # {} => \E i \in live : \A j \in live : j <= i
  BY <1>1, NewestExists
<1>. DEFINE newest == CHOOSE i \in live : \A j \in live : j <= i
<1>3. ActiveIncident(r, subject) = IF live = {} THEN 0 ELSE newest
  BY DEF ActiveIncident
<1>4. live # {} => newest \in live
  BY <1>2
<1>5. \A i \in 1..Len(incidents) : i \in 0..Len(incidents)
  BY <1>1
<1>6. 0 \in 0..Len(incidents)
  BY <1>1
<1>. HIDE DEF live, newest
<1>. QED
  BY <1>1, <1>3, <1>4, <1>5, <1>6, Zenon

\* A collector goes on with an incident that is there; none is ever removed.
LEMMA FoundStep == ASSUME AlertInv, FoundThere, AlertNext PROVE FoundThere'
<1>. DEFINE n == Len(incidents)
<1>0. /\ n \in Nat /\ DOMAIN incidents = 1..n /\ incidents \in Seq(Incident) /\ DOMAIN collectors = Collector
      /\ \A c \in Collector : Shaped(collectors[c]) /\ collectors[c].found \in 0..n
  BY DEF AlertInv, FoundThere
<1>1. ASSUME collectors' = collectors, Len(incidents') = n PROVE FoundThere'
  BY <1>0, <1>1 DEF FoundThere
<1>2. ASSUME NEW c \in Collector, NEW k, collectors' = [collectors EXCEPT ![c] = k], Len(incidents') \in {n, n + 1},
             k.found \in 0..Len(incidents')
      PROVE  FoundThere'
  <2>1. \A x \in 0..n : x \in 0..Len(incidents')
    BY <1>0, <1>2
  <2>2. \A d \in Collector : collectors'[d] = IF d = c THEN k ELSE collectors[d]
    BY <1>0, <1>2
  <2>. QED
    BY <1>0, <1>2, <2>1, <2>2 DEF FoundThere
<1>3. /\ 0 \in 0..n /\ 0 \in 0..(n + 1) /\ n + 1 \in 0..(n + 1)
      /\ Resting.found = 0 /\ \A c : NextItem(c).found = 0
  BY <1>0 DEF Resting, NextItem
<1>4. ASSUME NEW c \in Collector, CollectMetrics(c) \/ EvaluateRules(c) \/ UpdateObservation(c) PROVE FoundThere'
  <2>1. incidents' = incidents
    BY <1>4 DEF CollectMetrics, EvaluateRules, UpdateObservation
  <2>2. ASSUME NEW k, collectors' = [collectors EXCEPT ![c] = k], k.found = 0 PROVE FoundThere'
    BY <1>2, <1>3, <2>1, <2>2
  <2>3. CASE CollectMetrics(c)
    <3>. DEFINE sampled == [Resting EXCEPT !.at = "sampled", !.samples = BuildSamples]
    <3>1. sampled.found = 0 /\ collectors' = [collectors EXCEPT ![c] = sampled]
      BY <2>3 DEF CollectMetrics, Resting
    <3>. HIDE DEF sampled
    <3>. QED
      BY <2>2, <3>1
  <2>4. CASE EvaluateRules(c)
    <3>. DEFINE walking(todo) == [Resting EXCEPT !.at = "walking", !.todo = todo]
                after(todo) == IF todo = {} THEN Resting ELSE walking(todo)
    <3>1. \A todo : walking(todo).found = 0
      BY DEF Resting
    <3>2. \A todo : after(todo).found = 0
      BY <1>3, <3>1
    <3>3. \E todo : collectors' = [collectors EXCEPT ![c] = after(todo)]
      BY <2>4 DEF EvaluateRules
    <3>. HIDE DEF after
    <3>. QED
      BY <2>2, <3>2, <3>3
  <2>5. CASE UpdateObservation(c)
    BY <1>3, <2>2, <2>5 DEF UpdateObservation
  <2>. QED
    BY <1>4, <2>3, <2>4, <2>5
<1>5. ASSUME NEW c \in Collector, LookForIncident(c) PROVE FoundThere'
  <2>. DEFINE found == ActiveIncident(Item(c)[1], Item(c)[2])
              moved == [collectors[c] EXCEPT !.at = IF found = 0 THEN "creating" ELSE "updating"]
              k == [moved EXCEPT !.found = found]
  <2>1. found \in 0..n
    BY ActiveIsThere
  <2>2. incidents' = incidents /\ collectors' = [collectors EXCEPT ![c] = k]
    BY <1>0, <1>5 DEF LookForIncident
  <2>3. k.found = found
    BY <1>0 DEF Shaped
  <2>. HIDE DEF k, found
  <2>. QED
    BY <1>2, <2>1, <2>2, <2>3
<1>6. ASSUME NEW c \in Collector, CreateIncident(c) PROVE FoundThere'
  <2>. DEFINE told == [[collectors[c] EXCEPT !.at = "notifying"] EXCEPT !.found = n + 1]
  <2>1. Len(incidents') = n + 1
    BY <1>0, <1>6 DEF CreateIncident
  <2>2. told.found = n + 1
    BY <1>0 DEF Shaped
  <2>3. \/ collectors' = [collectors EXCEPT ![c] = told]
        \/ collectors' = [collectors EXCEPT ![c] = NextItem(c)]
    BY <1>6 DEF CreateIncident
  <2>. HIDE DEF told
  <2>. QED
    BY <1>2, <1>3, <2>1, <2>2, <2>3
<1>7. ASSUME NEW c \in Collector, PickTargets(c) PROVE FoundThere'
  <2>. DEFINE moved == [collectors[c] EXCEPT !.at = "telling"]
              k == [moved EXCEPT !.targets = Targets(Item(c)[4])]
  <2>1. incidents' = incidents /\ collectors' = [collectors EXCEPT ![c] = k]
    BY <1>0, <1>7 DEF PickTargets
  <2>2. k.found = collectors[c].found
    BY <1>0 DEF Shaped
  <2>. HIDE DEF k
  <2>. QED
    BY <1>0, <1>2, <2>1, <2>2
<1>8. ASSUME NEW c \in Collector, NotifyTarget(c) PROVE FoundThere'
  <2>. DEFINE t == CHOOSE t \in collectors[c].targets : TRUE
              k == [collectors[c] EXCEPT !.targets = @ \ {t}]
  <2>1. Len(incidents') = n
    BY <1>0, <1>8 DEF NotifyTarget
  <2>2. k.found = collectors[c].found
    BY <1>0 DEF Shaped
  <2>3. \/ collectors' = [collectors EXCEPT ![c] = k]
        \/ collectors' = [collectors EXCEPT ![c] = NextItem(c)]
    BY <1>8 DEF NotifyTarget
  <2>. HIDE DEF k
  <2>. QED
    BY <1>0, <1>2, <1>3, <2>1, <2>2, <2>3
<1>9. ASSUME NEW c \in Collector, ResolveCleared(c) PROVE FoundThere'
  <2>1. collectors' = [collectors EXCEPT ![c] = NextItem(c)] /\ DOMAIN incidents' = 1..n
    BY <1>0, <1>9 DEF ResolveCleared
  <2>2. Len(incidents') = n
    BY <1>0, <1>9, <2>1, ResolveStep, LenProperties DEF AlertInv
  <2>. QED
    BY <1>2, <1>3, <2>1, <2>2
<1>10. ASSUME NEW c \in Collector, IterationFails(c) PROVE FoundThere'
  <2>1. collectors' = [collectors EXCEPT ![c] = Resting] /\ Len(incidents') = n
    BY <1>0, <1>10 DEF IterationFails
  <2>. QED
    BY <1>2, <1>3, <2>1
<1>11. ASSUME NEW i \in DOMAIN incidents, Acknowledge(i) \/ ResolveByHand(i) PROVE FoundThere'
  <2>1. Len(incidents') = n /\ collectors' = collectors
    BY <1>0, <1>11 DEF Acknowledge, ResolveByHand, Upset
  <2>. QED
    BY <1>1, <2>1
<1>12. ASSUME UNCHANGED <<incidents, collectors>> PROVE FoundThere'
  BY <1>1, <1>12
<1>13. ASSUME NEW q \in QueueRow, MoveQueue(q) PROVE FoundThere'
  BY <1>12, <1>13 DEF MoveQueue
<1>14. ASSUME NEW r \in Rule, EditRule(r) PROVE FoundThere'
  BY <1>12, <1>14 DEF EditRule, Upset
<1>15. ASSUME NEW ch \in Channel, CreateChannel(ch) \/ UpdateChannel(ch) \/ DeleteChannel(ch) PROVE FoundThere'
  BY <1>12, <1>15 DEF CreateChannel, UpdateChannel, DeleteChannel, Upset
<1>16. CASE SeedRules
  BY <1>12, <1>16 DEF SeedRules
<1>. QED
  BY <1>4, <1>5, <1>6, <1>7, <1>8, <1>9, <1>10, <1>11, <1>13, <1>14, <1>15, <1>16 DEF AlertNext, Evaluate

\* Every step of the alerts keeps their types.
LEMMA AlertTypedStep == AlertTyped /\ [AlertNext]_alertVars => AlertTyped'
<1>. SUFFICES ASSUME AlertTyped, [AlertNext]_alertVars PROVE AlertTyped'
  OBVIOUS
<1>1. CASE AlertNext
  BY <1>1, AlertStep, SettingsStep, FoundStep DEF AlertTyped
<1>2. CASE UNCHANGED alertVars
  <2>1. AlertInv'
    BY <1>2, ElsewhereStep DEF alertVars, AlertTyped
  <2>. QED
    BY <1>2, <2>1 DEF alertVars, AlertTyped, SettingsTyped, FoundThere
<1>. QED
  BY <1>1, <1>2

\* With the invariant of the collectors these are the types of the alerts.
LEMMA AlertTypedIs == AlertTyped => AlertTypeOK
<1>. SUFFICES ASSUME AlertTyped PROVE AlertTypeOK
  OBVIOUS
<1>1. \A i \in DOMAIN incidents : /\ incidents[i].status \in Active \union {"resolved"}
                                  /\ incidents[i].opener \in Collector
                                  /\ incidents[i].told \in Seq(Channel \union {"rule", "none"})
  BY IncidentAt DEF AlertTyped, Incident, IncidentRow, Target
<1>2. \A r \in Rule : alertRules[r] = NoRule \/ alertRules[r].scope \in Subject \union {Every}
  BY DEF AlertTyped, SettingsTyped, RuleState
<1>. QED
  BY <1>1, <1>2 DEF AlertTyped, SettingsTyped, FoundThere, AlertTypeOK

(*****************************************************************************)
(* Baseline                                                                  *)
(*****************************************************************************)

\* The invariant of the harness has the types of the baseline in it.
LEMMA HarnessIsTyped == HarnessInv => BaselineTypeOK
<1>. SUFFICES ASSUME HarnessInv PROVE BaselineTypeOK
  OBVIOUS
<1>. USE DEF HarnessInv, HarnessTypes
<1>1. ToSet(arrivals) = Event
  <2>1. \A j \in DOMAIN arrivals : arrivals[j] \in Event
    OBVIOUS
  <2>. QED
    BY <2>1 DEF ToSet
<1>2. progress.committed <= progress.offset /\ progress.offset <= Size
  BY DEF Progress
<1>3. \A k \in DOMAIN sink : Parses(sink[k]) => sink[k].event \in Event \cup {Ghost}
  <2>1. \A k \in DOMAIN sink : sink[k] \in Line
    OBVIOUS
  <2>. QED
    BY <2>1 DEF Line, Parses
<1>. QED
  BY <1>1, <1>2, <1>3 DEF BaselineTypeOK


(*****************************************************************************)
(* The components together                                                   *)
(*****************************************************************************)

\* What each component keeps true, whichever of them moves.
PlatformInv ==
  /\ RunTyped /\ PoolInv /\ BackTyped /\ RegistryTyped /\ ScheduleTyped /\ AlertTyped
  /\ GitInv /\ ReleaseTyped /\ LineageInv /\ AnswerInv /\ HarnessInv

\* Every component starts as its own specification says.
LEMMA PlatformBegins == PlatformInit => PlatformInv
<1>. SUFFICES ASSUME PlatformInit PROVE PlatformInv
  OBVIOUS
<1>1. /\ ExecutorInit /\ EmbeddedInit /\ BackfillInit /\ TriggerInit /\ ScheduleInit /\ AlertInit
      /\ GitInit /\ ReleaseInit /\ LineageInit /\ GeneratorInit /\ BaselineInit
  BY DEF PlatformInit
<1>. QED
  BY <1>1, RunTypedBegins, PoolInit, BackTypedBegins, RegistryTypedBegins, ScheduleTypedBegins,
     AlertTypedBegins, GitInitial, ReleaseTypedBegins, LineageInvStarts, AnswerBegins, HarnessBegins
     DEF PlatformInv

\* A step of the platform is, for each component, a step of its own or none.
LEMMA EachGoesItsOwnWay ==
  ASSUME [PlatformNext]_platformVars
  PROVE  /\ [ExecutorNext]_executorVars /\ [EmbeddedNext]_embeddedVars /\ [BackfillNext]_backfillVars
         /\ [TriggerNext]_triggerVars /\ [ScheduleNext]_scheduleVars /\ [AlertNext]_alertVars
         /\ [GitNext]_gitVars /\ [ReleaseNext]_releaseVars /\ [LineageNext]_columnVars
         /\ [GeneratorNext]_generatorVars /\ [BaselineNext]_baselineVars
<1>1. CASE UNCHANGED platformVars
  BY <1>1 DEF platformVars
<1>2. CASE InExecutor
  BY <1>2 DEF InExecutor
<1>3. CASE InEmbedded
  BY <1>3 DEF InEmbedded
<1>4. CASE InBackfill
  BY <1>4 DEF InBackfill
<1>5. CASE InTriggers
  BY <1>5 DEF InTriggers
<1>6. CASE InSchedules
  BY <1>6 DEF InSchedules
<1>7. CASE InAlerts
  BY <1>7 DEF InAlerts
<1>8. CASE InGit
  BY <1>8 DEF InGit
<1>9. CASE InReleases
  BY <1>9 DEF InReleases
<1>10. CASE InLineage
  BY <1>10 DEF InLineage
<1>11. CASE InGenerator
  BY <1>11 DEF InGenerator
<1>12. CASE InBaseline
  BY <1>12 DEF InBaseline
<1>. QED
  BY <1>1, <1>2, <1>3, <1>4, <1>5, <1>6, <1>7, <1>8, <1>9, <1>10, <1>11, <1>12 DEF PlatformNext

\* So what each keeps, all keep.
LEMMA PlatformStays == PlatformInv /\ [PlatformNext]_platformVars => PlatformInv'
<1>. SUFFICES ASSUME PlatformInv, [PlatformNext]_platformVars PROVE PlatformInv'
  OBVIOUS
<1>1. GitInv /\ [GitNext]_gitVars => GitInv'
  BY GitStep DEF GitInv, gitVars
<1>. QED
  BY EachGoesItsOwnWay, <1>1, RunTypedStep, PoolStep, BackTypedStep, RegistryTypedStep, ScheduleTypedStep,
     AlertTypedStep, ReleaseTypedStep, LineageInvStays, AnswerInvStep, HarnessStep
     DEF PlatformInv

\* Every commit of a history has whole files.
LEMMA HistoriesAreTyped == GitInv => GitTypeOK
<1>. SUFFICES ASSUME GitInv PROVE GitTypeOK
  OBVIOUS
<1>1. ASSUME NEW log \in Log, NEW i \in DOMAIN log PROVE log[i].files \in Files
  <2>1. log \in Seq(Commit)
    BY DEF Log
  <2>2. log[i] \in Commit
    BY <2>1
  <2>. QED
    BY <2>2 DEF Commit
<1>2. clone # NoClone => clone.log \in Log /\ clone.tree \in Files /\ clone.index \in Files
  BY DEF GitInv, Clone
<1>. QED
  BY <1>1, <1>2 DEF GitInv, GitTypeOK

\* In every state of every component its variables have the types declared:
\* an incident, a version or a record that is named is one there is.
THEOREM PlatformTypeCorrect == PlatformSpec => []PlatformTypeOK
<1>1. PlatformInv => PlatformTypeOK
  BY RunTypedIs, BackTypedIs, RegistryTypedIs, ScheduleTypedIs, AlertTypedIs, HistoriesAreTyped, ReleaseTypedIs,
     HarnessIsTyped DEF PlatformInv, PlatformTypeOK, PoolInv, LineageInv, AnswerInv
<1>. QED
  BY PlatformBegins, PlatformStays, <1>1, PTL DEF PlatformSpec

\* The safety of the components side by side: attempts are disjoint, reports
\* account for runs and repairs make them whole, cancellations stand and no
\* run is forgotten, windows are submitted once, registry and schedules match
\* what was asked, an incident is told once, the active deployment is the
\* newest, a clean check breaks nothing, sentences become waves and verdicts
\* are deserved.
PlatformIsSafe ==
  /\ AttemptsDisjoint /\ ReportsAccount /\ RepairMakesWhole /\ CancelStands /\ NoRunForgotten
  /\ SubmittedOnce /\ RegistryMatchesTable /\ SchedulesFollowRequests /\ OpenedOnceToldOnce
  /\ ActiveIsNewestStanding /\ CleanCheckBreaksNothing /\ SentencesBecomeWaves /\ VerdictsAreDeserved

\* What holds of each component alone holds of all of them side by side.
THEOREM PlatformSafe == PlatformSpec => []PlatformIsSafe
<1>1. AttemptInv => AttemptsDisjoint
  BY DEF AttemptInv, Fits, AttemptsDisjoint, Work
<1>2. BackInv => SubmittedOnce
  BY DEF BackInv, CoverInv, Asked, SubmittedOnce
<1>3. ScheduleInv => SchedulesFollowRequests
  BY DEF ScheduleInv, RowAsWanted, JobAsWanted, SchedulesFollowRequests
<1>4. RunTyped => AttemptsDisjoint /\ ReportsAccount /\ RepairMakesWhole
  BY <1>1, ReportsAddUp, WholeAfterRepairs DEF RunTyped, RunInv
<1>5. /\ BackTyped => SubmittedOnce
      /\ RegistryTyped => RegistryMatchesTable
      /\ ScheduleTyped => SchedulesFollowRequests
      /\ AlertTyped => OpenedOnceToldOnce
      /\ ReleaseTyped => ActiveIsNewestStanding
  BY <1>2, <1>3, RegistryMatches, SlotStands
     DEF BackTyped, RegistryTyped, ScheduleTyped, AlertTyped, AlertInv, ReleaseTyped
<1>6. PlatformInv => PlatformIsSafe
  BY <1>4, <1>5, CancelsHold, FiledWhileAlive, LineageInvSuffices, AnswersAreWaves, DeservedInHarness
     DEF PlatformInv, PlatformIsSafe
<1>. QED
  BY PlatformBegins, PlatformStays, <1>6, PTL DEF PlatformSpec
===============================================================================
