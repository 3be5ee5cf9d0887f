----------------------------- MODULE Schedules -----------------------------
(***************************************************************************)
(* core/scheduler.py: cron jobs kept in the memory of the API process,     *)
(* keyed by pipeline name, with a table they are restored from.  Requests  *)
(* are handled one at a time; what can go wrong is a database write, the   *)
(* read of the table at a start, a configuration file that no longer       *)
(* loads, and a kill of the process.                                       *)
(***************************************************************************)
EXTENDS Naturals, FiniteSets

CONSTANTS
  ConfigFile,   \* pipeline files; each defines the pipeline of its name
  Cron,         \* schedules a request may ask for
  NoCron,       \* no schedule
  MaxBoots,     \* bound: starts of the process
  MaxFaults     \* bound: database calls that fail, files that break

ASSUME ScheduleAssumption ==
  /\ NoCron \notin Cron /\ IsFiniteSet(ConfigFile)
  /\ MaxBoots \in Nat \ {0} /\ MaxFaults \in Nat

VARIABLES
  online,    \* the API process runs
  boots,     \* starts so far
  faults,    \* failures so far
  loads,     \* files that load
  jobs,      \* scheduled_pipelines: per pipeline its cron, or NoCron
  saved,     \* scheduler_schedules: per pipeline its cron, or NoCron
  wanted,    \* per pipeline: what the last answered request asked for
  settled,   \* per pipeline: the last request was answered with success
  unsaved,   \* pipelines whose current schedule never reached the table
  missed,    \* pipelines with a row that the last start did not restore
  cronRun    \* per pipeline: status of its latest scheduled run

scheduleVars == <<online, boots, faults, loads, jobs, saved, wanted, settled, unsaved,
                  missed, cronRun>>

ScheduleInit ==
  /\ online = TRUE /\ boots = 1 /\ faults = 0
  /\ loads = ConfigFile
  /\ jobs = [f \in ConfigFile |-> NoCron] /\ saved = jobs /\ wanted = jobs
  /\ settled = [f \in ConfigFile |-> TRUE]
  /\ unsaved = {} /\ missed = {}
  /\ cronRun = [f \in ConfigFile |-> "none"]

Scheduled(j) == {f \in ConfigFile : j[f] # NoCron}
Fails(n) == faults + n <= MaxFaults /\ faults' = faults + n

SavedAs(now, written) == [f \in ConfigFile |-> IF f \in written THEN now[f] ELSE saved[f]]
SavedWithout(f) == [saved EXCEPT ![f] = NoCron]
Restorable == [f \in ConfigFile |-> IF f \in loads THEN saved[f] ELSE NoCron]

\* _persist_schedules writes every schedule in memory, each in a transaction
\* of its own; a write that fails is logged and the request still succeeds.
Persists(now, lost) ==
  /\ lost \subseteq Scheduled(now) /\ Fails(Cardinality(lost))
  /\ saved' = SavedAs(now, Scheduled(now) \ lost)
  /\ unsaved' = {f \in unsaved \cup lost : saved'[f] # wanted'[f]}

\* POST /schedule
SchedulePipeline(f, c) ==
  /\ online /\ f \in loads /\ jobs[f] # c
  /\ jobs' = [jobs EXCEPT ![f] = c]
  /\ wanted' = [wanted EXCEPT ![f] = c]
  /\ \E lost \in SUBSET ConfigFile : Persists(jobs', lost)
  /\ settled' = [settled EXCEPT ![f] = TRUE]
  /\ missed' = missed \ {f}
  /\ UNCHANGED <<online, boots, loads, cronRun>>

\* Mutant of UnschedulePipeline: the row stays.
UnscheduleInMemory(f) ==
  /\ online /\ jobs[f] # NoCron
  /\ jobs' = [jobs EXCEPT ![f] = NoCron]
  /\ wanted' = [wanted EXCEPT ![f] = NoCron]
  /\ unsaved' = unsaved \ {f}
  /\ settled' = [settled EXCEPT ![f] = TRUE]
  /\ UNCHANGED <<online, boots, faults, loads, saved, missed, cronRun>>

\* DELETE /schedule/{name}: the job, the dictionary, the row.  A row that
\* cannot be deleted makes the answer a failure, with the job already gone.
UnschedulePipeline(f) ==
  /\ online /\ jobs[f] # NoCron
  /\ jobs' = [jobs EXCEPT ![f] = NoCron]
  /\ wanted' = [wanted EXCEPT ![f] = NoCron]
  /\ unsaved' = unsaved \ {f}
  /\ \/ saved' = SavedWithout(f) /\ settled' = [settled EXCEPT ![f] = TRUE] /\ UNCHANGED faults
     \/ settled' = [settled EXCEPT ![f] = FALSE] /\ Fails(1) /\ UNCHANGED saved
  /\ UNCHANGED <<online, boots, loads, missed, cronRun>>

\* _run_scheduled_pipeline; an exception leaves the run reported as started.
RunScheduled(f) ==
  /\ online /\ jobs[f] # NoCron /\ cronRun[f] # "started"
  /\ cronRun' = [cronRun EXCEPT ![f] = "started"]
  /\ UNCHANGED <<online, boots, faults, loads, jobs, saved, wanted, settled, unsaved, missed>>

EndScheduled(f) ==
  /\ online /\ cronRun[f] = "started"
  /\ cronRun' \in {[cronRun EXCEPT ![f] = s] : s \in {"completed", "failed", "abandoned"}}
  /\ UNCHANGED <<online, boots, faults, loads, jobs, saved, wanted, settled, unsaved, missed>>

BreakFile(f) ==
  /\ f \in loads /\ Fails(1)
  /\ loads' = loads \ {f}
  /\ UNCHANGED <<online, boots, jobs, saved, wanted, settled, unsaved, missed, cronRun>>

MendFile(f) ==
  /\ f \notin loads
  /\ loads' = loads \cup {f}
  /\ UNCHANGED <<online, boots, faults, jobs, saved, wanted, settled, unsaved, missed, cronRun>>

StopScheduler ==
  /\ online /\ boots < MaxBoots
  /\ online' = FALSE
  /\ jobs' = [f \in ConfigFile |-> NoCron]
  /\ cronRun' = [f \in ConfigFile |-> IF cronRun[f] = "started" THEN "abandoned" ELSE cronRun[f]]
  /\ UNCHANGED <<boots, faults, loads, saved, wanted, settled, unsaved, missed>>

\* start, _restore_schedules: every row whose file loads is scheduled again.
\* When the table cannot be read the error is logged and the server runs on,
\* with no job.
StartScheduler ==
  /\ ~online
  /\ online' = TRUE /\ boots' = boots + 1
  /\ \/ jobs' = Restorable /\ UNCHANGED faults
     \/ jobs' = [f \in ConfigFile |-> NoCron] /\ Fails(1)
  /\ missed' = Scheduled(saved) \ Scheduled(jobs')
  /\ UNCHANGED <<loads, saved, wanted, settled, unsaved, cronRun>>

ScheduleNext ==
  \/ StopScheduler \/ StartScheduler
  \/ \E f \in ConfigFile : \/ UnschedulePipeline(f) \/ RunScheduled(f) \/ EndScheduled(f)
                           \/ BreakFile(f) \/ MendFile(f)
                           \/ \E c \in Cron : SchedulePipeline(f, c)
ScheduleSpec == ScheduleInit /\ [][ScheduleNext]_scheduleVars

------------------------------------------------------------------------
ScheduleTypeOK ==
  /\ online \in BOOLEAN /\ boots \in 1..MaxBoots /\ faults \in 0..MaxFaults
  /\ loads \subseteq ConfigFile
  /\ {jobs, saved, wanted} \subseteq [ConfigFile -> Cron \cup {NoCron}]
  /\ settled \in [ConfigFile -> BOOLEAN]
  /\ unsaved \subseteq ConfigFile /\ missed \subseteq ConfigFile
  /\ cronRun \in [ConfigFile -> {"none", "started", "completed", "failed", "abandoned"}]

\* What runs is what was last asked for, across restarts: a pipeline whose
\* removal succeeded is neither scheduled nor restored, and one that was
\* scheduled has a row with the cron last asked for, unless the write of its
\* row failed and nothing has written it since.  A server that is up runs that
\* schedule, unless the last start could not load its file or read the table;
\* the row is there even so, for the next start to restore.
SchedulesFollowRequests ==
  \A f \in ConfigFile : settled[f] /\ f \notin unsaved =>
    /\ saved[f] = wanted[f]
    /\ online /\ f \notin missed => jobs[f] = wanted[f]
===========================================================================
