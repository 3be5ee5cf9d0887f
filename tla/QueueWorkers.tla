----------------------------- MODULE QueueWorkers -----------------------------
(***************************************************************************)
(* The run queue with the processes around it: the API that submits runs   *)
(* (core/api.py, run_pipeline, external execution mode), the workers that  *)
(* poll, claim and execute them (core/queue_worker.py and                  *)
(* execute_pipeline_background), their heartbeat threads, and the history  *)
(* table pipeline_runs that GET /run/{id} reports from.                    *)
(*                                                                         *)
(* One action is one database transaction, or the computation between two. *)
(* A worker may stop for any time between two of its actions, lose its     *)
(* lease, and go on; it may crash at any of them; any of them may raise.   *)
(***************************************************************************)
EXTENDS RunQueue

CONSTANTS
  SweepOnStart, \* recover_orphans of run_worker_loop
  MaxCrashes,   \* bound: crashes over a behaviour
  MaxFaults     \* bound: exceptions over a behaviour

ASSUME WorkersAssumption ==
  /\ NULL \notin Terminal
  /\ SweepOnStart \in BOOLEAN
  /\ MaxCrashes \in Nat
  /\ MaxFaults \in Nat

VARIABLES
  pc,        \* per worker: what its main thread does next
  held,      \* per worker: the lease run_worker_once works under, or NULL
  lost,      \* per worker: LeaseHeartbeat.lost
  outcome,   \* per worker: the status the task execution ended with
  history,   \* per run: the status of its latest row of pipeline_runs
  succeeded, \* history: the leases under which every task succeeded
  crashes,   \* bound counters
  faults,
  cancelling, \* per run: how far POST /run/{id}/cancel is
  overtaken   \* per run: the attempt whose row a cancellation overwrote, or NULL

procVars == <<pc, held, lost, outcome>>
bounds   == <<crashes, faults>>
cancelVars == <<cancelling, overtaken>>
vars     == <<queueVars, procVars, history, succeeded, bounds, cancelVars>>

\* The steps of execute_pipeline_background's try block.
TrySteps == {"begin", "announce", "execute", "report", "record", "notify"}

\* The steps during which the heartbeat thread runs: the with statement of
\* run_worker_once.
Beating == {"load", "handle", "record_failure"} \cup TrySteps

PC == {"down", "sweep", "reap", "claim", "complete_failed", "save_failed"}
        \cup Beating

Init ==
  /\ QueueInit
  /\ pc        = [w \in Worker |-> "down"]
  /\ held      = [w \in Worker |-> NULL]
  /\ lost      = [w \in Worker |-> FALSE]
  /\ outcome   = [w \in Worker |-> NULL]
  /\ history   = [r \in Run |-> "absent"]
  /\ succeeded = {}
  /\ crashes   = 0
  /\ faults    = 0
  /\ cancelling = [r \in Run |-> "no"]
  /\ overtaken  = [r \in Run |-> NULL]

Goto(w, from, to) ==
  /\ pc[w] = from
  /\ pc' = [pc EXCEPT ![w] = to]

SaveRunStatus(r, s) == history' = [history EXCEPT ![r] = s]

\* Mutant of SetRunStatusInQueue: the write is made without the lease.
SetRunStatusNoLease(w, s) == SetStatusUnfenced(held[w].run, s)

\* set_run_status_in_queue inside lease_context: a write that is fenced out
\* returns False, which execute_pipeline_background does not look at.
SetRunStatusInQueue(w, s) ==
  IF Matches(held[w]) THEN SetStatusFenced(held[w], s) ELSE UNCHANGED queueVars

-----------------------------------------------------------------------------
(***************************************************************************)
(* Submitting: the history row is written before the queue row.            *)
(***************************************************************************)

AnnounceQueued(r) ==
  /\ history[r] = "absent"
  /\ SaveRunStatus(r, "queued")
  /\ UNCHANGED <<queueVars, procVars, succeeded, bounds, cancelVars>>

RunPipeline(r) ==
  /\ history[r] = "queued"
  /\ EnqueueRun(r)
  /\ UNCHANGED <<procVars, history, succeeded, bounds, cancelVars>>

-----------------------------------------------------------------------------
(***************************************************************************)
(* POST /run/{id}/cancel in external mode: the row is looked at once, and  *)
(* then both tables are written whatever has become of it.                 *)
(***************************************************************************)

CancelGoes(r, from, to) ==
  /\ cancelling[r] = from
  /\ cancelling' = [cancelling EXCEPT ![r] = to]

CheckQueued(r) ==
  /\ status[r] = "queued"
  /\ CancelGoes(r, "no", "checked")
  /\ UNCHANGED <<queueVars, procVars, history, succeeded, bounds, overtaken>>

SaveCancelled(r) ==
  /\ CancelGoes(r, "checked", "saved")
  /\ SaveRunStatus(r, "cancelled")
  /\ UNCHANGED <<queueVars, procVars, succeeded, bounds, overtaken>>

\* No lease, so no fence: a run that was claimed in between is overwritten.
CancelRow(r) ==
  /\ CancelGoes(r, "saved", "cancelled")
  /\ SetStatusUnfenced(r, "cancelled")
  /\ overtaken' = IF status[r] = "queued" THEN overtaken
                  ELSE [overtaken EXCEPT ![r] = attempt[r]]
  /\ UNCHANGED <<procVars, history, succeeded, bounds>>

-----------------------------------------------------------------------------
(***************************************************************************)
(* The worker loop.                                                        *)
(***************************************************************************)

StartWorker(w) ==
  /\ Goto(w, "down", "sweep")
  /\ UNCHANGED <<queueVars, held, lost, outcome, history, succeeded, bounds, cancelVars>>

Sweep(w) ==
  /\ Goto(w, "sweep", "reap")
  /\ IF SweepOnStart THEN RecoverOrphanedRuns ELSE UNCHANGED queueVars
  /\ UNCHANGED <<held, lost, outcome, history, succeeded, bounds, cancelVars>>

\* Mutant of Reap: the worker goes straight to its claim.
ReapSkipped(w) ==
  /\ Goto(w, "reap", "claim")
  /\ UNCHANGED <<queueVars, held, lost, outcome, history, succeeded, bounds, cancelVars>>

\* Reap before claiming.
Reap(w) ==
  /\ Goto(w, "reap", "claim")
  /\ ReapExpiredLeases
  /\ UNCHANGED <<held, lost, outcome, history, succeeded, bounds, cancelVars>>

Claim(w) ==
  /\ Goto(w, "claim", "load")
  /\ \E r \in Run :
       /\ ClaimNextQueuedRun(w, r)
       /\ held' = [held EXCEPT ![w] = [run |-> r, worker |-> w,
                                       attempt |-> attempt[r] + 1]]
  /\ lost' = [lost EXCEPT ![w] = FALSE]
  /\ UNCHANGED <<outcome, history, succeeded, bounds, cancelVars>>

\* Nothing queued: sleep, then poll again.
Idle(w) ==
  /\ Goto(w, "claim", "reap")
  /\ \A r \in Run : status[r] # "queued"
  /\ UNCHANGED <<queueVars, held, lost, outcome, history, succeeded, bounds, cancelVars>>

\* LeaseHeartbeat.beat_once, in its own thread; it ends once a renewal fails.
BeatOnce(w) ==
  /\ pc[w] \in Beating
  /\ ~lost[w]
  /\ LET renewed == Matches(held[w]) /\ status[held[w].run] = "running"
     IN  IF renewed
         THEN RenewLease(held[w]) /\ UNCHANGED lost
         ELSE lost' = [lost EXCEPT ![w] = TRUE] /\ UNCHANGED queueVars
  /\ UNCHANGED <<pc, held, outcome, history, succeeded, bounds, cancelVars>>

-----------------------------------------------------------------------------
(***************************************************************************)
(* execute_pipeline_background.                                            *)
(***************************************************************************)

\* load_config and the DAG, before the try block.
Load(w) ==
  /\ Goto(w, "load", "begin")
  /\ UNCHANGED <<queueVars, held, lost, outcome, history, succeeded, bounds, cancelVars>>

Begin(w) ==
  /\ Goto(w, "begin", "announce")
  /\ SetRunStatusInQueue(w, "running")
  /\ UNCHANGED <<held, lost, outcome, history, succeeded, bounds, cancelVars>>

Announce(w) ==
  /\ Goto(w, "announce", "execute")
  /\ SaveRunStatus(held[w].run, "running")
  /\ UNCHANGED <<queueVars, held, lost, outcome, succeeded, bounds, cancelVars>>

\* The tasks run; how they end is open.
Execute(w) ==
  /\ Goto(w, "execute", "report")
  /\ \E s \in {"completed", "failed"} :
       /\ outcome' = [outcome EXCEPT ![w] = s]
       /\ succeeded' = IF s = "completed" THEN succeeded \cup {held[w]}
                                          ELSE succeeded
  /\ UNCHANGED <<queueVars, held, lost, history, bounds, cancelVars>>

Report(w) ==
  /\ Goto(w, "report", "record")
  /\ SetRunStatusInQueue(w, outcome[w])
  /\ UNCHANGED <<held, lost, outcome, history, succeeded, bounds, cancelVars>>

\* The history row is written whether or not the report was fenced out.
Record(w) ==
  /\ Goto(w, "record", "notify")
  /\ SaveRunStatus(held[w].run, outcome[w])
  /\ UNCHANGED <<queueVars, held, lost, outcome, succeeded, bounds, cancelVars>>

\* The run is over for this worker: the heartbeat stops, the loop goes on.
Release(w) ==
  /\ held' = [held EXCEPT ![w] = NULL]
  /\ lost' = [lost EXCEPT ![w] = FALSE]
  /\ outcome' = [outcome EXCEPT ![w] = NULL]

\* Mutant of Notify: the worker stays in its lease_context.
NotifyKeepsLease(w) ==
  /\ Goto(w, "notify", "reap")
  /\ UNCHANGED <<queueVars, held, lost, outcome, history, succeeded, bounds, cancelVars>>

\* Completion triggers or error handlers, then return.
Notify(w) ==
  /\ Goto(w, "notify", "reap")
  /\ Release(w)
  /\ UNCHANGED <<queueVars, history, succeeded, bounds, cancelVars>>

\* Something inside the try block raises: instead of its step.
RaiseInTry(w) ==
  /\ pc[w] \in TrySteps
  /\ faults < MaxFaults
  /\ pc' = [pc EXCEPT ![w] = "handle"]
  /\ faults' = faults + 1
  /\ UNCHANGED <<queueVars, held, lost, outcome, history, succeeded, crashes, cancelVars>>

\* The except block.
HandleFailure(w) ==
  /\ Goto(w, "handle", "record_failure")
  /\ SetRunStatusInQueue(w, "failed")
  /\ UNCHANGED <<held, lost, outcome, history, succeeded, bounds, cancelVars>>

RecordFailure(w) ==
  /\ Goto(w, "record_failure", "reap")
  /\ SaveRunStatus(held[w].run, "failed")
  /\ Release(w)
  /\ UNCHANGED <<queueVars, succeeded, bounds, cancelVars>>

-----------------------------------------------------------------------------
(***************************************************************************)
(* The except block of run_worker_once: load_config failed, or the except  *)
(* block above raised.  The heartbeat has stopped; a lease known to be     *)
(* lost is not reported under.                                             *)
(***************************************************************************)

RaiseOut(w) ==
  /\ pc[w] \in {"load", "handle", "record_failure"}
  /\ faults < MaxFaults
  /\ faults' = faults + 1
  /\ IF lost[w]
     THEN pc' = [pc EXCEPT ![w] = "reap"] /\ Release(w)
     ELSE pc' = [pc EXCEPT ![w] = "complete_failed"] /\ UNCHANGED <<held, lost, outcome>>
  /\ UNCHANGED <<queueVars, history, succeeded, crashes, cancelVars>>

CompleteFailed(w) ==
  /\ Goto(w, "complete_failed", "save_failed")
  /\ IF Matches(held[w]) /\ status[held[w].run] = "running"
     THEN CompleteRunWithLease(held[w], "failed") ELSE UNCHANGED queueVars
  /\ UNCHANGED <<held, lost, outcome, history, succeeded, bounds, cancelVars>>

SaveFailed(w) ==
  /\ Goto(w, "save_failed", "reap")
  /\ SaveRunStatus(held[w].run, "failed")
  /\ Release(w)
  /\ UNCHANGED <<queueVars, succeeded, bounds, cancelVars>>

\* SIGKILL: both threads are gone, the database keeps what was committed.
Crash(w) ==
  /\ pc[w] # "down"
  /\ crashes < MaxCrashes
  /\ crashes' = crashes + 1
  /\ pc' = [pc EXCEPT ![w] = "down"]
  /\ Release(w)
  /\ UNCHANGED <<queueVars, history, succeeded, faults, cancelVars>>

Time == Tick /\ UNCHANGED <<procVars, history, succeeded, bounds, cancelVars>>

-----------------------------------------------------------------------------
\* What the main thread of a live worker does next.
WorkerStep(w) ==
  \/ StartWorker(w) \/ Sweep(w) \/ Reap(w) \/ Claim(w) \/ Idle(w)
  \/ Load(w) \/ Begin(w) \/ Announce(w) \/ Execute(w) \/ Report(w)
  \/ Record(w) \/ Notify(w) \/ HandleFailure(w) \/ RecordFailure(w)
  \/ CompleteFailed(w) \/ SaveFailed(w)

Next ==
  \/ \E r \in Run : AnnounceQueued(r) \/ RunPipeline(r)
  \/ \E r \in Run : CheckQueued(r) \/ SaveCancelled(r) \/ CancelRow(r)
  \/ \E w \in Worker : WorkerStep(w)
  \/ \E w \in Worker : BeatOnce(w)
  \/ \E w \in Worker : RaiseInTry(w) \/ RaiseOut(w) \/ Crash(w)
  \/ Time

\* The supervisor restarts a dead worker, a live one keeps taking steps
\* (tasks end), and the clock advances.  Nothing is assumed of heartbeats,
\* submissions, errors or crashes.
Fairness ==
  /\ \A w \in Worker : WF_vars(WorkerStep(w))
  /\ WF_vars(Time)

Spec     == Init /\ [][Next]_vars
FairSpec == Spec /\ Fairness

-----------------------------------------------------------------------------
(***************************************************************************)
(* Properties.                                                             *)
(***************************************************************************)

\* The queue's types, and a worker holds a lease exactly while it has a run
\* in hand, a lease that the queue once returned to this worker.  A running
\* row always carries a deadline, so that the reaper can find it when its
\* worker dies: the orphan sweep skips rows that carry a worker.  Only a
\* cancellation that overwrote a claim can leave one without.
TypeOK ==
  /\ QueueTypeOK
  /\ pc \in [Worker -> PC]
  /\ lost \in [Worker -> BOOLEAN]
  /\ outcome \in [Worker -> {NULL, "completed", "failed"}]
  /\ history \in [Run -> {"absent", "queued", "running", "completed", "failed", "cancelled"}]
  /\ cancelling \in [Run -> {"no", "checked", "saved", "cancelled"}]
  /\ overtaken \in [Run -> 0..MaxAttempts \cup {NULL}]
  /\ succeeded \subseteq leases
  /\ \A w \in Worker :
       IF pc[w] \in Beating \cup {"complete_failed", "save_failed"}
       THEN held[w] \in leases /\ held[w].worker = w
       ELSE held[w] = NULL
  /\ \A r \in Run : status[r] = "running" /\ overtaken[r] = NULL => leaseLeft[r] # NULL

\* A run that the queue calls completed really was executed to the end by
\* the attempt the queue names: never by a sweep, never on the word of a
\* worker that was replaced.
CompletedHonest ==
  \A r \in Run : status[r] = "completed" =>
     \E l \in succeeded : l.run = r /\ l.attempt = attempt[r]

\* The queue under these workers keeps the promises of RunLifecycle to every
\* run, up to the moment a cancellation overwrites an attempt: the worker goes
\* on under its lease and writes over it, and nothing is promised any more.
\* A cancellation that found the run queued is final.
Lifecycle == INSTANCE RunLifecycle WITH
  phase <- [r \in Run |-> IF overtaken[r] = NULL THEN status[r] ELSE "cancelled"],
  token <- [r \in Run |-> IF overtaken[r] = NULL THEN attempt[r] ELSE overtaken[r]]

LifecycleSpec == Lifecycle!Spec

\* Every queued run reaches an outcome, however its workers crash, stall or
\* raise, as long as workers are restarted.
QueuedRunsSettle ==
  \A r \in Run : status[r] = "queued" ~> status[r] \in Terminal

\* README.md: "a stalled worker cannot report an outcome for the attempt that
\* replaced it".  Once the queue and the history agree that a run completed,
\* no worker reports a failure over it.
ReportedOutcomeStands ==
  [][\A r \in Run : status[r] = "completed" /\ history[r] = "completed"
                      => history'[r] # "failed"]_vars

\* recover_orphaned_runs: the reaper's runs are its own job, and sweeping
\* them would "turn a recoverable run into a failed one".  A run the reaper
\* requeued is not failed by a worker that starts up.
RequeuedNotSwept ==
  [][\A r \in Run : status[r] = "queued" /\ attempt[r] > 0
                      => status'[r] # "failed"]_vars

=============================================================================
