---------------------------- MODULE EmbeddedRuns ----------------------------
(***************************************************************************)
(* Embedded execution mode: the API process accepts runs, executes them on *)
(* its own thread pool (core/worker.py), cancels those the pool has not    *)
(* started, streams their logs, and may be killed and restarted.  Every    *)
(* database write and every pool call of a handler is a step of its own.   *)
(***************************************************************************)
EXTENDS Naturals, FiniteSets

CONSTANTS
  Job,        \* run ids
  Watched,    \* bound: those whose log somebody watches
  PoolSize,   \* PIPELINE_WORKERS
  QuietTicks, \* ticks of silence before a log stream may end
  MaxRestarts \* bound: restarts of the API

ASSUME EmbeddedAssumption ==
  /\ Watched \subseteq Job
  /\ PoolSize \in Nat \ {0} /\ QuietTicks \in Nat \ {0} /\ MaxRestarts \in Nat

VARIABLES
  up,       \* the API process is running
  restarts, \* how often it was restarted
  latest,   \* per job: the latest status in pipeline_runs
  row,      \* per job: the status in pipeline_queue
  submit,   \* per job: how far its submitting handler is
  cancel,   \* per job: how far the cancelling handler is
  future,   \* per job: the state of its future
  filed,    \* per job: _futures holds an entry
  hooked,   \* per job: the done callback is attached
  body,     \* per job: how far execute_pipeline_background is
  good,     \* per job: what executing the tasks returned
  unread,   \* per job: log lines no viewer has read
  viewer    \* per job: a number of silent ticks, StreamEnded or Absent

requestVars == <<submit, cancel>>
poolVars == <<future, filed, hooked>>
bodyVars == <<body, good>>
tableVars == <<latest, row>>
logVars == <<unread, viewer>>
embeddedVars == <<up, restarts, tableVars, requestVars, poolVars, bodyVars, logVars>>

StreamEnded == QuietTicks + 1
Absent == QuietTicks + 2
Final == {"completed", "failed", "cancelled"}
Pending(j) == future[j] = "pending"
Running(j) == future[j] = "running"
\* PipelineWorkerPool.is_running and is_pending go through the dictionary.
IsRunning(j) == filed[j] /\ Running(j)
IsPending(j) == filed[j] /\ Pending(j)

\* The endpoints are coroutines that never await: one handler at a time has
\* the event loop, the synchronous run endpoint for as long as its tasks take.
LoopFree ==
  \A j \in Job : /\ submit[j] \in {"new", "accepted", "answered", "gone"}
                /\ cancel[j] \in {"none", "confirmed", "refused", "broken"}

EmbeddedInit ==
  /\ up = TRUE /\ restarts = 0
  /\ latest = [j \in Job |-> "absent"] /\ row = [j \in Job |-> "absent"]
  /\ submit = [j \in Job |-> "new"] /\ cancel = [j \in Job |-> "none"]
  /\ future = [j \in Job |-> "absent"]
  /\ filed = [j \in Job |-> FALSE] /\ hooked = [j \in Job |-> FALSE]
  /\ body = [j \in Job |-> "idle"] /\ good = [j \in Job |-> FALSE]
  /\ unread = [j \in Job |-> FALSE] /\ viewer = [j \in Job |-> Absent]

------------------------------------------------------------------------
(* POST /run, POST /run/{id}/repair, POST /run/sync                        *)

SubmitGoes(j, from, to) == up /\ submit[j] = from /\ submit' = [submit EXCEPT ![j] = to]

AnnounceRun(j) ==
  /\ LoopFree
  /\ SubmitGoes(j, "new", "announced")
  /\ latest' = [latest EXCEPT ![j] = "queued"]
  /\ UNCHANGED <<up, restarts, row, cancel, poolVars, bodyVars, logVars>>

\* A repair is announced for a run whose record names a failed task.
AnnounceRepair(j) ==
  /\ \E parent \in Job \ {j} : latest[parent] = "failed" /\ body[parent] # "idle"
  /\ AnnounceRun(j)

EnqueueJob(j) ==
  /\ SubmitGoes(j, "announced", "enqueued")
  /\ row' = [row EXCEPT ![j] = "queued"]
  /\ UNCHANGED <<up, restarts, latest, cancel, poolVars, bodyVars, logVars>>

\* PipelineWorkerPool.submit: hand over, file the future, attach the callback.
HandOver(j) ==
  /\ SubmitGoes(j, "enqueued", "handed")
  /\ future' = [future EXCEPT ![j] = "pending"]
  /\ UNCHANGED <<up, restarts, tableVars, cancel, filed, hooked, bodyVars, logVars>>

FileFuture(j) ==
  /\ SubmitGoes(j, "handed", "filed")
  /\ filed' = [filed EXCEPT ![j] = TRUE]
  /\ UNCHANGED <<up, restarts, tableVars, cancel, future, hooked, bodyVars, logVars>>

\* Mutant of AttachCallback: a future that is already done stays filed.
AttachCallbackLate(j) ==
  /\ SubmitGoes(j, "filed", "accepted")
  /\ hooked' = [hooked EXCEPT ![j] = TRUE]
  /\ UNCHANGED <<up, restarts, tableVars, cancel, future, filed, bodyVars, logVars>>

\* A callback attached to a future that is already done runs at once.
AttachCallback(j) ==
  /\ SubmitGoes(j, "filed", "accepted")
  /\ hooked' = [hooked EXCEPT ![j] = TRUE]
  /\ filed' = [filed EXCEPT ![j] = @ /\ future[j] \notin {"done", "cancelled"}]
  /\ UNCHANGED <<up, restarts, tableVars, cancel, future, bodyVars, logVars>>

\* A write that raises ends the handler; what it announced stays announced.
SubmitFails(j) ==
  /\ \E from \in {"announced", "enqueued"} : SubmitGoes(j, from, "gone")
  /\ UNCHANGED <<up, restarts, tableVars, cancel, poolVars, bodyVars, logVars>>

\* The synchronous endpoint executes in the handler and reports afterwards;
\* it has no row in the queue and nothing before it ends.
RunSync(j) ==
  /\ LoopFree
  /\ SubmitGoes(j, "new", "sync")
  /\ UNCHANGED <<up, restarts, tableVars, cancel, poolVars, bodyVars, logVars>>

ReportSync(j) ==
  /\ SubmitGoes(j, "sync", "answered")
  /\ \E status \in {"completed", "failed", "absent"} : latest' = [latest EXCEPT ![j] = status]
  /\ UNCHANGED <<up, restarts, row, cancel, poolVars, bodyVars, logVars>>

------------------------------------------------------------------------
(* POST /run/{id}/cancel                                                   *)

CancelGoes(j, from, to) == up /\ cancel[j] = from /\ cancel' = [cancel EXCEPT ![j] = to]

\* Mutant of AskPool: what future.cancel() returned is not looked at.
AskPoolBlindly(j) ==
  /\ LoopFree
  /\ latest[j] # "absent" /\ filed[j]
  /\ CancelGoes(j, "none", "flagged")
  /\ future' = [future EXCEPT ![j] = IF Pending(j) THEN "cancelled" ELSE @]
  /\ filed' = [filed EXCEPT ![j] = ~(hooked[j] /\ Pending(j))]
  /\ UNCHANGED <<up, restarts, tableVars, submit, hooked, bodyVars, logVars>>

\* future.cancel() succeeds only before the pool starts the function.
AskPool(j) ==
  /\ LoopFree
  /\ latest[j] # "absent"
  /\ \/ /\ filed[j] /\ Pending(j)
        /\ CancelGoes(j, "none", "flagged")
        /\ future' = [future EXCEPT ![j] = "cancelled"]
        /\ filed' = [filed EXCEPT ![j] = ~hooked[j]]
     \/ /\ ~(filed[j] /\ Pending(j))
        /\ CancelGoes(j, "none", "refused")
        /\ UNCHANGED <<future, filed>>
  /\ UNCHANGED <<up, restarts, tableVars, submit, hooked, bodyVars, logVars>>

SaveCancelled(j) ==
  /\ CancelGoes(j, "flagged", "saved")
  /\ latest' = [latest EXCEPT ![j] = "cancelled"]
  /\ UNCHANGED <<up, restarts, row, submit, poolVars, bodyVars, logVars>>

CancelRow(j) ==
  /\ CancelGoes(j, "saved", "confirmed")
  /\ row' = [row EXCEPT ![j] = "cancelled"]
  /\ UNCHANGED <<up, restarts, latest, submit, poolVars, bodyVars, logVars>>

\* The future is cancelled and a table may never learn of it.
CancelFails(j) ==
  /\ \E from \in {"flagged", "saved"} : CancelGoes(j, from, "broken")
  /\ UNCHANGED <<up, restarts, tableVars, submit, poolVars, bodyVars, logVars>>

------------------------------------------------------------------------
(* A pool thread executing execute_pipeline_background                     *)

BodyGoes(j, from, to) == up /\ body[j] \in from /\ body' = [body EXCEPT ![j] = to]
\* Each run's handler sits on loggers that all runs share, so whatever one run
\* logs is in the file of every run that is open; a body that was abandoned may
\* have left its handler behind.
LogOpen(i) == body[i] \notin {"idle", "returned"}
Logs == unread' = [i \in Job |-> unread[i] \/ (i \in Watched /\ LogOpen(i))]

PoolStarts(j) ==
  /\ Pending(j) /\ Cardinality({i \in Job : Running(i)}) < PoolSize
  /\ BodyGoes(j, {"idle"}, "opened")
  /\ future' = [future EXCEPT ![j] = "running"]
  /\ UNCHANGED <<up, restarts, tableVars, requestVars, filed, hooked, good, logVars>>

MarkRunning(j) ==
  /\ BodyGoes(j, {"opened"}, "begun")
  /\ row' = [row EXCEPT ![j] = "running"]
  /\ UNCHANGED <<up, restarts, latest, requestVars, poolVars, good, logVars>>

ReportRunning(j) ==
  /\ BodyGoes(j, {"begun"}, "announced")
  /\ latest' = [latest EXCEPT ![j] = "running"]
  /\ UNCHANGED <<up, restarts, row, requestVars, poolVars, good, logVars>>

RunTasks(j) ==
  /\ BodyGoes(j, {"announced"}, "executed")
  /\ good' \in {[good EXCEPT ![j] = b] : b \in BOOLEAN}
  /\ Logs
  /\ UNCHANGED <<up, restarts, tableVars, requestVars, poolVars, viewer>>

Outcome(j) == IF good[j] THEN "completed" ELSE "failed"

SettleRow(j) ==
  /\ BodyGoes(j, {"executed"}, "settled")
  /\ row' = [row EXCEPT ![j] = Outcome(j)]
  /\ UNCHANGED <<up, restarts, latest, requestVars, poolVars, good, logVars>>

ReportOutcome(j) ==
  /\ BodyGoes(j, {"settled"}, "reported")
  /\ latest' = [latest EXCEPT ![j] = Outcome(j)]
  /\ Logs
  /\ UNCHANGED <<up, restarts, row, requestVars, poolVars, good, viewer>>

\* Any call of the try block may raise, reporting the outcome and what comes
\* after it included; the handler then fails the run in both tables.
RaiseInBody(j) ==
  /\ BodyGoes(j, {"opened", "begun", "announced", "executed", "settled", "reported"}, "raised")
  /\ UNCHANGED <<up, restarts, tableVars, requestVars, poolVars, good, logVars>>

FailRow(j) ==
  /\ BodyGoes(j, {"raised"}, "rowfailed")
  /\ row' = [row EXCEPT ![j] = "failed"]
  /\ UNCHANGED <<up, restarts, latest, requestVars, poolVars, good, logVars>>

\* Mutant of ReportFailure: the failure reaches the queue only.
ReportFailureNowhere(j) ==
  /\ BodyGoes(j, {"rowfailed"}, "closed")
  /\ Logs
  /\ UNCHANGED <<up, restarts, tableVars, requestVars, poolVars, good, viewer>>

ReportFailure(j) ==
  /\ BodyGoes(j, {"rowfailed"}, "closed")
  /\ latest' = [latest EXCEPT ![j] = "failed"]
  /\ Logs
  /\ UNCHANGED <<up, restarts, row, requestVars, poolVars, good, viewer>>

\* The future is done and its callback, once attached, forgets it.  What is
\* raised before the try block, or by its handler, ends in the future and the
\* run stays as it was last reported.
BodyReturns(j) ==
  /\ \/ BodyGoes(j, {"reported", "closed"}, "returned")
     \/ BodyGoes(j, {"opened", "raised", "rowfailed"}, "abandoned")
  /\ future' = [future EXCEPT ![j] = "done"]
  /\ filed' = [filed EXCEPT ![j] = @ /\ ~hooked[j]]
  /\ UNCHANGED <<up, restarts, tableVars, requestVars, hooked, good, logVars>>

------------------------------------------------------------------------
(* GET /run/{id}/logs/stream: one viewer to a run       *)

LogFile(j) == body[j] # "idle"
OpenStream(j) ==
  /\ up /\ LoopFree /\ j \in Watched /\ LogFile(j) /\ viewer[j] = Absent
  /\ viewer' = [viewer EXCEPT ![j] = 0]
  /\ UNCHANGED <<up, restarts, tableVars, requestVars, poolVars, bodyVars, unread>>

StreamTick(j) ==
  /\ up /\ LoopFree /\ viewer[j] \in 0..QuietTicks
  /\ LET quiet == IF unread[j] THEN 0 ELSE IF viewer[j] < QuietTicks THEN viewer[j] + 1 ELSE QuietTicks
     IN  viewer' = [viewer EXCEPT ![j] =
                      IF latest[j] \in Final /\ quiet >= QuietTicks THEN StreamEnded ELSE quiet]
  /\ unread' = [unread EXCEPT ![j] = FALSE]
  /\ UNCHANGED <<up, restarts, tableVars, requestVars, poolVars, bodyVars>>

------------------------------------------------------------------------
(* The process                                                             *)

\* Everything in memory is gone, handlers and streams included.
KillApi ==
  /\ up /\ restarts < MaxRestarts
  /\ up' = FALSE
  /\ submit' = [j \in Job |-> IF submit[j] = "new" THEN "new" ELSE "gone"]
  /\ cancel' = [j \in Job |-> IF cancel[j] = "confirmed" THEN "confirmed" ELSE "refused"]
  /\ future' = [j \in Job |-> "absent"]
  /\ filed' = [j \in Job |-> FALSE] /\ hooked' = [j \in Job |-> FALSE]
  /\ body' = [j \in Job |-> IF body[j] = "idle" THEN "idle" ELSE "returned"]
  /\ viewer' = [j \in Job |-> IF viewer[j] \in 0..QuietTicks THEN Absent ELSE viewer[j]]
  /\ UNCHANGED <<restarts, tableVars, good, unread>>

\* startup_event: recover_orphaned_runs fails the rows older than an hour.
StartApi ==
  /\ ~up
  /\ up' = TRUE /\ restarts' = restarts + 1
  /\ \E stale \in SUBSET {j \in Job : row[j] \in {"queued", "running"}} :
       row' = [j \in Job |-> IF j \in stale THEN "failed" ELSE row[j]]
  /\ UNCHANGED <<latest, requestVars, poolVars, bodyVars, logVars>>

HandlerStep(j) ==
  \/ EnqueueJob(j) \/ HandOver(j) \/ FileFuture(j) \/ AttachCallback(j) \/ ReportSync(j)
  \/ SubmitFails(j) \/ SaveCancelled(j) \/ CancelRow(j) \/ CancelFails(j)
BodyStep(j) ==
  \/ PoolStarts(j) \/ MarkRunning(j) \/ ReportRunning(j) \/ RunTasks(j) \/ SettleRow(j)
  \/ ReportOutcome(j) \/ RaiseInBody(j) \/ FailRow(j) \/ ReportFailure(j) \/ BodyReturns(j)
EmbeddedNext ==
  \/ KillApi \/ StartApi
  \/ \E j \in Job : \/ AnnounceRun(j) \/ AnnounceRepair(j) \/ RunSync(j) \/ AskPool(j)
                    \/ HandlerStep(j) \/ BodyStep(j) \/ OpenStream(j) \/ StreamTick(j)

\* A handler that has begun goes on, pool threads run, streams tick.
EmbeddedFairness ==
  \A j \in Job : /\ WF_embeddedVars(HandlerStep(j)) /\ WF_embeddedVars(BodyStep(j))
                 /\ WF_embeddedVars(StreamTick(j))
EmbeddedSpec == EmbeddedInit /\ [][EmbeddedNext]_embeddedVars /\ EmbeddedFairness

------------------------------------------------------------------------
EmbeddedTypeOK ==
  /\ up \in BOOLEAN /\ restarts \in 0..MaxRestarts
  /\ latest \in [Job -> {"absent", "queued", "running"} \cup Final]
  /\ row \in [Job -> {"absent", "queued", "running"} \cup Final]
  /\ submit \in [Job -> {"new", "announced", "enqueued", "handed", "filed", "accepted",
                         "sync", "answered", "gone"}]
  /\ cancel \in [Job -> {"none", "flagged", "saved", "confirmed", "refused", "broken"}]
  /\ future \in [Job -> {"absent", "pending", "running", "done", "cancelled"}]
  /\ filed \in [Job -> BOOLEAN] /\ hooked \in [Job -> BOOLEAN]
  /\ body \in [Job -> {"idle", "opened", "begun", "announced", "executed", "settled",
                       "reported", "raised", "rowfailed", "closed", "returned", "abandoned"}]
  /\ good \in [Job -> BOOLEAN] /\ unread \in [Job -> BOOLEAN]
  /\ viewer \in [Job -> 0..Absent]

\* A cancellation the client was told about stands: nothing of the run has
\* executed or ever will, and neither table says anything else afterwards,
\* not even when the process has died and a new one swept the queue.
CancelStands ==
  \A j \in Job : cancel[j] = "confirmed" =>
    body[j] = "idle" /\ latest[j] = "cancelled" /\ row[j] = "cancelled"

\* While the process lives no accepted run is forgotten and none is kept for
\* ever: a run whose handler is done is in the pool's dictionary exactly while
\* its future is pending or running, and is reported as unfinished only while
\* it is there, while its cancellation is being written or failed to be, or if
\* its body raised where nothing catches: before the try block or in its handler.
NoRunForgotten ==
  \A j \in Job : up /\ submit[j] = "accepted" =>
    /\ filed[j] <=> (Pending(j) \/ Running(j))
    /\ latest[j] \in {"queued", "running"} =>
         \/ IsPending(j) \/ IsRunning(j)
         \/ cancel[j] \in {"flagged", "broken"} \/ body[j] = "abandoned"

\* A viewer of a run's log is told the end, unless the process dies or the run
\* was abandoned: the run settles in pipeline_runs and the log falls silent.
\* (The log of a run that died with an earlier process is streamed for ever.)
StreamsEnd ==
  \A j \in Watched : (up /\ submit[j] # "gone" /\ viewer[j] = 0) ~>
               (viewer[j] = StreamEnded \/ ~up \/ body[j] = "abandoned")
===========================================================================
