------------------------------- MODULE RunQueue -------------------------------
(***************************************************************************)
(* The persistent run queue: table pipeline_queue and the functions of     *)
(* core/database.py that change it.  One variable is one column, as a      *)
(* function from run ids.  A function of database.py commits once before   *)
(* it returns, so each is one action.                                      *)
(*                                                                         *)
(* The clients are as general as they can be: whoever was ever handed a    *)
(* lease may use it at any later time, however stale it is.  A stalled     *)
(* worker that wakes up is therefore part of every behaviour.              *)
(*                                                                         *)
(* Time is counted in ticks.  lease_expires_at is kept as the ticks left   *)
(* (0 is expired), started_at and queued_at as ages that stop growing at   *)
(* StaleTicks, past which recover_orphaned_runs cannot tell them apart.    *)
(***************************************************************************)
EXTENDS Integers

CONSTANTS
  Run,          \* run ids
  Worker,       \* worker ids (generate_worker_id: one per worker process)
  NULL,         \* SQL NULL
  MaxAttempts,  \* max_attempts of reap_expired_leases
  LeaseTicks,   \* lease_seconds
  StaleTicks,   \* stale_after_seconds of recover_orphaned_runs
  Unfenced,     \* statuses written by callers whose thread holds no lease
  SkipLocked    \* the backend has FOR UPDATE SKIP LOCKED: PostgreSQL

Terminal == {"completed", "failed", "cancelled", "dead_letter"}
Status   == {"queued", "running"} \cup Terminal

ASSUME QueueAssumption ==
  /\ NULL \notin Worker
  /\ NULL \notin Int
  /\ MaxAttempts \in Nat \ {0}
  /\ LeaseTicks \in Nat \ {0}
  /\ StaleTicks \in Nat \ {0}
  /\ Unfenced \subseteq Status \ {"queued", "dead_letter"}
  /\ SkipLocked \in BOOLEAN

\* A claim on one run by one worker for one attempt (core/leases.py).
Lease == [run : Run, worker : Worker, attempt : 1..MaxAttempts]

VARIABLES
  status,     \* status; "absent" while the run has no row
  workerId,   \* worker_id
  attempt,    \* attempt, the fencing token
  leaseLeft,  \* lease_expires_at, in ticks from now
  startedAge, \* ticks since started_at
  queuedAge,  \* ticks since queued_at
  before,     \* the runs queued earlier: ORDER BY queued_at
  leases,     \* history: every lease a claim returned
  revoked     \* history: the leases the reaper took away

timeCols   == <<leaseLeft, startedAge, queuedAge>>
queueVars  == <<status, workerId, attempt, leaseLeft, startedAge, queuedAge,
                before, leases, revoked>>

QueueInit ==
  /\ status     = [r \in Run |-> "absent"]
  /\ workerId   = [r \in Run |-> NULL]
  /\ attempt    = [r \in Run |-> 0]
  /\ leaseLeft  = [r \in Run |-> NULL]
  /\ startedAge = [r \in Run |-> NULL]
  /\ queuedAge  = [r \in Run |-> 0]
  /\ before     = [r \in Run |-> {}]
  /\ leases     = {}
  /\ revoked    = {}

(***************************************************************************)
(* The conditions of the WHERE clauses.                                    *)
(***************************************************************************)

\* worker_id = :worker_id AND attempt = :attempt
Matches(l) ==
  /\ workerId[l.run] = l.worker
  /\ attempt[l.run] = l.attempt

\* Mutant of Expired: a lease counts as expired one tick early.
ExpiredEarly(r) ==
  /\ status[r] = "running"
  /\ leaseLeft[r] \in {0, 1}

\* The lease of the row has run out: lease_expires_at <= :now.
Expired(r) ==
  /\ status[r] = "running"
  /\ leaseLeft[r] = 0

\* Nobody holds the row, and COALESCE(started_at, queued_at) <= :cutoff.
Orphaned(r) ==
  /\ status[r] \in {"queued", "running"}
  /\ workerId[r] = NULL
  /\ IF startedAge[r] = NULL THEN queuedAge[r] = StaleTicks
                             ELSE startedAge[r] = StaleTicks

\* The head of the queue: the oldest row whose status is queued.
Oldest(r) ==
  /\ status[r] = "queued"
  /\ \A q \in before[r] : status[q] # "queued"

-----------------------------------------------------------------------------
(***************************************************************************)
(* The functions that write the table.                                     *)
(***************************************************************************)

EnqueueRun(r) ==
  /\ status[r] = "absent"
  /\ status' = [status EXCEPT ![r] = "queued"]
  /\ before' = [before EXCEPT ![r] = {q \in Run : status[q] # "absent"}]
  /\ UNCHANGED <<workerId, attempt, timeCols, leases, revoked>>

\* On PostgreSQL a claim that finds the head of the queue locked skips it, and
\* the holder of that lock is the claim that takes it.  Elsewhere a claim
\* lists candidates and takes the first that is still queued: an older row may
\* have been queued again since.
ClaimNextQueuedRun(w, r) ==
  /\ status[r] = "queued"
  /\ SkipLocked => Oldest(r)
  /\ status'     = [status EXCEPT ![r] = "running"]
  /\ workerId'   = [workerId EXCEPT ![r] = w]
  /\ attempt'    = [attempt EXCEPT ![r] = @ + 1]
  /\ startedAge' = [startedAge EXCEPT ![r] = 0]
  /\ leaseLeft'  = [leaseLeft EXCEPT ![r] = LeaseTicks]
  /\ leases'     = leases \cup
                     {[run |-> r, worker |-> w, attempt |-> attempt[r] + 1]}
  /\ UNCHANGED <<queuedAge, before, revoked>>

\* An expired lease that was not reaped yet can still be renewed.
RenewLease(l) ==
  /\ Matches(l)
  /\ status[l.run] = "running"
  /\ leaseLeft' = [leaseLeft EXCEPT ![l.run] = LeaseTicks]
  /\ UNCHANGED <<status, workerId, attempt, startedAge, queuedAge, before,
                 leases, revoked>>

\* The assignments of both branches of set_run_status_in_queue.
WriteStatus(r, s) ==
  /\ status' = [status EXCEPT ![r] = s]
  /\ IF s = "running"
     THEN /\ startedAge' = [startedAge EXCEPT ![r] = 0]
          /\ UNCHANGED leaseLeft
     ELSE /\ leaseLeft' = [leaseLeft EXCEPT ![r] = NULL]
          /\ UNCHANGED startedAge
  /\ UNCHANGED <<workerId, attempt, queuedAge, before, leases, revoked>>

\* Inside a lease_context: only worker and attempt are compared, not status.
SetStatusFenced(l, s) ==
  /\ Matches(l)
  /\ WriteStatus(l.run, s)

\* Outside any lease_context the write is unconditional.
SetStatusUnfenced(r, s) ==
  /\ status[r] # "absent"
  /\ WriteStatus(r, s)

CompleteRunWithLease(l, s) ==
  /\ status[l.run] = "running"
  /\ SetStatusFenced(l, s)

\* The expired rows are dead-lettered at the limit, and requeued below it.
ReapRows(limit) ==
  LET reaped == {r \in Run : Expired(r)}
      buried == {r \in reaped : attempt[r] >= limit}
  IN  /\ status' = [r \in Run |-> IF r \in buried THEN "dead_letter"
                                  ELSE IF r \in reaped THEN "queued"
                                  ELSE status[r]]
      /\ leaseLeft'  = [r \in Run |-> IF r \in reaped THEN NULL ELSE leaseLeft[r]]
      /\ startedAge' = [r \in Run |-> IF r \in reaped \ buried THEN NULL
                                      ELSE startedAge[r]]
      /\ revoked'    = revoked \cup {l \in leases : l.run \in reaped /\ Matches(l)}
      /\ UNCHANGED <<queuedAge, before, leases>>

ReleaseExpired == workerId' = [r \in Run |-> IF Expired(r) THEN NULL ELSE workerId[r]]

\* Mutants of ReapExpiredLeases: the limit is off by one in either direction,
\* the worker's name is left in the row, the attempts are counted from 0 again.
ReapOneLater    == ReapRows(MaxAttempts + 1) /\ ReleaseExpired /\ UNCHANGED attempt
ReapOneSooner   == ReapRows(MaxAttempts - 1) /\ ReleaseExpired /\ UNCHANGED attempt
ReapKeepsWorker == ReapRows(MaxAttempts) /\ UNCHANGED <<workerId, attempt>>
ReapStartsOver  ==
  /\ ReapRows(MaxAttempts)
  /\ ReleaseExpired
  /\ attempt' = [r \in Run |-> IF Expired(r) THEN 0 ELSE attempt[r]]

\* Both UPDATEs of the reaper, in one transaction over the whole table.
ReapExpiredLeases == ReapRows(MaxAttempts) /\ ReleaseExpired /\ UNCHANGED attempt

RecoverOrphanedRuns ==
  /\ status' = [r \in Run |-> IF Orphaned(r) THEN "failed" ELSE status[r]]
  /\ UNCHANGED <<workerId, attempt, timeCols, before, leases, revoked>>

\* One tick of the clock all of the deadlines above are compared with.
Tick ==
  /\ leaseLeft'  = [r \in Run |-> IF leaseLeft[r] \in 1..LeaseTicks
                                  THEN leaseLeft[r] - 1 ELSE leaseLeft[r]]
  /\ startedAge' = [r \in Run |-> IF startedAge[r] \in 0..(StaleTicks - 1)
                                  THEN startedAge[r] + 1 ELSE startedAge[r]]
  /\ queuedAge'  = [r \in Run |-> IF /\ status[r] # "absent"
                                     /\ queuedAge[r] < StaleTicks
                                  THEN queuedAge[r] + 1 ELSE queuedAge[r]]
  /\ UNCHANGED <<status, workerId, attempt, before, leases, revoked>>

-----------------------------------------------------------------------------
QueueNext ==
  \/ \E r \in Run : EnqueueRun(r)
  \/ \E w \in Worker, r \in Run : ClaimNextQueuedRun(w, r)
  \/ \E l \in leases : RenewLease(l)
  \/ \E l \in leases, s \in {"running", "completed", "failed"} :
       SetStatusFenced(l, s)
  \/ \E l \in leases, s \in {"completed", "failed"} : CompleteRunWithLease(l, s)
  \/ \E r \in Run, s \in Unfenced : SetStatusUnfenced(r, s)
  \/ ReapExpiredLeases
  \/ RecoverOrphanedRuns
  \/ Tick

QueueSpec == QueueInit /\ [][QueueNext]_queueVars

-----------------------------------------------------------------------------
(***************************************************************************)
(* Properties.                                                             *)
(***************************************************************************)

\* The columns hold what the schema of pipeline_queue says they hold.
QueueTypeOK ==
  /\ status     \in [Run -> Status \cup {"absent"}]
  /\ workerId   \in [Run -> Worker \cup {NULL}]
  /\ attempt    \in [Run -> 0..MaxAttempts]
  /\ leaseLeft  \in [Run -> (0..LeaseTicks) \cup {NULL}]
  /\ startedAge \in [Run -> (0..StaleTicks) \cup {NULL}]
  /\ queuedAge  \in [Run -> 0..StaleTicks]
  /\ before     \in [Run -> SUBSET Run]
  /\ leases     \subseteq Lease
  /\ revoked    \subseteq leases

\* The attempt counter works as a fencing token: two claims of one run, by
\* whichever workers and however often the reaper came between them, never
\* get the same token.
TokenUnique ==
  \A k, l \in leases : k.run = l.run /\ k.attempt = l.attempt => k = l

\* A worker that lost its run is fenced out for good: once the reaper took a
\* lease away, or a newer attempt was claimed, no fenced UPDATE made under it
\* finds its row -- even when the same worker holds the run again, and even
\* before anyone has claimed it again.
FencedOut ==
  \A l \in leases :
     (l \in revoked \/ \E k \in leases : k.run = l.run /\ k.attempt > l.attempt)
       => ~Matches(l)

\* A run is dead-lettered only after MaxAttempts claims, every one of which
\* ended with its lease running out; no shorter history buries a run, and no
\* run is claimed more often.
DeadLetterEarned ==
  \A r \in Run : status[r] = "dead_letter" =>
     \A n \in 1..MaxAttempts : \E l \in revoked : l.run = r /\ l.attempt = n

\* Slowness is not death: while a lease has time left, nobody else gets the
\* run, whatever the reaper, the orphan sweep or another worker's claim does.
LiveLeaseKept ==
  [][\A r \in Run : leaseLeft[r] \in 1..LeaseTicks =>
        /\ workerId'[r] = workerId[r]
        /\ attempt'[r] = attempt[r]
        /\ status'[r] # "queued"]_queueVars

=============================================================================
