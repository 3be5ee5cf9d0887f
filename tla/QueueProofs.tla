------------------------------- MODULE QueueProofs -------------------------------
(***************************************************************************)
(* Theorems about the persistent queue (RunQueue), which each function of  *)
(* database.py preserves, and about its workers (QueueWorkers), where the  *)
(* invariant of the queue is used and what is added relates the rows to    *)
(* the processes around them: for any number of runs and workers, any      *)
(* limits and any number of crashes and errors.                            *)
(***************************************************************************)
EXTENDS QueueWorkers, TLAPS

(*****************************************************************************)
(* The queue                                                                 *)
(*****************************************************************************)

\* A row that carries a deadline is a running row with a worker.
DeadlineHasHolder ==
  \A r \in Run : leaseLeft[r] # NULL =>
     status[r] = "running" /\ workerId[r] # NULL

\* The worker named by a row holds a lease for the attempt of the row, and
\* the reaper has not taken that lease away.
HolderHasLease ==
  \A r \in Run : workerId[r] # NULL =>
     [run |-> r, worker |-> workerId[r], attempt |-> attempt[r]]
       \in leases \ revoked

\* No lease is newer than the token of its row.
TokenNewest == \A l \in leases : l.attempt <= attempt[l.run]

\* A queued row has no worker, and an attempt left.
QueuedClaimable ==
  \A r \in Run : status[r] \in {"queued", "absent"} =>
     workerId[r] = NULL /\ attempt[r] < MaxAttempts

Revoked(r, n) == \E l \in revoked : l.run = r /\ l.attempt = n

\* Every attempt but the current one was taken away by the reaper; so was
\* the last one of a run that is queued again or dead-lettered.
EarlierRevoked ==
  \A r \in Run : \A n \in 1..MaxAttempts :
     /\ n < attempt[r] => Revoked(r, n)
     /\ /\ n <= attempt[r]
        /\ status[r] \in {"absent", "queued", "dead_letter"}
        => Revoked(r, n)

BuriedAtLimit ==
  \A r \in Run : status[r] = "dead_letter" => attempt[r] = MaxAttempts

IInv ==
  /\ QueueTypeOK
  /\ DeadlineHasHolder
  /\ HolderHasLease
  /\ TokenNewest
  /\ TokenUnique
  /\ QueuedClaimable
  /\ EarlierRevoked
  /\ BuriedAtLimit

-----------------------------------------------------------------------------
\* A lease is determined by its three fields.
LEMMA LeaseFields ==
  ASSUME NEW l \in Lease
  PROVE  /\ l.run \in Run
         /\ l.worker \in Worker
         /\ l.attempt \in 1..MaxAttempts
         /\ l = [run |-> l.run, worker |-> l.worker, attempt |-> l.attempt]
BY DEF Lease

\* A lease that matches its row is the one lease the row names.
LEMMA MatchingLease ==
  ASSUME IInv, NEW l \in leases, Matches(l)
  PROVE  /\ l \in leases \ revoked
         /\ l.run \in Run
         /\ workerId[l.run] # NULL
<1>1. l \in Lease
  BY DEF IInv, QueueTypeOK
<1>2. workerId[l.run] # NULL
  BY <1>1, LeaseFields, QueueAssumption DEF Matches
<1>. QED
  BY <1>1, <1>2, LeaseFields DEF IInv, HolderHasLease, Matches

-----------------------------------------------------------------------------
(***************************************************************************)
(* IInv holds initially, and every function of the queue preserves it.     *)
(***************************************************************************)

LEMMA InitInv == QueueInit => IInv
<1>. SUFFICES ASSUME QueueInit PROVE IInv
  OBVIOUS
<1>. USE DEF QueueInit
<1>1. QueueTypeOK
  BY QueueAssumption DEF QueueTypeOK, Status, Terminal
<1>2. TokenNewest /\ TokenUnique
  BY DEF TokenNewest, TokenUnique
<1>3. EarlierRevoked
  BY QueueAssumption DEF EarlierRevoked
<1>. QED
  BY <1>1, <1>2, <1>3, QueueAssumption
  DEF IInv, DeadlineHasHolder, HolderHasLease, QueuedClaimable, BuriedAtLimit

LEMMA EnqueueInv ==
  ASSUME IInv, NEW r \in Run, EnqueueRun(r)
  PROVE  IInv'
<1>. USE DEF IInv, EnqueueRun, timeCols
<1>1. QueueTypeOK'
  BY DEF QueueTypeOK, Status
<1>2. DeadlineHasHolder'
  BY DEF DeadlineHasHolder, QueueTypeOK
<1>3. HolderHasLease'
  BY DEF HolderHasLease
<1>4. TokenNewest' /\ TokenUnique'
  BY DEF TokenNewest, TokenUnique
<1>5. QueuedClaimable'
  BY DEF QueuedClaimable, QueueTypeOK
<1>6. EarlierRevoked'
  BY DEF EarlierRevoked, Revoked, QueueTypeOK
<1>7. BuriedAtLimit'
  BY DEF BuriedAtLimit, QueueTypeOK
<1>. QED
  BY <1>1, <1>2, <1>3, <1>4, <1>5, <1>6, <1>7

LEMMA ClaimInv ==
  ASSUME IInv, NEW w \in Worker, NEW r \in Run, ClaimNextQueuedRun(w, r)
  PROVE  IInv'
<1>. DEFINE l == [run |-> r, worker |-> w, attempt |-> attempt[r] + 1]
<1>0. status[r] = "queued" /\ workerId[r] = NULL /\ attempt[r] < MaxAttempts
  BY DEF IInv, ClaimNextQueuedRun, QueuedClaimable
<1>1. l \in Lease /\ attempt[r] \in Nat
  BY <1>0, QueueAssumption DEF IInv, QueueTypeOK, Lease
<1>2. leases' = leases \cup {l} /\ UNCHANGED revoked
  BY DEF ClaimNextQueuedRun
<1>3. \A k \in leases : k \in Lease /\ k.run \in Run /\ k.attempt \in Nat
  BY LeaseFields DEF IInv, QueueTypeOK
<1>4. \A k \in leases : k.run = r => k.attempt < l.attempt
  BY <1>1, <1>3 DEF IInv, TokenNewest
<1>5. l \notin revoked
  BY <1>4, <1>1, <1>3 DEF IInv, QueueTypeOK
<1>. USE DEF IInv, ClaimNextQueuedRun
<1>6. QueueTypeOK'
  BY <1>0, <1>1, <1>2, QueueAssumption DEF QueueTypeOK, Status
<1>7. DeadlineHasHolder'
  BY QueueAssumption DEF DeadlineHasHolder, QueueTypeOK
<1>8. HolderHasLease'
  <2>. SUFFICES ASSUME NEW q \in Run, workerId'[q] # NULL
                PROVE  [run |-> q, worker |-> workerId'[q], attempt |-> attempt'[q]]
                         \in leases' \ revoked'
    BY DEF HolderHasLease
  <2>1. CASE q = r
    BY <2>1, <1>2, <1>5 DEF QueueTypeOK
  <2>2. CASE q # r
    BY <2>2, <1>2, <1>5 DEF QueueTypeOK, HolderHasLease
  <2>. QED
    BY <2>1, <2>2
<1>9. TokenNewest'
  BY <1>1, <1>2, <1>3, <1>4 DEF TokenNewest, QueueTypeOK
<1>10. TokenUnique'
  BY <1>1, <1>2, <1>3, <1>4 DEF TokenUnique
<1>11. QueuedClaimable'
  BY DEF QueuedClaimable, QueueTypeOK
<1>12. EarlierRevoked'
  BY <1>0, <1>1, <1>2 DEF EarlierRevoked, Revoked, QueueTypeOK
<1>13. BuriedAtLimit'
  BY DEF BuriedAtLimit, QueueTypeOK
<1>. QED
  BY <1>6, <1>7, <1>8, <1>9, <1>10, <1>11, <1>12, <1>13

LEMMA RenewInv ==
  ASSUME IInv, NEW l \in leases, RenewLease(l)
  PROVE  IInv'
<1>. USE DEF IInv, RenewLease
<1>1. l.run \in Run /\ workerId[l.run] # NULL
  BY MatchingLease
<1>2. QueueTypeOK'
  BY <1>1, QueueAssumption DEF QueueTypeOK
<1>3. DeadlineHasHolder'
  BY <1>1 DEF DeadlineHasHolder, QueueTypeOK
<1>4. HolderHasLease' /\ TokenNewest' /\ TokenUnique'
  BY DEF HolderHasLease, TokenNewest, TokenUnique
<1>5. QueuedClaimable' /\ EarlierRevoked' /\ BuriedAtLimit'
  BY DEF QueuedClaimable, EarlierRevoked, Revoked, BuriedAtLimit
<1>. QED
  BY <1>2, <1>3, <1>4, <1>5

\* Both branches of set_run_status_in_queue.
LEMMA WriteStatusInv ==
  ASSUME IInv, NEW r \in Run, status[r] # "absent",
         NEW s \in Status \ {"queued", "dead_letter"}, WriteStatus(r, s)
  PROVE  IInv'
<1>. USE DEF IInv, WriteStatus
<1>1. QueueTypeOK'
  BY QueueAssumption DEF QueueTypeOK
<1>2. DeadlineHasHolder'
  BY QueueAssumption DEF DeadlineHasHolder, QueueTypeOK
<1>3. HolderHasLease' /\ TokenNewest' /\ TokenUnique'
  BY DEF HolderHasLease, TokenNewest, TokenUnique
<1>4. QueuedClaimable'
  BY DEF QueuedClaimable, QueueTypeOK, Status, Terminal
<1>5. EarlierRevoked'
  BY DEF EarlierRevoked, Revoked, QueueTypeOK, Status, Terminal
<1>6. BuriedAtLimit'
  BY DEF BuriedAtLimit, QueueTypeOK
<1>. QED
  BY <1>1, <1>2, <1>3, <1>4, <1>5, <1>6

LEMMA FencedInv ==
  ASSUME IInv, NEW l \in leases, NEW s \in {"running", "completed", "failed"},
         SetStatusFenced(l, s)
  PROVE  IInv'
<1>1. l.run \in Run /\ workerId[l.run] # NULL
  BY MatchingLease DEF SetStatusFenced
<1>2. status[l.run] # "absent"
  BY <1>1 DEF IInv, QueuedClaimable
<1>3. s \in Status \ {"queued", "dead_letter"}
  BY DEF Status, Terminal
<1>. QED
  BY <1>1, <1>2, <1>3, WriteStatusInv DEF SetStatusFenced

LEMMA ReapInv ==
  ASSUME IInv, ReapExpiredLeases
  PROVE  IInv'
<1>. DEFINE reaped == {r \in Run : Expired(r)}
            buried == {r \in reaped : attempt[r] >= MaxAttempts}
            token(r) == [run |-> r, worker |-> workerId[r], attempt |-> attempt[r]]
<1>. USE DEF IInv
<1>1. \A r \in reaped : /\ status[r] = "running"
                        /\ workerId[r] # NULL
                        /\ token(r) \in leases
  <2>. SUFFICES ASSUME NEW r \in Run, Expired(r)
                PROVE  status[r] = "running" /\ workerId[r] # NULL /\ token(r) \in leases
    OBVIOUS
  <2>1. status[r] = "running" /\ leaseLeft[r] # NULL
    BY QueueAssumption DEF Expired
  <2>. QED
    BY <2>1 DEF DeadlineHasHolder, HolderHasLease
<1>2. \A r \in reaped : token(r) \in revoked'
  BY <1>1 DEF ReapExpiredLeases, ReapRows, ReleaseExpired, Matches
<1>3. revoked \subseteq revoked' /\ UNCHANGED <<leases, attempt>>
  BY DEF ReapExpiredLeases, ReapRows, ReleaseExpired
<1>4. \A k \in revoked' : k \in revoked \/ k.run \in reaped
  BY DEF ReapExpiredLeases, ReapRows, ReleaseExpired
<1>. USE DEF ReapExpiredLeases, ReapRows, ReleaseExpired
<1>5. QueueTypeOK'
  BY QueueAssumption DEF QueueTypeOK, Status, Terminal
<1>6. DeadlineHasHolder'
  BY DEF DeadlineHasHolder, QueueTypeOK, Expired
<1>7. HolderHasLease'
  <2>. SUFFICES ASSUME NEW r \in Run, workerId'[r] # NULL
                PROVE  [run |-> r, worker |-> workerId'[r], attempt |-> attempt'[r]]
                         \in leases' \ revoked'
    BY DEF HolderHasLease
  <2>1. r \notin reaped /\ workerId'[r] = workerId[r]
    BY DEF QueueTypeOK
  <2>2. token(r) \in leases \ revoked
    BY <2>1 DEF HolderHasLease
  <2>. QED
    BY <2>1, <2>2, <1>3, <1>4
<1>8. TokenNewest' /\ TokenUnique'
  BY <1>3 DEF TokenNewest, TokenUnique
<1>9. QueuedClaimable'
  BY QueueAssumption DEF QueuedClaimable, QueueTypeOK
<1>10. EarlierRevoked'
  <2>. SUFFICES ASSUME NEW r \in Run, NEW n \in 1..MaxAttempts
                PROVE  /\ n < attempt[r] => Revoked(r, n)'
                       /\ /\ n <= attempt[r]
                          /\ status'[r] \in {"absent", "queued", "dead_letter"}
                          => Revoked(r, n)'
    BY <1>3 DEF EarlierRevoked
  <2>1. Revoked(r, n) => Revoked(r, n)'
    BY <1>3 DEF Revoked
  <2>2. CASE r \in reaped
    <3>1. Revoked(r, attempt[r])'
      BY <2>2, <1>2 DEF Revoked
    <3>2. attempt[r] \in Nat
      BY DEF QueueTypeOK
    <3>3. CASE n < attempt[r]
      BY <3>3, <2>1 DEF EarlierRevoked
    <3>4. CASE n = attempt[r]
      BY <3>4, <3>1
    <3>. QED
      BY <3>2, <3>3, <3>4
  <2>3. CASE r \notin reaped
    <3>1. status'[r] = status[r]
      BY <2>3
    <3>. QED
      BY <3>1, <2>1 DEF EarlierRevoked
  <2>. QED
    BY <2>2, <2>3
<1>11. BuriedAtLimit'
  BY QueueAssumption DEF BuriedAtLimit, QueueTypeOK
<1>. QED
  BY <1>5, <1>6, <1>7, <1>8, <1>9, <1>10, <1>11

LEMMA RecoverInv ==
  ASSUME IInv, RecoverOrphanedRuns
  PROVE  IInv'
<1>. USE DEF IInv, RecoverOrphanedRuns, timeCols
<1>1. QueueTypeOK'
  BY DEF QueueTypeOK, Status, Terminal
<1>2. DeadlineHasHolder'
  BY DEF DeadlineHasHolder, QueueTypeOK, Orphaned
<1>3. HolderHasLease' /\ TokenNewest' /\ TokenUnique'
  BY DEF HolderHasLease, TokenNewest, TokenUnique
<1>4. QueuedClaimable'
  BY DEF QueuedClaimable
<1>5. EarlierRevoked'
  BY DEF EarlierRevoked, Revoked
<1>6. BuriedAtLimit'
  BY DEF BuriedAtLimit
<1>. QED
  BY <1>1, <1>2, <1>3, <1>4, <1>5, <1>6

LEMMA TickInv ==
  ASSUME IInv, Tick
  PROVE  IInv'
<1>. USE DEF IInv, Tick
<1>1. QueueTypeOK'
  BY QueueAssumption DEF QueueTypeOK
<1>2. DeadlineHasHolder'
  BY QueueAssumption DEF DeadlineHasHolder, QueueTypeOK
<1>3. HolderHasLease' /\ TokenNewest' /\ TokenUnique'
  BY DEF HolderHasLease, TokenNewest, TokenUnique
<1>4. QueuedClaimable' /\ EarlierRevoked' /\ BuriedAtLimit'
  BY DEF QueuedClaimable, EarlierRevoked, Revoked, BuriedAtLimit
<1>. QED
  BY <1>1, <1>2, <1>3, <1>4

LEMMA StepInv == IInv /\ [QueueNext]_queueVars => IInv'
<1>. SUFFICES ASSUME IInv, [QueueNext]_queueVars PROVE IInv'
  OBVIOUS
<1>1. ASSUME NEW r \in Run, EnqueueRun(r) PROVE IInv'
  BY <1>1, EnqueueInv
<1>2. ASSUME NEW w \in Worker, NEW r \in Run, ClaimNextQueuedRun(w, r) PROVE IInv'
  BY <1>2, ClaimInv
<1>3. ASSUME NEW l \in leases, RenewLease(l) PROVE IInv'
  BY <1>3, RenewInv
<1>4. ASSUME NEW l \in leases, NEW s \in {"running", "completed", "failed"},
             SetStatusFenced(l, s)
      PROVE  IInv'
  BY <1>4, FencedInv
<1>5. ASSUME NEW l \in leases, NEW s \in {"completed", "failed"},
             CompleteRunWithLease(l, s)
      PROVE  IInv'
  <2>1. s \in {"running", "completed", "failed"}
    OBVIOUS
  <2>. QED
    BY <1>5, <2>1, FencedInv DEF CompleteRunWithLease
<1>6. ASSUME NEW r \in Run, NEW s \in Unfenced, SetStatusUnfenced(r, s) PROVE IInv'
  <2>1. s \in Status \ {"queued", "dead_letter"}
    BY QueueAssumption
  <2>. QED
    BY <1>6, <2>1, WriteStatusInv DEF SetStatusUnfenced
<1>7. CASE ReapExpiredLeases
  BY <1>7, ReapInv
<1>8. CASE RecoverOrphanedRuns
  BY <1>8, RecoverInv
<1>9. CASE Tick
  BY <1>9, TickInv
<1>10. CASE UNCHANGED queueVars
  BY <1>10 DEF queueVars, IInv, QueueTypeOK, DeadlineHasHolder, HolderHasLease,
     TokenNewest, TokenUnique, QueuedClaimable, EarlierRevoked, Revoked, BuriedAtLimit
<1>. QED
  BY <1>1, <1>2, <1>3, <1>4, <1>5, <1>6, <1>7, <1>8, <1>9, <1>10 DEF QueueNext

-----------------------------------------------------------------------------
(***************************************************************************)
(* The theorems.                                                           *)
(***************************************************************************)

\* The rows of the queue, their leases and what the reaper revoked agree.
THEOREM Invariance == QueueSpec => []IInv
BY InitInv, StepInv, PTL DEF QueueSpec

\* Every column of pipeline_queue keeps its type, and no history of claims
\* and reaps drives the attempt counter past max_attempts.
THEOREM TypeCorrect == QueueSpec => []QueueTypeOK
<1>1. IInv => QueueTypeOK
  BY DEF IInv
<1>. QED
  BY <1>1, Invariance, PTL

\* The attempt column is a fencing token: no two claims of a run share one.
THEOREM TokensAreUnique == QueueSpec => []TokenUnique
<1>1. IInv => TokenUnique
  BY DEF IInv
<1>. QED
  BY <1>1, Invariance, PTL

\* A worker that lost its run never matches its row again, so that none of
\* its fenced UPDATEs does anything.
THEOREM FencedOutForGood == QueueSpec => []FencedOut
<1>1. IInv => FencedOut
  <2>. SUFFICES ASSUME IInv, NEW l \in leases, Matches(l),
                       l \in revoked \/ \E k \in leases : /\ k.run = l.run
                                                          /\ k.attempt > l.attempt
                PROVE  FALSE
    BY DEF FencedOut
  <2>1. l \notin revoked
    BY MatchingLease
  <2>2. \A k \in leases : k.run = l.run => k.attempt <= l.attempt
    BY DEF IInv, TokenNewest, Matches
  <2>3. \A k \in leases : k.attempt \in Nat
    BY LeaseFields DEF IInv, QueueTypeOK
  <2>. QED
    BY <2>1, <2>2, <2>3
<1>. QED
  BY <1>1, Invariance, PTL

\* A run is dead-lettered only when each of its MaxAttempts leases ran out.
THEOREM DeadLettersAreEarned == QueueSpec => []DeadLetterEarned
<1>1. IInv => DeadLetterEarned
  <2>. SUFFICES ASSUME IInv, NEW r \in Run, status[r] = "dead_letter",
                       NEW n \in 1..MaxAttempts
                PROVE  Revoked(r, n)
    BY DEF DeadLetterEarned, Revoked
  <2>1. attempt[r] = MaxAttempts
    BY DEF IInv, BuriedAtLimit
  <2>2. n <= attempt[r]
    BY <2>1, QueueAssumption
  <2>. QED
    BY <2>2 DEF IInv, EarlierRevoked
<1>. QED
  BY <1>1, Invariance, PTL

\* While a lease has time left nobody takes the run from its holder.
THEOREM LiveLeasesAreKept == QueueSpec => LiveLeaseKept
<1>. DEFINE Kept(r) == leaseLeft[r] \in 1..LeaseTicks =>
                         /\ workerId'[r] = workerId[r]
                         /\ attempt'[r] = attempt[r]
                         /\ status'[r] # "queued"
<1>1. IInv /\ [QueueNext]_queueVars => [\A r \in Run : Kept(r)]_queueVars
  <2>. SUFFICES ASSUME IInv, QueueNext, NEW r \in Run, leaseLeft[r] \in 1..LeaseTicks
                PROVE  /\ workerId'[r] = workerId[r]
                       /\ attempt'[r] = attempt[r]
                       /\ status'[r] # "queued"
    BY DEF queueVars
  <2>0. status[r] = "running" /\ leaseLeft[r] # 0 /\ ~Expired(r)
    BY QueueAssumption DEF IInv, DeadlineHasHolder, Expired
  <2>. USE <2>0 DEF IInv, QueueTypeOK
  <2>1. ASSUME NEW q \in Run, EnqueueRun(q) PROVE Kept(r)
    BY <2>1 DEF EnqueueRun
  <2>2. ASSUME NEW w \in Worker, NEW q \in Run, ClaimNextQueuedRun(w, q) PROVE Kept(r)
    BY <2>2 DEF ClaimNextQueuedRun
  <2>3. ASSUME NEW l \in leases, RenewLease(l) PROVE Kept(r)
    BY <2>3 DEF RenewLease
  <2>4. ASSUME NEW q \in Run, NEW s \in Status \ {"queued", "dead_letter"},
               WriteStatus(q, s)
        PROVE  Kept(r)
    BY <2>4 DEF WriteStatus
  <2>5. ASSUME NEW l \in leases, NEW s \in {"running", "completed", "failed"},
               SetStatusFenced(l, s)
        PROVE  Kept(r)
    <3>1. l.run \in Run
      BY LeaseFields
    <3>2. s \in Status \ {"queued", "dead_letter"}
      BY DEF Status, Terminal
    <3>. QED
      BY <2>4, <2>5, <3>1, <3>2 DEF SetStatusFenced
  <2>6. ASSUME NEW q \in Run, NEW s \in Unfenced, SetStatusUnfenced(q, s) PROVE Kept(r)
    BY <2>4, <2>6, QueueAssumption DEF SetStatusUnfenced
  <2>7. CASE ReapExpiredLeases
    BY <2>7 DEF ReapExpiredLeases, ReapRows, ReleaseExpired
  <2>8. CASE RecoverOrphanedRuns
    BY <2>8 DEF RecoverOrphanedRuns
  <2>9. CASE Tick
    BY <2>9 DEF Tick
  <2>. QED
    BY <2>1, <2>2, <2>3, <2>5, <2>6, <2>7, <2>8, <2>9
    DEF QueueNext, CompleteRunWithLease
<1>. QED
  BY <1>1, Invariance, PTL DEF QueueSpec, LiveLeaseKept

(*****************************************************************************)
(* The workers                                                               *)
(*****************************************************************************)

Holding == Beating \cup {"complete_failed", "save_failed"}
Unreported == {"load", "begin", "announce", "execute", "report"}

\* Until its worker reports, an attempt's row says running.
RowRunsUntilReport ==
  \A w \in Worker :
    pc[w] \in Unreported /\ Matches(held[w]) /\ overtaken[held[w].run] = NULL
      => status[held[w].run] = "running"

\* A worker that reports has an outcome, and a good one was earned.
OutcomeEarned ==
  \A w \in Worker : pc[w] \in {"report", "record", "notify"} =>
    /\ outcome[w] # NULL
    /\ outcome[w] = "completed" => held[w] \in succeeded

\* A run is cancelled only by its cancellation, which comes once; a row that
\* was cancelled while queued, or dead-lettered, has no worker.
CancelledOnce ==
  \A r \in Run :
    /\ overtaken[r] # NULL => cancelling[r] = "cancelled" /\ status[r] # "absent"
    /\ status[r] = "cancelled" => cancelling[r] = "cancelled"
    /\ status[r] \in {"cancelled", "dead_letter"} /\ overtaken[r] = NULL
         => workerId[r] = NULL

\* The parts of TypeOK that are not the queue's.
ProcessesTyped ==
  /\ pc \in [Worker -> PC]
  /\ held \in [Worker -> Lease \cup {NULL}]
  /\ lost \in [Worker -> BOOLEAN]
  /\ outcome \in [Worker -> {NULL, "completed", "failed"}]
  /\ history \in [Run -> {"absent", "queued", "running", "completed", "failed", "cancelled"}]
  /\ cancelling \in [Run -> {"no", "checked", "saved", "cancelled"}]
  /\ overtaken \in [Run -> 0..MaxAttempts \cup {NULL}]
  /\ succeeded \subseteq leases
  /\ \A w \in Worker :
       IF pc[w] \in Holding THEN held[w] \in leases /\ held[w].worker = w
                            ELSE held[w] = NULL

RunningHasDeadline ==
  \A r \in Run : status[r] = "running" /\ overtaken[r] = NULL => leaseLeft[r] # NULL

RowsInv ==
  /\ IInv
  /\ RunningHasDeadline
  /\ RowRunsUntilReport
  /\ CancelledOnce
  /\ CompletedHonest

WInv == RowsInv /\ ProcessesTyped /\ OutcomeEarned

-----------------------------------------------------------------------------
\* A worker with a run in hand holds a lease of its own.
LEMMA HoldsLease ==
  ASSUME WInv, NEW w \in Worker, pc[w] \in Holding
  PROVE  /\ held[w] \in leases
         /\ held[w] \in Lease
         /\ held[w].run \in Run
         /\ held[w].worker = w
         /\ held[w].attempt \in Nat
<1>1. held[w] \in leases /\ held[w].worker = w
  BY DEF WInv, ProcessesTyped
<1>2. held[w] \in Lease
  BY <1>1 DEF WInv, RowsInv, IInv, QueueTypeOK
<1>. QED
  BY <1>1, <1>2, LeaseFields, QueueAssumption

\* A row that a held lease matches is neither waiting nor given up; if the
\* attempt was not overwritten and has not been reported, it is running.
LEMMA MatchedRow ==
  ASSUME WInv, NEW w \in Worker, pc[w] \in Holding, Matches(held[w])
  PROVE  LET r == held[w].run
         IN  /\ workerId[r] = w /\ w # NULL /\ attempt[r] = held[w].attempt
             /\ status[r] \notin {"absent", "queued"}
             /\ overtaken[r] = NULL => status[r] \in {"running", "completed", "failed"}
<1>1. workerId[held[w].run] = w /\ w # NULL /\ held[w].run \in Run
      /\ attempt[held[w].run] = held[w].attempt
  BY HoldsLease, QueueAssumption DEF Matches
<1>2. status[held[w].run] \in Status \cup {"absent"}
  BY <1>1 DEF WInv, RowsInv, IInv, QueueTypeOK
<1>. QED
  BY <1>1, <1>2 DEF WInv, RowsInv, IInv, QueuedClaimable, CancelledOnce, Status, Terminal

LEMMA SameQueueInv == ASSUME IInv, UNCHANGED queueVars PROVE IInv'
BY StepInv

LEMMA WInit == Init => WInv
<1>. SUFFICES ASSUME Init PROVE WInv
  OBVIOUS
<1>1. IInv
  BY InitInv DEF Init
<1>2. ProcessesTyped /\ RunningHasDeadline
  BY DEF Init, QueueInit, ProcessesTyped, RunningHasDeadline, Holding, PC, Beating, TrySteps
<1>3. RowRunsUntilReport /\ OutcomeEarned
  BY DEF Init, RowRunsUntilReport, OutcomeEarned, Unreported
<1>4. CancelledOnce /\ CompletedHonest
  BY DEF Init, QueueInit, CancelledOnce, CompletedHonest
<1>. QED
  BY <1>1, <1>2, <1>3, <1>4 DEF WInv, RowsInv


-----------------------------------------------------------------------------
(***************************************************************************)
(* The processes.                                                          *)
(***************************************************************************)

\* Leases are only ever added.
LEMMA LeasesGrow == Next => leases \subseteq leases'
<1>. SUFFICES ASSUME Next PROVE leases \subseteq leases'
  OBVIOUS
<1>1. ASSUME NEW l, NEW s, SetStatusFenced(l, s) \/ SetStatusUnfenced(l, s)
      PROVE  leases' = leases
  BY <1>1 DEF SetStatusFenced, SetStatusUnfenced, WriteStatus
<1>2. ASSUME NEW w \in Worker, NEW s, SetRunStatusInQueue(w, s) PROVE leases' = leases
  BY <1>1, <1>2 DEF SetRunStatusInQueue, queueVars
<1>3. ASSUME ReapExpiredLeases \/ RecoverOrphanedRuns \/ Tick PROVE leases' = leases
  BY <1>3 DEF ReapExpiredLeases, ReapRows, RecoverOrphanedRuns, Tick
<1>4. ASSUME NEW w \in Worker, NEW r \in Run, ClaimNextQueuedRun(w, r)
      PROVE  leases \subseteq leases'
  BY <1>4 DEF ClaimNextQueuedRun
<1>5. ASSUME NEW w \in Worker, WorkerStep(w) \/ BeatOnce(w) PROVE leases \subseteq leases'
  BY <1>1, <1>2, <1>3, <1>4, <1>5
  DEF WorkerStep, BeatOnce, RenewLease, StartWorker, Sweep, Reap, Claim, Idle, Load, Begin,
      Announce, Execute, Report, Record, Notify, HandleFailure, RecordFailure,
      CompleteFailed, CompleteRunWithLease, SaveFailed, queueVars
<1>6. ASSUME NEW r \in Run, \/ AnnounceQueued(r) \/ RunPipeline(r) \/ CheckQueued(r)
                            \/ SaveCancelled(r) \/ CancelRow(r)
      PROVE  leases' = leases
  BY <1>1, <1>6 DEF AnnounceQueued, RunPipeline, EnqueueRun, CheckQueued, SaveCancelled,
     CancelRow, queueVars
<1>. QED
  BY <1>3, <1>5, <1>6 DEF Next, RaiseInTry, RaiseOut, Crash, Time, queueVars

LEMMA ProcessesStep ==
  ASSUME WInv, Next
  PROVE  ProcessesTyped' /\ OutcomeEarned'
<1>. USE DEF WInv, ProcessesTyped, Holding, PC, Beating, TrySteps
<1>0. leases \subseteq leases'
  BY LeasesGrow
<1>1. ASSUME NEW r \in Run, \/ AnnounceQueued(r) \/ RunPipeline(r) \/ CheckQueued(r)
                            \/ SaveCancelled(r)
      PROVE  ProcessesTyped' /\ OutcomeEarned'
  BY <1>0, <1>1 DEF AnnounceQueued, RunPipeline, CheckQueued, SaveCancelled, CancelGoes,
     SaveRunStatus, procVars, cancelVars, OutcomeEarned
<1>2. ASSUME NEW r \in Run, CancelRow(r)
      PROVE  ProcessesTyped' /\ OutcomeEarned'
  <2>1. attempt[r] \in 0..MaxAttempts
    BY DEF RowsInv, IInv, QueueTypeOK
  <2>. QED
    BY <1>0, <1>2, <2>1 DEF CancelRow, CancelGoes, procVars, OutcomeEarned
<1>3. ASSUME NEW w \in Worker, \/ StartWorker(w) \/ Sweep(w) \/ Reap(w) \/ Idle(w)
                               \/ Load(w) \/ Begin(w) \/ HandleFailure(w)
                               \/ CompleteFailed(w) \/ BeatOnce(w)
      PROVE  ProcessesTyped' /\ OutcomeEarned'
  <2>1. UNCHANGED <<held, outcome, history, succeeded, cancelling, overtaken>>
    BY <1>3 DEF StartWorker, Sweep, Reap, Idle, Load, Begin, HandleFailure,
       CompleteFailed, BeatOnce, cancelVars
  <2>2. lost' \in [Worker -> BOOLEAN]
    BY <1>3 DEF StartWorker, Sweep, Reap, Idle, Load, Begin, HandleFailure,
       CompleteFailed, BeatOnce
  <2>3. /\ pc' \in [Worker -> PC]
        /\ \A v \in Worker : pc'[v] \in Holding <=> pc[v] \in Holding
        /\ \A v \in Worker : pc'[v] \in {"report", "record", "notify"} => pc[v] = pc'[v]
    BY <1>3 DEF StartWorker, Sweep, Reap, Idle, Load, Begin, HandleFailure,
       CompleteFailed, BeatOnce, Goto
  <2>. QED
    BY <1>0, <2>1, <2>2, <2>3 DEF OutcomeEarned
<1>4. ASSUME NEW w \in Worker, Claim(w)
      PROVE  ProcessesTyped' /\ OutcomeEarned'
  <2>1. PICK r \in Run :
          /\ ClaimNextQueuedRun(w, r)
          /\ held' = [held EXCEPT ![w] = [run |-> r, worker |-> w, attempt |-> attempt[r] + 1]]
    BY <1>4 DEF Claim
  <2>3. held'[w] \in leases' /\ held'[w].worker = w /\ held'[w] \in Lease
    <3>1. attempt[r] \in 0..MaxAttempts /\ attempt[r] < MaxAttempts
      BY <2>1 DEF RowsInv, IInv, QueueTypeOK, QueuedClaimable, ClaimNextQueuedRun
    <3>. QED
      BY <2>1, <3>1, QueueAssumption DEF ClaimNextQueuedRun, Lease
  <2>2. \A v \in Worker \ {w} : held'[v] = held[v]
    BY <1>4 DEF Claim
  <2>. QED
    BY <1>0, <1>4, <2>2, <2>3 DEF Claim, Goto, cancelVars, OutcomeEarned
<1>5. ASSUME NEW w \in Worker, Announce(w) \/ Report(w) \/ Record(w)
      PROVE  ProcessesTyped' /\ OutcomeEarned'
  <2>1. held[w].run \in Run
    BY <1>5, HoldsLease DEF Announce, Report, Record, Goto
  <2>. QED
    BY <1>0, <1>5, <2>1 DEF Announce, Report, Record, Goto, SaveRunStatus, cancelVars,
       OutcomeEarned
<1>6. ASSUME NEW w \in Worker, Execute(w)
      PROVE  ProcessesTyped' /\ OutcomeEarned'
  <2>1. PICK s \in {"completed", "failed"} :
          /\ outcome' = [outcome EXCEPT ![w] = s]
          /\ succeeded' = IF s = "completed" THEN succeeded \cup {held[w]} ELSE succeeded
    BY <1>6 DEF Execute
  <2>2. pc[w] = "execute" /\ pc' = [pc EXCEPT ![w] = "report"]
    BY <1>6 DEF Execute, Goto
  <2>3. UNCHANGED <<held, lost, history, cancelling, overtaken>>
    BY <1>6 DEF Execute, cancelVars
  <2>4. held[w] \in leases
    BY <2>2
  <2>5. succeeded' \subseteq leases' /\ succeeded \subseteq succeeded'
    BY <1>0, <2>1, <2>4
  <2>6. ProcessesTyped'
    BY <1>0, <2>1, <2>2, <2>3, <2>5
  <2>7. OutcomeEarned'
    <3>. SUFFICES ASSUME NEW v \in Worker, pc'[v] \in {"report", "record", "notify"}
                  PROVE  /\ outcome'[v] # NULL
                         /\ outcome'[v] = "completed" => held'[v] \in succeeded'
      BY DEF OutcomeEarned
    <3>1. CASE v = w
      BY <3>1, <2>1, <2>3, WorkersAssumption DEF Terminal
    <3>2. CASE v # w
      <4>1. pc'[v] = pc[v] /\ outcome'[v] = outcome[v] /\ held'[v] = held[v]
        BY <3>2, <2>1, <2>2, <2>3
      <4>. QED
        BY <4>1, <2>5 DEF OutcomeEarned
    <3>. QED
      BY <3>1, <3>2
  <2>. QED
    BY <2>6, <2>7
<1>7. ASSUME NEW w \in Worker, NEW to \in PC \ Holding,
             pc' = [pc EXCEPT ![w] = to], Release(w),
             history' \in [Run -> {"absent", "queued", "running", "completed",
                                   "failed", "cancelled"}],
             UNCHANGED <<succeeded, cancelling, overtaken>>
      PROVE  ProcessesTyped' /\ OutcomeEarned'
  <2>1. ProcessesTyped'
    BY <1>0, <1>7 DEF Release
  <2>2. OutcomeEarned'
    BY <1>7 DEF OutcomeEarned, Release
  <2>. QED
    BY <2>1, <2>2
<1>8. ASSUME NEW w \in Worker, \/ Notify(w) \/ RecordFailure(w) \/ SaveFailed(w)
                               \/ Crash(w)
      PROVE  ProcessesTyped' /\ OutcomeEarned'
  <2>1. Release(w) /\ UNCHANGED <<succeeded, cancelling, overtaken>>
    BY <1>8 DEF Notify, RecordFailure, SaveFailed, Crash, cancelVars
  <2>2. \/ pc' = [pc EXCEPT ![w] = "reap"]
        \/ pc' = [pc EXCEPT ![w] = "down"]
    BY <1>8 DEF Notify, RecordFailure, SaveFailed, Crash, Goto
  <2>3. history' \in [Run -> {"absent", "queued", "running", "completed",
                               "failed", "cancelled"}]
    BY <1>8 DEF Notify, RecordFailure, SaveFailed, Crash, SaveRunStatus
  <2>4. "reap" \in PC \ Holding /\ "down" \in PC \ Holding
    OBVIOUS
  <2>. QED
    BY <1>7, <2>1, <2>2, <2>3, <2>4
<1>10. ASSUME NEW w \in Worker, NEW to \in {"handle", "complete_failed"},
              pc[w] \in Holding, pc' = [pc EXCEPT ![w] = to],
              UNCHANGED <<held, lost, outcome, history, succeeded, cancelling, overtaken>>
       PROVE  ProcessesTyped' /\ OutcomeEarned'
  BY <1>0, <1>10 DEF OutcomeEarned
<1>11. ASSUME NEW w \in Worker, RaiseInTry(w) \/ RaiseOut(w)
       PROVE  ProcessesTyped' /\ OutcomeEarned'
  <2>1. pc[w] \in Holding /\ UNCHANGED <<history, succeeded, cancelling, overtaken>>
    BY <1>11 DEF RaiseInTry, RaiseOut, cancelVars
  <2>2. \/ pc' = [pc EXCEPT ![w] = "reap"] /\ Release(w)
        \/ pc' = [pc EXCEPT ![w] = "handle"] /\ UNCHANGED <<held, lost, outcome>>
        \/ pc' = [pc EXCEPT ![w] = "complete_failed"] /\ UNCHANGED <<held, lost, outcome>>
    BY <1>11 DEF RaiseInTry, RaiseOut
  <2>3. "reap" \in PC \ Holding
    OBVIOUS
  <2>. QED
    BY <1>7, <1>10, <2>1, <2>2, <2>3
<1>9. CASE Time
  BY <1>0, <1>9 DEF Time, procVars, cancelVars, OutcomeEarned
<1>. QED
  BY <1>1, <1>2, <1>3, <1>4, <1>5, <1>6, <1>8, <1>9, <1>11 DEF Next, WorkerStep

-----------------------------------------------------------------------------
(***************************************************************************)
(* The rows.  First each function of the queue, for the processes as they  *)
(* are; then what the processes do with it.                                *)
(***************************************************************************)

Still(l) == Matches(l) /\ overtaken[l.run] = NULL => status[l.run] = "running"

\* Everything in RowsInv', with the workers where they were.
RowsKept ==
  /\ IInv'
  /\ RunningHasDeadline'
  /\ \A w \in Worker : pc[w] \in Unreported =>
       ((workerId'[held[w].run] = held[w].worker /\ attempt'[held[w].run] = held[w].attempt
          /\ overtaken'[held[w].run] = NULL) => status'[held[w].run] = "running")
  /\ CancelledOnce'
  /\ CompletedHonest'

LEMMA NoQueueStep ==
  ASSUME WInv, UNCHANGED <<queueVars, overtaken>>, succeeded \subseteq succeeded',
         \A r \in Run : cancelling'[r] = cancelling[r] \/ cancelling[r] # "cancelled"
  PROVE  RowsKept
<1>. USE DEF WInv, RowsInv, queueVars
<1>1. IInv'
  BY StepInv
<1>2. CancelledOnce'
  BY DEF CancelledOnce
<1>. QED
  BY <1>1, <1>2 DEF RowsKept, RunningHasDeadline, RowRunsUntilReport, Matches, CompletedHonest

LEMMA EnqueueRows ==
  ASSUME WInv, NEW r \in Run, EnqueueRun(r), UNCHANGED <<succeeded, cancelling, overtaken>>
  PROVE  RowsKept
<1>. USE DEF WInv, RowsInv, EnqueueRun
<1>1. IInv'
  BY EnqueueInv
<1>2. status' = [status EXCEPT ![r] = "queued"] /\ status \in [Run -> Status \cup {"absent"}]
  BY DEF IInv, QueueTypeOK
<1>3. RunningHasDeadline' /\ CancelledOnce' /\ CompletedHonest'
  BY <1>2 DEF RunningHasDeadline, CancelledOnce, CompletedHonest, timeCols
<1>4. \A w \in Worker : pc[w] \in Unreported =>
        ((workerId'[held[w].run] = held[w].worker /\ attempt'[held[w].run] = held[w].attempt
          /\ overtaken'[held[w].run] = NULL) => status'[held[w].run] = "running")
  <2>. SUFFICES ASSUME NEW w \in Worker, pc[w] \in Unreported, Matches(held[w]),
                       overtaken[held[w].run] = NULL
                PROVE  status'[held[w].run] = "running"
    BY DEF Matches
  <2>1. status[held[w].run] = "running" /\ held[w].run \in Run
    BY HoldsLease DEF RowRunsUntilReport, Unreported, Holding, Beating, TrySteps
  <2>. QED
    BY <2>1, <1>2
<1>. QED
  BY <1>1, <1>3, <1>4 DEF RowsKept

LEMMA RenewRows ==
  ASSUME WInv, NEW l \in leases, RenewLease(l), UNCHANGED <<succeeded, cancelling, overtaken>>
  PROVE  RowsKept
<1>. USE DEF WInv, RowsInv, RenewLease
<1>1. IInv'
  BY RenewInv
<1>2. RunningHasDeadline'
  BY QueueAssumption DEF RunningHasDeadline, IInv, QueueTypeOK
<1>3. CancelledOnce' /\ CompletedHonest'
  BY DEF CancelledOnce, CompletedHonest
<1>. QED
  BY <1>1, <1>2, <1>3 DEF RowsKept, RowRunsUntilReport, Matches

LEMMA ReapRowsKept ==
  ASSUME WInv, ReapExpiredLeases, UNCHANGED <<succeeded, cancelling, overtaken>>
  PROVE  RowsKept
<1>. USE DEF WInv, RowsInv
<1>1. IInv'
  BY ReapInv
<1>2. \A r \in Run :
        \/ /\ Expired(r) /\ status[r] = "running"
           /\ status'[r] \in {"queued", "dead_letter"} /\ workerId'[r] = NULL
        \/ UNCHANGED <<status[r], workerId[r], leaseLeft[r]>>
  BY DEF ReapExpiredLeases, ReapRows, ReleaseExpired, Expired, IInv, QueueTypeOK
<1>3. UNCHANGED attempt
  BY DEF ReapExpiredLeases
<1>4. RunningHasDeadline' /\ CompletedHonest'
  BY <1>2, <1>3 DEF RunningHasDeadline, CompletedHonest
<1>5. CancelledOnce'
  BY <1>2 DEF CancelledOnce
<1>6. \A w \in Worker : pc[w] \in Unreported =>
        ((workerId'[held[w].run] = held[w].worker /\ attempt'[held[w].run] = held[w].attempt
          /\ overtaken'[held[w].run] = NULL) => status'[held[w].run] = "running")
  <2>. SUFFICES ASSUME NEW w \in Worker, pc[w] \in Unreported,
                       workerId'[held[w].run] = held[w].worker,
                       attempt[held[w].run] = held[w].attempt,
                       overtaken[held[w].run] = NULL
                PROVE  status'[held[w].run] = "running"
    BY <1>3
  <2>1. held[w].run \in Run /\ held[w].worker = w
    BY HoldsLease DEF Unreported, Holding, Beating, TrySteps
  <2>2. status'[held[w].run] = status[held[w].run] /\ workerId'[held[w].run] = workerId[held[w].run]
    BY <2>1, <1>2, QueueAssumption
  <2>. QED
    BY <2>2 DEF RowRunsUntilReport, Matches
<1>. QED
  BY <1>1, <1>4, <1>5, <1>6 DEF RowsKept

\* A running row that was not overwritten has a worker: the sweep only fails
\* rows that are queued.
LEMMA SweptAreQueued ==
  ASSUME WInv, NEW r \in Run, Orphaned(r), overtaken[r] = NULL
  PROVE  status[r] = "queued"
BY DEF WInv, RowsInv, IInv, RunningHasDeadline, DeadlineHasHolder, Orphaned

LEMMA RecoverRows ==
  ASSUME WInv, RecoverOrphanedRuns, UNCHANGED <<succeeded, cancelling, overtaken>>
  PROVE  RowsKept
<1>. USE DEF WInv, RowsInv
<1>1. IInv'
  BY RecoverInv
<1>2. UNCHANGED <<workerId, attempt, leaseLeft>>
  BY DEF RecoverOrphanedRuns, timeCols
<1>3. \A r \in Run : IF Orphaned(r) THEN /\ status'[r] = "failed" /\ workerId[r] = NULL
                                         /\ status[r] \in {"queued", "running"}
                                    ELSE status'[r] = status[r]
  BY DEF RecoverOrphanedRuns, Orphaned
<1>4. RunningHasDeadline' /\ CompletedHonest' /\ CancelledOnce'
  BY <1>2, <1>3 DEF RunningHasDeadline, CompletedHonest, CancelledOnce
<1>5. \A w \in Worker : pc[w] \in Unreported =>
        ((workerId'[held[w].run] = held[w].worker /\ attempt'[held[w].run] = held[w].attempt
          /\ overtaken'[held[w].run] = NULL) => status'[held[w].run] = "running")
  <2>. SUFFICES ASSUME NEW w \in Worker, pc[w] \in Unreported, Matches(held[w]),
                       overtaken[held[w].run] = NULL
                PROVE  status'[held[w].run] = "running"
    BY <1>2 DEF Matches
  <2>1. held[w].run \in Run /\ workerId[held[w].run] # NULL
    BY HoldsLease, QueueAssumption DEF Unreported, Holding, Beating, TrySteps, Matches
  <2>. QED
    BY <2>1, <1>3 DEF RowRunsUntilReport
<1>. QED
  BY <1>1, <1>4, <1>5 DEF RowsKept

LEMMA TickRows ==
  ASSUME WInv, Tick, UNCHANGED <<succeeded, cancelling, overtaken>>
  PROVE  RowsKept
<1>. USE DEF WInv, RowsInv
<1>1. IInv'
  BY TickInv
<1>2. UNCHANGED <<status, workerId, attempt>>
  BY DEF Tick
<1>3. RunningHasDeadline'
  BY <1>2, QueueAssumption DEF Tick, RunningHasDeadline, IInv, QueueTypeOK
<1>. QED
  BY <1>1, <1>2, <1>3 DEF RowsKept, RowRunsUntilReport, Matches, CancelledOnce, CompletedHonest

LEMMA ClaimRows ==
  ASSUME WInv, NEW v \in Worker, pc[v] = "claim", NEW r \in Run, ClaimNextQueuedRun(v, r),
         UNCHANGED <<succeeded, cancelling, overtaken>>
  PROVE  RowsKept
<1>. USE DEF WInv, RowsInv
<1>1. IInv'
  BY ClaimInv
<1>2. /\ status[r] = "queued"
      /\ status' = [status EXCEPT ![r] = "running"]
      /\ workerId' = [workerId EXCEPT ![r] = v]
      /\ attempt' = [attempt EXCEPT ![r] = @ + 1]
      /\ leaseLeft' = [leaseLeft EXCEPT ![r] = LeaseTicks]
  BY DEF ClaimNextQueuedRun
<1>3. /\ status \in [Run -> Status \cup {"absent"}] /\ workerId \in [Run -> Worker \cup {NULL}]
      /\ attempt \in [Run -> 0..MaxAttempts] /\ leaseLeft \in [Run -> (0..LeaseTicks) \cup {NULL}]
  BY DEF IInv, QueueTypeOK
<1>4. RunningHasDeadline'
  BY <1>2, <1>3, QueueAssumption DEF RunningHasDeadline
<1>5. CompletedHonest' /\ CancelledOnce'
  BY <1>2, <1>3 DEF CompletedHonest, CancelledOnce
<1>6. \A w \in Worker : pc[w] \in Unreported =>
        ((workerId'[held[w].run] = held[w].worker /\ attempt'[held[w].run] = held[w].attempt
          /\ overtaken'[held[w].run] = NULL) => status'[held[w].run] = "running")
  <2>. SUFFICES ASSUME NEW w \in Worker, pc[w] \in Unreported,
                       workerId'[held[w].run] = held[w].worker,
                       attempt'[held[w].run] = held[w].attempt,
                       overtaken[held[w].run] = NULL
                PROVE  status'[held[w].run] = "running"
    OBVIOUS
  <2>1. held[w].run \in Run
    BY HoldsLease DEF Unreported, Holding, Beating, TrySteps
  <2>2. CASE held[w].run = r
    BY <2>2, <1>2, <1>3
  <2>3. CASE held[w].run # r
    BY <2>1, <2>3, <1>2, <1>3 DEF RowRunsUntilReport, Matches
  <2>. QED
    BY <2>2, <2>3
<1>. QED
  BY <1>1, <1>4, <1>5, <1>6 DEF RowsKept

\* A cancellation is the last thing its run is asked for.
LEMMA CancelRows ==
  ASSUME WInv, NEW r \in Run, CancelRow(r), pc' = pc
  PROVE  RowsKept
<1>. USE DEF WInv, RowsInv
<1>1. IInv'
  BY WriteStatusInv DEF CancelRow, SetStatusUnfenced, Status, Terminal
<1>2. /\ status[r] # "absent"
      /\ status' = [status EXCEPT ![r] = "cancelled"]
      /\ leaseLeft' = [leaseLeft EXCEPT ![r] = NULL]
      /\ UNCHANGED <<workerId, attempt, succeeded>>
      /\ cancelling' = [cancelling EXCEPT ![r] = "cancelled"]
      /\ overtaken' = IF status[r] = "queued" THEN overtaken
                      ELSE [overtaken EXCEPT ![r] = attempt[r]]
  BY DEF CancelRow, SetStatusUnfenced, WriteStatus, CancelGoes
<1>3. /\ status \in [Run -> Status \cup {"absent"}] /\ attempt \in [Run -> 0..MaxAttempts]
      /\ leaseLeft \in [Run -> (0..LeaseTicks) \cup {NULL}]
      /\ cancelling \in [Run -> {"no", "checked", "saved", "cancelled"}]
      /\ overtaken \in [Run -> 0..MaxAttempts \cup {NULL}]
  BY DEF IInv, QueueTypeOK, ProcessesTyped
<1>4. status[r] # "queued" => overtaken'[r] # NULL
  BY <1>2, <1>3, QueueAssumption
<1>5. status[r] = "queued" => workerId[r] = NULL /\ overtaken' = overtaken
  BY <1>2 DEF IInv, QueuedClaimable
<1>6. \A q \in Run \ {r} : /\ status'[q] = status[q] /\ cancelling'[q] = cancelling[q]
                           /\ overtaken'[q] = overtaken[q] /\ leaseLeft'[q] = leaseLeft[q]
  BY <1>2, <1>3
<1>7. status'[r] = "cancelled" /\ cancelling'[r] = "cancelled"
  BY <1>2, <1>3
<1>8. RunningHasDeadline' /\ CompletedHonest'
  BY <1>2, <1>6, <1>7 DEF RunningHasDeadline, CompletedHonest
<1>9. CancelledOnce'
  BY <1>2, <1>4, <1>5, <1>6, <1>7 DEF CancelledOnce
<1>10. \A w \in Worker : pc[w] \in Unreported =>
        ((workerId'[held[w].run] = held[w].worker /\ attempt'[held[w].run] = held[w].attempt
          /\ overtaken'[held[w].run] = NULL) => status'[held[w].run] = "running")
  <2>. SUFFICES ASSUME NEW w \in Worker, pc[w] \in Unreported, Matches(held[w]),
                       overtaken'[held[w].run] = NULL
                PROVE  status'[held[w].run] = "running"
    BY <1>2 DEF Matches
  <2>1. held[w].run \in Run /\ workerId[held[w].run] # NULL
    BY HoldsLease, QueueAssumption DEF Unreported, Holding, Beating, TrySteps, Matches
  <2>2. held[w].run # r
    BY <2>1, <1>4, <1>5
  <2>. QED
    BY <2>1, <2>2, <1>6 DEF RowRunsUntilReport
<1>. QED
  BY <1>1, <1>8, <1>9, <1>10 DEF RowsKept

\* A fenced write of worker w about its own attempt.  It may only go back to
\* running before the report, and only forward to completed with the right to.
LEMMA FencedRows ==
  ASSUME WInv, NEW w \in Worker, pc[w] \in Holding, NEW s \in {"running", "completed", "failed"},
         SetStatusFenced(held[w], s),
         s = "running" => pc[w] \in Unreported,
         s = "completed" => held[w] \in succeeded,
         UNCHANGED <<succeeded, cancelling, overtaken>>
  PROVE  /\ IInv' /\ RunningHasDeadline' /\ CancelledOnce' /\ CompletedHonest'
         /\ \A v \in Worker : pc[v] \in Unreported /\ (v # w \/ s = "running") =>
              ((workerId'[held[v].run] = held[v].worker /\ attempt'[held[v].run] = held[v].attempt
                /\ overtaken'[held[v].run] = NULL) => status'[held[v].run] = "running")
<1>. USE DEF WInv, RowsInv
<1>. DEFINE r == held[w].run
<1>0. r \in Run /\ held[w] \in leases /\ held[w].worker = w
  BY HoldsLease
<1>1. IInv'
  BY <1>0, FencedInv
<1>2. /\ Matches(held[w])
      /\ status' = [status EXCEPT ![r] = s]
      /\ leaseLeft' = IF s = "running" THEN leaseLeft ELSE [leaseLeft EXCEPT ![r] = NULL]
      /\ UNCHANGED <<workerId, attempt>>
  BY DEF SetStatusFenced, WriteStatus
<1>3. status \in [Run -> Status \cup {"absent"}] /\ leaseLeft \in [Run -> (0..LeaseTicks) \cup {NULL}]
  BY DEF IInv, QueueTypeOK
<1>4. status[r] \notin {"absent", "queued"} /\ workerId[r] = w /\ w # NULL
      /\ attempt[r] = held[w].attempt
  BY <1>2, MatchedRow
<1>5. RunningHasDeadline'
  <2>1. s = "running" /\ overtaken[r] = NULL => status[r] = "running"
    BY <1>2 DEF RowRunsUntilReport
  <2>. QED
    BY <2>1, <1>2, <1>3 DEF RunningHasDeadline
<1>6. CancelledOnce'
  BY <1>0, <1>2, <1>3, <1>4 DEF CancelledOnce
<1>7. CompletedHonest'
  BY <1>0, <1>2, <1>3, <1>4 DEF CompletedHonest
<1>8. \A v \in Worker : pc[v] \in Unreported /\ (v # w \/ s = "running") =>
        ((workerId'[held[v].run] = held[v].worker /\ attempt'[held[v].run] = held[v].attempt
          /\ overtaken'[held[v].run] = NULL) => status'[held[v].run] = "running")
  <2>. SUFFICES ASSUME NEW v \in Worker, pc[v] \in Unreported, v # w \/ s = "running",
                       Matches(held[v]), overtaken[held[v].run] = NULL
                PROVE  status'[held[v].run] = "running"
    BY <1>2 DEF Matches
  <2>1. held[v].run \in Run /\ held[v].worker = v
    BY HoldsLease DEF Unreported, Holding, Beating, TrySteps
  <2>2. CASE held[v].run = r
    BY <2>1, <2>2, <1>2, <1>3, <1>4 DEF Matches
  <2>3. CASE held[v].run # r
    BY <2>1, <2>3, <1>2, <1>3 DEF RowRunsUntilReport
  <2>. QED
    BY <2>2, <2>3
<1>. QED
  BY <1>1, <1>5, <1>6, <1>7, <1>8

\* RowsKept is RowsInv' for a step that takes no worker to where it has not
\* been, but for its first step with a new lease.
LEMMA RowsFollow ==
  ASSUME WInv, RowsKept,
         \A w \in Worker : pc'[w] \in Unreported => pc[w] \in Unreported /\ held'[w] = held[w]
  PROVE  RowsInv'
<1>1. RowRunsUntilReport'
  BY DEF RowsKept, RowRunsUntilReport, Matches
<1>. QED
  BY <1>1 DEF RowsKept, RowsInv

LEMMA FencedFollows ==
  ASSUME WInv, NEW w \in Worker, pc[w] \in Holding, NEW s \in {"running", "completed", "failed"},
         SetRunStatusInQueue(w, s),
         s = "running" => pc[w] \in Unreported,
         s = "completed" => held[w] \in succeeded,
         UNCHANGED <<held, succeeded, cancelling, overtaken>>,
         NEW to, pc' = [pc EXCEPT ![w] = to], to \in Unreported => s = "running"
  PROVE  RowsInv'
<1>1. \A v \in Worker \ {w} : pc'[v] = pc[v]
  BY DEF WInv, ProcessesTyped
<1>2. pc'[w] = to
  BY DEF WInv, ProcessesTyped
<1>3. CASE Matches(held[w])
  <2>1. SetStatusFenced(held[w], s)
    BY <1>3 DEF SetRunStatusInQueue
  <2>2. /\ IInv' /\ RunningHasDeadline' /\ CancelledOnce' /\ CompletedHonest'
        /\ \A v \in Worker : pc[v] \in Unreported /\ (v # w \/ s = "running") =>
             ((workerId'[held[v].run] = held[v].worker /\ attempt'[held[v].run] = held[v].attempt
               /\ overtaken'[held[v].run] = NULL) => status'[held[v].run] = "running")
    BY <2>1, FencedRows
  <2>3. RowRunsUntilReport'
    BY <1>1, <1>2, <2>2 DEF RowRunsUntilReport, Matches
  <2>. QED
    BY <2>2, <2>3 DEF RowsInv
<1>4. CASE ~Matches(held[w])
  <2>1. UNCHANGED queueVars
    BY <1>4 DEF SetRunStatusInQueue
  <2>2. RowsKept
    BY <2>1, NoQueueStep
  <2>3. to \in Unreported => pc[w] \in Unreported
    OBVIOUS
  <2>. QED
    BY <1>1, <1>2, <2>2, <2>3, RowsFollow
<1>. QED
  BY <1>3, <1>4

LEMMA RowsStep ==
  ASSUME WInv, Next
  PROVE  RowsInv'
<1>. USE DEF WInv, ProcessesTyped
<1>1. ASSUME NEW r \in Run, AnnounceQueued(r) \/ CheckQueued(r) \/ SaveCancelled(r)
      PROVE  RowsInv'
  <2>1. UNCHANGED <<queueVars, overtaken, succeeded, pc, held>>
    BY <1>1 DEF AnnounceQueued, CheckQueued, SaveCancelled, procVars, cancelVars
  <2>2. \A q \in Run : cancelling'[q] = cancelling[q] \/ cancelling[q] # "cancelled"
    BY <1>1 DEF AnnounceQueued, CheckQueued, SaveCancelled, CancelGoes, cancelVars
  <2>. QED
    BY <2>1, <2>2, NoQueueStep, RowsFollow
<1>2. ASSUME NEW r \in Run, RunPipeline(r) PROVE RowsInv'
  BY <1>2, EnqueueRows, RowsFollow DEF RunPipeline, procVars, cancelVars
<1>3. ASSUME NEW r \in Run, CancelRow(r) PROVE RowsInv'
  BY <1>3, CancelRows, RowsFollow DEF CancelRow, procVars
<1>4. ASSUME NEW w \in Worker, \/ StartWorker(w) \/ Idle(w) \/ Load(w) \/ Announce(w)
                               \/ Execute(w) \/ Record(w) \/ Notify(w) \/ RecordFailure(w)
                               \/ SaveFailed(w) \/ RaiseInTry(w) \/ RaiseOut(w) \/ Crash(w)
      PROVE  RowsInv'
  <2>1. UNCHANGED <<queueVars, cancelling, overtaken>> /\ succeeded \subseteq succeeded'
    BY <1>4 DEF StartWorker, Idle, Load, Announce, Execute, Record, Notify, RecordFailure,
       SaveFailed, RaiseInTry, RaiseOut, Crash, cancelVars
  <2>2. RowsKept
    BY <2>1, NoQueueStep
  <2>3. \A v \in Worker : pc'[v] \in Unreported => pc[v] \in Unreported /\ held'[v] = held[v]
    <3>1. ASSUME UNCHANGED held, NEW from \in Unreported, NEW to, pc[w] = from,
                 pc' = [pc EXCEPT ![w] = to]
          PROVE  \A v \in Worker : pc'[v] \in Unreported
                                     => pc[v] \in Unreported /\ held'[v] = held[v]
      BY <3>1
    <3>2. ASSUME NEW to, to \notin Unreported, pc' = [pc EXCEPT ![w] = to],
                 \A v \in Worker \ {w} : held'[v] = held[v]
          PROVE  \A v \in Worker : pc'[v] \in Unreported
                                     => pc[v] \in Unreported /\ held'[v] = held[v]
      BY <3>2
    <3>3. CASE Load(w) \/ Announce(w) \/ Execute(w)
      BY <3>1, <3>3 DEF Load, Announce, Execute, Goto, Unreported
    <3>4. CASE \/ StartWorker(w) \/ Idle(w) \/ Record(w) \/ Notify(w) \/ RecordFailure(w)
               \/ SaveFailed(w) \/ RaiseInTry(w) \/ RaiseOut(w) \/ Crash(w)
      <4>1. \A v \in Worker \ {w} : held'[v] = held[v]
        BY <3>4 DEF StartWorker, Idle, Record, Notify, RecordFailure, SaveFailed, RaiseInTry,
           RaiseOut, Crash, Release
      <4>2. \E to \in {"sweep", "reap", "notify", "handle", "complete_failed", "down"} :
              pc' = [pc EXCEPT ![w] = to]
        BY <3>4 DEF StartWorker, Idle, Record, Notify, RecordFailure, SaveFailed, RaiseInTry,
           RaiseOut, Crash, Goto
      <4>. QED
        BY <3>2, <4>1, <4>2 DEF Unreported
    <3>. QED
      BY <1>4, <3>3, <3>4
  <2>. QED
    BY <2>2, <2>3, RowsFollow
<1>5. ASSUME NEW w \in Worker, Sweep(w) \/ Reap(w) PROVE RowsInv'
  <2>1. /\ RecoverOrphanedRuns \/ ReapExpiredLeases \/ UNCHANGED queueVars
        /\ UNCHANGED <<held, succeeded, cancelling, overtaken>>
    BY <1>5 DEF Sweep, Reap, cancelVars
  <2>2. RowsKept
    BY <2>1, RecoverRows, ReapRowsKept, NoQueueStep
  <2>3. \A v \in Worker : pc'[v] \in Unreported => pc[v] \in Unreported
    BY <1>5 DEF Sweep, Reap, Goto, Unreported
  <2>. QED
    BY <2>1, <2>2, <2>3, RowsFollow
<1>6. ASSUME NEW w \in Worker, Claim(w) PROVE RowsInv'
  <2>1. PICK r \in Run :
          /\ ClaimNextQueuedRun(w, r)
          /\ held' = [held EXCEPT ![w] = [run |-> r, worker |-> w, attempt |-> attempt[r] + 1]]
    BY <1>6 DEF Claim
  <2>2. pc[w] = "claim" /\ pc' = [pc EXCEPT ![w] = "load"]
        /\ UNCHANGED <<succeeded, cancelling, overtaken>>
    BY <1>6 DEF Claim, Goto, cancelVars
  <2>3. RowsKept
    BY <2>1, <2>2, ClaimRows
  <2>4. status'[r] = "running"
    BY <2>1 DEF ClaimNextQueuedRun, RowsInv, IInv, QueueTypeOK
  <2>5. RowRunsUntilReport'
    <3>. SUFFICES ASSUME NEW v \in Worker, pc'[v] \in Unreported, Matches(held[v])',
                         overtaken'[held'[v].run] = NULL
                  PROVE  status'[held'[v].run] = "running"
      BY DEF RowRunsUntilReport
    <3>1. CASE v = w
      BY <3>1, <2>1, <2>4
    <3>2. CASE v # w
      <4>1. pc[v] \in Unreported /\ held'[v] = held[v]
        BY <3>2, <2>1, <2>2
      <4>. QED
        BY <4>1, <2>3 DEF RowsKept, Matches
    <3>. QED
      BY <3>1, <3>2
  <2>. QED
    BY <2>3, <2>5 DEF RowsKept, RowsInv
<1>7. ASSUME NEW w \in Worker, Begin(w) PROVE RowsInv'
  <2>1. /\ pc[w] = "begin" /\ pc' = [pc EXCEPT ![w] = "announce"]
        /\ SetRunStatusInQueue(w, "running")
        /\ UNCHANGED <<held, succeeded, cancelling, overtaken>>
    BY <1>7 DEF Begin, Goto, cancelVars
  <2>2. pc[w] \in Holding /\ pc[w] \in Unreported
    BY <2>1 DEF Holding, Beating, TrySteps, Unreported
  <2>. QED
    BY <2>1, <2>2, FencedFollows
<1>8. ASSUME NEW w \in Worker, Report(w) PROVE RowsInv'
  <2>1. /\ pc[w] = "report" /\ pc' = [pc EXCEPT ![w] = "record"]
        /\ SetRunStatusInQueue(w, outcome[w])
        /\ UNCHANGED <<held, succeeded, cancelling, overtaken>>
    BY <1>8 DEF Report, Goto, cancelVars
  <2>2. pc[w] \in Holding /\ "record" \notin Unreported
    BY <2>1 DEF Holding, Beating, TrySteps, Unreported
  <2>3. /\ outcome[w] \in {"completed", "failed"}
        /\ outcome[w] = "completed" => held[w] \in succeeded
    BY <2>1 DEF OutcomeEarned
  <2>. QED
    BY <2>1, <2>2, <2>3, FencedFollows
<1>9. ASSUME NEW w \in Worker, HandleFailure(w) \/ CompleteFailed(w) PROVE RowsInv'
  <2>1. /\ pc[w] \in {"handle", "complete_failed"}
        /\ \E to \in {"record_failure", "save_failed"} : pc' = [pc EXCEPT ![w] = to]
        /\ UNCHANGED <<held, succeeded, cancelling, overtaken>>
    BY <1>9 DEF HandleFailure, CompleteFailed, Goto, cancelVars
  <2>2. pc[w] \in Holding /\ "record_failure" \notin Unreported /\ "save_failed" \notin Unreported
    BY <2>1 DEF Holding, Beating, TrySteps, Unreported
  <2>3. SetRunStatusInQueue(w, "failed") \/ UNCHANGED queueVars
    BY <1>9 DEF HandleFailure, CompleteFailed, CompleteRunWithLease, SetRunStatusInQueue
  <2>4. CASE SetRunStatusInQueue(w, "failed")
    BY <2>1, <2>2, <2>4, FencedFollows
  <2>5. CASE UNCHANGED queueVars
    <3>1. RowsKept
      BY <2>1, <2>5, NoQueueStep
    <3>2. \A v \in Worker : pc'[v] \in Unreported => pc[v] \in Unreported /\ held'[v] = held[v]
      BY <2>1, <2>2
    <3>. QED
      BY <3>1, <3>2, RowsFollow
  <2>. QED
    BY <2>3, <2>4, <2>5
<1>10. ASSUME NEW w \in Worker, BeatOnce(w) PROVE RowsInv'
  <2>1. UNCHANGED <<pc, held, succeeded, cancelling, overtaken>> /\ pc[w] \in Holding
    BY <1>10 DEF BeatOnce, cancelVars, Holding
  <2>2. RenewLease(held[w]) \/ UNCHANGED queueVars
    BY <1>10 DEF BeatOnce
  <2>3. held[w] \in leases
    BY <2>1
  <2>4. RowsKept
    BY <2>1, <2>2, <2>3, RenewRows, NoQueueStep
  <2>. QED
    BY <2>1, <2>4, RowsFollow
<1>11. CASE Time
  BY <1>11, TickRows, RowsFollow DEF Time, procVars, cancelVars
<1>. QED
  BY <1>1, <1>2, <1>3, <1>4, <1>5, <1>6, <1>7, <1>8, <1>9, <1>10, <1>11 DEF Next, WorkerStep

LEMMA StutterInv ==
  ASSUME WInv, UNCHANGED vars
  PROVE  WInv'
<1>1. IInv'
  BY StepInv DEF WInv, RowsInv, vars
<1>. QED
  BY <1>1 DEF WInv, RowsInv, vars, queueVars, procVars, bounds, cancelVars, ProcessesTyped,
     OutcomeEarned, RunningHasDeadline, RowRunsUntilReport, CancelledOnce, CompletedHonest, Matches

\* The invariant of the worker loop over the queue: it contains the queue's own.
THEOREM WorkersInvariance == Spec => []WInv
<1>1. WInv /\ [Next]_vars => WInv'
  BY ProcessesStep, RowsStep, StutterInv DEF WInv
<1>. QED
  BY <1>1, WInit, PTL DEF Spec

\* Whatever crashes, raises or is cancelled, the tables keep their types, a
\* worker holds a lease of its own exactly while it has a run in hand, and a
\* running row that no cancellation overwrote has a deadline.
THEOREM WorkersTyped == Spec => []TypeOK
<1>1. WInv => TypeOK
  BY DEF WInv, RowsInv, IInv, ProcessesTyped, TypeOK, RunningHasDeadline, Holding
<1>. QED
  BY <1>1, WorkersInvariance, PTL

\* A run is only ever called completed on the word of the attempt that the
\* row names, all of whose tasks succeeded.
THEOREM CompletionsAreHonest == Spec => []CompletedHonest
<1>1. WInv => CompletedHonest
  BY DEF WInv, RowsInv
<1>. QED
  BY <1>1, WorkersInvariance, PTL

-----------------------------------------------------------------------------
(***************************************************************************)
(* The queue and its workers implement RunLifecycle.                       *)
(***************************************************************************)

Phase(r) == IF overtaken[r] = NULL THEN status[r] ELSE "cancelled"
Token(r) == IF overtaken[r] = NULL THEN attempt[r] ELSE overtaken[r]

Rests(r) == Phase(r)' = Phase(r) /\ Token(r)' = Token(r)
Advances(r, from, to) == Phase(r) = from /\ Phase(r)' = to

\* The steps of one run that RunLifecycle allows.
Allowed(r) ==
  \/ Rests(r)
  \/ /\ Token(r)' = Token(r)
     /\ \/ Advances(r, "absent", "queued")
        \/ Advances(r, "running", "queued") /\ Token(r) < MaxAttempts
        \/ Advances(r, "running", "dead_letter") /\ Token(r) = MaxAttempts
        \/ Advances(r, "running", "completed")
        \/ Advances(r, "running", "failed")
        \/ Advances(r, "completed", "failed")
        \/ Advances(r, "queued", "failed")
        \/ Phase(r) \notin {"absent", "cancelled"} /\ Phase(r)' = "cancelled"
  \/ Advances(r, "queued", "running") /\ Token(r)' = Token(r) + 1

LEMMA RowsRest ==
  ASSUME WInv, NEW r \in Run, status'[r] = status[r], attempt'[r] = attempt[r],
         overtaken'[r] = overtaken[r]
  PROVE  Allowed(r)
BY DEF Allowed, Rests, Phase, Token

\* A fenced write is one of: the same again, an outcome, a retraction.
LEMMA FencedAllowed ==
  ASSUME WInv, NEW w \in Worker, pc[w] \in Holding, NEW s \in {"running", "completed", "failed"},
         SetStatusFenced(held[w], s), UNCHANGED overtaken,
         s # "failed" => pc[w] \in Unreported,
         NEW r \in Run
  PROVE  Allowed(r)
<1>1. /\ status' = [status EXCEPT ![held[w].run] = s] /\ UNCHANGED attempt
      /\ Matches(held[w]) /\ held[w].run \in Run
  BY HoldsLease DEF SetStatusFenced, WriteStatus
<1>2. status \in [Run -> Status \cup {"absent"}]
  BY DEF WInv, RowsInv, IInv, QueueTypeOK
<1>3. CASE r # held[w].run \/ overtaken[r] # NULL
  BY <1>1, <1>2, <1>3 DEF Allowed, Rests, Phase, Token
<1>4. CASE r = held[w].run /\ overtaken[r] = NULL
  <2>1. status[r] \in {"running", "completed", "failed"}
    BY <1>1, <1>4, MatchedRow
  <2>2. s # "failed" => status[r] = "running"
    BY <1>1, <1>4 DEF WInv, RowsInv, RowRunsUntilReport
  <2>3. Phase(r) = status[r] /\ Phase(r)' = s /\ Token(r)' = Token(r)
    BY <1>1, <1>2, <1>4 DEF Phase, Token
  <2>. QED
    BY <2>1, <2>2, <2>3 DEF Allowed, Rests, Advances
<1>. QED
  BY <1>3, <1>4

LEMMA ReapAllowed ==
  ASSUME WInv, ReapExpiredLeases, UNCHANGED overtaken, NEW r \in Run
  PROVE  Allowed(r)
<1>1. UNCHANGED attempt /\ attempt[r] \in 0..MaxAttempts
  BY DEF ReapExpiredLeases, WInv, RowsInv, IInv, QueueTypeOK
<1>2. CASE ~Expired(r) \/ overtaken[r] # NULL
  <2>1. CASE ~Expired(r)
    <3>1. status'[r] = status[r]
      BY <2>1 DEF ReapExpiredLeases, ReapRows
    <3>. QED
      BY <3>1, <1>1, RowsRest
  <2>2. CASE overtaken[r] # NULL
    BY <2>2 DEF Allowed, Rests, Phase, Token
  <2>. QED
    BY <1>2, <2>1, <2>2
<1>3. CASE Expired(r) /\ overtaken[r] = NULL
  <2>1. status[r] = "running" /\ Token(r) = attempt[r] /\ Token(r)' = attempt[r]
    BY <1>1, <1>3 DEF Expired, Token
  <2>2. \/ attempt[r] >= MaxAttempts /\ status'[r] = "dead_letter"
        \/ attempt[r] < MaxAttempts /\ status'[r] = "queued"
    BY <1>1, <1>3, QueueAssumption DEF ReapExpiredLeases, ReapRows
  <2>3. Phase(r) = "running" /\ Phase(r)' = status'[r]
    BY <1>3, <2>1 DEF Phase
  <2>. QED
    BY <1>1, <2>1, <2>2, <2>3, QueueAssumption DEF Allowed, Advances
<1>. QED
  BY <1>2, <1>3

LEMMA RecoverAllowed ==
  ASSUME WInv, RecoverOrphanedRuns, UNCHANGED overtaken, NEW r \in Run
  PROVE  Allowed(r)
<1>1. UNCHANGED attempt
  BY DEF RecoverOrphanedRuns
<1>2. CASE Orphaned(r) /\ overtaken[r] = NULL
  <2>1. status[r] = "queued" /\ status'[r] = "failed"
    BY <1>2, SweptAreQueued DEF RecoverOrphanedRuns
  <2>. QED
    BY <1>1, <1>2, <2>1 DEF Allowed, Advances, Phase, Token
<1>3. CASE ~Orphaned(r)
  BY <1>1, <1>3, RowsRest DEF RecoverOrphanedRuns
<1>4. CASE overtaken[r] # NULL
  BY <1>4 DEF Allowed, Rests, Phase, Token
<1>. QED
  BY <1>2, <1>3, <1>4

LEMMA CancelAllowed ==
  ASSUME WInv, NEW q \in Run, CancelRow(q), NEW r \in Run
  PROVE  Allowed(r)
<1>1. /\ cancelling[q] = "saved" /\ status[q] # "absent"
      /\ status' = [status EXCEPT ![q] = "cancelled"] /\ UNCHANGED attempt
      /\ overtaken' = IF status[q] = "queued" THEN overtaken
                      ELSE [overtaken EXCEPT ![q] = attempt[q]]
  BY DEF CancelRow, CancelGoes, SetStatusUnfenced, WriteStatus
<1>2. /\ status \in [Run -> Status \cup {"absent"}] /\ attempt[q] \in Nat
      /\ overtaken \in [Run -> 0..MaxAttempts \cup {NULL}]
  BY DEF WInv, RowsInv, IInv, QueueTypeOK, ProcessesTyped
<1>3. overtaken[q] = NULL /\ status[q] # "cancelled"
  BY <1>1 DEF WInv, RowsInv, CancelledOnce
<1>4. CASE r # q
  BY <1>1, <1>2, <1>4, RowsRest
<1>5. CASE r = q
  <2>1. Phase(r) = status[r] /\ Token(r) = attempt[r]
    BY <1>3, <1>5 DEF Phase, Token
  <2>2. Phase(r)' = "cancelled" /\ Token(r)' = attempt[r]
    BY <1>1, <1>2, <1>3, <1>5, QueueAssumption DEF Phase, Token
  <2>. QED
    BY <1>1, <1>3, <1>5, <2>1, <2>2 DEF Allowed
<1>. QED
  BY <1>4, <1>5

LEMMA StepAllowed ==
  ASSUME WInv, Next, NEW r \in Run
  PROVE  Allowed(r)
<1>. USE DEF WInv
<1>1. ASSUME NEW q \in Run, AnnounceQueued(q) \/ CheckQueued(q) \/ SaveCancelled(q)
      PROVE  Allowed(r)
  BY <1>1, RowsRest DEF AnnounceQueued, CheckQueued, SaveCancelled, queueVars, cancelVars
<1>2. ASSUME NEW q \in Run, RunPipeline(q) PROVE Allowed(r)
  <2>1. /\ status[q] = "absent" /\ status' = [status EXCEPT ![q] = "queued"]
        /\ UNCHANGED <<attempt, overtaken>>
    BY <1>2 DEF RunPipeline, EnqueueRun, cancelVars
  <2>2. overtaken[q] = NULL
    BY <2>1 DEF RowsInv, CancelledOnce
  <2>3. status \in [Run -> Status \cup {"absent"}]
    BY DEF RowsInv, IInv, QueueTypeOK
  <2>. QED
    BY <2>1, <2>2, <2>3 DEF Allowed, Rests, Advances, Phase, Token
<1>3. ASSUME NEW q \in Run, CancelRow(q) PROVE Allowed(r)
  BY <1>3, CancelAllowed
<1>4. ASSUME NEW w \in Worker, \/ StartWorker(w) \/ Idle(w) \/ Load(w) \/ Announce(w)
                               \/ Execute(w) \/ Record(w) \/ Notify(w) \/ RecordFailure(w)
                               \/ SaveFailed(w) \/ RaiseInTry(w) \/ RaiseOut(w) \/ Crash(w)
      PROVE  Allowed(r)
  BY <1>4, RowsRest DEF StartWorker, Idle, Load, Announce, Execute, Record, Notify,
     RecordFailure, SaveFailed, RaiseInTry, RaiseOut, Crash, queueVars, cancelVars
<1>5. ASSUME NEW w \in Worker, Sweep(w) \/ Reap(w) PROVE Allowed(r)
  <2>1. /\ RecoverOrphanedRuns \/ ReapExpiredLeases \/ UNCHANGED queueVars
        /\ UNCHANGED overtaken
    BY <1>5 DEF Sweep, Reap, cancelVars
  <2>. QED
    BY <2>1, RecoverAllowed, ReapAllowed, RowsRest DEF queueVars
<1>6. ASSUME NEW w \in Worker, Claim(w) PROVE Allowed(r)
  <2>1. PICK q \in Run : ClaimNextQueuedRun(w, q)
    BY <1>6 DEF Claim
  <2>2. UNCHANGED overtaken
    BY <1>6 DEF Claim, cancelVars
  <2>3. /\ status[q] = "queued" /\ status' = [status EXCEPT ![q] = "running"]
        /\ attempt' = [attempt EXCEPT ![q] = @ + 1]
    BY <2>1 DEF ClaimNextQueuedRun
  <2>4. status \in [Run -> Status \cup {"absent"}] /\ attempt \in [Run -> 0..MaxAttempts]
    BY DEF RowsInv, IInv, QueueTypeOK
  <2>. QED
    BY <2>2, <2>3, <2>4 DEF Allowed, Rests, Advances, Phase, Token
<1>7. ASSUME NEW w \in Worker, NEW s, SetRunStatusInQueue(w, s), pc[w] \in Holding,
             s \in {"running", "completed", "failed"}, s # "failed" => pc[w] \in Unreported,
             UNCHANGED overtaken
      PROVE  Allowed(r)
  BY <1>7, FencedAllowed, RowsRest DEF SetRunStatusInQueue, queueVars
<1>8. ASSUME NEW w \in Worker, Begin(w) \/ HandleFailure(w) PROVE Allowed(r)
  <2>1. UNCHANGED overtaken
    BY <1>8 DEF Begin, HandleFailure, cancelVars
  <2>2. \/ pc[w] = "begin" /\ SetRunStatusInQueue(w, "running")
        \/ pc[w] = "handle" /\ SetRunStatusInQueue(w, "failed")
    BY <1>8 DEF Begin, HandleFailure, Goto
  <2>. QED
    BY <1>7, <2>1, <2>2 DEF Unreported, Holding, Beating, TrySteps
<1>9. ASSUME NEW w \in Worker, Report(w) PROVE Allowed(r)
  <2>1. pc[w] = "report" /\ SetRunStatusInQueue(w, outcome[w]) /\ UNCHANGED overtaken
    BY <1>9 DEF Report, Goto, cancelVars
  <2>2. outcome[w] \in {"completed", "failed"}
    BY <2>1 DEF OutcomeEarned, ProcessesTyped
  <2>. QED
    BY <1>7, <2>1, <2>2 DEF Unreported, Holding, Beating, TrySteps
<1>10. ASSUME NEW w \in Worker, CompleteFailed(w) PROVE Allowed(r)
  <2>1. pc[w] = "complete_failed" /\ UNCHANGED overtaken
    BY <1>10 DEF CompleteFailed, Goto, cancelVars
  <2>2. SetRunStatusInQueue(w, "failed") \/ UNCHANGED queueVars
    BY <1>10 DEF CompleteFailed, CompleteRunWithLease, SetRunStatusInQueue
  <2>. QED
    BY <1>7, <2>1, <2>2, RowsRest DEF Holding, queueVars
<1>11. ASSUME NEW w \in Worker, BeatOnce(w) PROVE Allowed(r)
  BY <1>11, RowsRest DEF BeatOnce, RenewLease, queueVars, cancelVars
<1>12. CASE Time
  BY <1>12, RowsRest DEF Time, Tick, cancelVars
<1>. QED
  BY <1>1, <1>2, <1>3, <1>4, <1>5, <1>6, <1>8, <1>9, <1>10, <1>11, <1>12 DEF Next, WorkerStep

\* Every step of the queue and its workers is, for every run, a step of
\* RunLifecycle or none: attempts are numbered without gaps, an outcome is
\* changed by nobody but the attempt that reported it, and a cancellation is
\* final, whatever crashes, stalls or raises.
THEOREM ImplementsLifecycle == Spec => LifecycleSpec
<1>1. Init => Lifecycle!Init
  BY DEF Init, QueueInit, Lifecycle!Init
<1>2. WInv /\ [Next]_vars => [Lifecycle!Next]_<<
        [r \in Run |-> IF overtaken[r] = NULL THEN status[r] ELSE "cancelled"],
        [r \in Run |-> IF overtaken[r] = NULL THEN attempt[r] ELSE overtaken[r]]>>
  <2>1. ASSUME WInv, Next PROVE Lifecycle!Next
    <3>1. ASSUME NEW r \in Run PROVE Lifecycle!Step(r) \/ Lifecycle!Stay(r)
      <4>1. Allowed(r)
        BY <2>1, StepAllowed
      <4>2. /\ Phase(r) \in Status \cup {"absent"}
            /\ Phase(r) # "absent" /\ Phase(r) # "cancelled" =>
                 Phase(r) \in {"queued", "running", "completed", "failed", "dead_letter"}
        BY <2>1 DEF Phase, WInv, RowsInv, IInv, QueueTypeOK, Status, Terminal
      <4>. QED
        BY <4>1, <4>2 DEF Allowed, Rests, Advances, Phase, Token,
           Lifecycle!Step, Lifecycle!Stay, Lifecycle!Submit, Lifecycle!Grant,
           Lifecycle!Revoke, Lifecycle!Bury, Lifecycle!Finish, Lifecycle!Retract,
           Lifecycle!Abandon, Lifecycle!Withdraw, Lifecycle!Overtake, Lifecycle!Moves,
           Lifecycle!SameToken
    <3>. QED
      BY <3>1 DEF Lifecycle!Next
  <2>2. CASE UNCHANGED vars
    BY <2>2 DEF vars, queueVars, cancelVars
  <2>. QED
    BY <2>1, <2>2
<1>. QED
  BY <1>1, <1>2, WorkersInvariance, PTL DEF Spec, LifecycleSpec, Lifecycle!Spec
==================================================================================
