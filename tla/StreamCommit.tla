----------------------------- MODULE StreamCommit -----------------------------
(***************************************************************************)
(* The streaming commit protocol: run_stream (streaming/runner.py) draining *)
(* a JsonlSource into a SqlTransactionalSink, for a succession of runners  *)
(* of one stream.  A runner is one process; it carries a fencing token,    *)
(* may be killed at any step, may stall for any time, and waits out        *)
(* transient sink errors.  The tables stream_state and stream_windows and  *)
(* the record table are what the runners share.                            *)
(*                                                                         *)
(* A record is a pair <<partition, position>>.  A window aggregate is a    *)
(* sum of increments, so it is kept as the number of times each record was *)
(* added: 1 is right, 2 is a double count.  Which window a record falls    *)
(* into, and lateness, are left to the event-time model.                   *)
(***************************************************************************)
EXTENDS Integers, FiniteSets

CONSTANTS
  Partition,      \* 0..n-1, in the order poll() visits them
  MaxLen,         \* bound: the longest partition
  Size,           \* per partition: the number of its records
  BatchSize,      \* batch_size
  Runners,        \* bound: how many runners are ever started
  Attempt,        \* per runner: its fencing token (Fence.attempt)
  Overlap,        \* whether a runner may start while an older one is alive
  RowLock,        \* PostgreSQL: the fence is read FOR UPDATE
  RetryAttempts,  \* retry_attempts
  MaxFailures,    \* bound: transient errors over a behaviour
  NULL

Runner == 1..Runners

ASSUME StreamAssumption ==
  /\ Partition \subseteq Nat
  /\ IsFiniteSet(Partition)
  /\ MaxLen \in Nat
  /\ Size \in [Partition -> 0..MaxLen]
  /\ BatchSize \in Nat \ {0}
  /\ Runners \in Nat \ {0}
  /\ Attempt \in [Runner -> Nat \ {0}]
  /\ Overlap \in BOOLEAN
  /\ RowLock \in BOOLEAN
  /\ RetryAttempts \in Nat \ {0}
  /\ MaxFailures \in Nat
  /\ NULL \notin Int

Rec     == {x \in Partition \X (0..MaxLen) : x[2] < Size[x[1]]}
Offsets == [Partition -> 0..MaxLen]

VARIABLES
  \* one runner each
  pc,         \* its next step
  pos,        \* the source's cursor (JsonlSource._offsets)
  nxt,        \* the offsets that follow the polled batch
  advanced,   \* what _offsets_advance found in the open transaction
  tries,      \* failures of the current _with_retry call
  \* the database
  locker,     \* the runner whose transaction holds the fence row, or NULL
  nextOffset, \* stream_state.next_offset; 0 without a row
  rowAttempt, \* stream_state.attempt; 0 without a row
  rows,       \* the record table, keyed on the record
  counted,    \* how often the window aggregates count each record
  failures    \* bound counter

runnerVars == <<pc, pos, nxt, advanced, tries>>
sinkVars   == <<nextOffset, rowAttempt, rows, counted>>
vars       == <<runnerVars, locker, sinkVars, failures>>

Ended == {"done", "fenced", "dead"}
Alive(r) == pc[r] \notin Ended \cup {"new"}

Init ==
  /\ pc         = [r \in Runner |-> "new"]
  /\ pos        = [r \in Runner |-> [p \in Partition |-> 0]]
  /\ nxt        = [r \in Runner |-> [p \in Partition |-> 0]]
  /\ advanced   = [r \in Runner |-> FALSE]
  /\ tries      = [r \in Runner |-> 0]
  /\ locker     = NULL
  /\ nextOffset = [p \in Partition |-> 0]
  /\ rowAttempt = [p \in Partition |-> 0]
  /\ rows       = {}
  /\ counted    = [x \in Rec |-> 0]
  /\ failures   = 0

Goto(r, from, to) ==
  /\ pc[r] = from
  /\ pc' = [pc EXCEPT ![r] = to]

-----------------------------------------------------------------------------
(***************************************************************************)
(* What the runners read.                                                  *)
(***************************************************************************)

\* The records that lie between two sets of offsets.
Between(from, to) == {x \in Rec : from[x[1]] <= x[2] /\ x[2] < to[x[1]]}

\* poll(): round-robin over the partitions, so each gives k records, the
\* partitions before j one more, unless it is exhausted; up to BatchSize.
Polled(from, to) ==
  /\ \E k \in 0..MaxLen, j \in Partition \cup {0} : \A p \in Partition :
       LET reach == from[p] + (IF p < j THEN k + 1 ELSE k)
       IN  to[p] = IF reach <= Size[p] THEN reach ELSE Size[p]
  /\ \/ Cardinality(Between(from, to)) = BatchSize
     \/ to = Size /\ Cardinality(Between(from, to)) < BatchSize

\* stream_state has rows of this stream.
HasRows == \E p \in Partition : rowAttempt[p] > 0

\* MAX(attempt) exceeds the token of r: committed_attempt and _assert_fence.
Superseded(r) == \E p \in Partition : rowAttempt[p] > Attempt[r]

\* Mutants of OffsetsAdvance: a replay is not recognised, and a batch that
\* leaves one partition where it is counts as one.
AlwaysAdvance(r) == TRUE
AllAdvance(r)    == HasRows => \A p \in Partition : nxt[r][p] > nextOffset[p]

\* _offsets_advance.
OffsetsAdvance(r) ==
  HasRows => \E p \in Partition : nxt[r][p] > nextOffset[p]

-----------------------------------------------------------------------------
(***************************************************************************)
(* run_stream, up to the loop.                                             *)
(***************************************************************************)

Start(r) ==
  /\ Goto(r, "new", "seek")
  /\ \A q \in Runner : q < r => pc[q] # "new" /\ (Overlap \/ ~Alive(q))
  /\ UNCHANGED <<pos, nxt, advanced, tries, locker, sinkVars, failures>>

\* Each _with_retry call counts its own failures.
Fresh(r) == tries' = [tries EXCEPT ![r] = 0]

\* Mutant of ReadOffsets: next_offset is taken for the last record consumed.
ReadOffByOne(r) ==
  /\ Goto(r, "seek", "fence")
  /\ pos' = [pos EXCEPT ![r] = [p \in Partition |-> nextOffset[p] + 1]]
  /\ Fresh(r)
  /\ UNCHANGED <<nxt, advanced, locker, sinkVars, failures>>

\* read_offsets and seek.
ReadOffsets(r) ==
  /\ Goto(r, "seek", "fence")
  /\ pos' = [pos EXCEPT ![r] = nextOffset]
  /\ Fresh(r)
  /\ UNCHANGED <<nxt, advanced, locker, sinkVars, failures>>

CheckFence(r) ==
  /\ Goto(r, "fence", IF Superseded(r) THEN "fenced" ELSE "poll")
  /\ Fresh(r)
  /\ UNCHANGED <<pos, nxt, advanced, locker, sinkVars, failures>>

-----------------------------------------------------------------------------
(***************************************************************************)
(* One batch.                                                              *)
(***************************************************************************)

Poll(r) ==
  /\ Goto(r, "poll", IF pos[r] = Size THEN "done" ELSE "commit")
  /\ \E to \in Offsets : Polled(pos[r], to) /\ nxt' = [nxt EXCEPT ![r] = to]
  /\ UNCHANGED <<pos, advanced, tries, locker, sinkVars, failures>>

\* The reads of commit(): _assert_fence, then _offsets_advance.  With
\* FOR UPDATE the row they read stays locked until the transaction ends, if
\* there is one.  SQLite begins its transaction with the first write, so
\* there these reads lock nothing.
BeginCommit(r) ==
  /\ pc[r] = "commit"
  /\ RowLock /\ HasRows => locker = NULL
  /\ IF Superseded(r)
     THEN /\ pc' = [pc EXCEPT ![r] = "fenced"]
          /\ UNCHANGED <<advanced, locker>>
     ELSE /\ pc' = [pc EXCEPT ![r] = "write"]
          /\ advanced' = [advanced EXCEPT ![r] = OffsetsAdvance(r)]
          /\ locker' = IF RowLock /\ HasRows THEN r ELSE locker
  /\ UNCHANGED <<pos, nxt, tries, sinkVars, failures>>

\* The records and offsets commit() writes, and its COMMIT.
CommitRows(r) ==
  LET written == {p \in Partition : nxt[r][p] > 0}
  IN  /\ Goto(r, "write", "committed")
      /\ locker \in {NULL, r}
      /\ locker' = NULL
      /\ rows' = rows \cup Between(pos[r], nxt[r])
      /\ nextOffset' = [p \in Partition |->
                          IF p \in written THEN nxt[r][p] ELSE nextOffset[p]]
      /\ rowAttempt' = [p \in Partition |->
                          IF p \in written THEN Attempt[r] ELSE rowAttempt[p]]
      /\ UNCHANGED <<pos, nxt, advanced, tries, failures>>

\* The whole transaction: with them go the increments of the windows, when
\* the offsets advanced.
WriteCommit(r) ==
  /\ CommitRows(r)
  /\ counted' = [x \in Rec |->
                   IF advanced[r] /\ x \in Between(pos[r], nxt[r])
                   THEN counted[x] + 1 ELSE counted[x]]

\* commit() returned: commit_local.
CommitLocal(r) ==
  /\ Goto(r, "committed", "poll")
  /\ pos' = [pos EXCEPT ![r] = nxt[r]]
  /\ Fresh(r)
  /\ UNCHANGED <<nxt, advanced, locker, sinkVars, failures>>

-----------------------------------------------------------------------------
(***************************************************************************)
(* Failures.                                                               *)
(***************************************************************************)

\* Mutant of Rollback: the lock survives its transaction.
KeepLock(r) == UNCHANGED locker

\* The end of r's transaction, if any, without a commit.
Rollback(r) == locker' = IF locker = r THEN NULL ELSE locker

\* Mutant of Retry: a commit that raised is taken for done.
SwallowError(step) == IF step \in {"write", "committed"} THEN "committed" ELSE step

\* The call that is made again: the whole commit, with the same batch.
Retry(step) == IF step \in {"write", "committed"} THEN "commit" ELSE step

\* A transient error in a sink call, before its transaction commits, or
\* after it did and the acknowledgement was lost ("committed").  _with_retry
\* calls again until it gives up.
Fail(r) ==
  /\ pc[r] \in {"seek", "fence", "commit", "write", "committed"}
  /\ failures < MaxFailures
  /\ failures' = failures + 1
  /\ tries' = [tries EXCEPT ![r] = @ + 1]
  /\ pc' = [pc EXCEPT ![r] = IF tries[r] + 1 >= RetryAttempts THEN "dead"
                             ELSE Retry(@)]
  /\ Rollback(r)
  /\ UNCHANGED <<pos, nxt, advanced, sinkVars>>

\* maybe_crash, SIGKILL: nothing of the process is left.
Crash(r) ==
  /\ Alive(r)
  /\ pc' = [pc EXCEPT ![r] = "dead"]
  /\ Rollback(r)
  /\ UNCHANGED <<pos, nxt, advanced, tries, sinkVars, failures>>

-----------------------------------------------------------------------------
Step(r) ==
  \/ ReadOffsets(r) \/ CheckFence(r) \/ Poll(r)
  \/ BeginCommit(r) \/ WriteCommit(r) \/ CommitLocal(r)

Next == \E r \in Runner : Start(r) \/ Step(r) \/ Fail(r) \/ Crash(r)

\* A replacement is started in the end, and a live process takes its steps.
Fairness == \A r \in Runner : WF_vars(Start(r)) /\ WF_vars(Step(r))

Spec     == Init /\ [][Next]_vars
FairSpec == Spec /\ Fairness

-----------------------------------------------------------------------------
(***************************************************************************)
(* Properties.                                                             *)
(***************************************************************************)

\* Offsets never pass the end of their partition, a polled batch never lies
\* behind its cursor, only a transaction that has begun holds the lock, and a
\* sink call is tried RetryAttempts times and no more.
TypeOK ==
  /\ pc \in [Runner -> {"new", "seek", "fence", "poll", "commit", "write",
                        "committed"} \cup Ended]
  /\ pos \in [Runner -> Offsets]
  /\ nxt \in [Runner -> Offsets]
  /\ advanced \in [Runner -> BOOLEAN]
  /\ tries \in [Runner -> 0..RetryAttempts]
  /\ nextOffset \in Offsets
  /\ rowAttempt \in [Partition -> Nat]
  /\ rows \subseteq Rec
  /\ counted \in [Rec -> Nat]
  /\ failures \in 0..MaxFailures
  /\ locker = NULL \/ locker \in {r \in Runner : pc[r] = "write"}
  /\ \A r \in Runner : pc[r] # "dead" => tries[r] < RetryAttempts
  /\ \A r \in Runner, p \in Partition :
       /\ pos[r][p] <= Size[p]
       /\ nxt[r][p] <= Size[p]
       /\ nextOffset[p] <= Size[p]
       /\ pc[r] \in {"commit", "write", "committed"} => pos[r][p] <= nxt[r][p]

\* No record is lost: one that the durable offsets have passed is in the
\* table, and the windows count it, however many runners are alive at once,
\* and with or without row locks.
NoLoss ==
  \A x \in Rec : x[2] < nextOffset[x[1]] => x \in rows /\ counted[x] > 0

\* Exactly once: the windows count a record once if the durable offsets have
\* passed it and not at all before that, and the record table agrees.
CountedOnce ==
  \A x \in Rec :
    LET passed == x[2] < nextOffset[x[1]]
    IN  /\ counted[x] = IF passed THEN 1 ELSE 0
        /\ x \in rows <=> passed

\* The sink's tables, seen by whoever reads them, implement ExactlyOnce.
Abstract == INSTANCE ExactlyOnce WITH cursor <- nextOffset, tally <- counted

ExactlyOnceSpec == Abstract!Spec

\* A runner that finishes has drained the whole source, and what it drained
\* is durable.
DoneIsDrained ==
  \A r \in Runner : pc[r] = "done" =>
     \A p \in Partition : nextOffset[p] = Size[p]

\* A kill or an outage only delays: unless the last runner dies too, or is
\* fenced out, every record ends up behind the durable offsets.
StreamDrains ==
  [](pc[Runners] \notin {"dead", "fenced"}) => <>[](nextOffset = Size)

\* plugins/base.py, TransactionalSink.commit: "Must raise StaleFence rather
\* than write, if fence is older than the attempt already recorded".
NoStaleWrite ==
  [][\A r \in Runner : Superseded(r) => ~WriteCommit(r)]_vars

\* docs/STREAMING.md: "The runner always replays whole batches from committed
\* offsets".  A batch is written either at the durable offsets or as the
\* replay of the batch that led to them.
WholeBatchReplays ==
  [][\A r \in Runner : WriteCommit(r)
        => pos[r] = nextOffset \/ nxt[r] = nextOffset]_vars

=============================================================================
