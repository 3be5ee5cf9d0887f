------------------------------- MODULE EventTime -------------------------------
(***************************************************************************)
(* Event time on top of StreamCommit: the WatermarkTracker and the         *)
(* WindowPlanner (streaming/windows.py) that a SqlTransactionalSink        *)
(* consults inside its transaction, and the tables they lead it to write.  *)
(* One runner is alive at a time, so there is one tracker; it lives in the *)
(* memory of that runner and must be brought back to what the database     *)
(* says after a restart and after a commit that was rolled back.           *)
(*                                                                         *)
(* Event times are integers.  Processing time only matters for idleness    *)
(* and is kept as the ticks since a partition was last heard of.           *)
(***************************************************************************)
EXTENDS StreamCommit, Verifier

CONSTANTS
  Time,             \* event_time of each record
  WindowSize,       \* window_seconds
  OutOfOrder,       \* out_of_orderness_seconds
  AllowedLateness,  \* allowed_lateness_seconds
  IdleTimeout,      \* idle_partition_timeout_seconds, in ticks
  OnLate            \* on_late

ASSUME EventAssumption ==
  /\ ~Overlap
  /\ Time \in [Rec -> Nat]
  /\ WindowSize \in Nat \ {0}
  /\ OutOfOrder \in Nat
  /\ AllowedLateness \in Nat
  /\ IdleTimeout \in Nat
  /\ OnLate \in {"side_output", "update"}

\* window_start and _window_end.
WindowOf(x) == Time[x] - (Time[x] % WindowSize)
End(w)      == w + WindowSize
Windows     == {WindowOf(x) : x \in Rec}

VARIABLES
  maxSeen,   \* the tracker's _max_event_time; NULL without an entry
  silence,   \* ticks since _last_seen, not counted beyond IdleTimeout + 1
  stored,    \* stream_state.watermark; NULL without a value
  late,      \* late_events: "none", or what became of the record
  revision,  \* stream_windows.revision
  closed     \* the windows whose closed_at is set

tracker   == <<maxSeen, silence>>
tables    == <<stored, late, revision, closed>>
eventVars == <<vars, tracker, tables>>

EventInit ==
  /\ Init
  /\ maxSeen  = [p \in Partition |-> NULL]
  /\ silence  = [p \in Partition |-> 0]
  /\ stored   = [p \in Partition |-> NULL]
  /\ late     = [x \in Rec |-> "none"]
  /\ revision = [w \in Windows |-> 0]
  /\ closed   = {}

-----------------------------------------------------------------------------
(***************************************************************************)
(* WatermarkTracker.                                                       *)
(***************************************************************************)

Seen(seen) == {p \in Partition : seen[p] # NULL}

\* watermark(): the slowest partition that still speaks, or the slowest of
\* all when none does.
Watermark(seen, quiet) ==
  LET active == {p \in Seen(seen) : quiet[p] <= IdleTimeout}
      source == IF active = {} THEN Seen(seen) ELSE active
  IN  IF source = {} THEN NULL ELSE Min({seen[p] : p \in source}) - OutOfOrder

\* restore() into a new tracker: every partition counts as heard of just now.
Restore ==
  /\ maxSeen' = stored
  /\ silence' = [p \in Partition |-> 0]

TimesOf(p, batch) == {Time[x] : x \in {y \in batch : y[1] = p}}

\* observe(), for every record of the batch.
Observed(batch) ==
  [p \in Partition |->
     LET times == TimesOf(p, batch) \cup ({maxSeen[p]} \ {NULL})
     IN  IF times = {} THEN NULL ELSE Max(times)]

Heard(batch) ==
  [p \in Partition |-> IF TimesOf(p, batch) = {} THEN silence[p] ELSE 0]

-----------------------------------------------------------------------------
(***************************************************************************)
(* WindowPlanner.                                                          *)
(***************************************************************************)

\* _classify.
Verdict(x, watermark) ==
  LET end == End(WindowOf(x))
  IN  IF watermark = NULL \/ watermark < end THEN "on_time"
      ELSE IF watermark < end + AllowedLateness THEN "late" ELSE "beyond"

\* _open_windows.
OpenWindows == {WindowOf(x) : x \in {y \in Rec : counted[y] > 0}} \ closed

\* Mutant of NewlyClosed: only the windows of the batch can fire.
ClosedByBatch(delta, watermark) ==
  {w \in {WindowOf(x) : x \in delta} : watermark >= End(w)}

\* _newly_closed.
NewlyClosed(delta, watermark) ==
  {w \in {WindowOf(x) : x \in delta} \cup OpenWindows : watermark >= End(w)}

\* plan() and _apply_plan.  All records of the batch are judged by the
\* watermark before it, and the windows are closed by the one after it.
ApplyPlan(r) ==
  LET batch   == Between(pos[r], nxt[r])
      verdict == [x \in batch |-> Verdict(x, Watermark(maxSeen, silence))]
      aside   == {x \in batch : verdict[x] = "beyond" /\ OnLate = "side_output"}
      delta   == batch \ aside
      tardy   == {x \in delta : verdict[x] # "on_time"}
  IN  /\ maxSeen' = Observed(batch)
      /\ silence' = Heard(batch)
      /\ counted' = [x \in Rec |-> IF x \in delta THEN counted[x] + 1
                                   ELSE counted[x]]
      /\ revision' = [w \in Windows |-> revision[w]
                        + Cardinality({x \in tardy : WindowOf(x) = w})]
      /\ late' = [x \in Rec |->
                    IF late[x] # "none" THEN late[x]
                    ELSE IF x \in aside THEN "set_aside"
                    ELSE IF x \in tardy THEN "counted" ELSE "none"]
      /\ closed' = closed \cup NewlyClosed(delta, Watermark(maxSeen', silence'))

-----------------------------------------------------------------------------
(***************************************************************************)
(* The steps of StreamCommit, with what they do to event time.             *)
(***************************************************************************)

\* The sink is built, and its tracker restored, before run_stream begins.
OpenSink(r) == Start(r) /\ Restore /\ UNCHANGED tables

Quiet(r) ==
  /\ ReadOffsets(r) \/ CheckFence(r) \/ Poll(r) \/ BeginCommit(r) \/ CommitLocal(r)
  /\ UNCHANGED <<tracker, tables>>

\* Mutant of Stored: the new value as it comes.
StoredPlain(old, new) == new

\* The watermark column of a partition whose offset is written: COALESCE.
Stored(old, new) == IF new = NULL THEN old ELSE new

\* A replay has no plan: it leaves the windows and the tracker alone, and has
\* no watermarks to go with its offsets.
Commit(r) ==
  /\ CommitRows(r)
  /\ IF advanced[r] THEN ApplyPlan(r)
     ELSE UNCHANGED <<counted, tracker, late, revision, closed>>
  /\ stored' = [p \in Partition |->
                  IF nxt[r][p] = 0 THEN stored[p]
                  ELSE Stored(stored[p], IF advanced[r] THEN maxSeen'[p] ELSE NULL)]

InCommit == {"commit", "write", "committed"}

FailToRead(r) ==
  /\ pc[r] \notin InCommit
  /\ Fail(r)
  /\ UNCHANGED <<tracker, tables>>

\* commit() raised, and _resync_watermarks read the stored watermarks.
FailAndResync(r) ==
  /\ pc[r] \in InCommit
  /\ Fail(r)
  /\ Restore
  /\ UNCHANGED tables

\* The read of _resync_watermarks failed too, as in an outage it may.  The
\* tracker stays as it was, and if the plan had been made, as the plan left it.
FailWithoutResync(r) ==
  /\ pc[r] \in InCommit
  /\ Fail(r)
  /\ \/ UNCHANGED tracker
     \/ /\ pc[r] = "write" /\ advanced[r]
        /\ maxSeen' = Observed(Between(pos[r], nxt[r]))
        /\ silence' = Heard(Between(pos[r], nxt[r]))
  /\ UNCHANGED tables

Kill(r) == Crash(r) /\ UNCHANGED <<tracker, tables>>

Tick ==
  /\ \E r \in Runner : Alive(r)
  /\ \E p \in Seen(maxSeen) : silence[p] <= IdleTimeout
  /\ silence' = [p \in Partition |->
                   IF p \in Seen(maxSeen) /\ silence[p] <= IdleTimeout
                   THEN silence[p] + 1 ELSE silence[p]]
  /\ UNCHANGED <<vars, maxSeen, tables>>

EventNext ==
  \/ \E r \in Runner :
       \/ OpenSink(r) \/ Quiet(r) \/ Commit(r)
       \/ FailToRead(r) \/ FailAndResync(r) \/ FailWithoutResync(r) \/ Kill(r)
  \/ Tick

EventSpec == EventInit /\ [][EventNext]_eventVars

-----------------------------------------------------------------------------
(***************************************************************************)
(* Properties.                                                             *)
(***************************************************************************)

Passed(x)   == x[2] < nextOffset[x[1]]
SetAside(x) == IF late[x] = "set_aside" THEN 1 ELSE 0

EventTypeOK ==
  /\ maxSeen \in [Partition -> Nat \cup {NULL}]
  /\ silence \in [Partition -> 0..(IdleTimeout + 1)]
  /\ stored \in [Partition -> Nat \cup {NULL}]
  /\ late \in [Rec -> {"none", "counted", "set_aside"}]
  /\ counted \in [Rec -> Nat]
  /\ revision \in [Windows -> Nat]
  /\ closed \subseteq Windows

\* The rows of stream_windows, and what the verifier finds wrong with them.
\* A record is worth its event time, more than nothing.
Worth(x)    == Time[x] + 1
Generated   == [x \in Rec |-> [window |-> WindowOf(x), amount |-> Worth(x)]]
StreamWindows ==
  [w \in {WindowOf(x) : x \in {y \in Rec : counted[y] > 0}} |->
     LET members == {x \in Rec : WindowOf(x) = w}
     IN  [count |-> MapThenSumSet(LAMBDA x : counted[x], members),
          sum   |-> MapThenSumSet(LAMBDA x : counted[x] * Worth(x), members)]]
WindowsAmiss ==
  VerifyWindowAccounting(Generated, StreamWindows, {x \in Rec : late[x] = "set_aside"},
                         [x \in Rec |-> Worth(x)])

\* docs/STREAMING.md, "counted, never dropped": a record the offsets have
\* passed is in its window or set aside, once; a window was revised as often
\* as late records were added to it; and verify_window_accounting says so, of
\* every window whose records have all been passed and of no other.
AccountsBalance ==
  /\ \A x \in Rec : counted[x] + SetAside(x) = IF Passed(x) THEN 1 ELSE 0
  /\ \A w \in Windows :
       revision[w] = Cardinality({x \in Rec : WindowOf(x) = w /\ late[x] = "counted"})
  /\ WindowsAmiss = {WindowOf(x) : x \in {y \in Rec : ~Passed(y)}}

\* What a restart restores is the highest event time behind the offsets it
\* resumes from, whatever failed before.  And a live tracker knows every
\* partition the table knows and is never behind it, so that the next commit
\* cannot move a stored watermark back.
StoredIsDurable ==
  /\ EventTypeOK
  /\ \A p \in Partition :
       LET times == {Time[x] : x \in {y \in Rec : y[1] = p /\ Passed(y)}}
       IN  stored[p] = IF times = {} THEN NULL ELSE Max(times)
  /\ (\E r \in Runner : Alive(r)) =>
       \A p \in Partition : stored[p] # NULL =>
         maxSeen[p] # NULL /\ maxSeen[p] >= stored[p]

\* Some durable record came from beyond the end of x's window, by the
\* disorder that is tolerated and by `more`.
Overtaken(x, more) ==
  \E y \in Rec : Passed(y) /\ Time[y] - OutOfOrder >= End(WindowOf(x)) + more

\* A window the stored watermarks have passed has fired, whether or not a
\* batch brought a record for it.  And a record is only called late if one
\* that became durable before or with it had overtaken it, and only set aside
\* if by more than the allowed lateness.
WindowsFollowWatermarks ==
  /\ \A w \in OpenWindows :
       \E p \in Seen(stored) : stored[p] - OutOfOrder < End(w)
  /\ \A x \in Rec :
       /\ late[x] # "none"      => Overtaken(x, 0)
       /\ late[x] = "set_aside" => Overtaken(x, AllowedLateness)

\* windows.py: "A record cannot be late relative to a watermark that it
\* itself advanced".  What made it late was durable before its batch.
NotLateByItself ==
  [][\A x \in Rec : late[x] = "none" /\ late'[x] # "none"
        => Overtaken(x, 0)]_eventVars

\* docs/STREAMING.md: an arrival after its window fired "updates the window
\* and emits a correction ... bumping the window's revision so a restatement
\* is visible".
NoSilentRestatement ==
  [][\A w \in closed :
       (\E x \in Rec : WindowOf(x) = w /\ counted'[x] > counted[x])
         => revision'[w] > revision[w]]_eventVars

=============================================================================
