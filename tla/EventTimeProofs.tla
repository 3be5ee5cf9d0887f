---------------------------- MODULE EventTimeProofs ----------------------------
(***************************************************************************)
(* Theorems about EventTime, for any event times, window size, lateness,   *)
(* idle timeout, number of runners and of failures: the accounts of the    *)
(* windows, the watermarks that are stored, and what they justify.         *)
(***************************************************************************)
EXTENDS EventTime, StreamCommitProofs, DataLemmas

\* The highest of a set of event times, and the event times of a partition
\* that lie before an offset.
Latest(times) == IF times = {} THEN NULL ELSE Max(times)

TimesBefore(p, offsets) ==
  {Time[x] : x \in {y \in Rec : y[1] = p /\ Below(y, offsets)}}

StoredIsLatest == \A p \in Partition : stored[p] = Latest(TimesBefore(p, nextOffset))

\* The tracker of a live runner knows what is durable, or that and the batch
\* in its hands: a failed commit may have left it ahead.
TrackerKnows ==
  \A r \in Runner : Alive(r) => \A p \in Partition :
    \/ maxSeen[p] = Latest(TimesBefore(p, nextOffset))
    \/ pc[r] \in {"commit", "write"} /\ maxSeen[p] = Latest(TimesBefore(p, nxt[r]))

EachOnce == \A x \in Rec : counted[x] + SetAside(x) = IF Passed(x) THEN 1 ELSE 0

LateIsPassed == \A x \in Rec : late[x] # "none" => Passed(x)

CountedLate(w) == {x \in Rec : WindowOf(x) = w /\ late[x] = "counted"}

RevisionsAreLate == \A w \in Windows : revision[w] = Cardinality(CountedLate(w))

EventInv ==
  /\ DurableInv
  /\ EventTypeOK
  /\ StoredIsLatest
  /\ TrackerKnows
  /\ EachOnce
  /\ LateIsPassed
  /\ RevisionsAreLate
  /\ WindowsFollowWatermarks

-----------------------------------------------------------------------------
(***************************************************************************)
(* Event times and their maxima.                                           *)
(***************************************************************************)

LEMMA RecFinite == IsFiniteSet(Rec)
<1>1. IsFiniteSet(0..MaxLen)
  BY StreamAssumption, FS_Interval
<1>2. IsFiniteSet(Partition \X (0..MaxLen))
  BY <1>1, StreamAssumption, FS_Product
<1>3. Rec \subseteq Partition \X (0..MaxLen)
  BY DEF Rec
<1>. QED
  BY <1>2, <1>3, FS_Subset

LEMMA TimesFinite ==
  ASSUME NEW S \in SUBSET Rec
  PROVE  {Time[x] : x \in S} \in SUBSET Nat /\ IsFiniteSet({Time[x] : x \in S})
<1>1. IsFiniteSet(S)
  BY RecFinite, FS_Subset
<1>2. IsFiniteSet({Time[x] : x \in S})
  BY <1>1, ImageFinite
<1>3. \A x \in S : Time[x] \in Nat
  BY EventAssumption
<1>. QED
  BY <1>2, <1>3

\* A number that is in the set and bounds it is its maximum.
LEMMA LatestIs ==
  ASSUME NEW S \in SUBSET Nat, IsFiniteSet(S)
  PROVE  /\ S = {} => Latest(S) = NULL
         /\ S # {} => /\ Latest(S) \in S
                      /\ \A y \in S : y <= Latest(S)
                      /\ \A m \in S : (\A y \in S : y <= m) => Latest(S) = m
<1>1. S # {} => Max(S) \in S /\ \A y \in S : y <= Max(S)
  BY MaxIs
<1>2. ASSUME NEW m \in S, \A y \in S : y <= m PROVE Max(S) = m
  <2>1. Max(S) \in Nat /\ m \in Nat /\ m <= Max(S) /\ Max(S) <= m
    BY <1>1, <1>2
  <2>. QED
    BY <2>1
<1>. QED
  BY <1>1, <1>2 DEF Latest

LEMMA LatestType ==
  ASSUME NEW S \in SUBSET Nat, IsFiniteSet(S)
  PROVE  /\ Latest(S) \in Nat \cup {NULL}
         /\ Latest(S) = NULL <=> S = {}
<1>1. CASE S = {}
  BY <1>1, LatestIs
<1>2. CASE S # {}
  <2>1. Latest(S) \in S
    BY <1>2, LatestIs
  <2>2. Latest(S) \in Nat
    BY <2>1
  <2>3. Latest(S) # NULL
    BY <2>2, StreamAssumption
  <2>. QED
    BY <1>2, <2>2, <2>3
<1>. QED
  BY <1>1, <1>2

\* observe() of some times by a tracker that holds the maximum of others.
LEMMA LatestJoins ==
  ASSUME NEW S \in SUBSET Nat, IsFiniteSet(S), NEW T \in SUBSET Nat, IsFiniteSet(T)
  PROVE  Latest(S \cup ({Latest(T)} \ {NULL})) = Latest(S \cup T)
<1>1. CASE T = {}
  BY <1>1, LatestIs
<1>2. CASE T # {}
  <2>. DEFINE m == Latest(T)
              V == S \cup T
              n == Latest(V)
              U == S \cup {m}
  <2>1. m \in T /\ m \in Nat /\ m # NULL /\ \A y \in T : y <= m
    <3>1. m \in T /\ \A y \in T : y <= m
      BY <1>2, LatestIs
    <3>2. m # NULL
      BY <1>2, LatestType
    <3>. QED
      BY <3>1, <3>2
  <2>2. IsFiniteSet(V) /\ IsFiniteSet(U)
    BY FS_Union, FS_AddElement
  <2>3. n \in V /\ \A y \in V : y <= n
    <3>1. V \in SUBSET Nat /\ V # {}
      BY <1>2
    <3>. HIDE DEF V
    <3>. QED
      BY <2>2, <3>1, LatestIs
  <2>4. n \in Nat
    BY <2>3
  <2>. HIDE DEF m, n
  <2>5. n \in U
    <3>1. CASE n \in S
      BY <3>1
    <3>2. CASE n \in T
      <4>1. n = m
        BY <2>1, <2>3, <2>4, <3>2
      <4>. QED
        BY <4>1
    <3>. QED
      BY <2>3, <3>1, <3>2
  <2>6. \A y \in U : y <= n
    BY <2>1, <2>3
  <2>7. U \in SUBSET Nat
    BY <2>1
  <2>. HIDE DEF U
  <2>8. Latest(U) = n
    BY <2>2, <2>5, <2>6, <2>7, LatestIs
  <2>9. S \cup ({m} \ {NULL}) = U
    BY <2>1 DEF U
  <2>. QED
    BY <2>8, <2>9 DEF m, n
<1>. QED
  BY <1>1, <1>2

LEMMA TimesBeforeType ==
  ASSUME NEW p, NEW offsets
  PROVE  TimesBefore(p, offsets) \in SUBSET Nat /\ IsFiniteSet(TimesBefore(p, offsets))
BY TimesFinite DEF TimesBefore

\* Whether the tracker is at the start of the batch or ahead by it, observing
\* the batch brings it to its end.
LEMMA ObservedIs ==
  ASSUME NEW from \in Offsets, NEW to \in Offsets, NEW p \in Partition,
         \A q \in Partition : from[q] <= to[q],
         \/ maxSeen[p] = Latest(TimesBefore(p, from))
         \/ maxSeen[p] = Latest(TimesBefore(p, to))
  PROVE  Observed(Between(from, to))[p] = Latest(TimesBefore(p, to))
<1>. DEFINE S == TimesOf(p, Between(from, to))
            A == TimesBefore(p, from)
            B == TimesBefore(p, to)
<1>1. \A x \in Rec : /\ x[1] \in Partition /\ x[2] \in Nat
                     /\ from[x[1]] \in Nat /\ to[x[1]] \in Nat /\ from[x[1]] <= to[x[1]]
  BY RecFields DEF Offsets
<1>2. \A x \in Rec : Below(x, to) <=> Below(x, from) \/ x \in Between(from, to)
  BY <1>1 DEF Below, Between
<1>3. S \cup A = B /\ S \cup B = B
  BY <1>2 DEF TimesOf, TimesBefore, Between
<1>4. /\ A \in SUBSET Nat /\ IsFiniteSet(A)
      /\ B \in SUBSET Nat /\ IsFiniteSet(B)
  BY TimesBeforeType
<1>5. S \in SUBSET Nat /\ IsFiniteSet(S)
  <2>1. {y \in Between(from, to) : y[1] = p} \in SUBSET Rec
    BY DEF Between
  <2>. QED
    BY <2>1, TimesFinite DEF TimesOf
<1>6. Observed(Between(from, to))[p] = Latest(S \cup ({maxSeen[p]} \ {NULL}))
  BY DEF Observed, Latest
<1>. HIDE DEF S, A, B
<1>7. Latest(S \cup ({Latest(A)} \ {NULL})) = Latest(S \cup A)
  BY <1>4, <1>5, LatestJoins
<1>8. Latest(S \cup ({Latest(B)} \ {NULL})) = Latest(S \cup B)
  BY <1>4, <1>5, LatestJoins
<1>. QED
  BY <1>3, <1>6, <1>7, <1>8 DEF A, B

\* A watermark is that of some partition that has been seen.
LEMMA WatermarkIs ==
  ASSUME NEW seen \in [Partition -> Nat \cup {NULL}], NEW quiet
  PROVE  IF Seen(seen) = {} THEN Watermark(seen, quiet) = NULL
         ELSE \E p \in Seen(seen) : Watermark(seen, quiet) = seen[p] - OutOfOrder
<1>. DEFINE active == {p \in Seen(seen) : quiet[p] <= IdleTimeout}
            source == IF active = {} THEN Seen(seen) ELSE active
            values == {seen[p] : p \in source}
<1>1. CASE Seen(seen) = {}
  BY <1>1 DEF Watermark
<1>2. CASE Seen(seen) # {}
  <2>1. source # {} /\ source \subseteq Seen(seen) /\ source \subseteq Partition
    BY <1>2 DEF Seen
  <2>2. Watermark(seen, quiet) = Min(values) - OutOfOrder
    BY <2>1 DEF Watermark
  <2>3. IsFiniteSet(source)
    BY <2>1, StreamAssumption, FS_Subset
  <2>. HIDE DEF source
  <2>4. values # {} /\ values \in SUBSET Int
    BY <2>1 DEF Seen
  <2>5. IsFiniteSet(values)
    BY <2>3, ImageFinite
  <2>. HIDE DEF values
  <2>6. Min(values) \in values
    BY <2>4, <2>5, MinIs
  <2>7. PICK p \in source : Min(values) = seen[p]
    BY <2>6 DEF values
  <2>. QED
    BY <1>2, <2>1, <2>2, <2>7
<1>. QED
  BY <1>1, <1>2

-----------------------------------------------------------------------------
(***************************************************************************)
(* Types, and the offsets: an event-time step is a step of StreamCommit    *)
(* but for what it adds to the counts.                                     *)
(***************************************************************************)

LEMMA EventMoves == [EventNext]_eventVars => Moves
<1>. SUFFICES ASSUME [EventNext]_eventVars PROVE Moves
  OBVIOUS
<1>1. ASSUME NEW r \in Runner,
             \/ OpenSink(r) \/ Quiet(r) \/ Commit(r)
             \/ FailToRead(r) \/ FailAndResync(r) \/ FailWithoutResync(r) \/ Kill(r)
      PROVE  Move(r)
  BY <1>1 DEF Move, OpenSink, Quiet, Commit, FailToRead, FailAndResync, FailWithoutResync, Kill
<1>2. CASE UNCHANGED vars
  BY <1>2 DEF Moves, vars, moveVars, sinkVars
<1>3. CASE Tick
  BY <1>2, <1>3 DEF Tick
<1>4. CASE UNCHANGED eventVars
  BY <1>2, <1>4 DEF eventVars
<1>. QED
  BY <1>1, <1>3, <1>4 DEF EventNext, Moves

\* How the records of a batch are judged, in the terms of the tracker before it.
Judged(x) == Verdict(x, Watermark(maxSeen, silence))
Aside(batch) == {x \in batch : Judged(x) = "beyond" /\ OnLate = "side_output"}
Tardy(batch) == {x \in batch \ Aside(batch) : Judged(x) # "on_time"}
TardyIn(batch, w) == {x \in Tardy(batch) : WindowOf(x) = w}

LEMMA PlanIs ==
  ASSUME NEW r \in Runner, ApplyPlan(r), NEW batch, batch = Between(pos[r], nxt[r])
  PROVE  /\ maxSeen' = Observed(batch)
         /\ silence' = Heard(batch)
         /\ counted' = [x \in Rec |-> IF x \in batch \ Aside(batch) THEN counted[x] + 1
                                      ELSE counted[x]]
         /\ revision' = [w \in Windows |-> revision[w]
                           + Cardinality(TardyIn(batch, w))]
         /\ late' = [x \in Rec |->
                       IF late[x] # "none" THEN late[x]
                       ELSE IF x \in Aside(batch) THEN "set_aside"
                       ELSE IF x \in Tardy(batch) THEN "counted" ELSE "none"]
         /\ closed' = closed \cup NewlyClosed(batch \ Aside(batch),
                                             Watermark(maxSeen', silence'))
<1>. DEFINE verdict == [x \in batch |-> Verdict(x, Watermark(maxSeen, silence))]
            aside   == {x \in batch : verdict[x] = "beyond" /\ OnLate = "side_output"}
            delta   == batch \ aside
            tardy   == {x \in delta : verdict[x] # "on_time"}
<1>1. aside = Aside(batch) /\ tardy = Tardy(batch)
  BY DEF Aside, Tardy, Judged
<1>2. /\ maxSeen' = Observed(batch)
      /\ silence' = Heard(batch)
      /\ counted' = [x \in Rec |-> IF x \in delta THEN counted[x] + 1 ELSE counted[x]]
      /\ revision' = [w \in Windows |-> revision[w]
                        + Cardinality({x \in tardy : WindowOf(x) = w})]
      /\ late' = [x \in Rec |->
                    IF late[x] # "none" THEN late[x]
                    ELSE IF x \in aside THEN "set_aside"
                    ELSE IF x \in tardy THEN "counted" ELSE "none"]
      /\ closed' = closed \cup NewlyClosed(delta, Watermark(maxSeen', silence'))
  BY DEF ApplyPlan
<1>3. \A w : {x \in tardy : WindowOf(x) = w} = TardyIn(batch, w)
  BY <1>1 DEF TardyIn
<1>. HIDE DEF aside, tardy
<1>. QED
  BY <1>1, <1>2, <1>3

LEMMA ObservedType ==
  ASSUME NEW batch \in SUBSET Rec, maxSeen \in [Partition -> Nat \cup {NULL}]
  PROVE  Observed(batch) \in [Partition -> Nat \cup {NULL}]
<1>1. ASSUME NEW p \in Partition
      PROVE  Latest(TimesOf(p, batch) \cup ({maxSeen[p]} \ {NULL})) \in Nat \cup {NULL}
  <2>. DEFINE S == TimesOf(p, batch)
              M == {maxSeen[p]} \ {NULL}
  <2>1. S \in SUBSET Nat /\ IsFiniteSet(S)
    <3>1. {y \in batch : y[1] = p} \in SUBSET Rec
      OBVIOUS
    <3>. QED
      BY <3>1, TimesFinite DEF TimesOf
  <2>2. M \in SUBSET Nat
    OBVIOUS
  <2>3. IsFiniteSet(M)
    BY FS_Singleton, FS_RemoveElement
  <2>. HIDE DEF S, M
  <2>4. IsFiniteSet(S \cup M)
    BY <2>1, <2>3, FS_Union
  <2>. QED
    BY <2>1, <2>2, <2>4, LatestType DEF S, M
<1>. QED
  BY <1>1 DEF Observed, Latest

LEMMA HeardType ==
  ASSUME NEW batch, silence \in [Partition -> 0..(IdleTimeout + 1)]
  PROVE  Heard(batch) \in [Partition -> 0..(IdleTimeout + 1)]
BY EventAssumption DEF Heard

LEMMA BatchType ==
  ASSUME NEW from, NEW to
  PROVE  Between(from, to) \in SUBSET Rec
BY DEF Between

LEMMA CardinalityType ==
  ASSUME NEW S \in SUBSET Rec
  PROVE  IsFiniteSet(S) /\ Cardinality(S) \in Nat
BY RecFinite, FS_Subset, FS_CardinalityType

LEMMA PlanTypes ==
  ASSUME EventTypeOK, NEW r \in Runner, ApplyPlan(r)
  PROVE  /\ maxSeen' \in [Partition -> Nat \cup {NULL}]
         /\ silence' \in [Partition -> 0..(IdleTimeout + 1)]
         /\ late' \in [Rec -> {"none", "counted", "set_aside"}]
         /\ counted' \in [Rec -> Nat]
         /\ revision' \in [Windows -> Nat]
         /\ closed' \subseteq Windows
<1>. DEFINE batch == Between(pos[r], nxt[r])
<1>1. batch \in SUBSET Rec
  BY BatchType
<1>. HIDE DEF batch
<1>2. /\ maxSeen' = Observed(batch)
      /\ silence' = Heard(batch)
      /\ counted' = [x \in Rec |-> IF x \in batch \ Aside(batch) THEN counted[x] + 1
                                   ELSE counted[x]]
      /\ revision' = [w \in Windows |-> revision[w]
                        + Cardinality(TardyIn(batch, w))]
      /\ late' = [x \in Rec |->
                    IF late[x] # "none" THEN late[x]
                    ELSE IF x \in Aside(batch) THEN "set_aside"
                    ELSE IF x \in Tardy(batch) THEN "counted" ELSE "none"]
      /\ closed' = closed \cup NewlyClosed(batch \ Aside(batch),
                                          Watermark(maxSeen', silence'))
  BY PlanIs DEF batch
<1>3. \A w : Cardinality(TardyIn(batch, w)) \in Nat
  <2>. SUFFICES ASSUME NEW w PROVE Cardinality(TardyIn(batch, w)) \in Nat
    OBVIOUS
  <2>1. TardyIn(batch, w) \in SUBSET Rec
    BY <1>1 DEF TardyIn, Tardy
  <2>. QED
    BY <2>1, CardinalityType
<1>4. NewlyClosed(batch \ Aside(batch), Watermark(maxSeen', silence')) \subseteq Windows
  BY <1>1 DEF NewlyClosed, OpenWindows, Windows
<1>5. maxSeen' \in [Partition -> Nat \cup {NULL}] /\ silence' \in [Partition -> 0..(IdleTimeout + 1)]
  BY <1>1, <1>2, ObservedType, HeardType DEF EventTypeOK
<1>6. late' \in [Rec -> {"none", "counted", "set_aside"}]
  BY <1>2 DEF EventTypeOK
<1>7. counted' \in [Rec -> Nat]
  BY <1>2 DEF EventTypeOK
<1>8. revision' \in [Windows -> Nat]
  BY <1>2, <1>3 DEF EventTypeOK
<1>9. closed' \subseteq Windows
  BY <1>2, <1>4 DEF EventTypeOK
<1>. QED
  BY <1>5, <1>6, <1>7, <1>8, <1>9

LEMMA EventTypeStep ==
  ASSUME EventTypeOK, [EventNext]_eventVars
  PROVE  EventTypeOK'
<1>. USE DEF EventTypeOK
<1>1. ASSUME NEW r \in Runner, OpenSink(r) PROVE EventTypeOK'
  BY <1>1, EventAssumption DEF OpenSink, Restore, Start, sinkVars, tables
<1>2. ASSUME NEW r \in Runner, Quiet(r) \/ FailToRead(r) \/ Kill(r) PROVE EventTypeOK'
  BY <1>2 DEF Quiet, ReadOffsets, CheckFence, Poll, BeginCommit, CommitLocal, FailToRead, Fail,
     Kill, Crash, sinkVars, tables, tracker
<1>3. ASSUME NEW r \in Runner, Commit(r) PROVE EventTypeOK'
  <2>1. CASE advanced[r]
    <3>1. ApplyPlan(r)
      BY <1>3, <2>1 DEF Commit
    <3>2. stored' = [p \in Partition |-> IF nxt[r][p] = 0 THEN stored[p]
                                         ELSE Stored(stored[p], maxSeen'[p])]
      BY <1>3, <2>1 DEF Commit
    <3>3. maxSeen' \in [Partition -> Nat \cup {NULL}]
      BY <3>1, PlanTypes
    <3>4. stored' \in [Partition -> Nat \cup {NULL}]
      BY <3>2, <3>3 DEF Stored
    <3>. QED
      BY <3>1, <3>4, PlanTypes
  <2>2. CASE ~advanced[r]
    BY <1>3, <2>2 DEF Commit, Stored, tracker
  <2>. QED
    BY <2>1, <2>2
<1>4. ASSUME NEW r \in Runner, FailAndResync(r) PROVE EventTypeOK'
  BY <1>4, EventAssumption DEF FailAndResync, Restore, Fail, sinkVars, tables
<1>5. ASSUME NEW r \in Runner, FailWithoutResync(r) PROVE EventTypeOK'
  <2>1. /\ maxSeen' \in [Partition -> Nat \cup {NULL}]
        /\ silence' \in [Partition -> 0..(IdleTimeout + 1)]
    BY <1>5, BatchType, ObservedType, HeardType DEF FailWithoutResync, tracker
  <2>. QED
    BY <1>5, <2>1 DEF FailWithoutResync, Fail, sinkVars, tables
<1>6. CASE Tick
  <2>1. ASSUME NEW p \in Partition, silence[p] <= IdleTimeout
        PROVE  silence[p] + 1 \in 0..(IdleTimeout + 1)
    BY <2>1, EventAssumption
  <2>2. silence' \in [Partition -> 0..(IdleTimeout + 1)]
    BY <1>6, <2>1 DEF Tick
  <2>. QED
    BY <1>6, <2>2 DEF Tick, tables, vars, sinkVars
<1>7. CASE UNCHANGED eventVars
  BY <1>7 DEF eventVars, vars, sinkVars, tracker, tables
<1>. QED
  BY <1>1, <1>2, <1>3, <1>4, <1>5, <1>6, <1>7 DEF EventNext

LEMMA DurableStep ==
  ASSUME EventInv, [EventNext]_eventVars
  PROVE  DurableInv' /\ EventTypeOK'
<1>1. EventTypeOK'
  BY EventTypeStep DEF EventInv
<1>2. counted' \in [Rec -> Nat]
  BY <1>1 DEF EventTypeOK
<1>3. Overlap = FALSE
  BY EventAssumption, StreamAssumption
<1>. QED
  BY <1>1, <1>2, <1>3, EventMoves, DurableMove DEF EventInv

-----------------------------------------------------------------------------
(***************************************************************************)
(* What a commit does to the durable offsets, and that no other step       *)
(* touches them or the tables.                                             *)
(***************************************************************************)

LEMMA CommitAdvances ==
  ASSUME EventInv, NEW r \in Runner, Commit(r), advanced[r]
  PROVE  /\ ApplyPlan(r)
         /\ nextOffset = pos[r] /\ nextOffset' = nxt[r]
         /\ \A p \in Partition : pos[r][p] <= nxt[r][p]
         /\ \A x \in Rec : Passed(x)' <=> Passed(x) \/ x \in Between(pos[r], nxt[r])
         /\ \A x \in Between(pos[r], nxt[r]) : ~Passed(x)
         /\ \A p \in Partition : maxSeen'[p] = Latest(TimesBefore(p, nxt[r]))
<1>1. CommitRows(r) /\ ApplyPlan(r) /\ DurableInv
  BY DEF Commit, EventInv
<1>2. nextOffset = pos[r] /\ nextOffset' = nxt[r]
  BY <1>1, WriteMoves
<1>3. pos[r] \in Offsets /\ nxt[r] \in Offsets /\ pc[r] = "write"
  BY <1>1 DEF DurableInv, TypeOK, CommitRows, Goto
<1>4. \A p \in Partition : pos[r][p] <= nxt[r][p]
  BY <1>1, <1>3 DEF DurableInv, TypeOK
<1>5. \A x \in Rec : /\ x[2] \in Nat
                     /\ pos[r][x[1]] \in Nat /\ nxt[r][x[1]] \in Nat
                     /\ pos[r][x[1]] <= nxt[r][x[1]]
  BY <1>3, <1>4, RecFields DEF Offsets
<1>6. \A x \in Rec : Passed(x)' <=> Passed(x) \/ x \in Between(pos[r], nxt[r])
  BY <1>2, <1>5 DEF Passed, Between
<1>7. \A x \in Between(pos[r], nxt[r]) : ~Passed(x)
  BY <1>2, <1>5 DEF Passed, Between
<1>8. ASSUME NEW p \in Partition PROVE maxSeen'[p] = Latest(TimesBefore(p, nxt[r]))
  <2>1. Alive(r)
    BY <1>3 DEF Alive, Ended
  <2>2. \/ maxSeen[p] = Latest(TimesBefore(p, pos[r]))
        \/ maxSeen[p] = Latest(TimesBefore(p, nxt[r]))
    BY <1>2, <2>1 DEF EventInv, TrackerKnows
  <2>3. maxSeen' = Observed(Between(pos[r], nxt[r]))
    BY <1>1, PlanIs
  <2>. QED
    BY <1>3, <1>4, <2>2, <2>3, ObservedIs
<1>. QED
  BY <1>1, <1>2, <1>4, <1>6, <1>7, <1>8

LEMMA CommitReplays ==
  ASSUME EventInv, NEW r \in Runner, Commit(r), ~advanced[r]
  PROVE  UNCHANGED <<nextOffset, counted, tracker, tables>>
<1>1. CommitRows(r) /\ DurableInv
  BY DEF Commit, EventInv
<1>2. nextOffset' = nextOffset
  BY <1>1, WriteMoves
<1>3. stored' = [p \in Partition |-> stored[p]]
  BY DEF Commit, Stored
<1>4. stored' = stored
  BY <1>3 DEF EventInv, EventTypeOK
<1>. QED
  BY <1>2, <1>4 DEF Commit, tracker, tables

LEMMA OthersLeave ==
  ASSUME [EventNext]_eventVars, \A r \in Runner : ~Commit(r)
  PROVE  UNCHANGED <<nextOffset, counted, tables>>
<1>1. ASSUME NEW r \in Runner,
             \/ OpenSink(r) \/ Quiet(r)
             \/ FailToRead(r) \/ FailAndResync(r) \/ FailWithoutResync(r) \/ Kill(r)
      PROVE  UNCHANGED <<nextOffset, counted, tables>>
  BY <1>1 DEF OpenSink, Quiet, FailToRead, FailAndResync, FailWithoutResync, Kill,
     Start, ReadOffsets, CheckFence, Poll, BeginCommit, CommitLocal, Fail, Crash, sinkVars
<1>2. CASE Tick
  BY <1>2 DEF Tick, vars, sinkVars
<1>3. CASE UNCHANGED eventVars
  BY <1>3 DEF eventVars, vars, sinkVars
<1>. QED
  BY <1>1, <1>2, <1>3 DEF EventNext

LEMMA AccountsStep ==
  ASSUME EventInv, [EventNext]_eventVars
  PROVE  EachOnce' /\ LateIsPassed'
<1>1. ASSUME NEW r \in Runner, Commit(r), advanced[r] PROVE EachOnce' /\ LateIsPassed'
  <2>. DEFINE batch == Between(pos[r], nxt[r])
  <2>1. /\ ApplyPlan(r)
        /\ \A x \in Rec : Passed(x)' <=> Passed(x) \/ x \in batch
        /\ \A x \in batch : ~Passed(x)
        /\ batch \subseteq Rec
    BY <1>1, CommitAdvances, BatchType
  <2>2. /\ counted' = [x \in Rec |-> IF x \in batch \ Aside(batch) THEN counted[x] + 1
                                     ELSE counted[x]]
        /\ late' = [x \in Rec |->
                      IF late[x] # "none" THEN late[x]
                      ELSE IF x \in Aside(batch) THEN "set_aside"
                      ELSE IF x \in Tardy(batch) THEN "counted" ELSE "none"]
    BY <2>1, PlanIs
  <2>. HIDE DEF batch
  <2>3. Aside(batch) \subseteq batch /\ Tardy(batch) \subseteq batch \ Aside(batch)
    BY DEF Aside, Tardy
  <2>4. ASSUME NEW x \in Rec
        PROVE  /\ counted'[x] + SetAside(x)' = IF Passed(x)' THEN 1 ELSE 0
               /\ late'[x] # "none" => Passed(x)'
    <3>1. /\ counted[x] \in Nat
          /\ counted[x] + SetAside(x) = IF Passed(x) THEN 1 ELSE 0
          /\ late[x] # "none" => Passed(x)
      BY DEF EventInv, EventTypeOK, EachOnce, LateIsPassed
    <3>2. SetAside(x)' = IF late'[x] = "set_aside" THEN 1 ELSE 0
      BY DEF SetAside
    <3>3. CASE x \in batch
      <4>1. ~Passed(x) /\ Passed(x)' /\ late[x] = "none"
        BY <2>1, <3>1, <3>3
      <4>2. counted[x] = 0
        BY <3>1, <4>1 DEF SetAside
      <4>3. CASE x \in Aside(batch)
        BY <2>2, <3>2, <4>1, <4>2, <4>3
      <4>4. CASE x \notin Aside(batch)
        BY <2>2, <3>2, <3>3, <4>1, <4>2, <4>4
      <4>. QED
        BY <4>3, <4>4
    <3>4. CASE x \notin batch
      <4>1. counted'[x] = counted[x] /\ late'[x] = late[x]
        BY <2>2, <2>3, <3>4
      <4>2. Passed(x)' <=> Passed(x)
        BY <2>1, <3>4
      <4>. QED
        BY <3>1, <3>2, <4>1, <4>2 DEF SetAside
    <3>. QED
      BY <3>3, <3>4
  <2>. QED
    BY <2>4 DEF EachOnce, LateIsPassed
<1>2. ASSUME UNCHANGED <<nextOffset, counted, tables>> PROVE EachOnce' /\ LateIsPassed'
  BY <1>2 DEF EventInv, EachOnce, LateIsPassed, SetAside, Passed, tables
<1>. QED
  BY <1>1, <1>2, CommitReplays, OthersLeave

LEMMA RevisionsStep ==
  ASSUME EventInv, [EventNext]_eventVars
  PROVE  RevisionsAreLate'
<1>1. ASSUME NEW r \in Runner, Commit(r), advanced[r] PROVE RevisionsAreLate'
  <2>. DEFINE batch == Between(pos[r], nxt[r])
  <2>1. /\ ApplyPlan(r)
        /\ \A x \in batch : ~Passed(x)
        /\ batch \subseteq Rec
    BY <1>1, CommitAdvances, BatchType
  <2>2. /\ revision' = [w \in Windows |-> revision[w] + Cardinality(TardyIn(batch, w))]
        /\ late' = [x \in Rec |->
                      IF late[x] # "none" THEN late[x]
                      ELSE IF x \in Aside(batch) THEN "set_aside"
                      ELSE IF x \in Tardy(batch) THEN "counted" ELSE "none"]
    BY <2>1, PlanIs
  <2>. HIDE DEF batch
  <2>3. Tardy(batch) \subseteq batch \ Aside(batch)
    BY DEF Tardy
  <2>4. \A x \in batch : late[x] = "none"
    BY <2>1 DEF EventInv, LateIsPassed
  <2>5. ASSUME NEW w \in Windows PROVE revision'[w] = Cardinality(CountedLate(w)')
    <3>1. CountedLate(w)' = CountedLate(w) \cup TardyIn(batch, w)
      <4>1. ASSUME NEW x \in Rec
            PROVE  late'[x] = "counted" <=> late[x] = "counted" \/ x \in Tardy(batch)
        BY <2>1, <2>2, <2>3, <2>4
      <4>. QED
        BY <2>1, <2>3, <4>1 DEF CountedLate, TardyIn
    <3>2. CountedLate(w) \cap TardyIn(batch, w) = {}
      BY <2>3, <2>4 DEF CountedLate, TardyIn
    <3>3. CountedLate(w) \in SUBSET Rec /\ TardyIn(batch, w) \in SUBSET Rec
      BY <2>1, <2>3 DEF CountedLate, TardyIn
    <3>4. /\ IsFiniteSet(CountedLate(w)) /\ Cardinality(CountedLate(w)) \in Nat
          /\ IsFiniteSet(TardyIn(batch, w)) /\ Cardinality(TardyIn(batch, w)) \in Nat
      BY <3>3, CardinalityType
    <3>5. Cardinality(CountedLate(w) \cup TardyIn(batch, w))
            = Cardinality(CountedLate(w)) + Cardinality(TardyIn(batch, w)) - Cardinality({})
      BY <3>2, <3>4, FS_Union
    <3>6. Cardinality({}) = 0
      BY FS_EmptySet
    <3>7. revision[w] = Cardinality(CountedLate(w))
      BY DEF EventInv, RevisionsAreLate
    <3>. QED
      BY <2>2, <3>1, <3>4, <3>5, <3>6, <3>7
  <2>. QED
    BY <2>5 DEF RevisionsAreLate, CountedLate
<1>2. ASSUME UNCHANGED <<nextOffset, counted, tables>> PROVE RevisionsAreLate'
  BY <1>2 DEF EventInv, RevisionsAreLate, CountedLate, tables
<1>. QED
  BY <1>1, <1>2, CommitReplays, OthersLeave

-----------------------------------------------------------------------------
(***************************************************************************)
(* The stored watermarks and the tracker.                                  *)
(***************************************************************************)

LEMMA StoredStep ==
  ASSUME EventInv, [EventNext]_eventVars
  PROVE  StoredIsLatest'
<1>1. ASSUME NEW r \in Runner, Commit(r), advanced[r] PROVE StoredIsLatest'
  <2>. SUFFICES ASSUME NEW p \in Partition
                PROVE  stored'[p] = Latest(TimesBefore(p, nxt[r]))
    BY <1>1, CommitAdvances DEF StoredIsLatest, TimesBefore, Below
  <2>1. /\ nextOffset = pos[r]
        /\ maxSeen'[p] = Latest(TimesBefore(p, nxt[r]))
        /\ pos[r][p] <= nxt[r][p]
    BY <1>1, CommitAdvances
  <2>2. stored'[p] = IF nxt[r][p] = 0 \/ maxSeen'[p] = NULL THEN stored[p] ELSE maxSeen'[p]
    BY <1>1 DEF Commit, Stored
  <2>3. stored[p] = Latest(TimesBefore(p, pos[r]))
    BY <2>1 DEF EventInv, StoredIsLatest
  <2>4. pos[r] \in Offsets /\ nxt[r] \in Offsets
    BY DEF EventInv, DurableInv, TypeOK
  <2>5. TimesBefore(p, pos[r]) \subseteq TimesBefore(p, nxt[r])
    BY <2>1, <2>4, RecFields DEF TimesBefore, Below, Offsets
  <2>6. nxt[r][p] = 0 => TimesBefore(p, nxt[r]) = {}
    BY RecFields DEF TimesBefore, Below
  <2>7. maxSeen'[p] = NULL => TimesBefore(p, nxt[r]) = {}
    BY <2>1, TimesBeforeType, LatestType
  <2>8. CASE TimesBefore(p, nxt[r]) = {}
    <3>1. TimesBefore(p, pos[r]) = {}
      BY <2>5, <2>8
    <3>. QED
      BY <2>1, <2>2, <2>3, <2>8, <3>1
  <2>9. CASE TimesBefore(p, nxt[r]) # {}
    BY <2>1, <2>2, <2>6, <2>7, <2>9
  <2>. QED
    BY <2>8, <2>9
<1>2. ASSUME UNCHANGED <<nextOffset, counted, tables>> PROVE StoredIsLatest'
  BY <1>2 DEF EventInv, StoredIsLatest, TimesBefore, Below, tables
<1>. QED
  BY <1>1, <1>2, CommitReplays, OthersLeave

\* A runner that is alive after a step is the one that took it.
LEMMA MoverAlive ==
  ASSUME DurableInv, DurableInv', NEW r \in Runner, Move(r), NEW q \in Runner, Alive(q)'
  PROVE  q = r
<1>. USE DEF DurableInv, TypeOK, OneAlive
<1>1. CASE Start(r)
  <2>1. Alive(r)'
    BY <1>1 DEF Start, Goto, Alive, Ended
  <2>. QED
    BY <2>1
<1>2. CASE ~Start(r)
  <2>1. /\ Alive(r)
        /\ q # r => pc'[q] = pc[q]
    BY <1>2 DEF Move, ReadOffsets, CheckFence, Poll, BeginCommit, CommitRows, CommitLocal,
       Fail, Crash, Goto, Alive, Ended
  <2>2. q # r => Alive(q)
    BY <2>1 DEF Alive
  <2>. QED
    BY <2>1, <2>2
<1>. QED
  BY <1>1, <1>2

LEMMA TrackerStep ==
  ASSUME EventInv, [EventNext]_eventVars
  PROVE  TrackerKnows'
<1>. DEFINE Knows(r) == \A p \in Partition :
              \/ maxSeen[p] = Latest(TimesBefore(p, nextOffset))
              \/ pc[r] \in {"commit", "write"} /\ maxSeen[p] = Latest(TimesBefore(p, nxt[r]))
<1>0. DurableInv /\ DurableInv'
  BY DurableStep DEF EventInv
<1>i. \A r \in Runner : Alive(r) => Knows(r)
  BY DEF EventInv, TrackerKnows
<1>t. pc \in [Runner -> {"new", "seek", "fence", "poll", "commit", "write",
                        "committed"} \cup Ended]
  BY <1>0 DEF DurableInv, TypeOK
<1>1. ASSUME NEW r \in Runner, Move(r), Knows(r)' PROVE TrackerKnows'
  <2>1. \A q \in Runner : Alive(q)' => q = r
    BY <1>0, <1>1, MoverAlive
  <2>. QED
    BY <1>1, <2>1 DEF TrackerKnows
<1>r. ASSUME nextOffset' = nextOffset, Restore, NEW r \in Runner PROVE Knows(r)'
  BY <1>r DEF EventInv, StoredIsLatest, Restore, TimesBefore, Below
<1>2. ASSUME NEW r \in Runner, OpenSink(r) PROVE TrackerKnows'
  <2>1. Knows(r)'
    BY <1>2, <1>r DEF OpenSink, Start, sinkVars
  <2>. QED
    BY <1>1, <1>2, <2>1 DEF OpenSink, Move
<1>3. ASSUME NEW r \in Runner, Quiet(r) PROVE TrackerKnows'
  <2>1. /\ Alive(r) /\ nextOffset' = nextOffset /\ maxSeen' = maxSeen
        /\ pc[r] \in {"commit", "write"} => nxt'[r] = nxt[r] /\ pc'[r] \in {"write", "fenced"}
    BY <1>3, <1>t DEF Quiet, ReadOffsets, CheckFence, Poll, BeginCommit, CommitLocal, Goto, Alive,
       Ended, sinkVars, tracker
  <2>2. Move(r)
    BY <1>3 DEF Quiet, Move
  <2>3. CASE pc'[r] = "fenced"
    <3>1. ~Alive(r)'
      BY <2>3 DEF Alive, Ended
    <3>. QED
      BY <1>0, <2>2, <3>1, MoverAlive DEF TrackerKnows
  <2>4. CASE pc'[r] # "fenced"
    <3>1. Knows(r)'
      BY <1>i, <2>1, <2>4 DEF TimesBefore, Below
    <3>. QED
      BY <1>1, <2>2, <3>1
  <2>. QED
    BY <2>3, <2>4
<1>4. ASSUME NEW r \in Runner, Commit(r) PROVE TrackerKnows'
  <2>1. CASE advanced[r]
    <3>1. Knows(r)'
      BY <1>4, <2>1, CommitAdvances DEF TimesBefore, Below
    <3>. QED
      BY <1>1, <1>4, <3>1 DEF Commit, Move
  <2>2. CASE ~advanced[r]
    <3>1. nextOffset' = nextOffset /\ maxSeen' = maxSeen /\ CommitRows(r)
      BY <1>4, <2>2, CommitReplays DEF tracker, Commit
    <3>2. nextOffset' = nxt[r]
      BY <1>0, <3>1, WriteMoves
    <3>3. Alive(r)
      BY <3>1 DEF CommitRows, Goto, Alive, Ended
    <3>4. Knows(r)'
      BY <1>i, <3>1, <3>2, <3>3 DEF TimesBefore, Below
    <3>. QED
      BY <1>1, <3>1, <3>4 DEF Move
  <2>. QED
    BY <2>1, <2>2
<1>5. ASSUME NEW r \in Runner, FailToRead(r) PROVE TrackerKnows'
  <2>1. /\ Alive(r) /\ nextOffset' = nextOffset /\ maxSeen' = maxSeen
        /\ pc[r] \notin {"commit", "write"}
    BY <1>5 DEF FailToRead, Fail, InCommit, Alive, Ended, sinkVars, tracker
  <2>2. Knows(r)'
    BY <1>i, <2>1 DEF TimesBefore, Below
  <2>. QED
    BY <1>1, <1>5, <2>2 DEF FailToRead, Move
<1>6. ASSUME NEW r \in Runner, FailAndResync(r) PROVE TrackerKnows'
  <2>1. Knows(r)'
    BY <1>6, <1>r DEF FailAndResync, Fail, sinkVars
  <2>. QED
    BY <1>1, <1>6, <2>1 DEF FailAndResync, Move
<1>7. ASSUME NEW r \in Runner, FailWithoutResync(r) PROVE TrackerKnows'
  <2>1. /\ Alive(r) /\ nextOffset' = nextOffset /\ nxt' = nxt
        /\ pc'[r] \in {"dead", "commit"}
        /\ Move(r)
    BY <1>7, <1>t DEF FailWithoutResync, Fail, Retry, InCommit, Alive, Ended, sinkVars, Move
  <2>2. CASE pc'[r] = "dead"
    <3>1. ~Alive(r)'
      BY <2>2 DEF Alive, Ended
    <3>. QED
      BY <1>0, <2>1, <3>1, MoverAlive DEF TrackerKnows
  <2>3. CASE pc'[r] = "commit"
    <3>1. CASE UNCHANGED tracker
      <4>1. Knows(r)'
        BY <1>i, <2>1, <2>3, <3>1 DEF tracker, TimesBefore, Below
      <4>. QED
        BY <1>1, <2>1, <4>1
    <3>2. CASE /\ pc[r] = "write" /\ advanced[r]
               /\ maxSeen' = Observed(Between(pos[r], nxt[r]))
      <4>1. pos[r] = nextOffset /\ pos[r] \in Offsets /\ nxt[r] \in Offsets
        BY <1>0, <3>2 DEF DurableInv, AtOffsets, TypeOK
      <4>2. \A p \in Partition : pos[r][p] <= nxt[r][p]
        BY <1>0, <3>2 DEF DurableInv, TypeOK
      <4>3. ASSUME NEW p \in Partition PROVE maxSeen'[p] = Latest(TimesBefore(p, nxt[r]))
        <5>1. \/ maxSeen[p] = Latest(TimesBefore(p, pos[r]))
              \/ maxSeen[p] = Latest(TimesBefore(p, nxt[r]))
          BY <1>i, <2>1, <4>1
        <5>. QED
          BY <3>2, <4>1, <4>2, <5>1, ObservedIs
      <4>4. Knows(r)'
        BY <2>1, <2>3, <4>3 DEF TimesBefore, Below
      <4>. QED
        BY <1>1, <2>1, <4>4
    <3>. QED
      BY <1>7, <3>1, <3>2 DEF FailWithoutResync
  <2>. QED
    BY <2>1, <2>2, <2>3
<1>8. ASSUME NEW r \in Runner, Kill(r) PROVE TrackerKnows'
  <2>1. ~Alive(r)' /\ Move(r)
    BY <1>8, <1>t DEF Kill, Crash, Alive, Ended, Move
  <2>. QED
    BY <1>0, <2>1, MoverAlive DEF TrackerKnows
<1>9. CASE UNCHANGED <<vars, maxSeen>>
  <2>1. UNCHANGED <<pc, nxt, nextOffset, maxSeen>>
    BY <1>9 DEF vars, runnerVars, sinkVars
  <2>. QED
    BY <1>i, <2>1 DEF TrackerKnows, Alive, TimesBefore, Below
<1>10. CASE Tick \/ UNCHANGED eventVars
  BY <1>9, <1>10 DEF Tick, eventVars, tracker
<1>. QED
  BY <1>2, <1>3, <1>4, <1>5, <1>6, <1>7, <1>8, <1>10 DEF EventNext

-----------------------------------------------------------------------------
(***************************************************************************)
(* What the watermarks justify.                                            *)
(***************************************************************************)

LEMMA WindowType ==
  ASSUME NEW x \in Rec
  PROVE  WindowOf(x) \in Int /\ End(WindowOf(x)) \in Int
<1>1. Time[x] \in Nat /\ WindowSize \in Nat /\ WindowSize > 0
  BY EventAssumption
<1>2. Time[x] % WindowSize \in Int
  BY <1>1
<1>. QED
  BY <1>1, <1>2 DEF WindowOf, End

\* A record that is not judged on time has been overtaken by one that is
\* durable once the batch is.
LEMMA JudgedIsOvertaken ==
  ASSUME EventInv, NEW r \in Runner, Commit(r), advanced[r], NEW x \in Rec
  PROVE  /\ Judged(x) # "on_time" => Overtaken(x, 0)'
         /\ Judged(x) = "beyond" => Overtaken(x, AllowedLateness)'
<1>. DEFINE W == Watermark(maxSeen, silence)
            e == End(WindowOf(x))
<1>1. e \in Int /\ AllowedLateness \in Nat /\ OutOfOrder \in Nat
  BY WindowType, EventAssumption
<1>2. Judged(x) = IF W = NULL \/ W < e THEN "on_time"
                  ELSE IF W < e + AllowedLateness THEN "late" ELSE "beyond"
  BY DEF Judged, Verdict
<1>. HIDE DEF W, e
<1>3. CASE W = NULL
  BY <1>2, <1>3
<1>4. CASE W # NULL
  <2>1. PICK p \in Partition : maxSeen[p] # NULL /\ W = maxSeen[p] - OutOfOrder
    BY <1>4, WatermarkIs DEF W, EventInv, EventTypeOK, Seen
  <2>2. Alive(r) /\ nextOffset = pos[r] /\ nextOffset' = nxt[r]
    BY CommitAdvances DEF Commit, CommitRows, Goto, Alive, Ended
  <2>3. \E offsets : /\ maxSeen[p] = Latest(TimesBefore(p, offsets))
                     /\ offsets = nextOffset \/ offsets = nextOffset'
    BY <2>2 DEF EventInv, TrackerKnows
  <2>4. PICK offsets : /\ maxSeen[p] = Latest(TimesBefore(p, offsets))
                       /\ offsets = nextOffset \/ offsets = nextOffset'
    BY <2>3
  <2>5. maxSeen[p] \in TimesBefore(p, offsets)
    BY <2>1, <2>4, TimesBeforeType, LatestIs
  <2>6. PICK y \in Rec : Time[y] = maxSeen[p] /\ Below(y, offsets)
    BY <2>5 DEF TimesBefore
  <2>7. Passed(y)'
    <3>1. Passed(y) => Passed(y)'
      BY CommitAdvances
    <3>. QED
      BY <2>4, <2>6, <3>1 DEF Passed, Below
  <2>8. Time[y] \in Nat /\ W = Time[y] - OutOfOrder
    BY <2>1, <2>6, EventAssumption
  <2>9. Judged(x) # "on_time" => Time[y] - OutOfOrder >= e + 0
    BY <1>1, <1>2, <2>8
  <2>10. Judged(x) = "beyond" => Time[y] - OutOfOrder >= e + AllowedLateness
    BY <1>1, <1>2, <2>8
  <2>. QED
    BY <2>7, <2>9, <2>10 DEF Overtaken, e
<1>. QED
  BY <1>3, <1>4

\* A window that a commit leaves open is one that the new watermarks have
\* not passed.
LEMMA OpenIsAhead ==
  ASSUME EventInv, [EventNext]_eventVars, NEW r \in Runner, Commit(r), advanced[r],
         NEW w \in OpenWindows'
  PROVE  \E p \in Seen(stored)' : stored'[p] - OutOfOrder < End(w)
<1>. DEFINE batch == Between(pos[r], nxt[r])
            delta == batch \ Aside(batch)
            W == Watermark(maxSeen', silence')
<1>1. /\ EventTypeOK' /\ StoredIsLatest' /\ EachOnce'
      /\ ApplyPlan(r) /\ nextOffset' = nxt[r]
      /\ \A p \in Partition : maxSeen'[p] = Latest(TimesBefore(p, nxt[r]))
  BY DurableStep, StoredStep, AccountsStep, CommitAdvances
<1>2. stored' = maxSeen'
  <2>1. ASSUME NEW p \in Partition PROVE stored'[p] = maxSeen'[p]
    <3>1. stored'[p] = Latest(TimesBefore(p, nextOffset))'
      BY <1>1 DEF StoredIsLatest
    <3>2. TimesBefore(p, nextOffset)' = TimesBefore(p, nxt[r])
      BY <1>1 DEF TimesBefore, Below
    <3>3. Latest(TimesBefore(p, nextOffset))' = Latest(TimesBefore(p, nxt[r]))
      BY <3>2 DEF Latest
    <3>. QED
      BY <1>1, <3>1, <3>3
  <2>2. /\ stored' \in [Partition -> Nat \cup {NULL}]
        /\ maxSeen' \in [Partition -> Nat \cup {NULL}]
    BY <1>1 DEF EventTypeOK
  <2>. QED
    BY <2>1, <2>2
<1>3. /\ closed' = closed \cup NewlyClosed(delta, W)
      /\ counted' = [x \in Rec |-> IF x \in delta THEN counted[x] + 1 ELSE counted[x]]
  BY <1>1, PlanIs
<1>4. PICK y \in Rec : counted'[y] > 0 /\ w = WindowOf(y) /\ w \notin closed'
  BY DEF OpenWindows
<1>. HIDE DEF batch, delta, W
<1>5. w \in {WindowOf(x) : x \in delta} \cup OpenWindows
  <2>1. y \in delta \/ counted[y] > 0
    BY <1>3, <1>4
  <2>. QED
    BY <1>3, <1>4, <2>1 DEF OpenWindows
<1>6. ~(W >= End(w))
  BY <1>3, <1>4, <1>5 DEF NewlyClosed
<1>7. y[1] \in Seen(maxSeen')
  <2>1. Passed(y)' /\ y[1] \in Partition
    <3>1. counted'[y] \in Nat /\ SetAside(y)' \in Nat
      BY <1>1 DEF EventTypeOK, SetAside
    <3>2. counted'[y] + SetAside(y)' = IF Passed(y)' THEN 1 ELSE 0
      BY <1>1 DEF EachOnce
    <3>. QED
      BY <1>4, <3>1, <3>2, RecFields
  <2>2. TimesBefore(y[1], nxt[r]) # {}
    BY <1>1, <2>1 DEF Passed, TimesBefore, Below
  <2>3. maxSeen'[y[1]] # NULL
    BY <1>1, <2>1, <2>2, TimesBeforeType, LatestType
  <2>. QED
    BY <2>1, <2>3 DEF Seen
<1>8. PICK p \in Seen(maxSeen') : W = maxSeen'[p] - OutOfOrder
  BY <1>1, <1>7, WatermarkIs DEF W, EventTypeOK
<1>9. maxSeen'[p] - OutOfOrder \in Int /\ End(w) \in Int
  BY <1>1, <1>4, <1>8, EventAssumption, WindowType DEF Seen, EventTypeOK
<1>10. p \in Seen(stored)' /\ stored'[p] - OutOfOrder < End(w)
  BY <1>2, <1>6, <1>8, <1>9 DEF Seen
<1>. QED
  BY <1>10

LEMMA WindowsStep ==
  ASSUME EventInv, [EventNext]_eventVars
  PROVE  WindowsFollowWatermarks'
<1>1. ASSUME NEW r \in Runner, Commit(r), advanced[r] PROVE WindowsFollowWatermarks'
  <2>. DEFINE batch == Between(pos[r], nxt[r])
  <2>1. \A w \in OpenWindows' : \E p \in Seen(stored)' : stored'[p] - OutOfOrder < End(w)
    BY <1>1, OpenIsAhead
  <2>2. /\ late' = [x \in Rec |->
                      IF late[x] # "none" THEN late[x]
                      ELSE IF x \in Aside(batch) THEN "set_aside"
                      ELSE IF x \in Tardy(batch) THEN "counted" ELSE "none"]
        /\ \A x \in Rec : Passed(x) => Passed(x)'
    BY <1>1, CommitAdvances, PlanIs
  <2>. HIDE DEF batch
  <2>3. ASSUME NEW x \in Rec
        PROVE  /\ late'[x] # "none" => Overtaken(x, 0)'
               /\ late'[x] = "set_aside" => Overtaken(x, AllowedLateness)'
    <3>1. \A more : Overtaken(x, more) => Overtaken(x, more)'
      BY <2>2 DEF Overtaken
    <3>2. CASE late[x] # "none"
      <4>1. late'[x] = late[x]
        BY <2>2, <3>2
      <4>. QED
        BY <3>1, <4>1 DEF EventInv, WindowsFollowWatermarks
    <3>3. CASE late[x] = "none"
      <4>1. /\ late'[x] # "none" => x \in Aside(batch) \/ x \in Tardy(batch)
            /\ late'[x] = "set_aside" => x \in Aside(batch)
        BY <2>2, <3>3
      <4>2. /\ x \in Aside(batch) => Judged(x) = "beyond"
            /\ x \in Tardy(batch) => Judged(x) # "on_time"
        BY DEF Aside, Tardy
      <4>. QED
        BY <1>1, <4>1, <4>2, JudgedIsOvertaken
    <3>. QED
      BY <3>2, <3>3
  <2>. QED
    BY <2>1, <2>3 DEF WindowsFollowWatermarks, Seen
<1>2. ASSUME UNCHANGED <<nextOffset, counted, tables>> PROVE WindowsFollowWatermarks'
  BY <1>2 DEF EventInv, WindowsFollowWatermarks, OpenWindows, Seen, Overtaken, Passed, tables
<1>. QED
  BY <1>1, <1>2, CommitReplays, OthersLeave

-----------------------------------------------------------------------------
(***************************************************************************)
(* The sums of the windows, and what the verifier makes of them.           *)
(***************************************************************************)

Members(w)  == {x \in Rec : WindowOf(x) = w}
Excluded(w) == {x \in Members(w) : late[x] = "set_aside"}
Worths      == [x \in Rec |-> Worth(x)]
CountedWorth == [x \in Rec |-> counted[x] * Worth(x)]

\* The sums as the model writes them are sums of functions.
LEMMA RowSums ==
  ASSUME NEW S \in SUBSET Rec
  PROVE  MapThenSumSet(LAMBDA x : counted[x] * Worth(x), S) = Total(CountedWorth, S)
<1>. DEFINE h == CHOOSE k : k = [s \in SUBSET S |->
                     IF s = {} THEN 0
                     ELSE counted[CHOOSE x \in s : TRUE] * Worth(CHOOSE x \in s : TRUE)
                            + k[s \ {CHOOSE x \in s : TRUE}]]
<1>1. MapThenSumSet(LAMBDA x : counted[x] * Worth(x), S) = h[S]
  BY DEF MapThenSumSet, MapThenFoldSet
<1>2. IsFiniteSet(S)
  BY RecFinite, FS_Subset
<1>3. PICK g : IsFold(g, CountedWorth, S)
  BY <1>2, FoldExists
<1>4. \A s \in SUBSET S : s # {} =>
        CountedWorth[First(s)] = counted[First(s)] * Worth(First(s))
  BY FirstIn DEF CountedWorth
<1>5. \A k : IsFold(k, CountedWorth, S) <=>
               k = [s \in SUBSET S |->
                     IF s = {} THEN 0
                     ELSE counted[First(s)] * Worth(First(s)) + k[s \ {First(s)}]]
  BY <1>4 DEF IsFold
<1>6. h = [s \in SUBSET S |->
            IF s = {} THEN 0
            ELSE counted[CHOOSE x \in s : TRUE] * Worth(CHOOSE x \in s : TRUE)
                   + h[s \ {CHOOSE x \in s : TRUE}]]
  <2>1. g = [s \in SUBSET S |->
              IF s = {} THEN 0
              ELSE counted[CHOOSE x \in s : TRUE] * Worth(CHOOSE x \in s : TRUE)
                     + g[s \ {CHOOSE x \in s : TRUE}]]
    BY <1>3, <1>5 DEF First
  <2>. QED
    BY <2>1, Zenon
<1>. HIDE DEF h
<1>7. IsFold(h, CountedWorth, S)
  BY <1>5, <1>6 DEF First
<1>. QED
  BY <1>1, <1>2, <1>7, TotalIs

LEMMA ManifestSums ==
  ASSUME NEW S \in SUBSET Rec
  PROVE  MapThenSumSet(LAMBDA k : Generated[k].amount, S) = Total(Worths, S)
<1>1. IsFiniteSet(S)
  BY RecFinite, FS_Subset
<1>2. \A x \in S : Worths[x] = Generated[x].amount
  BY DEF Worths, Generated
<1>. QED
  BY <1>1, <1>2, AmountsTotal

Row(w) == IF w \in DOMAIN StreamWindows THEN StreamWindows[w] ELSE NoEntry

LEMMA RowIs ==
  ASSUME EventInv, NEW w \in Windows
  PROVE  /\ Row(w).count = Total(counted, Members(w))
         /\ Row(w).sum = Total(CountedWorth, Members(w))
<1>1. /\ Members(w) \in SUBSET Rec /\ IsFiniteSet(Members(w))
      /\ \A x \in Rec : counted[x] \in Nat /\ Worth(x) \in Nat
  BY CardinalityType, EventAssumption DEF Members, Worth, EventInv, EventTypeOK
<1>. DEFINE D == {WindowOf(x) : x \in {y \in Rec : counted[y] > 0}}
<1>2. StreamWindows =
        [v \in D |-> [count |-> MapThenSumSet(LAMBDA x : counted[x], Members(v)),
                      sum   |-> MapThenSumSet(LAMBDA x : counted[x] * Worth(x), Members(v))]]
  BY DEF StreamWindows, Members
<1>3. CASE w \in D
  <2>. DEFINE n == MapThenSumSet(LAMBDA x : counted[x], Members(w))
              s == MapThenSumSet(LAMBDA x : counted[x] * Worth(x), Members(w))
  <2>1. n = Total(counted, Members(w))
    BY DEF Total
  <2>2. s = Total(CountedWorth, Members(w))
    BY <1>1, RowSums
  <2>3. Row(w) = [count |-> n, sum |-> s]
    <3>. HIDE DEF D
    <3>. QED
      BY <1>2, <1>3 DEF Row
  <2>. HIDE DEF n, s
  <2>. QED
    BY <2>1, <2>2, <2>3
<1>4. CASE w \notin D
  <2>1. ASSUME NEW x \in Members(w) PROVE counted[x] = 0 /\ CountedWorth[x] = 0
    <3>1. x \in Rec /\ WindowOf(x) = w /\ ~(counted[x] > 0)
      BY <1>4 DEF Members
    <3>2. counted[x] = 0
      BY <1>1, <3>1
    <3>3. CountedWorth[x] = counted[x] * Worth(x)
      BY <3>1 DEF CountedWorth
    <3>. QED
      BY <1>1, <3>1, <3>2, <3>3
  <2>2. Total(counted, Members(w)) = 0 /\ Total(CountedWorth, Members(w)) = 0
    BY <1>1, <2>1, TotalZero
  <2>3. Row(w) = NoEntry
    <3>. HIDE DEF D
    <3>. QED
      BY <1>2, <1>4 DEF Row
  <2>. QED
    BY <2>2, <2>3 DEF NoEntry
<1>. QED
  BY <1>3, <1>4

\* A window adds up when all of its records have been passed, and only then.
LEMMA WindowAddsUp ==
  ASSUME EventInv, NEW w \in Windows
  PROVE  /\ Row(w).count + Cardinality(Excluded(w)) = Cardinality(Members(w))
              <=> \A x \in Members(w) : Passed(x)
         /\ (\A x \in Members(w) : Passed(x)) =>
              Row(w).sum + Total(Worths, Excluded(w)) = Total(Worths, Members(w))
<1>. DEFINE M == Members(w)
            E == Excluded(w)
            aside == [x \in Rec |-> SetAside(x)]
            passed == [x \in Rec |-> IF Passed(x) THEN 1 ELSE 0]
            asideWorth == [x \in Rec |-> IF x \in E THEN Worths[x] ELSE 0]
            both == [x \in Rec |-> CountedWorth[x] + asideWorth[x]]
<1>1. /\ M \in SUBSET Rec /\ IsFiniteSet(M)
      /\ E \in SUBSET M
      /\ Row(w).count = Total(counted, M)
      /\ Row(w).sum = Total(CountedWorth, M)
  BY CardinalityType, RowIs DEF Members, Excluded
<1>2. ASSUME NEW x \in Rec
      PROVE  /\ counted[x] \in Nat /\ Worth(x) \in Nat
             /\ aside[x] \in {0, 1} /\ passed[x] \in {0, 1}
             /\ passed[x] = counted[x] + aside[x]
             /\ passed[x] = 1 <=> Passed(x)
             /\ x \in M => (aside[x] = 1 <=> x \in E)
             /\ Worths[x] = Worth(x) /\ CountedWorth[x] = counted[x] * Worth(x)
  <2>1. counted[x] \in Nat /\ Worth(x) \in Nat
    BY EventAssumption DEF Worth, EventInv, EventTypeOK
  <2>2. passed[x] = counted[x] + aside[x]
    BY DEF EventInv, EachOnce
  <2>. QED
    BY <2>1, <2>2 DEF SetAside, Excluded, Members, Worths, CountedWorth
<1>. HIDE DEF M, aside, passed
<1>3. Total(passed, M) = Total(counted, M) + Total(aside, M)
  BY <1>1, <1>2, TotalPlus
<1>4. Total(aside, M) = Cardinality(E)
  <2>1. E = {x \in M : aside[x] = 1}
    BY <1>1, <1>2
  <2>2. \A x \in M : aside[x] \in {0, 1}
    BY <1>1, <1>2
  <2>3. Total(aside, M) = Cardinality({x \in M : aside[x] = 1})
    BY <1>1, <2>2, TotalOnes
  <2>. QED
    BY <2>1, <2>3
<1>5. Total(passed, M) = Cardinality(M) <=> \A x \in M : passed[x] = 1
  <2>1. \A x \in M : passed[x] \in {0, 1}
    BY <1>1, <1>2
  <2>. QED
    BY <1>1, <2>1, TotalOnes
<1>6. Row(w).count + Cardinality(E) = Cardinality(M) <=> \A x \in M : Passed(x)
  BY <1>1, <1>2, <1>3, <1>4, <1>5
<1>7. ASSUME \A x \in M : Passed(x)
      PROVE  Row(w).sum + Total(Worths, E) = Total(Worths, M)
  <2>1. ASSUME NEW x \in M
        PROVE  /\ Worths[x] \in Int /\ CountedWorth[x] \in Int /\ asideWorth[x] \in Int
               /\ asideWorth[x] = IF x \in E THEN Worths[x] ELSE 0
               /\ both[x] = CountedWorth[x] + asideWorth[x]
               /\ both[x] = Worths[x]
    <3>1. /\ x \in Rec /\ passed[x] = 1
          /\ counted[x] \in Nat /\ Worth(x) \in Nat
          /\ Worths[x] = Worth(x) /\ CountedWorth[x] = counted[x] * Worth(x)
          /\ aside[x] = 1 <=> x \in E
          /\ aside[x] \in {0, 1} /\ passed[x] = counted[x] + aside[x]
      BY <1>1, <1>2, <1>7
    <3>2. CASE x \in E
      <4>1. counted[x] = 0
        BY <3>1, <3>2
      <4>2. CountedWorth[x] = 0
        BY <3>1, <4>1
      <4>. QED
        BY <3>1, <3>2, <4>2
    <3>3. CASE x \notin E
      <4>1. counted[x] = 1
        BY <3>1, <3>3
      <4>2. CountedWorth[x] = Worth(x)
        BY <3>1, <4>1
      <4>. QED
        BY <3>1, <3>3, <4>2
    <3>. QED
      BY <3>2, <3>3
  <2>. HIDE DEF E, asideWorth, both
  <2>2. Total(asideWorth, M) = Total(Worths, E)
    BY <1>1, <2>1, TotalWhere
  <2>3. Total(both, M) = Total(CountedWorth, M) + Total(asideWorth, M)
    BY <1>1, <2>1, TotalPlus
  <2>4. Total(both, M) = Total(Worths, M)
    BY <1>1, <2>1, TotalAlike
  <2>. QED
    BY <1>1, <2>2, <2>3, <2>4
<1>. QED
  BY <1>6, <1>7 DEF M

\* What the verifier finds amiss are the windows of the records to come.
LEMMA AmissIs ==
  ASSUME EventInv
  PROVE  WindowsAmiss = {WindowOf(x) : x \in {y \in Rec : ~Passed(y)}}
<1>. DEFINE A == {x \in Rec : late[x] = "set_aside"}
            expected == ByWindow(Generated)
            excluded(w) == {x \in A : Generated[x].window = w}
            actual(w) ==
              [count |-> Row(w).count + Cardinality(excluded(w)),
               sum   |-> Row(w).sum + MapThenSumSet(LAMBDA x : Worths[x], excluded(w))]
<1>1. WindowsAmiss = {w \in DOMAIN expected : actual(w) # expected[w]}
  BY DEF WindowsAmiss, VerifyWindowAccounting, Row, Worths
<1>2. DOMAIN expected = Windows
  BY DEF ByWindow, Generated, Windows
<1>3. ASSUME NEW w \in Windows
      PROVE  actual(w) # expected[w] <=> \E x \in Rec : WindowOf(x) = w /\ ~Passed(x)
  <2>1. excluded(w) = Excluded(w)
    BY DEF Excluded, Members, Generated
  <2>2. expected[w] = [count |-> Cardinality(Members(w)),
                       sum   |-> MapThenSumSet(LAMBDA k : Generated[k].amount, Members(w))]
    <3>1. {k \in DOMAIN Generated : Generated[k].window = w} = Members(w)
      BY DEF Generated, Members
    <3>2. w \in {Generated[k].window : k \in DOMAIN Generated}
      BY DEF Generated, Windows
    <3>. QED
      BY <3>1, <3>2 DEF ByWindow
  <2>3. Members(w) \in SUBSET Rec
    BY DEF Members
  <2>4. expected[w] = [count |-> Cardinality(Members(w)), sum |-> Total(Worths, Members(w))]
    BY <2>2, <2>3, ManifestSums
  <2>5. actual(w) = [count |-> Row(w).count + Cardinality(Excluded(w)),
                     sum   |-> Row(w).sum + Total(Worths, Excluded(w))]
    BY <2>1 DEF Total
  <2>. HIDE DEF actual, expected
  <2>6. actual(w) = expected[w] <=>
          /\ Row(w).count + Cardinality(Excluded(w)) = Cardinality(Members(w))
          /\ Row(w).sum + Total(Worths, Excluded(w)) = Total(Worths, Members(w))
    BY <2>4, <2>5
  <2>7. (\A x \in Members(w) : Passed(x)) <=> ~ \E x \in Rec : WindowOf(x) = w /\ ~Passed(x)
    BY DEF Members
  <2>. QED
    BY <2>6, <2>7, WindowAddsUp
<1>. HIDE DEF actual, expected
<1>4. WindowsAmiss = {w \in Windows : \E x \in Rec : WindowOf(x) = w /\ ~Passed(x)}
  BY <1>1, <1>2, <1>3
<1>. QED
  BY <1>4 DEF Windows

-----------------------------------------------------------------------------
(***************************************************************************)
(* The theorems.                                                           *)
(***************************************************************************)

LEMMA EventStart == EventInit => EventInv
<1>. SUFFICES ASSUME EventInit PROVE EventInv
  OBVIOUS
<1>1. DurableInv /\ counted = [x \in Rec |-> 0] /\ nextOffset = [p \in Partition |-> 0]
  BY OnceInit DEF EventInit, OnceInv, Init
<1>2. EventTypeOK
  BY <1>1, EventAssumption DEF EventInit, EventTypeOK
<1>3. \A x \in Rec : ~Passed(x)
  BY <1>1, RecFields DEF Passed
<1>4. StoredIsLatest
  <2>1. \A p \in Partition : TimesBefore(p, nextOffset) = {}
    BY <1>3 DEF TimesBefore, Below, Passed
  <2>. QED
    BY <2>1 DEF EventInit, StoredIsLatest, Latest
<1>5. TrackerKnows
  BY <1>1 DEF EventInit, Init, TrackerKnows, Alive, Ended
<1>6. EachOnce /\ LateIsPassed /\ WindowsFollowWatermarks
  BY <1>1, <1>3 DEF EventInit, EachOnce, LateIsPassed, WindowsFollowWatermarks, SetAside, OpenWindows
<1>7. RevisionsAreLate
  <2>1. \A w \in Windows : CountedLate(w) = {}
    BY DEF EventInit, CountedLate
  <2>. QED
    BY <2>1, FS_EmptySet DEF EventInit, RevisionsAreLate
<1>. QED
  BY <1>1, <1>2, <1>4, <1>5, <1>6, <1>7 DEF EventInv

\* The invariant the other theorems of this module follow from.
THEOREM EventInvariance == EventSpec => []EventInv
<1>1. EventInv /\ [EventNext]_eventVars => EventInv'
  BY DurableStep, StoredStep, TrackerStep, AccountsStep, RevisionsStep, WindowsStep DEF EventInv
<1>. QED
  BY <1>1, EventStart, PTL DEF EventSpec

\* Counted or set aside, once, as soon as the offsets have passed it; and the
\* verifier, which sums the windows, agrees.
THEOREM AccountsDoBalance == EventSpec => []AccountsBalance
<1>1. EventInv => AccountsBalance
  BY AmissIs DEF EventInv, AccountsBalance, EachOnce, RevisionsAreLate, CountedLate
<1>. QED
  BY <1>1, EventInvariance, PTL

\* What a restart restores is the highest event time behind the offsets, and
\* a live tracker is never behind it.
THEOREM StoredWatermarksLast == EventSpec => []StoredIsDurable
<1>1. EventInv => StoredIsDurable
  <2>. SUFFICES ASSUME EventInv PROVE StoredIsDurable
    OBVIOUS
  <2>1. ASSUME NEW p \in Partition
        PROVE  LET times == {Time[x] : x \in {y \in Rec : y[1] = p /\ Passed(y)}}
               IN  stored[p] = IF times = {} THEN NULL ELSE Max(times)
    BY DEF EventInv, StoredIsLatest, Latest, TimesBefore, Below, Passed
  <2>2. ASSUME NEW r \in Runner, Alive(r), NEW p \in Partition, stored[p] # NULL
        PROVE  maxSeen[p] # NULL /\ maxSeen[p] >= stored[p]
    <3>. DEFINE A == TimesBefore(p, nextOffset)
                B == TimesBefore(p, nxt[r])
    <3>1. A \in SUBSET Nat /\ IsFiniteSet(A) /\ B \in SUBSET Nat /\ IsFiniteSet(B)
      BY TimesBeforeType
    <3>2. stored[p] = Latest(A)
      BY DEF EventInv, StoredIsLatest
    <3>3. maxSeen[p] = Latest(A) \/ (maxSeen[p] = Latest(B) /\ A \subseteq B)
      <4>1. \/ maxSeen[p] = Latest(A)
            \/ pc[r] \in {"commit", "write"} /\ maxSeen[p] = Latest(B)
        BY <2>2 DEF EventInv, TrackerKnows
      <4>2. ASSUME pc[r] \in {"commit", "write"} PROVE A \subseteq B
        <5>1. DurableInv
          BY DEF EventInv
        <5>2. nextOffset = pos[r] \/ nextOffset = nxt[r]
          BY <4>2, <5>1 DEF DurableInv, AtOffsets
        <5>4. pos[r] \in Offsets /\ nxt[r] \in Offsets
          BY <5>1 DEF DurableInv, TypeOK
        <5>3. \A q \in Partition : pos[r][q] <= nxt[r][q]
          BY <4>2, <5>1 DEF DurableInv, TypeOK
        <5>. QED
          BY <5>2, <5>3, <5>4, RecFields DEF TimesBefore, Below, Offsets
      <4>. QED
        BY <4>1, <4>2
    <3>4. A # {} /\ Latest(A) \in A
      BY <2>2, <3>1, <3>2, LatestType, LatestIs
    <3>. HIDE DEF A, B
    <3>5. CASE maxSeen[p] = Latest(A)
      <4>1. stored[p] \in Nat /\ maxSeen[p] = stored[p]
        BY <3>1, <3>2, <3>4, <3>5
      <4>. QED
        BY <2>2, <4>1
    <3>6. CASE maxSeen[p] = Latest(B) /\ A \subseteq B
      <4>1. B # {} /\ Latest(A) \in B
        BY <3>4, <3>6
      <4>2. Latest(B) \in B /\ Latest(A) <= Latest(B)
        BY <3>1, <4>1, LatestIs
      <4>3. Latest(B) # NULL
        BY <3>1, <4>1, LatestType
      <4>. QED
        BY <3>1, <3>2, <3>6, <4>1, <4>2, <4>3
    <3>. QED
      BY <3>3, <3>5, <3>6
  <2>. QED
    BY <2>1, <2>2 DEF StoredIsDurable, EventInv
<1>. QED
  BY <1>1, EventInvariance, PTL

\* A window the stored watermarks have passed has fired, and no record is
\* late but for one that is durable.
THEOREM WindowsDoFollow == EventSpec => []WindowsFollowWatermarks
<1>1. EventInv => WindowsFollowWatermarks
  BY DEF EventInv
<1>. QED
  BY <1>1, EventInvariance, PTL

=============================================================================
