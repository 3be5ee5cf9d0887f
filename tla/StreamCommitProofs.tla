-------------------------- MODULE StreamCommitProofs --------------------------
(***************************************************************************)
(* Theorems about StreamCommit, for any partitions, sizes, batch size,     *)
(* number of runners and fencing tokens.  No record is lost under any      *)
(* interleaving of the runners; records are counted exactly once when the  *)
(* runners do not overlap.                                                 *)
(***************************************************************************)
EXTENDS StreamCommit, TLAPS

\* A record the sink has, in its table and in its windows.
Kept(x) == x \in rows /\ counted[x] > 0

Below(x, offsets) == x[2] < offsets[x[1]]

\* Whatever a runner believes to be behind it is kept: the records below its
\* cursor, below the batch it was told is committed, and below a batch its
\* open transaction found to be a replay.
BehindRunners ==
  \A r \in Runner, x \in Rec :
    /\ Below(x, pos[r]) => Kept(x)
    /\ pc[r] = "committed" /\ Below(x, nxt[r]) => Kept(x)
    /\ pc[r] = "write" /\ ~advanced[r] /\ Below(x, nxt[r]) => Kept(x)

LossInv == TypeOK /\ NoLoss /\ BehindRunners

\* A step of Next, whatever a commit does to the counts: event time makes
\* another use of them.
Move(r) ==
  \/ Start(r) \/ ReadOffsets(r) \/ CheckFence(r) \/ Poll(r) \/ BeginCommit(r)
  \/ CommitRows(r) \/ CommitLocal(r) \/ Fail(r) \/ Crash(r)

moveVars == <<runnerVars, locker, nextOffset, rowAttempt, rows, failures>>

Moves == [\E r \in Runner : Move(r)]_moveVars

\* Runners are started in order, one after the other has ended.
OneAlive ==
  /\ \A q, r \in Runner : Alive(q) /\ Alive(r) => q = r
  /\ \A q, r \in Runner : q < r /\ pc[q] = "new" => pc[r] = "new"

\* A partition without a row has offset 0.
NoRowNoOffset == \A p \in Partition : rowAttempt[p] = 0 => nextOffset[p] = 0

\* What the runner that is alive knows about the durable offsets: it is at
\* them, or the batch in its hands is the one that led to them.
AtOffsets ==
  \A r \in Runner :
    /\ pc[r] \in {"fence", "poll"} => pos[r] = nextOffset
    /\ pc[r] = "commit" => pos[r] = nextOffset \/ nxt[r] = nextOffset
    /\ pc[r] = "write" => IF advanced[r] THEN pos[r] = nextOffset
                                         ELSE nxt[r] = nextOffset
    /\ pc[r] = "committed" => nxt[r] = nextOffset

DurableInv ==
  /\ TypeOK
  /\ OneAlive
  /\ NoRowNoOffset
  /\ AtOffsets
  /\ DoneIsDrained

OnceInv == DurableInv /\ CountedOnce

-----------------------------------------------------------------------------
(***************************************************************************)
(* The operators the steps are built from.                                 *)
(***************************************************************************)

\* A record is a partition and a position before that partition's end.
LEMMA RecFields ==
  ASSUME NEW x \in Rec
  PROVE  /\ x[1] \in Partition
         /\ x[2] \in 0..MaxLen
         /\ x[2] < Size[x[1]]
BY DEF Rec

\* A polled batch starts at the cursor and ends within the partition.
LEMMA PolledBounds ==
  ASSUME NEW from \in Offsets, NEW to \in Offsets, Polled(from, to),
         \A p \in Partition : from[p] <= Size[p],
         NEW p \in Partition
  PROVE  from[p] <= to[p] /\ to[p] <= Size[p]
<1>1. PICK k \in 0..MaxLen, j \in Partition \cup {0} : \A q \in Partition :
         LET reach == from[q] + (IF q < j THEN k + 1 ELSE k)
         IN  to[q] = IF reach <= Size[q] THEN reach ELSE Size[q]
  BY DEF Polled
<1>2. from[p] \in Nat /\ Size[p] \in Nat /\ k \in Nat /\ from[p] <= Size[p]
  BY StreamAssumption DEF Offsets
<1>. QED
  BY <1>1, <1>2

LEMMA RunnerFacts == \A r \in Runner : r \in Int /\ r # NULL /\ Attempt[r] \in Nat \ {0}
BY StreamAssumption DEF Runner

LEMMA RunnerOrder == \A q, r \in Runner : q # r => q < r \/ r < q
BY DEF Runner

-----------------------------------------------------------------------------
(***************************************************************************)
(* Types.                                                                  *)
(***************************************************************************)

LEMMA TypeInit == Init => TypeOK
BY StreamAssumption DEF Init, TypeOK, Offsets, Rec, Ended

LEMMA StepMoves == [Next]_vars => Moves
<1>. SUFFICES ASSUME [Next]_vars PROVE Moves
  OBVIOUS
<1>1. ASSUME NEW r \in Runner, Start(r) \/ Step(r) \/ Fail(r) \/ Crash(r) PROVE Move(r)
  BY <1>1 DEF Move, Step, WriteCommit
<1>2. CASE UNCHANGED vars
  BY <1>2 DEF Moves, vars, moveVars, sinkVars
<1>. QED
  BY <1>1, <1>2 DEF Next, Moves

LEMMA TypeMove ==
  ASSUME TypeOK, Moves, counted' \in [Rec -> Nat]
  PROVE  TypeOK'
<1>. USE RunnerFacts DEF TypeOK, Goto, Ended
<1>1. ASSUME NEW r \in Runner, Start(r) PROVE TypeOK'
  BY <1>1 DEF Start, sinkVars
<1>2. ASSUME NEW r \in Runner, ReadOffsets(r) PROVE TypeOK'
  BY <1>2, StreamAssumption DEF ReadOffsets, Fresh, sinkVars
<1>3. ASSUME NEW r \in Runner, CheckFence(r) PROVE TypeOK'
  BY <1>3, StreamAssumption DEF CheckFence, Fresh, sinkVars
<1>4. ASSUME NEW r \in Runner, Poll(r) PROVE TypeOK'
  <2>1. PICK to \in Offsets : Polled(pos[r], to) /\ nxt' = [nxt EXCEPT ![r] = to]
    BY <1>4 DEF Poll
  <2>2. \A p \in Partition : pos[r][p] <= to[p] /\ to[p] <= Size[p]
    BY <2>1, PolledBounds
  <2>. QED
    BY <1>4, <2>1, <2>2 DEF Poll, sinkVars
<1>5. ASSUME NEW r \in Runner, BeginCommit(r) PROVE TypeOK'
  BY <1>5 DEF BeginCommit, OffsetsAdvance, sinkVars
<1>6. ASSUME NEW r \in Runner, CommitRows(r) PROVE TypeOK'
  BY <1>6 DEF CommitRows, Between, Offsets
<1>7. ASSUME NEW r \in Runner, CommitLocal(r) PROVE TypeOK'
  <2>1. /\ pos' \in [Runner -> Offsets]
        /\ \A q \in Runner, p \in Partition : pos'[q][p] <= Size[p]
    BY <1>7 DEF CommitLocal
  <2>2. /\ tries' \in [Runner -> 0..RetryAttempts]
        /\ \A q \in Runner : pc'[q] # "dead" => tries'[q] < RetryAttempts
    BY <1>7, StreamAssumption DEF CommitLocal, Fresh
  <2>3. \A q \in Runner : /\ pc'[q] \in {"commit", "write", "committed"} <=>
                              q # r /\ pc[q] \in {"commit", "write", "committed"}
                          /\ q # r => pos'[q] = pos[q]
    BY <1>7 DEF CommitLocal
  <2>. QED
    BY <1>7, <2>1, <2>2, <2>3 DEF CommitLocal, sinkVars
<1>8. ASSUME NEW r \in Runner, Fail(r) PROVE TypeOK'
  <2>1. /\ tries' \in [Runner -> 0..RetryAttempts] /\ failures' \in 0..MaxFailures
        /\ \A q \in Runner : pc'[q] # "dead" => tries'[q] < RetryAttempts
    BY <1>8, StreamAssumption DEF Fail, Retry
  <2>2. pc' \in [Runner -> {"new", "seek", "fence", "poll", "commit", "write",
                            "committed"} \cup Ended]
    BY <1>8 DEF Fail, Retry
  <2>3. locker' = NULL \/ locker' \in {q \in Runner : pc'[q] = "write"}
    BY <1>8 DEF Fail, Rollback, Retry
  <2>4. pc'[r] \in {"commit", "write", "committed"}
          => pc[r] \in {"commit", "write", "committed"}
    BY <1>8 DEF Fail, Retry
  <2>. QED
    BY <1>8, <2>1, <2>2, <2>3, <2>4 DEF Fail, sinkVars
<1>9. ASSUME NEW r \in Runner, Crash(r) PROVE TypeOK'
  BY <1>9 DEF Crash, Rollback, Retry, sinkVars
<1>10. CASE UNCHANGED moveVars
  BY <1>10 DEF moveVars, runnerVars
<1>. QED
  BY <1>1, <1>2, <1>3, <1>4, <1>5, <1>6, <1>7, <1>8, <1>9, <1>10 DEF Moves, Move

LEMMA TypeStep == TypeOK /\ [Next]_vars => TypeOK'
<1>. SUFFICES ASSUME TypeOK, [Next]_vars PROVE TypeOK'
  OBVIOUS
<1>1. ASSUME NEW r \in Runner, WriteCommit(r) PROVE counted' \in [Rec -> Nat]
  BY <1>1 DEF WriteCommit, TypeOK
<1>2. ASSUME UNCHANGED sinkVars PROVE counted' \in [Rec -> Nat]
  BY <1>2 DEF sinkVars, TypeOK
<1>3. counted' \in [Rec -> Nat]
  BY <1>1, <1>2 DEF Next, Step, vars, Start, ReadOffsets, CheckFence, Poll,
     BeginCommit, CommitLocal, Fail, Crash
<1>. QED
  BY <1>3, StepMoves, TypeMove

\* Every variable keeps its type, cursors stay within their partitions, and
\* no transaction that has ended holds the fence row.
THEOREM TypeCorrect == Spec => []TypeOK
BY TypeInit, TypeStep, PTL DEF Spec

-----------------------------------------------------------------------------
(***************************************************************************)
(* No record is lost.                                                      *)
(***************************************************************************)

LEMMA LossInit == Init => LossInv
<1>. SUFFICES ASSUME Init PROVE LossInv
  OBVIOUS
<1>1. \A x \in Rec : ~Below(x, nextOffset) /\ \A r \in Runner : ~Below(x, pos[r])
  BY RecFields DEF Init, Below
<1>2. NoLoss /\ BehindRunners
  BY <1>1 DEF Init, NoLoss, BehindRunners, Below
<1>. QED
  BY <1>2, TypeInit DEF LossInv

\* The tables grow: a kept record stays kept.
LEMMA KeptStays ==
  ASSUME TypeOK, [Next]_vars, NEW x \in Rec, Kept(x)
  PROVE  Kept(x)'
<1>1. ASSUME NEW r \in Runner, WriteCommit(r) PROVE Kept(x)'
  BY <1>1 DEF WriteCommit, CommitRows, Kept, TypeOK
<1>2. CASE UNCHANGED sinkVars
  BY <1>2 DEF sinkVars, Kept
<1>. QED
  BY <1>1, <1>2 DEF Next, Step, vars, Start, ReadOffsets, CheckFence, Poll,
     BeginCommit, CommitLocal, Fail, Crash

LEMMA LossStep == LossInv /\ [Next]_vars => LossInv'
<1>. SUFFICES ASSUME LossInv, [Next]_vars PROVE LossInv'
  OBVIOUS
<1>0. TypeOK'
  BY TypeStep DEF LossInv
<1>k. \A x \in Rec : Kept(x) => Kept(x)'
  BY KeptStays DEF LossInv
<1>. DEFINE Behind(r, x) ==
       /\ Below(x, pos[r]) => Kept(x)
       /\ pc[r] = "committed" /\ Below(x, nxt[r]) => Kept(x)
       /\ pc[r] = "write" /\ ~advanced[r] /\ Below(x, nxt[r]) => Kept(x)
\* A step of r does not touch the cursors and batches of another runner.
<1>1. ASSUME NEW r \in Runner,
             Start(r) \/ Step(r) \/ Fail(r) \/ Crash(r),
             NEW q \in Runner, q # r, NEW x \in Rec
      PROVE  Behind(q, x)'
  <2>1. /\ pos'[q] = pos[q] /\ nxt'[q] = nxt[q]
        /\ pc'[q] = pc[q] /\ advanced'[q] = advanced[q]
    BY <1>1 DEF LossInv, TypeOK, Step, Start, ReadOffsets, CheckFence, Poll,
       BeginCommit, WriteCommit, CommitRows, CommitLocal, Fail, Crash, Goto, sinkVars
  <2>. QED
    BY <2>1, <1>k DEF LossInv, BehindRunners, Below
<1>. USE DEF LossInv, TypeOK, Goto
<1>2. ASSUME NEW r \in Runner, NEW x \in Rec, ReadOffsets(r)
      PROVE  Behind(r, x)'
  BY <1>2, <1>k DEF ReadOffsets, NoLoss, Below, Kept
<1>3. ASSUME NEW r \in Runner, NEW x \in Rec, Start(r) \/ CheckFence(r) \/ Poll(r)
      PROVE  Behind(r, x)'
  BY <1>3, <1>k DEF Start, CheckFence, Poll, BehindRunners, Below
<1>4. ASSUME NEW r \in Runner, NEW x \in Rec, BeginCommit(r)
      PROVE  Behind(r, x)'
  <2>1. pos'[r] = pos[r] /\ nxt'[r] = nxt[r] /\ pc'[r] # "committed"
    BY <1>4 DEF BeginCommit
  <2>2. pc'[r] = "write" => (advanced'[r] <=> OffsetsAdvance(r))
    BY <1>4 DEF BeginCommit
  <2>3. ~OffsetsAdvance(r) /\ Below(x, nxt[r]) => Below(x, nextOffset)
    <3>1. x[1] \in Partition /\ x[2] \in Nat
      BY RecFields
    <3>2. nxt[r][x[1]] \in Nat /\ nextOffset[x[1]] \in Nat
      BY <3>1 DEF Offsets
    <3>3. ~OffsetsAdvance(r) => ~(nxt[r][x[1]] > nextOffset[x[1]])
      BY <3>1 DEF OffsetsAdvance
    <3>. QED
      BY <3>1, <3>2, <3>3 DEF Below
  <2>. QED
    BY <2>1, <2>2, <2>3, <1>k DEF BehindRunners, NoLoss, Below, Kept
<1>5. ASSUME NEW r \in Runner, NEW x \in Rec, WriteCommit(r)
      PROVE  Below(x, nxt[r]) => Kept(x)'
  <2>. SUFFICES ASSUME Below(x, nxt[r]) PROVE Kept(x)'
    OBVIOUS
  <2>1. CASE Below(x, pos[r])
    BY <2>1, <1>k DEF BehindRunners
  <2>2. CASE ~Below(x, pos[r])
    <3>1. x \in Between(pos[r], nxt[r])
      BY <2>2, RecFields DEF Below, Between, Offsets
    <3>2. CASE advanced[r]
      BY <3>1, <3>2, <1>5 DEF WriteCommit, CommitRows, Kept
    <3>3. CASE ~advanced[r]
      BY <3>3, <1>5, <1>k DEF WriteCommit, CommitRows, BehindRunners
    <3>. QED
      BY <3>2, <3>3
  <2>. QED
    BY <2>1, <2>2
<1>6. ASSUME NEW r \in Runner, NEW x \in Rec, WriteCommit(r)
      PROVE  Behind(r, x)'
  BY <1>5, <1>6, <1>k DEF WriteCommit, CommitRows, BehindRunners, Below
<1>7. ASSUME NEW r \in Runner, NEW x \in Rec, CommitLocal(r)
      PROVE  Behind(r, x)'
  BY <1>7, <1>k DEF CommitLocal, BehindRunners, Below
<1>8. ASSUME NEW r \in Runner, NEW x \in Rec, Fail(r) \/ Crash(r)
      PROVE  Behind(r, x)'
  BY <1>8, <1>k DEF Fail, Retry, Crash, BehindRunners, Below, Ended
<1>9. BehindRunners'
  <2>1. ASSUME NEW r \in Runner, Start(r) \/ Step(r) \/ Fail(r) \/ Crash(r)
        PROVE  \A q \in Runner, x \in Rec : Behind(q, x)'
    BY <2>1, <1>1, <1>2, <1>3, <1>4, <1>6, <1>7, <1>8 DEF Step
  <2>2. CASE UNCHANGED vars
    BY <2>2 DEF vars, runnerVars, sinkVars, BehindRunners, Below, Kept
  <2>. QED
    BY <2>1, <2>2 DEF Next, BehindRunners
<1>10. NoLoss'
  <2>1. ASSUME NEW r \in Runner, WriteCommit(r) PROVE NoLoss'
    <3>. SUFFICES ASSUME NEW x \in Rec, Below(x, nextOffset)' PROVE Kept(x)'
      BY DEF NoLoss, Below, Kept
    <3>1. Below(x, nxt[r]) \/ Below(x, nextOffset)
      BY <2>1, RecFields DEF WriteCommit, CommitRows, Below
    <3>. QED
      BY <3>1, <2>1, <1>5, <1>k DEF NoLoss, Below, Kept
  <2>2. CASE UNCHANGED sinkVars
    BY <2>2 DEF sinkVars, NoLoss
  <2>. QED
    BY <2>1, <2>2 DEF Next, Step, vars, Start, ReadOffsets, CheckFence, Poll,
       BeginCommit, CommitLocal, Fail, Crash
<1>. QED
  BY <1>0, <1>9, <1>10

\* Whatever the runners do, however many are alive and whatever their
\* tokens, a record behind the durable offsets is in the table and counted.
THEOREM NothingIsLost == Spec => []NoLoss
<1>1. LossInv => NoLoss
  BY DEF LossInv
<1>. QED
  BY <1>1, LossInit, LossStep, PTL DEF Spec

-----------------------------------------------------------------------------
(***************************************************************************)
(* Exactly once, when a runner is started only after the earlier ones      *)
(* have ended.                                                             *)
(***************************************************************************)

LEMMA OnceInit == Init => OnceInv
<1>. SUFFICES ASSUME Init PROVE OnceInv
  OBVIOUS
<1>1. CountedOnce
  BY RecFields DEF Init, CountedOnce
<1>. QED
  BY <1>1, TypeInit
  DEF Init, OnceInv, DurableInv, OneAlive, Alive, Ended, NoRowNoOffset, AtOffsets, DoneIsDrained

\* Two sets of offsets that are the same at every partition, or one of them
\* behind but nowhere behind the other, are equal.
LEMMA Pinched ==
  ASSUME NEW a \in Offsets, NEW b \in Offsets,
         \A p \in Partition : a[p] <= b[p] /\ ~(b[p] > a[p])
  PROVE  a = b
<1>1. ASSUME NEW p \in Partition PROVE a[p] = b[p]
  <2>1. a[p] \in Nat /\ b[p] \in Nat
    BY DEF Offsets
  <2>. QED
    BY <2>1
<1>. QED
  BY <1>1 DEF Offsets

LEMMA SameOffsets ==
  ASSUME NEW a \in Offsets, NEW b \in Offsets, \A p \in Partition : a[p] = b[p]
  PROVE  a = b
BY DEF Offsets

\* A write takes the durable offsets to the end of the batch: from its start,
\* or it is a replay, and from there.
LEMMA WriteMoves ==
  ASSUME DurableInv, NEW r \in Runner, CommitRows(r)
  PROVE  /\ nextOffset' = nxt[r]
         /\ \A p \in Partition : nextOffset[p] <= nextOffset'[p]
         /\ IF advanced[r] THEN nextOffset = pos[r] ELSE nextOffset = nxt[r]
<1>. USE DEF DurableInv, TypeOK
<1>1. IF advanced[r] THEN nextOffset = pos[r] ELSE nextOffset = nxt[r]
  BY DEF AtOffsets, CommitRows, Goto
<1>2. \A p \in Partition : nextOffset[p] <= nxt[r][p]
  BY <1>1 DEF CommitRows, Goto, Offsets
<1>3. \A p \in Partition : nextOffset'[p] = nxt[r][p]
  BY <1>2 DEF CommitRows, Offsets
<1>4. nextOffset' \in Offsets
  BY DEF CommitRows, Offsets
<1>5. nextOffset' = nxt[r]
  BY <1>3, <1>4, SameOffsets
<1>. QED
  BY <1>1, <1>2, <1>5

LEMMA OneAliveStep ==
  ASSUME Overlap = FALSE, DurableInv, Moves
  PROVE  OneAlive'
<1>. USE RunnerFacts DEF DurableInv, TypeOK, OneAlive, Alive, Ended
<1>1. ASSUME NEW r \in Runner, Start(r) PROVE OneAlive'
  <2>1. /\ pc[r] = "new" /\ pc'[r] = "seek"
        /\ \A q \in Runner : q # r => pc'[q] = pc[q]
    BY <1>1 DEF Start, Goto
  <2>2. \A q \in Runner : q < r => pc[q] # "new" /\ ~Alive(q)
    BY <1>1 DEF Start
  <2>3. \A q \in Runner : r < q => pc[q] = "new"
    BY <2>1
  <2>4. \A q \in Runner : q # r => ~Alive(q)
    <3>. SUFFICES ASSUME NEW q \in Runner, q # r PROVE ~Alive(q)
      OBVIOUS
    <3>1. q < r \/ r < q
      BY RunnerOrder
    <3>. QED
      BY <3>1, <2>2, <2>3
  <2>5. \A q, s \in Runner : Alive(q)' /\ Alive(s)' => q = s
    BY <2>1, <2>4
  <2>6. \A q, s \in Runner : q < s /\ pc'[q] = "new" => pc'[s] = "new"
    BY <2>1, <2>2
  <2>. QED
    BY <2>5, <2>6
<1>2. ASSUME NEW r \in Runner, ~Start(r), Move(r)
      PROVE  /\ Alive(r)
             /\ pc'[r] # "new"
             /\ \A q \in Runner : q # r => pc'[q] = pc[q]
  BY <1>2 DEF Move, Fail, Retry, Crash, ReadOffsets, CheckFence, Poll, BeginCommit,
     CommitRows, CommitLocal, Goto
<1>3. ASSUME NEW r \in Runner, ~Start(r), Move(r) PROVE OneAlive'
  BY <1>2, <1>3
<1>4. CASE UNCHANGED moveVars
  BY <1>4 DEF moveVars, runnerVars
<1>. QED
  BY <1>1, <1>3, <1>4 DEF Moves

LEMMA CountedOnceStep ==
  ASSUME OnceInv, [Next]_vars
  PROVE  CountedOnce'
<1>. USE DEF OnceInv, DurableInv, TypeOK
<1>1. ASSUME NEW r \in Runner, WriteCommit(r) PROVE CountedOnce'
  <2>. SUFFICES ASSUME NEW x \in Rec
                PROVE  /\ counted'[x] = IF x[2] < nextOffset'[x[1]] THEN 1 ELSE 0
                       /\ x \in rows' <=> x[2] < nextOffset'[x[1]]
    BY DEF CountedOnce
  <2>1. /\ counted[x] = IF x[2] < nextOffset[x[1]] THEN 1 ELSE 0
        /\ x \in rows <=> x[2] < nextOffset[x[1]]
    BY DEF CountedOnce
  <2>2. /\ x[1] \in Partition /\ x[2] \in Nat
        /\ pos[r][x[1]] \in Nat /\ nxt[r][x[1]] \in Nat /\ nextOffset[x[1]] \in Nat
    BY RecFields DEF Offsets
  <2>3. pos[r][x[1]] <= nxt[r][x[1]]
    BY <1>1, <2>2 DEF WriteCommit, CommitRows, Goto
  <2>0. CommitRows(r)
    BY <1>1 DEF WriteCommit
  <2>4. /\ nextOffset' = nxt[r]
        /\ IF advanced[r] THEN nextOffset = pos[r] ELSE nextOffset = nxt[r]
    BY <2>0, WriteMoves
  <2>5. x \in Between(pos[r], nxt[r]) <=>
          pos[r][x[1]] <= x[2] /\ x[2] < nxt[r][x[1]]
    BY DEF Between
  <2>6. /\ rows' = rows \cup Between(pos[r], nxt[r])
        /\ counted'[x] = IF advanced[r] /\ x \in Between(pos[r], nxt[r])
                         THEN counted[x] + 1 ELSE counted[x]
    BY <1>1 DEF WriteCommit, CommitRows
  <2>. QED
    BY <2>1, <2>2, <2>3, <2>4, <2>5, <2>6
<1>2. CASE UNCHANGED sinkVars
  BY <1>2 DEF sinkVars, CountedOnce
<1>. QED
  BY <1>1, <1>2 DEF Next, Step, vars, Start, ReadOffsets, CheckFence, Poll,
     BeginCommit, CommitLocal, Fail, Crash

LEMMA DurableMove ==
  ASSUME Overlap = FALSE, DurableInv, Moves, counted' \in [Rec -> Nat]
  PROVE  DurableInv'
<1>. USE RunnerFacts DEF DurableInv, TypeOK, Goto
<1>1. TypeOK' /\ OneAlive'
  BY TypeMove, OneAliveStep
<1>. DEFINE At(r) ==
       /\ pc[r] \in {"fence", "poll"} => pos[r] = nextOffset
       /\ pc[r] = "commit" => pos[r] = nextOffset \/ nxt[r] = nextOffset
       /\ pc[r] = "write" => IF advanced[r] THEN pos[r] = nextOffset
                                            ELSE nxt[r] = nextOffset
       /\ pc[r] = "committed" => nxt[r] = nextOffset
\* The runners that do not take the step are not alive, or the step is a
\* Start, which changes no offset.
<1>2. ASSUME NEW r \in Runner,
             Move(r),
             NEW q \in Runner, q # r
      PROVE  At(q)'
  <2>1. /\ pos'[q] = pos[q] /\ nxt'[q] = nxt[q]
        /\ pc'[q] = pc[q] /\ advanced'[q] = advanced[q]
    BY <1>2 DEF Move, Start, ReadOffsets, CheckFence, Poll,
       BeginCommit, CommitRows, CommitLocal, Fail, Crash, sinkVars
  <2>2. CASE Start(r)
    BY <2>1, <2>2 DEF Start, sinkVars, AtOffsets
  <2>3. CASE ~Start(r)
    <3>1. Alive(r)
      BY <1>2, <2>3 DEF Move, ReadOffsets, CheckFence, Poll, BeginCommit, 
         CommitRows, CommitLocal, Fail, Crash, Alive, Ended
    <3>2. ~Alive(q)
      BY <3>1, <1>2 DEF OneAlive
    <3>. QED
      BY <3>2, <2>1 DEF Alive, Ended
  <2>. QED
    BY <1>2, <2>2, <2>3
<1>3. ASSUME NEW r \in Runner, Start(r) \/ ReadOffsets(r) \/ CheckFence(r)
      PROVE  At(r)'
  BY <1>3 DEF Start, ReadOffsets, CheckFence, sinkVars, AtOffsets
<1>4. ASSUME NEW r \in Runner, Poll(r) PROVE At(r)'
  BY <1>4 DEF Poll, sinkVars, AtOffsets
<1>5. ASSUME NEW r \in Runner, BeginCommit(r) PROVE At(r)'
  <2>1. CASE Superseded(r)
    BY <2>1, <1>5 DEF BeginCommit
  <2>2. CASE ~Superseded(r)
    <3>1. /\ pc'[r] = "write"
          /\ advanced'[r] = OffsetsAdvance(r)
          /\ pos'[r] = pos[r] /\ nxt'[r] = nxt[r] /\ nextOffset' = nextOffset
      BY <2>2, <1>5 DEF BeginCommit, sinkVars
    <3>2. pos[r] = nextOffset \/ nxt[r] = nextOffset
      BY <1>5 DEF BeginCommit, AtOffsets
    <3>3. \A p \in Partition : pos[r][p] \in Nat /\ nxt[r][p] \in Nat /\ nextOffset[p] \in Nat
      BY DEF Offsets
    <3>4. \A p \in Partition : pos[r][p] <= nxt[r][p]
      BY <1>5 DEF BeginCommit
    <3>5. CASE OffsetsAdvance(r)
      <4>1. CASE pos[r] = nextOffset
        BY <4>1, <3>1, <3>5
      <4>2. CASE nxt[r] = nextOffset
        <5>1. ~HasRows
          BY <4>2, <3>3, <3>5 DEF OffsetsAdvance
        <5>2. \A p \in Partition : nextOffset[p] = 0
          BY <5>1 DEF HasRows, NoRowNoOffset
        <5>3. \A p \in Partition : pos[r][p] = nextOffset[p]
          BY <4>2, <5>2, <3>3, <3>4
        <5>4. pos[r] = nextOffset
          BY <5>3, SameOffsets
        <5>. QED
          BY <5>4, <3>1, <3>5
      <4>. QED
        BY <3>2, <4>1, <4>2
    <3>6. CASE ~OffsetsAdvance(r)
      <4>1. \A p \in Partition : ~(nxt[r][p] > nextOffset[p])
        BY <3>6 DEF OffsetsAdvance
      <4>2. CASE pos[r] = nextOffset
        <5>1. \A p \in Partition : pos[r][p] <= nxt[r][p] /\ ~(nxt[r][p] > pos[r][p])
          BY <4>1, <4>2, <3>4
        <5>2. pos[r] = nxt[r]
          BY <5>1, Pinched
        <5>. QED
          BY <5>2, <4>2, <3>1, <3>6
      <4>3. CASE nxt[r] = nextOffset
        BY <4>3, <3>1, <3>6
      <4>. QED
        BY <3>2, <4>2, <4>3
    <3>. QED
      BY <3>5, <3>6
  <2>. QED
    BY <2>1, <2>2
<1>6. ASSUME NEW r \in Runner, CommitRows(r) PROVE At(r)'
  BY <1>6, WriteMoves DEF CommitRows
<1>7. ASSUME NEW r \in Runner, CommitLocal(r) PROVE At(r)'
  BY <1>7 DEF CommitLocal, sinkVars, AtOffsets
<1>8. ASSUME NEW r \in Runner, Fail(r) \/ Crash(r) PROVE At(r)'
  BY <1>8 DEF Fail, Retry, Crash, sinkVars, AtOffsets, Ended
<1>9. AtOffsets'
  <2>1. ASSUME NEW r \in Runner, Move(r)
        PROVE  \A q \in Runner : At(q)'
    BY <2>1, <1>2, <1>3, <1>4, <1>5, <1>6, <1>7, <1>8 DEF Move
  <2>2. CASE UNCHANGED moveVars
    BY <2>2 DEF moveVars, runnerVars, AtOffsets
  <2>. QED
    BY <2>1, <2>2 DEF Moves, AtOffsets
<1>10. NoRowNoOffset'
  <2>1. ASSUME NEW r \in Runner, CommitRows(r) PROVE NoRowNoOffset'
    BY <2>1 DEF CommitRows, NoRowNoOffset
  <2>2. CASE UNCHANGED <<nextOffset, rowAttempt>>
    BY <2>2 DEF NoRowNoOffset
  <2>. QED
    BY <2>1, <2>2 DEF Moves, Move, moveVars, sinkVars, Start, ReadOffsets, CheckFence, Poll,
       BeginCommit, CommitLocal, Fail, Crash
<1>11. DoneIsDrained'
  <2>1. ASSUME NEW r \in Runner, Poll(r) PROVE DoneIsDrained'
    <3>1. pos[r] = nextOffset /\ nextOffset' = nextOffset
      BY <2>1 DEF Poll, sinkVars, AtOffsets
    <3>2. \A q \in Runner : pc'[q] = "done" => pc[q] = "done" \/ pos[r] = Size
      BY <2>1 DEF Poll
    <3>. QED
      BY <3>1, <3>2 DEF DoneIsDrained
  <2>2. ASSUME NEW r \in Runner, CommitRows(r) PROVE DoneIsDrained'
    <3>1. \A q \in Runner : pc'[q] = "done" => pc[q] = "done"
      BY <2>2 DEF CommitRows
    <3>2. \A p \in Partition : /\ nextOffset[p] \in Nat /\ nextOffset'[p] \in Nat
                               /\ Size[p] \in Nat /\ nextOffset'[p] <= Size[p]
                               /\ nextOffset[p] <= nextOffset'[p]
      BY <1>1, <2>2, WriteMoves, StreamAssumption DEF Offsets
    <3>. SUFFICES ASSUME NEW q \in Runner, pc'[q] = "done", NEW p \in Partition
                  PROVE  nextOffset'[p] = Size[p]
      BY DEF DoneIsDrained
    <3>3. nextOffset[p] = Size[p]
      BY <3>1 DEF DoneIsDrained
    <3>. HIDE DEF DurableInv, TypeOK
    <3>. QED
      BY <3>2, <3>3
  <2>3. ASSUME NEW r \in Runner,
               \/ Start(r) \/ ReadOffsets(r) \/ CheckFence(r) \/ BeginCommit(r)
               \/ CommitLocal(r) \/ Fail(r) \/ Crash(r)
        PROVE  DoneIsDrained'
    <3>1. \A q \in Runner : pc'[q] = "done" => pc[q] = "done"
      BY <2>3 DEF Start, ReadOffsets, CheckFence, BeginCommit, CommitLocal, Fail,
         Retry, Crash
    <3>2. nextOffset' = nextOffset
      BY <2>3 DEF Start, ReadOffsets, CheckFence, BeginCommit, CommitLocal, Fail, Crash,
         sinkVars
    <3>. QED
      BY <3>1, <3>2 DEF DoneIsDrained
  <2>4. CASE UNCHANGED moveVars
    BY <2>4 DEF moveVars, runnerVars, DoneIsDrained
  <2>. QED
    BY <2>1, <2>2, <2>3, <2>4 DEF Moves, Move
<1>. QED
  BY <1>1, <1>9, <1>10, <1>11

LEMMA OnceStep ==
  ASSUME Overlap = FALSE, OnceInv, [Next]_vars
  PROVE  OnceInv'
<1>1. counted' \in [Rec -> Nat]
  BY TypeStep DEF OnceInv, DurableInv, TypeOK
<1>2. DurableInv'
  BY <1>1, StepMoves, DurableMove DEF OnceInv
<1>. QED
  BY <1>2, CountedOnceStep DEF OnceInv

LEMMA OnceInvariance == ASSUME Overlap = FALSE PROVE Spec => []OnceInv
<1>1. OnceInv /\ [Next]_vars => OnceInv'
  BY OnceStep
<1>. QED
  BY <1>1, OnceInit, PTL DEF Spec

\* Every record is counted once when the durable offsets pass it, whatever
\* is killed, retried or acknowledged in vain.
THEOREM CountsAreExact == ASSUME Overlap = FALSE PROVE Spec => []CountedOnce
<1>1. OnceInv => CountedOnce
  BY DEF OnceInv, DurableInv
<1>. QED
  BY <1>1, OnceInvariance, PTL

\* A runner that ends with success leaves nothing behind in the source.
THEOREM DoneMeansDrained == ASSUME Overlap = FALSE PROVE Spec => []DoneIsDrained
<1>1. OnceInv => DoneIsDrained
  BY DEF OnceInv, DurableInv
<1>. QED
  BY <1>1, OnceInvariance, PTL

\* The sink's tables implement ExactlyOnce: each transaction moves the
\* durable offsets forward and counts just the records they move over, or
\* changes neither.
THEOREM ImplementsExactlyOnce == ASSUME Overlap = FALSE PROVE Spec => ExactlyOnceSpec
<1>1. Init => Abstract!Init
  BY DEF Init, Abstract!Init
<1>2. OnceInv /\ [Next]_vars => [Abstract!Consume]_<<nextOffset, counted>>
  <2>. SUFFICES ASSUME OnceInv, [Next]_vars
                PROVE  [Abstract!Consume]_<<nextOffset, counted>>
    OBVIOUS
  <2>1. ASSUME NEW r \in Runner, WriteCommit(r)
        PROVE  [Abstract!Consume]_<<nextOffset, counted>>
    <3>0. CommitRows(r) /\ DurableInv
      BY <2>1 DEF WriteCommit, OnceInv
    <3>1. TypeOK'
      BY TypeStep DEF OnceInv, DurableInv
    <3>2. DOMAIN nextOffset' = Partition
      BY <3>1 DEF TypeOK, Offsets
    <3>3. \A p \in Partition : nextOffset[p] <= nextOffset'[p] /\ nextOffset'[p] <= Size[p]
      BY <3>0, <3>1, WriteMoves, RunnerFacts DEF TypeOK
    <3>4. CASE advanced[r]
      <4>1. nextOffset = pos[r] /\ nextOffset' = nxt[r]
        BY <3>0, <3>4, WriteMoves
      <4>2. \A x \in Rec : x \in Between(pos[r], nxt[r])
                             <=> Abstract!Between(nextOffset, nextOffset', x)
        BY <4>1 DEF Between, Abstract!Between
      <4>3. counted' = [x \in Rec |-> IF Abstract!Between(nextOffset, nextOffset', x)
                                      THEN counted[x] + 1 ELSE counted[x]]
        BY <2>1, <3>4, <4>2 DEF WriteCommit, CommitRows
      <4>. QED
        BY <3>2, <3>3, <4>3 DEF Abstract!Consume
    <3>5. CASE ~advanced[r]
      <4>1. nextOffset' = nextOffset
        BY <3>0, <3>5, WriteMoves
      <4>2. counted' = counted
        BY <2>1, <3>5 DEF WriteCommit, CommitRows, OnceInv, DurableInv, TypeOK
      <4>. QED
        BY <4>1, <4>2
    <3>. QED
      BY <3>4, <3>5
  <2>2. CASE UNCHANGED sinkVars
    BY <2>2 DEF sinkVars
  <2>. QED
    BY <2>1, <2>2 DEF Next, Step, vars, Start, ReadOffsets, CheckFence, Poll,
       BeginCommit, CommitLocal, Fail, Crash
<1>. QED
  BY <1>1, <1>2, OnceInvariance, PTL DEF Spec, ExactlyOnceSpec, Abstract!Spec

=============================================================================
