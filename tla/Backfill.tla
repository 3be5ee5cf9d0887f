------------------------------ MODULE Backfill ------------------------------
(***************************************************************************)
(* core/intervals.py and core/backfill.py: the windows a cron schedule     *)
(* owns between two instants, a plan that leaves out the windows the queue *)
(* already has a run for, and a submission that queues the rest one commit *)
(* at a time.  Operators plan and submit at their own pace and may die.    *)
(***************************************************************************)
EXTENDS Lists, Naturals, Sequences, FiniteSets, SequencesExt, FiniteSetsExt

CONSTANTS
  Operator,   \* people or jobs that request backfills
  Schedules,  \* sets of instants at which a schedule may fire
  Instants,   \* the instants a request may name
  Day,        \* instants per calendar day
  MaxRuns,    \* DEFAULT_MAX_RUNS
  MaxRequests \* bound: requests over a behaviour

ASSUME BackfillAssumption ==
  /\ Day \in Nat \ {0} /\ MaxRuns \in Nat \ {0} /\ MaxRequests \in Nat
  /\ Instants \subseteq Nat /\ \A S \in Schedules : S \subseteq Nat

VARIABLES
  fires,    \* the pipeline's schedule
  queued,   \* rows of pipeline_queue: [id, window, by, forced]
  request,  \* per operator: the request it is working on
  requests, \* requests so far, each with a fresh backfill_id
  raced     \* history: some plan was made or used beside another operator's work

backfillVars == <<fires, queued, request, requests, raced>>

NoRequest == [stage |-> "none", id |-> 0, from |-> 0, to |-> 0, force |-> FALSE,
              todo |-> <<>>, skipped |-> {}]

------------------------------------------------------------------------
(* core/intervals.py                                                       *)

\* fire_times: in order, and never more than limit + 1 of them; the k-th one
\* has k - 1 before it.
FireTimes(S, from, to, limit) ==
  LET due       == {t \in S : from <= t /\ t <= to}
      before(t) == Cardinality({x \in due : x < t})
  IN  [k \in 1..Min({Cardinality(due), limit + 1}) |-> CHOOSE t \in due : before(t) = k - 1]

\* intervals_between refuses a range with more than limit fire times.
Refused(S, from, to, limit) ==
  to < from \/ Len(FireTimes(S, from, to, limit)) > limit

\* Mutant of IntervalsBetween: the boundaries are swapped.
IntervalsSwapped(S, from, to, limit) ==
  LET times == FireTimes(S, from, to, limit)
  IN  [k \in 1..(IF times = <<>> THEN 0 ELSE Len(times) - 1) |->
         [start |-> times[k + 1], end |-> times[k]]]

\* A window for each fire time but the last.
IntervalsBetween(S, from, to, limit) ==
  LET times == FireTimes(S, from, to, limit)
  IN  [k \in 1..(IF times = <<>> THEN 0 ELSE Len(times) - 1) |->
         [start |-> times[k], end |-> times[k + 1]]]

\* Reference: a window is what lies between two neighbouring fire times.
WindowsOf(S, from, to) ==
  {w \in [start : S, end : S] : /\ from <= w.start /\ w.start < w.end /\ w.end <= to
                               /\ ~ \E z \in S : w.start < z /\ z < w.end}

------------------------------------------------------------------------
\* Mutant of Covered: only requests that were queued in full count.
CoveredInFull(w) ==
  \E q \in queued : /\ q.window.start = w.start
                    /\ \E o \in Operator : request[o].id = q.by /\ request[o].stage = "submitted"

\* covered_windows: a row of any status covers the window it starts.
Covered(w) == \E q \in queued : q.window.start = w.start
RunId(id, w) == <<id, w.start \div Day>>

BackfillInit ==
  /\ fires \in Schedules
  /\ queued = {}
  /\ request = [o \in Operator |-> NoRequest]
  /\ requests = 0 /\ raced = FALSE

Free(o) == request[o].stage # "planned"
OthersBusy(o) == \E p \in Operator \ {o} : request[p].stage = "planned"

\* plan_backfill: nothing is queued; a refused range leaves no plan.
PlanBackfill(o) ==
  /\ Free(o) /\ requests < MaxRequests
  /\ \E from, to \in Instants, force \in BOOLEAN :
       LET windows == IntervalsBetween(fires, from, to, MaxRuns)
           due(w)  == force \/ ~Covered(w)
       IN  request' = [request EXCEPT ![o] =
             IF Refused(fires, from, to, MaxRuns)
             THEN [NoRequest EXCEPT !.stage = "refused", !.from = from, !.to = to]
             ELSE [stage |-> "planned", id |-> requests + 1, from |-> from, to |-> to,
                   force |-> force, todo |-> Filtered(windows, {w \in Range(windows) : due(w)}),
                   skipped |-> {w \in Range(windows) : ~due(w)}]]
  /\ requests' = requests + 1
  /\ raced' = (raced \/ OthersBusy(o))
  /\ UNCHANGED <<fires, queued>>

\* submit_backfill, one enqueue_run: the oldest window first; a run id that is
\* taken raises out of the loop with the earlier windows already queued.
SubmitNext(o) ==
  /\ request[o].stage = "planned" /\ request[o].todo # <<>>
  /\ LET w  == Head(request[o].todo)
         id == RunId(request[o].id, w)
     IN  IF \E q \in queued : q.id = id
         THEN /\ request' = [request EXCEPT ![o].stage = "raised"]
              /\ UNCHANGED queued
         ELSE /\ queued' = queued \cup {[id |-> id, window |-> w, by |-> request[o].id,
                                            forced |-> request[o].force]}
              /\ request' = [request EXCEPT ![o].todo = Tail(@)]
  /\ UNCHANGED <<fires, requests, raced>>

FinishSubmit(o) ==
  /\ request[o].stage = "planned" /\ request[o].todo = <<>>
  /\ request' = [request EXCEPT ![o].stage = "submitted"]
  /\ UNCHANGED <<fires, queued, requests, raced>>

\* The operator decides against the plan, or its process dies half-way.
Abandon(o) ==
  /\ request[o].stage = "planned"
  /\ request' = [request EXCEPT ![o].stage = "abandoned"]
  /\ UNCHANGED <<fires, queued, requests, raced>>

OperatorStep(o) == PlanBackfill(o) \/ SubmitNext(o) \/ FinishSubmit(o) \/ Abandon(o)
BackfillNext == \E o \in Operator : OperatorStep(o)
BackfillSpec == BackfillInit /\ [][BackfillNext]_backfillVars

------------------------------------------------------------------------
BackfillTypeOK ==
  /\ fires \in Schedules /\ requests \in 0..MaxRequests /\ raced \in BOOLEAN
  /\ \A q \in queued : q.by \in 1..requests /\ q.window.start < q.window.end
  /\ \A o \in Operator : request[o].stage \in
       {"none", "planned", "refused", "raised", "submitted", "abandoned"}

\* A request that was submitted leaves every window of its range with a run,
\* the windows being exactly the gaps between neighbouring fire times in the
\* range, whatever part of it earlier requests had queued, given up or failed
\* to queue; a range is refused exactly when it has as many windows as the
\* limit or more.  And no window is queued twice unless somebody forced it or
\* two operators worked at the same time: repeating a request that died
\* half-way doubles nothing.
SubmittedOnce ==
  /\ \A o \in Operator :
       LET r == request[o]
           windows == WindowsOf(fires, r.from, r.to)
       IN  /\ r.stage = "submitted" => \A w \in windows : \E q \in queued : q.window = w
           /\ r.stage \in {"planned", "submitted", "abandoned", "raised"} => Cardinality(windows) < MaxRuns
           /\ r.stage = "refused" => r.to < r.from \/ Cardinality(windows) >= MaxRuns
  /\ \A q1, q2 \in queued :
       q1.window = q2.window /\ q1.by # q2.by => raced \/ q1.forced \/ q2.forced
===========================================================================
