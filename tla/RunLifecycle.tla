----------------------------- MODULE RunLifecycle -----------------------------
(***************************************************************************)
(* What the run queue promises its clients, without leases, workers or     *)
(* clocks: every run goes from queued to an outcome through numbered       *)
(* attempts, one at a time, and is never tried again once it has one.  A   *)
(* cancellation takes a run out of this at any time.                       *)
(* The reaper and the orphan sweep update many rows in one transaction, so *)
(* one step of the queue may be a step of several runs at once.            *)
(***************************************************************************)
EXTENDS Integers

CONSTANTS Run, MaxAttempts

VARIABLES
  phase,   \* where each run is
  token    \* the number of the attempt it is in, or was last in

Phase == {"absent", "queued", "running", "completed", "failed", "dead_letter", "cancelled"}

Init ==
  /\ phase = [r \in Run |-> "absent"]
  /\ token = [r \in Run |-> 0]

Moves(r, from, to) ==
  /\ phase[r] = from
  /\ phase'[r] = to

SameToken(r) == token'[r] = token[r]

Submit(r) == Moves(r, "absent", "queued") /\ SameToken(r)

\* A new attempt begins: the token grows by exactly one.
Grant(r)  == Moves(r, "queued", "running") /\ token'[r] = token[r] + 1

\* The attempt is taken away; there are attempts left ...
Revoke(r) ==
  /\ Moves(r, "running", "queued")
  /\ token[r] < MaxAttempts
  /\ SameToken(r)

\* ... or that was the last one.
Bury(r) ==
  /\ Moves(r, "running", "dead_letter")
  /\ token[r] = MaxAttempts
  /\ SameToken(r)

Finish(r) == (\E s \in {"completed", "failed"} : Moves(r, "running", s)) /\ SameToken(r)

\* The attempt that completed the run may still declare it failed, when an
\* error follows its report; nobody else changes an outcome.
Retract(r) == Moves(r, "completed", "failed") /\ SameToken(r)

\* A run nobody holds is given up as orphaned.
Abandon(r) == Moves(r, "queued", "failed") /\ SameToken(r)

\* A client gives up a run that is waiting ...
Withdraw(r) == Moves(r, "queued", "cancelled") /\ SameToken(r)

\* ... or overwrites whatever became of it since it looked.
Overtake(r) ==
  /\ \E s \in {"running", "completed", "failed", "dead_letter"} : Moves(r, s, "cancelled")
  /\ SameToken(r)

Step(r) ==
  \/ Submit(r) \/ Grant(r) \/ Revoke(r) \/ Bury(r)
  \/ Finish(r) \/ Retract(r) \/ Abandon(r) \/ Withdraw(r) \/ Overtake(r)

Stay(r) == phase'[r] = phase[r] /\ SameToken(r)

Next ==
  /\ DOMAIN phase' = Run
  /\ DOMAIN token' = Run
  /\ \A r \in Run : Step(r) \/ Stay(r)

Spec == Init /\ [][Next]_<<phase, token>>

=============================================================================
