------------------------------- MODULE Baseline -------------------------------
(***************************************************************************)
(* The streaming harness (streaming/generator.py, baseline.py, cli.py):    *)
(* consumers that keep their offset badly or well are run over a generated *)
(* stream and killed once, and what they leave in the sink is verified.    *)
(* The runner of the platform stands here for the transactional consumer;  *)
(* its own steps are in StreamCommit.                                      *)
(***************************************************************************)
EXTENDS Verifier, Naturals, Sequences, SequencesExt

CONSTANTS
  Manifest,      \* the events generated, with their fields
  Redelivered,   \* the sets of events that the broker may deliver twice
  Batch,         \* batch_size
  CrashPoints,   \* crash_after_batches, 0 for none
  Altered,       \* fields that no event has
  Ghost,         \* an event that was not generated
  MaxTampers     \* bound: changes made to the sink by hand

Event == DOMAIN Manifest

ASSUME BaselineAssumption ==
  /\ Batch \in Nat \ {0} /\ MaxTampers \in Nat /\ CrashPoints \subseteq Nat
  /\ IsFiniteSet(Event) /\ \A e \in Event : Manifest[e].amount \in Int
  /\ Ghost \notin Event /\ Redelivered \subseteq SUBSET Event

VARIABLES
  arrivals,     \* events.jsonl
  consumer,     \* "at_least_once", "at_most_once" or "transactional"
  crashAfter,
  progress,     \* [offset, committed, batches, crashed]
  sink,         \* the rows
  tampers,
  audit         \* the last report of verify

baselineVars == <<arrivals, consumer, crashAfter, progress, sink, tampers, audit>>

NotVerified == [offset |-> "none"]

-----------------------------------------------------------------------------
\* The events in the order of arrival, each redelivered at once or not.
Redeliver(order, again) ==
  FlattenSeq([k \in DOMAIN order |->
                IF order[k] \in again THEN <<order[k], order[k]>> ELSE <<order[k]>>])

Row(e)       == [event |-> e, fields |-> Manifest[e], checksum |-> Manifest[e]]
RowsOf(events) == [k \in DOMAIN events |-> Row(events[k])]

Size      == Len(arrivals)
NextBatch == SubSeq(arrivals, progress.offset + 1, Min({progress.offset + Batch, Size}))
After     == progress.offset + Len(NextBatch)

Consumes(mode) == consumer = mode /\ progress.offset < Size
Killed         == ~progress.crashed /\ progress.batches + 1 = crashAfter

Proceed(offset, committed, crashed) ==
  /\ progress' = [offset |-> offset, committed |-> committed,
                  batches |-> progress.batches + 1, crashed |-> progress.crashed \/ crashed]
  /\ UNCHANGED <<arrivals, consumer, crashAfter, tampers, audit>>

\* Write, then commit the offset.
WriteFirst ==
  /\ Consumes("at_least_once")
  /\ sink' = sink \o RowsOf(NextBatch)
  /\ IF Killed THEN Proceed(progress.committed, progress.committed, TRUE)
     ELSE Proceed(After, After, FALSE)

\* Commit the offset, then write.
CommitFirst ==
  /\ Consumes("at_most_once")
  /\ sink' = IF Killed THEN sink ELSE sink \o RowsOf(NextBatch)
  /\ Proceed(After, After, Killed)

\* Rows go by their event, and with the offset: a kill undoes both.
CommitTogether ==
  /\ Consumes("transactional")
  /\ sink' = IF Killed THEN sink
             ELSE LET there == {sink[k].event : k \in DOMAIN sink}
                  IN  sink \o RowsOf(SetToSeq(ToSet(NextBatch) \ there))
  /\ IF Killed THEN Proceed(progress.committed, progress.committed, TRUE)
     ELSE Proceed(After, After, FALSE)

Consumed == progress.offset >= Size

\* What the harness is there to notice.
Tamper ==
  /\ Consumed /\ audit = NotVerified /\ tampers < MaxTampers
  /\ tampers' = tampers + 1
  /\ \/ \E row \in {Garbled, Undated} : sink' = Append(sink, row)
     \/ sink' = Append(sink, [event |-> Ghost, fields |-> Altered, checksum |-> Altered])
     \/ \E k \in DOMAIN sink :
          \/ sink' = RemoveAt(sink, k)
          \/ sink' = Append(sink, sink[k])
          \/ /\ Parses(sink[k])
             /\ \E f \in {Altered, [Manifest[CHOOSE e \in Event : TRUE] EXCEPT !.payload = Altered.payload]} :
                \E sum \in {f, sink[k].checksum} :
                  sink' = [sink EXCEPT ![k].fields = f, ![k].checksum = sum]
  /\ UNCHANGED <<arrivals, consumer, crashAfter, progress, audit>>

\* stream verify, with the offset that is on record or without one; the command
\* ends without a verdict when verify raises.
VerifySink ==
  /\ Consumed /\ audit = NotVerified
  /\ Undated \notin ToSet(sink)
  /\ \E offset \in {NoOffset, progress.committed} :
       audit' = [offset |-> offset, report |-> Verify(Manifest, sink, offset)]
  /\ UNCHANGED <<arrivals, consumer, crashAfter, progress, sink, tampers>>

BaselineInit ==
  /\ \E again \in Redelivered : arrivals = Redeliver(SetToSeq(Event), again)
  /\ consumer \in {"at_least_once", "at_most_once", "transactional"}
  /\ crashAfter \in CrashPoints
  /\ progress = [offset |-> 0, committed |-> 0, batches |-> 0, crashed |-> FALSE]
  /\ sink = <<>>
  /\ tampers = 0
  /\ audit = NotVerified

BaselineNext == WriteFirst \/ CommitFirst \/ CommitTogether \/ Tamper \/ VerifySink

BaselineSpec == BaselineInit /\ [][BaselineNext]_baselineVars

-----------------------------------------------------------------------------
(* Properties                                                              *)

BaselineTypeOK ==
  /\ ToSet(arrivals) = Event
  /\ progress.committed <= progress.offset /\ progress.offset <= Size
  /\ \A k \in DOMAIN sink : Parses(sink[k]) => sink[k].event \in Event \cup {Ghost}
  /\ tampers \in 0..MaxTampers

\* verifier.py: no two faults hide each other.  A sink passes exactly when it
\* holds each event once, as generated, and the offset, if there is one, is
\* the number of events.  baseline.py: a consumer that writes first only ever
\* repeats records, one that commits first only ever loses them, and either
\* does when it is killed with a batch in hand.  The transactional one passes
\* with every stream, but not by its offset once the broker redelivered: that
\* one counts deliveries (cli.py:119, verifier.py:201).
VerdictsAreDeserved ==
  LET report  == audit.report
      twice   == Size > Cardinality(Event)
      perfect == /\ Len(sink) = Cardinality(Event)
                 /\ \A e \in Event : \E k \in DOMAIN sink : sink[k] = Row(e)
  IN audit # NotVerified =>
       /\ Ok(report) <=> perfect /\ audit.offset \in {NoOffset, Cardinality(Event)}
       /\ tampers = 0 =>
            /\ report.corrupted = {} /\ report.unexpected = {}
            /\ consumer = "at_least_once" =>
                 report.missing = {} /\ (report.duplicates # {} <=> progress.crashed \/ twice)
            /\ consumer = "at_most_once" =>
                 (report.missing # {} => progress.crashed) /\ (report.duplicates # {} => twice)
            /\ consumer = "at_most_once" /\ ~twice => (report.missing # {} <=> progress.crashed)
            /\ consumer = "transactional" =>
                 perfect /\ (Ok(report) <=> audit.offset = NoOffset \/ ~twice)
===============================================================================
