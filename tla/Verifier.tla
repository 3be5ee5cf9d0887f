------------------------------- MODULE Verifier -------------------------------
(***************************************************************************)
(* The oracle of the streaming harness (streaming/verifier.py): it compares *)
(* what a sink holds with the manifest of the stream that was generated.    *)
(*                                                                         *)
(* A manifest maps each event to its fields [window, amount, payload].  A   *)
(* checksum is the fields it was computed from: two digests are the same    *)
(* only for the same fields.  A row is [event, fields, checksum].           *)
(***************************************************************************)
EXTENDS Integers, FiniteSets, FiniteSetsExt

NoOffset == -1    \* committed_offset = None

\* A row that StreamEvent.from_dict refuses, and one whose event_time is no
\* time, which from_dict lets through and window_start does not.
Garbled     == [unparseable |-> TRUE]
Undated     == [undated |-> TRUE]
Parses(row) == row \notin {Garbled, Undated}

\* Mutant of Intact: the row agrees with its own checksum.
IntactByItself(manifest, row) == row.checksum = row.fields

\* The checksum is computed again from the row, and its column compared too.
Intact(manifest, row) ==
  LET expected == manifest[row.event]
  IN  row.fields = expected /\ row.checksum = expected

NoEntry == [count |-> 0, sum |-> 0]
\* Count and sum by event-time window, of the fields f[k] of each k.
ByWindow(f) ==
  [w \in {f[k].window : k \in DOMAIN f} |->
     LET members == {k \in DOMAIN f : f[k].window = w}
     IN  [count |-> Cardinality(members),
          sum   |-> MapThenSumSet(LAMBDA k : f[k].amount, members)]]

CompareWindows(expected, actual) ==
  LET entry(g, w) == IF w \in DOMAIN g THEN g[w] ELSE NoEntry
  IN  {w \in DOMAIN expected \cup DOMAIN actual : entry(expected, w) # entry(actual, w)}

\* What verify returns; it raises on a row that is Undated, and returns nothing.
Verify(manifest, rows, offset) ==
  LET parsed    == {k \in DOMAIN rows : Parses(rows[k])}
      seen      == {rows[k].event : k \in parsed}
      copies(e) == Cardinality({k \in parsed : rows[k].event = e})
      known     == {k \in parsed : rows[k].event \in DOMAIN manifest}
  IN [duplicates |-> {e \in seen : copies(e) > 1},
      missing    |-> DOMAIN manifest \ seen,
      corrupted  |-> {rows[k].event : k \in {j \in known : ~Intact(manifest, rows[j])}},
      unexpected |-> (seen \ DOMAIN manifest) \cup {"unparseable" : k \in DOMAIN rows \ parsed},
      windows    |-> CompareWindows(ByWindow(manifest), ByWindow([k \in parsed |-> rows[k].fields])),
      offsetGap  |-> IF offset = NoOffset THEN 0 ELSE offset - Cardinality(seen)]

Ok(report) ==
  /\ report.duplicates = {} /\ report.missing = {} /\ report.corrupted = {}
  /\ report.unexpected = {} /\ report.windows = {} /\ report.offsetGap = 0

\* verify_window_accounting: the windows that do not add up once the records
\* set aside from each, late_rows that are not counted, are added back.
\* windowRows are the rows of stream_windows, amounts what the sink says
\* each record is worth.
VerifyWindowAccounting(manifest, windowRows, aside, amounts) ==
  LET expected == ByWindow(manifest)
      actual(w) ==
        LET row      == IF w \in DOMAIN windowRows THEN windowRows[w] ELSE NoEntry
            excluded == {x \in aside : manifest[x].window = w}
        IN  [count |-> row.count + Cardinality(excluded),
             sum   |-> row.sum + MapThenSumSet(LAMBDA x : amounts[x], excluded)]
  IN {w \in DOMAIN expected : actual(w) # expected[w]}
===============================================================================
