------------------------------- MODULE Lineage -------------------------------
(***************************************************************************)
(* Column lineage and the check that gates a change of the SQL models      *)
(* (core/column_lineage.py, core/lineage_checks.py, core/lineage_impact.py,*)
(* cli/lineage_cli.py).  The models are edited, merged and scanned into    *)
(* the lineage store; `lineage check` compares the edited models with the  *)
(* models at a git ref or with the store, and fails the change when a      *)
(* column that it stops producing has a reader.                            *)
(*                                                                         *)
(* A statement is the list of its SELECTs, each after those it selects     *)
(* from: subqueries and common tables first, the outermost last.  A file   *)
(* parses into one or is NotSql.  The UNION, an expression's text and      *)
(* aggregation are left out: they change the kind of an edge among those   *)
(* that are certain.                                                       *)
(***************************************************************************)
EXTENDS FiniteSets, Naturals, Sequences

CONSTANTS Asset,        \* the assets that models write
          External,     \* tables that no model writes ...
          Columns,      \* ... and their columns
          Column,       \* names of columns
          Statements,   \* [Asset -> the statements its model may become]
          Unqualified,  \* the alias of a column reference without one
          NoModel,      \* no file
          NotSql,       \* a file that does not parse
          Showable,     \* bound: the sets of files that git show may succeed on
          MaxDepth,     \* of the resolver's walk
          MaxHops,      \* of the impact walk
          MaxModelEdits

Star == "*"
Rows == "(rows)"
Name == Column \cup {Star}

VARIABLES catalog,      \* --schema: the external tables whose columns it lists
          models,       \* the SQL files
          base,         \* the SQL files at the git ref
          store,        \* table column_lineage, by target_asset
          scanned,      \* the SQL files of the last scan --write
          report,       \* what the last check said of models
          rewrites

columnVars == <<catalog, models, base, store, scanned, report, rewrites>>

-----------------------------------------------------------------------------
(* Statements.  A SELECT has projections [name, reads, star], sources by   *)
(* alias, and the references of its joins.  A plain star has the name "*"  *)
(* and no columns to find in it, while o.* reads a column called "*".      *)

Table(x) == [table |-> x]
Inner(k) == [scope |-> k]
IsTable(source) == "table" \in DOMAIN source

Plain(s)    == {p \in s.projections : ~p.star}
HasStar(s)  == \E p \in s.projections : p.star
ProjectionsNamed(s, c) == {p \in s.projections : p.name = c}
Reads(s)    == UNION {p.reads : p \in Plain(s)}
Top(stmt)   == stmt[Len(stmt)]

IsStatement(stmt) ==
  /\ stmt \in Seq({stmt[k] : k \in DOMAIN stmt}) \ {<<>>}
  /\ \A k \in DOMAIN stmt :
       /\ \A n \in DOMAIN stmt[k].from :
            IF IsTable(stmt[k].from[n]) THEN stmt[k].from[n].table \in Asset \cup External
            ELSE stmt[k].from[n].scope \in 1..(k - 1)
       /\ \A p \in stmt[k].projections : p.name \in Name /\ p.star \in BOOLEAN /\ (p.star => p.name = Star)
       /\ \A ref \in stmt[k].on \cup (UNION {p.reads : p \in stmt[k].projections}) :
            ref.column \in Name /\ (ref.column = Star => ref.alias # Unqualified)

ASSUME LineageAssumption ==
  /\ IsFiniteSet(Asset) /\ Asset \cap External = {} /\ Showable \subseteq SUBSET Asset
  /\ {Star, Rows} \cap Column = {} /\ \A x \in External : Columns[x] \subseteq Column
  /\ \A x \in Asset : \A stmt \in Statements[x] : IsStatement(stmt) /\ stmt \notin {NoModel, NotSql}
  /\ MaxDepth \in Nat /\ MaxHops \in Nat \ {0} /\ MaxModelEdits \in Nat

-----------------------------------------------------------------------------
(* Resolution: class _Resolver.                                            *)

ColumnsOf(x) == IF x \in catalog THEN Columns[x] ELSE {}
SourceHasColumn(stmt, source, c) ==
  IF IsTable(source) THEN c \in ColumnsOf(source.table) ELSE ProjectionsNamed(stmt[source.scope], c) # {}

\* The sources, by alias, that may hold a column reference of s.
Candidates(stmt, s, ref) ==
  LET narrowed == {n \in DOMAIN s.from : SourceHasColumn(stmt, s.from[n], ref.column)}
  IN IF ref.alias # Unqualified THEN DOMAIN s.from \cap {ref.alias}
     ELSE IF \E n \in DOMAIN s.from : narrowed = {n} THEN narrowed
     ELSE DOMAIN s.from
IsSettled(stmt, s, ref) == \E n \in DOMAIN s.from : Candidates(stmt, s, ref) = {n}

\* What the walk finds behind a column of a source and behind references of
\* s, given what it finds in the SELECTs before: physical columns
\* <<asset, column>>, and notes <<text>>.
ResolveInSource(source, inner, c, depth) ==
  IF IsTable(source) THEN {<<source.table, c>>} ELSE inner[source.scope][c][depth]
Doubts(stmt, s, ref) ==
  IF IsSettled(stmt, s, ref) THEN {}
  ELSE IF ref.alias = Unqualified THEN {<<"ambiguous">>} ELSE {<<"unknown alias">>}
ResolveReference(stmt, s, inner, ref, depth) ==
  Doubts(stmt, s, ref)
  \cup (UNION {ResolveInSource(s.from[n], inner, ref.column, depth) : n \in Candidates(stmt, s, ref)})
Resolve(stmt, s, inner, refs, depth) ==
  IF depth > MaxDepth THEN {<<"too deep">> : ref \in refs}
  ELSE UNION {ResolveReference(stmt, s, inner, ref, depth) : ref \in refs}

ColumnBehind(stmt, s, inner, c, depth) ==
  IF ProjectionsNamed(s, c) # {} THEN UNION {Resolve(stmt, s, inner, p.reads, depth + 1) : p \in ProjectionsNamed(s, c)}
  ELSE IF HasStar(s) THEN UNION {ResolveInSource(s.from[n], inner, c, depth + 1) : n \in DOMAIN s.from}
  ELSE {<<"not projected">>}
Walk(stmt) ==
  LET walked[k \in 0..Len(stmt)] ==
        IF k = 0 THEN <<>>
        ELSE Append(walked[k - 1], [c \in Name |-> [depth \in Nat |->
                                      ColumnBehind(stmt, stmt[k], walked[k - 1], c, depth)]])
  IN  walked[Len(stmt)]

ColumnsAmong(found) == {x \in found : Len(x) = 2}
NotesAmong(found)   == {x \in found : Len(x) = 1}
Behind(stmt, refs)  == Resolve(stmt, Top(stmt), Walk(stmt), refs, 0)

-----------------------------------------------------------------------------
(* Extraction: the edges [target, source, kind] of a statement, and its    *)
(* output columns.                                                         *)

Edge(target, source, kind) == [target |-> target, source |-> source, kind |-> kind]

\* A plain star over inner SELECTs: what they project by name, where a star
\* is one more column, with no inputs.
StarSources(stmt) ==
  {n \in DOMAIN Top(stmt).from : HasStar(Top(stmt)) /\ ~IsTable(Top(stmt).from[n])}
PassedOn(stmt) ==
  UNION {{<<Top(stmt).from[n], p.name>> : p \in stmt[Top(stmt).from[n].scope].projections} :
           n \in StarSources(stmt)}
BehindPassed(stmt, x) == ResolveInSource(x[1], Walk(stmt), x[2], 0)

\* Over a table the catalog lists, and over one it does not.
StarTables(stmt) ==
  {Top(stmt).from[n].table : n \in {m \in DOMAIN Top(stmt).from :
                                      HasStar(Top(stmt)) /\ IsTable(Top(stmt).from[m])}}
ExpandStar(stmt) ==
  (UNION {{Edge(x[2], y, "column") : y \in ColumnsAmong(BehindPassed(stmt, x))} : x \in PassedOn(stmt)})
  \cup (UNION {{Edge(c, <<t, c>>, "column") : c \in ColumnsOf(t)} : t \in StarTables(stmt)})
  \cup {Edge(Star, <<t, Star>>, "unresolved_star") : t \in {u \in StarTables(stmt) : ColumnsOf(u) = {}}}

ProjectionEdges(stmt, p) ==
  LET found == Behind(stmt, p.reads)
      kind  == IF <<"ambiguous">> \in found THEN "ambiguous" ELSE "column"
  IN IF ColumnsAmong(found) = {} THEN {Edge(p.name, <<>>, "constant")}
     ELSE {Edge(p.name, x, kind) : x \in ColumnsAmong(found)}

NoJoinKeyEdges(stmt) == {}   \* mutant: a column that only joins is not read
\* Only the ON conditions of the outermost joins: what WHERE and GROUP BY
\* read is no edge.
JoinKeyEdges(stmt) ==
  {Edge(Rows, x, "join_key") : x \in ColumnsAmong(Behind(stmt, Top(stmt).on))}

EdgesForScope(stmt) ==
  (UNION {ProjectionEdges(stmt, p) : p \in Plain(Top(stmt))}) \cup ExpandStar(stmt) \cup JoinKeyEdges(stmt)
EdgeTargets(stmt) == {e.target : e \in EdgesForScope(stmt)}
TargetColumns(stmt) ==
  {p.name : p \in Plain(Top(stmt))} \cup {x[2] : x \in PassedOn(stmt)} \cup (EdgeTargets(stmt) \ {Rows})

\* lineage.unresolved: a star that stays one, or a note of the resolver.
IsUnresolved(stmt) ==
  \/ \E e \in EdgesForScope(stmt) : e.kind = "unresolved_star"
  \/ NotesAmong(Behind(stmt, Top(stmt).on \cup Reads(Top(stmt)))) # {}
  \/ \E x \in PassedOn(stmt) : NotesAmong(BehindPassed(stmt, x)) # {}

\* A file that does not parse has no target, and is left out without a word.
ParsedModels(files) == {x \in Asset : files[x] \notin {NoModel, NotSql}}
EdgesOf(files) ==
  [x \in Asset |-> IF x \in ParsedModels(files) THEN EdgesForScope(files[x]) ELSE {}]

-----------------------------------------------------------------------------
(* Impact and the check, over a graph [Asset -> edges].                    *)

\* The columns that read one of cols directly.  A star edge stands for every
\* column of the asset; the column "*" is read by star edges alone.
Readers(graph, cols) ==
  UNION {{<<x, e.target>> : e \in {f \in graph[x] :
            \E c \in cols : f.source = c \/ f.source = <<c[1], Star>>}} : x \in Asset}

\* The walk stops at MAX_HOPS.
ColumnImpact(graph, col) ==
  LET reached[hops \in 0..MaxHops] ==
        IF hops = 0 THEN {col}
        ELSE reached[hops - 1] \cup Readers(graph, reached[hops - 1])
  IN reached[MaxHops] \ {col}

ProducedColumns(graph, x) == {e.target : e \in graph[x]} \ {Rows}

RemovedColumns(graph, files) ==
  UNION {{<<x, c>> : c \in ProducedColumns(graph, x) \ TargetColumns(files[x])} :
           x \in ParsedModels(files)}
CheckRemovedColumns(graph, files) ==
  {[severity |-> IF ColumnImpact(graph, col) # {} THEN "error" ELSE "warning", column |-> col] :
     col \in RemovedColumns(graph, files)}
CheckUnresolved(files) ==
  {[severity |-> "warning", column |-> <<x, Star>>] :
     x \in {y \in ParsedModels(files) : IsUnresolved(files[y])}}

-----------------------------------------------------------------------------
(* The commands.                                                           *)

NoReport == [against |-> "nothing", shown |-> {}, findings |-> {}]
NoEdges  == [x \in Asset |-> {}]

LineageInit ==
  /\ catalog \in {{}, External}
  /\ base \in {f \in [Asset -> UNION {Statements[x] : x \in Asset}] :
                \A x \in Asset : f[x] \in Statements[x]}
  /\ models = base
  /\ store = NoEdges
  /\ scanned = [x \in Asset |-> NoModel]
  /\ report = NoReport
  /\ rewrites = 0

\* A developer rewrites, adds or deletes a model.
EditModel(x, s) ==
  /\ rewrites < MaxModelEdits
  /\ rewrites' = rewrites + 1
  /\ models' = [models EXCEPT ![x] = s]
  /\ report' = NoReport
  /\ UNCHANGED <<catalog, base, store, scanned>>

Merge ==
  /\ base' = models
  /\ report' = NoReport
  /\ UNCHANGED <<catalog, models, store, scanned, rewrites>>

\* Replaces the rows of every asset whose model has edges; the rows of the
\* others stay.
RecordColumnLineage(graph) ==
  [x \in Asset |-> IF graph[x] = {} THEN store[x] ELSE graph[x]]

Scan ==
  /\ store' = RecordColumnLineage(EdgesOf(models))
  /\ scanned' = models
  /\ report' = NoReport
  /\ UNCHANGED <<catalog, models, base, rewrites>>

\* git show is asked for the files that are there now.  One it cannot show is
\* taken for a new model, whatever the reason: a ref that does not exist or is
\* not in a shallow clone, a path that is not the one in the repository.
ModelsAtRef(shown) ==
  [x \in Asset |-> IF models[x] # NoModel /\ x \in shown THEN base[x] ELSE NoModel]

Findings(graph) == CheckRemovedColumns(graph, models) \cup CheckUnresolved(models)
Reports(against, shown, graph) ==
  /\ report' = [against |-> against, shown |-> shown, findings |-> Findings(graph)]
  /\ UNCHANGED <<catalog, models, base, store, scanned, rewrites>>
CheckAgainstRef   == \E shown \in Showable : Reports("ref", shown, EdgesOf(ModelsAtRef(shown)))
CheckAgainstStore == Reports("store", Asset, store)

LineageNext ==
  \/ \E x \in Asset : \E s \in Statements[x] \cup {NoModel, NotSql} : EditModel(x, s)
  \/ Merge \/ Scan \/ CheckAgainstRef \/ CheckAgainstStore

LineageSpec == LineageInit /\ [][LineageNext]_columnVars

-----------------------------------------------------------------------------
(* Properties.  What the SQL really reads and writes, from the columns the *)
(* tables really have.                                                     *)

\* The columns of a source, and of each SELECT of a statement, where a star
\* takes over those of its sources.
Shown(source, cols, tables) == IF IsTable(source) THEN tables[source.table] ELSE cols[source.scope]
Starred(s) ==
  {n \in DOMAIN s.from : \E p \in ProjectionsNamed(s, Star) : p.star \/ \E ref \in p.reads : ref.alias = n}
Yields(s, cols, tables) ==
  ({p.name : p \in s.projections} \ {Star}) \cup (UNION {Shown(s.from[n], cols, tables) : n \in Starred(s)})
ColumnsWithin(stmt, tables) ==
  LET cols[k \in 0..Len(stmt)] ==
        IF k = 0 THEN <<>> ELSE Append(cols[k - 1], Yields(stmt[k], cols[k - 1], tables))
  IN  cols[Len(stmt)]

\* The tables when every model that parses has run as often as there are models.
Run(files, tables) ==
  [x \in Asset \cup External |->
     IF x \in External THEN Columns[x]
     ELSE IF x \in ParsedModels(files) THEN ColumnsWithin(files[x], tables)[Len(files[x])] ELSE {}]
RealColumns(files) ==
  LET after[n \in 0..Cardinality(Asset)] ==
        IF n = 0 THEN [x \in Asset \cup External |-> IF x \in External THEN Columns[x] ELSE {}]
        ELSE Run(files, after[n - 1])
  IN  after[Cardinality(Asset)]

\* The source a reference means: the only one that has the column.
Meant(s, ref, cols, tables) ==
  LET having == {n \in DOMAIN s.from : ref.alias \in {Unqualified, n}
                                       /\ ref.column \in Shown(s.from[n], cols, tables)}
  IN  {n \in having : having = {n}}

\* The physical columns that references of s, and the columns of each SELECT,
\* are computed from.
FedBySource(source, inner, c) == IF IsTable(source) THEN {<<source.table, c>>} ELSE inner[source.scope][c]
FedByReference(s, inner, ref, cols, tables) ==
  UNION {FedBySource(s.from[n], inner, ref.column) : n \in Meant(s, ref, cols, tables)}
FedBy(s, inner, refs, cols, tables) == UNION {FedByReference(s, inner, ref, cols, tables) : ref \in refs}
ColumnFed(s, inner, c, cols, tables) ==
  IF ProjectionsNamed(s, c) # {} THEN UNION {FedBy(s, inner, p.reads, cols, tables) : p \in ProjectionsNamed(s, c)}
  ELSE UNION {FedBySource(s.from[n], inner, c) : n \in {m \in Starred(s) : c \in Shown(s.from[m], cols, tables)}}
FedWithin(stmt, tables) ==
  LET cols == ColumnsWithin(stmt, tables)
      fed[k \in 0..Len(stmt)] ==
        IF k = 0 THEN <<>>
        ELSE Append(fed[k - 1], [c \in Column |-> ColumnFed(stmt[k], fed[k - 1], c, cols, tables)])
  IN  fed[Len(stmt)]

\* What a statement's columns and its outermost joins are computed from.
Feeds(stmt, tables) ==
  FedBy(Top(stmt), FedWithin(stmt, tables), Top(stmt).on \cup Reads(Top(stmt)), ColumnsWithin(stmt, tables), tables)

LineageTypeOK ==
  /\ catalog \subseteq External
  /\ models \in [Asset -> (UNION {Statements[x] : x \in Asset}) \cup {NoModel, NotSql}]
  /\ base \in [Asset -> (UNION {Statements[x] : x \in Asset}) \cup {NoModel, NotSql}]
  /\ scanned \in [Asset -> (UNION {Statements[x] : x \in Asset}) \cup {NoModel, NotSql}]
  /\ \A x \in Asset : \A e \in store[x] : e.kind \in
       {"column", "constant", "ambiguous", "unresolved_star", "join_key"}
  /\ report.against \in {"nothing", "ref", "store"} /\ report.shown \subseteq Asset
  /\ rewrites \in 0..MaxModelEdits

\* lineage_checks.py:5-8: a change that takes a column away from a model that
\* goes on computing an output or a join from it does not pass the check.
\* What still passes: a change of a model, or under a reader, whose file git
\* could not show at the ref; the column of a model whose file is deleted or no
\* longer parses, one that its producer passes on under a star or takes over
\* from an inner SELECT that reads nothing for it, and a reader that is itself
\* unresolved.
CleanCheckBreaksNothing ==
  LET before == IF report.against = "ref" THEN base ELSE scanned
      passes == report.against # "nothing" /\ \A f \in report.findings : f.severity = "warning"
      kept   == {r \in ParsedModels(before) : before[r] = models[r]}
      was    == RealColumns(before)
      is     == RealColumns(models)
  IN passes => \A r \in kept : \A x \in Feeds(before[r], was) :
       \/ x[2] \in is[x[1]]
       \/ r \notin report.shown \/ x[1] \in Asset \ report.shown
       \/ x[1] \notin ParsedModels(models)
       \/ Star \in TargetColumns(before[x[1]])
       \/ x[2] \in TargetColumns(before[x[1]]) \ EdgeTargets(before[x[1]])
       \/ IsUnresolved(before[r])
=============================================================================
