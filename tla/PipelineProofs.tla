---------------------------- MODULE PipelineProofs ----------------------------
(*****************************************************************************)
(* Theorems about what becomes of a pipeline: a run of its tasks, with its   *)
(* waves, attempts and repairs (Executor), for any tasks and wirings; the    *)
(* pipeline that is generated from a text (Generator), for any sentences;    *)
(* and the columns that its SQL files read and write (Lineage), for any      *)
(* files.                                                                    *)
(*****************************************************************************)
EXTENDS Executor, Generator, Lineage, DataLemmas

(*****************************************************************************)
(* Rounds of a graph                                                         *)
(*****************************************************************************)

\* The rounds of Layered.
LEMMA LayeredIs ==
  ASSUME NEW nodes, NEW preds, NEW n \in Nat, NEW f, f = Layered(nodes, preds, n)
  PROVE  /\ f \in [0..n -> SUBSET nodes]
         /\ f[0] = {}
         /\ \A k \in 1..n : f[k] = f[k - 1] \cup {x \in nodes : preds[x] \subseteq f[k - 1]}
<1>. DEFINE D == SUBSET nodes
            Next1(S) == S \cup {x \in nodes : preds[x] \subseteq S}
            step == [q \in (1..n) \X D |-> Next1(q[2])]
<1>1. step \in [(1..n) \X D -> D] /\ {} \in D
  OBVIOUS
<1>2. PICK g \in [0..n -> D] : IsRecursion(g, n, {}, step)
  <2>. HIDE DEF step, D
  <2>. QED
    BY <1>1, RecursionExists
<1>3. ASSUME NEW k \in 0..n, k # 0 PROVE step[<<k, g[k - 1]>>] = Next1(g[k - 1])
  <2>1. k \in 1..n /\ k - 1 \in 0..n
    BY <1>3
  <2>2. g[k - 1] \in D
    BY <2>1
  <2>3. <<k, g[k - 1]>> \in (1..n) \X D
    BY <2>1, <2>2
  <2>. QED
    BY <2>3
<1>4. g = [k \in 0..n |-> IF k = 0 THEN {} ELSE Next1(g[k - 1])]
  <2>. HIDE DEF step, D, Next1
  <2>. QED
    BY <1>2, <1>3 DEF IsRecursion
<1>5. f = [k \in 0..n |-> IF k = 0 THEN {} ELSE Next1(f[k - 1])]
  <2>1. f = CHOOSE h : h = [k \in 0..n |-> IF k = 0 THEN {} ELSE Next1(h[k - 1])]
    BY DEF Layered
  <2>. QED
    BY <1>4, <2>1, Zenon
<1>. HIDE DEF Next1
<1>6. f[0] = {}
  BY <1>5
<1>7. \A k \in 1..n : f[k] = Next1(f[k - 1])
  <2>1. \A k \in 1..n : k \in 0..n /\ k # 0
    OBVIOUS
  <2>. QED
    BY <1>5, <2>1
<1>8. DOMAIN f = 0..n
  BY <1>5
<1>9. 0..n \subseteq {k \in 0..n : f[k] \in SUBSET nodes}
  <2>. DEFINE C == {k \in 0..n : f[k] \in SUBSET nodes}
  <2>1. 0 \in C
    BY <1>6
  <2>2. \A k \in 1..n : k - 1 \in C => k \in C
    BY <1>7 DEF Next1
  <2>3. 0..n \subseteq C
    <3>. HIDE DEF C
    <3>. QED
      BY <2>1, <2>2, UptoInduct
  <2>. QED
    BY <2>3
<1>10. f \in [0..n -> SUBSET nodes]
  BY <1>5, <1>8, <1>9
<1>. QED
  BY <1>6, <1>7, <1>10 DEF Next1

\* They grow.
LEMMA LayeredGrows ==
  ASSUME NEW nodes, NEW preds, NEW n \in Nat, NEW f, f = Layered(nodes, preds, n),
         NEW i \in 0..n, NEW j \in 0..n, i <= j
  PROVE  f[i] \subseteq f[j]
<1>. DEFINE C == {k \in 0..n : i <= k => f[i] \subseteq f[k]}
<1>1. 0 \in C
  OBVIOUS
<1>2. ASSUME NEW k \in 1..n, k - 1 \in C PROVE k \in C
  <2>1. f[k - 1] \subseteq f[k]
    BY LayeredIs
  <2>2. CASE i = k
    BY <2>2
  <2>3. CASE i # k
    <3>1. i <= k => i <= k - 1
      BY <2>3
    <3>. QED
      BY <1>2, <2>1, <3>1
  <2>. QED
    BY <2>2, <2>3
<1>3. 0..n \subseteq C
  <2>. HIDE DEF C
  <2>. QED
    BY <1>1, <1>2, UptoInduct
<1>. QED
  BY <1>3

(*****************************************************************************)
(* The waves of a pipeline                                                   *)
(*****************************************************************************)

\* Waves to run: no task in two of them, and each after what it depends on.
Ordered(p, ws) ==
  /\ ws \in Seq(SUBSET Task)
  /\ \A i, j \in DOMAIN ws : i # j => ws[i] \cap ws[j] = {}
  /\ \A i, j \in DOMAIN ws : \A t \in ws[i], d \in ws[j] : d \in Canonical(p, t) => j < i

\* The waves of a run are in the order of the waves of the whole pipeline.
KeepsOrder(ws, full) ==
  \A a, b \in DOMAIN ws : a < b =>
    \A x \in ws[a], y \in ws[b] :
      \E i, j \in DOMAIN full : i < j /\ x \in full[i] /\ y \in full[j]

\* A pipeline has finitely many tasks.
LEMMA TasksFinite == IsFiniteSet(Task) /\ Cardinality(Task) \in Nat
BY ExecutorAssumption, FS_CardinalityType

Rounds(p) == [k \in 1..Cardinality(Task) |-> Placed(p)[k] \ Placed(p)[k - 1]]

\* The rounds of a pipeline, the empty ones included, are in an order that
\* respects its dependencies.
LEMMA RoundsOrdered ==
  ASSUME NEW p
  PROVE  Ordered(p, Rounds(p)) /\ DOMAIN Rounds(p) = 1..Cardinality(Task)
<1>. DEFINE n == Cardinality(Task)
            f == Placed(p)
            preds == [t \in Task |-> Canonical(p, t)]
            R == Rounds(p)
<1>1. n \in Nat
  BY TasksFinite
<1>. HIDE DEF n
<1>2. /\ f \in [0..n -> SUBSET Task] /\ f[0] = {}
      /\ \A k \in 1..n : f[k] = f[k - 1] \cup {x \in Task : preds[x] \subseteq f[k - 1]}
      /\ \A i, j \in 0..n : i <= j => f[i] \subseteq f[j]
  <2>1. f = Layered(Task, preds, n)
    BY DEF Placed, n
  <2>. HIDE DEF f, preds
  <2>. QED
    BY <1>1, <2>1, LayeredIs, LayeredGrows
<1>3. R = [k \in 1..n |-> f[k] \ f[k - 1]]
  BY DEF Rounds, n
<1>. HIDE DEF f, R
<1>4. R \in [1..n -> SUBSET Task]
  <2>1. \A k \in 1..n : k \in 0..n
    BY <1>1
  <2>. QED
    BY <1>2, <1>3, <2>1
<1>5. R \in Seq(SUBSET Task) /\ DOMAIN R = 1..n
  BY <1>1, <1>4, FunctionIsSeq
<1>6. ASSUME NEW i \in 1..n, NEW j \in 1..n, i < j PROVE R[i] \cap f[j - 1] = R[i] /\ R[i] \cap R[j] = {}
  <2>1. i \in 0..n /\ j - 1 \in 0..n /\ i <= j - 1
    BY <1>1, <1>6
  <2>2. f[i] \subseteq f[j - 1]
    BY <1>2, <2>1
  <2>. QED
    BY <1>3, <2>2
<1>7. ASSUME NEW i \in 1..n, NEW j \in 1..n, i # j PROVE R[i] \cap R[j] = {}
  <2>1. i < j \/ j < i
    BY <1>7
  <2>2. CASE i < j
    BY <1>6, <2>2
  <2>3. CASE j < i
    BY <1>6, <2>3
  <2>. QED
    BY <2>1, <2>2, <2>3
<1>8. ASSUME NEW i \in 1..n, NEW j \in 1..n, NEW t \in R[i], NEW d \in R[j], d \in Canonical(p, t)
      PROVE  j < i
  <2>1. t \in Task /\ t \notin f[i - 1] /\ t \in f[i]
    BY <1>3, <1>4
  <2>2. Canonical(p, t) \subseteq f[i - 1]
    <3>. HIDE DEF preds
    <3>1. f[i] = f[i - 1] \cup {x \in Task : preds[x] \subseteq f[i - 1]}
      BY <1>2
    <3>2. preds[t] \subseteq f[i - 1]
      BY <2>1, <3>1
    <3>. QED
      BY <2>1, <3>2 DEF preds
  <2>3. d \in f[i - 1] /\ d \notin f[j - 1]
    BY <1>3, <1>8, <2>2
  <2>4. i - 1 \in 0..n /\ j - 1 \in 0..n
    BY <1>1
  <2>5. ~(i - 1 <= j - 1)
    BY <1>2, <2>3, <2>4
  <2>. QED
    BY <2>5
<1>. QED
  BY <1>5, <1>7, <1>8 DEF Ordered, R, n

\* Every task is placed in some round of a graph that builds.
LEMMA RoundsCover ==
  ASSUME NEW p, Builds(p)
  PROVE  \A t \in Task : \E k \in DOMAIN Rounds(p) : t \in Rounds(p)[k]
<1>. DEFINE n == Cardinality(Task)
            f == Placed(p)
            preds == [t \in Task |-> Canonical(p, t)]
            C == {k \in 0..n : \A t \in f[k] : \E i \in 1..n : t \in f[i] \ f[i - 1]}
<1>1. n \in Nat
  BY TasksFinite
<1>2. f[n] = Task
  BY DEF Builds
<1>. HIDE DEF n
<1>3. f[0] = {}
  <2>1. f = Layered(Task, preds, n)
    BY DEF Placed, n
  <2>. HIDE DEF f, preds
  <2>. QED
    BY <1>1, <2>1, LayeredIs
<1>4. 0..n \subseteq C
  <2>. HIDE DEF f
  <2>1. 0 \in C
    BY <1>1, <1>3
  <2>2. ASSUME NEW k \in 1..n, k - 1 \in C PROVE k \in C
    <3>1. k \in 0..n
      BY <1>1, <2>2
    <3>2. ASSUME NEW t \in f[k] PROVE \E i \in 1..n : t \in f[i] \ f[i - 1]
      <4>1. CASE t \in f[k - 1]
        BY <2>2, <4>1
      <4>2. CASE t \notin f[k - 1]
        BY <2>2, <4>2
      <4>. QED
        BY <4>1, <4>2
    <3>. QED
      BY <3>1, <3>2
  <2>. HIDE DEF C
  <2>. QED
    BY <1>1, <2>1, <2>2, UptoInduct
<1>5. n \in C
  <2>. HIDE DEF C
  <2>1. n \in 0..n
    BY <1>1
  <2>. QED
    BY <1>4, <2>1
<1>. HIDE DEF f
<1>6. \A t \in Task : \E i \in 1..n : t \in f[i] \ f[i - 1]
  BY <1>2, <1>5
<1>. QED
  BY <1>6 DEF Rounds, n, f

\* Leaving out what is empty, or all but some tasks, keeps waves in order.
LEMMA SiftedOrdered ==
  ASSUME NEW p, NEW rounds, Ordered(p, rounds)
  PROVE  /\ Ordered(p, NonEmpty(rounds))
         /\ KeepsOrder(NonEmpty(rounds), rounds)
         /\ UNION Range(NonEmpty(rounds)) = UNION Range(rounds)
<1>. DEFINE out == NonEmpty(rounds)
            n == Len(rounds)
<1>1. /\ rounds \in Seq(SUBSET Task) /\ n \in Nat /\ DOMAIN rounds = 1..n
  BY LenProperties DEF Ordered
<1>. DEFINE S == (SUBSET Task) \ {{}}
<1>2. out \in Seq(SUBSET Task) /\ Sifted(out, rounds, S, n)
  <2>1. out = Filtered(rounds, S)
    BY DEF NonEmpty
  <2>. HIDE DEF S, out
  <2>. QED
    BY <1>1, <2>1, FilteredIs
<1>. HIDE DEF out, n
<1>3. /\ Len(out) \in Nat /\ DOMAIN out = 1..Len(out)
  BY <1>2, LenProperties
<1>4. ASSUME NEW a \in DOMAIN out, NEW b \in DOMAIN out, a < b
      PROVE  \E i, j \in DOMAIN rounds : i < j /\ out[a] = rounds[i] /\ out[b] = rounds[j]
  <2>. HIDE DEF S
  <2>1. Sifted(out, rounds, S, n)
    BY <1>2
  <2>2. \E i, j \in 1..n : i < j /\ out[a] = rounds[i] /\ out[b] = rounds[j]
    BY ONLY <1>4, <2>1 DEF Sifted
  <2>. QED
    BY <1>1, <2>2
<1>5. KeepsOrder(out, rounds)
  BY <1>4 DEF KeepsOrder
<1>6. ASSUME NEW a \in DOMAIN out, NEW b \in DOMAIN out, a # b PROVE out[a] \cap out[b] = {}
  <2>1. a < b \/ b < a
    BY <1>3, <1>6
  <2>2. CASE a < b
    BY <1>4, <2>2, <1>1 DEF Ordered
  <2>3. CASE b < a
    BY <1>4, <2>3, <1>1 DEF Ordered
  <2>. QED
    BY <2>1, <2>2, <2>3
<1>7. ASSUME NEW a \in DOMAIN out, NEW b \in DOMAIN out, NEW t \in out[a], NEW d \in out[b],
             d \in Canonical(p, t)
      PROVE  b < a
  <2>1. a < b \/ a = b \/ b < a
    BY <1>3
  <2>2. CASE a < b
    <3>1. PICK i \in DOMAIN rounds, j \in DOMAIN rounds : i < j /\ out[a] = rounds[i] /\ out[b] = rounds[j]
      BY <1>4, <2>2
    <3>2. j < i
      BY <1>7, <3>1 DEF Ordered
    <3>. QED
      BY <1>1, <3>1, <3>2
  <2>3. CASE a = b
    <3>1. PICK i \in DOMAIN rounds : out[a] = rounds[i]
      BY <1>1, <1>2 DEF Sifted
    <3>2. i < i
      BY <1>7, <2>3, <3>1 DEF Ordered
    <3>. QED
      BY <1>1, <3>2
  <2>. QED
    BY <2>1, <2>2, <2>3
<1>8. UNION Range(out) = UNION Range(rounds)
  <2>1. \A a \in DOMAIN out : \E i \in DOMAIN rounds : out[a] = rounds[i]
    BY <1>1, <1>2 DEF Sifted
  <2>2. \A i \in DOMAIN rounds : rounds[i] # {} => \E a \in DOMAIN out : out[a] = rounds[i]
    <3>1. \A i \in DOMAIN rounds : rounds[i] # {} => rounds[i] \in S
      BY <1>1, ElementOfSeq
    <3>. HIDE DEF S
    <3>. QED
      BY <1>1, <1>2, <3>1 DEF Sifted
  <2>. QED
    BY <2>1, <2>2 DEF Range
<1>. QED
  BY <1>2, <1>5, <1>6, <1>7, <1>8 DEF Ordered, out

\* So are its waves, which place every task when the DAG builds.
LEMMA WavesOrdered ==
  ASSUME NEW p
  PROVE  /\ Ordered(p, ExecutionWaves(p))
         /\ Builds(p) => UNION Range(ExecutionWaves(p)) = Task
<1>1. ExecutionWaves(p) = NonEmpty(Rounds(p))
  BY DEF ExecutionWaves, Rounds
<1>2. Ordered(p, Rounds(p))
  BY RoundsOrdered
<1>3. Builds(p) => UNION Range(Rounds(p)) = Task
  <2>. SUFFICES ASSUME Builds(p) PROVE UNION Range(Rounds(p)) = Task
    OBVIOUS
  <2>1. \A k \in DOMAIN Rounds(p) : Rounds(p)[k] \in SUBSET Task
    BY <1>2, LenProperties, ElementOfSeq DEF Ordered
  <2>. QED
    BY <2>1, RoundsCover DEF Range
<1>. QED
  BY <1>1, <1>2, <1>3, SiftedOrdered

\* The waves of a repair: the selected tasks, in the order of the full run.
LEMMA RepairOrdered ==
  ASSUME NEW p, NEW from
  PROVE  /\ Ordered(p, RepairExecutionWaves(p, from))
         /\ KeepsOrder(RepairExecutionWaves(p, from), ExecutionWaves(p))
         /\ Builds(p) => UNION Range(RepairExecutionWaves(p, from)) = Task \cap Selected(p, from)
<1>. DEFINE full == ExecutionWaves(p)
            C == Selected(p, from)
            n == Len(full)
            part == [k \in 1..n |-> full[k] \cap C]
<1>1. /\ Ordered(p, full) /\ full \in Seq(SUBSET Task) /\ n \in Nat /\ DOMAIN full = 1..n
  BY WavesOrdered, LenProperties DEF Ordered
<1>2. Builds(p) => UNION Range(full) = Task
  BY WavesOrdered
<1>3. RepairExecutionWaves(p, from) = NonEmpty(part)
  BY DEF RepairExecutionWaves
<1>. HIDE DEF full, C, n
<1>4. part \in [1..n -> SUBSET Task]
  BY <1>1
<1>5. part \in Seq(SUBSET Task) /\ DOMAIN part = 1..n
  BY <1>1, <1>4, FunctionIsSeq
<1>6. \A k \in 1..n : part[k] = full[k] \cap C
  OBVIOUS
<1>. HIDE DEF part
<1>7. Ordered(p, part)
  BY <1>1, <1>5, <1>6 DEF Ordered
<1>8. /\ Ordered(p, NonEmpty(part)) /\ KeepsOrder(NonEmpty(part), part)
      /\ UNION Range(NonEmpty(part)) = UNION Range(part)
  BY <1>7, SiftedOrdered
<1>. DEFINE ws == NonEmpty(part)
<1>. HIDE DEF ws
<1>9. KeepsOrder(ws, full)
  <2>. SUFFICES ASSUME NEW a \in DOMAIN ws, NEW b \in DOMAIN ws, a < b, NEW x \in ws[a], NEW y \in ws[b]
                PROVE  \E i, j \in DOMAIN full : i < j /\ x \in full[i] /\ y \in full[j]
    BY DEF KeepsOrder
  <2>1. KeepsOrder(ws, part)
    BY <1>8 DEF ws
  <2>2. PICK i \in DOMAIN part, j \in DOMAIN part : i < j /\ x \in part[i] /\ y \in part[j]
    BY <2>1 DEF KeepsOrder
  <2>. QED
    BY <1>1, <1>5, <1>6, <2>2
<1>10. UNION Range(part) = (UNION Range(full)) \cap C
  <2>1. UNION Range(part) = {x \in Task : \E k \in 1..n : x \in part[k]}
    BY <1>4, <1>5 DEF Range
  <2>2. UNION Range(full) = {x \in Task : \E k \in 1..n : x \in full[k]}
    <3>1. \A k \in 1..n : full[k] \in SUBSET Task
      BY <1>1, ElementOfSeq DEF n
    <3>. QED
      BY <1>1, <3>1 DEF Range
  <2>3. \A x \in Task : (\E k \in 1..n : x \in part[k]) <=> (\E k \in 1..n : x \in full[k]) /\ x \in C
    BY <1>6
  <2>. QED
    BY <2>1, <2>2, <2>3
<1>11. Builds(p) => UNION Range(ws) = Task \cap C
  <2>. SUFFICES ASSUME Builds(p) PROVE UNION Range(ws) = Task \cap C
    OBVIOUS
  <2>1. UNION Range(full) = Task
    BY <1>2
  <2>2. UNION Range(ws) = UNION Range(part)
    BY <1>8 DEF ws
  <2>. QED
    BY <1>10, <2>1, <2>2
<1>12. Ordered(p, ws) /\ RepairExecutionWaves(p, from) = ws
  BY <1>3, <1>8 DEF ws
<1>. QED
  BY <1>9, <1>11, <1>12 DEF full, C

\* An order of the CLI is a plan of waves of one task each.
LEMMA OrdersOrdered ==
  ASSUME NEW p, NEW order \in ExecutionOrders(p)
  PROVE  /\ Ordered(p, [k \in DOMAIN order |-> {order[k]}])
         /\ UNION Range([k \in DOMAIN order |-> {order[k]}]) = Task
<1>. DEFINE n == Cardinality(Task)
            ws == [k \in DOMAIN order |-> {order[k]}]
<1>1. n \in Nat
  BY TasksFinite
<1>2. /\ order \in [1..n -> Task] /\ DOMAIN order = 1..n
      /\ \A i, j \in 1..n : i < j => order[i] # order[j]
      /\ \A i, j \in 1..n : i <= j => order[j] \notin Canonical(p, order[i])
  <2>1. /\ order \in [1..n -> Task] /\ DOMAIN order = 1..n
        /\ \A i, j \in DOMAIN order :
              i <= j => /\ order[i] \notin Canonical(p, order[i])
                        /\ order[j] \notin Canonical(p, order[i])
                        /\ (i < j => order[i] # order[j])
    BY DEF ExecutionOrders
  <2>2. \A i, j \in 1..n : i < j => i <= j
    BY <1>1
  <2>. HIDE DEF n
  <2>. QED
    BY <2>1, <2>2
<1>8. \A t \in Task : \E k \in 1..n : order[k] = t
  <2>1. Cardinality(Task) = n
    OBVIOUS
  <2>. HIDE DEF n
  <2>3. ASSUME NEW i \in 1..n, NEW j \in 1..n, order[i] = order[j] PROVE i = j
    <3>1. ~(i < j)
      BY <1>2, <2>3
    <3>2. ~(j < i)
      BY <1>2, <2>3
    <3>. QED
      BY <3>1, <3>2
  <2>. QED
    BY <1>1, <1>2, <2>1, <2>3, TasksFinite, Onto
<1>. HIDE DEF n
<1>3. ws \in [1..n -> SUBSET Task]
  BY <1>2
<1>4. ws \in Seq(SUBSET Task) /\ DOMAIN ws = 1..n
  BY <1>1, <1>3, FunctionIsSeq
<1>5. \A k \in 1..n : ws[k] = {order[k]}
  BY <1>2
<1>. HIDE DEF ws
<1>6. ASSUME NEW i \in 1..n, NEW j \in 1..n, i # j PROVE ws[i] \cap ws[j] = {}
  <2>1. i < j \/ j < i
    BY <1>6
  <2>2. order[i] # order[j]
    <3>1. CASE i < j
      BY <1>2, <3>1
    <3>2. CASE j < i
      BY <1>2, <3>2
    <3>. QED
      BY <2>1, <3>1, <3>2
  <2>. QED
    BY <1>5, <2>2
<1>7. ASSUME NEW i \in 1..n, NEW j \in 1..n, NEW t \in ws[i], NEW d \in ws[j], d \in Canonical(p, t)
      PROVE  j < i
  <2>1. t = order[i] /\ d = order[j]
    BY <1>5
  <2>2. ~(i <= j)
    <3>1. i <= j => order[j] \notin Canonical(p, order[i])
      BY <1>2
    <3>. QED
      BY <1>7, <2>1, <3>1
  <2>. QED
    BY <2>2
<1>9. UNION Range(ws) = Task
  BY <1>2, <1>4, <1>5, <1>8 DEF Range
<1>. QED
  BY <1>4, <1>6, <1>7, <1>9 DEF Ordered, ws

\* What a repair selects: the chosen task and, with a task, those that name it.
LEMMA SelectedIs ==
  ASSUME NEW p, NEW from \in Task
  PROVE  /\ Selected(p, from) \in SUBSET Task
         /\ from \in Selected(p, from)
         /\ NamedBy(p, Selected(p, from)) \subseteq Selected(p, from)
<1>. DEFINE n == Cardinality(Task)
            D == SUBSET Task
            More(S) == NamedBy(p, S)
            step == [q \in (1..n) \X D |-> q[2] \cup More(q[2])]
<1>1. n \in Nat
  BY TasksFinite
<1>0. \A S \in D : More(S) \in D
  BY DEF NamedBy
<1>. HIDE DEF n, More
<1>2. step \in [(1..n) \X D -> D] /\ {from} \in D
  BY <1>0
<1>3. PICK g \in [0..n -> D] : IsRecursion(g, n, {from}, step)
  <2>. HIDE DEF step, D
  <2>. QED
    BY <1>1, <1>2, RecursionExists
<1>4. ASSUME NEW k \in 0..n, k # 0 PROVE step[<<k, g[k - 1]>>] = g[k - 1] \cup More(g[k - 1])
  <2>1. k \in 1..n /\ k - 1 \in 0..n
    BY <1>1, <1>4
  <2>2. g[k - 1] \in D
    BY <2>1
  <2>3. <<k, g[k - 1]>> \in (1..n) \X D
    BY <2>1, <2>2
  <2>. QED
    BY <2>3
<1>5. g = [k \in 0..n |-> IF k = 0 THEN {from} ELSE g[k - 1] \cup More(g[k - 1])]
  <2>. HIDE DEF step, D
  <2>. QED
    BY <1>3, <1>4 DEF IsRecursion
<1>. DEFINE h == CHOOSE f : f = [k \in 0..n |-> IF k = 0 THEN {from}
                                       ELSE f[k - 1] \cup More(f[k - 1])]
<1>6. Selected(p, from) = h[n]
  BY DEF Selected, n, More, NamedBy
<1>7. h = [k \in 0..n |-> IF k = 0 THEN {from} ELSE h[k - 1] \cup More(h[k - 1])]
  BY <1>5, Zenon
<1>. HIDE DEF h
\* A round adds a task or there is nothing to add.
<1>. DEFINE Closed(S) == More(S) \subseteq S
            Right(k) == /\ h[k] \in D /\ from \in h[k]
                        /\ Closed(h[k]) \/ Cardinality(h[k]) >= k + 1
            C == {k \in 0..n : Right(k)}
<1>8. 0 \in C
  <2>1. h[0] = {from} /\ 0 \in 0..n
    BY <1>1, <1>7
  <2>2. Cardinality(h[0]) >= 0 + 1
    <3>1. Cardinality({from}) = 1
      BY ONLY FS_Singleton
    <3>. QED
      BY <2>1, <3>1
  <2>3. Right(0)
    BY <2>1, <2>2
  <2>. HIDE DEF Right
  <2>. QED
    BY <2>1, <2>3
<1>9. ASSUME NEW k \in 1..n, k - 1 \in C PROVE k \in C
  <2>1. k \in 0..n /\ k # 0 /\ k - 1 \in 0..n
    BY <1>1
  <2>2. h[k] = h[k - 1] \cup More(h[k - 1])
    BY <1>7, <2>1
  <2>3. h[k - 1] \in D /\ from \in h[k - 1]
    BY <1>9
  <2>4. h[k] \in D /\ from \in h[k]
    BY <1>0, <2>2, <2>3
  <2>5. CASE Closed(h[k - 1])
    <3>1. h[k] = h[k - 1]
      BY <2>2, <2>5
    <3>. QED
      BY <2>1, <2>4, <2>5, <3>1
  <2>6. CASE ~ Closed(h[k - 1])
    <3>. DEFINE was == h[k - 1]
                is == h[k]
    <3>1. was \in SUBSET is /\ was # is
      BY <2>2, <2>6
    <3>2. Cardinality(was) >= (k - 1) + 1
      BY <1>9, <2>6
    <3>3. IsFiniteSet(is)
      BY <2>4, TasksFinite, FS_Subset
    <3>. HIDE DEF was, is
    <3>4. Cardinality(was) <= Cardinality(is) /\ Cardinality(was) # Cardinality(is)
      BY <3>1, <3>3, FS_Subset
    <3>5. Cardinality(was) \in Nat /\ Cardinality(is) \in Nat
      BY <3>1, <3>3, FS_Subset, FS_CardinalityType
    <3>6. Cardinality(is) >= k + 1
      BY <2>1, <3>2, <3>4, <3>5
    <3>. QED
      BY <2>1, <2>4, <3>6 DEF is
  <2>. QED
    BY <2>5, <2>6
<1>10. 0..n \subseteq C
  <2>. HIDE DEF C
  <2>. QED
    BY <1>1, <1>8, <1>9, UptoInduct
<1>11. Right(n)
  BY <1>1, <1>10
<1>12. Closed(h[n])
  <2>1. Cardinality(h[n]) <= n /\ Cardinality(h[n]) \in Nat
    BY <1>11, TasksFinite, FS_Subset, FS_CardinalityType DEF n
  <2>. QED
    BY <1>1, <1>11, <2>1
<1>. QED
  BY <1>6, <1>11, <1>12 DEF More

(*****************************************************************************)
(* A run and its repairs                                                     *)
(*****************************************************************************)

Phase == {"waiting", "queued", "executing", "late", "backoff", "returned", "collected"}
Work == [at : Phase, tries : Nat, threads : {0, 1}, good : BOOLEAN]

\* A task has a plugin thread exactly while an attempt is being executed or
\* is late: no attempt is begun beside another.
Fits(w) == w \in Work /\ (w.threads = 1 <=> w.at \in {"executing", "late"})
AttemptInv == work \in [Task -> Work] /\ \A t \in Task : Fits(work[t])

\* A task that waits, or is submitted, has no thread.
LEMMA IdleFits == Fits(Idle) /\ Fits([Idle EXCEPT !.at = "queued"])
<1>1. /\ Idle \in Work /\ Idle.threads = 0 /\ Idle.at = "waiting"
      /\ [Idle EXCEPT !.at = "queued"] \in Work
      /\ [Idle EXCEPT !.at = "queued"].threads = 0 /\ [Idle EXCEPT !.at = "queued"].at = "queued"
  BY DEF Idle, Work, Phase
<1>. QED
  BY <1>1 DEF Fits

\* One task's step is enough to look at.
LEMMA OneTask ==
  ASSUME AttemptInv, NEW t \in Task, NEW w, Fits(w), work' = [work EXCEPT ![t] = w]
  PROVE  AttemptInv'
BY DEF AttemptInv, Fits

\* Several fields of a record are updated one after the other.
LEMMA PhaseAndOutcome ==
  ASSUME NEW w \in Work, NEW a \in Phase, NEW g \in BOOLEAN
  PROVE  /\ [w EXCEPT !.at = a, !.good = g] \in Work
         /\ [w EXCEPT !.at = a, !.good = g].at = a
         /\ [w EXCEPT !.at = a, !.good = g].threads = w.threads
<1>1. [w EXCEPT !.at = a, !.good = g] = [[w EXCEPT !.at = a] EXCEPT !.good = g]
  OBVIOUS
<1>2. [w EXCEPT !.at = a] \in Work /\ [w EXCEPT !.at = a].at = a /\ [w EXCEPT !.at = a].threads = w.threads
  BY DEF Work
<1>. DEFINE x == [w EXCEPT !.at = a]
<1>. HIDE DEF x
<1>3. x \in Work => /\ [x EXCEPT !.good = g] \in Work /\ [x EXCEPT !.good = g].at = x.at
                    /\ [x EXCEPT !.good = g].threads = x.threads
  BY DEF Work
<1>. QED
  BY <1>1, <1>2, <1>3 DEF x

\* An attempt that begins counts one try and one thread.
LEMMA PhaseAndCounts ==
  ASSUME NEW w \in Work, NEW a \in Phase, w.threads = 0
  PROVE  /\ [w EXCEPT !.at = a, !.tries = @ + 1, !.threads = @ + 1] \in Work
         /\ [w EXCEPT !.at = a, !.tries = @ + 1, !.threads = @ + 1].at = a
         /\ [w EXCEPT !.at = a, !.tries = @ + 1, !.threads = @ + 1].threads = 1
<1>. DEFINE x == [w EXCEPT !.at = a]
            y == [x EXCEPT !.tries = x.tries + 1]
            z == [y EXCEPT !.threads = y.threads + 1]
<1>1. [w EXCEPT !.at = a, !.tries = @ + 1, !.threads = @ + 1] = z
  OBVIOUS
<1>2. x \in Work /\ x.at = a /\ x.threads = 0
  BY DEF Work
<1>. HIDE DEF x
<1>3. y \in Work /\ y.at = a /\ y.threads = 0
  BY <1>2 DEF Work
<1>. HIDE DEF y
<1>4. z \in Work /\ z.at = a /\ z.threads = 1
  BY <1>3 DEF Work
<1>. QED
  BY <1>1, <1>4

\* A task whose attempt has failed has no thread, retried or not.
LEMMA FailureFits ==
  ASSUME NEW w \in Work, NEW t \in Task, w.threads = 0
  PROVE  Fits(AfterFailure(w, t))
<1>1. [w EXCEPT !.at = "backoff"] \in Work /\ [w EXCEPT !.at = "backoff"].threads = 0
      /\ [w EXCEPT !.at = "backoff"].at = "backoff"
  BY DEF Work, Phase
<1>2. [w EXCEPT !.at = "returned", !.good = FALSE] \in Work
      /\ [w EXCEPT !.at = "returned", !.good = FALSE].threads = 0
      /\ [w EXCEPT !.at = "returned", !.good = FALSE].at = "returned"
  BY PhaseAndOutcome DEF Phase
<1>. QED
  BY <1>1, <1>2 DEF AfterFailure, Fits

\* No step of a run gives a task a second thread.
LEMMA AttemptStep == ASSUME AttemptInv, ExecutorNext PROVE AttemptInv'
<1>. DEFINE w(t) == work[t]
<1>0. \A t \in Task : w(t) \in Work /\ (w(t).threads = 1 <=> w(t).at \in {"executing", "late"})
  BY DEF AttemptInv, Fits
<1>1. CASE PlanRun \/ EndInFailure \/ EndInSuccess
  BY <1>1 DEF PlanRun, EndInFailure, EndInSuccess, AttemptInv
<1>2. CASE SubmitWave
  BY <1>2, IdleFits DEF SubmitWave, AttemptInv, Fits
<1>3. CASE Repair
  BY <1>3, IdleFits DEF Repair, AttemptInv, Fits
<1>4. ASSUME NEW t \in Task, StartAttempt(t) \/ RetryAttempt(t) PROVE AttemptInv'
  <2>. DEFINE x == [w(t) EXCEPT !.at = "executing", !.tries = @ + 1, !.threads = @ + 1]
  <2>1. w(t).threads = 0 /\ RunsAttempt(t)
    BY <1>0, <1>4 DEF StartAttempt, RetryAttempt, Work
  <2>2. Fits(x)
    BY <1>0, <2>1, PhaseAndCounts DEF Phase, Fits
  <2>3. work' = [work EXCEPT ![t] = x]
    BY <2>1 DEF RunsAttempt
  <2>. HIDE DEF x
  <2>. QED
    BY <2>2, <2>3, OneTask
<1>5. ASSUME NEW t \in Task, PluginEnds(t) PROVE AttemptInv'
  <2>. DEFINE x == [w(t) EXCEPT !.threads = @ - 1]
  <2>1. x \in Work /\ x.threads = 0
    BY <1>0, <1>5 DEF PluginEnds, Work
  <2>. DEFINE y == [x EXCEPT !.at = "returned", !.good = TRUE]
  <2>2. \/ work' = [work EXCEPT ![t] = y]
        \/ work' = [work EXCEPT ![t] = AfterFailure(x, t)]
    BY <1>5 DEF PluginEnds
  <2>. HIDE DEF x
  <2>3. y \in Work /\ y.threads = 0 /\ y.at = "returned"
    BY <2>1, PhaseAndOutcome DEF Phase
  <2>. HIDE DEF y
  <2>4. CASE work' = [work EXCEPT ![t] = y]
    <3>1. Fits(y)
      BY <2>3 DEF Fits
    <3>. QED
      BY <2>4, <3>1, OneTask
  <2>5. CASE work' = [work EXCEPT ![t] = AfterFailure(x, t)]
    <3>1. Fits(AfterFailure(x, t))
      BY <2>1, FailureFits
    <3>. QED
      BY <2>5, <3>1, OneTask
  <2>. QED
    BY <2>2, <2>4, <2>5
<1>6. ASSUME NEW t \in Task, TimeOut(t) PROVE AttemptInv'
  <2>. DEFINE x == [w(t) EXCEPT !.at = "late"]
  <2>1. Fits(x)
    BY <1>0, <1>6 DEF TimeOut, Fits, Work, Phase
  <2>2. work' = [work EXCEPT ![t] = x]
    BY <1>6 DEF TimeOut
  <2>. QED
    BY <2>1, <2>2, OneTask
<1>7. ASSUME NEW t \in Task, LateEnds(t) PROVE AttemptInv'
  <2>. DEFINE x == [w(t) EXCEPT !.threads = @ - 1]
  <2>1. x \in Work /\ x.threads = 0
    BY <1>0, <1>7 DEF LateEnds, Work
  <2>2. work' = [work EXCEPT ![t] = AfterFailure(x, t)]
    BY <1>7 DEF LateEnds
  <2>. HIDE DEF x
  <2>3. Fits(AfterFailure(x, t))
    BY <2>1, FailureFits
  <2>. QED
    BY <2>2, <2>3, OneTask
<1>8. ASSUME NEW t \in Task, RaiseEarly(t) PROVE AttemptInv'
  <2>. DEFINE x == [w(t) EXCEPT !.at = "returned", !.good = FALSE]
  <2>1. w(t).threads = 0 /\ work' = [work EXCEPT ![t] = x]
    BY <1>0, <1>8 DEF RaiseEarly, Work
  <2>2. x \in Work /\ x.threads = 0 /\ x.at = "returned"
    BY <1>0, <2>1, PhaseAndOutcome DEF Phase
  <2>. HIDE DEF x
  <2>3. Fits(x)
    BY <2>2 DEF Fits
  <2>. QED
    BY <2>1, <2>3, OneTask
<1>9. ASSUME NEW t \in Task, Collect(t) PROVE AttemptInv'
  <2>. DEFINE x == [w(t) EXCEPT !.at = "collected"]
  <2>1. Fits(x)
    BY <1>0, <1>9 DEF Collect, Fits, Work, Phase
  <2>2. work' = [work EXCEPT ![t] = x]
    BY <1>9 DEF Collect
  <2>. QED
    BY <2>1, <2>2, OneTask
<1>10. ASSUME NEW t \in Task, RaiseOut(t) PROVE AttemptInv'
  BY <1>10 DEF RaiseOut, AttemptInv
<1>. QED
  BY <1>1, <1>2, <1>3, <1>4, <1>5, <1>6, <1>7, <1>8, <1>9, <1>10
     DEF ExecutorNext, ExecutorStep, TaskStep

Report == [task : Task, status : {"success", "failed", "skipped"}]
RunTypes ==
  /\ pipe \in Pipelines /\ mode \in {"parallel", "sequential"} /\ origin \in Task \cup {NoTask}
  /\ wave \in 0..Len(waves)
  /\ given \in [Task -> SUBSET Task] /\ results \in [Task -> {"none", "ok", "bad"}]
  /\ reports \in Seq(Report)
  /\ verdict \in {"open", "completed", "failed", "refused", "raised"}

\* The waves of a sequential run have one task each.
OneByOne(rounds) == \A k \in DOMAIN rounds : \A t, u \in rounds[k] : t = u

\* What a run has to execute, and in which order of waves.
Scope == IF origin = NoTask THEN Task ELSE Task \cap Selected(pipe, origin)
PlanInv ==
  /\ Ordered(pipe, waves)
  /\ mode = "parallel" => KeepsOrder(waves, ExecutionWaves(pipe))
  /\ mode = "sequential" => OneByOne(waves)
  /\ waves # <<>> => InWaves = Scope
  /\ origin # NoTask => mode = "parallel"

\* Waves are entered one after the other, each when the one before is a success.
Entered(k, t) == k \in 1..wave /\ t \in waves[k]
ProgressInv ==
  /\ \A t \in Task : work[t].at # "waiting" <=> \E k \in DOMAIN waves : Entered(k, t)
  /\ \A t \in Task : results[t] # "none" <=> work[t].at = "collected"
  /\ \A k \in 1..wave : k < wave => \A t \in waves[k] : results[t] = "ok"

Named(t) == {r.task : r \in {q \in pipe.deps[t] : q.by = "name"}}
GivenInv == \A k \in 1..wave : \A t \in waves[k] : given[t] = Named(t) \cap InWaves

StatusOf(r) == IF r = "ok" THEN "success" ELSE IF r = "bad" THEN "failed" ELSE "skipped"
ReportsInv ==
  /\ \A i, j \in DOMAIN reports : reports[i].task = reports[j].task => i = j
  /\ \A i \in DOMAIN reports : /\ reports[i].task \in InWaves
                               /\ reports[i].status = StatusOf(results[reports[i].task])
  /\ \A t \in Task : results[t] # "none" => \E i \in DOMAIN reports : reports[i].task = t
  /\ \A i \in DOMAIN reports : reports[i].status = "skipped" => verdict = "failed" /\ mode = "parallel"
  /\ verdict = "failed" /\ mode = "parallel" =>
       \A t \in InWaves : \E i \in DOMAIN reports : reports[i].task = t

VerdictInv ==
  /\ verdict = "completed" => wave > 0 /\ wave = Len(waves) /\ \A t \in waves[wave] : results[t] = "ok"
  /\ verdict = "failed" => WaveOver /\ \E t \in waves[wave] : results[t] = "bad"
  /\ verdict = "refused" => waves = <<>>

\* A lapse a repair makes good: of a single task, one that leads the rest.
Mendable(F) == \E t \in F : F = {t} /\ LeadsTheRest(pipe, t)
BankInv ==
  (origin # NoTask /\ \A F \in lapses : Mendable(F)) =>
    \A t \in Task : t \in banked \/ t \in Selected(pipe, origin)

RunInv == /\ RunTypes /\ AttemptInv /\ PlanInv /\ ProgressInv /\ GivenInv
          /\ ReportsInv /\ VerdictInv /\ BankInv

\* Whatever times out, fails or is repaired, one task never has two attempts
\* executing at once: execute_task waits for the thread it gave up on.
THEOREM AttemptsNeverOverlap == ExecutorSpec => []AttemptsDisjoint
<1>1. ExecutorInit => AttemptInv
  BY IdleFits DEF ExecutorInit, AttemptInv, Fits
<1>2. AttemptInv /\ [ExecutorNext]_executorVars => AttemptInv'
  BY AttemptStep DEF AttemptInv, executorVars
<1>3. AttemptInv => AttemptsDisjoint
  BY DEF AttemptInv, Fits, AttemptsDisjoint, Work
<1>. QED
  BY <1>1, <1>2, <1>3, PTL DEF ExecutorSpec

\* What the plan says of the waves, one index at a time.
LEMMA WavesAre ==
  ASSUME PlanInv
  PROVE  /\ Len(waves) \in Nat /\ DOMAIN waves = 1..Len(waves)
         /\ \A k \in DOMAIN waves : waves[k] \subseteq Task
         /\ \A k \in DOMAIN waves : waves[k] \subseteq InWaves
         /\ \A t \in InWaves : t \in Task /\ \E k \in DOMAIN waves : t \in waves[k]
         /\ \A i, j \in DOMAIN waves : \A t \in Task : t \in waves[i] /\ t \in waves[j] => i = j
         /\ \A i, j \in DOMAIN waves : \A t \in waves[i], d \in waves[j] : d \in Canonical(pipe, t) => j < i
<1>1. waves \in Seq(SUBSET Task)
  BY DEF PlanInv, Ordered
<1>2. Len(waves) \in Nat /\ DOMAIN waves = 1..Len(waves)
  BY <1>1, LenProperties
<1>3. \A k \in DOMAIN waves : waves[k] \subseteq Task
  BY <1>1, <1>2, ElementOfSeq
<1>4. InWaves = UNION {waves[k] : k \in DOMAIN waves}
  BY DEF InWaves, Range
<1>5. \A i, j \in DOMAIN waves : \A t \in Task : t \in waves[i] /\ t \in waves[j] => i = j
  BY DEF PlanInv, Ordered
<1>6. \A i, j \in DOMAIN waves : \A t \in waves[i], d \in waves[j] : d \in Canonical(pipe, t) => j < i
  BY DEF PlanInv, Ordered
<1>7. \A k \in DOMAIN waves : waves[k] \subseteq InWaves
  BY <1>4
<1>8. \A t \in InWaves : t \in Task /\ \E k \in DOMAIN waves : t \in waves[k]
  BY <1>3, <1>4
<1>. QED
  BY <1>2, <1>3, <1>5, <1>6, <1>7, <1>8

\* A step of a task other than its collection moves that task alone.
LEMMA TaskMoves ==
  ASSUME AttemptInv, NEW t \in Task, TaskStep(t), ~ Collect(t)
  PROVE  /\ Executing /\ UNCHANGED <<planVars, wave, given, results, reports, verdict, lineageVars>>
         /\ work[t].at \notin {"waiting", "collected"}
         /\ \E w \in Work : /\ work' = [work EXCEPT ![t] = w]
                            /\ w.at \notin {"waiting", "queued", "collected"}
<1>. DEFINE v == work[t]
<1>0. v \in Work /\ (v.threads = 1 <=> v.at \in {"executing", "late"})
  BY DEF AttemptInv, Fits
<1>1. ASSUME StartAttempt(t) \/ RetryAttempt(t) PROVE \E w \in Work : work' = [work EXCEPT ![t] = w] /\ w.at = "executing"
  <2>. DEFINE x == [v EXCEPT !.at = "executing", !.tries = @ + 1, !.threads = @ + 1]
  <2>1. v.threads = 0 /\ RunsAttempt(t)
    BY <1>0, <1>1 DEF StartAttempt, RetryAttempt, Work
  <2>2. x \in Work /\ x.at = "executing"
    BY <1>0, <2>1, PhaseAndCounts DEF Phase
  <2>3. work' = [work EXCEPT ![t] = x]
    BY <2>1 DEF RunsAttempt
  <2>. HIDE DEF x
  <2>. QED
    BY <2>2, <2>3
<1>2. ASSUME NEW w \in Work, w.threads = 0 PROVE AfterFailure(w, t) \in Work /\ AfterFailure(w, t).at \in {"backoff", "returned"}
  <2>1. [w EXCEPT !.at = "backoff"] \in Work /\ [w EXCEPT !.at = "backoff"].at = "backoff"
    BY DEF Work, Phase
  <2>2. [w EXCEPT !.at = "returned", !.good = FALSE] \in Work
        /\ [w EXCEPT !.at = "returned", !.good = FALSE].at = "returned"
    BY PhaseAndOutcome DEF Phase
  <2>. QED
    BY <2>1, <2>2 DEF AfterFailure
<1>3. ASSUME v.at \in {"executing", "late"} PROVE [v EXCEPT !.threads = @ - 1] \in Work /\ [v EXCEPT !.threads = @ - 1].threads = 0
  BY <1>0, <1>3 DEF Work
<1>4. ASSUME PluginEnds(t) PROVE \E w \in Work : work' = [work EXCEPT ![t] = w] /\ w.at \in {"backoff", "returned"}
  <2>. DEFINE x == [v EXCEPT !.threads = @ - 1]
              y == [x EXCEPT !.at = "returned", !.good = TRUE]
  <2>1. x \in Work /\ x.threads = 0
    BY <1>3, <1>4 DEF PluginEnds
  <2>2. \/ work' = [work EXCEPT ![t] = y]
        \/ work' = [work EXCEPT ![t] = AfterFailure(x, t)]
    BY <1>4 DEF PluginEnds
  <2>. HIDE DEF x
  <2>3. y \in Work /\ y.at = "returned"
    BY <2>1, PhaseAndOutcome DEF Phase
  <2>. HIDE DEF y
  <2>4. AfterFailure(x, t) \in Work /\ AfterFailure(x, t).at \in {"backoff", "returned"}
    BY <1>2, <2>1
  <2>. QED
    BY <2>2, <2>3, <2>4
<1>5. ASSUME LateEnds(t) PROVE \E w \in Work : work' = [work EXCEPT ![t] = w] /\ w.at \in {"backoff", "returned"}
  <2>. DEFINE x == [v EXCEPT !.threads = @ - 1]
  <2>1. x \in Work /\ x.threads = 0
    BY <1>3, <1>5 DEF LateEnds
  <2>2. work' = [work EXCEPT ![t] = AfterFailure(x, t)]
    BY <1>5 DEF LateEnds
  <2>. HIDE DEF x
  <2>4. AfterFailure(x, t) \in Work /\ AfterFailure(x, t).at \in {"backoff", "returned"}
    BY <1>2, <2>1
  <2>. QED
    BY <2>2, <2>4
<1>6. ASSUME TimeOut(t) PROVE \E w \in Work : work' = [work EXCEPT ![t] = w] /\ w.at = "late"
  <2>. DEFINE x == [v EXCEPT !.at = "late"]
  <2>1. x \in Work /\ x.at = "late"
    BY <1>0 DEF Work, Phase
  <2>2. work' = [work EXCEPT ![t] = x]
    BY <1>6 DEF TimeOut
  <2>. HIDE DEF x
  <2>. QED
    BY <2>1, <2>2
<1>7. ASSUME RaiseEarly(t) PROVE \E w \in Work : work' = [work EXCEPT ![t] = w] /\ w.at = "returned"
  <2>. DEFINE x == [v EXCEPT !.at = "returned", !.good = FALSE]
  <2>1. x \in Work /\ x.at = "returned"
    BY <1>0, PhaseAndOutcome DEF Phase
  <2>2. work' = [work EXCEPT ![t] = x]
    BY <1>7 DEF RaiseEarly
  <2>. HIDE DEF x
  <2>. QED
    BY <2>1, <2>2
<1>8. /\ Executing /\ UNCHANGED <<planVars, wave, given, results, reports, verdict, lineageVars>>
      /\ v.at \in {"queued", "executing", "late", "backoff"}
  BY DEF TaskStep, StartAttempt, RetryAttempt, PluginEnds, TimeOut, LateEnds, RaiseEarly
<1>9. \E w \in Work : work' = [work EXCEPT ![t] = w] /\ w.at \notin {"waiting", "queued", "collected"}
  BY <1>1, <1>4, <1>5, <1>6, <1>7 DEF TaskStep
<1>. QED
  BY <1>8, <1>9

\* A task's own steps keep the invariant.
LEMMA TaskRuns ==
  ASSUME RunInv, NEW t \in Task, TaskStep(t), ~ Collect(t)
  PROVE  RunInv'
<1>1. AttemptInv'
  BY AttemptStep DEF RunInv, ExecutorNext, ExecutorStep
<1>2. /\ UNCHANGED <<planVars, wave, given, results, reports, verdict, lineageVars>>
      /\ work[t].at \notin {"waiting", "collected"}
  BY TaskMoves DEF RunInv
<1>3. PICK w \in Work : work' = [work EXCEPT ![t] = w] /\ w.at \notin {"waiting", "queued", "collected"}
  BY TaskMoves DEF RunInv
<1>4. \A u \in Task : /\ work'[u].at = "waiting" <=> work[u].at = "waiting"
                      /\ work'[u].at = "collected" <=> work[u].at = "collected"
  BY <1>2, <1>3 DEF RunInv, AttemptInv
<1>5. RunTypes' /\ PlanInv' /\ GivenInv' /\ ReportsInv' /\ VerdictInv' /\ BankInv'
  <2>. USE <1>2 DEF planVars, lineageVars
  <2>1. RunTypes'
    BY DEF RunInv, RunTypes
  <2>2. PlanInv'
    BY DEF RunInv, PlanInv, InWaves, Scope
  <2>3. GivenInv'
    BY DEF RunInv, GivenInv, Named, InWaves
  <2>4. ReportsInv'
    BY DEF RunInv, ReportsInv, InWaves
  <2>5. VerdictInv'
    BY DEF RunInv, VerdictInv, WaveOver
  <2>6. BankInv'
    BY DEF RunInv, BankInv, Mendable
  <2>. QED
    BY <2>1, <2>2, <2>3, <2>4, <2>5, <2>6
<1>6. ProgressInv'
  BY <1>2, <1>4 DEF RunInv, ProgressInv, Entered, planVars
<1>. QED
  BY <1>1, <1>5, <1>6 DEF RunInv

\* Planning: the waves are those of the pipeline, of an order or of a repair.
LEMMA RunPlans == ASSUME RunInv, PlanRun PROVE RunInv'
<1>. USE DEF RunInv
<1>0. /\ verdict = "open" /\ wave = 0 /\ waves = <<>>
      /\ UNCHANGED <<pipe, mode, origin, wave, work, given, results, reports, lineageVars>>
  BY DEF PlanRun
<1>1. AttemptInv'
  BY AttemptStep DEF ExecutorNext, ExecutorStep
<1>2. reports = <<>>
  <2>1. \A i \in DOMAIN reports : FALSE
    BY <1>0, WavesAre DEF ReportsInv
  <2>2. reports \in Seq(Report)
    BY DEF RunTypes
  <2>3. Len(reports) \in Nat /\ DOMAIN reports = 1..Len(reports)
    BY <2>2, LenProperties
  <2>4. Len(reports) = 0
    BY <2>1, <2>3
  <2>. QED
    BY <2>2, <2>4, EmptySeq
<1>3. CASE ~ Builds(pipe)
  <2>1. verdict' = "refused" /\ UNCHANGED waves
    BY <1>3 DEF PlanRun
  <2>2. RunTypes' /\ PlanInv' /\ ProgressInv' /\ GivenInv'
    BY <1>0, <2>1 DEF RunTypes, PlanInv, ProgressInv, GivenInv, Entered, Named, Scope, InWaves, lineageVars
  <2>3. ReportsInv' /\ VerdictInv' /\ BankInv'
    BY <1>0, <1>2, <2>1 DEF ReportsInv, VerdictInv, BankInv, Mendable, InWaves, lineageVars
  <2>. QED
    BY <1>1, <2>2, <2>3
<1>4. CASE Builds(pipe)
  <2>1. /\ UNCHANGED verdict
        /\ \/ /\ mode = "parallel"
              /\ waves' = IF origin = NoTask THEN ExecutionWaves(pipe) ELSE RepairExecutionWaves(pipe, origin)
           \/ /\ mode = "sequential"
              /\ \E order \in ExecutionOrders(pipe) : waves' = [k \in DOMAIN order |-> {order[k]}]
    BY <1>4 DEF PlanRun
  <2>2. PlanInv'
    <3>1. CASE mode = "parallel" /\ origin = NoTask
      <4>1. waves' = ExecutionWaves(pipe)
        BY <2>1, <3>1
      <4>2. Ordered(pipe, waves') /\ UNION Range(waves') = Task
        BY <1>4, <4>1, WavesOrdered
      <4>3. KeepsOrder(waves', waves')
        BY DEF KeepsOrder
      <4>. QED
        BY <1>0, <3>1, <4>1, <4>2, <4>3 DEF PlanInv, InWaves, Scope
    <3>2. CASE mode = "parallel" /\ origin # NoTask
      <4>1. waves' = RepairExecutionWaves(pipe, origin)
        BY <2>1, <3>2
      <4>2. /\ Ordered(pipe, waves') /\ KeepsOrder(waves', ExecutionWaves(pipe))
            /\ UNION Range(waves') = Task \cap Selected(pipe, origin)
        BY <1>4, <4>1, RepairOrdered
      <4>. QED
        BY <1>0, <3>2, <4>1, <4>2 DEF PlanInv, InWaves, Scope
    <3>3. CASE mode = "sequential"
      <4>1. PICK order \in ExecutionOrders(pipe) : waves' = [k \in DOMAIN order |-> {order[k]}]
        BY <2>1, <3>3
      <4>2. Ordered(pipe, waves')
        BY <4>1, OrdersOrdered
      <4>3. UNION Range(waves') = Task
        BY <4>1, OrdersOrdered
      <4>4. origin = NoTask
        BY <3>3 DEF PlanInv
      <4>. QED
        <5>1. OneByOne(waves')
          BY <4>1 DEF OneByOne
        <5>. QED
          BY <1>0, <3>3, <4>2, <4>3, <4>4, <5>1 DEF PlanInv, InWaves, Scope
    <3>. QED
      BY <3>1, <3>2, <3>3 DEF RunTypes
  <2>3. Len(waves') \in Nat
    BY <2>2, LenProperties DEF PlanInv, Ordered
  <2>4. RunTypes'
    BY <1>0, <2>1, <2>3 DEF RunTypes
  <2>5. ProgressInv' /\ GivenInv'
    BY <1>0 DEF ProgressInv, GivenInv, Entered
  <2>6. ReportsInv' /\ VerdictInv' /\ BankInv'
    <3>1. \A t \in Task : results[t] = "none"
      BY <1>0, <1>2 DEF ReportsInv
    <3>. QED
      BY <1>0, <1>2, <2>1, <3>1 DEF ReportsInv, VerdictInv, BankInv, Mendable, InWaves, lineageVars
  <2>. QED
    BY <1>1, <2>2, <2>4, <2>5, <2>6
<1>. QED
  BY <1>3, <1>4

\* A wave is entered when the one before is a success, and each of its tasks
\* is given what it names of the tasks that ran.
LEMMA WaveSubmitted == ASSUME RunInv, SubmitWave PROVE RunInv'
<1>. USE DEF RunInv
<1>0. /\ verdict = "open" /\ waves # <<>> /\ wave < Len(waves)
      /\ wave > 0 => \A t \in waves[wave] : results[t] # "none"
      /\ \A t \in InWaves : results[t] # "bad"
      /\ wave' = wave + 1
      /\ work' = [t \in Task |-> IF t \in waves[wave + 1] THEN [Idle EXCEPT !.at = "queued"] ELSE work[t]]
      /\ given' = [t \in Task |-> IF t \in waves[wave + 1] THEN CollectDependencyData(t) ELSE given[t]]
      /\ UNCHANGED <<pipe, mode, origin, waves, results, reports, verdict, lineageVars>>
  BY DEF SubmitWave, planVars
<1>1. AttemptInv'
  BY AttemptStep DEF ExecutorNext, ExecutorStep
<1>2. /\ Len(waves) \in Nat /\ DOMAIN waves = 1..Len(waves)
      /\ wave \in 0..Len(waves) /\ wave + 1 \in DOMAIN waves
      /\ \A k \in DOMAIN waves : waves[k] \subseteq Task /\ waves[k] \subseteq InWaves
      /\ \A t \in InWaves : t \in Task /\ \E k \in DOMAIN waves : t \in waves[k]
      /\ \A i, j \in DOMAIN waves : \A t \in Task : t \in waves[i] /\ t \in waves[j] => i = j
      /\ \A i, j \in DOMAIN waves : \A t \in waves[i], d \in waves[j] : d \in Canonical(pipe, t) => j < i
  BY <1>0, WavesAre DEF RunTypes
<1>3. 1..wave' = 1..wave \cup {wave + 1} /\ 1..wave \subseteq DOMAIN waves /\ wave + 1 \notin 1..wave
  BY <1>0, <1>2
<1>4. \A k \in 1..wave : \A t \in waves[k] : results[t] = "ok"
  <2>1. \A k \in 1..wave : k < wave \/ k = wave
    BY <1>2
  <2>2. \A t \in waves[wave] : wave > 0 => results[t] = "ok"
    <3>1. wave > 0 => wave \in DOMAIN waves
      BY <1>2
    <3>. QED
      BY <1>0, <1>2, <3>1 DEF RunTypes
  <2>. QED
    BY <2>1, <2>2 DEF ProgressInv
<1>5. ProgressInv'
  <2>1. ASSUME NEW t \in Task PROVE work'[t].at # "waiting" <=> \E k \in DOMAIN waves : k \in 1..wave' /\ t \in waves[k]
    <3>1. CASE t \in waves[wave + 1]
      <4>1. work'[t].at = "queued"
        BY <1>0, <3>1, IdleFits DEF Idle
      <4>. QED
        BY <1>2, <1>3, <3>1, <4>1
    <3>2. CASE t \notin waves[wave + 1]
      <4>1. work'[t] = work[t]
        BY <1>0, <3>2
      <4>. QED
        BY <1>3, <3>2, <4>1 DEF ProgressInv, Entered
    <3>. QED
      BY <3>1, <3>2
  <2>2. ASSUME NEW t \in Task PROVE results[t] # "none" <=> work'[t].at = "collected"
    <3>1. CASE t \in waves[wave + 1]
      <4>1. work'[t].at = "queued"
        BY <1>0, <3>1, IdleFits DEF Idle
      <4>2. work[t].at = "waiting"
        BY <1>2, <1>3, <3>1 DEF ProgressInv, Entered
      <4>. QED
        BY <4>1, <4>2 DEF ProgressInv
    <3>2. CASE t \notin waves[wave + 1]
      <4>1. work'[t] = work[t]
        BY <1>0, <3>2
      <4>. QED
        BY <4>1 DEF ProgressInv
    <3>. QED
      BY <3>1, <3>2
  <2>3. \A k \in 1..wave' : k < wave' => k \in 1..wave
    BY <1>0, <1>2
  <2>. QED
    BY <1>0, <1>4, <2>1, <2>2, <2>3 DEF ProgressInv, Entered
<1>6. ASSUME NEW t \in waves[wave + 1] PROVE CollectDependencyData(t) = Named(t) \cap InWaves
  <2>1. t \in Task /\ pipe \in Pipeline
    BY <1>2, ExecutorAssumption DEF RunTypes
  <2>2. \A q \in pipe.deps[t] : q.task \in Task /\ q.task \in Canonical(pipe, t)
    BY <2>1 DEF Pipeline, Ref, Canonical
  <2>3. ASSUME NEW d \in Task, d \in Canonical(pipe, t), d \in InWaves PROVE results[d] # "none"
    <3>1. PICK j \in DOMAIN waves : d \in waves[j]
      BY <1>2, <2>3
    <3>2. j < wave + 1
      BY <1>2, <2>3, <3>1
    <3>3. j \in 1..wave
      BY <1>2, <3>2
    <3>. QED
      BY <1>4, <3>1, <3>3
  <2>4. ASSUME NEW d \in Task, results[d] # "none" PROVE d \in InWaves
    <3>1. work[d].at # "waiting"
      BY <2>4 DEF ProgressInv
    <3>. QED
      BY <1>2, <3>1 DEF ProgressInv, Entered
  <2>5. \A q \in pipe.deps[t] : results[q.task] # "none" <=> q.task \in InWaves
    BY <2>2, <2>3, <2>4
  <2>. QED
    BY <2>5 DEF CollectDependencyData, Named
<1>7. GivenInv'
  <2>1. ASSUME NEW k \in 1..wave, NEW t \in waves[k] PROVE given'[t] = Named(t) \cap InWaves
    <3>1. t \in Task /\ t \notin waves[wave + 1]
      BY <1>2, <1>3
    <3>. QED
      BY <1>0, <3>1 DEF GivenInv
  <2>2. ASSUME NEW t \in waves[wave + 1] PROVE given'[t] = Named(t) \cap InWaves
    BY <1>0, <1>2, <1>6
  <2>. QED
    BY <1>0, <1>3, <2>1, <2>2 DEF GivenInv, Named, InWaves
<1>8. RunTypes'
  <2>1. given' \in [Task -> SUBSET Task]
    <3>1. \A t \in waves[wave + 1] : CollectDependencyData(t) \subseteq Task
      BY <1>2, <1>6
    <3>. QED
      BY <1>0, <3>1 DEF RunTypes
  <2>. QED
    BY <1>0, <1>2, <2>1 DEF RunTypes
<1>9. PlanInv' /\ ReportsInv' /\ VerdictInv' /\ BankInv'
  BY <1>0 DEF PlanInv, ReportsInv, VerdictInv, BankInv, Mendable, InWaves, Scope, lineageVars
<1>. QED
  BY <1>1, <1>5, <1>7, <1>8, <1>9

\* A result is written once, for a task that was executed, and reported.
LEMMA Collected ==
  ASSUME RunInv, NEW t \in Task, Collect(t)
  PROVE  RunInv'
<1>. USE DEF RunInv
<1>0. /\ verdict = "open" /\ work[t].at = "returned"
      /\ work' = [work EXCEPT ![t].at = "collected"]
      /\ UNCHANGED <<pipe, mode, origin, waves, wave, given, verdict, lineageVars>>
  BY DEF Collect, Executing, planVars
<1>1. PICK r \in {"ok", "bad"} :
        /\ results' = [results EXCEPT ![t] = r]
        /\ reports' = Append(reports, [task |-> t, status |-> StatusOf(r)])
  BY DEF Collect, StatusOf
<1>2. AttemptInv'
  BY AttemptStep DEF ExecutorNext, ExecutorStep, TaskStep
<1>3. \A u \in Task : /\ work'[u].at = IF u = t THEN "collected" ELSE work[u].at
                      /\ results'[u] = IF u = t THEN r ELSE results[u]
  <2>1. work[t] \in Work
    BY DEF AttemptInv
  <2>2. [work[t] EXCEPT !.at = "collected"].at = "collected"
    BY <2>1 DEF Work
  <2>. QED
    BY <1>0, <1>1, <2>2 DEF AttemptInv, RunTypes
<1>4. results[t] = "none"
  BY <1>0 DEF ProgressInv
<1>5. ProgressInv'
  <2>1. \A u \in Task : work'[u].at = "waiting" <=> work[u].at = "waiting"
    BY <1>0, <1>3
  <2>2. \A k \in 1..wave : k < wave => \A u \in waves[k] : u \in Task /\ results'[u] = "ok"
    <3>1. \A k \in 1..wave : \A u \in waves[k] : u \in Task
      BY WavesAre DEF RunTypes
    <3>. QED
      BY <1>3, <1>4, <3>1 DEF ProgressInv
  <2>. QED
    BY <1>0, <1>1, <1>3, <2>1, <2>2 DEF ProgressInv, Entered
<1>6. t \in InWaves
  BY <1>0, WavesAre DEF ProgressInv, Entered
<1>. DEFINE n == Len(reports)
            entry == [task |-> t, status |-> StatusOf(r)]
<1>7. /\ n \in Nat /\ DOMAIN reports = 1..n /\ DOMAIN reports' = 1..(n + 1)
      /\ entry \in Report /\ reports' \in Seq(Report)
      /\ \A i \in 1..n : reports'[i] = reports[i]
      /\ reports'[n + 1] = entry
  <2>1. reports \in Seq(Report) /\ entry \in Report
    BY DEF RunTypes, Report, StatusOf
  <2>. QED
    BY <1>1, <2>1, AppendProperties, LenProperties
<1>8. RunTypes'
  BY <1>0, <1>1, <1>7 DEF RunTypes
<1>9. \A i \in 1..n : reports[i].task # t
  BY <1>0, <1>4, <1>7 DEF ReportsInv, StatusOf
<1>10. ReportsInv'
  <2>. HIDE DEF n
  <2>0. \A i \in 1..(n + 1) : i \in 1..n \/ i = n + 1
    BY <1>7
  <2>1. entry.task = t /\ entry.status = StatusOf(r)
    OBVIOUS
  <2>2. ASSUME NEW i \in 1..(n + 1), NEW j \in 1..(n + 1), reports'[i].task = reports'[j].task PROVE i = j
    <3>. HIDE DEF entry
    <3>1. CASE i \in 1..n /\ j \in 1..n
      BY <1>7, <2>2, <3>1 DEF ReportsInv
    <3>2. CASE i \in 1..n /\ j = n + 1
      BY <1>7, <1>9, <2>1, <2>2, <3>2
    <3>3. CASE i = n + 1 /\ j \in 1..n
      BY <1>7, <1>9, <2>1, <2>2, <3>3
    <3>. QED
      BY <2>0, <3>1, <3>2, <3>3
  <2>3. ASSUME NEW i \in 1..(n + 1)
        PROVE  /\ reports'[i].task \in InWaves
               /\ reports'[i].status = StatusOf(results'[reports'[i].task])
               /\ reports'[i].status # "skipped"
    <3>. HIDE DEF entry
    <3>1. CASE i \in 1..n
      <4>1. reports[i].task \in Task /\ reports[i].task # t
        BY <1>7, <1>9, <3>1, WavesAre DEF ReportsInv
      <4>. QED
        BY <1>0, <1>3, <1>7, <3>1, <4>1 DEF ReportsInv
    <3>2. CASE i = n + 1
      BY <1>3, <1>6, <1>7, <2>1, <3>2 DEF StatusOf
    <3>. QED
      BY <2>0, <3>1, <3>2
  <2>4. ASSUME NEW u \in Task, results'[u] # "none" PROVE \E i \in 1..(n + 1) : reports'[i].task = u
    <3>. HIDE DEF entry
    <3>1. CASE u = t
      BY <1>7, <2>1, <3>1
    <3>2. CASE u # t
      <4>1. PICK i \in 1..n : reports[i].task = u
        BY <1>3, <1>7, <2>4, <3>2 DEF ReportsInv
      <4>2. i \in 1..(n + 1)
        BY <1>7
      <4>. QED
        BY <1>7, <4>1, <4>2
    <3>. QED
      BY <3>1, <3>2
  <2>. HIDE DEF entry
  <2>. QED
    BY <1>0, <1>7, <2>2, <2>3, <2>4 DEF ReportsInv, InWaves
<1>11. GivenInv' /\ PlanInv'
  BY <1>0 DEF GivenInv, PlanInv, InWaves, Scope, Named
<1>12. VerdictInv' /\ BankInv'
  BY <1>0 DEF VerdictInv, BankInv, Mendable, lineageVars
<1>. QED
  BY <1>2, <1>5, <1>8, <1>10, <1>11, <1>12

\* The last wave is a success.
LEMMA RunSucceeds == ASSUME RunInv, EndInSuccess PROVE RunInv'
<1>. USE DEF RunInv
<1>0. /\ verdict = "open" /\ WaveOver /\ wave = Len(waves)
      /\ \A t \in waves[wave] : results[t] = "ok"
      /\ verdict' = "completed"
      /\ UNCHANGED <<pipe, mode, origin, waves, wave, work, given, results, reports, lineageVars>>
  BY DEF EndInSuccess, planVars
<1>1. AttemptInv'
  BY AttemptStep DEF ExecutorNext, ExecutorStep
<1>2. RunTypes' /\ PlanInv' /\ ProgressInv' /\ GivenInv'
  BY <1>0 DEF RunTypes, PlanInv, ProgressInv, GivenInv, Entered, Named, Scope, InWaves
<1>3. ReportsInv'
  BY <1>0 DEF ReportsInv, InWaves
<1>4. VerdictInv' /\ BankInv'
  BY <1>0 DEF VerdictInv, WaveOver, BankInv, Mendable, lineageVars
<1>. QED
  BY <1>1, <1>2, <1>3, <1>4

\* A wave has a failure: the tasks of the waves left are reported skipped.
LEMMA RunFails == ASSUME RunInv, EndInFailure PROVE RunInv'
<1>. USE DEF RunInv
<1>0. /\ verdict = "open" /\ WaveOver /\ \E t \in waves[wave] : results[t] = "bad"
      /\ reports' = IF mode = "parallel" THEN reports \o SkippedRuns ELSE reports
      /\ verdict' = "failed"
      /\ UNCHANGED <<pipe, mode, origin, waves, wave, work, given, results, lineageVars>>
  BY DEF EndInFailure, planVars
<1>1. AttemptInv'
  BY AttemptStep DEF ExecutorNext, ExecutorStep
<1>2. PlanInv' /\ ProgressInv' /\ GivenInv'
  BY <1>0 DEF PlanInv, ProgressInv, GivenInv, Entered, Named, Scope, InWaves
<1>3. VerdictInv' /\ BankInv'
  BY <1>0 DEF VerdictInv, WaveOver, BankInv, Mendable, lineageVars
<1>4. CASE mode # "parallel"
  <2>1. reports' = reports
    BY <1>0, <1>4
  <2>2. RunTypes'
    BY <1>0, <2>1 DEF RunTypes
  <2>3. ReportsInv'
    BY <1>0, <1>4, <2>1 DEF ReportsInv, InWaves
  <2>. QED
    BY <1>1, <1>2, <1>3, <2>2, <2>3
<1>5. CASE mode = "parallel"
  <2>. DEFINE later == UNION {waves[k] : k \in wave + 1..Len(waves)}
              entries == {[task |-> t, status |-> "skipped"] : t \in later}
              q == SkippedRuns
              n == Len(reports)
              m == Len(q)
  <2>1. /\ later \subseteq Task /\ later \subseteq InWaves
        /\ \A t \in later : results[t] = "none"
        /\ \A t \in InWaves : t \in later \/ results[t] # "none"
    <3>1. /\ Len(waves) \in Nat /\ DOMAIN waves = 1..Len(waves) /\ wave \in 0..Len(waves)
          /\ \A k \in DOMAIN waves : waves[k] \subseteq Task /\ waves[k] \subseteq InWaves
          /\ \A t \in InWaves : t \in Task /\ \E k \in DOMAIN waves : t \in waves[k]
          /\ \A i, j \in DOMAIN waves : \A t \in Task : t \in waves[i] /\ t \in waves[j] => i = j
      BY WavesAre DEF RunTypes
    <3>2. (wave + 1)..Len(waves) = {k \in DOMAIN waves : ~ (k \in 1..wave)}
      BY <3>1
    <3>3. 1..wave \subseteq DOMAIN waves
      BY <3>1
    <3>4. \A t \in later : results[t] = "none"
      <4>. SUFFICES ASSUME NEW t \in later PROVE results[t] = "none"
        OBVIOUS
      <4>1. PICK k \in DOMAIN waves : t \in waves[k] /\ k \notin 1..wave
        BY <3>2
      <4>2. t \in Task /\ \A j \in 1..wave : t \notin waves[j]
        BY <3>1, <3>3, <4>1
      <4>3. work[t].at = "waiting"
        BY <4>2 DEF ProgressInv, Entered
      <4>. QED
        BY <4>2, <4>3 DEF ProgressInv
    <3>5. \A k \in 1..wave : \A t \in waves[k] : results[t] # "none"
      <4>1. \A k \in 1..wave : k < wave \/ k = wave
        BY <3>1
      <4>. QED
        BY <1>0, <4>1 DEF ProgressInv, WaveOver
    <3>6. \A t \in InWaves : t \in later \/ results[t] # "none"
      BY <3>1, <3>2, <3>5
    <3>. QED
      BY <3>1, <3>2, <3>4, <3>6
  <2>2. IsFiniteSet(entries)
    <3>1. IsFiniteSet(later)
      BY <2>1, TasksFinite, FS_Subset
    <3>. DEFINE f == [t \in later |-> [task |-> t, status |-> "skipped"]]
    <3>2. entries = {f[t] : t \in later}
      OBVIOUS
    <3>3. IsFiniteSet({f[t] : t \in later})
      <4>. HIDE DEF f, later, entries
      <4>. QED
        BY <3>1, ImageFinite
    <3>. HIDE DEF f, later, entries
    <3>. QED
      BY ONLY <3>2, <3>3
  <2>3. q = SetToSeq(entries)
    BY DEF SkippedRuns
  <2>. HIDE DEF entries, later, q
  <2>4. /\ q \in Seq(entries) /\ \A i, j \in DOMAIN q : q[i] = q[j] => i = j
        /\ \A x \in entries : \E k \in DOMAIN q : q[k] = x
    BY <2>2, <2>3, SetToSeqIs
  <2>5. /\ m \in Nat /\ DOMAIN q = 1..m /\ \A k \in 1..m : q[k] \in entries
    BY <2>4, LenProperties, ElementOfSeq
  <2>6. \A x \in entries : x \in Report /\ x = [task |-> x.task, status |-> "skipped"] /\ x.task \in later
    BY <2>1 DEF entries, Report
  <2>7. \A t \in later : [task |-> t, status |-> "skipped"] \in entries
    BY DEF entries
  <2>8. \A k \in 1..m : /\ q[k] \in Report /\ q[k].status = "skipped" /\ q[k].task \in later
                        /\ q[k] = [task |-> q[k].task, status |-> "skipped"]
    BY <2>5, <2>6
  <2>9. \A i, j \in 1..m : q[i].task = q[j].task => i = j
    BY <2>4, <2>5, <2>8
  <2>10. ASSUME NEW t \in later PROVE \E k \in 1..m : q[k].task = t
    <3>1. PICK k \in DOMAIN q : q[k] = [task |-> t, status |-> "skipped"]
      BY <2>4, <2>7
    <3>2. k \in 1..m /\ q[k].task = t
      BY <2>5, <3>1
    <3>. QED
      BY <3>2
  <2>11. /\ n \in Nat /\ DOMAIN reports = 1..n /\ reports \in Seq(Report)
         /\ reports' \in Seq(Report) /\ DOMAIN reports' = 1..(n + m)
         /\ \A i \in 1..n : i \in 1..(n + m) /\ reports'[i] = reports[i]
         /\ \A k \in 1..m : n + k \in 1..(n + m) /\ reports'[n + k] = q[k]
         /\ \A i \in 1..(n + m) : i \in 1..n \/ \E k \in 1..m : i = n + k
    <3>1. reports \in Seq(Report) /\ n \in Nat /\ DOMAIN reports = 1..n
      BY LenProperties DEF RunTypes
    <3>2. q \in [1..m -> Report]
      BY <2>4, <2>5, <2>8, LenProperties
    <3>3. q \in Seq(Report)
      BY <2>5, <3>2, SeqDef
    <3>4. reports' = reports \o q
      BY <1>0, <1>5 DEF q
    <3>. HIDE DEF n, m
    <3>5. Len(reports) = n /\ Len(q) = m
      BY DEF n, m
    <3>6. /\ reports' \in Seq(Report) /\ Len(reports') = n + m
          /\ \A i \in 1..(n + m) : reports'[i] = IF i <= n THEN reports[i] ELSE q[i - n]
      BY <3>1, <3>3, <3>4, <3>5, ConcatProperties
    <3>7. DOMAIN reports' = 1..(n + m)
      BY <3>6, LenProperties
    <3>8. \A i \in 1..n : i \in 1..(n + m) /\ i <= n
      BY <2>5, <3>1
    <3>9. \A k \in 1..m : n + k \in 1..(n + m) /\ ~ (n + k <= n) /\ (n + k) - n = k
      BY <2>5, <3>1
    <3>10. \A i \in 1..(n + m) : i \in 1..n \/ (i - n \in 1..m /\ i = n + (i - n))
      BY <2>5, <3>1
    <3>11. \A k \in 1..m : reports'[n + k] = q[k]
      BY <3>6, <3>9
    <3>. QED
      BY <3>1, <3>6, <3>7, <3>8, <3>9, <3>10, <3>11
  <2>. HIDE DEF n, m
  <2>12. RunTypes'
    BY <1>0, <2>11 DEF RunTypes
  <2>13. \A i \in 1..n : reports[i].task \notin later
    BY <1>0, <2>1, <2>11 DEF ReportsInv, StatusOf
  <2>14. ASSUME NEW i \in 1..(n + m), NEW j \in 1..(n + m), reports'[i].task = reports'[j].task PROVE i = j
    <3>1. CASE i \in 1..n /\ j \in 1..n
      BY <2>11, <2>14, <3>1 DEF ReportsInv
    <3>2. ASSUME i \in 1..n, NEW k \in 1..m, j = n + k PROVE FALSE
      BY <2>8, <2>11, <2>13, <2>14, <3>2
    <3>3. ASSUME j \in 1..n, NEW k \in 1..m, i = n + k PROVE FALSE
      BY <2>8, <2>11, <2>13, <2>14, <3>3
    <3>4. ASSUME NEW k \in 1..m, i = n + k, NEW l \in 1..m, j = n + l PROVE i = j
      BY <2>9, <2>11, <2>14, <3>4
    <3>. QED
      BY <2>11, <3>1, <3>2, <3>3, <3>4
  <2>15. ASSUME NEW i \in 1..(n + m)
         PROVE  reports'[i].task \in InWaves /\ reports'[i].status = StatusOf(results[reports'[i].task])
    <3>1. CASE i \in 1..n
      BY <2>11, <3>1 DEF ReportsInv
    <3>2. ASSUME NEW k \in 1..m, i = n + k
          PROVE  reports'[i].task \in InWaves /\ reports'[i].status = StatusOf(results[reports'[i].task])
      BY <2>1, <2>8, <2>11, <3>2 DEF StatusOf
    <3>. QED
      BY <2>11, <3>1, <3>2
  <2>16. ASSUME NEW t \in Task, results[t] # "none" PROVE \E i \in 1..(n + m) : reports'[i].task = t
    BY <2>11, <2>16 DEF ReportsInv
  <2>17. ASSUME NEW t \in InWaves PROVE \E i \in 1..(n + m) : reports'[i].task = t
    <3>1. t \in Task
      BY WavesAre
    <3>. QED
      BY <2>1, <2>10, <2>11, <2>16, <3>1
  <2>18. ReportsInv'
    BY <1>0, <1>5, <2>11, <2>14, <2>15, <2>16, <2>17 DEF ReportsInv, InWaves
  <2>. QED
    BY <1>1, <1>2, <1>3, <2>12, <2>18
<1>. QED
  BY <1>4, <1>5

\* A repair banks what succeeded and notes what failed.
LEMMA RepairBegins == ASSUME RunInv, Repair PROVE RunInv'
<1>. USE DEF RunInv
<1>. DEFINE failures == {k \in DOMAIN reports : reports[k].status = "failed"}
            F == {t \in Task : results[t] = "bad"}
<1>0. /\ mode = "parallel" /\ verdict = "failed" /\ FirstFailed # NoTask
      /\ origin' = FirstFailed /\ waves' = <<>> /\ wave' = 0
      /\ work' = [t \in Task |-> Idle]
      /\ given' = [t \in Task |-> {}] /\ results' = [t \in Task |-> "none"]
      /\ reports' = <<>> /\ verdict' = "open"
      /\ banked' = banked \cup {t \in Task : results[t] = "ok"}
      /\ lapses' = lapses \cup {F}
      /\ UNCHANGED <<pipe, mode>>
  BY DEF Repair
<1>1. AttemptInv'
  BY AttemptStep DEF ExecutorNext
<1>2. FirstFailed \in F
  <2>1. failures # {} /\ FirstFailed = reports[Min(failures)].task
    BY <1>0 DEF FirstFailed
  <2>2. DOMAIN reports = 1..Len(reports) /\ Len(reports) \in Nat /\ reports \in Seq(Report)
    BY LenProperties DEF RunTypes
  <2>3. Min(failures) \in failures
    <3>1. failures \subseteq 1..Len(reports) /\ IsFiniteSet(1..Len(reports))
      BY <2>2, FS_Interval
    <3>2. IsFiniteSet(failures) /\ failures \in SUBSET Int /\ failures # {}
      BY <2>1, <2>2, <3>1, FS_Subset
    <3>. HIDE DEF failures
    <3>. QED
      BY ONLY <3>2, MinIs
  <2>4. /\ Min(failures) \in DOMAIN reports /\ reports[Min(failures)].status = "failed"
    BY <2>3
  <2>5. \A k \in DOMAIN reports : reports[k].task \in Task
    <3>1. \A k \in DOMAIN reports : reports[k] \in Report
      BY <2>2, ElementOfSeq
    <3>. QED
      BY <3>1 DEF Report
  <2>6. \A k \in DOMAIN reports : reports[k].status = "failed" => results[reports[k].task] = "bad"
    BY DEF ReportsInv, StatusOf
  <2>7. \A k \in DOMAIN reports : reports[k].status = "failed" => reports[k].task \in F
    BY <2>5, <2>6
  <2>. HIDE DEF failures, F
  <2>. QED
    BY <2>1, <2>4, <2>7
<1>3. Len(waves') = 0 /\ waves' \in Seq(SUBSET Task) /\ DOMAIN waves' = {}
  BY <1>0
<1>4. RunTypes'
  BY <1>0, <1>2, <1>3 DEF RunTypes
<1>5. PlanInv' /\ GivenInv' /\ VerdictInv'
  BY <1>0, <1>3 DEF PlanInv, Ordered, KeepsOrder, OneByOne, GivenInv, VerdictInv
<1>6. ProgressInv'
  BY <1>0, <1>3, IdleFits DEF ProgressInv, Entered, Idle
<1>7. ReportsInv'
  BY <1>0 DEF ReportsInv
<1>8. BankInv'
  <2>. DEFINE from == FirstFailed
  <2>. SUFFICES ASSUME \A G \in lapses' : Mendable(G)', NEW t \in Task
                PROVE  t \in banked' \/ t \in Selected(pipe, from)
    BY <1>0 DEF BankInv
  <2>1. \A G \in lapses' : Mendable(G)
    BY <1>0 DEF Mendable
  <2>2. F = {from} /\ LeadsTheRest(pipe, from)
    <3>1. F \in lapses'
      BY <1>0
    <3>2. PICK u \in F : F = {u} /\ LeadsTheRest(pipe, u)
      BY <2>1, <3>1 DEF Mendable
    <3>3. u = from
      BY <1>2, <3>2
    <3>. QED
      BY <3>2, <3>3
  <2>3. t \in banked \/ t \in InWaves
    <3>1. waves # <<>>
      BY <1>0 DEF VerdictInv, WaveOver, RunTypes
    <3>2. InWaves = Scope
      BY <3>1 DEF PlanInv
    <3>3. \A G \in lapses : Mendable(G)
      BY <1>0, <2>1
    <3>. QED
      BY <3>2, <3>3 DEF Scope, BankInv
  <2>4. ASSUME t \in InWaves, t \notin banked' PROVE t \in Selected(pipe, from)
    <3>1. results[t] # "ok"
      BY <1>0, <2>4
    <3>2. CASE t = from
      BY <3>2, SelectedIs
    <3>3. CASE t # from
      <4>1. results[t] = "none"
        BY <2>2, <3>1, <3>3 DEF RunTypes
      <4>2. /\ Len(waves) \in Nat /\ DOMAIN waves = 1..Len(waves) /\ wave \in 1..Len(waves)
            /\ \E u \in waves[wave] : results[u] = "bad" /\ u \in Task
            /\ \A u \in waves[wave] : results[u] # "none"
        BY <1>0, WavesAre DEF RunTypes, VerdictInv, WaveOver
      <4>3. from \in waves[wave]
        BY <2>2, <4>2
      <4>4. PICK k \in DOMAIN waves : t \in waves[k]
        BY <2>4, WavesAre
      <4>5. ~ (k \in 1..wave)
        <5>1. k \in 1..wave => k < wave \/ k = wave
          BY <4>2
        <5>. QED
          BY <4>1, <4>2, <4>4, <5>1 DEF ProgressInv
      <4>6. wave < k /\ wave \in DOMAIN waves
        BY <4>2, <4>5
      <4>. DEFINE full == ExecutionWaves(pipe)
      <4>7. PICK i \in DOMAIN full, j \in DOMAIN full : i < j /\ from \in full[i] /\ t \in full[j]
        BY <1>0, <4>3, <4>4, <4>6 DEF PlanInv, KeepsOrder
      <4>. QED
        BY <2>2, <4>7, SelectedIs DEF LeadsTheRest
    <3>. QED
      BY <3>2, <3>3
  <2>5. t \in banked => t \in banked'
    BY <1>0
  <2>. QED
    BY <2>3, <2>4, <2>5
<1>. QED
  BY <1>1, <1>4, <1>5, <1>6, <1>7, <1>8

\* A sequential run that an exception ends keeps everything else.
LEMMA RunRaises == ASSUME RunInv, NEW t \in Task, RaiseOut(t) PROVE RunInv'
<1>. USE DEF RunInv
<1>0. /\ verdict = "open" /\ verdict' = "raised"
      /\ UNCHANGED <<pipe, mode, origin, waves, wave, work, given, results, reports, lineageVars>>
  BY DEF RaiseOut, Executing, planVars
<1>1. AttemptInv'
  BY <1>0 DEF AttemptInv
<1>2. RunTypes' /\ PlanInv' /\ ProgressInv' /\ GivenInv'
  BY <1>0 DEF RunTypes, PlanInv, ProgressInv, GivenInv, Entered, Named, Scope, InWaves
<1>3. ReportsInv' /\ VerdictInv' /\ BankInv'
  BY <1>0 DEF ReportsInv, VerdictInv, BankInv, Mendable, InWaves, lineageVars
<1>. QED
  BY <1>1, <1>2, <1>3

\* Every step of a run keeps the invariant.
LEMMA RunStep == ASSUME RunInv, ExecutorNext PROVE RunInv'
BY TaskRuns, RunPlans, WaveSubmitted, Collected, RunSucceeds, RunFails, RunRaises, RepairBegins
   DEF ExecutorNext, ExecutorStep, TaskStep

\* A run begins in it.
LEMMA RunBegins == ASSUME ExecutorInit PROVE RunInv
<1>0. /\ pipe \in Pipelines /\ mode \in {"parallel", "sequential"}
      /\ origin = NoTask /\ waves = <<>> /\ wave = 0
      /\ work = [t \in Task |-> Idle] /\ given = [t \in Task |-> {}]
      /\ results = [t \in Task |-> "none"] /\ reports = <<>> /\ verdict = "open"
  BY DEF ExecutorInit
<1>1. Len(waves) = 0 /\ waves \in Seq(SUBSET Task) /\ DOMAIN waves = {}
  BY <1>0
<1>2. RunTypes
  BY <1>0, <1>1 DEF RunTypes
<1>3. AttemptInv
  BY <1>0, IdleFits DEF AttemptInv, Fits
<1>4. PlanInv /\ GivenInv /\ VerdictInv
  BY <1>0, <1>1 DEF PlanInv, Ordered, KeepsOrder, OneByOne, GivenInv, VerdictInv
<1>5. ProgressInv
  BY <1>0, <1>1 DEF ProgressInv, Entered, Idle
<1>6. ReportsInv /\ BankInv
  BY <1>0 DEF ReportsInv, BankInv
<1>. QED
  BY <1>2, <1>3, <1>4, <1>5, <1>6 DEF RunInv

\* Every step keeps it, one that changes nothing of the run too.
LEMMA RunInvStep == RunInv /\ [ExecutorNext]_executorVars => RunInv'
<1>. SUFFICES ASSUME RunInv, UNCHANGED executorVars PROVE RunInv'
  BY RunStep
<1>. USE DEF executorVars, RunInv
<1>1. RunTypes' /\ AttemptInv' /\ PlanInv' /\ ProgressInv' /\ GivenInv'
  BY DEF RunTypes, AttemptInv, PlanInv, ProgressInv, GivenInv, Entered, Named, Scope, InWaves
<1>2. ReportsInv' /\ VerdictInv' /\ BankInv'
  BY DEF ReportsInv, VerdictInv, WaveOver, BankInv, Mendable, InWaves
<1>. QED
  BY <1>1, <1>2

\* The invariant of a run and its repairs: the plan respects the dependencies,
\* waves are entered in order and only after successes, a task is given what
\* it names, and reports, results and verdict agree.
THEOREM RunInvariance == ExecutorSpec => []RunInv
<1>1. ExecutorInit => RunInv
  BY RunBegins
<1>. QED
  BY <1>1, RunInvStep, PTL DEF ExecutorSpec

\* When a wave is over: every task up to it has a result and no other has.
LEMMA WaveOverMeans ==
  ASSUME RunInv, WaveOver
  PROVE  /\ wave \in 1..Len(waves) /\ Len(waves) \in Nat /\ DOMAIN waves = 1..Len(waves) /\ waves # <<>>
         /\ \A t \in Task : results[t] # "none" <=> \E k \in 1..wave : t \in waves[k]
         /\ \A t \in Task : work[t].threads = 0
         /\ wave = Len(waves) /\ (\A t \in waves[wave] : results[t] = "ok")
              => \A t \in InWaves : results[t] = "ok"
<1>. USE DEF RunInv
<1>1. /\ Len(waves) \in Nat /\ DOMAIN waves = 1..Len(waves) /\ wave \in 0..Len(waves)
      /\ \A k \in DOMAIN waves : waves[k] \subseteq Task /\ waves[k] \subseteq InWaves
      /\ \A t \in InWaves : t \in Task /\ \E k \in DOMAIN waves : t \in waves[k]
  BY WavesAre DEF RunTypes
<1>2. wave > 0 /\ \A t \in waves[wave] : results[t] # "none"
  BY DEF WaveOver
<1>3. /\ wave \in 1..Len(waves) /\ waves # <<>> /\ 1..wave \subseteq DOMAIN waves
      /\ \A k \in 1..wave : k < wave \/ k = wave
  BY <1>1, <1>2
<1>4. \A k \in 1..wave : \A t \in waves[k] : results[t] # "none"
  BY <1>2, <1>3 DEF ProgressInv
<1>5. \A t \in Task : results[t] # "none" <=> \E k \in 1..wave : t \in waves[k]
  BY <1>3, <1>4 DEF ProgressInv, Entered
<1>6. ASSUME NEW t \in Task PROVE work[t].threads = 0
  <2>1. work[t].at \in {"waiting", "collected"}
    BY <1>3, <1>4 DEF ProgressInv, Entered
  <2>. QED
    BY <2>1 DEF AttemptInv, Fits, Work
<1>7. ASSUME wave = Len(waves), \A t \in waves[wave] : results[t] = "ok", NEW t \in InWaves
      PROVE  results[t] = "ok"
  <2>1. PICK k \in DOMAIN waves : t \in waves[k]
    BY <1>1
  <2>2. k \in 1..wave /\ (k < wave \/ k = wave)
    BY <1>1, <1>3, <1>7
  <2>. QED
    BY <1>7, <2>1, <2>2 DEF ProgressInv
<1>. QED
  BY <1>1, <1>3, <1>5, <1>6, <1>7

\* So it is when a run is over.
LEMMA OverMeans ==
  ASSUME RunInv, verdict \in {"completed", "failed"}
  PROVE  /\ WaveOver
         /\ verdict = "completed" => \A t \in InWaves : results[t] = "ok"
<1>1. WaveOver
  BY DEF RunInv, VerdictInv, WaveOver
<1>. QED
  BY <1>1, WaveOverMeans DEF RunInv, VerdictInv

\* A completed repair and what it repairs cover every task.
LEMMA WholeAfterRepairs == RunInv => RepairMakesWhole
<1>. SUFFICES ASSUME RunInv, verdict = "completed", origin # NoTask, NEW t \in Task,
                     \A F \in lapses : Mendable(F)
              PROVE  results[t] = "ok" \/ t \in banked
  BY DEF RepairMakesWhole, Mendable
<1>1. InWaves = Task \cap Selected(pipe, origin)
  BY OverMeans, WaveOverMeans DEF RunInv, PlanInv, Scope
<1>2. t \in banked \/ t \in Selected(pipe, origin)
  BY DEF RunInv, BankInv
<1>. QED
  BY <1>1, <1>2, OverMeans

\* When a repair reports completed, every task of the pipeline has succeeded in
\* it or in an ancestor, provided each run it descends from failed at one task
\* that leads the rest.
THEOREM RepairsMakeWhole == ExecutorSpec => []RepairMakesWhole
BY WholeAfterRepairs, RunInvariance, PTL

\* A task is reported once.
LEMMA OneEntry ==
  ASSUME RunInv, NEW t \in Task, NEW i \in DOMAIN reports, reports[i].task = t
  PROVE  Cardinality({k \in DOMAIN reports : reports[k].task = t}) = 1
<1>1. {k \in DOMAIN reports : reports[k].task = t} = {i}
  BY DEF RunInv, ReportsInv
<1>. QED
  BY <1>1, FS_Singleton

\* The reports of a run that is over add up.
LEMMA ReportsAddUp == RunInv => ReportsAccount
<1>. SUFFICES ASSUME RunInv, verdict \in {"completed", "failed"} PROVE ReportsAccount
  BY DEF ReportsAccount
<1>. USE DEF RunInv
<1>0. /\ \A k \in DOMAIN waves : waves[k] \subseteq Task /\ waves[k] \subseteq InWaves
      /\ \A t \in InWaves : t \in Task /\ \E k \in DOMAIN waves : t \in waves[k]
      /\ \A i, j \in DOMAIN waves : \A t \in waves[i], d \in waves[j] : d \in Canonical(pipe, t) => j < i
  BY WavesAre
<1>1. /\ wave \in 1..Len(waves) /\ Len(waves) \in Nat /\ DOMAIN waves = 1..Len(waves)
      /\ \A t \in Task : results[t] # "none" <=> \E k \in 1..wave : t \in waves[k]
      /\ \A t \in Task : work[t].threads = 0
      /\ verdict = "completed" => \A t \in InWaves : results[t] = "ok"
  BY OverMeans, WaveOverMeans
<1>2. ASSUME NEW t \in InWaves
      PROVE  Cardinality({k \in DOMAIN reports : reports[k].task = t})
               = IF mode = "sequential" /\ results[t] = "none" THEN 0 ELSE 1
  <2>1. CASE mode = "sequential" /\ results[t] = "none"
    <3>1. \A k \in DOMAIN reports : reports[k].task # t
      BY <2>1 DEF ReportsInv, StatusOf
    <3>2. {k \in DOMAIN reports : reports[k].task = t} = {}
      BY <3>1
    <3>. QED
      BY <2>1, <3>2, FS_EmptySet
  <2>2. CASE ~ (mode = "sequential" /\ results[t] = "none")
    <3>1. \E i \in DOMAIN reports : reports[i].task = t
      <4>1. results[t] # "none" \/ (verdict = "failed" /\ mode = "parallel")
        BY <1>1, <2>2 DEF RunTypes
      <4>. QED
        BY <1>0, <4>1 DEF ReportsInv
    <3>. QED
      BY <1>0, <2>2, <3>1, OneEntry
  <2>. QED
    BY <2>1, <2>2
<1>3. ASSUME NEW k \in DOMAIN reports, reports[k].status = "success", NEW t, t = reports[k].task
      PROVE  /\ \A d \in Canonical(pipe, t) \cap InWaves : results[d] = "ok"
             /\ given[t] = Named(t) \cap InWaves
  <2>1. t \in Task /\ results[t] = "ok"
    BY <1>0, <1>3 DEF ReportsInv, StatusOf
  <2>2. PICK i \in 1..wave : t \in waves[i]
    BY <1>1, <2>1
  <2>3. ASSUME NEW d \in Canonical(pipe, t) \cap InWaves PROVE results[d] = "ok"
    <3>1. PICK j \in DOMAIN waves : d \in waves[j]
      BY <1>0
    <3>2. j < i
      BY <1>0, <1>1, <2>2, <3>1
    <3>3. j \in 1..wave /\ j < wave
      BY <1>1, <3>2
    <3>. QED
      BY <3>1, <3>3 DEF ProgressInv
  <2>. QED
    BY <2>2, <2>3 DEF GivenInv
<1>4. (verdict = "completed") <=> (\A k \in DOMAIN reports : reports[k].status = "success")
  <2>1. ASSUME verdict = "completed", NEW k \in DOMAIN reports PROVE reports[k].status = "success"
    BY <1>1, <2>1 DEF ReportsInv, StatusOf
  <2>2. ASSUME verdict = "failed" PROVE \E k \in DOMAIN reports : reports[k].status # "success"
    <3>1. PICK t \in Task : results[t] = "bad"
      BY <1>0, <1>1, <2>2 DEF VerdictInv
    <3>2. PICK k \in DOMAIN reports : reports[k].task = t
      BY <3>1 DEF ReportsInv
    <3>3. reports[k].status = "failed"
      BY <3>1, <3>2 DEF ReportsInv, StatusOf
    <3>. QED
      BY <3>3
  <2>. QED
    BY <2>1, <2>2
<1>. QED
  BY <1>1, <1>2, <1>3, <1>4 DEF ReportsAccount, Named

\* A run that is over reports every task of its waves once (the sequential
\* executor those it ran), with the outcome the task had; no task that follows a
\* failure is a success, and a success was given what it names.
THEOREM ReportsDoAccount == ExecutorSpec => []ReportsAccount
BY ReportsAddUp, RunInvariance, PTL

\* The state of TaskOrder a state of the executor stands for.
Need == [t \in Task |-> Canonical(pipe, t) \cap InWaves]
Underway == {t \in Task : results[t] = "none" /\ work[t].at \notin {"waiting", "queued"}}
Passed == {t \in Task : results[t] = "ok"}
Failed == {t \in Task : results[t] = "bad"}
Verdict == IF waves = <<>> THEN "planning" ELSE verdict

\* What a task of an entered wave needs has passed.
LEMMA NeedsPassed ==
  ASSUME RunInv, NEW t \in Task, work[t].at # "waiting"
  PROVE  t \in InWaves /\ waves # <<>> /\ Need[t] \subseteq Passed
<1>. USE DEF RunInv
<1>1. PICK i \in DOMAIN waves : i \in 1..wave /\ t \in waves[i]
  BY DEF ProgressInv, Entered
<1>2. /\ Len(waves) \in Nat /\ DOMAIN waves = 1..Len(waves) /\ wave \in 0..Len(waves)
      /\ \A k \in DOMAIN waves : waves[k] \subseteq Task /\ waves[k] \subseteq InWaves
      /\ \A d \in InWaves : d \in Task /\ \E k \in DOMAIN waves : d \in waves[k]
      /\ \A k, j \in DOMAIN waves : \A x \in waves[k], d \in waves[j] : d \in Canonical(pipe, x) => j < k
  BY WavesAre DEF RunTypes
<1>3. ASSUME NEW d \in Canonical(pipe, t) \cap InWaves PROVE d \in Passed
  <2>1. PICK j \in DOMAIN waves : d \in waves[j] /\ d \in Task
    BY <1>2
  <2>2. j < i
    BY <1>1, <1>2, <2>1
  <2>3. j \in 1..wave /\ j < wave
    BY <1>1, <1>2, <2>2
  <2>. QED
    BY <2>1, <2>3 DEF ProgressInv, Passed
<1>4. waves # <<>>
  BY <1>1
<1>. QED
  BY <1>1, <1>2, <1>3, <1>4 DEF Need

\* The abstract order starts where a run starts.
LEMMA OrderStarts == ASSUME ExecutorInit PROVE Order!OrderInit
<1>1. waves = <<>> /\ \A t \in Task : results[t] = "none" /\ work[t].at = "waiting"
  BY DEF ExecutorInit, Idle
<1>2. InWaves = {}
  BY <1>1 DEF InWaves, Range
<1>. QED
  BY <1>1, <1>2 DEF Order!OrderInit

AbstractStep ==
  \/ Order!PlanScope \/ Order!StartTasks \/ Order!FinishTask \/ Order!EndRun \/ Order!RepairAgain
  \/ UNCHANGED Order!orderVars

\* A step that leaves the plan, the results and who is active.
LEMMA OrderStutters ==
  ASSUME UNCHANGED <<pipe, waves, results, verdict>>,
         \A t \in Task : work'[t].at \in {"waiting", "queued"} <=> work[t].at \in {"waiting", "queued"}
  PROVE  UNCHANGED Order!orderVars
BY DEF Order!orderVars, InWaves

\* A task's own step starts the task or is not seen.
LEMMA OrderRuns ==
  ASSUME RunInv, NEW t \in Task, TaskStep(t), ~ Collect(t)
  PROVE  AbstractStep
<1>. USE DEF RunInv
<1>1. /\ Executing /\ UNCHANGED <<pipe, mode, origin, waves, wave, given, results, reports, verdict>>
      /\ work[t].at \notin {"waiting", "collected"}
  BY TaskMoves DEF planVars
<1>2. PICK w \in Work : work' = [work EXCEPT ![t] = w] /\ w.at \notin {"waiting", "queued", "collected"}
  BY TaskMoves
<1>3. \A u \in Task : work'[u] = IF u = t THEN w ELSE work[u]
  BY <1>2 DEF AttemptInv
<1>4. CASE work[t].at # "queued"
  <2>1. UNCHANGED Order!orderVars
    BY <1>1, <1>2, <1>3, <1>4, OrderStutters
  <2>. QED
    BY <2>1 DEF AbstractStep
<1>5. CASE work[t].at = "queued"
  <2>1. t \in InWaves /\ waves # <<>> /\ Need[t] \subseteq Passed
    BY <1>1, NeedsPassed
  <2>2. verdict = "open"
    BY <1>1 DEF Executing
  <2>3. results[t] = "none"
    BY <1>5 DEF ProgressInv
  <2>4. Underway' = Underway \cup {t} /\ t \notin Underway
    BY <1>1, <1>2, <1>3, <1>5, <2>3 DEF Underway
  <2>5. Need' = Need /\ InWaves' = InWaves /\ Passed' = Passed /\ Failed' = Failed /\ Verdict' = Verdict /\ Verdict = "open"
    BY <1>1, <2>1, <2>2 DEF Need, InWaves, Passed, Failed, Verdict
  <2>6. {t} \in SUBSET (InWaves \ (Underway \cup Passed \cup Failed))
    BY <2>1, <2>3, <2>4 DEF Passed, Failed
  <2>7. Order!StartTasks
    BY <2>1, <2>4, <2>5, <2>6 DEF Order!StartTasks, Need, Underway, Passed, Failed, Verdict
  <2>. QED
    BY <2>7 DEF AbstractStep
<1>. QED
  BY <1>4, <1>5

\* Collecting a result finishes the task.
LEMMA OrderCollects ==
  ASSUME RunInv, NEW t \in Task, Collect(t)
  PROVE  Order!FinishTask
<1>. USE DEF RunInv
<1>0. /\ verdict = "open" /\ work[t].at = "returned"
      /\ work' = [work EXCEPT ![t].at = "collected"]
      /\ UNCHANGED <<pipe, mode, origin, waves, wave, given, verdict, lineageVars>>
  BY DEF Collect, Executing, planVars
<1>1. PICK r \in {"ok", "bad"} : results' = [results EXCEPT ![t] = r]
  BY DEF Collect
<1>2. \A u \in Task : results'[u] = IF u = t THEN r ELSE results[u]
  BY <1>1 DEF RunTypes
<1>3. \A u \in Task : u # t => work'[u] = work[u]
  BY <1>0 DEF AttemptInv
<1>4. results[t] = "none"
  BY <1>0 DEF ProgressInv
<1>5. waves # <<>>
  BY <1>0, NeedsPassed
<1>6. t \in Underway /\ Underway' = Underway \ {t}
  BY <1>0, <1>2, <1>3, <1>4 DEF Underway
<1>7. \/ Passed' = Passed \cup {t} /\ UNCHANGED Failed
      \/ Failed' = Failed \cup {t} /\ UNCHANGED Passed
  <2>1. CASE r = "ok"
    BY <1>2, <1>4, <2>1 DEF Passed, Failed
  <2>2. CASE r = "bad"
    BY <1>2, <1>4, <2>2 DEF Passed, Failed
  <2>. QED
    BY <2>1, <2>2
<1>8. Need' = Need /\ InWaves' = InWaves /\ Verdict' = Verdict /\ Verdict = "open"
  BY <1>0, <1>5 DEF Need, InWaves, Verdict
<1>. QED
  BY <1>6, <1>7, <1>8 DEF Order!FinishTask, Need, Underway, Passed, Failed, Verdict

\* Planning fixes the scope, or refuses.
LEMMA OrderPlans == ASSUME RunInv, PlanRun PROVE AbstractStep
<1>0. /\ verdict = "open" /\ waves = <<>>
      /\ UNCHANGED <<pipe, mode, origin, wave, work, given, results, reports, lineageVars>>
  BY DEF PlanRun
<1>1. CASE waves' = <<>>
  <2>1. Verdict' = "planning" /\ Verdict = "planning" /\ InWaves' = InWaves /\ Need' = Need
    BY <1>0, <1>1 DEF Verdict, InWaves, Need
  <2>2. Underway' = Underway /\ Passed' = Passed /\ Failed' = Failed
    BY <1>0 DEF Underway, Passed, Failed
  <2>3. UNCHANGED Order!orderVars
    BY <2>1, <2>2 DEF Order!orderVars, Need, Underway, Passed, Failed, Verdict
  <2>. QED
    BY <2>3 DEF AbstractStep
<1>2. CASE waves' # <<>>
  <2>1. UNCHANGED verdict
    BY <1>0, <1>2 DEF PlanRun
  <2>2. Verdict' = "open" /\ Verdict = "planning"
    BY <1>0, <1>2, <2>1 DEF Verdict
  <2>3. Underway' = Underway /\ Passed' = Passed /\ Failed' = Failed
    BY <1>0 DEF Underway, Passed, Failed
  <2>4. InWaves' \in SUBSET Task
    <3>1. PlanInv'
      BY RunPlans DEF RunInv
    <3>. QED
      BY <1>2, <3>1 DEF PlanInv, Scope
  <2>5. Need' \in [Task -> SUBSET InWaves']
    BY DEF Need
  <2>6. Order!PlanScope
    BY <2>2, <2>3, <2>4, <2>5 DEF Order!PlanScope, Need, Underway, Passed, Failed, Verdict
  <2>. QED
    BY <2>6 DEF AbstractStep
<1>. QED
  BY <1>1, <1>2

\* Submitting a wave is not seen.
LEMMA OrderSubmits == ASSUME RunInv, SubmitWave PROVE UNCHANGED Order!orderVars
<1>. USE DEF RunInv
<1>1. /\ waves # <<>> /\ wave < Len(waves)
      /\ work' = [t \in Task |-> IF t \in waves[wave + 1] THEN [Idle EXCEPT !.at = "queued"] ELSE work[t]]
      /\ UNCHANGED <<pipe, mode, origin, waves, results, reports, verdict>>
  BY DEF SubmitWave, planVars
<1>2. ASSUME NEW t \in Task
      PROVE  work'[t].at \in {"waiting", "queued"} <=> work[t].at \in {"waiting", "queued"}
  <2>1. CASE t \in waves[wave + 1]
    <3>1. work'[t].at = "queued"
      BY <1>1, <2>1 DEF Idle
    <3>2. wave + 1 \in DOMAIN waves /\ wave \in Nat
      BY <1>1, WavesAre DEF RunTypes
    <3>3. ASSUME NEW k \in DOMAIN waves, k \in 1..wave PROVE t \notin waves[k]
      <4>1. k # wave + 1
        BY <3>2, <3>3
      <4>. QED
        BY <2>1, <3>2, <4>1, WavesAre
    <3>4. work[t].at = "waiting"
      BY <3>3 DEF ProgressInv, Entered
    <3>. QED
      BY <3>1, <3>4
  <2>2. CASE t \notin waves[wave + 1]
    BY <1>1, <2>2
  <2>. QED
    BY <2>1, <2>2
<1>. QED
  BY <1>1, <1>2, OrderStutters

\* A verdict is the abstract verdict.
LEMMA OrderEnds == ASSUME RunInv, EndInFailure \/ EndInSuccess PROVE Order!EndRun
<1>. USE DEF RunInv
<1>0. /\ verdict = "open" /\ WaveOver
      /\ verdict' \in {"completed", "failed"}
      /\ verdict' = "completed" => wave = Len(waves) /\ \A t \in waves[wave] : results[t] = "ok"
      /\ UNCHANGED <<pipe, mode, origin, waves, wave, work, given, results>>
  BY DEF EndInFailure, EndInSuccess, planVars
<1>2. /\ wave \in 1..Len(waves) /\ Len(waves) \in Nat /\ DOMAIN waves = 1..Len(waves) /\ waves # <<>>
      /\ \A t \in Task : results[t] # "none" <=> \E k \in 1..wave : t \in waves[k]
      /\ verdict' = "completed" => \A t \in InWaves : results[t] = "ok"
  BY <1>0, WaveOverMeans
<1>3. Need' = Need /\ InWaves' = InWaves /\ Underway' = Underway /\ Passed' = Passed /\ Failed' = Failed
  BY <1>0 DEF Need, InWaves, Underway, Passed, Failed
<1>4. Underway = {}
  BY <1>2 DEF ProgressInv, Entered, Underway
<1>5. Verdict = "open" /\ Verdict' = verdict'
  BY <1>0, <1>2 DEF Verdict
<1>6. CASE verdict' = "completed"
  <2>1. \A t \in Task : results[t] # "none" => t \in InWaves
    BY <1>2, WavesAre
  <2>2. Failed = {} /\ Passed = InWaves
    <3>1. \A t \in InWaves : t \in Task /\ results[t] = "ok"
      BY <1>2, <1>6, WavesAre
    <3>. QED
      BY <2>1, <3>1 DEF Failed, Passed
  <2>. QED
    BY <1>3, <1>4, <1>5, <1>6, <2>2 DEF Order!EndRun, Need, Underway, Passed, Failed, Verdict
<1>7. CASE verdict' = "failed"
  <2>1. Failed # {}
    <3>1. PICK t \in waves[wave] : results[t] = "bad"
      BY <1>7 DEF EndInFailure, EndInSuccess
    <3>2. t \in Task
      BY <1>2, <3>1, WavesAre
    <3>. QED
      BY <3>1, <3>2 DEF Failed
  <2>. QED
    BY <1>3, <1>4, <1>5, <1>7, <2>1 DEF Order!EndRun, Need, Underway, Passed, Failed, Verdict
<1>. QED
  BY <1>0, <1>6, <1>7

\* An exception ends a sequential run with no result: nothing is under way,
\* nothing has failed, and the task that raised has not passed.
LEMMA OrderRaises == ASSUME RunInv, NEW t \in Task, RaiseOut(t) PROVE Order!EndRun
<1>. USE DEF RunInv
<1>0. /\ verdict = "open" /\ verdict' = "raised" /\ wave > 0
      /\ work[t].at = "queued" /\ mode = "sequential"
      /\ UNCHANGED <<pipe, mode, origin, waves, wave, work, given, results>>
  BY DEF RaiseOut, Executing, planVars
<1>1. t \in InWaves /\ waves # <<>> /\ results[t] = "none"
  BY <1>0, NeedsPassed DEF ProgressInv
<1>2. PICK i \in DOMAIN waves : i \in 1..wave /\ t \in waves[i]
  BY <1>0 DEF ProgressInv, Entered
<1>3. Len(waves) \in Nat /\ DOMAIN waves = 1..Len(waves) /\ wave \in 0..Len(waves)
  BY WavesAre DEF RunTypes
<1>4. i = wave
  <2>1. i < wave \/ i = wave
    BY <1>2, <1>3
  <2>. QED
    BY <1>1, <1>2, <2>1 DEF ProgressInv
<1>5. ASSUME NEW u \in Task, work[u].at # "waiting" PROVE u = t \/ results[u] = "ok"
  <2>1. PICK k \in DOMAIN waves : k \in 1..wave /\ u \in waves[k]
    BY <1>5 DEF ProgressInv, Entered
  <2>2. k < wave \/ k = wave
    BY <1>3, <2>1
  <2>3. k = wave => u = t
    BY <1>0, <1>2, <1>4, <2>1 DEF PlanInv, OneByOne
  <2>. QED
    BY <2>1, <2>2, <2>3 DEF ProgressInv
<1>6. Underway = {}
  BY <1>0, <1>5 DEF Underway
<1>7. Failed = {}
  BY <1>1, <1>5 DEF Failed, ProgressInv
<1>8. Passed # InWaves
  BY <1>1 DEF Passed
<1>9. Need' = Need /\ InWaves' = InWaves /\ Underway' = Underway /\ Passed' = Passed /\ Failed' = Failed
  BY <1>0 DEF Need, InWaves, Underway, Passed, Failed
<1>10. Verdict = "open" /\ Verdict' = "raised"
  BY <1>0, <1>1 DEF Verdict
<1>. QED
  BY <1>6, <1>7, <1>8, <1>9, <1>10 DEF Order!EndRun, Need, Underway, Passed, Failed, Verdict

\* A repair starts the order again.
LEMMA OrderRepairs == ASSUME RunInv, Repair PROVE Order!RepairAgain
<1>0. /\ verdict = "failed" /\ waves' = <<>> /\ \A t \in Task : work'[t].at = "waiting" /\ results'[t] = "none"
  BY DEF Repair, Idle
<1>1. waves # <<>>
  BY <1>0, OverMeans, WaveOverMeans
<1>2. InWaves' = {}
  BY <1>0 DEF InWaves, Range
<1>3. Need' = [t \in Task |-> {}] /\ Underway' = {} /\ Passed' = {} /\ Failed' = {}
  BY <1>0, <1>2 DEF Need, Underway, Passed, Failed
<1>4. Verdict = "failed" /\ Verdict' = "planning"
  BY <1>0, <1>1 DEF Verdict
<1>. QED
  BY <1>2, <1>3, <1>4 DEF Order!RepairAgain, Need, Underway, Passed, Failed, Verdict

\* A run implements the abstract order of its tasks: no task starts before
\* what it depends on has succeeded, whatever the mode, the retries, the
\* timeouts and the repairs.
THEOREM RunsImplementTaskOrder == ExecutorSpec => ImplementsTaskOrder
<1>1. ExecutorInit => Order!OrderInit
  BY OrderStarts
<1>2. RunInv /\ [ExecutorNext]_executorVars => [Order!OrderNext]_(Order!orderVars)
  <2>1. ASSUME RunInv, ExecutorNext PROVE AbstractStep
    BY <2>1, OrderRuns, OrderCollects, OrderPlans, OrderSubmits, OrderEnds, OrderRaises, OrderRepairs
       DEF ExecutorNext, ExecutorStep, TaskStep, AbstractStep
  <2>2. UNCHANGED executorVars => UNCHANGED Order!orderVars
    BY DEF executorVars, Order!orderVars, InWaves
  <2>. QED
    BY <2>1, <2>2 DEF AbstractStep, Order!OrderNext
<1>. QED
  BY <1>1, <1>2, RunInvariance, PTL DEF ExecutorSpec, ImplementsTaskOrder, Order!OrderSpec

(*****************************************************************************)
(* From sentences to waves                                                   *)
(*****************************************************************************)

\* Wired is the function its equation describes.
LEMMA WiredEquals ==
  ASSUME NEW intents, NEW n \in Nat, DOMAIN intents = 1..n, NEW deps, deps = Wired(intents)
  PROVE  deps = [k \in 1..n |-> WaitsFor(intents, k, IF k = 1 THEN {} ELSE deps[k - 1])]
<1>. DEFINE D == SUBSET Int
            step == [q \in (1..n) \X D |-> WaitsFor(intents, q[1], q[2])]
<1>1. step \in [(1..n) \X D -> D] /\ {} \in D
  <2>1. ASSUME NEW k \in 1..n, NEW S \in D PROVE WaitsFor(intents, k, S) \in D
    <3>1. k = 1 \/ k > 1
      OBVIOUS
    <3>. QED
      BY <3>1 DEF WaitsFor
  <2>. QED
    BY <2>1
<1>2. PICK g \in [0..n -> D] : IsRecursion(g, n, {}, step)
  <2>. HIDE DEF step, D
  <2>. QED
    BY <1>1, RecursionExists
<1>. DEFINE h == [k \in 1..n |-> g[k]]
<1>3. ASSUME NEW k \in 1..n PROVE h[k] = WaitsFor(intents, k, IF k = 1 THEN {} ELSE h[k - 1])
  <2>1. g[k - 1] \in D /\ <<k, g[k - 1]>> \in (1..n) \X D
    OBVIOUS
  <2>0. k \in 0..n /\ k # 0
    OBVIOUS
  <2>2. g[k] = step[<<k, g[k - 1]>>]
    <3>. HIDE DEF step
    <3>. QED
      BY <1>2, <2>0 DEF IsRecursion
  <2>3. g[k] = WaitsFor(intents, k, g[k - 1])
    BY <2>1, <2>2
  <2>4. CASE k = 1
    BY <2>3, <2>4 DEF WaitsFor
  <2>5. CASE k # 1
    <3>1. k - 1 \in 1..n
      BY <2>5
    <3>2. h[k - 1] = g[k - 1]
      BY <3>1
    <3>3. h[k] = g[k]
      OBVIOUS
    <3>. QED
      BY <2>3, <2>5, <3>2, <3>3
  <2>. QED
    BY <2>4, <2>5
<1>4. h = [k \in 1..n |-> WaitsFor(intents, k, IF k = 1 THEN {} ELSE h[k - 1])]
  <2>1. DOMAIN h = 1..n /\ h = [k \in 1..n |-> h[k]]
    OBVIOUS
  <2>. HIDE DEF h
  <2>. QED
    BY <1>3, <2>1
<1>. HIDE DEF h
<1>. DEFINE f == CHOOSE e : e = [k \in 1..n |-> WaitsFor(intents, k, IF k = 1 THEN {} ELSE e[k - 1])]
<1>5. f = [k \in 1..n |-> WaitsFor(intents, k, IF k = 1 THEN {} ELSE f[k - 1])]
  BY <1>4, Zenon
<1>6. Wired(intents) = f
  BY DEF Wired
<1>. HIDE DEF f
<1>. QED
  BY <1>5, <1>6

\* It is so position by position.
LEMMA WiredIs ==
  ASSUME NEW intents, NEW n \in Nat, DOMAIN intents = 1..n, NEW deps, deps = Wired(intents)
  PROVE  /\ DOMAIN deps = 1..n
         /\ \A k \in 1..n : deps[k] = WaitsFor(intents, k, IF k = 1 THEN {} ELSE deps[k - 1])
BY WiredEquals

\* A position waits for nothing, which the first two may, or for one before it.
LEMMA WiredShape ==
  ASSUME NEW intents, NEW n \in Nat, DOMAIN intents = 1..n, NEW deps, deps = Wired(intents)
  PROVE  \A k \in 1..n : \/ deps[k] = {} /\ k <= 2
                         \/ \E j \in 1..(k - 1) : deps[k] = {j}
<1>. DEFINE Right(k) == \/ deps[k] = {} /\ k <= 2
                        \/ \E j \in 1..(k - 1) : deps[k] = {j}
            C == {k \in 0..n : k = 0 \/ Right(k)}
<1>1. \A k \in 1..n : deps[k] = WaitsFor(intents, k, IF k = 1 THEN {} ELSE deps[k - 1])
  BY WiredIs
<1>2. 0 \in C
  OBVIOUS
<1>3. ASSUME NEW k \in 1..n, k - 1 \in C PROVE k \in C
  <2>1. deps[k] = WaitsFor(intents, k, IF k = 1 THEN {} ELSE deps[k - 1])
    BY <1>1
  <2>2. CASE k = 1
    BY <2>1, <2>2 DEF WaitsFor
  <2>3. CASE k > 1 /\ ~intents[k].parallel
    <3>1. deps[k] = {k - 1} /\ k - 1 \in 1..(k - 1)
      BY <2>1, <2>3 DEF WaitsFor
    <3>. QED
      BY <3>1
  <2>4. CASE k > 1 /\ intents[k].parallel
    <3>1. deps[k] = IF deps[k - 1] # {} THEN deps[k - 1] ELSE {k - 2} \ {0}
      BY <2>1, <2>4 DEF WaitsFor
    <3>2. Right(k - 1) /\ k - 1 \in 1..n
      BY <1>3, <2>4
    <3>3. CASE deps[k - 1] = {}
      <4>1. k = 2 \/ k = 3
        BY <2>4, <3>2, <3>3
      <4>. QED
        BY <3>1, <3>3, <4>1
    <3>4. CASE deps[k - 1] # {}
      <4>1. PICK j \in 1..(k - 1 - 1) : deps[k - 1] = {j}
        BY <3>2, <3>4
      <4>2. deps[k] = {j} /\ j \in 1..(k - 1)
        BY <3>1, <3>4, <4>1
      <4>. QED
        BY <4>2
    <3>. QED
      BY <3>3, <3>4
  <2>. QED
    BY <2>2, <2>3, <2>4
<1>4. 0..n \subseteq C
  <2>. HIDE DEF C
  <2>. QED
    BY <1>2, <1>3, UptoInduct
<1>5. \A k \in 1..n : k \in 0..n /\ k # 0
  OBVIOUS
<1>. QED
  BY <1>4, <1>5

-----------------------------------------------------------------------------
\* Node x is placed in round w.
InRound(f, x, w) == x \in f[w] /\ x \notin f[w - 1]

\* A node is placed in one round, after what it waits for.
LEMMA RoundOnce ==
  ASSUME NEW nodes, NEW preds, NEW n \in Nat, NEW f, f = Layered(nodes, preds, n),
         NEW x, NEW v \in 1..n, NEW w \in 1..n, InRound(f, x, v), InRound(f, x, w)
  PROVE  v = w
<1>1. ASSUME NEW i \in 1..n, NEW j \in 1..n, InRound(f, x, i), InRound(f, x, j) PROVE ~(i < j)
  <2>1. i < j => f[i] \subseteq f[j - 1]
    BY LayeredGrows
  <2>. QED
    BY <1>1, <2>1 DEF InRound
<1>. QED
  BY <1>1

\* A node of a round has its predecessors in the round before.
LEMMA RoundAfter ==
  ASSUME NEW nodes, NEW preds, NEW n \in Nat, NEW f, f = Layered(nodes, preds, n),
         NEW w \in 1..n, NEW x \in f[w]
  PROVE  preds[x] \subseteq f[w - 1]
<1>0. /\ f[0] = {}
      /\ \A k \in 1..n : f[k] = f[k - 1] \cup {y \in nodes : preds[y] \subseteq f[k - 1]}
  BY LayeredIs
<1>. DEFINE C == {k \in 0..n : k = 0 \/ \A y \in f[k] : preds[y] \subseteq f[k - 1]}
<1>1. 0 \in C
  OBVIOUS
<1>2. ASSUME NEW k \in 1..n, k - 1 \in C PROVE k \in C
  <2>1. ASSUME NEW y \in f[k], y \in f[k - 1] PROVE preds[y] \subseteq f[k - 1]
    <3>1. k - 1 # 0 /\ k - 1 \in 1..n /\ k - 1 - 1 \in 0..n
      BY <1>0, <2>1
    <3>2. preds[y] \subseteq f[k - 1 - 1]
      BY <1>2, <2>1, <3>1
    <3>3. f[k - 1 - 1] \subseteq f[k - 1]
      BY <1>0, <3>1
    <3>. QED
      BY <3>2, <3>3
  <2>2. \A y \in f[k] : y \in f[k - 1] \/ preds[y] \subseteq f[k - 1]
    BY <1>0
  <2>. QED
    BY <2>1, <2>2
<1>3. 0..n \subseteq C
  <2>. HIDE DEF C
  <2>. QED
    BY <1>1, <1>2, UptoInduct
<1>4. w \in 0..n /\ w # 0
  OBVIOUS
<1>. QED
  BY <1>3, <1>4

\* A node without predecessors is in the first round, one with a single one in
\* the round after that.
LEMMA RoundNext ==
  ASSUME NEW nodes, NEW preds, NEW n \in Nat, NEW f, f = Layered(nodes, preds, n),
         NEW x \in nodes
  PROVE  /\ n > 0 /\ preds[x] = {} => InRound(f, x, 1)
         /\ \A y, w : preds[x] = {y} /\ w \in 1..(n - 1) /\ InRound(f, y, w)
                        => InRound(f, x, w + 1)
<1>0. /\ f[0] = {}
      /\ \A k \in 1..n : f[k] = f[k - 1] \cup {z \in nodes : preds[z] \subseteq f[k - 1]}
  BY LayeredIs
<1>1. ASSUME n > 0, preds[x] = {} PROVE InRound(f, x, 1)
  <2>1. 1 \in 1..n /\ 1 - 1 = 0
    BY <1>1
  <2>2. f[1] = f[0] \cup {z \in nodes : preds[z] \subseteq f[0]}
    BY <1>0, <2>1
  <2>. QED
    BY <1>0, <1>1, <2>1, <2>2 DEF InRound
<1>2. ASSUME NEW y, NEW w, preds[x] = {y}, w \in 1..(n - 1), InRound(f, y, w)
      PROVE  InRound(f, x, w + 1)
  <2>1. w \in 1..n /\ w + 1 \in 1..n /\ (w + 1) - 1 = w
    BY <1>2
  <2>2. f[w + 1] = f[w] \cup {z \in nodes : preds[z] \subseteq f[w]}
    BY <1>0, <2>1
  <2>3. x \in f[w + 1]
    BY <1>2, <2>2 DEF InRound
  <2>4. x \in f[w] => preds[x] \subseteq f[w - 1]
    BY <2>1, RoundAfter
  <2>. QED
    BY <1>2, <2>1, <2>3, <2>4 DEF InRound
<1>. QED
  BY <1>1, <1>2

-----------------------------------------------------------------------------
\* Every task has one wave, and the waves are those asked for.
LEMMA WavesAsked ==
  ASSUME NEW intents, NEW n \in Nat, DOMAIN intents = 1..n, NEW deps, deps = Wired(intents)
  PROVE  /\ LoadsAsGraph(deps)
         /\ \A k \in 2..n :
              /\ ~intents[k].parallel => WaveOf(deps, k) = WaveOf(deps, k - 1) + 1
              /\ intents[k].parallel =>
                   \/ WaveOf(deps, k) = WaveOf(deps, k - 1)
                   \/ k > 2 /\ \A j \in 1..(k - 1) : WaveOf(deps, j) = 1
<1>0. DOMAIN deps = 1..n
  BY WiredIs
<1>1. Len(deps) = n
  <2>1. deps = [k \in 1..n |-> deps[k]]
    <3>1. deps = [k \in 1..n |-> WaitsFor(intents, k, IF k = 1 THEN {} ELSE deps[k - 1])]
      BY WiredEquals
    <3>. QED
      BY <1>0, <3>1
  <2>2. deps \in [1..n -> {deps[k] : k \in 1..n}]
    BY <2>1
  <2>. QED
    BY <2>2, FunctionIsSeq
<1>2. \A k \in 1..n : deps[k] = WaitsFor(intents, k, IF k = 1 THEN {} ELSE deps[k - 1])
  BY WiredIs
<1>3. \A k \in 1..n : \/ deps[k] = {} /\ k <= 2
                      \/ \E j \in 1..(k - 1) : deps[k] = {j}
  BY WiredShape
<1>. DEFINE f == Layered(1..n, deps, n)
<1>4. ASSUME NEW k \in 1..n, deps[k] = {} PROVE InRound(f, k, 1)
  BY <1>4, RoundNext
<1>5. ASSUME NEW k \in 1..n, NEW j \in 1..n, deps[k] = {j}, NEW w \in 1..(n - 1), InRound(f, j, w)
      PROVE  InRound(f, k, w + 1)
  BY <1>5, RoundNext
<1>6. ASSUME NEW k, NEW v \in 1..n, NEW w \in 1..n, InRound(f, k, v), InRound(f, k, w) PROVE v = w
  BY <1>6, RoundOnce
<1>7. f \in [0..n -> SUBSET (1..n)] /\ \A w \in 1..n : f[w] \subseteq f[n]
  <2>1. f \in [0..n -> SUBSET (1..n)]
    BY LayeredIs
  <2>2. ASSUME NEW w \in 1..n PROVE f[w] \subseteq f[n]
    <3>1. w \in 0..n /\ n \in 0..n /\ w <= n
      OBVIOUS
    <3>. HIDE DEF f
    <3>. QED
      BY <3>1, LayeredGrows DEF f
  <2>. QED
    BY <2>1, <2>2
<1>. HIDE DEF f
<1>8. \A k \in 1..n : \E w \in 1..k : InRound(f, k, w)
  <2>. DEFINE Right(k) == \E w \in 1..k : InRound(f, k, w)
              C == {m \in 0..n : \A k \in 1..m : Right(k)}
  <2>1. 0 \in C
    OBVIOUS
  <2>2. ASSUME NEW m \in 1..n, m - 1 \in C PROVE m \in C
    <3>1. \A k \in 1..m : k = m \/ k \in 1..(m - 1)
      OBVIOUS
    <3>2. CASE deps[m] = {}
      BY <1>4, <2>2, <3>1, <3>2
    <3>3. CASE deps[m] # {}
      <4>1. PICK j \in 1..(m - 1) : deps[m] = {j}
        BY <1>3, <3>3
      <4>2. PICK w \in 1..j : InRound(f, j, w)
        BY <2>2, <4>1
      <4>3. j \in 1..n /\ w \in 1..(n - 1) /\ w + 1 \in 1..m
        BY <4>1, <4>2
      <4>4. InRound(f, m, w + 1)
        BY <1>5, <4>1, <4>2, <4>3
      <4>5. Right(m)
        BY <4>3, <4>4
      <4>. HIDE DEF Right
      <4>. QED
        BY <2>2, <3>1, <4>5
    <3>. QED
      BY <3>2, <3>3
  <2>3. 0..n \subseteq C
    <3>. HIDE DEF C
    <3>. QED
      BY <2>1, <2>2, UptoInduct
  <2>. QED
    BY <2>3
<1>9. LoadsAsGraph(deps)
  <2>1. ASSUME NEW k \in 1..n PROVE k \notin deps[k]
    BY <1>3
  <2>2. ASSUME NEW k \in 1..n PROVE k \in f[n]
    <3>1. PICK w \in 1..k : InRound(f, k, w)
      BY <1>8
    <3>2. w \in 1..n
      BY <3>1
    <3>. QED
      BY <1>7, <3>1, <3>2 DEF InRound
  <2>3. f[n] = 1..n
    <3>1. f[n] \subseteq 1..n
      BY <1>7
    <3>. QED
      BY <2>2, <3>1
  <2>. QED
    BY <1>1, <2>1, <2>3 DEF LoadsAsGraph, f
<1>. DEFINE W(k) == WaveOf(deps, k)
<1>10. ASSUME NEW k \in 1..n PROVE W(k) \in 1..k /\ InRound(f, k, W(k))
  <2>1. W(k) = CHOOSE w \in 1..n : InRound(f, k, w)
    BY <1>1 DEF WaveOf, f, InRound
  <2>2. PICK w \in 1..k : InRound(f, k, w)
    BY <1>8
  <2>3. w \in 1..n
    BY <2>2
  <2>4. W(k) \in 1..n /\ InRound(f, k, W(k))
    BY <2>1, <2>2, <2>3
  <2>5. W(k) = w
    BY <1>6, <2>2, <2>3, <2>4
  <2>. QED
    BY <2>2, <2>4, <2>5
<1>11. ASSUME NEW k \in 1..n, NEW w \in 1..n, InRound(f, k, w) PROVE W(k) = w
  <2>1. W(k) \in 1..n
    BY <1>10
  <2>. QED
    BY <1>6, <1>10, <1>11, <2>1
<1>12. ASSUME NEW k \in 1..n, NEW j \in 1..(k - 1), deps[k] = {j} PROVE W(k) = W(j) + 1
  <2>1. j \in 1..n /\ W(j) \in 1..j /\ InRound(f, j, W(j))
    BY <1>10
  <2>2. W(j) \in 1..(n - 1) /\ W(j) + 1 \in 1..n
    BY <2>1
  <2>3. InRound(f, k, W(j) + 1)
    BY <1>5, <1>12, <2>1, <2>2
  <2>. QED
    BY <1>11, <2>2, <2>3
<1>13. ASSUME NEW k \in 1..n, deps[k] = {} PROVE W(k) = 1
  BY <1>4, <1>11, <1>13
<1>. HIDE DEF W
<1>14. ASSUME NEW k \in 2..n, ~intents[k].parallel PROVE W(k) = W(k - 1) + 1
  <2>1. k \in 1..n /\ k - 1 \in 1..(k - 1) /\ k # 1
    OBVIOUS
  <2>2. deps[k] = {k - 1}
    BY <1>2, <1>14, <2>1 DEF WaitsFor
  <2>. QED
    BY <1>12, <2>1, <2>2
<1>15. ASSUME NEW k \in 2..n, intents[k].parallel
       PROVE  \/ W(k) = W(k - 1)
              \/ k > 2 /\ \A j \in 1..(k - 1) : W(j) = 1
  <2>1. k \in 1..n /\ k - 1 \in 1..n /\ k # 1
    OBVIOUS
  <2>2. deps[k] = IF deps[k - 1] # {} THEN deps[k - 1] ELSE {k - 2} \ {0}
    BY <1>2, <1>15, <2>1 DEF WaitsFor
  <2>3. CASE deps[k - 1] # {}
    <3>1. PICK j \in 1..(k - 1 - 1) : deps[k - 1] = {j}
      BY <1>3, <2>1, <2>3
    <3>2. deps[k] = {j} /\ j \in 1..(k - 1)
      BY <2>2, <2>3, <3>1
    <3>. QED
      BY <1>12, <2>1, <3>1, <3>2
  <2>4. CASE deps[k - 1] = {}
    <3>1. k - 1 <= 2
      BY <1>3, <2>1, <2>4
    <3>2. CASE k = 2
      <4>1. deps[k] = {}
        BY <2>2, <2>4, <3>2
      <4>. QED
        BY <1>13, <2>1, <2>4, <4>1
    <3>3. CASE k = 3
      <4>1. 1 \in 1..n /\ 2 \in 1..n
        BY <3>3
      <4>2. deps[1] = {} /\ deps[2] = {}
        <5>1. deps[1] = {}
          BY <1>2, <4>1 DEF WaitsFor
        <5>2. k - 1 = 2
          BY <3>3
        <5>. QED
          BY <2>4, <5>1, <5>2
      <4>3. W(1) = 1 /\ W(2) = 1
        BY <1>13, <4>1, <4>2
      <4>. QED
        BY <3>3, <4>3
    <3>. QED
      BY <3>1, <3>2, <3>3
  <2>. QED
    BY <2>3, <2>4
<1>. QED
  BY <1>9, <1>14, <1>15 DEF W

-----------------------------------------------------------------------------
\* The sentences that become tasks are a sequence, whatever the text.
LEMMA MeaningfulIs ==
  ASSUME NEW t \in Seq(Sentence)
  PROVE  \E n \in Nat : DOMAIN Meaningful(t) = 1..n
<1>. DEFINE S == TaskSentences(t)
            D == Sentence \cup {WholeText(t)}
            E == {ParseIntent(x) : x \in D}
            all == [k \in DOMAIN S |-> ParseIntent(S[k])]
<1>1. S \in Seq(D)
  <2>1. Segments(t) \in Seq(Sentence)
    BY FilteredIs DEF Segments
  <2>. DEFINE likely == Filtered(Segments(t), {s \in Range(t) : s.operation # NoOperation \/ s.mentions # {}})
              longer == Filtered(Segments(t), {s \in Range(t) : s.words >= 3})
  <2>2. likely \in Seq(Sentence) /\ longer \in Seq(Sentence)
    BY <2>1, FilteredIs
  <2>3. S \in {likely, longer, <<WholeText(t)>>}
    <3>1. S = IF likely # <<>> THEN likely ELSE IF longer # <<>> THEN longer ELSE <<WholeText(t)>>
      BY DEF TaskSentences
    <3>. QED
      BY <3>1
  <2>. HIDE DEF likely, longer, S
  <2>4. Seq(Sentence) \subseteq Seq(D) /\ <<WholeText(t)>> \in Seq(D)
    OBVIOUS
  <2>. QED
    BY <2>2, <2>3, <2>4
<1>2. Len(S) \in Nat /\ DOMAIN S = 1..Len(S) /\ \A k \in DOMAIN S : S[k] \in D
  BY <1>1
<1>3. all \in [1..Len(S) -> E]
  BY <1>2
<1>4. all \in Seq(E)
  BY <1>2, <1>3, FunctionIsSeq
<1>. HIDE DEF all, E
<1>5. Meaningful(t) \in Seq(E)
  <2>. DEFINE kept == Filtered(all, {i \in Range(all) : ~IsPipelineHeader(i) /\ ~IsScheduleOnly(i)})
  <2>1. kept \in Seq(E)
    BY <1>4, FilteredIs
  <2>2. Meaningful(t) = IF kept = <<>> THEN all ELSE kept
    BY DEF Meaningful, all
  <2>. QED
    BY <1>4, <2>1, <2>2
<1>. QED
  BY <1>5

\* No two tasks have one name: of those with one nameOf, each has a number more.
LEMMA NamesDiffer ==
  ASSUME NEW intents, NEW n \in Nat, DOMAIN intents = 1..n
  PROVE  IsInjective(Names(intents))
<1>. DEFINE nameOf(k) == BaseName(intents[k])
            same(k) == {j \in 1..k : nameOf(j) = nameOf(k)}
<1>1. /\ DOMAIN Names(intents) = 1..n
      /\ \A k \in 1..n : Names(intents)[k] = <<nameOf(k), Cardinality(same(k))>>
  BY DEF Names
<1>2. ASSUME NEW k \in 1..n, NEW l \in 1..n, k < l, nameOf(k) = nameOf(l)
      PROVE  Cardinality(same(k)) # Cardinality(same(l))
  <2>1. IsFiniteSet(same(l))
    <3>1. IsFiniteSet(1..l)
      BY FS_Interval
    <3>2. same(l) \in SUBSET (1..l)
      OBVIOUS
    <3>. HIDE DEF same
    <3>. QED
      BY <3>1, <3>2, FS_Subset
  <2>2. same(k) \in SUBSET same(l)
    BY <1>2
  <2>3. l \in same(l) /\ l \notin same(k)
    BY <1>2
  <2>. HIDE DEF same
  <2>. QED
    BY <2>1, <2>2, <2>3, FS_Subset
<1>. HIDE DEF nameOf, same
<1>3. ASSUME NEW k \in 1..n, NEW l \in 1..n, Names(intents)[k] = Names(intents)[l] PROVE k = l
  <2>1. nameOf(k) = nameOf(l) /\ Cardinality(same(k)) = Cardinality(same(l))
    BY <1>1, <1>3
  <2>2. ~(k < l) /\ ~(l < k)
    BY <1>2, <2>1
  <2>. QED
    BY <2>2
<1>. QED
  BY <1>1, <1>3 DEF IsInjective

\* The first of three systems that there is.
LEMMA PreferredIs ==
  ASSUME NEW a, NEW b, NEW c
  PROVE  Preferred(<<a, b, c>>) = IF a # NoPlugin THEN a ELSE IF b # NoPlugin THEN b
                                  ELSE IF c # NoPlugin THEN c ELSE "python"
<1>. DEFINE order == <<a, b, c>>
            some == {k \in 1..3 : order[k] # NoPlugin}
<1>1. DOMAIN order = 1..3 /\ order[1] = a /\ order[2] = b /\ order[3] = c
  OBVIOUS
<1>2. Preferred(order) = IF some = {} THEN "python" ELSE order[Min(some)]
  BY <1>1 DEF Preferred
<1>. HIDE DEF order
<1>3. some # {} => Min(some) \in some /\ \A y \in some : Min(some) <= y
  <2>1. IsFiniteSet(1..3)
    <3>. DEFINE m == 3
    <3>1. m \in Int
      OBVIOUS
    <3>. HIDE DEF m
    <3>2. IsFiniteSet(1..m)
      BY <3>1, FS_Interval
    <3>. QED
      BY <3>2 DEF m
  <2>2. some \in SUBSET (1..3)
    OBVIOUS
  <2>. HIDE DEF some
  <2>3. IsFiniteSet(some)
    BY <2>1, <2>2, FS_Subset
  <2>4. some \in SUBSET Int
    BY <2>2
  <2>. QED
    BY <2>3, <2>4, MinIs
<1>4. CASE some = {}
  <2>1. 1 \notin some /\ 2 \notin some /\ 3 \notin some
    BY <1>4
  <2>. QED
    BY <1>1, <1>2, <1>4, <2>1 DEF order
<1>5. CASE some # {}
  <2>1. Min(some) \in 1..3 /\ order[Min(some)] # NoPlugin
    BY <1>3, <1>5
  <2>2. Preferred(order) = order[Min(some)]
    BY <1>2, <1>5
  <2>3. \A y \in 1..3 : y < Min(some) => order[y] = NoPlugin
    BY <1>3, <1>5, <2>1
  <2>. HIDE DEF some
  <2>4. \/ order[1] # NoPlugin /\ Min(some) = 1
        \/ order[1] = NoPlugin /\ order[2] # NoPlugin /\ Min(some) = 2
        \/ order[1] = NoPlugin /\ order[2] = NoPlugin /\ order[3] # NoPlugin /\ Min(some) = 3
    <3>1. Min(some) = 1 \/ Min(some) = 2 \/ Min(some) = 3
      BY <2>1
    <3>2. 1 \in 1..3 /\ 2 \in 1..3
      OBVIOUS
    <3>3. CASE Min(some) = 1
      BY <2>1, <3>3
    <3>4. CASE Min(some) = 2
      BY <2>1, <2>3, <3>2, <3>4
    <3>5. CASE Min(some) = 3
      BY <2>1, <2>3, <3>2, <3>5
    <3>. QED
      BY <3>1, <3>3, <3>4, <3>5
  <2>. QED
    BY <1>1, <2>2, <2>4 DEF order
<1>. QED
  BY <1>4, <1>5

\* A task's config is its plugin's, with three exceptions.
LEMMA ConfigIs ==
  ASSUME NEW i
  PROVE  \/ ConfigPlugin(i) = PrimaryPlugin(i)
         \/ i.operation = "load" /\ NoPlugin \notin {i.from, i.into} /\ i.from # i.into
         \/ i.operation = "send" /\ i.using = "email"
         \/ "dbt" \in {i.from, i.into}
<1>. SUFFICES ASSUME "dbt" \notin {i.from, i.into}, ~(i.operation = "send" /\ i.using = "email"),
                     ~(i.operation = "load" /\ NoPlugin \notin {i.from, i.into} /\ i.from # i.into)
              PROVE  ConfigPlugin(i) = PrimaryPlugin(i)
  OBVIOUS
<1>. DEFINE any == Preferred(<<i.into, i.from, i.using>>)
<1>1. ConfigPlugin(i) = IF i.operation \in Reading /\ i.from # NoPlugin THEN i.from ELSE any
  BY DEF ConfigPlugin
<1>2. PrimaryPlugin(i) = IF i.operation \in {"query", "validate"} /\ i.from # NoPlugin THEN i.from ELSE any
  BY DEF PrimaryPlugin
<1>3. i.operation = "load" /\ i.from # NoPlugin => any = i.from
  BY PreferredIs
<1>. HIDE DEF any
<1>. QED
  BY <1>1, <1>2, <1>3 DEF Reading

-----------------------------------------------------------------------------
\* What a response holds was made of the text that was asked about.
AnswerInv ==
  /\ GeneratorTypeOK
  /\ response.by = "nlp" => /\ response.intents = Meaningful(text)
                            /\ response.deps = Wired(Meaningful(text))

\* Nobody has answered at first.
LEMMA AnswerBegins == GeneratorInit => AnswerInv
BY GeneratorAssumption DEF GeneratorInit, AnswerInv, GeneratorTypeOK, NoAnswer

\* Whoever answers, the answer fits the text.
LEMMA AnswerInvStep == AnswerInv /\ [GeneratorNext]_generatorVars => AnswerInv'
<1>. SUFFICES ASSUME AnswerInv, [GeneratorNext]_generatorVars PROVE AnswerInv'
  OBVIOUS
<1>1. ASSUME LlmAnswers PROVE AnswerInv'
  BY <1>1 DEF LlmAnswers, AnswerInv, GeneratorTypeOK
<1>2. ASSUME LlmFails PROVE AnswerInv'
  BY <1>2 DEF LlmFails, AnswerInv, GeneratorTypeOK
<1>3. ASSUME NlpAnswers PROVE AnswerInv'
  BY <1>3 DEF NlpAnswers, Answer, AnswerInv, GeneratorTypeOK
<1>4. ASSUME NlpFails PROVE AnswerInv'
  BY <1>4 DEF NlpFails, AnswerInv, GeneratorTypeOK
<1>5. ASSUME LegacyAnswers PROVE AnswerInv'
  <2>. DEFINE deps == IF LegacyTasks(text) = <<>> THEN <<{}>> ELSE LegacyDependencies(text)
              tasks == LegacyTasks(text)
  <2>1. /\ response' = IF LoadsAsGraph(deps) THEN Answer("legacy", deps, tasks) ELSE [by |-> "refused"]
        /\ asking' = "none" /\ text' = text
    BY <1>5 DEF LegacyAnswers
  <2>. HIDE DEF deps, tasks
  <2>2. response'.by \in {"legacy", "refused"}
    BY <2>1 DEF Answer
  <2>. QED
    BY <2>1, <2>2 DEF AnswerInv, GeneratorTypeOK
<1>6. ASSUME UNCHANGED generatorVars PROVE AnswerInv'
  BY <1>6 DEF generatorVars, AnswerInv, GeneratorTypeOK
<1>. QED
  BY <1>1, <1>2, <1>3, <1>4, <1>5, <1>6 DEF GeneratorNext

\* For any texts: a pipeline that the rules made is that of its sentences.
THEOREM AnswerInvariance == GeneratorSpec => []AnswerInv
BY AnswerBegins, AnswerInvStep, PTL DEF GeneratorSpec


\* An answer has the waves the text asks for.
LEMMA AnswersAreWaves == AnswerInv => SentencesBecomeWaves
<1>. SUFFICES ASSUME AnswerInv PROVE SentencesBecomeWaves
  OBVIOUS
<1>. DEFINE intents == Meaningful(text)
            deps == Wired(intents)
<1>1. PICK n \in Nat : DOMAIN intents = 1..n
  BY MeaningfulIs DEF AnswerInv, GeneratorTypeOK
<1>2. response.by = "nlp" => response.intents = intents /\ response.deps = deps
  BY DEF AnswerInv
<1>. HIDE DEF intents
<1>3. DOMAIN deps = 1..n
  BY <1>1, WiredIs
<1>4. IsInjective(Names(intents))
  BY <1>1, NamesDiffer
<1>5. /\ LoadsAsGraph(deps)
      /\ \A k \in 2..n :
           /\ ~intents[k].parallel => WaveOf(deps, k) = WaveOf(deps, k - 1) + 1
           /\ intents[k].parallel =>
                \/ WaveOf(deps, k) = WaveOf(deps, k - 1)
                \/ k > 2 /\ \A j \in 1..(k - 1) : WaveOf(deps, j) = 1
  BY <1>1, WavesAsked
<1>. HIDE DEF deps
<1>6. \A k \in 1..n : k > 1 => k \in 2..n
  OBVIOUS
<1>. QED
  BY <1>2, <1>3, <1>4, <1>5, <1>6, ConfigIs DEF SentencesBecomeWaves, intents, deps

\* The pattern engine makes of every text tasks with names of their own and
\* dependencies that load, in waves that follow the sentences and what they
\* say of parallelism, but for the third sentence of a parallel start; the
\* config of a task is its plugin's, but for three kinds of task.
THEOREM SentencesDoBecomeWaves == GeneratorSpec => []SentencesBecomeWaves
BY AnswersAreWaves, AnswerInvariance, PTL

(*****************************************************************************)
(* The columns that a statement selects, as the database sees them           *)
(*****************************************************************************)

\* What a walk returns: columns of tables, and notes of why it stopped.
Found == ((Asset \cup External) \X Name)
         \cup {<<"ambiguous">>, <<"unknown alias">>, <<"too deep">>, <<"not projected">>}

\* While the catalog stays, so does all that is read off a statement.
LEMMA EdgesRigid ==
  ASSUME NEW stmt, catalog' = catalog
  PROVE  /\ EdgesForScope(stmt)' = EdgesForScope(stmt)
         /\ TargetColumns(stmt)' = TargetColumns(stmt)
         /\ IsUnresolved(stmt)' = IsUnresolved(stmt)
<1>1. Walk(stmt)' = Walk(stmt)
  BY DEF Walk, ColumnBehind, Resolve, ResolveReference, Doubts, IsSettled, Candidates, ResolveInSource, SourceHasColumn, ColumnsOf
<1>2. EdgesForScope(stmt)' = EdgesForScope(stmt)
  BY DEF EdgesForScope, ProjectionEdges, ExpandStar, JoinKeyEdges, Behind, BehindPassed, Resolve, ResolveReference, Doubts, IsSettled, Candidates, ResolveInSource, SourceHasColumn, ColumnsOf, Walk, ColumnBehind
<1>3. TargetColumns(stmt)' = TargetColumns(stmt)
  BY DEF TargetColumns, EdgeTargets, EdgesForScope, ProjectionEdges, ExpandStar, JoinKeyEdges, Behind, BehindPassed, Resolve, ResolveReference, Doubts, IsSettled, Candidates, ResolveInSource, SourceHasColumn, ColumnsOf, Walk, ColumnBehind
<1>4. IsUnresolved(stmt)' = IsUnresolved(stmt)
  BY DEF IsUnresolved, EdgesForScope, ProjectionEdges, ExpandStar, JoinKeyEdges, Behind, BehindPassed, Resolve, ResolveReference, Doubts, IsSettled, Candidates, ResolveInSource, SourceHasColumn, ColumnsOf, Walk, ColumnBehind
<1>. QED
  BY <1>2, <1>3, <1>4

\* The statements that a file may hold, one of its SELECTs and one of its sources.
LEMMA StatementIs ==
  ASSUME NEW stmt, IsStatement(stmt)
  PROVE  /\ Len(stmt) \in Nat /\ Len(stmt) \in 1..Len(stmt) /\ DOMAIN stmt = 1..Len(stmt)
         /\ Top(stmt) = stmt[Len(stmt)]
<1>1. PICK D : stmt \in Seq(D) /\ stmt # <<>>
  BY DEF IsStatement
<1>2. Len(stmt) \in Nat /\ DOMAIN stmt = 1..Len(stmt) /\ Len(stmt) # 0
  BY <1>1, LenProperties, EmptySeq
<1>. QED
  BY <1>2 DEF Top

\* The columns of each SELECT, those of its stars computed from the ones before it.
LEMMA ColumnsWithinIs ==
  ASSUME NEW stmt, IsStatement(stmt), NEW tables \in [Asset \cup External -> SUBSET Column],
         NEW cols, cols = ColumnsWithin(stmt, tables)
  PROVE  /\ cols \in Seq(SUBSET Column) /\ Len(cols) = Len(stmt)
         /\ \A k \in 1..Len(stmt) : cols[k] \in SUBSET Column /\ cols[k] = Yields(stmt[k], cols, tables)
<1>. DEFINE n == Len(stmt)
            D == SUBSET Column
            body == [q \in (1..n) \X Seq(D) |-> Yields(stmt[q[1]], q[2], tables)]
            h == CHOOSE f : f = [k \in 0..n |->
                    IF k = 0 THEN <<>> ELSE Append(f[k - 1], Yields(stmt[k], f[k - 1], tables))]
            v == [k \in 1..n |-> Yields(stmt[k], h[k - 1], tables)]
<1>0. n \in Nat /\ DOMAIN stmt = 1..n
  BY StatementIs
<1>1. cols = h[n]
  BY DEF ColumnsWithin
<1>2. ASSUME NEW k \in 1..n, NEW s \in Seq(D), Len(s) = k - 1
      PROVE  Yields(stmt[k], s, tables) \in D
  <2>1. ASSUME NEW m \in DOMAIN stmt[k].from PROVE Shown(stmt[k].from[m], s, tables) \subseteq Column
    <3>1. CASE IsTable(stmt[k].from[m])
      <4>1. stmt[k].from[m].table \in Asset \cup External
        BY <1>0, <3>1 DEF IsStatement
      <4>. QED
        BY <3>1, <4>1 DEF Shown
    <3>2. CASE ~IsTable(stmt[k].from[m])
      <4>1. stmt[k].from[m].scope \in 1..(k - 1)
        BY <1>0, <3>2 DEF IsStatement
      <4>2. s[stmt[k].from[m].scope] \in D
        BY <1>2, <4>1, ElementOfSeq
      <4>. QED
        BY <3>2, <4>2 DEF Shown
    <3>. QED
      BY <3>1, <3>2
  <2>2. \A p \in stmt[k].projections : p.name \in Column \cup {Star}
    BY <1>0 DEF IsStatement, Name
  <2>. QED
    BY <2>1, <2>2 DEF Yields, Starred
<1>3. \E f \in [0..n -> Seq(D)] : IsGrowth(f, n, body)
  <2>1. \A k \in 1..n : \A s \in Seq(D) : Len(s) = k - 1 => body[<<k, s>>] \in D
    <3>. HIDE DEF D, n
    <3>. QED
      BY <1>2
  <2>. HIDE DEF body, D, n
  <2>. QED
    BY <1>0, <2>1, GrownExists
<1>4. \E f : f = [k \in 0..n |->
                    IF k = 0 THEN <<>> ELSE Append(f[k - 1], Yields(stmt[k], f[k - 1], tables))]
  <2>1. PICK f \in [0..n -> Seq(D)] : IsGrowth(f, n, body)
    BY <1>3
  <2>2. ASSUME NEW k \in 0..n, k # 0
        PROVE  body[<<k, f[k - 1]>>] = Yields(stmt[k], f[k - 1], tables)
    <3>1. k \in 1..n /\ k - 1 \in 0..n
      BY <1>0, <2>2
    <3>2. <<k, f[k - 1]>> \in (1..n) \X Seq(D)
      <4>. HIDE DEF body, D
      <4>. QED
        BY <2>1, <3>1
    <3>. HIDE DEF D, n
    <3>. QED
      BY <3>2
  <2>. HIDE DEF body, D, n
  <2>. QED
    BY <2>1, <2>2 DEF IsGrowth
<1>5. h = [k \in 0..n |-> IF k = 0 THEN <<>> ELSE Append(h[k - 1], Yields(stmt[k], h[k - 1], tables))]
  <2>. HIDE DEF n
  <2>. QED
    BY <1>4, Zenon
<1>. HIDE DEF h
<1>6. IsGrown(h, n, v)
  <2>1. \A k \in 0..n : k # 0 => v[k] = Yields(stmt[k], h[k - 1], tables)
    BY <1>0
  <2>. HIDE DEF v, n
  <2>. QED
    BY <1>5, <2>1 DEF IsGrown
<1>7. GrowsIn(h, n, v, D)
  <2>. HIDE DEF D, n
  <2>. QED
    BY <1>2 DEF GrowsIn
<1>8. Consists(h, n, v, D)
  <2>. HIDE DEF D, n, v
  <2>. QED
    BY <1>0, <1>6, <1>7, GrownIs
<1>9. ASSUME NEW k \in 1..n PROVE Yields(stmt[k], h[k - 1], tables) = Yields(stmt[k], h[n], tables)
  <2>1. ASSUME NEW m \in DOMAIN stmt[k].from
        PROVE  Shown(stmt[k].from[m], h[k - 1], tables) = Shown(stmt[k].from[m], h[n], tables)
    <3>1. CASE IsTable(stmt[k].from[m])
      BY <3>1 DEF Shown
    <3>2. CASE ~IsTable(stmt[k].from[m])
      <4>1. stmt[k].from[m].scope \in 1..(k - 1)
        BY <1>0, <3>2 DEF IsStatement
      <4>. QED
        BY <1>8, <3>2, <4>1 DEF Shown, Consists
    <3>. QED
      BY <3>1, <3>2
  <2>2. Starred(stmt[k]) \subseteq DOMAIN stmt[k].from
    BY DEF Starred
  <2>. QED
    BY <2>1, <2>2 DEF Yields
<1>. QED
  BY <1>1, <1>8, <1>9 DEF Consists

\* What the walk knows of a SELECT, by column and depth.
Walked == [Name -> [Nat -> SUBSET Found]]

\* A source is a table or a SELECT before the one that reads it.
LEMMA SourceIs ==
  ASSUME NEW stmt, IsStatement(stmt), NEW k \in 1..Len(stmt), NEW m \in DOMAIN stmt[k].from
  PROVE  \/ IsTable(stmt[k].from[m]) /\ stmt[k].from[m].table \in Asset \cup External
         \/ ~IsTable(stmt[k].from[m]) /\ stmt[k].from[m].scope \in 1..(k - 1)
<1>1. DOMAIN stmt = 1..Len(stmt)
  BY StatementIs
<1>. QED
  BY <1>1 DEF IsStatement

\* A reference resolves to sources of its SELECT.
LEMMA CandidatesAre ==
  ASSUME NEW stmt, NEW s, NEW ref
  PROVE  Candidates(stmt, s, ref) \subseteq DOMAIN s.from
BY DEF Candidates

\* A reference names a column, and o.* names an alias.
LEMMA ReferenceIs ==
  ASSUME NEW stmt, IsStatement(stmt), NEW k \in 1..Len(stmt),
         NEW ref \in stmt[k].on \cup UNION {p.reads : p \in stmt[k].projections}
  PROVE  ref.column \in Name /\ (ref.column = Star => ref.alias # Unqualified)
<1>1. DOMAIN stmt = 1..Len(stmt)
  BY StatementIs
<1>. QED
  BY <1>1 DEF IsStatement

\* Two walks that agree on the SELECTs before k.
AgreeBelow(k, inner, inner2) == \A j \in 1..(k - 1) : inner[j] = inner2[j]

\* What is behind a column of a SELECT depends on the SELECTs before it only.
LEMMA BehindLocal ==
  ASSUME NEW stmt, IsStatement(stmt), NEW k \in 1..Len(stmt), NEW inner, NEW inner2,
         AgreeBelow(k, inner, inner2), NEW c, NEW d
  PROVE  ColumnBehind(stmt, stmt[k], inner, c, d) = ColumnBehind(stmt, stmt[k], inner2, c, d)
<1>1. \A m \in DOMAIN stmt[k].from : \A col, depth :
        ResolveInSource(stmt[k].from[m], inner, col, depth) = ResolveInSource(stmt[k].from[m], inner2, col, depth)
  BY SourceIs DEF ResolveInSource, AgreeBelow
<1>2. \A ref, depth : ResolveReference(stmt, stmt[k], inner, ref, depth) = ResolveReference(stmt, stmt[k], inner2, ref, depth)
  BY <1>1, CandidatesAre DEF ResolveReference
<1>3. \A refs, depth : Resolve(stmt, stmt[k], inner, refs, depth) = Resolve(stmt, stmt[k], inner2, refs, depth)
  BY <1>2 DEF Resolve
<1>. QED
  BY <1>1, <1>3 DEF ColumnBehind

\* Behind a column are columns of tables and notes.
LEMMA BehindType ==
  ASSUME NEW stmt, IsStatement(stmt), NEW k \in 1..Len(stmt), NEW inner,
         \A j \in 1..(k - 1) : inner[j] \in Walked, NEW c \in Name, NEW d \in Nat
  PROVE  ColumnBehind(stmt, stmt[k], inner, c, d) \subseteq Found
<1>1. ASSUME NEW m \in DOMAIN stmt[k].from, NEW col \in Name, NEW depth \in Nat
      PROVE  ResolveInSource(stmt[k].from[m], inner, col, depth) \subseteq Found
  <2>1. CASE IsTable(stmt[k].from[m])
    BY <2>1, SourceIs DEF ResolveInSource, Found
  <2>2. CASE ~IsTable(stmt[k].from[m])
    <3>1. inner[stmt[k].from[m].scope] \in Walked
      BY <2>2, SourceIs
    <3>. HIDE DEF Found
    <3>. QED
      BY <2>2, <3>1 DEF ResolveInSource, Walked
  <2>. QED
    BY <2>1, <2>2
<1>2. ASSUME NEW refs, refs \subseteq stmt[k].on \cup UNION {p.reads : p \in stmt[k].projections}, NEW depth \in Nat
      PROVE  Resolve(stmt, stmt[k], inner, refs, depth) \subseteq Found
  <2>1. \A ref \in refs : ref.column \in Name
    BY <1>2, ReferenceIs
  <2>2. \A ref : Doubts(stmt, stmt[k], ref) \subseteq Found
    BY DEF Doubts, Found
  <2>3. <<"too deep">> \in Found
    BY DEF Found
  <2>4. ASSUME NEW ref \in refs PROVE ResolveReference(stmt, stmt[k], inner, ref, depth) \subseteq Found
    <3>1. \A n \in Candidates(stmt, stmt[k], ref) :
            ResolveInSource(stmt[k].from[n], inner, ref.column, depth) \subseteq Found
      BY <1>1, <2>1, CandidatesAre
    <3>. HIDE DEF Found
    <3>. QED
      BY <2>2, <3>1 DEF ResolveReference
  <2>. HIDE DEF Found
  <2>. QED
    BY <2>3, <2>4 DEF Resolve
<1>3. ASSUME NEW p \in ProjectionsNamed(stmt[k], c) PROVE Resolve(stmt, stmt[k], inner, p.reads, d + 1) \subseteq Found
  <2>1. p.reads \subseteq stmt[k].on \cup UNION {q.reads : q \in stmt[k].projections}
    BY DEF ProjectionsNamed
  <2>. QED
    BY <1>2, <2>1
<1>4. <<"not projected">> \in Found
  BY DEF Found
<1>5. \A m \in DOMAIN stmt[k].from : ResolveInSource(stmt[k].from[m], inner, c, d + 1) \subseteq Found
  BY <1>1
<1>. QED
  BY <1>3, <1>4, <1>5 DEF ColumnBehind

\* Walk is what its equation describes, for each SELECT.
LEMMA WalkIs ==
  ASSUME NEW stmt, IsStatement(stmt), NEW walk, walk = Walk(stmt)
  PROVE  /\ walk \in Seq(Walked) /\ Len(walk) = Len(stmt)
         /\ \A k \in 1..Len(stmt) :
              /\ walk[k] \in Walked
              /\ \A c \in Name, d \in Nat : walk[k][c][d] = ColumnBehind(stmt, stmt[k], walk, c, d)
<1>. DEFINE n == Len(stmt)
            D == Walked
            Of(k, s) == [c \in Name |-> [depth \in Nat |-> ColumnBehind(stmt, stmt[k], s, c, depth)]]
            body == [q \in (1..n) \X Seq(D) |-> Of(q[1], q[2])]
            h == CHOOSE f : f = [k \in 0..n |->
                    IF k = 0 THEN <<>> ELSE Append(f[k - 1], [c \in Name |-> [depth \in Nat |->
                                      ColumnBehind(stmt, stmt[k], f[k - 1], c, depth)]])]
            v == [k \in 1..n |-> Of(k, h[k - 1])]
<1>0. n \in Nat /\ DOMAIN stmt = 1..n
  BY StatementIs
<1>1. walk = h[n]
  BY DEF Walk
<1>2. ASSUME NEW k \in 1..n, NEW s \in Seq(D), Len(s) = k - 1
      PROVE  Of(k, s) \in D
  <2>1. \A j \in 1..(k - 1) : s[j] \in Walked
    <3>. HIDE DEF D
    <3>1. \A j \in 1..(k - 1) : s[j] \in D
      BY <1>2, ElementOfSeq
    <3>. QED
      BY <3>1 DEF D
  <2>2. \A c \in Name, d \in Nat : ColumnBehind(stmt, stmt[k], s, c, d) \in SUBSET Found
    BY <2>1, BehindType
  <2>. QED
    BY <2>2 DEF Walked
<1>. HIDE DEF Of
<1>3. \E f \in [0..n -> Seq(D)] : IsGrowth(f, n, body)
  <2>1. \A k \in 1..n : \A s \in Seq(D) : Len(s) = k - 1 => body[<<k, s>>] \in D
    <3>. HIDE DEF D, n
    <3>. QED
      BY <1>2
  <2>. HIDE DEF body, D, n
  <2>. QED
    BY <1>0, <2>1, GrownExists
<1>4. \E f : f = [k \in 0..n |-> IF k = 0 THEN <<>> ELSE Append(f[k - 1], Of(k, f[k - 1]))]
  <2>1. PICK f \in [0..n -> Seq(D)] : IsGrowth(f, n, body)
    BY <1>3
  <2>2. ASSUME NEW k \in 0..n, k # 0
        PROVE  body[<<k, f[k - 1]>>] = Of(k, f[k - 1])
    <3>1. k \in 1..n /\ k - 1 \in 0..n
      BY <1>0, <2>2
    <3>2. <<k, f[k - 1]>> \in (1..n) \X Seq(D)
      <4>. HIDE DEF body, D
      <4>. QED
        BY <2>1, <3>1
    <3>. HIDE DEF D, n
    <3>. QED
      BY <3>2
  <2>. HIDE DEF body, D, n
  <2>. QED
    BY <2>1, <2>2 DEF IsGrowth
<1>5. h = [k \in 0..n |-> IF k = 0 THEN <<>> ELSE Append(h[k - 1], Of(k, h[k - 1]))]
  <2>. HIDE DEF n
  <2>. QED
    BY <1>4, Zenon DEF Of
<1>. HIDE DEF h
<1>6. IsGrown(h, n, v)
  <2>1. \A k \in 0..n : k # 0 => v[k] = Of(k, h[k - 1])
    BY <1>0
  <2>. HIDE DEF v, n
  <2>. QED
    BY <1>5, <2>1 DEF IsGrown
<1>7. GrowsIn(h, n, v, D)
  <2>. HIDE DEF D, n
  <2>. QED
    BY <1>2 DEF GrowsIn
<1>8. Consists(h, n, v, D)
  <2>. HIDE DEF D, n, v
  <2>. QED
    BY <1>0, <1>6, <1>7, GrownIs
<1>9. ASSUME NEW k \in 1..n, NEW c \in Name, NEW d \in Nat
      PROVE  h[n][k][c][d] = ColumnBehind(stmt, stmt[k], h[n], c, d)
  <2>1. h[n][k] = Of(k, h[k - 1]) /\ \A j \in 1..(k - 1) : h[k - 1][j] = h[n][j]
    BY <1>8 DEF Consists
  <2>2. Of(k, h[k - 1])[c][d] = ColumnBehind(stmt, stmt[k], h[k - 1], c, d)
    BY DEF Of
  <2>3. ColumnBehind(stmt, stmt[k], h[k - 1], c, d) = ColumnBehind(stmt, stmt[k], h[n], c, d)
    <3>. DEFINE a == h[k - 1]
                b == h[n]
    <3>1. AgreeBelow(k, a, b)
      BY <2>1 DEF AgreeBelow
    <3>2. k \in 1..Len(stmt)
      OBVIOUS
    <3>. HIDE DEF a, b
    <3>3. ColumnBehind(stmt, stmt[k], a, c, d) = ColumnBehind(stmt, stmt[k], b, c, d)
      BY <3>1, <3>2, BehindLocal
    <3>. QED
      BY <3>3 DEF a, b
  <2>. QED
    BY ONLY <2>1, <2>2, <2>3
<1>. QED
  BY <1>1, <1>8, <1>9 DEF Consists

\* The columns that the tables have.
Shows(tables) == {y \in (Asset \cup External) \X Column : y[2] \in tables[y[1]]}
\* What each column of a SELECT may be computed from.
FedIn(tables) == [Column -> SUBSET Shows(tables)]

\* What a column is computed from depends on the SELECTs before its own only.
LEMMA FedLocal ==
  ASSUME NEW stmt, IsStatement(stmt), NEW k \in 1..Len(stmt), NEW inner, NEW inner2,
         AgreeBelow(k, inner, inner2), NEW c, NEW cols, NEW tables
  PROVE  ColumnFed(stmt[k], inner, c, cols, tables) = ColumnFed(stmt[k], inner2, c, cols, tables)
<1>1. \A m \in DOMAIN stmt[k].from : \A col :
        FedBySource(stmt[k].from[m], inner, col) = FedBySource(stmt[k].from[m], inner2, col)
  BY SourceIs DEF FedBySource, AgreeBelow
<1>2. \A ref : FedByReference(stmt[k], inner, ref, cols, tables) = FedByReference(stmt[k], inner2, ref, cols, tables)
  BY <1>1 DEF FedByReference, Meant
<1>3. \A refs : FedBy(stmt[k], inner, refs, cols, tables) = FedBy(stmt[k], inner2, refs, cols, tables)
  BY <1>2 DEF FedBy
<1>4. Starred(stmt[k]) \subseteq DOMAIN stmt[k].from
  BY DEF Starred
<1>. QED
  BY <1>1, <1>3, <1>4 DEF ColumnFed

\* A column shown by a source is computed from columns that tables have.
LEMMA FedBySourceType ==
  ASSUME NEW stmt, IsStatement(stmt), NEW tables \in [Asset \cup External -> SUBSET Column],
         NEW cols, cols = ColumnsWithin(stmt, tables), NEW k \in 1..Len(stmt), NEW inner,
         \A j \in 1..(k - 1) : inner[j] \in FedIn(tables),
         NEW m \in DOMAIN stmt[k].from, NEW c \in Shown(stmt[k].from[m], cols, tables)
  PROVE  c \in Column /\ FedBySource(stmt[k].from[m], inner, c) \subseteq Shows(tables)
<1>1. CASE IsTable(stmt[k].from[m])
  <2>1. stmt[k].from[m].table \in Asset \cup External /\ c \in tables[stmt[k].from[m].table]
    BY <1>1, SourceIs DEF Shown
  <2>2. c \in Column
    BY <2>1
  <2>. QED
    BY <1>1, <2>1, <2>2 DEF FedBySource, Shows
<1>2. CASE ~IsTable(stmt[k].from[m])
  <2>1. stmt[k].from[m].scope \in 1..(k - 1) /\ c \in cols[stmt[k].from[m].scope]
    BY <1>2, SourceIs DEF Shown
  <2>2. stmt[k].from[m].scope \in 1..Len(stmt)
    BY <2>1, StatementIs
  <2>3. c \in Column
    BY <2>1, <2>2, ColumnsWithinIs
  <2>4. inner[stmt[k].from[m].scope] \in FedIn(tables)
    BY <2>1
  <2>. QED
    BY <1>2, <2>3, <2>4 DEF FedBySource, FedIn
<1>. QED
  BY <1>1, <1>2

\* So is one that a reference means.
LEMMA FedByReferenceType ==
  ASSUME NEW stmt, IsStatement(stmt), NEW tables \in [Asset \cup External -> SUBSET Column],
         NEW cols, cols = ColumnsWithin(stmt, tables), NEW k \in 1..Len(stmt), NEW inner,
         \A j \in 1..(k - 1) : inner[j] \in FedIn(tables), NEW ref
  PROVE  FedByReference(stmt[k], inner, ref, cols, tables) \subseteq Shows(tables)
<1>1. ASSUME NEW n \in Meant(stmt[k], ref, cols, tables)
      PROVE  FedBySource(stmt[k].from[n], inner, ref.column) \subseteq Shows(tables)
  <2>1. n \in DOMAIN stmt[k].from /\ ref.column \in Shown(stmt[k].from[n], cols, tables)
    BY DEF Meant
  <2>. QED
    BY <2>1, FedBySourceType
<1>. QED
  BY <1>1 DEF FedByReference

\* And so is any column of a SELECT.
LEMMA FedType ==
  ASSUME NEW stmt, IsStatement(stmt), NEW tables \in [Asset \cup External -> SUBSET Column],
         NEW cols, cols = ColumnsWithin(stmt, tables), NEW k \in 1..Len(stmt), NEW inner,
         \A j \in 1..(k - 1) : inner[j] \in FedIn(tables), NEW c
  PROVE  ColumnFed(stmt[k], inner, c, cols, tables) \subseteq Shows(tables)
<1>1. \A ref : FedByReference(stmt[k], inner, ref, cols, tables) \subseteq Shows(tables)
  BY FedByReferenceType
<1>2. \A refs : FedBy(stmt[k], inner, refs, cols, tables) \subseteq Shows(tables)
  BY <1>1 DEF FedBy
<1>3. ASSUME NEW m \in Starred(stmt[k]), c \in Shown(stmt[k].from[m], cols, tables)
      PROVE  FedBySource(stmt[k].from[m], inner, c) \subseteq Shows(tables)
  <2>1. m \in DOMAIN stmt[k].from
    BY DEF Starred
  <2>. QED
    BY <1>3, <2>1, FedBySourceType
<1>. QED
  BY <1>2, <1>3 DEF ColumnFed

\* The equation of FedWithin.
FedAlong(stmt, cols, fed, tables) ==
  \A k \in 1..Len(stmt) :
    /\ fed[k] \in FedIn(tables)
    /\ \A c \in Column : fed[k][c] = ColumnFed(stmt[k], fed, c, cols, tables)

\* FedWithin is what its equation describes, for each SELECT.
LEMMA FedWithinIs ==
  ASSUME NEW stmt, IsStatement(stmt), NEW tables \in [Asset \cup External -> SUBSET Column],
         NEW cols, cols = ColumnsWithin(stmt, tables), NEW fed, fed = FedWithin(stmt, tables)
  PROVE  FedAlong(stmt, cols, fed, tables)
<1>. DEFINE n == Len(stmt)
            D == FedIn(tables)
            Of(k, s) == [c \in Column |-> ColumnFed(stmt[k], s, c, cols, tables)]
            body == [q \in (1..n) \X Seq(D) |-> Of(q[1], q[2])]
            h == CHOOSE f : f = [k \in 0..n |->
                    IF k = 0 THEN <<>> ELSE Append(f[k - 1], [c \in Column |->
                                      ColumnFed(stmt[k], f[k - 1], c, cols, tables)])]
            v == [k \in 1..n |-> Of(k, h[k - 1])]
<1>0. n \in Nat /\ DOMAIN stmt = 1..n
  BY StatementIs
<1>1. fed = h[n]
  BY DEF FedWithin
<1>2. ASSUME NEW k \in 1..n, NEW s \in Seq(D), Len(s) = k - 1
      PROVE  Of(k, s) \in D
  <2>1. \A j \in 1..(k - 1) : s[j] \in FedIn(tables)
    <3>. HIDE DEF D
    <3>1. \A j \in 1..(k - 1) : s[j] \in D
      BY <1>2, ElementOfSeq
    <3>. QED
      BY <3>1 DEF D
  <2>2. \A c \in Column : ColumnFed(stmt[k], s, c, cols, tables) \in SUBSET Shows(tables)
    BY <2>1, FedType
  <2>. QED
    BY <2>2 DEF FedIn
<1>. HIDE DEF Of
<1>3. \E f \in [0..n -> Seq(D)] : IsGrowth(f, n, body)
  <2>1. \A k \in 1..n : \A s \in Seq(D) : Len(s) = k - 1 => body[<<k, s>>] \in D
    <3>. HIDE DEF D, n
    <3>. QED
      BY <1>2
  <2>. HIDE DEF body, D, n
  <2>. QED
    BY <1>0, <2>1, GrownExists
<1>4. \E f : f = [k \in 0..n |-> IF k = 0 THEN <<>> ELSE Append(f[k - 1], Of(k, f[k - 1]))]
  <2>1. PICK f \in [0..n -> Seq(D)] : IsGrowth(f, n, body)
    BY <1>3
  <2>2. ASSUME NEW k \in 0..n, k # 0
        PROVE  body[<<k, f[k - 1]>>] = Of(k, f[k - 1])
    <3>1. k \in 1..n /\ k - 1 \in 0..n
      BY <1>0, <2>2
    <3>2. <<k, f[k - 1]>> \in (1..n) \X Seq(D)
      <4>. HIDE DEF body, D
      <4>. QED
        BY <2>1, <3>1
    <3>. HIDE DEF D, n
    <3>. QED
      BY <3>2
  <2>. HIDE DEF body, D, n
  <2>. QED
    BY <2>1, <2>2 DEF IsGrowth
<1>5. h = [k \in 0..n |-> IF k = 0 THEN <<>> ELSE Append(h[k - 1], Of(k, h[k - 1]))]
  <2>. HIDE DEF n
  <2>. QED
    BY <1>4, Zenon DEF Of
<1>. HIDE DEF h
<1>6. IsGrown(h, n, v)
  <2>1. \A k \in 0..n : k # 0 => v[k] = Of(k, h[k - 1])
    BY <1>0
  <2>. HIDE DEF v, n
  <2>. QED
    BY <1>5, <2>1 DEF IsGrown
<1>7. GrowsIn(h, n, v, D)
  <2>. HIDE DEF D, n
  <2>. QED
    BY <1>2 DEF GrowsIn
<1>8. Consists(h, n, v, D)
  <2>. HIDE DEF D, n, v
  <2>. QED
    BY <1>0, <1>6, <1>7, GrownIs
<1>9. ASSUME NEW k \in 1..n, NEW c \in Column
      PROVE  h[n][k][c] = ColumnFed(stmt[k], h[n], c, cols, tables)
  <2>1. h[n][k] = Of(k, h[k - 1]) /\ \A j \in 1..(k - 1) : h[k - 1][j] = h[n][j]
    BY <1>8 DEF Consists
  <2>2. Of(k, h[k - 1])[c] = ColumnFed(stmt[k], h[k - 1], c, cols, tables)
    BY DEF Of
  <2>3. ColumnFed(stmt[k], h[k - 1], c, cols, tables) = ColumnFed(stmt[k], h[n], c, cols, tables)
    <3>. DEFINE a == h[k - 1]
                b == h[n]
    <3>1. AgreeBelow(k, a, b)
      BY <2>1 DEF AgreeBelow
    <3>2. k \in 1..Len(stmt)
      OBVIOUS
    <3>. HIDE DEF a, b
    <3>3. ColumnFed(stmt[k], a, c, cols, tables) = ColumnFed(stmt[k], b, c, cols, tables)
      BY <3>1, <3>2, FedLocal
    <3>. QED
      BY <3>3 DEF a, b
  <2>. QED
    BY ONLY <2>1, <2>2, <2>3
<1>. QED
  BY <1>1, <1>8, <1>9 DEF Consists, FedAlong

(*****************************************************************************)
(* The tables that the files make                                            *)
(*****************************************************************************)

\* What tables may hold: the columns that are listed for the external ones.
Schemas == {tables \in [Asset \cup External -> SUBSET Column] : \A x \in External : tables[x] = Columns[x]}
\* The files that the assets may have.
AreFiles(files) == \A x \in Asset : files[x] \in Statements[x] \cup {NoModel, NotSql}

\* A file that parses is a statement.
LEMMA FileIs ==
  ASSUME NEW files, AreFiles(files), NEW x \in ParsedModels(files)
  PROVE  x \in Asset /\ IsStatement(files[x])
BY LineageAssumption DEF AreFiles, ParsedModels

\* Running the files gives tables.
LEMMA RunType ==
  ASSUME NEW files, AreFiles(files), NEW tables \in Schemas
  PROVE  Run(files, tables) \in Schemas
<1>1. tables \in [Asset \cup External -> SUBSET Column]
  BY DEF Schemas
<1>2. ASSUME NEW x \in ParsedModels(files)
      PROVE  ColumnsWithin(files[x], tables)[Len(files[x])] \in SUBSET Column
  <2>. DEFINE cols == ColumnsWithin(files[x], tables)
  <2>1. IsStatement(files[x])
    BY <1>2, FileIs
  <2>2. Len(files[x]) \in 1..Len(files[x])
    BY <2>1, StatementIs
  <2>3. \A k \in 1..Len(files[x]) : cols[k] \in SUBSET Column
    BY <1>1, <2>1, ColumnsWithinIs
  <2>. QED
    BY <2>2, <2>3
<1>3. \A x \in External : Columns[x] \in SUBSET Column
  BY LineageAssumption
<1>. QED
  BY <1>2, <1>3 DEF Run, Schemas

\* The tables after enough runs, which end in a run when there is a file.
LEMMA RealColumnsAre ==
  ASSUME NEW files, AreFiles(files), NEW real, real = RealColumns(files)
  PROVE  real \in Schemas /\ (Asset # {} => \E tables \in Schemas : real = Run(files, tables))
<1>. DEFINE n == Cardinality(Asset)
            e == [x \in Asset \cup External |-> IF x \in External THEN Columns[x] ELSE {}]
            step == [q \in (1..n) \X Schemas |-> Run(files, q[2])]
            h == CHOOSE f : f = [k \in 0..n |-> IF k = 0 THEN e ELSE Run(files, f[k - 1])]
<1>0. n \in Nat /\ (Asset # {} => n # 0)
  BY LineageAssumption, FS_CardinalityType, FS_EmptySet
<1>1. real = h[n]
  BY DEF RealColumns
<1>2. e \in Schemas
  BY LineageAssumption DEF Schemas
<1>. HIDE DEF e
<1>3. step \in [(1..n) \X Schemas -> Schemas]
  <2>1. \A q \in (1..n) \X Schemas : Run(files, q[2]) \in Schemas
    BY RunType
  <2>. QED
    BY <2>1
<1>4. PICK g \in [0..n -> Schemas] : IsRecursion(g, n, e, step)
  <2>. HIDE DEF n, step
  <2>. QED
    BY <1>0, <1>2, <1>3, RecursionExists
<1>5. g = [k \in 0..n |-> IF k = 0 THEN e ELSE Run(files, g[k - 1])]
  <2>1. ASSUME NEW k \in 0..n, k # 0 PROVE step[<<k, g[k - 1]>>] = Run(files, g[k - 1])
    <3>1. k \in 1..n /\ k - 1 \in 0..n
      BY <1>0, <2>1
    <3>2. <<k, g[k - 1]>> \in (1..n) \X Schemas
      BY <3>1
    <3>. QED
      BY <3>2
  <2>. HIDE DEF n, step
  <2>. QED
    BY <1>4, <2>1 DEF IsRecursion
<1>6. h = [k \in 0..n |-> IF k = 0 THEN e ELSE Run(files, h[k - 1])]
  <2>. HIDE DEF n
  <2>. QED
    BY <1>5, Zenon
<1>. HIDE DEF h
<1>. DEFINE C == {k \in 0..n : h[k] \in Schemas}
<1>7. 0 \in C
  BY <1>0, <1>2, <1>6
<1>8. ASSUME NEW k \in 1..n, k - 1 \in C PROVE k \in C
  <2>1. k \in 0..n /\ k # 0
    BY <1>0
  <2>2. h[k] = Run(files, h[k - 1])
    BY <1>6, <2>1
  <2>3. h[k - 1] \in Schemas
    BY <1>8
  <2>. QED
    BY <2>1, <2>2, <2>3, RunType
<1>9. 0..n \subseteq C
  <2>. HIDE DEF C, n
  <2>. QED
    BY <1>0, <1>7, <1>8, UptoInduct
<1>10. h[n] \in Schemas
  BY <1>0, <1>9
<1>11. ASSUME Asset # {} PROVE h[n] = Run(files, h[n - 1]) /\ h[n - 1] \in Schemas
  <2>1. n \in 0..n /\ n # 0 /\ n - 1 \in 0..n
    BY <1>0, <1>11
  <2>. HIDE DEF n
  <2>. QED
    BY <1>6, <1>9, <2>1
<1>. QED
  BY <1>1, <1>10, <1>11

\* The impact of a column holds those computed from it directly.
LEMMA ImpactIs ==
  ASSUME NEW graph, NEW col
  PROVE  Readers(graph, {col}) \ {col} \subseteq ColumnImpact(graph, col)
<1>. DEFINE n == MaxHops
            U == {col} \cup (UNION {{<<x, e.target>> : e \in graph[x]} : x \in Asset})
            step == [q \in (1..n) \X (SUBSET U) |-> q[2] \cup Readers(graph, q[2])]
            h == CHOOSE f : f = [k \in 0..n |-> IF k = 0 THEN {col} ELSE f[k - 1] \cup Readers(graph, f[k - 1])]
<1>0. n \in Nat /\ n # 0
  BY LineageAssumption
<1>1. ColumnImpact(graph, col) = h[n] \ {col}
  BY DEF ColumnImpact
<1>2. \A cols : Readers(graph, cols) \subseteq U
  BY DEF Readers
<1>3. step \in [(1..n) \X (SUBSET U) -> SUBSET U]
  <2>. HIDE DEF U
  <2>. QED
    BY <1>2
<1>4. {col} \in SUBSET U
  OBVIOUS
<1>5. PICK g \in [0..n -> SUBSET U] : IsRecursion(g, n, {col}, step)
  <2>. HIDE DEF n, step, U
  <2>. QED
    BY <1>0, <1>3, <1>4, RecursionExists
<1>6. g = [k \in 0..n |-> IF k = 0 THEN {col} ELSE g[k - 1] \cup Readers(graph, g[k - 1])]
  <2>. HIDE DEF U
  <2>1. ASSUME NEW k \in 0..n, k # 0 PROVE step[<<k, g[k - 1]>>] = g[k - 1] \cup Readers(graph, g[k - 1])
    <3>1. k \in 1..n /\ k - 1 \in 0..n
      BY <1>0, <2>1
    <3>2. <<k, g[k - 1]>> \in (1..n) \X (SUBSET U)
      BY <3>1
    <3>. QED
      BY <3>2
  <2>. HIDE DEF n, step
  <2>. QED
    BY <1>5, <2>1 DEF IsRecursion
<1>7. h = [k \in 0..n |-> IF k = 0 THEN {col} ELSE h[k - 1] \cup Readers(graph, h[k - 1])]
  <2>. HIDE DEF n
  <2>. QED
    BY <1>6, Zenon
<1>. HIDE DEF h, U, step
<1>. DEFINE C == {k \in 0..n : k = 0 \/ Readers(graph, {col}) \subseteq h[k]}
<1>8. 0 \in C
  BY <1>0
<1>9. ASSUME NEW k \in 1..n, k - 1 \in C PROVE k \in C
  <2>1. k \in 0..n /\ k # 0
    BY <1>0
  <2>2. h[k] = h[k - 1] \cup Readers(graph, h[k - 1])
    BY <1>7, <2>1
  <2>3. CASE k - 1 = 0
    <3>1. 0 \in 0..n /\ h[0] = {col}
      BY <1>0, <1>7
    <3>. QED
      BY <2>1, <2>2, <2>3, <3>1
  <2>4. CASE k - 1 # 0
    BY <1>9, <2>1, <2>2, <2>4
  <2>. QED
    BY <2>3, <2>4
<1>10. 0..n \subseteq C
  <2>. HIDE DEF C, n
  <2>. QED
    BY <1>0, <1>8, <1>9, UptoInduct
<1>11. n \in C
  BY <1>0, <1>10
<1>. QED
  BY <1>0, <1>1, <1>11

(*****************************************************************************)
(* What the walk finds                                                       *)
(*****************************************************************************)

\* The references of a SELECT.
References(s) == s.on \cup (UNION {p.reads : p \in s.projections})

\* What the walk found holds what the columns of the SELECTs before k are computed from.
FindsBelow(k, walk, fed) ==
  \A j \in 1..(k - 1) : \A c \in Column, d \in Nat :
    NotesAmong(walk[j][c][d]) = {} => fed[j][c] \subseteq walk[j][c][d]

\* What is found without a note has no part with a note.
LEMMA NoNotes ==
  ASSUME NEW A, NEW B, A \subseteq B, NotesAmong(B) = {}
  PROVE  NotesAmong(A) = {}
BY DEF NotesAmong

\* The notes that a walk leaves.
LEMMA NotesIs ==
  /\ <<"too deep">> \in NotesAmong({<<"too deep">>}) /\ <<"ambiguous">> \in NotesAmong({<<"ambiguous">>})
  /\ <<"unknown alias">> \in NotesAmong({<<"unknown alias">>})
  /\ <<"not projected">> \in NotesAmong({<<"not projected">>})
BY DEF NotesAmong

\* A source that the resolver takes for one with the column does have it.
LEMMA HasIsShown ==
  ASSUME NEW stmt, IsStatement(stmt), NEW k \in 1..Len(stmt), NEW m \in DOMAIN stmt[k].from,
         NEW tables \in Schemas, NEW cols, cols = ColumnsWithin(stmt, tables), catalog \subseteq External,
         NEW c, c # Star, SourceHasColumn(stmt, stmt[k].from[m], c)
  PROVE  c \in Shown(stmt[k].from[m], cols, tables)
<1>1. CASE IsTable(stmt[k].from[m])
  <2>1. c \in ColumnsOf(stmt[k].from[m].table)
    BY <1>1 DEF SourceHasColumn
  <2>2. stmt[k].from[m].table \in External /\ c \in Columns[stmt[k].from[m].table]
    BY <2>1 DEF ColumnsOf
  <2>. QED
    BY <1>1, <2>2 DEF Shown, Schemas
<1>2. CASE ~IsTable(stmt[k].from[m])
  <2>. DEFINE j == stmt[k].from[m].scope
  <2>1. j \in 1..(k - 1)
    BY <1>2, SourceIs
  <2>2. j \in 1..Len(stmt)
    BY <2>1, StatementIs
  <2>3. cols[j] = Yields(stmt[j], cols, tables)
    BY <2>2, ColumnsWithinIs DEF Schemas
  <2>4. ProjectionsNamed(stmt[j], c) # {}
    BY <1>2 DEF SourceHasColumn
  <2>5. c \in {p.name : p \in stmt[j].projections}
    BY <2>4 DEF ProjectionsNamed
  <2>. HIDE DEF j
  <2>6. c \in cols[j]
    BY <2>3, <2>5 DEF Yields
  <2>. QED
    BY <1>2, <2>6 DEF Shown, j
<1>. QED
  BY <1>1, <1>2

\* The source that the database takes a reference to mean is one that the
\* resolver looks into, when it has no doubts.
LEMMA MeantIsCandidate ==
  ASSUME NEW stmt, IsStatement(stmt), NEW k \in 1..Len(stmt),
         NEW tables \in Schemas, NEW cols, cols = ColumnsWithin(stmt, tables), catalog \subseteq External,
         NEW ref \in References(stmt[k]), Doubts(stmt, stmt[k], ref) = {},
         NEW n \in Meant(stmt[k], ref, cols, tables)
  PROVE  n \in Candidates(stmt, stmt[k], ref)
<1>. DEFINE s == stmt[k]
            narrowed == {m \in DOMAIN s.from : SourceHasColumn(stmt, s.from[m], ref.column)}
<1>1. /\ n \in DOMAIN s.from /\ ref.alias \in {Unqualified, n}
      /\ \A m \in DOMAIN s.from :
           ref.alias \in {Unqualified, m} /\ ref.column \in Shown(s.from[m], cols, tables) => m = n
  BY DEF Meant
<1>2. CASE ref.alias # Unqualified
  BY <1>1, <1>2 DEF Candidates
<1>3. CASE ref.alias = Unqualified /\ \E m \in DOMAIN s.from : narrowed = {m}
  <2>1. PICK m \in DOMAIN s.from : narrowed = {m}
    BY <1>3
  <2>2. ref.column # Star
    BY <1>3, ReferenceIs DEF References
  <2>3. SourceHasColumn(stmt, s.from[m], ref.column)
    BY <2>1
  <2>4. ref.column \in Shown(s.from[m], cols, tables)
    BY <2>2, <2>3, HasIsShown
  <2>5. m = n
    BY <1>1, <1>3, <2>4
  <2>6. Candidates(stmt, s, ref) = narrowed
    BY <1>3 DEF Candidates
  <2>. QED
    BY <2>1, <2>5, <2>6
<1>4. CASE ref.alias = Unqualified /\ ~\E m \in DOMAIN s.from : narrowed = {m}
  <2>1. Candidates(stmt, s, ref) = DOMAIN s.from
    BY <1>4 DEF Candidates
  <2>. QED
    BY <1>1, <2>1
<1>. QED
  BY <1>2, <1>3, <1>4

\* A source: the walk finds what its column is computed from, or leaves a note.
LEMMA SourceFinds ==
  ASSUME NEW stmt, IsStatement(stmt), NEW k \in 1..Len(stmt), NEW m \in DOMAIN stmt[k].from,
         NEW tables \in Schemas, NEW cols, cols = ColumnsWithin(stmt, tables),
         NEW walk, NEW fed, FindsBelow(k, walk, fed),
         NEW c \in Shown(stmt[k].from[m], cols, tables), NEW d \in Nat,
         NotesAmong(ResolveInSource(stmt[k].from[m], walk, c, d)) = {}
  PROVE  FedBySource(stmt[k].from[m], fed, c) \subseteq ResolveInSource(stmt[k].from[m], walk, c, d)
<1>1. CASE IsTable(stmt[k].from[m])
  BY <1>1 DEF FedBySource, ResolveInSource
<1>2. CASE ~IsTable(stmt[k].from[m])
  <2>. DEFINE j == stmt[k].from[m].scope
  <2>1. j \in 1..(k - 1) /\ c \in cols[j]
    BY <1>2, SourceIs DEF Shown
  <2>2. j \in 1..Len(stmt)
    BY <2>1, StatementIs
  <2>3. c \in Column
    BY <2>1, <2>2, ColumnsWithinIs DEF Schemas
  <2>4. ResolveInSource(stmt[k].from[m], walk, c, d) = walk[j][c][d] /\ FedBySource(stmt[k].from[m], fed, c) = fed[j][c]
    BY <1>2 DEF FedBySource, ResolveInSource
  <2>. HIDE DEF j
  <2>. QED
    BY <2>1, <2>3, <2>4 DEF FindsBelow
<1>. QED
  BY <1>1, <1>2

\* References: the same of all they mean.
LEMMA ResolveFinds ==
  ASSUME NEW stmt, IsStatement(stmt), NEW k \in 1..Len(stmt),
         NEW tables \in Schemas, NEW cols, cols = ColumnsWithin(stmt, tables), catalog \subseteq External,
         NEW walk, NEW fed, FindsBelow(k, walk, fed),
         NEW refs \in SUBSET References(stmt[k]), NEW d \in Nat,
         NotesAmong(Resolve(stmt, stmt[k], walk, refs, d)) = {}
  PROVE  FedBy(stmt[k], fed, refs, cols, tables) \subseteq Resolve(stmt, stmt[k], walk, refs, d)
<1>1. ASSUME NEW ref \in refs, NEW n \in Meant(stmt[k], ref, cols, tables)
      PROVE  FedBySource(stmt[k].from[n], fed, ref.column) \subseteq Resolve(stmt, stmt[k], walk, refs, d)
  <2>1. ~(d > MaxDepth)
    <3>. SUFFICES ASSUME d > MaxDepth PROVE FALSE
      OBVIOUS
    <3>1. <<"too deep">> \in Resolve(stmt, stmt[k], walk, refs, d)
      BY DEF Resolve
    <3>2. {<<"too deep">>} \subseteq Resolve(stmt, stmt[k], walk, refs, d)
      BY <3>1
    <3>. QED
      BY <3>2, NoNotes, NotesIs
  <2>2. ResolveReference(stmt, stmt[k], walk, ref, d) \subseteq Resolve(stmt, stmt[k], walk, refs, d)
    BY <2>1 DEF Resolve
  <2>3. NotesAmong(ResolveReference(stmt, stmt[k], walk, ref, d)) = {}
    BY <2>2, NoNotes
  <2>4. Doubts(stmt, stmt[k], ref) = {}
    <3>. SUFFICES ASSUME Doubts(stmt, stmt[k], ref) # {} PROVE FALSE
      OBVIOUS
    <3>1. PICK note \in {<<"ambiguous">>, <<"unknown alias">>} : note \in Doubts(stmt, stmt[k], ref)
      BY DEF Doubts
    <3>2. {note} \subseteq ResolveReference(stmt, stmt[k], walk, ref, d)
      BY <3>1 DEF ResolveReference
    <3>3. NotesAmong({note}) = {}
      BY <2>3, <3>2, NoNotes
    <3>. QED
      BY <3>1, <3>3, NotesIs
  <2>5. n \in Candidates(stmt, stmt[k], ref)
    BY <2>4, MeantIsCandidate
  <2>6. ResolveInSource(stmt[k].from[n], walk, ref.column, d) \subseteq ResolveReference(stmt, stmt[k], walk, ref, d)
    BY <2>5 DEF ResolveReference
  <2>7. NotesAmong(ResolveInSource(stmt[k].from[n], walk, ref.column, d)) = {}
    BY <2>3, <2>6, NoNotes
  <2>8. n \in DOMAIN stmt[k].from /\ ref.column \in Shown(stmt[k].from[n], cols, tables)
    BY DEF Meant
  <2>9. FedBySource(stmt[k].from[n], fed, ref.column) \subseteq ResolveInSource(stmt[k].from[n], walk, ref.column, d)
    BY <2>7, <2>8, SourceFinds
  <2>. QED
    BY <2>2, <2>6, <2>9
<1>2. \A ref \in refs : FedByReference(stmt[k], fed, ref, cols, tables) \subseteq Resolve(stmt, stmt[k], walk, refs, d)
  BY <1>1 DEF FedByReference
<1>. QED
  BY <1>2 DEF FedBy

\* A column of a SELECT: the same of its projections and stars.
LEMMA ColumnFinds ==
  ASSUME NEW stmt, IsStatement(stmt), NEW k \in 1..Len(stmt),
         NEW tables \in Schemas, NEW cols, cols = ColumnsWithin(stmt, tables), catalog \subseteq External,
         NEW walk, NEW fed, FindsBelow(k, walk, fed),
         NEW c \in Column, NEW d \in Nat,
         NotesAmong(ColumnBehind(stmt, stmt[k], walk, c, d)) = {}
  PROVE  ColumnFed(stmt[k], fed, c, cols, tables) \subseteq ColumnBehind(stmt, stmt[k], walk, c, d)
<1>. DEFINE s == stmt[k]
            B == ColumnBehind(stmt, s, walk, c, d)
<1>1. CASE ProjectionsNamed(s, c) # {}
  <2>1. ASSUME NEW p \in ProjectionsNamed(s, c) PROVE FedBy(s, fed, p.reads, cols, tables) \subseteq B
    <3>1. Resolve(stmt, s, walk, p.reads, d + 1) \subseteq B
      BY <1>1 DEF ColumnBehind
    <3>2. NotesAmong(Resolve(stmt, s, walk, p.reads, d + 1)) = {}
      BY <3>1, NoNotes
    <3>3. p.reads \in SUBSET References(s)
      BY DEF ProjectionsNamed, References
    <3>4. FedBy(s, fed, p.reads, cols, tables) \subseteq Resolve(stmt, s, walk, p.reads, d + 1)
      <4>. DEFINE e == d + 1
                  refs == p.reads
      <4>1. e \in Nat
        OBVIOUS
      <4>. HIDE DEF e, refs, B, s
      <4>2. NotesAmong(Resolve(stmt, stmt[k], walk, refs, e)) = {} /\ refs \in SUBSET References(stmt[k])
        BY <3>2, <3>3 DEF e, refs, s
      <4>3. FedBy(stmt[k], fed, refs, cols, tables) \subseteq Resolve(stmt, stmt[k], walk, refs, e)
        BY <4>1, <4>2, ResolveFinds
      <4>. QED
        BY <4>3 DEF e, refs, s
    <3>. QED
      BY <3>1, <3>4
  <2>. QED
    BY <1>1, <2>1 DEF ColumnFed
<1>2. CASE ProjectionsNamed(s, c) = {}
  <2>1. CASE HasStar(s)
    <3>1. ASSUME NEW n \in DOMAIN s.from, c \in Shown(s.from[n], cols, tables)
          PROVE  FedBySource(s.from[n], fed, c) \subseteq B
      <4>1. ResolveInSource(s.from[n], walk, c, d + 1) \subseteq B
        BY <1>2, <2>1 DEF ColumnBehind
      <4>2. NotesAmong(ResolveInSource(s.from[n], walk, c, d + 1)) = {}
        BY <4>1, NoNotes
      <4>3. d + 1 \in Nat
        OBVIOUS
      <4>4. FedBySource(s.from[n], fed, c) \subseteq ResolveInSource(s.from[n], walk, c, d + 1)
        BY <3>1, <4>2, <4>3, SourceFinds
      <4>. QED
        BY <4>1, <4>4
    <3>2. Starred(s) \subseteq DOMAIN s.from
      BY DEF Starred
    <3>. QED
      BY <1>2, <3>1, <3>2 DEF ColumnFed
  <2>2. CASE ~HasStar(s)
    <3>1. B = {<<"not projected">>}
      BY <1>2, <2>2 DEF ColumnBehind
    <3>. QED
      BY <3>1, NotesIs
  <2>. QED
    BY <2>1, <2>2
<1>. QED
  BY <1>1, <1>2

\* Every SELECT: the walk finds all that a column is computed from, unless it
\* leaves a note; so the resolver of column_lineage.py misses nothing silently.
LEMMA WalkFinds ==
  ASSUME NEW stmt, IsStatement(stmt),
         NEW tables \in Schemas, NEW cols, cols = ColumnsWithin(stmt, tables), catalog \subseteq External,
         NEW walk, walk = Walk(stmt), NEW fed, fed = FedWithin(stmt, tables)
  PROVE  \A k \in 1..Len(stmt) : FindsBelow(k, walk, fed)
<1>5. FedAlong(stmt, cols, fed, tables)
  <2>1. tables \in [Asset \cup External -> SUBSET Column]
    BY DEF Schemas
  <2>2. IsStatement(stmt) /\ cols = ColumnsWithin(stmt, tables) /\ fed = FedWithin(stmt, tables)
    OBVIOUS
  <2>. QED
    BY ONLY <2>1, <2>2, FedWithinIs
<1>. DEFINE n == Len(stmt)
            Finds(j) == \A c \in Column, d \in Nat :
                          NotesAmong(walk[j][c][d]) = {} => fed[j][c] \subseteq walk[j][c][d]
            C == {k \in 0..n : \A j \in 1..k : Finds(j)}
<1>0. n \in Nat
  BY StatementIs
<1>1. 0 \in C
  <2>1. 1..0 = {}
    OBVIOUS
  <2>. QED
    BY <1>0, <2>1
<1>2. ASSUME NEW k \in 1..n, k - 1 \in C PROVE k \in C
  <2>1. FindsBelow(k, walk, fed)
    BY <1>2 DEF FindsBelow
  <2>2. Finds(k)
    <3>1. ASSUME NEW c \in Column, NEW d \in Nat, NotesAmong(walk[k][c][d]) = {}
          PROVE  fed[k][c] \subseteq walk[k][c][d]
      <4>1. walk[k][c][d] = ColumnBehind(stmt, stmt[k], walk, c, d)
        BY WalkIs DEF Name
      <4>3. fed[k][c] = ColumnFed(stmt[k], fed, c, cols, tables)
        BY <1>5 DEF FedAlong
      <4>. QED
        BY <2>1, <3>1, <4>1, <4>3, ColumnFinds
    <3>. QED
      BY <3>1
  <2>3. \A j \in 1..k : j = k \/ j \in 1..(k - 1)
    OBVIOUS
  <2>4. \A j \in 1..(k - 1) : Finds(j)
    BY <1>2
  <2>. HIDE DEF Finds
  <2>. QED
    BY <1>0, <2>2, <2>3, <2>4
<1>3. 0..n \subseteq C
  <2>. HIDE DEF C, n
  <2>. QED
    BY <1>0, <1>1, <1>2, UptoInduct
<1>4. \A k \in 1..n : k - 1 \in C
  BY <1>0, <1>3
<1>. QED
  BY <1>4 DEF FindsBelow

\* A statement computes only from columns that its tables have, and reads each
\* of them by an edge unless it is unresolved.
LEMMA FeedsAre ==
  ASSUME NEW stmt, IsStatement(stmt), NEW tables \in Schemas, catalog \subseteq External,
         NEW x \in Feeds(stmt, tables)
  PROVE  /\ x \in Shows(tables)
         /\ IsUnresolved(stmt) \/ \E e \in EdgesForScope(stmt) : e.source = x
<1>. DEFINE k == Len(stmt)
            s == stmt[k]
            cols == ColumnsWithin(stmt, tables)
            walk == Walk(stmt)
            fed == FedWithin(stmt, tables)
            refs == s.on \cup Reads(s)
<1>0. k \in 1..Len(stmt) /\ Top(stmt) = s
  BY StatementIs
<1>. HIDE DEF k, s, cols, walk, fed
<1>1. FindsBelow(k, walk, fed)
  <2>1. cols = ColumnsWithin(stmt, tables) /\ walk = Walk(stmt) /\ fed = FedWithin(stmt, tables)
    BY DEF cols, walk, fed
  <2>. QED
    BY <1>0, <2>1, WalkFinds
<1>2. \A j \in 1..(k - 1) : fed[j] \in FedIn(tables)
  <2>1. tables \in [Asset \cup External -> SUBSET Column]
    BY DEF Schemas
  <2>2. cols = ColumnsWithin(stmt, tables) /\ fed = FedWithin(stmt, tables)
    BY DEF cols, fed
  <2>3. FedAlong(stmt, cols, fed, tables)
    BY <2>1, <2>2, FedWithinIs
  <2>4. \A j \in 1..(k - 1) : j \in 1..Len(stmt)
    BY <1>0, StatementIs
  <2>. QED
    BY <2>3, <2>4 DEF FedAlong
<1>3. PICK ref \in refs : x \in FedByReference(s, fed, ref, cols, tables)
  BY <1>0 DEF Feeds, FedBy, fed, cols
<1>4. x \in Shows(tables)
  <2>1. tables \in [Asset \cup External -> SUBSET Column]
    BY DEF Schemas
  <2>2. FedByReference(s, fed, ref, cols, tables) \subseteq Shows(tables)
    BY <1>0, <1>2, <2>1, FedByReferenceType DEF cols, s
  <2>. QED
    BY <1>3, <2>2
<1>5. ASSUME ~IsUnresolved(stmt), NEW R \in SUBSET refs, ref \in R PROVE x \in ColumnsAmong(Behind(stmt, R))
  <2>1. NotesAmong(Behind(stmt, refs)) = {}
    BY <1>0, <1>5 DEF IsUnresolved
  <2>2. Behind(stmt, R) \subseteq Behind(stmt, refs)
    BY DEF Behind, Resolve
  <2>3. NotesAmong(Resolve(stmt, s, walk, R, 0)) = {}
    BY <1>0, <2>1, <2>2, NoNotes DEF Behind, walk
  <2>4. R \in SUBSET References(s)
    BY DEF References, Reads, Plain
  <2>5. FedBy(s, fed, R, cols, tables) \subseteq Resolve(stmt, s, walk, R, 0)
    <3>1. 0 \in Nat /\ cols = ColumnsWithin(stmt, tables) /\ s = stmt[k]
      BY DEF cols, s
    <3>. HIDE DEF refs
    <3>2. ASSUME NEW d \in Nat, NotesAmong(Resolve(stmt, stmt[k], walk, R, d)) = {}
          PROVE  FedBy(stmt[k], fed, R, cols, tables) \subseteq Resolve(stmt, stmt[k], walk, R, d)
      BY <1>0, <1>1, <2>4, <3>1, <3>2, ResolveFinds
    <3>. QED
      BY <2>3, <3>1, <3>2
  <2>6. x \in Behind(stmt, R)
    BY <1>0, <1>3, <1>5, <2>5 DEF FedBy, Behind, walk
  <2>7. Len(x) = 2
    <3>1. x \in (Asset \cup External) \X Column
      BY <1>4 DEF Shows
    <3>2. PICK t \in Asset \cup External, c \in Column : x = <<t, c>>
      BY <3>1
    <3>. QED
      BY <3>2
  <2>. QED
    BY <2>6, <2>7 DEF ColumnsAmong
<1>6. ASSUME ~IsUnresolved(stmt) PROVE \E e \in EdgesForScope(stmt) : e.source = x
  <2>1. CASE ref \in s.on
    <3>1. x \in ColumnsAmong(Behind(stmt, s.on))
      BY <1>5, <1>6, <2>1
    <3>2. Edge(Rows, x, "join_key") \in EdgesForScope(stmt)
      BY <1>0, <3>1 DEF EdgesForScope, JoinKeyEdges
    <3>. QED
      BY <3>2 DEF Edge
  <2>2. CASE ref \notin s.on
    <3>1. PICK p \in Plain(s) : ref \in p.reads
      BY <2>2 DEF Reads
    <3>2. p.reads \in SUBSET refs
      BY DEF Reads
    <3>3. x \in ColumnsAmong(Behind(stmt, p.reads))
      BY <1>5, <1>6, <3>1, <3>2
    <3>4. \E e \in ProjectionEdges(stmt, p) : e.source = x
      <4>. DEFINE found == Behind(stmt, p.reads)
                  kind == IF <<"ambiguous">> \in found THEN "ambiguous" ELSE "column"
      <4>1. ProjectionEdges(stmt, p) = {Edge(p.name, y, kind) : y \in ColumnsAmong(found)}
        BY <3>3 DEF ProjectionEdges
      <4>. HIDE DEF kind
      <4>2. Edge(p.name, x, kind) \in ProjectionEdges(stmt, p)
        BY <3>3, <4>1
      <4>. QED
        BY <4>2 DEF Edge
    <3>. QED
      BY <1>0, <3>4 DEF EdgesForScope
  <2>. QED
    BY <2>1, <2>2
<1>. QED
  BY <1>4, <1>6

\* A column of a model without a star is one that the check knows of.
LEMMA ColumnIsTarget ==
  ASSUME NEW stmt, IsStatement(stmt), NEW tables \in Schemas, catalog \subseteq External,
         Star \notin TargetColumns(stmt), NEW c \in ColumnsWithin(stmt, tables)[Len(stmt)]
  PROVE  c \in TargetColumns(stmt)
<1>. DEFINE k == Len(stmt)
            s == stmt[k]
            cols == ColumnsWithin(stmt, tables)
<1>0. k \in 1..Len(stmt) /\ Top(stmt) = s /\ c \in cols[k]
  BY StatementIs
<1>1. \A j \in 1..Len(stmt) : cols[j] \in SUBSET Column /\ cols[j] = Yields(stmt[j], cols, tables)
  BY ColumnsWithinIs DEF Schemas
<1>. HIDE DEF k, cols
<1>2. c \in Column
  BY <1>0, <1>1
<1>3. CASE c \in {p.name : p \in s.projections} \ {Star}
  <2>1. PICK p \in s.projections : p.name = c /\ c # Star
    BY <1>3
  <2>2. p.star \in BOOLEAN /\ (p.star => p.name = Star)
    BY <1>0, StatementIs DEF IsStatement
  <2>3. p \in Plain(s)
    BY <2>1, <2>2 DEF Plain
  <2>. QED
    BY <1>0, <2>1, <2>3 DEF TargetColumns
<1>4. ASSUME NEW n \in Starred(s), c \in Shown(s.from[n], cols, tables) PROVE c \in TargetColumns(stmt)
  <2>1. n \in DOMAIN s.from
    BY DEF Starred
  <2>2. PICK p \in s.projections : p.name = Star /\ (p.star \/ \E ref \in p.reads : ref.alias = n)
    BY <1>4 DEF Starred, ProjectionsNamed
  <2>3. p.star
    <3>. SUFFICES ASSUME ~p.star PROVE FALSE
      OBVIOUS
    <3>1. p \in Plain(s)
      BY DEF Plain
    <3>. QED
      BY <1>0, <2>2, <3>1 DEF TargetColumns
  <2>4. HasStar(s)
    BY <2>3 DEF HasStar
  <2>5. CASE IsTable(s.from[n])
    <3>. DEFINE t == s.from[n].table
    <3>1. t \in StarTables(stmt)
      BY <1>0, <2>1, <2>4, <2>5 DEF StarTables
    <3>2. ColumnsOf(t) # {}
      <4>. SUFFICES ASSUME ColumnsOf(t) = {} PROVE FALSE
        OBVIOUS
      <4>1. Edge(Star, <<t, Star>>, "unresolved_star") \in ExpandStar(stmt)
        BY <3>1 DEF ExpandStar
      <4>2. Star \in EdgeTargets(stmt)
        BY <4>1 DEF EdgeTargets, EdgesForScope, Edge
      <4>3. Star # Rows
        BY DEF Star, Rows
      <4>. QED
        BY <4>2, <4>3 DEF TargetColumns
    <3>3. t \in External /\ ColumnsOf(t) = tables[t]
      BY <3>2 DEF ColumnsOf, Schemas
    <3>4. c \in ColumnsOf(t)
      BY <1>4, <2>5, <3>3 DEF Shown
    <3>. HIDE DEF t
    <3>5. Edge(c, <<t, c>>, "column") \in ExpandStar(stmt)
      BY <3>1, <3>4 DEF ExpandStar
    <3>6. c \in EdgeTargets(stmt)
      BY <3>5 DEF EdgeTargets, EdgesForScope, Edge
    <3>7. c # Rows
      BY <1>2, LineageAssumption
    <3>. QED
      BY <3>6, <3>7 DEF TargetColumns
  <2>6. CASE ~IsTable(s.from[n])
    <3>. DEFINE j == s.from[n].scope
    <3>1. n \in StarSources(stmt)
      BY <1>0, <2>1, <2>4, <2>6 DEF StarSources
    <3>2. \A q \in stmt[j].projections : q.name \in {y[2] : y \in PassedOn(stmt)}
      <4>. TAKE q \in stmt[j].projections
      <4>1. <<s.from[n], q.name>> \in PassedOn(stmt)
        BY <1>0, <3>1 DEF PassedOn
      <4>. QED
        BY <4>1
    <3>3. \A q \in stmt[j].projections : q.name \in TargetColumns(stmt)
      BY <3>2 DEF TargetColumns
    <3>4. j \in 1..Len(stmt)
      <4>1. j \in 1..(k - 1)
        BY <1>0, <2>1, <2>6, SourceIs
      <4>. QED
        BY <1>0, <4>1, StatementIs
    <3>5. c \in Yields(stmt[j], cols, tables)
      BY <1>1, <1>4, <2>6, <3>4 DEF Shown
    <3>. HIDE DEF j
    <3>6. CASE c \in {q.name : q \in stmt[j].projections}
      BY <3>3, <3>6
    <3>7. CASE c \notin {q.name : q \in stmt[j].projections}
      <4>1. PICK m : m \in Starred(stmt[j])
        BY <3>5, <3>7 DEF Yields
      <4>2. PICK q \in stmt[j].projections : q.name = Star
        BY <4>1 DEF Starred, ProjectionsNamed
      <4>. QED
        BY <3>3, <4>2
    <3>. QED
      BY <3>6, <3>7
  <2>. QED
    BY <2>5, <2>6
<1>5. c \in Yields(s, cols, tables)
  BY <1>0, <1>1
<1>. HIDE DEF s
<1>. QED
  BY <1>3, <1>4, <1>5 DEF Yields

\* And the check knows of no column that the model does not have.
LEMMA TargetIsColumn ==
  ASSUME NEW stmt, IsStatement(stmt), NEW tables \in Schemas, catalog \subseteq External,
         NEW c \in TargetColumns(stmt), c # Star
  PROVE  c \in ColumnsWithin(stmt, tables)[Len(stmt)]
<1>. DEFINE k == Len(stmt)
            s == stmt[k]
            cols == ColumnsWithin(stmt, tables)
<1>0. k \in 1..Len(stmt) /\ Top(stmt) = s
  BY StatementIs
<1>1. \A j \in 1..Len(stmt) : cols[j] = Yields(stmt[j], cols, tables)
  BY ColumnsWithinIs DEF Schemas
<1>. SUFFICES c \in cols[k]
  OBVIOUS
<1>. HIDE DEF k, cols
<1>2. \A p \in s.projections : p.name # Star => p.name \in cols[k]
  BY <1>0, <1>1 DEF Yields
<1>3. HasStar(s) => Starred(s) = DOMAIN s.from
  <2>. SUFFICES ASSUME HasStar(s) PROVE DOMAIN s.from \subseteq Starred(s)
    BY DEF Starred
  <2>1. PICK p \in s.projections : p.star
    BY DEF HasStar
  <2>2. p.name = Star
    BY <1>0, <2>1, StatementIs DEF IsStatement
  <2>. QED
    BY <2>1, <2>2 DEF Starred, ProjectionsNamed
<1>4. ASSUME HasStar(s), NEW n \in DOMAIN s.from, c \in Shown(s.from[n], cols, tables)
      PROVE  c \in cols[k]
  BY <1>0, <1>1, <1>3, <1>4 DEF Yields
<1>5. ASSUME NEW y \in PassedOn(stmt), y[2] = c PROVE c \in cols[k]
  <2>1. PICK n \in StarSources(stmt) : \E p \in stmt[Top(stmt).from[n].scope].projections : y = <<Top(stmt).from[n], p.name>>
    BY <1>5 DEF PassedOn
  <2>. DEFINE j == s.from[n].scope
  <2>2. PICK p \in stmt[j].projections : y = <<s.from[n], p.name>>
    BY <1>0, <2>1
  <2>3. n \in DOMAIN s.from /\ HasStar(s) /\ ~IsTable(s.from[n])
    BY <1>0, <2>1 DEF StarSources
  <2>4. j \in 1..Len(stmt)
    <3>1. j \in 1..(k - 1)
      BY <1>0, <2>3, SourceIs
    <3>. QED
      BY <1>0, <3>1, StatementIs
  <2>5. c = p.name
    BY <1>5, <2>2
  <2>6. c \in cols[j]
    <3>. HIDE DEF j
    <3>. QED
      BY <1>1, <2>2, <2>4, <2>5 DEF Yields
  <2>. QED
    BY <1>4, <2>3, <2>6 DEF Shown
<1>6. CASE c \in {p.name : p \in Plain(s)}
  BY <1>2, <1>6 DEF Plain
<1>7. CASE c \in {y[2] : y \in PassedOn(stmt)}
  BY <1>5, <1>7
<1>8. CASE c \in EdgeTargets(stmt) /\ c # Rows
  <2>1. PICK e \in EdgesForScope(stmt) : e.target = c
    BY <1>8 DEF EdgeTargets
  <2>2. CASE \E p \in Plain(s) : e \in ProjectionEdges(stmt, p)
    <3>1. PICK p \in Plain(s) : e \in ProjectionEdges(stmt, p)
      BY <2>2
    <3>2. e.target = p.name
      BY <3>1 DEF ProjectionEdges, Edge
    <3>. QED
      BY <1>6, <2>1, <3>2
  <2>3. CASE e \in JoinKeyEdges(stmt)
    BY <1>8, <2>1, <2>3 DEF JoinKeyEdges, Edge
  <2>4. CASE e \in ExpandStar(stmt)
    <3>1. CASE \E y \in PassedOn(stmt) : e.target = y[2]
      BY <1>7, <2>1, <3>1
    <3>2. CASE \E t \in StarTables(stmt) : e.target \in ColumnsOf(t)
      <4>1. PICK t \in StarTables(stmt) : c \in ColumnsOf(t)
        BY <2>1, <3>2
      <4>2. PICK n \in DOMAIN s.from : HasStar(s) /\ IsTable(s.from[n]) /\ t = s.from[n].table
        BY <1>0, <4>1 DEF StarTables
      <4>3. c \in tables[t]
        BY <4>1 DEF ColumnsOf, Schemas
      <4>. QED
        BY <1>4, <4>2, <4>3 DEF Shown
    <3>3. CASE e.target = Star
      BY <2>1, <3>3
    <3>4. (\E y \in PassedOn(stmt) : e.target = y[2]) \/ (\E t \in StarTables(stmt) : e.target \in ColumnsOf(t)) \/ e.target = Star
      <4>1. CASE \E y \in PassedOn(stmt) : \E z \in ColumnsAmong(BehindPassed(stmt, y)) : e = Edge(y[2], z, "column")
        BY <4>1 DEF Edge
      <4>2. CASE \E t \in StarTables(stmt) : \E d \in ColumnsOf(t) : e = Edge(d, <<t, d>>, "column")
        BY <4>2 DEF Edge
      <4>3. CASE \E t \in StarTables(stmt) : e = Edge(Star, <<t, Star>>, "unresolved_star")
        BY <4>3 DEF Edge
      <4>. QED
        BY <2>4, <4>1, <4>2, <4>3 DEF ExpandStar
    <3>. QED
      BY <3>1, <3>2, <3>3, <3>4
  <2>. QED
    BY <1>0, <2>1, <2>2, <2>3, <2>4 DEF EdgesForScope
<1>9. c \in {p.name : p \in Plain(s)} \/ c \in {y[2] : y \in PassedOn(stmt)} \/ (c \in EdgeTargets(stmt) /\ c # Rows)
  BY <1>0 DEF TargetColumns
<1>. QED
  BY <1>6, <1>7, <1>8, <1>9

(*****************************************************************************)
(* The check of a change                                                     *)
(*****************************************************************************)

\* The rows of the store are the edges of the statements that the last scan read.
StoreIsScanned ==
  \A x \in ParsedModels(scanned) : EdgesForScope(scanned[x]) # {} =>
                     store[x] = EdgesForScope(scanned[x])
\* A report is about the files as they are.
Compared == IF report.against = "ref" THEN EdgesOf(ModelsAtRef(report.shown)) ELSE store
ReportIsCurrent ==
  report.against # "nothing" =>
    /\ report.findings = Findings(Compared)
    /\ report.against # "ref" => report.shown = Asset

\* The inductive invariant of the lineage store and the check.
LineageInv ==
  /\ LineageTypeOK
  /\ AreFiles(models) /\ AreFiles(base) /\ AreFiles(scanned)
  /\ StoreIsScanned
  /\ ReportIsCurrent

\* A removed column that others are computed from fails the check.
LEMMA ImpactFails ==
  ASSUME NEW graph, NEW files, NEW col \in RemovedColumns(graph, files), ColumnImpact(graph, col) # {}
  PROVE  \E f \in CheckRemovedColumns(graph, files) : f.severity = "error"
<1>. DEFINE f == [severity |-> IF ColumnImpact(graph, col) # {} THEN "error" ELSE "warning", column |-> col]
<1>1. f \in CheckRemovedColumns(graph, files)
  BY DEF CheckRemovedColumns
<1>2. f.severity = "error"
  OBVIOUS
<1>. QED
  BY <1>1, <1>2

\* A check that passes is right about what a change of the files would break.
LEMMA LineageInvSuffices == LineageInv => CleanCheckBreaksNothing
<1>. DEFINE before == IF report.against = "ref" THEN base ELSE scanned
            was == RealColumns(before)
            is == RealColumns(models)
            graph == Compared
<1>. SUFFICES ASSUME LineageInv, report.against # "nothing", \A f \in report.findings : f.severity = "warning",
                     NEW r \in ParsedModels(before), before[r] = models[r], NEW x \in Feeds(before[r], was),
                     x[2] \notin is[x[1]], x[1] \in ParsedModels(models),
                     r \in report.shown, x[1] \notin Asset \ report.shown, Star \notin TargetColumns(before[x[1]]),
                     x[2] \notin TargetColumns(before[x[1]]) \ EdgeTargets(before[x[1]]),
                     ~IsUnresolved(before[r])
              PROVE  FALSE
  BY DEF CleanCheckBreaksNothing
<1>1. AreFiles(before) /\ AreFiles(models) /\ catalog \subseteq External
  BY DEF LineageInv, LineageTypeOK
<1>2. r \in Asset /\ r \in ParsedModels(before) /\ r \in ParsedModels(models)
  BY DEF ParsedModels
<1>. DEFINE t == x[1]
            c == x[2]
<1>3. was \in Schemas /\ is \in Schemas /\ \E tables \in Schemas : was = Run(before, tables)
  <2>. HIDE DEF before
  <2>. QED
    BY <1>1, <1>2, RealColumnsAre
<1>4. \E tables \in Schemas : is = Run(models, tables)
  BY <1>1, <1>2, RealColumnsAre
<1>. HIDE DEF was, is, before, graph
<1>5. IsStatement(before[r])
  BY <1>1, <1>2, FileIs
<1>6. x \in Shows(was) /\ \E e \in EdgesForScope(before[r]) : e.source = x
  BY <1>1, <1>3, <1>5, FeedsAre
<1>7. t \in Asset \cup External /\ c \in Column /\ c \in was[t] /\ x = <<t, c>>
  BY <1>6 DEF Shows
<1>8. t \in Asset /\ t \notin External
  <2>1. t \notin External
    BY <1>3, <1>7 DEF Schemas
  <2>. QED
    BY <1>7, <2>1
<1>9. t \in ParsedModels(before) /\ c \in TargetColumns(before[t])
  <2>1. PICK tables \in Schemas : was = Run(before, tables)
    BY <1>3
  <2>2. t \in ParsedModels(before) /\ c \in ColumnsWithin(before[t], tables)[Len(before[t])]
    BY <1>7, <1>8, <2>1 DEF Run
  <2>3. IsStatement(before[t])
    BY <1>1, <1>8, <2>2, FileIs
  <2>. QED
    BY <1>1, <2>2, <2>3, ColumnIsTarget
<1>10. c \notin TargetColumns(models[t])
  <2>1. PICK tables \in Schemas : is = Run(models, tables)
    BY <1>4
  <2>2. c \notin ColumnsWithin(models[t], tables)[Len(models[t])]
    BY <1>8, <2>1 DEF Run
  <2>3. IsStatement(models[t])
    BY <1>1, <1>8, FileIs
  <2>4. c # Star
    BY <1>7, LineageAssumption
  <2>. QED
    BY <1>1, <2>2, <2>3, <2>4, TargetIsColumn
<1>11. PICK e \in EdgesForScope(before[t]) : e.target = c
  BY <1>9 DEF EdgeTargets
<1>12. ASSUME NEW y \in ParsedModels(before), y \in ParsedModels(models), y \in report.shown,
              EdgesForScope(before[y]) # {}
       PROVE  graph[y] = EdgesForScope(before[y])
  <2>1. CASE report.against = "ref"
    <3>1. ModelsAtRef(report.shown)[y] = base[y] /\ before[y] = base[y] /\ y \in Asset
      BY <1>12, <2>1 DEF ModelsAtRef, before, ParsedModels
    <3>2. y \in ParsedModels(ModelsAtRef(report.shown))
      BY <1>12, <3>1 DEF ParsedModels
    <3>. QED
      BY <2>1, <3>1, <3>2 DEF EdgesOf, graph, Compared
  <2>2. CASE report.against # "ref"
    BY <1>12, <2>2 DEF LineageInv, StoreIsScanned, before, graph, Compared
  <2>. QED
    BY <2>1, <2>2
<1>13. graph[t] = EdgesForScope(before[t])
  BY <1>8, <1>9, <1>11, <1>12
<1>14. <<t, c>> \in RemovedColumns(graph, models)
  <2>1. c \in ProducedColumns(graph, t)
    BY <1>7, <1>11, <1>13, LineageAssumption DEF ProducedColumns
  <2>. QED
    BY <1>10, <2>1 DEF RemovedColumns
<1>15. ColumnImpact(graph, <<t, c>>) # {}
  <2>1. PICK g \in EdgesForScope(before[r]) : g.source = <<t, c>>
    BY <1>6, <1>7
  <2>2. graph[r] = EdgesForScope(before[r])
    BY <1>2, <1>12, <2>1
  <2>3. <<r, g.target>> \in Readers(graph, {<<t, c>>})
    BY <1>2, <2>1, <2>2 DEF Readers
  <2>4. r # t
    BY <1>9, <1>10
  <2>5. <<r, g.target>> # <<t, c>>
    BY <2>4
  <2>6. <<r, g.target>> \in ColumnImpact(graph, <<t, c>>)
    BY <2>3, <2>5, ImpactIs
  <2>. QED
    BY <2>6
<1>16. PICK f \in CheckRemovedColumns(graph, models) : f.severity = "error"
  BY <1>14, <1>15, ImpactFails
<1>17. f \in report.findings
  BY DEF LineageInv, ReportIsCurrent, Findings, graph
<1>. QED
  BY <1>16, <1>17

\* The kinds that an edge may have.
EdgeKinds == {"column", "constant", "ambiguous", "unresolved_star", "join_key"}

\* The kinds of edges.
LEMMA KindsOfEdges ==
  ASSUME NEW stmt PROVE \A e \in EdgesForScope(stmt) : e.kind \in EdgeKinds
<1>1. \A e \in JoinKeyEdges(stmt) : e.kind \in EdgeKinds
  BY DEF JoinKeyEdges, Edge, EdgeKinds
<1>2. \A p : \A e \in ProjectionEdges(stmt, p) : e.kind \in EdgeKinds
  BY DEF ProjectionEdges, Edge, EdgeKinds
<1>3. \A e \in ExpandStar(stmt) : e.kind \in EdgeKinds
  <2>. SUFFICES ASSUME NEW e \in ExpandStar(stmt) PROVE e.kind \in EdgeKinds
    OBVIOUS
  <2>1. CASE \E y \in PassedOn(stmt) : \E z \in ColumnsAmong(BehindPassed(stmt, y)) : e = Edge(y[2], z, "column")
    BY <2>1 DEF Edge, EdgeKinds
  <2>2. CASE \E t \in StarTables(stmt) : \E d \in ColumnsOf(t) : e = Edge(d, <<t, d>>, "column")
    BY <2>2 DEF Edge, EdgeKinds
  <2>3. CASE \E t \in StarTables(stmt) : e = Edge(Star, <<t, Star>>, "unresolved_star")
    BY <2>3 DEF Edge, EdgeKinds
  <2>. QED
    BY <2>1, <2>2, <2>3 DEF ExpandStar
<1>. QED
  BY <1>1, <1>2, <1>3 DEF EdgesForScope

\* The schema stays, and so does what the check says of files that stay.
LEMMA FindingsRigid ==
  ASSUME catalog' = catalog, models' = models, base' = base, store' = store
  PROVE  /\ \A shown : EdgesOf(ModelsAtRef(shown))' = EdgesOf(ModelsAtRef(shown))
         /\ \A graph : Findings(graph)' = Findings(graph)
<1>1. \A stmt : /\ EdgesForScope(stmt)' = EdgesForScope(stmt)
                /\ TargetColumns(stmt)' = TargetColumns(stmt)
                /\ IsUnresolved(stmt)' = IsUnresolved(stmt)
  BY EdgesRigid
<1>2. \A shown : ModelsAtRef(shown)' = ModelsAtRef(shown)
  BY DEF ModelsAtRef
<1>3. \A files : EdgesOf(files)' = EdgesOf(files)
  BY <1>1 DEF EdgesOf
<1>4. \A graph, files : RemovedColumns(graph, files)' = RemovedColumns(graph, files)
  BY <1>1 DEF RemovedColumns
<1>5. \A graph, files : CheckRemovedColumns(graph, files)' = CheckRemovedColumns(graph, files)
  BY <1>4 DEF CheckRemovedColumns
<1>6. \A files : CheckUnresolved(files)' = CheckUnresolved(files)
  BY <1>1 DEF CheckUnresolved
<1>7. \A shown : EdgesOf(ModelsAtRef(shown))' = EdgesOf(ModelsAtRef(shown))
  BY <1>2, <1>3
<1>8. \A graph : Findings(graph)' = Findings(graph)
  BY <1>5, <1>6 DEF Findings
<1>. QED
  BY <1>7, <1>8

\* The invariant holds at first.
LEMMA LineageInvStarts == LineageInit => LineageInv
<1>. SUFFICES ASSUME LineageInit PROVE LineageInv
  OBVIOUS
<1>1. AreFiles(models) /\ AreFiles(base) /\ AreFiles(scanned)
  BY DEF LineageInit, AreFiles
<1>2. StoreIsScanned /\ ReportIsCurrent
  BY DEF LineageInit, StoreIsScanned, ParsedModels, ReportIsCurrent, NoReport
<1>3. LineageTypeOK
  BY LineageAssumption DEF LineageInit, LineageTypeOK, NoReport, NoEdges
<1>. QED
  BY <1>1, <1>2, <1>3 DEF LineageInv

\* And every step keeps it: an edit and a merge drop the report, a scan puts
\* the edges of all files with edges into the store.
LEMMA LineageInvStays == LineageInv /\ [LineageNext]_columnVars => LineageInv'
<1>. SUFFICES ASSUME LineageInv, [LineageNext]_columnVars PROVE LineageInv'
  OBVIOUS
<1>0. catalog' = catalog
  BY DEF LineageNext, EditModel, Merge, Scan, CheckAgainstRef, CheckAgainstStore, Reports, columnVars
<1>1. \A stmt : EdgesForScope(stmt)' = EdgesForScope(stmt)
  BY <1>0, EdgesRigid
<1>2. ASSUME scanned' = scanned, store' = store PROVE StoreIsScanned'
  BY <1>1, <1>2 DEF LineageInv, StoreIsScanned
<1>3. ASSUME report' = NoReport PROVE ReportIsCurrent'
  BY <1>3 DEF ReportIsCurrent, NoReport
<1>. USE DEF LineageInv
<1>4. ASSUME NEW x \in Asset, NEW s \in Statements[x] \cup {NoModel, NotSql}, EditModel(x, s) PROVE LineageInv'
  <2>1. scanned' = scanned /\ store' = store /\ base' = base /\ report' = NoReport
        /\ models' = [models EXCEPT ![x] = s] /\ rewrites' = rewrites + 1 /\ rewrites < MaxModelEdits
    BY <1>4 DEF EditModel
  <2>2. AreFiles(models)' /\ AreFiles(base)' /\ AreFiles(scanned)'
    BY <2>1 DEF AreFiles, LineageTypeOK
  <2>3. LineageTypeOK'
    <3>1. models' \in [Asset -> (UNION {Statements[y] : y \in Asset}) \cup {NoModel, NotSql}]
      BY <2>1 DEF LineageTypeOK
    <3>2. rewrites' \in 0..MaxModelEdits
      BY <2>1, LineageAssumption DEF LineageTypeOK
    <3>. QED
      BY <1>0, <2>1, <3>1, <3>2 DEF LineageTypeOK, NoReport
  <2>. QED
    BY <1>2, <1>3, <2>1, <2>2, <2>3
<1>5. CASE Merge
  <2>1. scanned' = scanned /\ store' = store /\ base' = models /\ models' = models /\ report' = NoReport /\ rewrites' = rewrites
    BY <1>5 DEF Merge
  <2>2. AreFiles(models)' /\ AreFiles(base)' /\ AreFiles(scanned)'
    BY <2>1 DEF AreFiles
  <2>3. LineageTypeOK'
    BY <1>0, <2>1 DEF LineageTypeOK, NoReport
  <2>. QED
    BY <1>2, <1>3, <2>1, <2>2, <2>3
<1>6. CASE Scan
  <2>1. scanned' = models /\ store' = RecordColumnLineage(EdgesOf(models)) /\ base' = base /\ models' = models
        /\ report' = NoReport /\ rewrites' = rewrites
    BY <1>6 DEF Scan
  <2>2. AreFiles(models)' /\ AreFiles(base)' /\ AreFiles(scanned)'
    BY <2>1 DEF AreFiles
  <2>3. StoreIsScanned'
    <3>1. ASSUME NEW x \in ParsedModels(models), EdgesForScope(models[x]) # {}
          PROVE  store'[x] = EdgesForScope(models[x])
      BY <2>1, <3>1 DEF RecordColumnLineage, EdgesOf, ParsedModels
    <3>2. ParsedModels(scanned)' = ParsedModels(models)
      BY <2>1 DEF ParsedModels
    <3>. QED
      BY <1>1, <2>1, <3>1, <3>2 DEF StoreIsScanned
  <2>4. LineageTypeOK'
    <3>1. ASSUME NEW x \in Asset, NEW e \in store'[x] PROVE e.kind \in EdgeKinds
      <4>1. store'[x] = store[x] \/ store'[x] = EdgesForScope(models[x])
        BY <2>1 DEF RecordColumnLineage, EdgesOf
      <4>2. \A f \in store[x] : f.kind \in EdgeKinds
        BY DEF LineageTypeOK, EdgeKinds
      <4>. QED
        BY <3>1, <4>1, <4>2, KindsOfEdges
    <3>. QED
      BY <1>0, <2>1, <3>1 DEF LineageTypeOK, NoReport, EdgeKinds
  <2>. QED
    BY <1>3, <2>1, <2>2, <2>3, <2>4
<1>7. CASE CheckAgainstRef \/ CheckAgainstStore
  <2>1. PICK against \in {"ref", "store"}, shown \in SUBSET Asset :
          /\ Reports(against, shown, IF against = "ref" THEN EdgesOf(ModelsAtRef(shown)) ELSE store)
          /\ against # "ref" => shown = Asset
    BY <1>7, LineageAssumption DEF CheckAgainstRef, CheckAgainstStore
  <2>. DEFINE graph == IF against = "ref" THEN EdgesOf(ModelsAtRef(shown)) ELSE store
  <2>2. /\ scanned' = scanned /\ store' = store /\ base' = base /\ models' = models /\ rewrites' = rewrites
        /\ report' = [against |-> against, shown |-> shown, findings |-> Findings(graph)]
    BY <2>1 DEF Reports
  <2>. HIDE DEF graph
  <2>3. AreFiles(models)' /\ AreFiles(base)' /\ AreFiles(scanned)'
    BY <2>2 DEF AreFiles
  <2>4. report'.against = against /\ report'.shown = shown /\ report'.findings = Findings(graph)
    BY <2>2
  <2>5. Findings(Compared)' = Findings(graph)
    BY <1>0, <2>2, <2>4, FindingsRigid DEF Compared, graph
  <2>6. ReportIsCurrent'
    BY <2>1, <2>4, <2>5 DEF ReportIsCurrent
  <2>7. LineageTypeOK'
    BY <1>0, <2>2, <2>4 DEF LineageTypeOK
  <2>. QED
    BY <1>2, <2>2, <2>3, <2>6, <2>7
<1>8. CASE UNCHANGED columnVars
  <2>1. scanned' = scanned /\ store' = store /\ base' = base /\ models' = models /\ rewrites' = rewrites /\ report' = report
    BY <1>8 DEF columnVars
  <2>2. AreFiles(models)' /\ AreFiles(base)' /\ AreFiles(scanned)'
    BY <2>1 DEF AreFiles
  <2>3. Compared' = Compared /\ Findings(Compared)' = Findings(Compared)
    BY <1>0, <2>1, FindingsRigid DEF Compared
  <2>5. ReportIsCurrent'
    BY <2>1, <2>3 DEF ReportIsCurrent
  <2>6. LineageTypeOK'
    BY <1>0, <2>1 DEF LineageTypeOK
  <2>. QED
    BY <1>2, <2>1, <2>2, <2>5, <2>6
<1>. QED
  BY <1>4, <1>5, <1>6, <1>7, <1>8 DEF LineageNext

\* For any files, tables, depth and number of hops: a report is about the
\* files as they are, and the store is about those that were scanned.
THEOREM LineageInvariance == LineageSpec => []LineageInv
BY LineageInvStarts, LineageInvStays, PTL DEF LineageSpec

\* The lineage store, the files and the report have their types.
THEOREM LineageTypeCorrect == LineageSpec => []LineageTypeOK
<1>1. LineageInv => LineageTypeOK
  BY DEF LineageInv
<1>. QED
  BY <1>1, LineageInvariance, PTL

\* A check without errors lets no removal through that changes a column which an
\* unchanged file, resolved and without a star above it, computes from, where git
\* could show both files at the ref and the producer's still parses.
THEOREM CleanCheckCorrect == LineageSpec => []CleanCheckBreaksNothing
BY LineageInvSuffices, LineageInvariance, PTL
===============================================================================
