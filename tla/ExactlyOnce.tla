------------------------------ MODULE ExactlyOnce ------------------------------
(***************************************************************************)
(* The promise of docs/STREAMING.md, without runners, transactions or      *)
(* fences: the durable cursor of every partition only moves forward, and   *)
(* with the very same step the records it moves over are added to the      *)
(* aggregate, each once.                                                   *)
(***************************************************************************)
EXTENDS Integers

CONSTANTS Partition, Size, Rec

VARIABLES
  cursor,  \* per partition: the next record to consume
  tally    \* per record: how often the aggregate counts it

Init ==
  /\ cursor = [p \in Partition |-> 0]
  /\ tally = [x \in Rec |-> 0]

Between(from, to, x) == from[x[1]] <= x[2] /\ x[2] < to[x[1]]

Consume ==
  /\ DOMAIN cursor' = Partition
  /\ \A p \in Partition : cursor[p] <= cursor'[p] /\ cursor'[p] <= Size[p]
  /\ tally' = [x \in Rec |->
                 IF Between(cursor, cursor', x) THEN tally[x] + 1 ELSE tally[x]]

Spec == Init /\ [][Consume]_<<cursor, tally>>

=============================================================================
