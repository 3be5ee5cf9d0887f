---------------------------- MODULE MCStreamCommit ----------------------------
(* Model checking of StreamCommit: two partitions of different lengths, so  *)
(* that batches end in the middle of a round and partitions run dry.        *)
EXTENDS StreamCommit, TLC

MCPartition == {0, 1}
MCSize      == (0 :> 3) @@ (1 :> 2)

\* Tokens as the run queue hands them out: every replacement has a larger one.
Claimed == [r \in Runner |-> r]

\* Two runners started from the command line, where --attempt defaults to 1,
\* and a third with a larger token.
Shared == <<1, 1, 2>>

=============================================================================
