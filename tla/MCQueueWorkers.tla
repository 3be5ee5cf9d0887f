---------------------------- MODULE MCQueueWorkers ----------------------------
(* Model checking of QueueWorkers.                                          *)
EXTENDS QueueWorkers, TLC

Symmetry == Permutations(Run) \cup Permutations(Worker)

=============================================================================
