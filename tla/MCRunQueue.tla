------------------------------ MODULE MCRunQueue ------------------------------
(* Model checking of RunQueue: run and worker names are interchangeable.    *)
EXTENDS RunQueue, TLC

Symmetry == Permutations(Run) \cup Permutations(Worker)

=============================================================================
