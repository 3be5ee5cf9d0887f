------------------------------ MODULE TaskGraph ------------------------------
(***************************************************************************)
(* Graphs of tasks, as networkx serves core/dag.py and core/config.py.     *)
(***************************************************************************)
EXTENDS Naturals

\* The nodes placed after k rounds of taking every node without unplaced
\* predecessors; a graph with a cycle never places all its nodes.
Layered(nodes, preds, n) ==
  LET placed[k \in 0..n] ==
        IF k = 0 THEN {}
        ELSE placed[k - 1] \cup {x \in nodes : preds[x] \subseteq placed[k - 1]}
  IN  placed
===============================================================================
