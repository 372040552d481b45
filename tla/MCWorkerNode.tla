---------------------------- MODULE MCWorkerNode ----------------------------
(* Sandboxes and addresses are interchangeable. *)
EXTENDS WorkerNode, TLC

\* Three sandboxes without faults, and two with failing calls, a restart and
\* StopVM at any time.
CalmAndRough ==
  {[pods |-> 3, overlap |-> FALSE, faults |-> 0, crashes |-> 0],
   [pods |-> 2, overlap |-> TRUE, faults |-> 2, crashes |-> 1]}

Symmetry == Permutations(Sandboxes) \union Permutations(Addrs)
=============================================================================
