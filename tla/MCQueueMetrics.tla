--------------------------- MODULE MCQueueMetrics ---------------------------
(* Symmetry for the run of QueueMetrics. *)
EXTENDS QueueMetrics, TLC

Symmetry == Permutations(Messages) \cup Permutations(Firings)
=============================================================================
