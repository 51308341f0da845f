--------------------------- MODULE MCDurableRuns ---------------------------
(* DurableRuns on a small instance: interchangeable workers. *)
EXTENDS DurableRuns, TLC

WorkerSymmetry == Permutations(Workers)
=============================================================================
