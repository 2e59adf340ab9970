---------------------------- MODULE MCWorkerPool ----------------------------
(* WorkerPool with interchangeable tasks. *)
EXTENDS WorkerPool, TLC

TaskSymmetry == Permutations(Tasks)
=============================================================================
