---------------------------- MODULE MCWorkerPool ----------------------------
(***************************************************************************)
(* WorkerPool for TLC.  The configurations give the sets of goroutines and *)
(* tasks as model values; the bounds are the cfg files' numbers.           *)
(***************************************************************************)
EXTENDS WorkerPool, TLC

\* Workers, tasks and Stop calls are interchangeable in the safety runs.
Symmetry == Permutations(Workers) \union Permutations(Tasks) \union Permutations(Stoppers)
=============================================================================
