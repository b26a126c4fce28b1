---------------------------- MODULE MCThreadPool ----------------------------
(* Instances of ThreadPool for TLC. *)
EXTENDS ThreadPool, TLC

WorkerSymmetry == Permutations(Workers)
=============================================================================
