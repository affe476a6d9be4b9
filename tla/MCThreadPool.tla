---------------------------- MODULE MCThreadPool ----------------------------
(* ThreadPool for TLC: tasks and callers are interchangeable.               *)
EXTENDS ThreadPool, TLC

Symmetry == Permutations(Tasks) \cup Permutations(Callers)
=============================================================================
