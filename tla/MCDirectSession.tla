-------------------------- MODULE MCDirectSession --------------------------
(* Two callers, in one process or in two. *)
EXTENDS DirectSession, TLC

Symmetry == Permutations(Callers) \cup Permutations(Procs)
=============================================================================
