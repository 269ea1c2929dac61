---------------------------- MODULE MCAppServer ----------------------------
(* Instances of AppServer for TLC: requests are interchangeable. *)
EXTENDS AppServer, TLC

Symmetry == Permutations(Requests)
=============================================================================
