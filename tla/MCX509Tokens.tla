---------------------------- MODULE MCX509Tokens ----------------------------
(* X509Tokens for TLC. *)
EXTENDS X509Tokens, TLC

Symmetry == Permutations(Callers)

=============================================================================
