------------------------- MODULE MCResponseStreams -------------------------
(* ResponseStreams for TLC. *)
EXTENDS ResponseStreams

CONSTANTS a, b

\* Bodies of up to two events.  A byte order mark, whole or broken, can only
\* stand first; elsewhere one of its bytes is an invalid character.
MCAlphabet ==
  <<{"b1", "x", "t", "d", "lf"}, {"b2", "cr", "lf", "d"}, {"b3", "d", "r", "lf"},
    {"x", "t", "s", "lf"}, {"cr", "lf", "d"}, {"cr", "lf"}, {"t", "r", "d", "b2"},
    {"lf", "d", "s"}, {"d", "t"}, {"t", "x"}, {"cr"}, {"lf"}>>

Message(id) == [type |-> "message", id |-> id, texts |-> {0}]
Call(id) == [type |-> "function_call", id |-> id, texts |-> {}]

MCItems == {Message(a), Message(b), Call(a), Call(b), Call(NoId)}

MCResponses == {<<Call(a), Message(b)>>, <<Call(b), Message(a)>>}

Symmetry == Permutations(ItemIds)
=============================================================================
