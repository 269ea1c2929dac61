-------------------------- MODULE ResponseStreams --------------------------
(***************************************************************************)
(* What the consumer of a Responses stream relies on, seen from its two    *)
(* ends: the decoder that turns one body into events (Sse), or the         *)
(* accumulator that reduces the events of a response over one connection   *)
(* or several (ResponseAccumulator).  A behaviour is one of the two; the   *)
(* state of the other stays as it is.                                      *)
(***************************************************************************)
EXTENDS Sse, ResponseAccumulator

VARIABLE part    \* "decoder" or "accumulator"

StreamsInit == part \in {"decoder", "accumulator"} /\ Init /\ AccumulatorInit

StreamsNext ==
  \/ part = "decoder" /\ Next /\ UNCHANGED <<part, streamVars>>
  \/ part = "accumulator" /\ AccumulatorNext /\ UNCHANGED <<part, vars>>

StreamsSpec == StreamsInit /\ [][StreamsNext]_<<part, vars, streamVars>>
=============================================================================
