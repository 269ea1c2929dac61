---------------------------- MODULE MCTransport -----------------------------
(* Transport for TLC: header values of every kind, below, at and above the *)
(* longest wait the policy honours.                                        *)
EXTENDS Transport

Header(kind, n) == [kind |-> kind, n |-> n]

HeaderValues ==
  {Header("absent", 0), Header("garbage", 0), Header("nonfinite", 0),
   Header("number", -1), Header("number", 0), Header("number", 2),
   Header("number", 3), Header("date", 2)}

=============================================================================
