------------------------------ MODULE MCPeering ------------------------------
(* A few peers, all in one bucket.  Addresses are only compared, so it does *)
(* not matter which of them a peer lives at; nodes.dat is missing, or has   *)
(* the address of each or one where nobody is.                             *)
EXTENDS Peering

CONSTANT Nowhere

OneBucket == [q \in Others |-> 0]

HomeOfEach ==
  CHOOSE f \in [Others -> Addrs \ {Here, Nowhere}] : IsInjective(f)

RightOrWrong ==
  {[q \in Others |-> NoAddr]} \cup
  {f \in [Others -> Addrs] :
     \A q \in Others : f[q] \in {Nowhere, HomeOfEach[q]}}
=============================================================================
