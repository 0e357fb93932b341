----------------------------- MODULE MCTokenMap -----------------------------
(* TokenMap for TLC: three hosts, one of which owns a token throughout. *)
EXTENDS TokenMap

DCs == <<"dc1", "dc1", "dc2">>
Racks == <<"r1", "r2", "r1">>
KeyspaceDefinitions ==
  {[class |-> "SimpleStrategy", options |-> [replication_factor |-> 2]],
   [class |-> "NetworkTopologyStrategy", options |-> [dc1 |-> 2, dc2 |-> 1]]}
TokensOfHosts == {<<{-2}, s, t>> : s \in {{}, {1}}, t \in {{}, {-1}}}
=============================================================================
