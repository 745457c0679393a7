----------------------------- MODULE MCGateway -----------------------------
(* Gateway.tla with a handful of interchangeable connections.              *)
EXTENDS Gateway, TLC

Symmetry == Permutations(Conns)
============================================================================
