---------------------------- MODULE BoundedPool ----------------------------
(***************************************************************************)
(* What a counted resource promises, whoever counts it and however: at     *)
(* most Limit clients hold a unit at a time, a unit is taken only while    *)
(* one is free, and it is given back by the client that holds it.          *)
(*                                                                         *)
(* Both counters of server.rs, the generation permits and the connection   *)
(* slots, are shown to implement it (Gateway.tla).                         *)
(***************************************************************************)
EXTENDS Naturals, FiniteSets

CONSTANTS
  Client,   \* whoever may hold a unit
  Limit     \* the number of units

VARIABLE held   \* the clients that hold a unit

Init == held = {}

Acquire(c) ==
  /\ c \notin held
  /\ Cardinality(held) < Limit
  /\ held' = held \cup {c}

Release(c) ==
  /\ c \in held
  /\ held' = held \ {c}

Next == \E c \in Client : Acquire(c) \/ Release(c)

Spec == Init /\ [][Next]_held
============================================================================
