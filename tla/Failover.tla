----------------------------- MODULE Failover -----------------------------
(***************************************************************************)
(* What routing one generation request promises, whatever the clock and    *)
(* the client do: the entries of the route are tried in their order, each  *)
(* at most once and one at a time; the next one only after the last one    *)
(* failed; a selected answer is the answer of the entry being tried; and a *)
(* route is exhausted only when every entry of it has failed.              *)
(***************************************************************************)
EXTENDS Naturals

CONSTANT Entries    \* the number of entries of the route

VARIABLES
  tried,      \* how many entries have failed
  live,       \* the operation of the next entry has been invoked
  verdict     \* "none", "selected", "exhausted" or "stopped"

vars == <<tried, live, verdict>>

Init == tried = 0 /\ live = FALSE /\ verdict = "none"

\* Each invocation may be billed, whatever becomes of it.
Invoke ==
  /\ verdict = "none" /\ ~live /\ tried < Entries
  /\ live' = TRUE
  /\ UNCHANGED <<tried, verdict>>

\* An entry may also run out of time before it is invoked.
Fail ==
  /\ verdict = "none" /\ tried < Entries
  /\ tried' = tried + 1
  /\ live' = FALSE
  /\ UNCHANGED verdict

Select ==
  /\ verdict = "none" /\ live
  /\ verdict' = "selected"
  /\ live' = FALSE
  /\ UNCHANGED tried

Exhaust ==
  /\ verdict = "none" /\ tried = Entries
  /\ verdict' = "exhausted"
  /\ UNCHANGED <<tried, live>>

\* The client left, or the time for the whole route is over.
Stop ==
  /\ verdict = "none"
  /\ verdict' = "stopped"
  /\ live' = FALSE
  /\ UNCHANGED tried

Next == Invoke \/ Fail \/ Select \/ Exhaust \/ Stop

Spec == Init /\ [][Next]_vars
============================================================================
