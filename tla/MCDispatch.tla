---------------------------- MODULE MCDispatch ----------------------------
(* Dispatch.tla over a route of three targets with unequal time limits.    *)
EXTENDS Dispatch

\* One attempt that the route's deadline never clips, one that it may clip, and
\* one that it always does.
Timeouts == <<1, 2, 4>>
============================================================================
