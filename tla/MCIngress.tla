----------------------------- MODULE MCIngress -----------------------------
(* Ingress.tla with small sizes: a read takes two units, a head has three,  *)
(* a body four.                                                            *)
EXTENDS Ingress

\* Heads below, at, a read above and beyond the limit; bodies that are whole,
\* short, too long by one or announced too large; and some that never matter.
Sent ==
  [kind : {"chat"}, head : {2, 3, 5}, length : {0, 3}, body : {0, 2, 3, 5}]
    \cup [kind : {"chat"}, head : {2}, length : {4, 5}, body : {4}]
    \cup [kind : {"malformed", "other"}, head : {2}, length : {1}, body : {1}]
    \cup [kind : {"chat"}, head : {6, 7}, length : {0}, body : {0}]
============================================================================
