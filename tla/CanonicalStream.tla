-------------------------- MODULE CanonicalStream --------------------------
(***************************************************************************)
(* What the iterator of an adapter promises to the router and to the       *)
(* delivery, whoever the provider is: ordinary chunks, one finish, then at *)
(* most one usage chunk, and that only if the client asked for it, then    *)
(* the end.  An error may take the place of any item, and only the end     *)
(* follows it.                                                             *)
(***************************************************************************)

VARIABLES
  wanted,   \* the client asked for the usage chunk
  given     \* the last item the iterator gave

vars == <<wanted, given>>

\* The items that may follow an item.
Follows ==
  [nothing |-> {"delta", "finish", "error"},
   delta   |-> {"delta", "finish", "error"},
   finish  |-> {"usage", "end", "error"},
   usage   |-> {"end", "error"},
   error   |-> {"end"},
   end     |-> {"end"}]

Init ==
  /\ wanted \in BOOLEAN
  /\ given = "nothing"

Give(item) ==
  /\ item \in Follows[given]
  /\ item = "usage" => wanted
  /\ given' = item
  /\ UNCHANGED wanted

Next == \E item \in {"delta", "finish", "usage", "error", "end"} : Give(item)

Spec == Init /\ [][Next]_vars
============================================================================
