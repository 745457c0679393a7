----------------------------- MODULE YamlReader -----------------------------
(***************************************************************************)
(* parse_spanned_node (config/yaml.rs): the events of the YAML scanner are *)
(* made into a tree, one event in each action, and what the subset         *)
(* prohibits ends the reading.  The recursion of parse_node is the stack   *)
(* of the collections that are open.                                       *)
(*                                                                         *)
(* The scanner (saphyr) is external: its events are well nested, whatever  *)
(* the file, and may stop at an error.  Places in the file and the wording *)
(* of errors are left out.                                                 *)
(***************************************************************************)
EXTENDS Naturals, Sequences, SequencesExt

VARIABLES
  events,   \* what the scanner has still to give
  place,    \* where parse_spanned_node is
  open,     \* the collections that are open, the innermost last
  root      \* root_node, once it is there

readerVars == <<events, place, open, root>>

(***************************************************************************)
(* A node: a mapping has as many keys as items.  `reads` is what           *)
(* is_plain_non_string makes of a scalar, and "string" for a quoted one;   *)
(* an "integer" is a decimal one (is_yaml_decimal_integer), and one in     *)
(* another base is a kind of its own, as nothing in the file may be one.   *)
(***************************************************************************)
Node(node, text, reads) ==
  [node |-> node, text |-> text, reads |-> reads, keys |-> <<>>, items |-> <<>>]

NoNode == Node("none", "", "string")

\* An event, with what it carries that is of interest: an anchor or a tag, or none.
Event(kind, mark, text, reads) ==
  [kind |-> kind, mark |-> mark, text |-> text, reads |-> reads]

Places == {"stream", "document", "node", "document_end", "stream_end", "read", "refused"}

ReaderInit ==
  /\ place = "stream"
  /\ open = <<>>
  /\ root = NoNode

Coming == Head(events)
Innermost == Last(open)

Reads(kinds) ==
  /\ events # <<>>
  /\ Coming.kind \in kinds
  /\ events' = Tail(events)

\* A key of the innermost mapping is next, or a value of any node.
AtKey == /\ place = "node" /\ open # <<>>
         /\ Innermost.node = "map" /\ Len(Innermost.keys) = Len(Innermost.items)
AtValue == place = "node" /\ ~AtKey

\* A node is complete: it is the root, or an item of what is open.
Complete(node, rest) ==
  IF rest = <<>>
  THEN /\ root' = node
       /\ place' = "document_end"
       /\ open' = <<>>
  ELSE /\ open' = [rest EXCEPT ![Len(rest)].items = Append(@, node)]
       /\ UNCHANGED <<place, root>>

Refuse == place' = "refused" /\ UNCHANGED <<open, root>>

----------------------------------------------------------------------------
(* parse_spanned_node.                                                     *)
StreamBegins ==
  /\ place = "stream"
  /\ Reads({"stream_start"})
  /\ place' = "document"
  /\ UNCHANGED <<open, root>>

DocumentBegins ==
  /\ place = "document"
  /\ Reads({"document_start"})
  /\ place' = "node"
  /\ UNCHANGED <<open, root>>

NoDocument == place = "document" /\ Reads({"stream_end"}) /\ Refuse

DocumentEnds ==
  /\ place = "document_end"
  /\ Reads({"document_end"})
  /\ place' = "stream_end"
  /\ UNCHANGED <<open, root>>

StreamEnds ==
  /\ place = "stream_end"
  /\ Reads({"stream_end"})
  /\ place' = "read"
  /\ UNCHANGED <<open, root>>

SecondDocument == place = "stream_end" /\ Reads({"document_start"}) /\ Refuse

\* next: the scanner's own error; an unknown anchor is one of them.
ScanFails == place \notin {"read", "refused"} /\ Reads({"error"}) /\ Refuse

----------------------------------------------------------------------------
(* parse_node.                                                             *)
ReadScalar ==
  /\ AtValue
  /\ Reads({"scalar"})
  /\ Coming.mark = "none"
  /\ Complete(Node("scalar", Coming.text, Coming.reads), open)

Opening == [seq_start |-> "seq", map_start |-> "map"]

OpenCollection ==
  /\ AtValue
  /\ Reads(DOMAIN Opening)
  /\ Coming.mark = "none"
  /\ open' = Append(open, Node(Opening[Coming.kind], "", "string"))
  /\ UNCHANGED <<place, root>>

CloseCollection ==
  /\ place = "node" /\ open # <<>>
  /\ \/ Innermost.node = "seq" /\ Reads({"seq_end"})
     \/ AtKey /\ Reads({"map_end"})
  /\ Complete(Innermost, Front(open))

\* An alias, an anchor or a tag.
RefuseNode ==
  /\ AtValue
  /\ Reads({"alias", "scalar", "seq_start", "map_start"})
  /\ Coming.kind = "alias" \/ Coming.mark # "none"
  /\ Refuse

Repeated(key) == key \in ToSet(Innermost.keys)

GoodKey ==
  /\ Coming.kind = "scalar" /\ Coming.mark = "none"
  /\ Coming.text # "<<"
  /\ Coming.reads = "string"
  /\ ~Repeated(Coming.text)

ReadKey ==
  /\ AtKey
  /\ Reads({"scalar"})
  /\ GoodKey
  /\ open' = [open EXCEPT ![Len(open)].keys = Append(@, Coming.text)]
  /\ UNCHANGED <<place, root>>

\* A key that is no plain string, is "<<", or comes twice in its mapping.
RefuseKey ==
  /\ AtKey
  /\ Reads({"alias", "scalar", "seq_start", "map_start"})
  /\ ~GoodKey
  /\ Refuse

----------------------------------------------------------------------------
ReaderNext ==
  \/ StreamBegins \/ DocumentBegins \/ NoDocument
  \/ ReadScalar \/ OpenCollection \/ CloseCollection \/ RefuseNode
  \/ ReadKey \/ RefuseKey
  \/ DocumentEnds \/ StreamEnds \/ SecondDocument \/ ScanFails
============================================================================
