----------------------------- MODULE EventPaths -----------------------------
(***************************************************************************)
(* What a file says, read off the scanner's events and without a tree:     *)
(* each value with its place, which is the keys and the numbers of the     *)
(* collections around it.  It is what the tree of parse_node, and what is  *)
(* made of it, are held against.                                           *)
(***************************************************************************)
EXTENDS Naturals, Sequences, SequencesExt

\* A value is under a key of a mapping, or the k-th of a sequence.
Word(key) == <<key, 0>>
Nth(k) == <<"", k>>

\* A collection that is open: the key that has no value yet, if `number` is 1, or
\* how many items there are.
Frame(node, key, number) == [node |-> node, key |-> key, number |-> number]
Begun(node) == Frame(node, "", 0)

Here(frame) == IF frame.node = "map" THEN Word(frame.key) ELSE Nth(frame.number + 1)
Address(frames) == [i \in DOMAIN frames |-> Here(frames[i])]

KeyNext(frames) == frames # <<>> /\ Last(frames).node = "map" /\ Last(frames).number = 0

\* A key or a value is complete.
KeyHeard(frames, key) == [frames EXCEPT ![Len(frames)] = Frame("map", key, 1)]
ValueHeard(frames) ==
  IF frames = <<>> THEN <<>>
  ELSE LET last == Last(frames)
       IN [frames EXCEPT ![Len(frames)] =
             IF last.node = "map" THEN Frame("map", last.key, 0)
             ELSE Frame("seq", last.key, last.number + 1)]

Hear(heard, event) ==
  LET frames == heard.frames
      Stays(next) == [frames |-> next, said |-> heard.said]
  IN CASE event.kind = "scalar" /\ KeyNext(frames) -> Stays(KeyHeard(frames, event.text))
       [] event.kind = "scalar" /\ ~KeyNext(frames) ->
            [frames |-> ValueHeard(frames),
             said   |-> heard.said \cup {[path |-> Address(frames), text |-> event.text]}]
       [] event.kind = "map_start" -> Stays(Append(frames, Begun("map")))
       [] event.kind = "seq_start" -> Stays(Append(frames, Begun("seq")))
       [] event.kind \in {"map_end", "seq_end"} -> Stays(ValueHeard(Front(frames)))
       [] OTHER -> heard

Silence == [frames |-> <<>>, said |-> {}]
Heard(events) == FoldLeft(Hear, Silence, events)
TextAt(said, path) == (CHOOSE value \in said : value.path = path).text
=============================================================================
