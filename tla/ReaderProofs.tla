---------------------------- MODULE ReaderProofs ----------------------------
(***************************************************************************)
(* Proofs about YamlReader.tla, for any file: parse_node makes trees, with *)
(* no key twice in a mapping, that say what the scanner's events say, each *)
(* value at its place and no other.                                        *)
(***************************************************************************)
EXTENDS YamlReader, EventPaths, SequenceTheorems, TLAPS

----------------------------------------------------------------------------
(***************************************************************************)
(* The trees of the reader.  Items and keys are sequences, and a mapping   *)
(* that is complete has an item for each key.                              *)
(***************************************************************************)
IsSeq(s) == \E S : s \in Seq(S)

NodeFields == {"node", "text", "reads", "keys", "items"}
IsNode(x) == x = [field \in NodeFields |-> x[field]]

Whole(x) ==
  /\ IsSeq(x.items)
  /\ IsSeq(x.keys)
  /\ x.node = "map" => Len(x.keys) = Len(x.items)

Deep(x) == Whole(x) /\ \A i \in DOMAIN x.items : Whole(x.items[i])

Growing(x) ==
  /\ IsNode(x)
  /\ IsSeq(x.items)
  /\ IsSeq(x.keys)
  /\ x.node = "map" => Len(x.keys) - Len(x.items) \in {0, 1}
  /\ x.node # "map" => x.node = "seq" /\ x.keys = <<>>
  /\ \A i \in DOMAIN x.items : Whole(x.items[i])

\* A value is being read, not a key.
Waiting(x) == x.node = "map" => Len(x.keys) # Len(x.items)

Stack(s) ==
  /\ IsSeq(s)
  /\ \A i \in DOMAIN s : Growing(s[i])
  /\ \A i \in DOMAIN s : i < Len(s) => Waiting(s[i])

Trees == Stack(open) /\ Deep(root)

\* What is appended to a sequence, of anything.
LEMMA AppendAny ==
  ASSUME NEW s, IsSeq(s), NEW e
  PROVE  /\ IsSeq(Append(s, e))
         /\ Len(s) \in Nat /\ DOMAIN s = 1 .. Len(s)
         /\ Len(Append(s, e)) = Len(s) + 1
         /\ DOMAIN Append(s, e) = 1 .. Len(s) + 1
         /\ \A i \in 1 .. Len(s) : Append(s, e)[i] = s[i]
         /\ Append(s, e)[Len(s) + 1] = e
  <1>1. PICK S : s \in Seq(S)
    BY DEF IsSeq
  <1> DEFINE T == S \cup {e}
  <1>2. s \in Seq(T) /\ e \in T
    BY <1>1, SeqMonotonic
  <1> HIDE DEF T
  <1>3. /\ Append(s, e) \in Seq(T)
        /\ Len(Append(s, e)) = Len(s) + 1
        /\ \A i \in 1 .. Len(s) : Append(s, e)[i] = s[i]
        /\ Append(s, e)[Len(s) + 1] = e
    BY <1>2, AppendProperties
  <1>4. Len(s) \in Nat /\ DOMAIN s = 1 .. Len(s)
    BY <1>1
  <1>5. DOMAIN Append(s, e) = 1 .. Len(Append(s, e))
    BY <1>3
  <1> QED
    BY <1>3, <1>4, <1>5 DEF IsSeq

\* An element of a sequence is replaced.
LEMMA ExceptAny ==
  ASSUME NEW s, IsSeq(s), NEW at \in DOMAIN s, NEW e
  PROVE  /\ IsSeq([s EXCEPT ![at] = e])
         /\ DOMAIN [s EXCEPT ![at] = e] = DOMAIN s
         /\ [s EXCEPT ![at] = e][at] = e
         /\ \A i \in DOMAIN s : i # at => [s EXCEPT ![at] = e][i] = s[i]
  <1>1. PICK S : s \in Seq(S)
    BY DEF IsSeq
  <1> DEFINE T == S \cup {e}
  <1>2. s \in Seq(T) /\ e \in T /\ at \in 1 .. Len(s)
    BY <1>1, SeqMonotonic
  <1> HIDE DEF T
  <1>3. [s EXCEPT ![at] = e] \in Seq(T)
    BY <1>2, ExceptSeq
  <1>4. s = [i \in DOMAIN s |-> s[i]]
    BY <1>1
  <1>5. /\ DOMAIN [s EXCEPT ![at] = e] = DOMAIN s
        /\ [s EXCEPT ![at] = e][at] = e
        /\ \A i \in DOMAIN s : i # at => [s EXCEPT ![at] = e][i] = s[i]
    OBVIOUS
  <1> QED
    BY <1>3, <1>5 DEF IsSeq

\* Sequences with the same positions are of one length.
LEMMA SameLength ==
  ASSUME NEW s, IsSeq(s), NEW t, IsSeq(t), DOMAIN s = DOMAIN t
  PROVE  Len(s) = Len(t) /\ Len(s) \in Nat
  <1>1. PICK S : s \in Seq(S)
    BY DEF IsSeq
  <1>2. PICK T : t \in Seq(T)
    BY DEF IsSeq
  <1>3. /\ Len(s) \in Nat /\ DOMAIN s = 1 .. Len(s)
        /\ Len(t) \in Nat /\ DOMAIN t = 1 .. Len(t)
    BY <1>1, <1>2
  <1>4. 1 .. Len(s) = 1 .. Len(t)
    BY <1>3
  <1>5. \A m, n \in Nat : 1 .. m = 1 .. n => m = n
    <2> SUFFICES ASSUME NEW m \in Nat, NEW n \in Nat, 1 .. m = 1 .. n PROVE m = n
      OBVIOUS
    <2>1. \A i \in Nat : i \in 1 .. m <=> i \in 1 .. n
      OBVIOUS
    <2>2. \A i \in Nat : 1 <= i /\ i <= m <=> 1 <= i /\ i <= n
      BY <2>1
    <2> QED
      BY <2>2
  <1> QED
    BY <1>3, <1>4, <1>5

LEMMA EmptyIsSeq == IsSeq(<<>>) /\ Len(<<>>) = 0 /\ DOMAIN <<>> = {}
  <1>1. <<>> \in Seq({})
    BY EmptySeq
  <1> QED
    BY <1>1, EmptySeq DEF IsSeq

\* All but the last, and the last.
LEMMA FrontAny ==
  ASSUME NEW s, IsSeq(s), s # <<>>
  PROVE  /\ IsSeq(Front(s))
         /\ Front(s) # <<>> => Len(Front(s)) \in DOMAIN Front(s)
         /\ \A i \in DOMAIN Front(s) : i \in DOMAIN s /\ i < Len(s) /\ Front(s)[i] = s[i]
         /\ Len(s) \in DOMAIN s
  <1>1. PICK S : s \in Seq(S)
    BY DEF IsSeq
  <1>2. Len(s) \in Nat /\ Len(s) # 0 /\ DOMAIN s = 1 .. Len(s)
    BY <1>1, EmptySeq
  <1>3. Front(s) = SubSeq(s, 1, Len(s) - 1)
    BY DEF Front
  <1>4. \A i \in 1 .. Len(s) - 1 : s[i] \in S
    BY <1>1, <1>2
  <1> DEFINE n == Len(s) - 1
             front == SubSeq(s, 1, n)
  <1>5. n \in Int /\ 1 \in Int
    BY <1>2
  <1>6. /\ front \in Seq(S)
        /\ Len(front) = IF 1 <= n THEN n - 1 + 1 ELSE 0
        /\ \A i \in 1 .. n - 1 + 1 : front[i] = s[1 + i - 1]
    BY <1>4, <1>5, SubSeqProperties
  <1>7. Len(front) = n
    BY <1>2, <1>6
  <1>8. DOMAIN front = 1 .. n
    BY <1>6, <1>7
  <1>9. \A i \in 1 .. n : front[i] = s[i]
    BY <1>2, <1>6
  <1>10. IsSeq(front) /\ Front(s) = front
    BY <1>3, <1>6 DEF IsSeq
  <1>11. front # <<>> => Len(front) \in DOMAIN front
    <2> HIDE DEF front
    <2>1. front \in Seq(S)
      BY <1>6
    <2>2. front # <<>> => Len(front) # 0
      BY <2>1, EmptySeq
    <2> QED
      BY <2>2, <1>7, <1>8, <1>2
  <1> HIDE DEF front
  <1>12. \A i \in DOMAIN front : i \in DOMAIN s /\ i < Len(s) /\ front[i] = s[i]
    BY <1>2, <1>8, <1>9
  <1>13. Len(s) \in DOMAIN s
    BY <1>2
  <1> QED
    BY <1>10, <1>11, <1>12, <1>13

LEMMA FreshNode ==
  ASSUME NEW kind, NEW text, NEW reads
  PROVE  /\ IsNode(Node(kind, text, reads))
         /\ Node(kind, text, reads).node = kind
         /\ Node(kind, text, reads).items = <<>>
         /\ Node(kind, text, reads).keys = <<>>
  BY DEF Node, IsNode, NodeFields

\* A new node is a tree without inner nodes.
LEMMA FreshDeep ==
  ASSUME NEW kind, NEW text, NEW reads
  PROVE  Deep(Node(kind, text, reads))
  BY FreshNode, EmptyIsSeq DEF Deep, Whole

\* A new mapping or sequence may be added to.
LEMMA FreshGrowing ==
  ASSUME NEW kind, NEW text, NEW reads, kind \in {"map", "seq"}
  PROVE  Growing(Node(kind, text, reads))
  <1>1. /\ IsNode(Node(kind, text, reads)) /\ Node(kind, text, reads).node = kind
        /\ Node(kind, text, reads).items = <<>> /\ Node(kind, text, reads).keys = <<>>
    BY FreshNode
  <1> QED
    BY <1>1, EmptyIsSeq DEF Growing

\* An item more.
LEMMA ItemMore ==
  ASSUME NEW x, Growing(x), NEW item, Whole(item),
         Waiting(x)
  PROVE  Growing([x EXCEPT !.items = Append(@, item)])
  <1> DEFINE items == Append(x.items, item)
             more == [x EXCEPT !.items = items]
  <1>1. /\ IsSeq(items)
        /\ Len(x.items) \in Nat /\ DOMAIN x.items = 1 .. Len(x.items)
        /\ Len(items) = Len(x.items) + 1
        /\ DOMAIN items = 1 .. Len(x.items) + 1
        /\ \A i \in 1 .. Len(x.items) : items[i] = x.items[i]
        /\ items[Len(x.items) + 1] = item
    BY AppendAny DEF Growing
  <1>2. IsNode(x)
    BY DEF Growing
  <1> HIDE DEF items
  <1>3. /\ IsNode(more) /\ more.items = items /\ more.keys = x.keys /\ more.node = x.node
    BY <1>2 DEF IsNode, NodeFields
  <1>4. [x EXCEPT !.items = Append(@, item)] = more
    BY DEF items
  <1> HIDE DEF more
  <1>5. IsSeq(x.keys)
    BY DEF Growing
  <1>6. Len(x.keys) \in Nat
    BY <1>5 DEF IsSeq
  <1>7. \A i \in DOMAIN items : Whole(items[i])
    BY <1>1 DEF Growing
  <1>8. more.node = "map" => Len(more.keys) - Len(more.items) \in {0, 1}
    BY <1>1, <1>3, <1>6 DEF Growing, Waiting
  <1>9. Growing(more)
    BY <1>1, <1>3, <1>5, <1>7, <1>8 DEF Growing
  <1> QED
    BY <1>4, <1>9

\* A key more.
LEMMA KeyMore ==
  ASSUME NEW x, Growing(x), NEW key, x.node = "map", Len(x.keys) = Len(x.items)
  PROVE  Growing([x EXCEPT !.keys = Append(@, key)])
  <1> DEFINE keys == Append(x.keys, key)
             more == [x EXCEPT !.keys = keys]
  <1>1. /\ IsSeq(keys)
        /\ Len(x.keys) \in Nat
        /\ Len(keys) = Len(x.keys) + 1
    BY AppendAny DEF Growing
  <1>2. IsNode(x)
    BY DEF Growing
  <1> HIDE DEF keys
  <1>3. /\ IsNode(more) /\ more.items = x.items /\ more.keys = keys /\ more.node = x.node
    BY <1>2 DEF IsNode, NodeFields
  <1>4. [x EXCEPT !.keys = Append(@, key)] = more
    BY DEF keys
  <1> HIDE DEF more
  <1>8. Len(more.keys) - Len(more.items) \in {0, 1}
    BY <1>1, <1>3
  <1>9. Growing(more)
    BY <1>1, <1>3, <1>8 DEF Growing
  <1> QED
    BY <1>4, <1>9

----------------------------------------------------------------------------
(* The reader, event by event.                                             *)

LEMMA InitTrees == ReaderInit => Trees
  <1> SUFFICES ASSUME ReaderInit PROVE Trees
    OBVIOUS
  <1>1. open = <<>> /\ root = NoNode
    BY DEF ReaderInit
  <1>2. Deep(root)
    BY <1>1, FreshDeep DEF NoNode
  <1> QED
    BY <1>1, <1>2, EmptyIsSeq DEF Trees, Stack

\* A node is complete.
LEMMA CompleteKeeps ==
  ASSUME Deep(root), NEW node, Deep(node), NEW rest, Stack(rest),
         rest # <<>> => Waiting(Last(rest)) /\ Len(rest) \in DOMAIN rest,
         Complete(node, rest)
  PROVE  Trees'
  <1>1. CASE rest = <<>>
    <2>1. root' = node /\ open' = <<>>
      BY <1>1 DEF Complete
    <2> QED
      BY <2>1, EmptyIsSeq DEF Trees, Stack
  <1>2. CASE rest # <<>>
    <2> DEFINE n == Len(rest)
               last == [rest[n] EXCEPT !.items = Append(@, node)]
    <2>1. open' = [rest EXCEPT ![n] = last] /\ root' = root
      BY <1>2 DEF Complete
    <2>2. n \in DOMAIN rest
      BY <1>2
    <2>3. Last(rest) = rest[n]
      BY DEF Last
    <2>4. Growing(last)
      <3>1. Whole(node) /\ Growing(rest[n])
        BY <2>2 DEF Deep, Stack
      <3> QED
        BY <1>2, <2>3, <3>1, ItemMore
    <2> HIDE DEF last
    <2>5. /\ IsSeq(open') /\ DOMAIN open' = DOMAIN rest
          /\ open'[n] = last
          /\ \A i \in DOMAIN rest : i # n => open'[i] = rest[i]
      BY <2>1, <2>2, ExceptAny DEF Stack
    <2>6. \A i \in DOMAIN open' : Growing(open'[i])
      BY <2>4, <2>5 DEF Stack
    <2>7. Len(open') = Len(rest)
      BY <2>5, SameLength DEF Stack
    <2>8. \A i \in DOMAIN open' : i < Len(open') => Waiting(open'[i])
      <3> SUFFICES ASSUME NEW i \in DOMAIN rest, i < n PROVE Waiting(open'[i])
        BY <2>5, <2>7
      <3>1. n \in Nat /\ i # n
        BY SameLength DEF Stack
      <3> QED
        BY <2>5, <3>1 DEF Stack
    <2>9. Deep(root')
      BY <2>1
    <2> QED
      BY <2>5, <2>6, <2>8, <2>9 DEF Trees, Stack
  <1> QED
    BY <1>1, <1>2

\* Each event of the scanner leaves trees.
LEMMA ReaderKeeps ==
  ASSUME Trees, ReaderNext
  PROVE  Trees'
  <1>0. Stack(open) /\ Deep(root) /\ IsSeq(open)
    BY DEF Trees, Stack
  <1>1. ASSUME UNCHANGED <<open, root>> PROVE Trees'
    BY <1>1 DEF Trees
  <1>2. CASE ReadScalar
    <2> DEFINE node == Node("scalar", Coming.text, Coming.reads)
    <2>1. Deep(node)
      BY FreshDeep
    <2>2. Complete(node, open) /\ ~AtKey /\ place = "node"
      BY <1>2 DEF ReadScalar, AtValue
    <2>3. open # <<>> => Waiting(Last(open)) /\ Len(open) \in DOMAIN open
      <3> SUFFICES ASSUME open # <<>> PROVE Waiting(Last(open)) /\ Len(open) \in DOMAIN open
        OBVIOUS
      <3>1. Len(open) \in DOMAIN open
        BY <1>0, FrontAny
      <3> QED
        BY <2>2, <3>1 DEF AtKey, Innermost, Waiting
    <2> HIDE DEF node
    <2> QED
      BY <1>0, <2>1, <2>2, <2>3, CompleteKeeps
  <1>3. CASE OpenCollection
    <2> DEFINE kind == Opening[Coming.kind]
               new == Node(kind, "", "string")
    <2>0. Coming.kind \in {"seq_start", "map_start"}
      BY <1>3 DEF OpenCollection, Reads, Opening
    <2>1. kind \in {"map", "seq"}
      BY <2>0 DEF Opening
    <2>2. Growing(new)
      <3>1. \A k, t, r : k \in {"map", "seq"} => Growing(Node(k, t, r))
        BY FreshGrowing
      <3>2. PICK t, r : t = "" /\ r = "string"
        OBVIOUS
      <3>3. Growing(Node(kind, t, r))
        BY <2>1, <3>1
      <3> QED
        BY <3>2, <3>3
    <2>3. open' = Append(open, new) /\ root' = root
      BY <1>3 DEF OpenCollection
    <2> HIDE DEF new
    <2>4. /\ IsSeq(open') /\ Len(open) \in Nat /\ DOMAIN open = 1 .. Len(open)
          /\ Len(open') = Len(open) + 1
          /\ DOMAIN open' = 1 .. Len(open) + 1
          /\ \A i \in 1 .. Len(open) : open'[i] = open[i]
          /\ open'[Len(open) + 1] = new
      BY <1>0, <2>3, AppendAny
    <2>5. \A i \in DOMAIN open' : Growing(open'[i])
      BY <1>0, <2>2, <2>4 DEF Stack
    <2>6. open # <<>> => Waiting(open[Len(open)])
      BY <1>3 DEF OpenCollection, AtValue, AtKey, Innermost, Last, Waiting
    <2>7. Len(open) # 0 => open # <<>>
      BY EmptyIsSeq
    <2>8. ASSUME NEW i \in DOMAIN open', i < Len(open') PROVE Waiting(open'[i])
      <3>1. i \in 1 .. Len(open)
        BY <2>4, <2>8
      <3>2. open'[i] = open[i] /\ i \in DOMAIN open
        BY <2>4, <3>1
      <3>3. CASE i = Len(open)
        BY <2>6, <2>7, <3>1, <3>2, <3>3, <2>4
      <3>4. CASE i < Len(open)
        BY <1>0, <3>2, <3>4 DEF Stack
      <3> QED
        BY <3>1, <3>3, <3>4, <2>4
    <2> QED
      BY <1>0, <2>3, <2>4, <2>5, <2>8 DEF Trees, Stack
  <1>4. CASE CloseCollection
    <2> DEFINE node == Last(open)
               rest == Front(open)
    <2>1. open # <<>> /\ Complete(node, rest)
      BY <1>4 DEF CloseCollection, Innermost
    <2>2. /\ IsSeq(rest)
          /\ rest # <<>> => Len(rest) \in DOMAIN rest
          /\ \A i \in DOMAIN rest : i \in DOMAIN open /\ i < Len(open) /\ rest[i] = open[i]
          /\ Len(open) \in DOMAIN open
      BY <1>0, <2>1, FrontAny
    <2>3. node = open[Len(open)]
      BY DEF Last
    <2>4. Growing(node)
      BY <1>0, <2>2, <2>3 DEF Stack
    <2>5. node.node = "map" => Len(node.keys) = Len(node.items)
      BY <1>4 DEF CloseCollection, AtKey, Innermost
    <2>6. Deep(node)
      BY <2>4, <2>5 DEF Growing, Deep, Whole
    <2> HIDE DEF rest
    <2>7. \A i \in DOMAIN rest : Growing(rest[i]) /\ Waiting(rest[i])
      BY <1>0, <2>2 DEF Stack
    <2>8. Stack(rest)
      BY <2>2, <2>7 DEF Stack
    <2>9. rest # <<>> => Waiting(Last(rest)) /\ Len(rest) \in DOMAIN rest
      BY <2>2, <2>7 DEF Last
    <2> QED
      BY <1>0, <2>1, <2>6, <2>8, <2>9, CompleteKeeps
  <1>5. CASE ReadKey
    <2> DEFINE n == Len(open)
               last == [open[n] EXCEPT !.keys = Append(@, Coming.text)]
    <2>1. open' = [open EXCEPT ![n] = last] /\ root' = root
      BY <1>5 DEF ReadKey
    <2>2. n \in DOMAIN open
      BY <1>0, <1>5, FrontAny DEF ReadKey, AtKey
    <2>3. open[n].node = "map" /\ Len(open[n].keys) = Len(open[n].items)
      BY <1>5 DEF ReadKey, AtKey, Innermost, Last
    <2>4. Growing(last)
      <3>1. Growing(open[n])
        BY <1>0, <2>2 DEF Stack
      <3> QED
        BY <2>3, <3>1, KeyMore
    <2> HIDE DEF last
    <2>5. /\ IsSeq(open') /\ DOMAIN open' = DOMAIN open
          /\ open'[n] = last
          /\ \A i \in DOMAIN open : i # n => open'[i] = open[i]
      BY <1>0, <2>1, <2>2, ExceptAny
    <2>6. \A i \in DOMAIN open' : Growing(open'[i])
      BY <1>0, <2>4, <2>5 DEF Stack
    <2>7. Len(open') = Len(open)
      BY <1>0, <2>5, SameLength
    <2>8. \A i \in DOMAIN open' : i < Len(open') => Waiting(open'[i])
      <3> SUFFICES ASSUME NEW i \in DOMAIN open, i < n PROVE Waiting(open'[i])
        BY <2>5, <2>7
      <3>1. n \in Nat /\ i # n
        BY <1>0, SameLength
      <3> QED
        BY <1>0, <2>5, <3>1 DEF Stack
    <2> QED
      BY <1>0, <2>1, <2>5, <2>6, <2>8 DEF Trees, Stack
  <1> QED
    BY <1>1, <1>2, <1>3, <1>4, <1>5
    DEF ReaderNext, StreamBegins, DocumentBegins, NoDocument, RefuseNode, RefuseKey,
        DocumentEnds, StreamEnds, SecondDocument, ScanFails, Refuse

----------------------------------------------------------------------------
(***************************************************************************)
(* What a tree says.  A branch goes down from a node along a path; a node  *)
(* says a text where the branch along the whole path ends in that scalar.  *)
(***************************************************************************)
Label(node, i) == IF node.node = "map" THEN Word(node.keys[i]) ELSE Nth(i)

Branch(node, path, from, to, b) ==
  /\ b[from] = node
  /\ \A k \in from + 1 .. to :
       \E i \in DOMAIN b[k - 1].items :
         Label(b[k - 1], i) = path[k] /\ b[k] = b[k - 1].items[i]

Says(node, path, from, to, text) ==
  \E b : Branch(node, path, from, to, b) /\ b[to].node = "scalar" /\ b[to].text = text

\* At the end of the path.
LEMMA SaysHere ==
  ASSUME NEW node, NEW path, NEW n \in Nat, NEW text
  PROVE  Says(node, path, n, n, text) <=> node.node = "scalar" /\ node.text = text
  <1>1. ASSUME Says(node, path, n, n, text) PROVE node.node = "scalar" /\ node.text = text
    BY <1>1 DEF Says, Branch
  <1>2. ASSUME node.node = "scalar" /\ node.text = text PROVE Says(node, path, n, n, text)
    <2> DEFINE b == [k \in {n} |-> node]
    <2>1. n + 1 .. n = {}
      OBVIOUS
    <2>2. b[n] = node
      OBVIOUS
    <2> HIDE DEF b
    <2>3. Branch(node, path, n, n, b)
      BY <2>1, <2>2 DEF Branch
    <2> QED
      BY <1>2, <2>2, <2>3 DEF Says
  <1> QED
    BY <1>1, <1>2

\* Before it: an item says the rest.
SaysThrough(node, path, from, to, text) ==
  \E i \in DOMAIN node.items :
    Label(node, i) = path[from + 1] /\ Says(node.items[i], path, from + 1, to, text)

LEMMA SaysBelow ==
  ASSUME NEW node, NEW path, NEW from \in Nat, NEW to \in Nat, from < to, NEW text
  PROVE  Says(node, path, from, to, text) <=> SaysThrough(node, path, from, to, text)
  <1>1. ASSUME Says(node, path, from, to, text)
        PROVE  SaysThrough(node, path, from, to, text)
    <2>1. PICK b : Branch(node, path, from, to, b) /\ b[to].node = "scalar" /\ b[to].text = text
      BY <1>1 DEF Says
    <2>2. from + 1 \in from + 1 .. to /\ (from + 1) - 1 = from
      OBVIOUS
    <2>3. PICK i \in DOMAIN node.items :
            Label(node, i) = path[from + 1] /\ b[from + 1] = node.items[i]
      BY <2>1, <2>2 DEF Branch
    <2>4. \A k \in (from + 1) + 1 .. to : k \in from + 1 .. to
      OBVIOUS
    <2>5. Branch(node.items[i], path, from + 1, to, b)
      BY <2>1, <2>3, <2>4 DEF Branch
    <2>6. Says(node.items[i], path, from + 1, to, text)
      BY <2>1, <2>5 DEF Says
    <2> QED
      BY <2>3, <2>6 DEF SaysThrough
  <1>2. ASSUME NEW i \in DOMAIN node.items,
               Label(node, i) = path[from + 1], Says(node.items[i], path, from + 1, to, text)
        PROVE  Says(node, path, from, to, text)
    <2> DEFINE item == node.items[i]
    <2>1. PICK c : Branch(item, path, from + 1, to, c) /\ c[to].node = "scalar" /\ c[to].text = text
      BY <1>2 DEF Says
    <2> DEFINE b == [k \in from .. to |-> IF k = from THEN node ELSE c[k]]
    <2>2. b[from] = node /\ \A k \in from + 1 .. to : b[k] = c[k]
      OBVIOUS
    <2> HIDE DEF b
    <2>3. c[from + 1] = item
      BY <2>1 DEF Branch
    <2>4. ASSUME NEW k \in from + 1 .. to
          PROVE  \E j \in DOMAIN b[k - 1].items :
                   Label(b[k - 1], j) = path[k] /\ b[k] = b[k - 1].items[j]
      <3>1. CASE k = from + 1
        <4>1. k - 1 = from
          BY <3>1
        <4>2. b[k - 1] = node /\ b[k] = item
          BY <2>2, <2>3, <3>1, <4>1
        <4> QED
          BY <1>2, <3>1, <4>2
      <3>2. CASE k # from + 1
        <4>1. k \in (from + 1) + 1 .. to /\ k - 1 \in from + 1 .. to
          BY <3>2
        <4>2. b[k] = c[k] /\ b[k - 1] = c[k - 1]
          BY <2>2, <4>1
        <4>3. \E j \in DOMAIN c[k - 1].items :
                Label(c[k - 1], j) = path[k] /\ c[k] = c[k - 1].items[j]
          BY <2>1, <4>1 DEF Branch
        <4> QED
          BY <4>2, <4>3
      <3> QED
        BY <3>1, <3>2
    <2>5. Branch(node, path, from, to, b)
      BY <2>2, <2>4 DEF Branch
    <2>6. to \in from + 1 .. to
      OBVIOUS
    <2>7. b[to].node = "scalar" /\ b[to].text = text
      BY <2>1, <2>2, <2>6
    <2> QED
      BY <2>5, <2>7 DEF Says
  <1> QED
    BY <1>1, <1>2 DEF SaysThrough

\* A scalar says its text and nothing else.
LEMMA ScalarSays ==
  ASSUME NEW node, node.node = "scalar", node.items = <<>>,
         NEW path, NEW from \in Nat, NEW to \in Nat, from <= to, NEW text
  PROVE  Says(node, path, from, to, text) <=> from = to /\ node.text = text
  <1>1. CASE from = to
    BY <1>1, SaysHere
  <1>2. CASE from # to
    <2>1. from < to
      BY <1>2
    <2>2. DOMAIN node.items = {}
      BY EmptyIsSeq
    <2>3. Says(node, path, from, to, text) <=> SaysThrough(node, path, from, to, text)
      BY <2>1, SaysBelow
    <2> QED
      BY <1>2, <2>2, <2>3 DEF SaysThrough
  <1> QED
    BY <1>1, <1>2

----------------------------------------------------------------------------
(***************************************************************************)
(* The frames of Hear mirror the stack of the reader.                      *)
(***************************************************************************)
Agrees(x, frame) ==
  /\ frame = Frame(x.node, frame.key, frame.number)
  /\ x.node = "map" => /\ frame.number = Len(x.keys) - Len(x.items)
                       /\ frame.number = 1 => frame.key = x.keys[Len(x.keys)]
  /\ x.node # "map" => frame.number = Len(x.items)

Mirrors(stack, frames) ==
  /\ IsSeq(frames)
  /\ DOMAIN frames = DOMAIN stack
  /\ \A i \in DOMAIN stack : Agrees(stack[i], frames[i])

LEMMA FrameFields ==
  ASSUME NEW node, NEW key, NEW number
  PROVE  /\ Frame(node, key, number).node = node
         /\ Frame(node, key, number).key = key
         /\ Frame(node, key, number).number = number
  BY DEF Frame

WithItem(x, item) == [x EXCEPT !.items = Append(@, item)]
WithKey(x, key) == [x EXCEPT !.keys = Append(@, key)]

Extends(more, x, item, frame) ==
  /\ DOMAIN more.items = DOMAIN x.items \cup {Len(x.items) + 1}
  /\ \A i \in DOMAIN x.items : /\ i # Len(x.items) + 1
                               /\ Label(more, i) = Label(x, i)
                               /\ more.items[i] = x.items[i]
  /\ Label(more, Len(x.items) + 1) = Here(frame)
  /\ more.items[Len(x.items) + 1] = item
  /\ more.node = x.node /\ more.keys = x.keys

\* What is appended is where the frame says it will be, and all else where it was.
LEMMA LabelsStay ==
  ASSUME NEW x, Growing(x), NEW item, Waiting(x), NEW frame, Agrees(x, frame)
  PROVE  Extends(WithItem(x, item), x, item, frame)
  <1> DEFINE items == Append(x.items, item)
             more == [x EXCEPT !.items = items]
             n == Len(x.items)
  <1>1. /\ n \in Nat /\ DOMAIN x.items = 1 .. n
        /\ DOMAIN items = 1 .. n + 1
        /\ \A i \in 1 .. n : items[i] = x.items[i]
        /\ items[n + 1] = item
    BY AppendAny DEF Growing
  <1>2. IsNode(x)
    BY DEF Growing
  <1> HIDE DEF items, n
  <1>3. /\ more.items = items /\ more.keys = x.keys /\ more.node = x.node
    BY <1>2 DEF IsNode, NodeFields
  <1> HIDE DEF more
  <1>4. 1 .. n + 1 = (1 .. n) \cup {n + 1} /\ \A i \in 1 .. n : i # n + 1
    BY <1>1
  <1>5. \A i : Label(more, i) = Label(x, i)
    BY <1>3 DEF Label
  <1>6. Label(x, n + 1) = Here(frame)
    <2>1. frame.node = x.node
      <3>1. PICK key, number : frame = Frame(x.node, key, number)
        BY DEF Agrees
      <3> QED
        BY <3>1, FrameFields
    <2>2. CASE x.node = "map"
      <3>1. Len(x.keys) - n = 1
        BY <2>2 DEF Growing, Waiting, n
      <3>2. IsSeq(x.keys)
        BY DEF Growing
      <3>3. Len(x.keys) \in Nat
        BY <3>2 DEF IsSeq
      <3>4. Len(x.keys) = n + 1
        BY <1>1, <3>1, <3>3
      <3>5. frame.key = x.keys[n + 1]
        BY <2>2, <3>1, <3>4 DEF Agrees, n
      <3> QED
        BY <2>1, <2>2, <3>5 DEF Label, Here
    <2>3. CASE x.node # "map"
      <3>1. frame.number = n
        BY <2>3 DEF Agrees, n
      <3> QED
        BY <2>1, <2>3, <3>1 DEF Label, Here
    <2> QED
      BY <2>2, <2>3
  <1>7. /\ DOMAIN more.items = DOMAIN x.items \cup {n + 1}
        /\ \A i \in DOMAIN x.items : /\ i # n + 1
                                     /\ Label(more, i) = Label(x, i)
                                     /\ more.items[i] = x.items[i]
        /\ Label(more, n + 1) = Here(frame)
        /\ more.items[n + 1] = item
        /\ more.node = x.node /\ more.keys = x.keys
    BY <1>1, <1>3, <1>4, <1>5, <1>6
  <1> QED
    BY <1>7 DEF more, items, n, WithItem, Extends

\* An item more says what it says, from its place on.
LEMMA ItemSays ==
  ASSUME NEW x, Growing(x), NEW item, Waiting(x), NEW frame, Agrees(x, frame),
         NEW path, NEW from \in Nat, NEW to \in Nat, from < to, NEW text
  PROVE  Says(WithItem(x, item), path, from, to, text)
           <=> \/ Says(x, path, from, to, text)
               \/ path[from + 1] = Here(frame) /\ Says(item, path, from + 1, to, text)
  <1> DEFINE more == WithItem(x, item)
  <1>1. Extends(more, x, item, frame)
    BY LabelsStay
  <1> HIDE DEF more
  <1>2. Says(more, path, from, to, text) <=> SaysThrough(more, path, from, to, text)
    BY SaysBelow
  <1>3. Says(x, path, from, to, text) <=> SaysThrough(x, path, from, to, text)
    BY SaysBelow
  <1>4. Says(more, path, from, to, text)
          <=> \/ Says(x, path, from, to, text)
              \/ path[from + 1] = Here(frame) /\ Says(item, path, from + 1, to, text)
    BY <1>1, <1>2, <1>3 DEF Extends, SaysThrough
  <1> QED
    BY <1>4 DEF more

\* A key that has no value yet says nothing.
LEMMA KeySays ==
  ASSUME NEW x, Growing(x), NEW key, x.node = "map", Len(x.keys) = Len(x.items),
         NEW path, NEW from \in Nat, NEW to \in Nat, from < to, NEW text
  PROVE  Says(WithKey(x, key), path, from, to, text)
           <=> Says(x, path, from, to, text)
  <1> DEFINE keys == Append(x.keys, key)
             more == [x EXCEPT !.keys = keys]
  <1>1. \A i \in 1 .. Len(x.keys) : keys[i] = x.keys[i]
    BY AppendAny DEF Growing
  <1>2. IsNode(x)
    BY DEF Growing
  <1> HIDE DEF keys
  <1>3. /\ more.items = x.items /\ more.keys = keys /\ more.node = x.node
    BY <1>2 DEF IsNode, NodeFields
  <1>4. WithKey(x, key) = more
    BY DEF keys, WithKey
  <1> HIDE DEF more
  <1>5. DOMAIN x.items = 1 .. Len(x.keys)
    BY AppendAny DEF Growing
  <1>6. \A i \in DOMAIN x.items : Label(more, i) = Label(x, i)
    BY <1>1, <1>3, <1>5 DEF Label
  <1>7. Says(more, path, from, to, text) <=> SaysThrough(more, path, from, to, text)
    BY SaysBelow
  <1>8. Says(x, path, from, to, text) <=> SaysThrough(x, path, from, to, text)
    BY SaysBelow
  <1> QED
    BY <1>3, <1>4, <1>6, <1>7, <1>8 DEF SaysThrough

----------------------------------------------------------------------------
(***************************************************************************)
(* What is said within the open collections: under the address of one, and *)
(* along its own branches from there on.                                   *)
(***************************************************************************)
Under(frames, n, path) == \A j \in 1 .. n : path[j] = Here(frames[j])

SaysIn(stack, frames, path, text) ==
  \E i \in DOMAIN stack : /\ i <= Len(path)
                          /\ Under(frames, i - 1, path)
                          /\ Says(stack[i], path, i - 1, Len(path), text)

\* The same with a node that is complete, at the address of the innermost.
WithNode(stack, frames, node, path, text) ==
  \/ SaysIn(stack, frames, path, text)
  \/ /\ Len(stack) <= Len(path)
     /\ Under(frames, Len(stack), path)
     /\ Says(node, path, Len(stack), Len(path), text)

\* The frame of the innermost collection, once a value is complete.
NextFrame(frame) ==
  IF frame.node = "map" THEN Frame("map", frame.key, 0) ELSE Frame("seq", frame.key, frame.number + 1)

\* A collection agrees with its next frame when it has its next item.
LEMMA ItemAgrees ==
  ASSUME NEW x, Growing(x), NEW item, Waiting(x), NEW frame, Agrees(x, frame)
  PROVE  Agrees(WithItem(x, item), NextFrame(frame))
  <1> DEFINE items == Append(x.items, item)
             more == [x EXCEPT !.items = items]
             next == NextFrame(frame)
  <1>1. Len(items) = Len(x.items) + 1 /\ Len(x.items) \in Nat
    BY AppendAny DEF Growing
  <1>2. IsNode(x) /\ IsSeq(x.keys) /\ (x.node # "map" => x.node = "seq")
    BY DEF Growing
  <1> HIDE DEF items
  <1>3. /\ more.items = items /\ more.keys = x.keys /\ more.node = x.node
    BY <1>2 DEF IsNode, NodeFields
  <1>4. WithItem(x, item) = more
    BY DEF items, WithItem
  <1> HIDE DEF more
  <1>5. Len(x.keys) \in Nat
    BY <1>2 DEF IsSeq
  <1>6. frame.node = x.node
    <2>1. PICK key, number : frame = Frame(x.node, key, number)
      BY DEF Agrees
    <2> QED
      BY <2>1, FrameFields
  <1>7. CASE x.node = "map"
    <2>1. next = Frame("map", frame.key, 0)
      BY <1>6, <1>7 DEF NextFrame
    <2> HIDE DEF next
    <2>2. next.node = "map" /\ next.number = 0 /\ next.key = frame.key
      BY <2>1, FrameFields
    <2>3. Len(x.keys) - Len(x.items) = 1
      BY <1>7 DEF Growing, Waiting
    <2>4. Len(more.keys) - Len(more.items) = 0
      BY <1>1, <1>3, <1>5, <2>3
    <2>5. next = Frame(more.node, next.key, next.number)
      BY <1>3, <1>7, <2>1, <2>2
    <2>6. Agrees(more, next)
      BY <1>3, <1>7, <2>2, <2>4, <2>5 DEF Agrees
    <2> QED
      BY <1>4, <2>6 DEF next
  <1>8. CASE x.node # "map"
    <2>1. next = Frame("seq", frame.key, frame.number + 1)
      BY <1>6, <1>8 DEF NextFrame
    <2> HIDE DEF next
    <2>2. next.node = "seq" /\ next.number = frame.number + 1 /\ next.key = frame.key
      BY <2>1, FrameFields
    <2>3. frame.number = Len(x.items)
      BY <1>8 DEF Agrees
    <2>4. next = Frame(more.node, next.key, next.number)
      BY <1>2, <1>3, <1>8, <2>1, <2>2
    <2>5. Agrees(more, next)
      BY <1>1, <1>3, <1>8, <2>2, <2>3, <2>4 DEF Agrees
    <2> QED
      BY <1>4, <2>5 DEF next
  <1> QED
    BY <1>7, <1>8

\* A node is complete, and the collection around it goes on.
LEMMA CompleteSays ==
  ASSUME NEW node, NEW rest, Stack(rest), rest # <<>>, Waiting(Last(rest)),
         NEW frames, Mirrors(rest, frames), Complete(node, rest)
  PROVE  /\ Mirrors(open', ValueHeard(frames))
         /\ \A path, text :
              IsSeq(path) => (SaysIn(open', ValueHeard(frames), path, text)
                                <=> WithNode(rest, frames, node, path, text))
  <1> DEFINE n == Len(rest)
             x == rest[n]
             more == WithItem(x, node)
             frame == frames[n]
             next == NextFrame(frame)
             stack == [rest EXCEPT ![n] = more]
             heard == [frames EXCEPT ![n] = next]
  <1>1. IsSeq(rest) /\ IsSeq(frames) /\ DOMAIN frames = DOMAIN rest
    BY DEF Stack, Mirrors
  <1>2. n \in DOMAIN rest
    BY <1>1, FrontAny
  <1>3. n \in Nat /\ DOMAIN rest = 1 .. n
    BY <1>1 DEF IsSeq
  <1>4. Len(frames) = n
    BY <1>1, SameLength
  <1>5. Growing(x) /\ Waiting(x) /\ Agrees(x, frame)
    BY <1>1, <1>2 DEF Stack, Mirrors, Last
  <1>6. open' = stack
    BY DEF Complete, WithItem
  <1>7. ValueHeard(frames) = heard
    <2>1. frames # <<>>
      BY <1>1, <1>2, EmptyIsSeq
    <2>2. Last(frames) = frame
      BY <1>4 DEF Last
    <2> QED
      BY <1>4, <2>1, <2>2 DEF ValueHeard, NextFrame
  <1>8. Agrees(more, next)
    BY <1>5, ItemAgrees
  <1>9. /\ IsSeq(stack) /\ DOMAIN stack = DOMAIN rest
        /\ stack[n] = more
        /\ \A i \in DOMAIN rest : i # n => stack[i] = rest[i]
    BY <1>1, <1>2, ExceptAny
  <1>10. /\ IsSeq(heard) /\ DOMAIN heard = DOMAIN rest
         /\ heard[n] = next
         /\ \A i \in DOMAIN rest : i # n => heard[i] = frames[i]
    BY <1>1, <1>2, ExceptAny
  <1> HIDE DEF stack, heard, more, next, x, frame, n
  <1>11. Mirrors(stack, heard)
    BY <1>1, <1>8, <1>9, <1>10 DEF Mirrors
  <1>12. \A i \in DOMAIN rest : \A path : Under(heard, i - 1, path) <=> Under(frames, i - 1, path)
    <2> SUFFICES ASSUME NEW i \in DOMAIN rest
                 PROVE  \A j \in 1 .. i - 1 : heard[j] = frames[j]
      BY DEF Under
    <2>1. \A j \in 1 .. i - 1 : j \in DOMAIN rest /\ j # n
      BY <1>3
    <2> QED
      BY <1>10, <2>1
  <1>13. ASSUME NEW path, NEW text, IsSeq(path)
         PROVE  SaysIn(stack, heard, path, text) <=> WithNode(rest, frames, node, path, text)
    <2> DEFINE to == Len(path)
    <2>1. to \in Nat
      BY <1>13 DEF IsSeq
    <2> HIDE DEF to
    <2>2. n <= to => (Says(more, path, n - 1, to, text)
                        <=> \/ Says(x, path, n - 1, to, text)
                            \/ path[n] = Here(frame) /\ Says(node, path, n, to, text))
      <3> SUFFICES ASSUME n <= to
                   PROVE  Says(more, path, n - 1, to, text)
                            <=> \/ Says(x, path, n - 1, to, text)
                                \/ path[n] = Here(frame) /\ Says(node, path, n, to, text)
        OBVIOUS
      <3> DEFINE from == n - 1
      <3>1. from \in Nat /\ from < to /\ from + 1 = n
        BY <1>2, <1>3, <2>1
      <3> HIDE DEF from
      <3>2. Says(WithItem(x, node), path, from, to, text)
              <=> \/ Says(x, path, from, to, text)
                  \/ path[from + 1] = Here(frame) /\ Says(node, path, from + 1, to, text)
        BY <1>5, <2>1, <3>1, ItemSays
      <3> QED
        BY <3>1, <3>2 DEF more, from
    <2>3. Under(frames, n, path) <=> Under(frames, n - 1, path) /\ path[n] = Here(frame)
      <3>1. 1 .. n = (1 .. n - 1) \cup {n}
        BY <1>2, <1>3
      <3> QED
        BY <3>1 DEF Under, frame
    <2>4. SaysIn(stack, heard, path, text)
            <=> \E i \in DOMAIN rest : /\ i <= to /\ Under(frames, i - 1, path)
                                       /\ Says(stack[i], path, i - 1, to, text)
      BY <1>9, <1>12 DEF SaysIn, to
    <2>5. SaysIn(rest, frames, path, text)
            <=> \E i \in DOMAIN rest : /\ i <= to /\ Under(frames, i - 1, path)
                                       /\ Says(rest[i], path, i - 1, to, text)
      BY DEF SaysIn, to
    <2>6. WithNode(rest, frames, node, path, text)
            <=> \/ SaysIn(rest, frames, path, text)
                \/ n <= to /\ Under(frames, n, path) /\ Says(node, path, n, to, text)
      BY DEF WithNode, to, n
    <2> QED
      BY <1>2, <1>9, <2>2, <2>3, <2>4, <2>5, <2>6 DEF x
  <1> QED
    BY <1>6, <1>7, <1>11, <1>13

\* Around the root there is no collection.
LEMMA RootSays ==
  ASSUME NEW node, NEW frames, NEW path, IsSeq(path), NEW text
  PROVE  WithNode(<<>>, frames, node, path, text) <=> Says(node, path, 0, Len(path), text)
  <1>1. ~SaysIn(<<>>, frames, path, text)
    BY EmptyIsSeq DEF SaysIn
  <1>2. Len(<<>>) = 0 /\ Len(path) \in Nat
    BY EmptyIsSeq DEF IsSeq
  <1>3. Under(frames, 0, path)
    BY DEF Under
  <1> QED
    BY <1>1, <1>2, <1>3 DEF WithNode

\* A collection that is begun says nothing yet.
NewNode(kind) == Node(kind, "", "string")

LEMMA NewAgrees ==
  ASSUME NEW kind
  PROVE  /\ NewNode(kind).node = kind /\ NewNode(kind).items = <<>> /\ NewNode(kind).keys = <<>>
         /\ Agrees(NewNode(kind), Begun(kind))
  <1> DEFINE new == NewNode(kind)
             frame == Begun(kind)
  <1>1. new.node = kind /\ new.items = <<>> /\ new.keys = <<>>
    BY DEF NewNode, Node
  <1>2. frame.node = kind /\ frame.number = 0
    BY DEF Begun, Frame
  <1>3. frame = Frame(frame.node, frame.key, frame.number)
    BY DEF Begun, Frame
  <1> HIDE DEF frame, new
  <1>4. Agrees(new, frame)
    BY <1>1, <1>2, <1>3, EmptyIsSeq DEF Agrees
  <1> QED
    BY <1>1, <1>4 DEF new, frame

LEMMA OpenSays ==
  ASSUME NEW stack, Stack(stack), NEW frames, Mirrors(stack, frames),
         NEW kind \in {"map", "seq"}
  PROVE  LET more == Append(stack, NewNode(kind))
             next == Append(frames, Begun(kind))
         IN /\ Mirrors(more, next)
            /\ \A path, text :
                 IsSeq(path) => (SaysIn(more, next, path, text) <=> SaysIn(stack, frames, path, text))
  <1> DEFINE new == NewNode(kind)
             more == Append(stack, new)
             frame == Begun(kind)
             next == Append(frames, frame)
             n == Len(stack)
  <1>1. IsSeq(stack) /\ IsSeq(frames) /\ DOMAIN frames = DOMAIN stack
    BY DEF Stack, Mirrors
  <1>2. Len(frames) = n /\ n \in Nat
    BY <1>1, SameLength
  <1>3. /\ IsSeq(more) /\ DOMAIN stack = 1 .. n
        /\ DOMAIN more = 1 .. n + 1
        /\ \A i \in 1 .. n : more[i] = stack[i]
        /\ more[n + 1] = new
    BY <1>1, AppendAny
  <1>4. /\ IsSeq(next)
        /\ DOMAIN next = 1 .. n + 1
        /\ \A i \in 1 .. n : next[i] = frames[i]
        /\ next[n + 1] = frame
    BY <1>1, <1>2, AppendAny
  <1>5. new.node = kind /\ new.items = <<>> /\ new.keys = <<>>
    BY NewAgrees
  <1>6. Agrees(new, frame)
    BY NewAgrees
  <1> HIDE DEF more, next, new, frame, n
  <1>7. 1 .. n + 1 = (1 .. n) \cup {n + 1}
    BY <1>2
  <1>8. Mirrors(more, next)
    BY <1>1, <1>3, <1>4, <1>6, <1>7 DEF Mirrors
  <1>9. ASSUME NEW path, NEW text, IsSeq(path)
        PROVE  SaysIn(more, next, path, text) <=> SaysIn(stack, frames, path, text)
    <2>1. Len(path) \in Nat
      BY <1>9 DEF IsSeq
    <2>2. n < Len(path) => ~Says(new, path, n, Len(path), text)
      <3> SUFFICES ASSUME n < Len(path) PROVE ~Says(new, path, n, Len(path), text)
        OBVIOUS
      <3>1. Says(new, path, n, Len(path), text) <=> SaysThrough(new, path, n, Len(path), text)
        BY <1>2, <2>1, SaysBelow
      <3> QED
        BY <1>5, <3>1, EmptyIsSeq DEF SaysThrough
    <2>3. (n + 1) - 1 = n /\ (n + 1 <= Len(path) => n < Len(path))
      BY <1>2, <2>1
    <2>4. \A i \in 1 .. n : Under(next, i - 1, path) <=> Under(frames, i - 1, path)
      <3> SUFFICES ASSUME NEW i \in 1 .. n PROVE \A j \in 1 .. i - 1 : next[j] = frames[j]
        BY DEF Under
      <3>1. \A j \in 1 .. i - 1 : j \in 1 .. n
        BY <1>2
      <3> QED
        BY <1>4, <3>1
    <2> QED
      BY <1>3, <1>7, <2>2, <2>3, <2>4 DEF SaysIn
  <1> QED
    BY <1>8, <1>9 DEF more, next, new, frame

\* A key that is read leaves what is said.
LEMMA KeyStays ==
  ASSUME NEW stack, Stack(stack), stack # <<>>, NEW frames, Mirrors(stack, frames),
         Last(stack).node = "map", Len(Last(stack).keys) = Len(Last(stack).items), NEW key
  PROVE  LET more == [stack EXCEPT ![Len(stack)] = WithKey(Last(stack), key)]
             next == KeyHeard(frames, key)
         IN /\ Mirrors(more, next)
            /\ \A path, text :
                 IsSeq(path) => (SaysIn(more, next, path, text) <=> SaysIn(stack, frames, path, text))
  <1> DEFINE n == Len(stack)
             x == stack[n]
             y == WithKey(x, key)
             frame == Frame("map", key, 1)
             more == [stack EXCEPT ![n] = y]
             next == [frames EXCEPT ![n] = frame]
  <1>1. IsSeq(stack) /\ IsSeq(frames) /\ DOMAIN frames = DOMAIN stack
    BY DEF Stack, Mirrors
  <1>2. n \in DOMAIN stack
    BY <1>1, FrontAny
  <1>3. Len(frames) = n /\ n \in Nat /\ DOMAIN stack = 1 .. n
    BY <1>1, SameLength DEF IsSeq
  <1>4. Growing(x) /\ x.node = "map" /\ Len(x.keys) = Len(x.items)
    BY <1>2 DEF Stack, Last
  <1>0. frame = Frame("map", key, 1) /\ frame.node = "map" /\ frame.number = 1 /\ frame.key = key
    BY FrameFields
  <1> HIDE DEF frame
  <1>5. /\ IsSeq(more) /\ DOMAIN more = DOMAIN stack
        /\ more[n] = y
        /\ \A i \in DOMAIN stack : i # n => more[i] = stack[i]
    BY <1>1, <1>2, ExceptAny
  <1>6. /\ IsSeq(next) /\ DOMAIN next = DOMAIN stack
        /\ next[n] = frame
        /\ \A i \in DOMAIN stack : i # n => next[i] = frames[i]
    BY <1>1, <1>2, ExceptAny
  <1>7. Agrees(y, frame)
    <2> DEFINE keys == Append(x.keys, key)
               m == Len(x.keys)
    <2>1. m \in Nat /\ Len(keys) = m + 1 /\ keys[m + 1] = key
      BY <1>4, AppendAny DEF Growing
    <2>2. IsNode(x)
      BY <1>4 DEF Growing
    <2> HIDE DEF keys
    <2> DEFINE z == [x EXCEPT !.keys = keys]
    <2>3. z.keys = keys /\ z.items = x.items /\ z.node = "map"
      BY <1>4, <2>2 DEF IsNode, NodeFields
    <2>4. y = z
      BY DEF keys, WithKey
    <2> HIDE DEF z
    <2>6. frame = Frame(z.node, frame.key, frame.number)
      BY <1>0, <2>3
    <2> HIDE DEF m
    <2>7. Len(z.keys) - Len(z.items) = 1 /\ z.keys[Len(z.keys)] = key
      BY <1>4, <2>1, <2>3 DEF m
    <2>8. Agrees(z, frame)
      BY <1>0, <2>3, <2>6, <2>7 DEF Agrees
    <2> QED
      BY <2>4, <2>8
  <1>8. KeyHeard(frames, key) = next
    BY <1>3 DEF KeyHeard, frame
  <1>9. [stack EXCEPT ![Len(stack)] = WithKey(Last(stack), key)] = more
    BY DEF Last
  <1> HIDE DEF more, next, y, n
  <1>10. Mirrors(more, next)
    BY <1>1, <1>5, <1>6, <1>7 DEF Mirrors
  <1>11. ASSUME NEW path, NEW text, IsSeq(path)
         PROVE  SaysIn(more, next, path, text) <=> SaysIn(stack, frames, path, text)
    <2>1. Len(path) \in Nat
      BY <1>11 DEF IsSeq
    <2>2. n <= Len(path) => (Says(y, path, n - 1, Len(path), text) <=> Says(x, path, n - 1, Len(path), text))
      <3> SUFFICES ASSUME n <= Len(path)
                   PROVE  Says(y, path, n - 1, Len(path), text) <=> Says(x, path, n - 1, Len(path), text)
        OBVIOUS
      <3>1. n - 1 \in Nat /\ n - 1 < Len(path)
        BY <1>2, <1>3, <2>1
      <3> HIDE DEF x
      <3> QED
        BY <1>4, <2>1, <3>1, KeySays DEF y
    <2>3. \A i \in DOMAIN stack : Under(next, i - 1, path) <=> Under(frames, i - 1, path)
      <3> SUFFICES ASSUME NEW i \in DOMAIN stack PROVE \A j \in 1 .. i - 1 : next[j] = frames[j]
        BY DEF Under
      <3>1. \A j \in 1 .. i - 1 : j \in DOMAIN stack /\ j # n
        BY <1>3
      <3> QED
        BY <1>6, <3>1
    <2>4. \A i \in DOMAIN stack :
            i <= Len(path) => (Says(more[i], path, i - 1, Len(path), text)
                                 <=> Says(stack[i], path, i - 1, Len(path), text))
      BY <1>5, <2>2
    <2> QED
      BY <1>5, <2>3, <2>4 DEF SaysIn
  <1> QED
    BY <1>8, <1>9, <1>10, <1>11

LEMMA FrontLength ==
  ASSUME NEW s, IsSeq(s), s # <<>>
  PROVE  /\ IsSeq(Front(s)) /\ Len(Front(s)) = Len(s) - 1 /\ DOMAIN Front(s) = 1 .. Len(s) - 1
         /\ \A i \in 1 .. Len(s) - 1 : Front(s)[i] = s[i]
         /\ Len(s) \in Nat /\ Len(s) >= 1 /\ DOMAIN s = 1 .. Len(s)
  <1>1. PICK S : s \in Seq(S)
    BY DEF IsSeq
  <1>2. Len(s) \in Nat /\ Len(s) # 0 /\ DOMAIN s = 1 .. Len(s)
    BY <1>1, EmptySeq
  <1>3. Front(s) = SubSeq(s, 1, Len(s) - 1)
    BY DEF Front
  <1>4. \A i \in 1 .. Len(s) - 1 : s[i] \in S
    BY <1>1, <1>2
  <1> DEFINE n == Len(s) - 1
             front == SubSeq(s, 1, n)
  <1>5. n \in Int /\ 1 \in Int
    BY <1>2
  <1>6. /\ front \in Seq(S)
        /\ Len(front) = IF 1 <= n THEN n - 1 + 1 ELSE 0
        /\ \A i \in 1 .. n - 1 + 1 : front[i] = s[1 + i - 1]
    BY <1>4, <1>5, SubSeqProperties
  <1>7. Len(front) = n
    BY <1>2, <1>6
  <1>8. DOMAIN front = 1 .. n
    BY <1>6, <1>7
  <1>9. \A i \in 1 .. n : front[i] = s[i]
    BY <1>2, <1>6
  <1>10. IsSeq(front)
    BY <1>6 DEF IsSeq
  <1> HIDE DEF front
  <1>11. Front(s) = front
    BY <1>3 DEF front
  <1>12. n = Len(s) - 1 /\ Len(s) >= 1
    BY <1>2
  <1> HIDE DEF n
  <1> QED
    BY <1>2, <1>7, <1>8, <1>9, <1>10, <1>11, <1>12

\* A collection that is closed says what it said, as a node of the one around it.
LEMMA CloseSays ==
  ASSUME NEW stack, Stack(stack), stack # <<>>, NEW frames, Mirrors(stack, frames)
  PROVE  /\ Mirrors(Front(stack), Front(frames))
         /\ \A path, text :
              IsSeq(path) => (SaysIn(stack, frames, path, text)
                                <=> WithNode(Front(stack), Front(frames), Last(stack), path, text))
  <1> DEFINE n == Len(stack)
             node == stack[n]
             rest == Front(stack)
             less == Front(frames)
  <1>1. IsSeq(stack) /\ IsSeq(frames) /\ DOMAIN frames = DOMAIN stack
    BY DEF Stack, Mirrors
  <1>2. Len(frames) = n
    BY <1>1, SameLength
  <1>3. /\ IsSeq(rest) /\ Len(rest) = n - 1 /\ DOMAIN rest = 1 .. n - 1
        /\ \A i \in 1 .. n - 1 : rest[i] = stack[i]
        /\ n \in Nat /\ n >= 1 /\ DOMAIN stack = 1 .. n
    BY <1>1, FrontLength
  <1>4. frames # <<>>
    BY <1>1, <1>3, EmptyIsSeq
  <1>5. /\ IsSeq(less) /\ DOMAIN less = 1 .. n - 1
        /\ \A i \in 1 .. n - 1 : less[i] = frames[i]
    BY <1>1, <1>2, <1>4, FrontLength
  <1>6. n \in DOMAIN stack /\ 1 .. n = (1 .. n - 1) \cup {n}
    BY <1>3
  <1>7. node.node # "scalar"
    BY <1>6 DEF Stack, Growing
  <1>8. Last(stack) = node
    BY DEF Last
  <1> HIDE DEF n, rest, less, node
  <1>9. Mirrors(rest, less)
    BY <1>1, <1>3, <1>5, <1>6 DEF Mirrors
  <1>10. ASSUME NEW path, NEW text, IsSeq(path)
         PROVE  SaysIn(stack, frames, path, text) <=> WithNode(rest, less, node, path, text)
    <2> DEFINE to == Len(path)
               last == /\ n <= to
                       /\ Under(frames, n - 1, path)
                       /\ Says(node, path, n - 1, to, text)
    <2>1. to \in Nat
      BY <1>10 DEF IsSeq
    <2>2. \A i \in 1 .. n : Under(less, i - 1, path) <=> Under(frames, i - 1, path)
      <3> SUFFICES ASSUME NEW i \in 1 .. n PROVE \A j \in 1 .. i - 1 : less[j] = frames[j]
        BY DEF Under
      <3>1. \A j \in 1 .. i - 1 : j \in 1 .. n - 1
        BY <1>3
      <3> QED
        BY <1>5, <3>1
    <2>3. SaysIn(stack, frames, path, text) <=> SaysIn(rest, less, path, text) \/ last
      <3>1. \A i \in 1 .. n - 1 : i \in 1 .. n
        BY <1>6
      <3> QED
        BY <1>3, <1>6, <2>2, <3>1 DEF SaysIn, node
    <2>4. n - 1 <= to /\ Says(node, path, n - 1, to, text) => n <= to
      <3> SUFFICES ASSUME n - 1 = to, Says(node, path, n - 1, to, text) PROVE FALSE
        BY <1>3, <2>1
      <3> HIDE DEF to
      <3> QED
        BY <1>7, <2>1, SaysHere
    <2>5. WithNode(rest, less, node, path, text)
            <=> \/ SaysIn(rest, less, path, text)
                \/ /\ n - 1 <= to
                   /\ Under(less, n - 1, path)
                   /\ Says(node, path, n - 1, to, text)
      BY <1>3 DEF WithNode
    <2>6. n <= to => n - 1 <= to
      BY <1>3, <2>1
    <2>7. Under(less, n - 1, path) <=> Under(frames, n - 1, path)
      BY <1>6, <2>2
    <2> QED
      BY <2>3, <2>4, <2>5, <2>6, <2>7
  <1> QED
    BY <1>8, <1>9, <1>10 DEF rest, less

\* A scalar says its text at the address where it is, and nowhere else.
LEMMA ScalarSaid ==
  ASSUME NEW stack, IsSeq(stack), NEW frames, Mirrors(stack, frames),
         NEW node, node.node = "scalar", node.items = <<>>,
         NEW path, IsSeq(path), NEW text
  PROVE  WithNode(stack, frames, node, path, text)
           <=> \/ SaysIn(stack, frames, path, text)
               \/ path = Address(frames) /\ text = node.text
  <1> DEFINE n == Len(stack)
             to == Len(path)
             address == Address(frames)
  <1>1. IsSeq(frames) /\ DOMAIN frames = DOMAIN stack
    BY DEF Mirrors
  <1>2. n \in Nat /\ DOMAIN stack = 1 .. n
    BY DEF IsSeq
  <1>3. to \in Nat /\ DOMAIN path = 1 .. to /\ path = [j \in 1 .. to |-> path[j]]
    BY DEF IsSeq
  <1>4. address = [j \in 1 .. n |-> Here(frames[j])]
    BY <1>1, <1>2 DEF Address
  <1> HIDE DEF n, to, address
  <1>5. n <= to => (Says(node, path, n, to, text) <=> n = to /\ node.text = text)
    BY <1>2, <1>3, ScalarSays
  <1>6. n = to /\ Under(frames, n, path) => path = address
    BY <1>3, <1>4 DEF Under
  <1>7. path = address => n = to /\ Under(frames, n, path)
    <2> SUFFICES ASSUME path = address PROVE n = to /\ Under(frames, n, path)
      OBVIOUS
    <2>1. DOMAIN address = 1 .. n
      BY <1>4
    <2>2. IsSeq(address) /\ DOMAIN path = DOMAIN stack
      BY <1>2, <2>1
    <2>3. n = to
      BY <2>2, SameLength DEF n, to
    <2>4. Under(frames, n, path)
      BY <1>4 DEF Under
    <2> QED
      BY <2>3, <2>4
  <1>8. WithNode(stack, frames, node, path, text)
          <=> \/ SaysIn(stack, frames, path, text)
              \/ n <= to /\ Under(frames, n, path) /\ Says(node, path, n, to, text)
    BY DEF WithNode, n, to
  <1> QED
    BY <1>2, <1>5, <1>6, <1>7, <1>8 DEF address

----------------------------------------------------------------------------
(***************************************************************************)
(* What Hear keeps of the events is what the reader has: while it reads,   *)
(* within the open collections, and then in the root.                      *)
(***************************************************************************)
Told(path, text) == [path |-> path, text |-> text]

HeardOf(frames, said) == [frames |-> frames, said |-> said]

SayWithin(said, stack, frames) ==
  \A path, text : IsSeq(path) => (Told(path, text) \in said <=> SaysIn(stack, frames, path, text))

SayTree(said, tree) ==
  \A path, text : IsSeq(path) => (Told(path, text) \in said <=> Says(tree, path, 0, Len(path), text))

AllTold(said) == \A value \in said : IsSeq(value.path) /\ value = Told(value.path, value.text)

Hears(heard, at, stack, tree) ==
  /\ heard = HeardOf(heard.frames, heard.said)
  /\ at # "refused" =>
       /\ AllTold(heard.said)
       /\ IF at \in {"stream", "document", "node"}
          THEN Mirrors(stack, heard.frames) /\ SayWithin(heard.said, stack, heard.frames)
          ELSE SayTree(heard.said, tree)

LEMMA InitHears == ReaderInit => Hears(Silence, place, open, root)
  <1> SUFFICES ASSUME ReaderInit PROVE Hears(Silence, place, open, root)
    OBVIOUS
  <1>1. Silence = HeardOf(<<>>, {}) /\ Silence.frames = <<>> /\ Silence.said = {}
    BY DEF Silence, HeardOf
  <1>2. open = <<>> /\ place = "stream"
    BY DEF ReaderInit
  <1>3. Mirrors(<<>>, <<>>)
    BY EmptyIsSeq DEF Mirrors
  <1>4. SayWithin({}, <<>>, <<>>)
    BY EmptyIsSeq DEF SayWithin, SaysIn
  <1> QED
    BY <1>1, <1>2, <1>3, <1>4 DEF Hears, AllTold

\* A node is complete, and what it says is said.
LEMMA CompleteHears ==
  ASSUME place = "node", NEW node, NEW rest, Stack(rest), rest # <<>> => Waiting(Last(rest)),
         NEW frames, Mirrors(rest, frames), Complete(node, rest),
         NEW said, AllTold(said),
         \A path, text : IsSeq(path) => (Told(path, text) \in said
                                           <=> WithNode(rest, frames, node, path, text))
  PROVE  Hears(HeardOf(ValueHeard(frames), said), place', open', root')
  <1> DEFINE next == ValueHeard(frames)
  <1>1. /\ HeardOf(next, said).frames = next /\ HeardOf(next, said).said = said
        /\ HeardOf(next, said) = HeardOf(HeardOf(next, said).frames, HeardOf(next, said).said)
    BY DEF HeardOf
  <1>2. CASE rest = <<>>
    <2>1. root' = node /\ place' = "document_end"
      BY <1>2 DEF Complete
    <2>2. SayTree(said, node)
      <3> SUFFICES ASSUME NEW path, NEW text, IsSeq(path)
                   PROVE  Told(path, text) \in said <=> Says(node, path, 0, Len(path), text)
        BY DEF SayTree
      <3> QED
        BY <1>2, RootSays
    <2> QED
      BY <1>1, <2>1, <2>2 DEF Hears
  <1>3. CASE rest # <<>>
    <2>1. place' = "node"
      BY <1>3 DEF Complete
    <2>2. /\ Mirrors(open', next)
          /\ \A path, text :
               IsSeq(path) => (SaysIn(open', next, path, text)
                                 <=> WithNode(rest, frames, node, path, text))
      BY <1>3, CompleteSays
    <2>3. SayWithin(said, open', next)
      BY <2>2 DEF SayWithin
    <2> QED
      BY <1>1, <2>1, <2>2, <2>3 DEF Hears
  <1> QED
    BY <1>2, <1>3

\* Hear and the reader agree on whether a key is next.
LEMMA KeyAgrees ==
  ASSUME Stack(open), NEW frames, Mirrors(open, frames), place = "node"
  PROVE  AtKey <=> KeyNext(frames)
  <1>1. IsSeq(open) /\ IsSeq(frames) /\ DOMAIN frames = DOMAIN open
    BY DEF Stack, Mirrors
  <1>2. Len(frames) = Len(open)
    BY <1>1, SameLength
  <1>3. CASE open = <<>>
    <2>1. frames = <<>>
      <3>1. Len(frames) = 0
        BY <1>2, <1>3, EmptyIsSeq
      <3>2. frames # <<>> => Len(frames) >= 1
        BY <1>1, FrontLength
      <3> QED
        BY <3>1, <3>2
    <2> QED
      BY <1>3, <2>1 DEF AtKey, KeyNext
  <1>4. CASE open # <<>>
    <2> DEFINE n == Len(open)
               x == open[n]
               frame == frames[n]
    <2>1. n \in DOMAIN open
      BY <1>1, <1>4, FrontAny
    <2>2. frames # <<>>
      BY <1>1, <2>1, EmptyIsSeq
    <2>3. Innermost = x /\ Last(frames) = frame
      BY <1>2 DEF Innermost, Last
    <2>4. Growing(x) /\ Agrees(x, frame)
      BY <2>1 DEF Stack, Mirrors
    <2> HIDE DEF x, frame
    <2>5. frame.node = x.node
      <3>1. PICK key, number : frame = Frame(x.node, key, number)
        BY <2>4 DEF Agrees
      <3> QED
        BY <3>1, FrameFields
    <2>6. Len(x.keys) \in Nat /\ Len(x.items) \in Nat
      BY <2>4 DEF Growing, IsSeq
    <2>7. x.node = "map" => (frame.number = 0 <=> Len(x.keys) = Len(x.items))
      <3>1. x.node = "map" => frame.number = Len(x.keys) - Len(x.items)
        BY <2>4 DEF Agrees
      <3>2. \A k, i \in Nat : k - i = 0 <=> k = i
        OBVIOUS
      <3>3. Len(x.keys) - Len(x.items) = 0 <=> Len(x.keys) = Len(x.items)
        BY <2>6, <3>2
      <3> QED
        BY <3>1, <3>3, Zenon
    <2> QED
      BY <1>4, <2>2, <2>3, <2>5, <2>7 DEF AtKey, KeyNext
  <1> QED
    BY <1>3, <1>4

\* Each event of the scanner is said and read alike.
LEMMA HearKeeps ==
  ASSUME Trees, NEW heard, Hears(heard, place, open, root), ReaderNext
  PROVE  Hears(Hear(heard, Coming), place', open', root')
  <1> DEFINE frames == heard.frames
             said == heard.said
  <1>0. Stack(open) /\ IsSeq(open) /\ heard = HeardOf(frames, said)
    BY DEF Trees, Stack, Hears
  <1>1. ASSUME place = "node"
        PROVE  /\ AllTold(said) /\ Mirrors(open, frames) /\ SayWithin(said, open, frames)
               /\ AtKey <=> KeyNext(frames)
    BY <1>0, <1>1, KeyAgrees DEF Hears
  <1>2. \A frames2, said2 : /\ HeardOf(frames2, said2).frames = frames2
                            /\ HeardOf(frames2, said2).said = said2
    BY DEF HeardOf
  <1>3. Hear(heard, Coming) = HeardOf(Hear(heard, Coming).frames, Hear(heard, Coming).said)
    BY <1>0 DEF Hear, HeardOf
  <1>4. CASE place' = "refused"
    BY <1>3, <1>4 DEF Hears
  <1>5. CASE StreamBegins \/ DocumentBegins \/ DocumentEnds \/ StreamEnds
    <2>1. Hear(heard, Coming) = heard
      BY <1>5 DEF StreamBegins, DocumentBegins, DocumentEnds, StreamEnds, Reads, Hear
    <2>2. /\ open' = open /\ root' = root /\ place # "refused" /\ place' # "refused"
          /\ place \in {"stream", "document", "node"} <=> place' \in {"stream", "document", "node"}
      BY <1>5 DEF StreamBegins, DocumentBegins, DocumentEnds, StreamEnds
    <2> QED
      BY <2>1, <2>2 DEF Hears
  <1>6. CASE ReadScalar
    <2> DEFINE node == Node("scalar", Coming.text, Coming.reads)
               more == said \cup {Told(Address(frames), Coming.text)}
    <2>1. Coming.kind = "scalar" /\ place = "node" /\ ~AtKey /\ Complete(node, open)
      BY <1>6 DEF ReadScalar, AtValue, Reads
    <2>2. /\ AllTold(said) /\ Mirrors(open, frames) /\ SayWithin(said, open, frames)
          /\ ~KeyNext(frames)
      BY <1>1, <2>1
    <2>3. Hear(heard, Coming) = HeardOf(ValueHeard(frames), more)
      BY <2>1, <2>2 DEF Hear, HeardOf, Told
    <2>4. node.node = "scalar" /\ node.items = <<>> /\ node.text = Coming.text
      BY DEF Node
    <2>5. open # <<>> => Waiting(Last(open))
      BY <2>1 DEF AtKey, Innermost, Waiting
    <2> HIDE DEF node
    <2>6. ASSUME NEW path, NEW text, IsSeq(path)
          PROVE  Told(path, text) \in more <=> WithNode(open, frames, node, path, text)
      <3>1. Told(path, text) \in said <=> SaysIn(open, frames, path, text)
        BY <2>2, <2>6 DEF SayWithin
      <3>2. WithNode(open, frames, node, path, text)
              <=> SaysIn(open, frames, path, text) \/ (path = Address(frames) /\ text = node.text)
        BY <1>0, <2>2, <2>4, <2>6, ScalarSaid
      <3>3. Told(path, text) = Told(Address(frames), Coming.text)
              <=> path = Address(frames) /\ text = Coming.text
        BY DEF Told
      <3> QED
        BY <2>4, <3>1, <3>2, <3>3
    <2>7. AllTold(more)
      <3>1. IsSeq(Address(frames))
        <4>1. \A i \in DOMAIN frames : Here(frames[i]) \in {Here(frames[j]) : j \in DOMAIN frames}
          OBVIOUS
        <4>2. DOMAIN frames = 1 .. Len(frames) /\ Len(frames) \in Nat
          BY <2>2 DEF Mirrors, IsSeq
        <4>3. Address(frames) \in Seq({Here(frames[j]) : j \in DOMAIN frames})
          BY <4>1, <4>2 DEF Address
        <4> QED
          BY <4>3 DEF IsSeq
      <3>2. LET value == Told(Address(frames), Coming.text)
            IN value.path = Address(frames) /\ value.text = Coming.text
        BY DEF Told
      <3> QED
        BY <2>2, <3>1, <3>2 DEF AllTold
    <2> HIDE DEF more, said, frames
    <2>8. Hears(HeardOf(ValueHeard(frames), more), place', open', root')
      BY <1>0, <2>1, <2>2, <2>5, <2>6, <2>7, CompleteHears
    <2> QED
      BY <2>3, <2>8
  <1>7. CASE OpenCollection
    <2>1. place = "node" /\ place' = "node" /\ root' = root
      BY <1>7 DEF OpenCollection, AtValue
    <2>2. PICK kind \in {"map", "seq"} :
            /\ open' = Append(open, NewNode(kind))
            /\ Hear(heard, Coming) = HeardOf(Append(frames, Begun(kind)), said)
      <3>1. CASE Coming.kind = "map_start"
        <4>0. Opening[Coming.kind] = "map"
          BY <3>1 DEF Opening
        <4>1. open' = Append(open, NewNode("map"))
          BY <1>7, <4>0, Zenon DEF OpenCollection, NewNode
        <4>2. Hear(heard, Coming) = HeardOf(Append(frames, Begun("map")), said)
          BY <3>1 DEF Hear, HeardOf
        <4> QED
          BY <4>1, <4>2
      <3>2. CASE Coming.kind = "seq_start"
        <4>0. Opening[Coming.kind] = "seq"
          BY <3>2 DEF Opening
        <4>1. open' = Append(open, NewNode("seq"))
          BY <1>7, <4>0, Zenon DEF OpenCollection, NewNode
        <4>2. Hear(heard, Coming) = HeardOf(Append(frames, Begun("seq")), said)
          BY <3>2 DEF Hear, HeardOf
        <4> QED
          BY <4>1, <4>2
      <3>3. Coming.kind \in {"seq_start", "map_start"}
        BY <1>7 DEF OpenCollection, Reads, Opening
      <3> QED
        BY <3>1, <3>2, <3>3
    <2> DEFINE next == Append(frames, Begun(kind))
    <2>3. /\ Mirrors(open', next)
          /\ \A path, text :
               IsSeq(path) => (SaysIn(open', next, path, text) <=> SaysIn(open, frames, path, text))
      BY <1>0, <1>1, <2>1, <2>2, OpenSays
    <2> HIDE DEF next
    <2>4. SayWithin(said, open', next)
      BY <1>1, <2>1, <2>3 DEF SayWithin
    <2>5. Hear(heard, Coming) = HeardOf(next, said)
      BY <2>2 DEF next
    <2> QED
      BY <1>1, <1>2, <1>3, <2>1, <2>3, <2>4, <2>5 DEF Hears
  <1>8. CASE CloseCollection
    <2> DEFINE node == Last(open)
               rest == Front(open)
               less == Front(frames)
    <2>1. place = "node" /\ open # <<>> /\ Complete(node, rest)
      BY <1>8 DEF CloseCollection, Innermost
    <2>2. Hear(heard, Coming) = HeardOf(ValueHeard(less), said)
      BY <1>8 DEF CloseCollection, Reads, Hear, HeardOf
    <2>3. /\ Mirrors(rest, less)
          /\ \A path, text :
               IsSeq(path) => (SaysIn(open, frames, path, text)
                                 <=> WithNode(rest, less, node, path, text))
      BY <1>0, <1>1, <2>1, CloseSays
    <2>4. /\ IsSeq(rest)
          /\ rest # <<>> => Len(rest) \in DOMAIN rest
          /\ \A i \in DOMAIN rest : i \in DOMAIN open /\ i < Len(open) /\ rest[i] = open[i]
      BY <1>0, <2>1, FrontAny
    <2> HIDE DEF rest, less, node
    <2>5. \A i \in DOMAIN rest : Growing(rest[i]) /\ Waiting(rest[i])
      BY <1>0, <2>4 DEF Stack
    <2>6. Stack(rest) /\ (rest # <<>> => Waiting(Last(rest)))
      BY <2>4, <2>5 DEF Stack, Last
    <2>7. \A path, text : IsSeq(path) => (Told(path, text) \in said
                                            <=> WithNode(rest, less, node, path, text))
      BY <1>1, <2>1, <2>3 DEF SayWithin
    <2>8. AllTold(said)
      BY <1>1, <2>1
    <2> HIDE DEF said
    <2>9. Hears(HeardOf(ValueHeard(less), said), place', open', root')
      BY <2>1, <2>3, <2>6, <2>7, <2>8, CompleteHears
    <2> QED
      BY <2>2, <2>9
  <1>9. CASE ReadKey
    <2> DEFINE key == Coming.text
               next == KeyHeard(frames, key)
    <2>1. /\ place = "node" /\ place' = "node" /\ root' = root /\ AtKey /\ Coming.kind = "scalar"
          /\ open # <<>>
      BY <1>9 DEF ReadKey, AtKey, GoodKey
    <2>2. open' = [open EXCEPT ![Len(open)] = WithKey(Last(open), key)]
      BY <1>9 DEF ReadKey, WithKey, Last
    <2>3. Last(open).node = "map" /\ Len(Last(open).keys) = Len(Last(open).items)
      BY <2>1 DEF AtKey, Innermost
    <2>4. Hear(heard, Coming) = HeardOf(next, said)
      BY <1>1, <2>1 DEF Hear, HeardOf
    <2> HIDE DEF key
    <2>5. /\ Mirrors(open', next)
          /\ \A path, text :
               IsSeq(path) => (SaysIn(open', next, path, text) <=> SaysIn(open, frames, path, text))
      BY <1>0, <1>1, <2>1, <2>2, <2>3, KeyStays
    <2> HIDE DEF next
    <2>6. SayWithin(said, open', next)
      BY <1>1, <2>1, <2>5 DEF SayWithin
    <2> QED
      BY <1>1, <1>2, <1>3, <2>1, <2>4, <2>5, <2>6 DEF Hears
  <1> QED
    BY <1>4, <1>5, <1>6, <1>7, <1>8, <1>9
    DEF ReaderNext, NoDocument, RefuseNode, RefuseKey, SecondDocument, ScanFails, Refuse

----------------------------------------------------------------------------
(***************************************************************************)
(* The loop over the events: what is heard of those that are read is one   *)
(* step more with each.                                                    *)
(***************************************************************************)
HearStep(none, heard, event) == Hear(heard, event)
Hearing == INSTANCE FoldProofs WITH Step <- HearStep

LEMMA HeardIsFolded == ASSUME NEW seq PROVE Heard(seq) = Hearing!Fold("none", Silence, seq)
  BY Zenon DEF Heard, HearStep, Hearing!Fold, Hearing!FoldLeft, FoldLeft,
               Hearing!MapThenFoldSet, MapThenFoldSet, Max, Hearing!Max

\* The first n events of a file are read, and the others are still to come.
Remain(file, n, coming) ==
  /\ IsSeq(coming)
  /\ n \in 0 .. Len(file)
  /\ DOMAIN coming = 1 .. Len(file) - n
  /\ \A i \in 1 .. Len(file) - n : coming[i] = file[n + i]

HeardSoFar(file, coming, heard) ==
  \E n : Remain(file, n, coming) /\ heard = Heard(SubSeq(file, 1, n))

\* The end of the stream is the last event of a file.
EndsLast(file) == \A i \in DOMAIN file : file[i].kind = "stream_end" => i = Len(file)

LEMMA NothingHeard == ASSUME NEW file, IsSeq(file) PROVE HeardSoFar(file, file, Silence)
  <1>1. Len(file) \in Nat /\ DOMAIN file = 1 .. Len(file)
    BY DEF IsSeq
  <1>2. Remain(file, 0, file)
    BY <1>1 DEF Remain
  <1>3. SubSeq(file, 1, 0) = <<>>
    OBVIOUS
  <1>4. Heard(<<>>) = Silence
    BY HeardIsFolded, Hearing!FoldEmpty
  <1> QED
    BY <1>2, <1>3, <1>4 DEF HeardSoFar

\* Of n + 1 elements the first n.
LEMMA PrefixMore ==
  ASSUME NEW s, IsSeq(s), NEW n \in Nat, n < Len(s)
  PROVE  /\ Hearing!OneMore(SubSeq(s, 1, n), n, SubSeq(s, 1, n + 1))
         /\ SubSeq(s, 1, n + 1)[n + 1] = s[n + 1]
  <1>1. PICK S : s \in Seq(S)
    BY DEF IsSeq
  <1>2. Len(s) \in Nat
    BY <1>1
  <1>3. \A m \in Nat : m <= Len(s) =>
          /\ DOMAIN SubSeq(s, 1, m) = 1 .. m
          /\ \A i \in 1 .. m : SubSeq(s, 1, m)[i] = s[i]
    BY <1>1, <1>2
  <1>4. \A i \in 1 .. n : i \in 1 .. n + 1
    OBVIOUS
  <1> QED
    BY <1>2, <1>3, <1>4 DEF Hearing!OneMore

LEMMA OneMoreHeard ==
  ASSUME NEW file, IsSeq(file), NEW heard, HeardSoFar(file, events, heard), ReaderNext
  PROVE  /\ HeardSoFar(file, events', Hear(heard, Coming))
         /\ EndsLast(file) /\ Coming.kind = "stream_end" => Hear(heard, Coming) = Heard(file)
  <1>1. PICK n : Remain(file, n, events) /\ heard = Heard(SubSeq(file, 1, n))
    BY DEF HeardSoFar
  <1>2. events # <<>> /\ events' = Tail(events)
    BY DEF ReaderNext, StreamBegins, DocumentBegins, NoDocument, ReadScalar, OpenCollection,
           CloseCollection, RefuseNode, ReadKey, RefuseKey, DocumentEnds, StreamEnds,
           SecondDocument, ScanFails, Reads
  <1>3. PICK S : events \in Seq(S)
    BY <1>1 DEF Remain, IsSeq
  <1> DEFINE m == Len(file)
  <1>4. m \in Nat /\ DOMAIN file = 1 .. m
    BY DEF IsSeq
  <1>5. /\ n \in 0 .. m /\ DOMAIN events = 1 .. m - n
        /\ \A i \in 1 .. m - n : events[i] = file[n + i]
    BY <1>1 DEF Remain
  <1>6. Len(events) = m - n /\ Len(events) >= 1
    <2>1. IsSeq(events) /\ Len(events) \in Nat /\ DOMAIN events = 1 .. Len(events)
      BY <1>3 DEF IsSeq
    <2>2. Len(events) >= 1
      BY <1>2, <2>1, FrontLength
    <2>3. m - n \in Nat
      BY <1>4, <1>5
    <2>4. \A p, q \in Nat : p >= 1 /\ 1 .. p = 1 .. q => p = q
      <3> SUFFICES ASSUME NEW p \in Nat, NEW q \in Nat, p >= 1, 1 .. p = 1 .. q PROVE p = q
        OBVIOUS
      <3>1. p \in 1 .. q
        OBVIOUS
      <3>2. q \in 1 .. p
        BY <3>1
      <3> QED
        BY <3>1, <3>2
    <2> QED
      BY <1>5, <2>1, <2>2, <2>3, <2>4
  <1> HIDE DEF m
  <1>7. n \in Nat /\ n < m /\ n + 1 \in 1 .. m
    BY <1>4, <1>5, <1>6
  <1>8. Coming = file[n + 1]
    <2>1. Coming = events[1]
      BY <1>3, <1>2 DEF Coming
    <2>2. 1 \in 1 .. m - n
      BY <1>4, <1>7
    <2> QED
      BY <2>1, <2>2, <1>5
  <1>9. Remain(file, n + 1, events')
    <2>1. /\ events' \in Seq(S) /\ Len(events') = Len(events) - 1
          /\ \A i \in 1 .. Len(events) - 1 : events'[i] = events[i + 1]
      BY <1>2, <1>3, <1>6
    <2>2. DOMAIN events' = 1 .. m - (n + 1)
      <3>1. DOMAIN events' = 1 .. Len(events')
        BY <2>1
      <3>2. Len(events') = m - (n + 1)
        BY <1>4, <1>6, <1>7, <2>1
      <3> QED
        BY <3>1, <3>2
    <2>3. ASSUME NEW i \in 1 .. m - (n + 1) PROVE events'[i] = file[(n + 1) + i]
      <3>1. i \in 1 .. Len(events) - 1 /\ i + 1 \in 1 .. m - n /\ n + (i + 1) = (n + 1) + i
        BY <1>4, <1>6, <1>7
      <3> QED
        BY <1>5, <2>1, <3>1
    <2> QED
      BY <1>7, <2>1, <2>2, <2>3 DEF Remain, IsSeq, m
  <1>10. Heard(SubSeq(file, 1, n + 1)) = Hear(heard, Coming)
    <2> DEFINE seq == SubSeq(file, 1, n)
               more == SubSeq(file, 1, n + 1)
    <2>1. Hearing!OneMore(seq, n, more) /\ more[n + 1] = file[n + 1]
      BY <1>7, PrefixMore DEF m
    <2> HIDE DEF seq, more
    <2>2. \A none, base : Hearing!Fold(none, base, more)
                            = HearStep(none, Hearing!Fold(none, base, seq), more[n + 1])
      BY <2>1, Hearing!FoldMore
    <2>3. Hearing!Fold("none", Silence, more)
            = HearStep("none", Hearing!Fold("none", Silence, seq), more[n + 1])
      BY <2>2
    <2>4. Heard(more) = Hear(Heard(seq), file[n + 1])
      BY <2>1, <2>3, HeardIsFolded DEF HearStep
    <2> QED
      BY <1>1, <1>8, <2>4 DEF seq, more
  <1>11. ASSUME EndsLast(file), Coming.kind = "stream_end" PROVE Hear(heard, Coming) = Heard(file)
    <2>1. n + 1 = m
      BY <1>4, <1>7, <1>8, <1>11 DEF EndsLast, m
    <2>2. SubSeq(file, 1, m) = file
      BY DEF IsSeq, m
    <2> QED
      BY <1>10, <2>1, <2>2
  <1> QED
    BY <1>9, <1>10, <1>11 DEF HeardSoFar

----------------------------------------------------------------------------
(***************************************************************************)
(* No key twice in a mapping, however deep: there is a set of nodes, with  *)
(* the items of each, that are all whole and have their keys apart.        *)
(***************************************************************************)
KeysApart(x) == \A i, j \in DOMAIN x.keys : x.keys[i] = x.keys[j] => i = j

Inside(x, S) == \A i \in DOMAIN x.items : x.items[i] \in S

GoodNodes(S) == \A x \in S : Whole(x) /\ KeysApart(x) /\ Inside(x, S)

Apart(stack, tree) ==
  \E S : /\ GoodNodes(S)
         /\ tree \in S
         /\ \A i \in DOMAIN stack : KeysApart(stack[i]) /\ Inside(stack[i], S)

LEMMA FreshIsGood ==
  ASSUME NEW node, node.items = <<>>, node.keys = <<>>, NEW S, GoodNodes(S)
  PROVE  GoodNodes(S \cup {node})
  BY EmptyIsSeq DEF GoodNodes, Whole, KeysApart, Inside

LEMMA InitApart == ReaderInit => Apart(open, root)
  <1> SUFFICES ASSUME ReaderInit PROVE Apart(open, root)
    OBVIOUS
  <1>1. open = <<>> /\ root = NoNode
    BY DEF ReaderInit
  <1>2. NoNode.items = <<>> /\ NoNode.keys = <<>>
    BY DEF NoNode, Node
  <1>3. GoodNodes({} \cup {NoNode})
    <2>1. GoodNodes({})
      BY DEF GoodNodes
    <2> QED
      BY <1>2, <2>1, FreshIsGood
  <1> QED
    BY <1>1, <1>3, EmptyIsSeq DEF Apart

LEMMA CompleteApart ==
  ASSUME NEW node, Whole(node), KeysApart(node), NEW rest, Stack(rest),
         rest # <<>> => Waiting(Last(rest)),
         NEW S, GoodNodes(S), root \in S, Inside(node, S),
         \A i \in DOMAIN rest : KeysApart(rest[i]) /\ Inside(rest[i], S),
         Complete(node, rest)
  PROVE  Apart(open', root')
  <1> DEFINE T == S \cup {node}
  <1>1. GoodNodes(T) /\ node \in T /\ S \subseteq T
    BY DEF GoodNodes, Inside
  <1> HIDE DEF T
  <1>2. CASE rest = <<>>
    <2>1. root' = node /\ open' = <<>>
      BY <1>2 DEF Complete
    <2> QED
      BY <1>1, <2>1, EmptyIsSeq DEF Apart
  <1>3. CASE rest # <<>>
    <2> DEFINE n == Len(rest)
               x == rest[n]
               items == Append(x.items, node)
               more == [x EXCEPT !.items = items]
               stack == [rest EXCEPT ![n] = more]
    <2>1. IsSeq(rest) /\ n \in DOMAIN rest /\ Growing(x)
      BY <1>3, FrontAny DEF Stack
    <2>2. open' = stack /\ root' = root
      BY <1>3 DEF Complete
    <2>3. /\ DOMAIN x.items = 1 .. Len(x.items) /\ Len(x.items) \in Nat
          /\ DOMAIN items = 1 .. Len(x.items) + 1
          /\ \A i \in 1 .. Len(x.items) : items[i] = x.items[i]
          /\ items[Len(x.items) + 1] = node
      BY <2>1, AppendAny DEF Growing
    <2>4. IsNode(x)
      BY <2>1 DEF Growing
    <2> HIDE DEF items
    <2>5. more.items = items /\ more.keys = x.keys
      BY <2>4 DEF IsNode, NodeFields
    <2> HIDE DEF more
    <2>6. /\ DOMAIN stack = DOMAIN rest /\ stack[n] = more
          /\ \A i \in DOMAIN rest : i # n => stack[i] = rest[i]
      BY <2>1, ExceptAny
    <2> HIDE DEF stack
    <2>7. KeysApart(x) /\ Inside(x, S)
      BY <2>1
    <2>8. KeysApart(more)
      BY <2>5, <2>7 DEF KeysApart
    <2>9. Inside(more, T)
      <3>1. \A i \in DOMAIN items : i \in DOMAIN x.items \/ i = Len(x.items) + 1
        BY <2>3
      <3> QED
        BY <1>1, <2>3, <2>5, <2>7, <3>1 DEF Inside
    <2>10. \A i \in DOMAIN stack : KeysApart(stack[i]) /\ Inside(stack[i], T)
      BY <1>1, <2>6, <2>8, <2>9 DEF Inside
    <2> QED
      BY <1>1, <2>2, <2>10 DEF Apart
  <1> QED
    BY <1>2, <1>3

LEMMA ApartKeeps ==
  ASSUME Trees, Apart(open, root), ReaderNext
  PROVE  Apart(open', root')
  <1>0. Stack(open) /\ IsSeq(open)
    BY DEF Trees, Stack
  <1>1. PICK S : /\ GoodNodes(S) /\ root \in S
                 /\ \A i \in DOMAIN open : KeysApart(open[i]) /\ Inside(open[i], S)
    BY DEF Apart
  <1>2. CASE UNCHANGED <<open, root>>
    BY <1>2 DEF Apart
  <1>3. CASE ReadScalar
    <2> DEFINE node == Node("scalar", Coming.text, Coming.reads)
    <2>1. node.items = <<>> /\ node.keys = <<>> /\ node.node = "scalar"
      BY DEF Node
    <2>2. Complete(node, open) /\ (open # <<>> => Waiting(Last(open)))
      BY <1>3 DEF ReadScalar, AtValue, AtKey, Innermost, Waiting
    <2> HIDE DEF node
    <2>3. Whole(node) /\ KeysApart(node) /\ Inside(node, S)
      BY <2>1, EmptyIsSeq DEF Whole, KeysApart, Inside
    <2> QED
      BY <1>0, <1>1, <2>2, <2>3, CompleteApart
  <1>4. CASE OpenCollection
    <2> DEFINE new == NewNode(Opening[Coming.kind])
    <2>1. open' = Append(open, new) /\ root' = root
      BY <1>4 DEF OpenCollection, NewNode
    <2>2. new.items = <<>> /\ new.keys = <<>>
      BY NewAgrees
    <2> HIDE DEF new
    <2>3. /\ DOMAIN open = 1 .. Len(open) /\ Len(open) \in Nat
          /\ DOMAIN open' = 1 .. Len(open) + 1
          /\ \A i \in 1 .. Len(open) : open'[i] = open[i]
          /\ open'[Len(open) + 1] = new
      BY <1>0, <2>1, AppendAny
    <2>4. KeysApart(new) /\ Inside(new, S)
      BY <2>2, EmptyIsSeq DEF KeysApart, Inside
    <2>5. \A i \in DOMAIN open' : i \in DOMAIN open \/ i = Len(open) + 1
      BY <2>3
    <2>6. \A i \in DOMAIN open' : KeysApart(open'[i]) /\ Inside(open'[i], S)
      BY <1>1, <2>3, <2>4, <2>5
    <2> QED
      BY <1>1, <2>1, <2>6 DEF Apart
  <1>5. CASE CloseCollection
    <2> DEFINE node == Last(open)
               rest == Front(open)
    <2>1. open # <<>> /\ Complete(node, rest)
      BY <1>5 DEF CloseCollection, Innermost
    <2>2. /\ IsSeq(rest)
          /\ rest # <<>> => Len(rest) \in DOMAIN rest
          /\ \A i \in DOMAIN rest : i \in DOMAIN open /\ i < Len(open) /\ rest[i] = open[i]
          /\ Len(open) \in DOMAIN open
      BY <1>0, <2>1, FrontAny
    <2>3. node = open[Len(open)]
      BY DEF Last
    <2>4. node.node = "map" => Len(node.keys) = Len(node.items)
      BY <1>5 DEF CloseCollection, AtKey, Innermost
    <2> HIDE DEF rest, node
    <2>5. Whole(node) /\ KeysApart(node) /\ Inside(node, S)
      BY <1>0, <1>1, <2>2, <2>3, <2>4 DEF Stack, Growing, Whole
    <2>6. \A i \in DOMAIN rest : /\ Growing(rest[i]) /\ Waiting(rest[i])
                                 /\ KeysApart(rest[i]) /\ Inside(rest[i], S)
      BY <1>0, <1>1, <2>2 DEF Stack
    <2>7. Stack(rest) /\ (rest # <<>> => Waiting(Last(rest)))
      BY <2>2, <2>6 DEF Stack, Last
    <2> QED
      BY <1>1, <2>1, <2>5, <2>6, <2>7, CompleteApart
  <1>6. CASE ReadKey
    <2> DEFINE n == Len(open)
               x == open[n]
               keys == Append(x.keys, Coming.text)
               more == [x EXCEPT !.keys = keys]
    <2>1. open' = [open EXCEPT ![n] = more] /\ root' = root /\ ~Repeated(Coming.text)
      BY <1>6 DEF ReadKey, GoodKey
    <2>2. n \in DOMAIN open
      BY <1>0, <1>6, FrontAny DEF ReadKey, AtKey
    <2>3. Growing(x) /\ KeysApart(x) /\ Inside(x, S)
      BY <1>0, <1>1, <2>2 DEF Stack
    <2>4. \A i \in DOMAIN x.keys : x.keys[i] # Coming.text
      BY <2>1 DEF Repeated, Innermost, Last, ToSet
    <2>5. /\ DOMAIN x.keys = 1 .. Len(x.keys) /\ Len(x.keys) \in Nat
          /\ DOMAIN keys = 1 .. Len(x.keys) + 1
          /\ \A i \in 1 .. Len(x.keys) : keys[i] = x.keys[i]
          /\ keys[Len(x.keys) + 1] = Coming.text
      BY <2>3, AppendAny DEF Growing
    <2>6. IsNode(x)
      BY <2>3 DEF Growing
    <2> HIDE DEF keys
    <2>7. more.items = x.items /\ more.keys = keys
      BY <2>6 DEF IsNode, NodeFields
    <2> HIDE DEF more
    <2>8. /\ DOMAIN open' = DOMAIN open /\ open'[n] = more
          /\ \A i \in DOMAIN open : i # n => open'[i] = open[i]
      BY <1>0, <2>1, <2>2, ExceptAny
    <2>9. KeysApart(more)
      <3>1. \A i \in DOMAIN keys : i \in DOMAIN x.keys \/ i = Len(x.keys) + 1
        BY <2>5
      <3> QED
        BY <2>3, <2>4, <2>5, <2>7, <3>1 DEF KeysApart
    <2>10. Inside(more, S)
      BY <2>3, <2>7 DEF Inside
    <2>11. \A i \in DOMAIN open' : KeysApart(open'[i]) /\ Inside(open'[i], S)
      BY <1>1, <2>8, <2>9, <2>10
    <2> QED
      BY <1>1, <2>1, <2>11 DEF Apart
  <1> QED
    BY <1>2, <1>3, <1>4, <1>5, <1>6
    DEF ReaderNext, StreamBegins, DocumentBegins, NoDocument, RefuseNode, RefuseKey,
        DocumentEnds, StreamEnds, SecondDocument, ScanFails, Refuse

----------------------------------------------------------------------------
(***************************************************************************)
(* The invariant of the reader, for a file whose stream ends at its end.   *)
(***************************************************************************)
IsFile(file) == IsSeq(file) /\ EndsLast(file)

ReadInv(file, coming, at, stack, tree) ==
  /\ Apart(stack, tree)
  /\ \E heard : /\ HeardSoFar(file, coming, heard)
                /\ Hears(heard, at, stack, tree)
                /\ at = "read" => heard = Heard(file)

LEMMA InitReadInv ==
  ASSUME NEW file, IsFile(file), ReaderInit, events = file
  PROVE  ReadInv(file, events, place, open, root)
  <1>1. HeardSoFar(file, events, Silence)
    BY NothingHeard DEF IsFile
  <1>2. Hears(Silence, place, open, root) /\ Apart(open, root) /\ place # "read"
    BY InitHears, InitApart DEF ReaderInit
  <1> QED
    BY <1>1, <1>2 DEF ReadInv

LEMMA ReadInvKept ==
  ASSUME NEW file, IsFile(file), Trees, ReadInv(file, events, place, open, root), ReaderNext
  PROVE  ReadInv(file, events', place', open', root')
  <1>1. PICK heard : HeardSoFar(file, events, heard) /\ Hears(heard, place, open, root)
    BY DEF ReadInv
  <1>2. Hears(Hear(heard, Coming), place', open', root')
    BY <1>1, HearKeeps
  <1>3. Apart(open', root')
    BY ApartKeeps DEF ReadInv
  <1>4. HeardSoFar(file, events', Hear(heard, Coming))
    BY <1>1, OneMoreHeard DEF IsFile
  <1>5. place' = "read" => Coming.kind = "stream_end"
    BY DEF ReaderNext, StreamBegins, DocumentBegins, NoDocument, ReadScalar, OpenCollection,
           CloseCollection, RefuseNode, ReadKey, RefuseKey, DocumentEnds, StreamEnds,
           SecondDocument, ScanFails, Reads, Refuse, Complete, AtKey, AtValue
  <1>6. place' = "read" => Hear(heard, Coming) = Heard(file)
    BY <1>1, <1>5, OneMoreHeard DEF IsFile
  <1> QED
    BY <1>2, <1>3, <1>4, <1>6 DEF ReadInv

(***************************************************************************)
(* The tree that is read says what the file says, whatever the file: a     *)
(* scalar stands in it, under keys and numbers, just where the scanner's   *)
(* events have that scalar, and no key stands twice in a mapping           *)
(* (parse_spanned_node, parse_node).                                       *)
(***************************************************************************)
THEOREM TreeSaysTheFile ==
  ASSUME NEW CONSTANT file, IsFile(file)
  PROVE  ReaderInit /\ events = file /\ [][ReaderNext]_readerVars
           => [](place = "read" => SayTree(Heard(file).said, root) /\ Apart(<<>>, root))
  <1> DEFINE Inv == Trees /\ ReadInv(file, events, place, open, root)
             Said == place = "read" => SayTree(Heard(file).said, root) /\ Apart(<<>>, root)
  <1>1. ReaderInit /\ events = file => Inv
    BY InitTrees, InitReadInv
  <1>2. Inv /\ [ReaderNext]_readerVars => Inv'
    <2> SUFFICES ASSUME Inv, [ReaderNext]_readerVars PROVE Inv'
      OBVIOUS
    <2>1. CASE ReaderNext
      <3>1. ReadInv(file, events', place', open', root')
        BY <2>1, ReadInvKept
      <3> QED
        BY <2>1, <3>1, ReaderKeeps
    <2>2. CASE UNCHANGED readerVars
      BY <2>2 DEF readerVars, Trees
    <2> QED
      BY <2>1, <2>2
  <1>3. Inv => Said
    <2> SUFFICES ASSUME Inv, place = "read" PROVE SayTree(Heard(file).said, root) /\ Apart(<<>>, root)
      OBVIOUS
    <2>1. Hears(Heard(file), place, open, root) /\ Apart(open, root)
      BY DEF ReadInv
    <2>2. SayTree(Heard(file).said, root)
      BY <2>1 DEF Hears
    <2>3. Apart(<<>>, root)
      BY <2>1, EmptyIsSeq DEF Apart
    <2> QED
      BY <2>2, <2>3
  <1> HIDE DEF Inv, Said
  <1>4. ReaderInit /\ events = file /\ [][ReaderNext]_readerVars => []Said
    BY <1>1, <1>2, <1>3, PTL
  <1> QED
    BY <1>4 DEF Said

=============================================================================
