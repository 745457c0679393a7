-------------------------- MODULE DeliveryProofs --------------------------
(***************************************************************************)
(* Proofs about Delivery.tla, for any idle timeout and whatever the        *)
(* upstream sends, and about Relay.tla: a delivery keeps its promises      *)
(* whatever comes, and what comes from an adapter it never refuses but for *)
(* an error.                                                               *)
(***************************************************************************)
EXTENDS Relay, TLAPS

----------------------------------------------------------------------------
(***************************************************************************)
(* The inductive invariant.  The gate's books are about what it let        *)
(* through, the wire is what was written; between the two there is at most *)
(* the item in hand, and what may follow it is known from the books.       *)
(***************************************************************************)
Wires == Ordinary \cup {"usage", "DONE", "torn"}

Out(what) == \E k \in 1 .. Len(wire) : wire[k] = what

Early == {"head", "first"}

\* The item in hand and the wire behind it.
InHand ==
  /\ pc \in Early => wire = <<>> /\ item \in Ordinary /\ ~usageSeen /\ (terminal <=> item = "finish")
  /\ pc = "write" => item \in Ordinary \cup {"usage"}
  /\ pc = "write" /\ item \in Ordinary =>
       ~Out("finish") /\ ~Out("usage") /\ ~usageSeen /\ (terminal <=> item = "finish")
  /\ pc = "write" /\ item = "usage" =>
       Out("finish") /\ ~Out("usage") /\ usageSeen /\ terminal /\ includeUsage
  /\ pc = "done" => Out("finish")

\* With nothing in hand the books say what is on the wire.
Booked ==
  /\ usageSeen => terminal
  /\ pc \notin Early \cup {"write", "returned"} =>
       (terminal <=> Out("finish")) /\ (usageSeen <=> Out("usage"))

\* Only the end of the delivery writes an end, whole or torn.
Unended == pc # "returned" => outcome = "none" /\ ~Out("DONE") /\ ~Out("torn")

Timely ==
  /\ gotAt <= now
  /\ pc \notin Early \cup {"returned"} => idleDeadline = progressAt + IdleTimeout
  /\ pc \in {"match", "write", "done"} => gotAt < idleDeadline

Present ==
  /\ gotGone => cancelled
  /\ pc \in {"clock_again", "match", "write", "done"} => ~gotGone

Books == InHand /\ Booked /\ Unended
DeliveryInv == TypeOK /\ Books /\ Timely /\ Present /\ WireWellFormed /\ OutcomeHonest

\* The points, one by one.
LEMMA PointsAre ==
  /\ Points = {"head", "first", "next", "event", "match", "write", "done", "returned",
               "flag", "flag_again", "clock", "clock_again"}
  /\ DOMAIN FlagReads = {"flag", "flag_again"}
  /\ DOMAIN IdleReads = {"clock", "clock_again"}
  /\ FlagReads["flag"] = "clock" /\ FlagReads["flag_again"] = "clock_again"
  /\ IdleReads["clock"] = "next" /\ IdleReads["clock_again"] = "match"
  BY DEF Points, FlagReads, IdleReads

LEMMA InitDeliveryInv == Init => DeliveryInv
  <1> SUFFICES ASSUME Init PROVE DeliveryInv
    OBVIOUS
  <1>1. wire = <<>> /\ wire \in Seq(Wires) /\ Len(wire) = 0
    BY DEF Init
  <1>2. TypeOK
    BY <1>1, PointsAre DEF Init, TypeOK, Items, Chunks, Ordinary, Wires
  <1>3. InHand
    BY <1>1 DEF Init, InHand, Early
  <1>4. \A what : ~Out(what)
    BY <1>1 DEF Out
  <1>5. Booked /\ Unended
    BY <1>4 DEF Init, Booked, Unended, Early
  <1>6. Timely
    BY DEF Init, Timely, Early
  <1>7. Present
    BY DEF Init, Present
  <1>8. WireWellFormed /\ OutcomeHonest
    BY <1>1 DEF Init, WireWellFormed, OutcomeHonest
  <1> QED BY <1>2, <1>3, <1>5, <1>6, <1>7, <1>8 DEF DeliveryInv, Books

----------------------------------------------------------------------------
(* The wire.                                                               *)

\* A write either is one more delta of a run, or comes behind what there is.
LEMMA SentWire ==
  ASSUME wire \in Seq(Wires), NEW what \in Wires, Sent(what)
  PROVE  /\ wire' \in Seq(Wires)
         /\ Len(wire') > 0 /\ wire'[Len(wire')] = what
         /\ \/ wire' = wire /\ what = "delta" /\ Len(wire) > 0
            \/ /\ Len(wire') = Len(wire) + 1
               /\ \A k \in 1 .. Len(wire) : wire'[k] = wire[k]
  <1>1. CASE wire # <<>> /\ Last(wire) = what /\ what = "delta"
    BY <1>1 DEF Sent, Last
  <1>2. CASE ~(wire # <<>> /\ Last(wire) = what /\ what = "delta")
    BY <1>2 DEF Sent
  <1> QED BY <1>1, <1>2

\* It adds the one thing.
LEMMA SentOut ==
  ASSUME wire \in Seq(Wires), NEW what \in Wires, Sent(what), NEW other
  PROVE  Out(other)' <=> Out(other) \/ other = what
  BY SentWire DEF Out

\* And the answer stays well-formed, if what is there allows it.
LEMMA SentKeepsForm ==
  ASSUME wire \in Seq(Wires), WireWellFormed, UNCHANGED includeUsage,
         NEW what \in Wires, Sent(what),
         ~Out("DONE"), ~Out("torn"),
         what \in Ordinary => ~Out("finish") /\ ~Out("usage"),
         what = "usage" => Out("finish") /\ ~Out("usage") /\ includeUsage,
         what = "DONE" => Out("finish")
  PROVE  WireWellFormed'
  <1> SUFFICES ASSUME NEW i \in 1 .. Len(wire'), NEW j \in 1 .. Len(wire'), i < j
               PROVE  /\ wire'[i] \notin {"DONE", "torn"}
                      /\ wire'[i] = "finish" => wire'[j] \in {"usage", "DONE", "torn"}
                      /\ wire'[i] = "usage" => wire'[j] \in {"DONE", "torn"}
                      /\ wire'[j] \in {"usage", "DONE"} => \E k \in 1 .. j : wire'[k] = "finish"
                      /\ wire'[j] = "usage" => includeUsage
    BY DEF WireWellFormed
  <1>1. CASE wire' = wire
    BY <1>1 DEF WireWellFormed
  <1>2. CASE wire' # wire /\ j <= Len(wire)
    <2>1. /\ i \in 1 .. Len(wire) /\ j \in 1 .. Len(wire)
          /\ \A k \in 1 .. j : k \in 1 .. Len(wire) /\ wire'[k] = wire[k]
      BY <1>2, SentWire
    <2> QED BY <2>1 DEF WireWellFormed
  <1>3. CASE wire' # wire /\ j = Len(wire) + 1
    <2>1. i \in 1 .. Len(wire) /\ wire'[i] = wire[i] /\ wire'[j] = what
      BY <1>3, SentWire
    <2>2. Out("finish") => \E k \in 1 .. j : wire'[k] = "finish"
      BY <1>3, SentWire DEF Out
    <2>3. wire[i] \notin {"DONE", "torn"}
      BY <2>1 DEF Out
    <2>4. wire[i] = "finish" => what \notin Ordinary
      BY <2>1 DEF Out
    <2>5. wire[i] = "usage" => what \notin Ordinary \cup {"usage"}
      BY <2>1 DEF Out
    <2> QED BY <2>1, <2>2, <2>3, <2>4, <2>5 DEF Wires
  <1> QED BY <1>1, <1>2, <1>3, SentWire

----------------------------------------------------------------------------
(* The three ways a step ends.                                             *)

\* With the wire as it was, the delivery going on: the books are what is left to show.
LEMMA GoesOn ==
  ASSUME DeliveryInv, TypeOK', Books', Timely', Present', pc # "returned",
         UNCHANGED <<wire, outcome, includeUsage>>
  PROVE  DeliveryInv'
  <1>1. WireWellFormed'
    BY DEF DeliveryInv, WireWellFormed
  <1>2. OutcomeHonest'
    <2>1. outcome = "none" /\ ~Out("DONE")
      BY DEF DeliveryInv, Books, Unended
    <2>2. wire \in Seq(Wires)
      BY DEF DeliveryInv, TypeOK, Wires
    <2>3. wire # <<>> => Last(wire) # "DONE"
      BY <2>1, <2>2 DEF Out, Last
    <2> QED BY <2>1, <2>3 DEF OutcomeHonest
  <1> QED BY <1>1, <1>2 DEF DeliveryInv

\* With nothing written any more, for a cause that is true.
LEMMA Stops ==
  ASSUME DeliveryInv, NEW from \in Points \ {"returned"},
         NEW how \in {"client_disconnected", "upstream_failed"}, Finish(from, how),
         UNCHANGED <<wire, cancelled>>,
         how = "client_disconnected" => cancelled
  PROVE  DeliveryInv'
  <1> USE DEF DeliveryInv, Finish, Goto, stateVars, historyVars
  <1>1. pc = from /\ pc' = "returned" /\ outcome' = how
    OBVIOUS
  <1>2. TypeOK'
    BY <1>1, PointsAre DEF TypeOK
  <1>3. Books' /\ Timely' /\ Present'
    BY <1>1 DEF Books, InHand, Booked, Unended, Timely, Present, Early
  <1>4. WireWellFormed'
    BY DEF WireWellFormed
  <1>5. OutcomeHonest'
    <2>1. ~Out("DONE") /\ ~Out("torn")
      BY <1>1 DEF Books, Unended
    <2>2. wire \in Seq(Wires)
      BY DEF TypeOK, Wires
    <2>3. /\ wire # <<>> => Last(wire) # "DONE"
          /\ "torn" \notin {wire[i] : i \in 1 .. Len(wire)}
      BY <2>1, <2>2 DEF Out, Last
    <2> QED BY <1>1, <2>3 DEF OutcomeHonest
  <1> QED BY <1>2, <1>3, <1>4, <1>5

\* With a last write.
LEMMA EndsWith ==
  ASSUME DeliveryInv, NEW from \in Points \ {"returned"},
         NEW how \in {"client_disconnected", "completed"}, Finish(from, how),
         NEW what \in {"torn", "DONE"}, Sent(what),
         cancelled' \in BOOLEAN, cancelled => cancelled',
         how = "client_disconnected" => cancelled' /\ what = "torn",
         how = "completed" => what = "DONE" /\ Out("finish")
  PROVE  DeliveryInv'
  <1> USE DEF DeliveryInv, Finish, Goto, stateVars, historyVars
  <1>1. /\ pc = from /\ pc' = "returned" /\ outcome' = how
        /\ wire \in Seq(Wires) /\ what \in Wires
    BY DEF TypeOK, Wires
  <1>2. TypeOK'
    BY <1>1, SentWire, PointsAre DEF TypeOK, Wires
  <1>3. Books' /\ Timely' /\ Present'
    BY <1>1 DEF Books, InHand, Booked, Unended, Timely, Present, Early
  <1>4. WireWellFormed'
    BY <1>1, SentKeepsForm DEF Books, Unended, Ordinary
  <1>5. OutcomeHonest'
    <2>1. wire' # <<>> /\ Last(wire') = what
      BY <1>1, SentWire DEF Last
    <2> QED BY <1>1, <2>1 DEF OutcomeHonest
  <1> QED BY <1>2, <1>3, <1>4, <1>5

----------------------------------------------------------------------------
(* The steps, one lemma for each kind.                                     *)

\* Time passes, or the client goes away: nothing that the worker knows changes.
LEMMA EnvironmentSteps ==
  ASSUME TypeOK, Tick \/ Disconnect
  PROVE  /\ now' \in Nat /\ now <= now' /\ cancelled' \in BOOLEAN /\ (cancelled => cancelled')
         /\ UNCHANGED <<includeUsage, pc, item, stateVars, idleDeadline, wire, outcome, historyVars>>
  <1>1. CASE Tick
    BY <1>1 DEF Tick, TypeOK
  <1>2. CASE Disconnect
    BY <1>2 DEF Disconnect, TypeOK
  <1> QED BY <1>1, <1>2

LEMMA EnvironmentKeeps == ASSUME DeliveryInv, pc # "returned", Tick \/ Disconnect PROVE DeliveryInv'
  <1> USE DEF DeliveryInv, stateVars, historyVars
  <1>1. /\ now' \in Nat /\ now <= now' /\ cancelled' \in BOOLEAN /\ (cancelled => cancelled')
        /\ UNCHANGED <<includeUsage, pc, item, stateVars, idleDeadline, wire, outcome, historyVars>>
    BY EnvironmentSteps
  <1>2. TypeOK'
    BY <1>1 DEF TypeOK
  <1>3. Books'
    BY <1>1 DEF Books, InHand, Booked, Unended, Out
  <1>4. Timely' /\ Present'
    BY <1>1 DEF Timely, Present, TypeOK
  <1> QED BY <1>1, <1>2, <1>3, <1>4, GoesOn

\* Also when the worker has returned.
LEMMA AfterTheEnd == ASSUME DeliveryInv, pc = "returned", Tick \/ Disconnect PROVE DeliveryInv'
  <1> USE DEF DeliveryInv, stateVars, historyVars
  <1>1. /\ now' \in Nat /\ now <= now' /\ cancelled' \in BOOLEAN /\ (cancelled => cancelled')
        /\ UNCHANGED <<includeUsage, pc, item, stateVars, idleDeadline, wire, outcome, historyVars>>
    BY EnvironmentSteps
  <1>2. TypeOK'
    BY <1>1 DEF TypeOK
  <1>3. Books' /\ WireWellFormed' /\ OutcomeHonest'
    BY <1>1 DEF Books, InHand, Booked, Unended, Out, WireWellFormed, OutcomeHonest
  <1>4. Timely' /\ Present'
    BY <1>1 DEF Timely, Present, TypeOK
  <1> QED BY <1>2, <1>3, <1>4

LEMMA LooksKeep == ASSUME DeliveryInv, Looks PROVE DeliveryInv'
  <1> USE DEF DeliveryInv, stateVars, historyVars
  <1>1. ASSUME NEW at \in DOMAIN FlagReads, SeeFlag(at) PROVE DeliveryInv'
    <2>1. CASE cancelled
      BY <1>1, <2>1, PointsAre, Stops DEF SeeFlag
    <2>2. CASE ~cancelled
      <3>1. /\ pc = at /\ pc' = FlagReads[at] /\ at \in {"flag", "flag_again"}
            /\ pc' \in {"clock", "clock_again"}
            /\ UNCHANGED <<now, cancelled, includeUsage, item, stateVars, idleDeadline, wire,
                           outcome, historyVars>>
        BY <1>1, <2>2, PointsAre DEF SeeFlag, Goto
      <3>2. TypeOK' /\ Books' /\ Timely' /\ Present'
        BY <2>2, <3>1, PointsAre
        DEF TypeOK, Books, InHand, Booked, Unended, Timely, Present, Early, Out
      <3> QED BY <3>1, <3>2, GoesOn
    <2> QED BY <2>1, <2>2
  <1>2. ASSUME NEW at \in DOMAIN IdleReads, SeeIdle(at) PROVE DeliveryInv'
    <2>1. CASE now >= idleDeadline
      BY <1>2, <2>1, PointsAre, Stops DEF SeeIdle
    <2>2. CASE ~(now >= idleDeadline)
      <3>1. /\ pc = at /\ pc' = IdleReads[at] /\ at \in {"clock", "clock_again"}
            /\ pc' \in {"next", "match"} /\ (pc' = "match" => at = "clock_again")
            /\ UNCHANGED <<now, cancelled, includeUsage, item, stateVars, idleDeadline, wire,
                           outcome, historyVars>>
        BY <1>2, <2>2, PointsAre DEF SeeIdle, Goto
      <3>2. TypeOK' /\ Books' /\ Present'
        BY <3>1, PointsAre DEF TypeOK, Books, InHand, Booked, Unended, Present, Early, Out
      <3>3. Timely'
        BY <2>2, <3>1 DEF Timely, TypeOK, Early
      <3> QED BY <3>1, <3>2, <3>3, GoesOn
    <2> QED BY <2>1, <2>2
  <1> QED BY <1>1, <1>2 DEF Looks

LEMMA IteratorKeeps == ASSUME DeliveryInv, Iterator PROVE DeliveryInv'
  <1> USE DEF DeliveryInv, Goto, stateVars, historyVars
  <1>1. CASE ReadEvent
    <2>1. TypeOK' /\ Books' /\ Timely' /\ Present'
      BY <1>1, PointsAre
      DEF ReadEvent, TypeOK, Books, InHand, Booked, Unended, Timely, Present, Early, Out
    <2> QED BY <1>1, <2>1, GoesOn DEF ReadEvent
  <1>2. CASE ReadOn
    <2>1. TypeOK' /\ Books' /\ Timely' /\ Present'
      BY <1>2, PointsAre
      DEF ReadOn, TypeOK, Books, InHand, Booked, Unended, Timely, Present, Early, Out
    <2> QED BY <1>2, <2>1, GoesOn DEF ReadOn
  <1>3. CASE NextReturns
    <2>1. TypeOK'
      BY <1>3, PointsAre DEF NextReturns, TypeOK
    <2>2. Books' /\ Timely' /\ Present'
      BY <1>3 DEF NextReturns, TypeOK, Books, InHand, Booked, Unended, Timely, Present, Early, Out
    <2> QED BY <1>3, <2>1, <2>2, GoesOn DEF NextReturns
  <1> QED BY <1>1, <1>2, <1>3 DEF Iterator

LEMMA MatchKeeps == ASSUME DeliveryInv, Match PROVE DeliveryInv'
  <1> USE DEF DeliveryInv, Goto, stateVars, historyVars
  <1>1. CASE Accept
    <2>1. /\ pc = "match" /\ pc' = "write" /\ item' = item
          /\ item \in Ordinary \cup {"usage"}
          /\ item \in Ordinary => ~terminal
          /\ item = "usage" => includeUsage /\ ~usageSeen /\ terminal
          /\ terminal' = (terminal \/ item = "finish") /\ usageSeen' = (usageSeen \/ item = "usage")
          /\ UNCHANGED <<now, cancelled, includeUsage, idleDeadline, wire, outcome, historyVars>>
      BY <1>1 DEF Accept, Accepts, Ordinary
    <2>2. TypeOK'
      <3>1. terminal' \in BOOLEAN /\ usageSeen' \in BOOLEAN
        BY <2>1
      <3> QED BY <2>1, <3>1, PointsAre DEF TypeOK
    <2>3. InHand'
      <3>1. (terminal <=> Out("finish")) /\ (usageSeen <=> Out("usage")) /\ (usageSeen => terminal)
        BY <2>1 DEF Books, Booked, Early
      <3>2. Out("finish")' = Out("finish") /\ Out("usage")' = Out("usage")
        BY <2>1 DEF Out
      <3>3. CASE item \in Ordinary
        BY <2>1, <3>1, <3>2, <3>3 DEF InHand, Early, Ordinary
      <3>4. CASE item = "usage"
        BY <2>1, <3>1, <3>2, <3>4 DEF InHand, Early, Ordinary
      <3> QED BY <2>1, <3>3, <3>4
    <2>4. Booked' /\ Unended'
      BY <2>1 DEF Books, Booked, Unended, Early, Out, Ordinary
    <2>5. Timely' /\ Present'
      BY <2>1 DEF Timely, Present, Early
    <2> QED BY <2>1, <2>2, <2>3, <2>4, <2>5, GoesOn DEF Books
  <1>2. CASE Refuse
    BY <1>2, PointsAre, Stops DEF Refuse
  <1>3. CASE EndOfStream
    <2>1. TypeOK' /\ Books' /\ Timely' /\ Present'
      BY <1>3, PointsAre
      DEF EndOfStream, TypeOK, Books, InHand, Booked, Unended, Timely, Present, Early, Out
    <2> QED BY <1>3, <2>1, GoesOn DEF EndOfStream
  <1> QED BY <1>1, <1>2, <1>3 DEF Match

\* A whole write, after which nothing is in hand.
LEMMA WritesItem ==
  ASSUME DeliveryInv, NEW from \in {"first", "write"}, Goto(from, "flag"), Sent(item),
         UNCHANGED <<cancelled, item, stateVars, outcome, gotAt, gotGone>>,
         idleDeadline' = progressAt' + IdleTimeout, idleDeadline' \in Nat, progressAt' \in Nat
  PROVE  DeliveryInv'
  <1> USE DeliveryAssumption DEF DeliveryInv, Goto, stateVars
  <1>1. /\ pc = from /\ pc' = "flag" /\ outcome = "none" /\ ~Out("DONE") /\ ~Out("torn")
        /\ wire \in Seq(Wires)
    BY DEF Books, Unended, TypeOK, Wires
  <1>2. item \in Ordinary \cup {"usage"} /\ item \in Wires
    BY <1>1 DEF Books, InHand, Early, Wires
  <1>3. /\ item \in Ordinary =>
             ~Out("finish") /\ ~Out("usage") /\ ~usageSeen /\ (terminal <=> item = "finish")
        /\ item = "usage" =>
             Out("finish") /\ ~Out("usage") /\ usageSeen /\ terminal /\ includeUsage
    <2>1. CASE from = "first"
      BY <1>1, <2>1 DEF Books, InHand, Early, Out, Ordinary
    <2>2. CASE from = "write"
      BY <1>1, <2>2 DEF Books, InHand
    <2> QED BY <2>1, <2>2
  <1>4. \A other : Out(other)' <=> Out(other) \/ other = item
    BY <1>1, <1>2, SentOut
  <1>5. TypeOK'
    <2>1. wire' \in Seq(Wires)
      BY <1>1, <1>2, SentWire
    <2> QED BY <1>1, <2>1, PointsAre DEF TypeOK, Wires
  <1>6. Books'
    <2>1. InHand' /\ Unended'
      BY <1>1, <1>2, <1>4 DEF InHand, Unended, Early, Ordinary
    <2>2. CASE item \in Ordinary
      <3>1. ~Out("finish") /\ ~Out("usage") /\ ~usageSeen /\ (terminal <=> item = "finish")
        BY <1>3, <2>2
      <3>2. Out("finish")' <=> item = "finish"
        BY <1>4, <3>1
      <3>3. ~Out("usage")'
        BY <1>4, <2>2, <3>1 DEF Ordinary
      <3>4. Booked'
        BY <1>1, <3>1, <3>2, <3>3 DEF Booked, Early
      <3> QED BY <2>1, <3>4 DEF Books
    <2>3. CASE item = "usage"
      <3>1. Out("finish")' /\ Out("usage")'
        BY <1>3, <1>4, <2>3
      <3>2. Booked'
        BY <1>1, <1>3, <2>3, <3>1 DEF Booked, Early
      <3> QED BY <2>1, <3>2 DEF Books
    <2> QED BY <1>2, <2>2, <2>3
  <1>7. Timely' /\ Present'
    BY <1>1 DEF Timely, Present, Early
  <1>8. WireWellFormed'
    <2>1. item # "DONE" /\ includeUsage' = includeUsage /\ WireWellFormed
      BY <1>2 DEF Ordinary
    <2>2. item \in Ordinary => ~Out("finish") /\ ~Out("usage")
      BY <1>3
    <2>3. item = "usage" => Out("finish") /\ ~Out("usage") /\ includeUsage
      BY <1>3
    <2> QED BY <1>1, <1>2, <2>1, <2>2, <2>3, SentKeepsForm
  <1>9. OutcomeHonest'
    <2>1. Last(wire') = item
      BY <1>1, <1>2, SentWire DEF Last
    <2> QED BY <1>1, <1>2, <2>1 DEF OutcomeHonest, Ordinary
  <1> QED BY <1>5, <1>6, <1>7, <1>8, <1>9

LEMMA WritesKeep == ASSUME DeliveryInv, Writes PROVE DeliveryInv'
  <1> USE DeliveryAssumption DEF DeliveryInv
  <1>1. CASE WriteHead
    <2>1. TypeOK' /\ Books' /\ Timely' /\ Present'
      BY <1>1, PointsAre
      DEF WriteHead, Goto, stateVars, historyVars,
          TypeOK, Books, InHand, Booked, Unended, Timely, Present, Early, Out
    <2> QED BY <1>1, <2>1, GoesOn DEF WriteHead, Goto
  <1>2. CASE WriteFirst
    <2>1. now \in Nat /\ now + IdleTimeout \in Nat
      BY DEF TypeOK
    <2> QED BY <1>2, <2>1, WritesItem DEF WriteFirst
  <1>3. CASE WriteChunk
    <2>1. /\ now \in Nat /\ now + IdleTimeout \in Nat /\ progressAt \in Nat
          /\ idleDeadline \in Nat /\ pc = "write"
      BY <1>3 DEF TypeOK, WriteChunk, Goto
    <2>2. idleDeadline' = progressAt' + IdleTimeout /\ idleDeadline' \in Nat /\ progressAt' \in Nat
      <3>1. CASE item \in Ordinary
        BY <1>3, <2>1, <3>1 DEF WriteChunk
      <3>2. CASE item \notin Ordinary
        BY <1>3, <2>1, <3>2 DEF WriteChunk, Timely, Early
      <3> QED BY <3>1, <3>2
    <2> QED BY <1>3, <2>2, WritesItem DEF WriteChunk
  <1>4. CASE WriteDone
    <2>1. Out("finish") /\ cancelled' = cancelled /\ cancelled \in BOOLEAN
      BY <1>4 DEF WriteDone, Finish, Goto, Books, InHand, TypeOK
    <2> QED BY <1>4, <2>1, EndsWith, PointsAre DEF WriteDone
  <1>5. ASSUME NEW from \in {"head", "first", "write", "done"}, WriteFails(from)
        PROVE  DeliveryInv'
    <2>1. from \in Points \ {"returned"}
      BY PointsAre
    <2>2. CASE Sent("torn")
      BY <1>5, <2>1, <2>2, EndsWith DEF WriteFails
    <2>3. CASE wire' = wire
      <3> USE DEF WriteFails, Finish, Goto, stateVars, historyVars
      <3>1. /\ pc = from /\ pc' = "returned" /\ outcome' = "client_disconnected" /\ cancelled'
            /\ ~Out("DONE") /\ wire \in Seq(Wires)
        BY <1>5 DEF Books, Unended, TypeOK, Wires
      <3>2. TypeOK'
        BY <1>5, <2>3, <3>1, PointsAre DEF TypeOK
      <3>3. Books' /\ Timely' /\ Present'
        BY <1>5, <2>3, <3>1 DEF Books, InHand, Booked, Unended, Timely, Present, Early
      <3>4. WireWellFormed'
        BY <1>5, <2>3 DEF WireWellFormed
      <3>5. OutcomeHonest'
        <4>1. wire # <<>> => Last(wire) # "DONE"
          BY <3>1 DEF Out, Last
        <4> QED BY <2>3, <3>1, <4>1 DEF OutcomeHonest
      <3> QED BY <3>2, <3>3, <3>4, <3>5
    <2> QED BY <1>5, <2>2, <2>3 DEF WriteFails
  <1> QED BY <1>1, <1>2, <1>3, <1>4, <1>5 DEF Writes

----------------------------------------------------------------------------
LEMMA NextKeeps == ASSUME DeliveryInv, [Next]_vars PROVE DeliveryInv'
  <1>1. CASE UNCHANGED vars
    BY <1>1 DEF vars, environmentVars, stateVars, historyVars, DeliveryInv, TypeOK, Books, InHand,
                Booked, Unended, Out, Timely, Present, WireWellFormed, OutcomeHonest
  <1>2. CASE Tick \/ Disconnect
    BY <1>2, EnvironmentKeeps, AfterTheEnd
  <1> QED BY <1>1, <1>2, LooksKeep, WritesKeep, MatchKeeps, IteratorKeeps DEF Next

(***************************************************************************)
(* The invariant, on which all below rests: whatever the upstream sends,   *)
(* the gate's books, the item in hand and the wire agree.                  *)
(***************************************************************************)
THEOREM DeliveryInvariant == Spec => []DeliveryInv
  BY InitDeliveryInv, NextKeeps, PTL DEF Spec

\* The types of the delivery's state.
THEOREM DeliveryTypeCorrect == Spec => []TypeOK
  BY DeliveryInvariant, PTL DEF DeliveryInv

\* The client reads a prefix of one well-formed answer, whoever the provider is.
THEOREM WireStaysWellFormed == Spec => []WireWellFormed
  BY DeliveryInvariant, PTL DEF DeliveryInv

\* The log's outcome is true of what the client was sent.
THEOREM OutcomesAreHonest == Spec => []OutcomeHonest
  BY DeliveryInvariant, PTL DEF DeliveryInv

\* Nothing goes out that came late, or after the client had gone.
THEOREM NothingStaleGoesOut == Spec => []NothingStale
  <1>1. DeliveryInv => NothingStale
    BY DeliveryAssumption, PointsAre
    DEF DeliveryInv, TypeOK, Timely, Present, NothingStale, Early
  <1> QED BY <1>1, DeliveryInvariant, PTL

----------------------------------------------------------------------------
(***************************************************************************)
(* What is left of a delivery once the client has gone.  The flag is read  *)
(* on both sides of next and nowhere else, so all that the worker has      *)
(* before it is the way to the next look.                                  *)
(***************************************************************************)

\* The most steps from a point to the return, while next returns what it reads.
StepsAfterDisconnect(at) ==
  CASE at = "returned" -> 0
    [] at \in DOMAIN FlagReads \cup {"done"} -> 1
    [] at \in {"event", "write", "first"} -> 2
    [] at \in {"next", "match", "head"} -> 3
    [] at \in DOMAIN IdleReads -> 4

\* The points from which a write comes before the next look at the flag.
WayToWrite == {"head", "first", "clock_again", "match", "write", "done"}

Goes == Looks \/ Writes \/ Match \/ ReadEvent \/ NextReturns

\* Each step leads nearer to the return, but for an event that is no chunk: next
\* reads on in the same call, and only the end of that call ends the delivery.
NearerAfterDisconnect ==
  cancelled =>
    /\ Goes => StepsAfterDisconnect(pc)' < StepsAfterDisconnect(pc)
    /\ ReadOn => pc' = "next"

\* Unless the worker is past its last look, nothing more goes out.
SilentAfterDisconnect ==
  cancelled /\ pc \notin WayToWrite => wire' = wire /\ pc' \notin WayToWrite

\* Where a step of the worker leads, once the client has gone.
LEMMA WaysAfterDisconnect ==
  ASSUME cancelled, Goes
  PROVE  \/ pc \in Points \ {"returned"} /\ pc' = "returned"
         \/ pc \in DOMAIN IdleReads /\ pc' = IdleReads[pc]
         \/ pc = "head" /\ pc' = "first"
         \/ pc \in {"first", "write"} /\ pc' = "flag"
         \/ pc = "next" /\ pc' = "event"
         \/ pc = "event" /\ pc' = "flag_again"
         \/ pc = "match" /\ pc' \in {"write", "done"}
  <1>1. CASE Looks
    <2>1. ASSUME NEW at \in DOMAIN FlagReads, SeeFlag(at)
          PROVE  pc \in Points \ {"returned"} /\ pc' = "returned"
      BY <2>1, PointsAre DEF SeeFlag, Finish, Goto
    <2>2. ASSUME NEW at \in DOMAIN IdleReads, SeeIdle(at)
          PROVE  \/ pc \in Points \ {"returned"} /\ pc' = "returned"
                 \/ pc \in DOMAIN IdleReads /\ pc' = IdleReads[pc]
      BY <2>2, PointsAre DEF SeeIdle, Finish, Goto
    <2> QED BY <1>1, <2>1, <2>2 DEF Looks
  <1>2. CASE Writes
    BY <1>2, PointsAre
    DEF Writes, WriteHead, WriteFirst, WriteChunk, WriteDone, WriteFails, Finish, Goto
  <1>3. CASE Match
    BY <1>3, PointsAre DEF Match, Accept, Refuse, EndOfStream, Finish, Goto
  <1>4. CASE ReadEvent \/ NextReturns
    BY <1>4 DEF ReadEvent, NextReturns, Goto
  <1> QED BY <1>1, <1>2, <1>3, <1>4 DEF Goes

\* What the count is at each point.
LEMMA DisconnectCounts ==
  ASSUME NEW at \in Points
  PROVE  /\ StepsAfterDisconnect(at) \in 0 .. 4
         /\ StepsAfterDisconnect(at) = 0 <=> at = "returned"
         /\ at \in {"flag", "flag_again", "done"} => StepsAfterDisconnect(at) = 1
         /\ at \in {"event", "write", "first"} => StepsAfterDisconnect(at) = 2
         /\ at \in {"next", "match", "head"} => StepsAfterDisconnect(at) = 3
         /\ at \in {"clock", "clock_again"} => StepsAfterDisconnect(at) = 4
  BY PointsAre DEF StepsAfterDisconnect

\* A delivery that has returned has an outcome.
Ended == pc = "returned" => outcome # "none"

\* Every way back to the caller says which of the three outcomes it is.
LEMMA EndedHolds == Spec => []Ended
  <1>1. Init => Ended
    BY DEF Init, Ended
  <1>2. Ended /\ [Next]_vars => Ended'
    <2> SUFFICES ASSUME Ended, [Next]_vars PROVE Ended'
      OBVIOUS
    <2>1. CASE Tick \/ Disconnect \/ UNCHANGED vars
      BY <2>1 DEF Tick, Disconnect, Ended, vars
    <2>2. CASE Looks
      <3>1. ASSUME NEW at \in DOMAIN FlagReads, SeeFlag(at) PROVE Ended'
        BY <3>1, PointsAre DEF SeeFlag, Finish, Goto, Ended
      <3>2. ASSUME NEW at \in DOMAIN IdleReads, SeeIdle(at) PROVE Ended'
        BY <3>2, PointsAre DEF SeeIdle, Finish, Goto, Ended
      <3> QED BY <2>2, <3>1, <3>2 DEF Looks
    <2>3. CASE Writes \/ Match
      BY <2>3 DEF Writes, WriteHead, WriteFirst, WriteChunk, WriteDone, WriteFails,
                  Match, Accept, Refuse, EndOfStream, Finish, Goto, Ended
    <2>4. CASE Iterator
      BY <2>4 DEF Iterator, ReadEvent, ReadOn, NextReturns, Goto, Ended
    <2> QED BY <2>1, <2>2, <2>3, <2>4 DEF Next
  <1> QED BY <1>1, <1>2, PTL DEF Spec

\* A disconnect ends write_sse_stream within four steps, wherever it finds it, but for
\* the events that the iterator's next reads over: it is the one call in which the
\* flag is not looked at.  The count is zero exactly when the delivery is over.
THEOREM DisconnectEndsSoon ==
  /\ Spec => [](StepsAfterDisconnect(pc) \in 0 .. 4)
  /\ Spec => [](StepsAfterDisconnect(pc) = 0 <=> outcome # "none")
  /\ Spec => [][NearerAfterDisconnect]_vars
  <1>1. DeliveryInv /\ Ended => /\ StepsAfterDisconnect(pc) \in 0 .. 4
                                /\ StepsAfterDisconnect(pc) = 0 <=> outcome # "none"
    <2> SUFFICES ASSUME DeliveryInv, Ended
                 PROVE  /\ StepsAfterDisconnect(pc) \in 0 .. 4
                        /\ StepsAfterDisconnect(pc) = 0 <=> outcome # "none"
      OBVIOUS
    <2>1. pc \in Points /\ (pc = "returned" <=> outcome # "none")
      BY DEF DeliveryInv, TypeOK, Books, Unended, Ended
    <2> QED BY <2>1, DisconnectCounts
  <1>2. DeliveryInv /\ [Next]_vars => [NearerAfterDisconnect]_vars
    <2> SUFFICES ASSUME DeliveryInv, DeliveryInv', cancelled, [Next]_vars
                 PROVE  NearerAfterDisconnect
      BY NextKeeps DEF NearerAfterDisconnect
    <2>1. pc \in Points /\ pc' \in Points
      BY DEF DeliveryInv, TypeOK
    <2>2. ASSUME Goes PROVE StepsAfterDisconnect(pc') < StepsAfterDisconnect(pc)
      <3>1. PICK steps \in 0 .. 4, fewer \in 0 .. 4 :
              steps = StepsAfterDisconnect(pc) /\ fewer = StepsAfterDisconnect(pc')
        BY <2>1, DisconnectCounts
      <3> QED BY <2>1, <2>2, <3>1, WaysAfterDisconnect, DisconnectCounts, PointsAre
    <2>3. ReadOn => pc' = "next"
      BY DEF ReadOn, Goto
    <2> QED BY <2>2, <2>3 DEF NearerAfterDisconnect
  <1> QED BY <1>1, <1>2, DeliveryInvariant, EndedHolds, PTL DEF Spec

\* With the flag set and a look at it still before the next write, nothing more goes to
\* the socket: not the chunk that next was waiting for, and no [DONE].
THEOREM DisconnectSilences == Spec => [][SilentAfterDisconnect]_vars
  <1>1. DeliveryInv /\ [Next]_vars => [SilentAfterDisconnect]_vars
    <2> SUFFICES ASSUME DeliveryInv, cancelled, pc \notin WayToWrite, Next
                 PROVE  wire' = wire /\ pc' \notin WayToWrite
      BY DEF SilentAfterDisconnect
    <2>1. pc \in {"next", "event", "returned", "flag", "flag_again", "clock"}
      BY PointsAre DEF DeliveryInv, TypeOK, WayToWrite
    <2>2. CASE Tick \/ Disconnect
      BY <2>2 DEF Tick, Disconnect
    <2>3. CASE Looks
      <3>1. ASSUME NEW at \in DOMAIN FlagReads, SeeFlag(at)
            PROVE  wire' = wire /\ pc' = "returned"
        BY <3>1 DEF SeeFlag, Finish, Goto
      <3>2. ASSUME NEW at \in DOMAIN IdleReads, SeeIdle(at)
            PROVE  wire' = wire /\ pc' \in {"returned", "next"}
        BY <2>1, <3>2, PointsAre DEF SeeIdle, Finish, Goto, WayToWrite
      <3> QED BY <2>3, <3>1, <3>2 DEF Looks, WayToWrite
    <2>4. CASE Writes \/ Match
      BY <2>1, <2>4 DEF Writes, WriteHead, WriteFirst, WriteChunk, WriteDone, WriteFails,
                        Match, Accept, Refuse, EndOfStream, Finish, Goto
    <2>5. CASE Iterator
      BY <2>5 DEF Iterator, ReadEvent, ReadOn, NextReturns, Goto, WayToWrite
    <2> QED BY <2>2, <2>3, <2>4, <2>5 DEF Next
  <1> QED BY <1>1, DeliveryInvariant, PTL DEF Spec

----------------------------------------------------------------------------
(***************************************************************************)
(* The inductive invariant.  Between two items the last one that was given *)
(* is what the gate's books say; with an item in hand it is that one, and  *)
(* the books say what it may be.                                           *)
(***************************************************************************)
Remembered ==
  /\ ~terminal => given = "delta"
  /\ terminal /\ ~usageSeen => given = "finish"
  /\ usageSeen => given = "usage"

Expected ==
  /\ given = item
  /\ ~terminal => item \in {"delta", "finish", "error"}
  /\ terminal => item \in {"usage", "end", "error"}
  /\ item = "usage" => includeUsage /\ ~usageSeen

Lockstep ==
  adapted =>
    /\ pc \in {"flag", "clock", "next"} => Remembered
    /\ pc = "event" => IF item = Quiet THEN Remembered ELSE Expected
    /\ pc \in {"flag_again", "clock_again", "match"} => Expected
    /\ pc \in Early \cup {"write"} => given = item

RelayInv ==
  /\ DeliveryInv
  /\ adapted \in BOOLEAN /\ given \in DOMAIN Stream!Follows
  /\ Lockstep
  /\ pc \in {"flag_again", "clock_again", "match"} => item # Quiet

\* What follows what, one by one.
LEMMA FollowsAre ==
  /\ DOMAIN Stream!Follows = {"nothing", "delta", "finish", "usage", "error", "end"}
  /\ Stream!Follows["delta"] = {"delta", "finish", "error"}
  /\ Stream!Follows["finish"] = {"usage", "end", "error"}
  /\ Stream!Follows["usage"] = {"end", "error"}
  BY DEF Stream!Follows

LEMMA InitRelayInv == RelayInit => RelayInv
  <1> SUFFICES ASSUME RelayInit PROVE RelayInv
    OBVIOUS
  <1>1. DeliveryInv
    BY InitDeliveryInv DEF RelayInit
  <1>2. pc = "head" /\ item \in Ordinary /\ given = item /\ adapted \in BOOLEAN
    BY DEF RelayInit, Init
  <1> QED BY <1>1, <1>2, FollowsAre DEF RelayInv, Lockstep, Ordinary

----------------------------------------------------------------------------
\* An adapter's next item is one that the books expect.
LEMMA PullKeeps == ASSUME RelayInv, Pull PROVE RelayInv'
  <1>1. /\ pc = "next" /\ pc' = "event" /\ item' \in Items \cup {Quiet}
        /\ UNCHANGED <<includeUsage, terminal, usageSeen, adapted>>
    BY DEF Pull, ReadEvent, Goto, stateVars
  <1>2. DeliveryInv'
    BY NextKeeps DEF RelayInv, Pull, Next, Iterator
  <1>3. CASE adapted /\ item' # Quiet
    <2>1. /\ item' \in Stream!Follows[given] /\ (item' = "usage" => includeUsage)
          /\ given' = item'
      BY <1>3 DEF Pull, Stream!Give
    <2>2. Remembered /\ (usageSeen => terminal) /\ terminal \in BOOLEAN /\ usageSeen \in BOOLEAN
      BY <1>1, <1>3 DEF RelayInv, Lockstep, DeliveryInv, Books, Booked, TypeOK
    <2>3. Expected'
      <3>1. CASE ~terminal
        BY <1>1, <2>1, <2>2, <3>1, FollowsAre DEF Remembered, Expected
      <3>2. CASE terminal /\ ~usageSeen
        BY <1>1, <2>1, <2>2, <3>2, FollowsAre DEF Remembered, Expected
      <3>3. CASE usageSeen
        BY <1>1, <2>1, <2>2, <3>3, FollowsAre DEF Remembered, Expected
      <3> QED BY <3>1, <3>2, <3>3
    <2>4. Lockstep'
      BY <1>1, <1>3, <2>3 DEF Lockstep, Early
    <2>5. given' \in DOMAIN Stream!Follows
      BY <2>3, FollowsAre DEF Expected
    <2> QED BY <1>1, <1>2, <2>4, <2>5 DEF RelayInv
  <1>4. CASE ~(adapted /\ item' # Quiet)
    <2>1. given' = given
      BY <1>4 DEF Pull
    <2>2. adapted => Remembered'
      BY <1>1, <2>1 DEF RelayInv, Lockstep, Remembered
    <2>3. Lockstep'
      BY <1>1, <1>4, <2>2 DEF Lockstep, Early
    <2> QED BY <1>1, <1>2, <2>1, <2>3 DEF RelayInv
  <1> QED BY <1>3, <1>4

\* What the worker does with an item leads the books to where the item was expected.
LEMMA RestKeeps == ASSUME RelayInv, Rest, UNCHANGED <<adapted, given>> PROVE RelayInv'
  <1> USE DEF RelayInv, Lockstep, Remembered, Expected, Goto, stateVars, historyVars
  <1>1. DeliveryInv'
    BY NextKeeps DEF Rest, Next, Iterator
  <1>2. CASE Tick \/ Disconnect
    BY <1>1, <1>2 DEF Tick, Disconnect
  <1>3. ASSUME NEW at \in DOMAIN FlagReads, SeeFlag(at) PROVE RelayInv'
    BY <1>1, <1>3, PointsAre DEF SeeFlag, Finish, Early
  <1>4. ASSUME NEW at \in DOMAIN IdleReads, SeeIdle(at) PROVE RelayInv'
    BY <1>1, <1>4, PointsAre DEF SeeIdle, Finish, Early
  <1>5. CASE WriteHead \/ WriteDone \/ \E from \in {"head", "first", "write", "done"} : WriteFails(from)
    BY <1>1, <1>5 DEF WriteHead, WriteDone, WriteFails, Finish, Early
  <1>6. CASE WriteFirst \/ WriteChunk
    <2>1. /\ pc \in {"first", "write"} /\ pc' = "flag"
          /\ UNCHANGED <<item, terminal, usageSeen>>
      BY <1>6 DEF WriteFirst, WriteChunk
    <2>2. /\ item \in Ordinary => ~usageSeen /\ (terminal <=> item = "finish")
          /\ item = "usage" => usageSeen /\ terminal
          /\ item \in Ordinary \cup {"usage"}
      BY <2>1 DEF DeliveryInv, Books, InHand, Early, Ordinary
    <2> QED BY <1>1, <2>1, <2>2 DEF Early, Ordinary
  <1>7. CASE Match
    <2>1. pc = "match" /\ pc' \in {"write", "done", "returned"} /\ item' = item
      BY <1>7 DEF Match, Accept, Refuse, EndOfStream, Finish
    <2> QED BY <1>1, <2>1 DEF Early
  <1>8. CASE ReadOn
    BY <1>1, <1>8 DEF ReadOn, Early
  <1>9. CASE NextReturns
    BY <1>1, <1>9 DEF NextReturns, Early
  <1> QED BY <1>2, <1>3, <1>4, <1>5, <1>6, <1>7, <1>8, <1>9 DEF Rest, Looks, Writes

LEMMA RelayInvariant == RelaySpec => []RelayInv
  <1>1. RelayInv /\ [RelayNext]_relayVars => RelayInv'
    <2> SUFFICES ASSUME RelayInv, [RelayNext]_relayVars PROVE RelayInv'
      OBVIOUS
    <2>1. CASE UNCHANGED relayVars
      <3>1. DeliveryInv'
        BY <2>1, NextKeeps DEF relayVars, RelayInv
      <3> QED BY <2>1, <3>1
          DEF relayVars, vars, environmentVars, stateVars, RelayInv, Lockstep, Remembered, Expected
    <2> QED BY <2>1, PullKeeps, RestKeeps DEF RelayNext
  <1> QED BY <1>1, InitRelayInv, PTL DEF RelaySpec

----------------------------------------------------------------------------
\* The types of a stream on its way.
THEOREM RelayTypeCorrect == RelaySpec => []RelayTypeOK
  BY RelayInvariant, PTL DEF RelayInv, DeliveryInv, RelayTypeOK

(***************************************************************************)
(* The gate refuses nothing of what an adapter gives but its errors: with  *)
(* AdaptersProofs, where each decoder is shown to be a CanonicalStream, no *)
(* answer that an adapter finishes is broken off by the gate.              *)
(***************************************************************************)
THEOREM GateIsOpen == RelaySpec => []GateOpen
  <1>1. RelayInv => GateOpen
    <2> SUFFICES ASSUME RelayInv, adapted, pc = "match", item # "error"
                 PROVE  IF item = "end" THEN terminal ELSE Accepts(item)
      BY DEF GateOpen
    <2>1. Expected /\ terminal \in BOOLEAN
      BY DEF RelayInv, Lockstep, DeliveryInv, TypeOK
    <2> QED BY <2>1 DEF Expected, Accepts, Ordinary
  <1> QED BY <1>1, RelayInvariant, PTL

\* A delivery of Relay is one of Delivery, of which the properties are proved.
THEOREM RelayIsDelivery == RelaySpec => Spec
  <1>1. RelayInit => Init
    BY DEF RelayInit
  <1>2. [RelayNext]_relayVars => [Next]_vars
    BY DEF RelayNext, Pull, Rest, Next, Iterator, relayVars, vars
  <1> QED BY <1>1, <1>2, PTL DEF RelaySpec, Spec

============================================================================
