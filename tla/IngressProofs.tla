--------------------------- MODULE IngressProofs ---------------------------
(***************************************************************************)
(* Proofs about Ingress.tla, for requests, limits and buffers of any size. *)
(***************************************************************************)
EXTENDS Ingress, TLAPS

----------------------------------------------------------------------------
(* The lesser and the greater of two numbers.                              *)
LEMMA MinOfTwo ==
  ASSUME NEW a \in Int, NEW b \in Int
  PROVE  Min({a, b}) = IF a <= b THEN a ELSE b
  <1>1. \E x \in {a, b} : \A y \in {a, b} : x <= y
    OBVIOUS
  <1>2. Min({a, b}) \in {a, b} /\ \A y \in {a, b} : Min({a, b}) <= y
    BY <1>1 DEF Min
  <1> QED BY <1>2

LEMMA MaxOfTwo ==
  ASSUME NEW a \in Nat, NEW b \in Nat
  PROVE  Max({a, b}) \in Nat /\ a <= Max({a, b}) /\ b <= Max({a, b})
  <1>1. \E x \in {a, b} : \A y \in {a, b} : x >= y
    OBVIOUS
  <1>2. Max({a, b}) \in {a, b} /\ \A y \in {a, b} : Max({a, b}) >= y
    BY <1>1 DEF Max
  <1> QED BY <1>2

----------------------------------------------------------------------------
(***************************************************************************)
(* The inductive invariant.  No read is begun when all that is wanted is   *)
(* there, so at most one buffer was read beyond it; and what the body's    *)
(* buffer holds is known from what was taken of the socket.                *)
(***************************************************************************)
Typed ==
  /\ request.head \in Nat \ {0} /\ request.length \in Nat /\ request.body \in Nat
  /\ taken \in Nat /\ sent \in Nat /\ body \in Nat

InHead == {"head"}
Headed == {"parse", "admit", "watch", "measure"}
InBody == {"body", "body_blocked", "route"}
Ending == {"write", "write_blocked", "written", "closed"}

Whole == request.head + request.length

Decided == status = "none" <=> pc \notin Ending

HeadRead ==
  /\ pc = "head" => taken < request.head
  /\ pc \in Headed \cup InBody => request.head <= taken
  /\ pc \in Headed => taken - Chunk < request.head

BodyRead ==
  pc \in InBody =>
    /\ body = IF taken - request.head <= request.length THEN taken - request.head ELSE request.length
    /\ taken - Chunk < Whole
    /\ request.length <= MaxBody
    /\ pc = "route" => body = request.length

IngressInv == TypeOK /\ Typed /\ Decided /\ HeadRead /\ BodyRead /\ BodyExact /\ LimitsHonest

LEMMA SizesAre ==
  /\ MaxHead \in Nat /\ MaxBody \in Nat
  /\ \A size \in {Chunk, HeadTimeout, BodyTimeout, WriteTimeout, SendBuffer, AnswerSize} :
       size \in Nat \ {0}
  /\ Max({HeadTimeout, WriteTimeout}) \in Nat
  /\ HeadTimeout <= Max({HeadTimeout, WriteTimeout})
  /\ WriteTimeout <= Max({HeadTimeout, WriteTimeout})
  BY IngressAssumption, MaxOfTwo DEF IngressAssumption

LEMMA PointsAre ==
  Points = {"head", "parse", "admit", "watch", "measure", "body", "body_blocked", "route",
            "write", "write_blocked", "written", "closed"}
  BY DEF Points, Reading, Writing

LEMMA StatusesAre ==
  Statuses = {"none", "early", "408", "413", "answer", "too_large", "late", "gone",
              "interrupted", "malformed"}
  BY DEF Statuses, Silent

\* The sizes of a request are numbers.
LEMMA RequestType ==
  ASSUME request \in Requests
  PROVE  request.head \in Nat \ {0} /\ request.length \in Nat /\ request.body \in Nat
  BY IngressAssumption DEF IngressAssumption

LEMMA InitIngressInv == Init => IngressInv
  <1> SUFFICES ASSUME Init PROVE IngressInv
    OBVIOUS
  <1>1. TypeOK
    <2>1. 0 \in 0 .. request.length /\ sent <= request.head + request.body /\ 0 \in 0 .. sent
      BY RequestType DEF Init
    <2>2. /\ 0 \in 0 .. Max({HeadTimeout, WriteTimeout}) /\ 0 \in 0 .. BodyTimeout
          /\ 0 \in 0 .. AnswerSize /\ 0 \in 0 .. SendBuffer
      BY SizesAre
    <2>3. pc \in Points /\ status \in Statuses
      BY PointsAre, StatusesAre DEF Init
    <2> QED BY <2>1, <2>2, <2>3 DEF Init, TypeOK
  <1>2. Typed
    BY RequestType DEF Init, Typed
  <1>3. Decided /\ HeadRead /\ BodyRead
    BY RequestType DEF Init, Decided, HeadRead, BodyRead, Ending, Headed, InBody
  <1>4. BodyExact /\ LimitsHonest
    BY DEF Init, BodyExact, LimitsHonest
  <1> QED BY <1>1, <1>2, <1>3, <1>4 DEF IngressInv

\* A read takes something, at most a buffer, and not more than there is.
LEMMA PieceIs ==
  ASSUME IngressInv, Available > 0
  PROVE  /\ Piece \in Nat \ {0} /\ Piece <= Chunk
         /\ taken + Piece <= sent
  <1>1. Available \in Nat /\ Available <= sent - taken /\ Chunk \in Nat \ {0}
    BY SizesAre DEF IngressInv, TypeOK, Typed, Available
  <1> QED BY <1>1, MinOfTwo DEF Piece, IngressInv, Typed

----------------------------------------------------------------------------
(* The ways a step of the worker ends.                                     *)

\* A connection is closed without an answer.
LEMMA CloseKeeps ==
  ASSUME IngressInv, NEW cause \in Silent, Close(cause),
         cause = "too_large" => request.head > MaxHead
  PROVE  IngressInv'
  <1> USE DEF Close, clientVars, readVars, clockVars, sharedVars, writeVars
  <1>1. TypeOK' /\ Typed'
    BY PointsAre, StatusesAre DEF IngressInv, TypeOK, Typed, Silent
  <1>2. Decided' /\ HeadRead' /\ BodyRead'
    BY DEF Decided, HeadRead, BodyRead, Headed, InBody, Ending, Silent
  <1>3. BodyExact' /\ LimitsHonest'
    BY DEF BodyExact, LimitsHonest, Silent
  <1> QED BY <1>1, <1>2, <1>3 DEF IngressInv

\* An answer begins.
LEMMA AnswerKeeps ==
  ASSUME IngressInv, NEW what \in {"early", "408", "413", "answer"},
         NEW size \in {1, AnswerSize}, Answer(what, size),
         pc \in Headed \cup InBody,
         what = "answer" => pc = "route",
         what = "413" => request.length > MaxBody,
         what = "408" => pc \in InBody /\ Incomplete
  PROVE  IngressInv'
  <1> USE DEF Answer, clientVars, readVars, clockVars, sharedVars, writeVars
  <1>1. TypeOK' /\ Typed'
    <2>1. left' \in 0 .. AnswerSize /\ waited' \in 0 .. Max({HeadTimeout, WriteTimeout})
      BY SizesAre
    <2> QED BY <2>1, PointsAre, StatusesAre DEF IngressInv, TypeOK, Typed
  <1>2. Decided' /\ HeadRead' /\ BodyRead'
    BY DEF Decided, HeadRead, BodyRead, Headed, InBody, Ending
  <1>3. BodyExact'
    BY DEF BodyExact, IngressInv
  <1>4. LimitsHonest'
    <2>1. request.head <= MaxHead + Chunk
      BY DEF IngressInv, LimitsHonest, Headed, InBody
    <2>2. what = "408" => taken < Whole
      BY DEF IngressInv, BodyRead, Typed, Incomplete, Whole
    <2>3. what \in {"answer", "408"} => ~(request.length > MaxBody)
      BY SizesAre DEF IngressInv, BodyRead, Typed, InBody
    <2> QED BY <2>1, <2>2, <2>3 DEF LimitsHonest, Whole
  <1> QED BY <1>1, <1>2, <1>3, <1>4 DEF IngressInv

\* Nothing of what was read, and nothing of the client, changes; nor is anything decided.
LEMMA MovesKeep ==
  ASSUME IngressInv, TypeOK', status' = status, UNCHANGED <<request, sent, line, taken, body>>,
         \/ pc \in Headed /\ pc' \in Headed
         \/ pc \in InBody \ {"route"} /\ pc' \in InBody /\ (pc' = "route" => ~Incomplete)
         \/ pc \in Ending \ {"closed"} /\ pc' \in Ending
         \/ pc' = pc
  PROVE  IngressInv'
  <1>1. Typed'
    BY DEF IngressInv, Typed
  <1>2. Decided'
    BY DEF IngressInv, Decided, Headed, InBody, Ending
  <1>3. HeadRead'
    BY DEF IngressInv, HeadRead, Headed, InBody, Ending
  <1>4. BodyRead'
    BY DEF IngressInv, BodyRead, Typed, Headed, InBody, Ending, Incomplete, Whole
  <1>5. BodyExact'
    <2>1. CASE status = "answer"
      BY <2>1 DEF IngressInv, BodyExact
    <2>2. CASE status # "answer"
      <3> SUFFICES ASSUME pc' = "route"
                   PROVE  /\ body = request.length
                          /\ taken >= request.head + request.length
                          /\ taken - Chunk < request.head + request.length
        BY <2>2 DEF BodyExact
      <3>1. pc \in InBody
        BY DEF Headed, InBody, Ending
      <3> QED BY <3>1, <1>4 DEF IngressInv, BodyRead, Typed, InBody, Whole
    <2> QED BY <2>1, <2>2
  <1>6. LimitsHonest'
    BY DEF IngressInv, LimitsHonest, Headed, InBody, Ending
  <1> QED BY <1>1, <1>2, <1>3, <1>4, <1>5, <1>6 DEF IngressInv

----------------------------------------------------------------------------
(* The steps.                                                              *)

\* A read of the head stops at the blank line, or has not come to it.
LEMMA HeadBytesKeeps == ASSUME IngressInv, HeadBytes PROVE IngressInv'
  <1> USE DEF HeadBytes, clientVars, sharedVars, writeVars
  <1>1. /\ taken' \in Nat /\ taken' <= sent /\ taken' <= taken + Chunk /\ taken \in Nat /\ taken <= MaxHead
        /\ request.head \in Nat \ {0} /\ taken < request.head /\ status = "none"
        /\ Chunk \in Nat \ {0} /\ MaxHead \in Nat /\ sent \in Nat
    BY PieceIs, SizesAre DEF IngressInv, Typed, HeadRead, Decided, Ending
  <1>2. /\ pc' \in {"head", "parse"} /\ (pc' = "head" <=> ~(taken' >= request.head))
    OBVIOUS
  <1>3. TypeOK'
    <2>1. taken' \in 0 .. sent' /\ waited' \in 0 .. Max({HeadTimeout, WriteTimeout})
      BY <1>1, SizesAre
    <2> QED BY <1>2, <2>1, PointsAre DEF IngressInv, TypeOK
  <1>4. Typed' /\ Decided' /\ BodyRead' /\ BodyExact'
    BY <1>1, <1>2 DEF IngressInv, Typed, Decided, BodyRead, BodyExact, InBody, Ending
  <1>5. HeadRead'
    BY <1>1, <1>2 DEF HeadRead, Headed, InBody
  <1>6. LimitsHonest'
    BY <1>1, <1>2 DEF LimitsHonest
  <1> QED BY <1>3, <1>4, <1>5, <1>6 DEF IngressInv

\* The body's buffer begins with what came behind the head, up to its length.
LEMMA BodyBeginsKeeps == ASSUME IngressInv, BodyBegins PROVE IngressInv'
  <1> USE DEF BodyBegins, clientVars, sharedVars, writeVars
  <1>1. /\ taken \in Nat /\ request.head \in Nat \ {0} /\ request.length \in Nat
        /\ request.head <= taken /\ taken - Chunk < request.head /\ status = "none"
        /\ Chunk \in Nat \ {0}
    BY SizesAre DEF IngressInv, Typed, HeadRead, Decided, Headed, Ending
  <1>2. body' = IF taken - request.head <= request.length THEN taken - request.head ELSE request.length
    BY <1>1, MinOfTwo
  <1>3. TypeOK'
    <2>1. body' \in 0 .. request'.length /\ bodyAge' \in 0 .. BodyTimeout
      BY <1>1, <1>2, SizesAre
    <2> QED BY <2>1, PointsAre DEF IngressInv, TypeOK
  <1>4. Typed' /\ Decided' /\ HeadRead'
    BY <1>1, <1>2 DEF IngressInv, Typed, Decided, HeadRead, Headed, InBody, Ending
  <1>5. BodyRead'
    <2>1. taken - Chunk < request.head + request.length /\ request.length <= MaxBody
      BY <1>1
    <2>2. pc' = "body" /\ UNCHANGED <<request, taken>>
      OBVIOUS
    <2> HIDE DEF BodyBegins, clientVars
    <2> QED BY <1>2, <2>1, <2>2 DEF BodyRead, Whole
  <1>6. BodyExact' /\ LimitsHonest'
    BY <1>1 DEF IngressInv, BodyExact, LimitsHonest
  <1> QED BY <1>3, <1>4, <1>5, <1>6 DEF IngressInv

\* A read of the body is begun only while something of it is missing.
LEMMA BodyBytesKeeps == ASSUME IngressInv, BodyBytes PROVE IngressInv'
  <1> USE DEF BodyBytes, clientVars, clockVars, sharedVars, writeVars
  <1>1. /\ taken \in Nat /\ request.head \in Nat \ {0} /\ request.length \in Nat
        /\ request.head <= taken /\ status = "none" /\ pc \in InBody
        /\ Chunk \in Nat \ {0} /\ Piece \in Nat \ {0} /\ Piece <= Chunk
        /\ taken + Piece <= sent /\ sent \in Nat
    BY SizesAre, PieceIs DEF IngressInv, Typed, HeadRead, Decided, InBody, Ending
  <1>2. body = taken - request.head /\ body < request.length
    BY <1>1 DEF IngressInv, BodyRead, Incomplete
  <1>3. /\ taken' = taken + Piece /\ pc' = "body"
        /\ body' = IF taken' - request.head <= request.length THEN taken' - request.head
                   ELSE request.length
    BY <1>1, <1>2, MinOfTwo
  <1>4. TypeOK'
    <2>1. taken' \in 0 .. sent
      BY <1>1, <1>3
    <2>2. body' \in 0 .. request.length
      BY <1>1, <1>3
    <2> QED BY <2>1, <2>2, PointsAre DEF IngressInv, TypeOK
  <1>5. Typed' /\ Decided' /\ HeadRead'
    BY <1>1, <1>3 DEF IngressInv, Typed, Decided, HeadRead, Headed, InBody, Ending
  <1>6. BodyRead'
    BY <1>1, <1>2, <1>3 DEF IngressInv, BodyRead, Whole
  <1>7. BodyExact' /\ LimitsHonest'
    BY <1>1, <1>3 DEF IngressInv, BodyExact, LimitsHonest, InBody
  <1> QED BY <1>4, <1>5, <1>6, <1>7 DEF IngressInv

LEMMA HeadKeeps == ASSUME IngressInv, Head \/ HeadInterrupted PROVE IngressInv'
  <1>1. CASE HeadTooLarge
    <2>1. request.head > MaxHead
      BY <1>1, SizesAre DEF HeadTooLarge, IngressInv, HeadRead, Typed
    <2> QED BY <1>1, <2>1, CloseKeeps DEF HeadTooLarge, Silent
  <1>2. CASE HeadEnds \/ HeadTimesOut \/ HeadInterrupted
    BY <1>2, CloseKeeps DEF HeadEnds, HeadTimesOut, HeadInterrupted, Silent
  <1>3. CASE Parse
    <2>1. CASE request.kind = "malformed"
      BY <1>3, <2>1, CloseKeeps DEF Parse, Silent
    <2>2. CASE request.kind # "malformed"
      <3> USE DEF Parse, clientVars, readVars, clockVars, sharedVars, writeVars
      <3>1. TypeOK'
        BY <1>3, <2>2, PointsAre DEF IngressInv, TypeOK
      <3> QED BY <1>3, <2>2, <3>1, MovesKeep DEF Headed
    <2> QED BY <2>1, <2>2
  <1> QED BY <1>1, <1>2, <1>3, HeadBytesKeeps DEF Head

LEMMA AdmissionKeeps ==
  ASSUME IngressInv, AnswerEarly \/ AdmitChat \/ StartWatcher \/ WatcherBegins PROVE IngressInv'
  <1> USE DEF clientVars, readVars, clockVars, sharedVars, writeVars
  <1>1. CASE AnswerEarly
    BY <1>1, AnswerKeeps DEF AnswerEarly, Headed
  <1>2. CASE AdmitChat \/ StartWatcher \/ WatcherBegins
    <2>1. TypeOK'
      BY <1>2, PointsAre DEF AdmitChat, StartWatcher, WatcherBegins, IngressInv, TypeOK
    <2> QED BY <1>2, <2>1, MovesKeep DEF AdmitChat, StartWatcher, WatcherBegins, Headed
  <1> QED BY <1>1, <1>2

LEMMA BodyKeeps == ASSUME IngressInv, Body \/ BodyInterrupted \/ Route PROVE IngressInv'
  <1> USE DEF clientVars, readVars, clockVars, sharedVars, writeVars
  <1>1. CASE BodyTooLarge
    BY <1>1, AnswerKeeps DEF BodyTooLarge, Headed
  <1>2. CASE BodyWouldBlock \/ BodyTimesOut \/ BodyEnds
    BY <1>2, AnswerKeeps DEF BodyWouldBlock, BodyTimesOut, BodyEnds, InBody
  <1>3. CASE Route
    BY <1>3, AnswerKeeps DEF Route, InBody
  <1>4. CASE BodyBlocks \/ BodyInterrupted \/ BodyWhole
    <2>1. TypeOK'
      BY <1>4, PointsAre DEF BodyBlocks, BodyInterrupted, BodyWhole, IngressInv, TypeOK
    <2>2. pc \in InBody \ {"route"} /\ pc' \in InBody /\ (pc' = "route" => ~Incomplete)
      BY <1>4 DEF BodyBlocks, BodyInterrupted, BodyWhole, InBody
    <2> QED BY <1>4, <2>1, <2>2, MovesKeep DEF BodyBlocks, BodyInterrupted, BodyWhole
  <1> QED BY <1>1, <1>2, <1>3, <1>4, BodyBeginsKeeps, BodyBytesKeeps DEF Body

LEMMA WritingKeeps ==
  ASSUME IngressInv, Write \/ WriteBlocks \/ WriteStops \/ Hangup \/ Drain PROVE IngressInv'
  <1> USE DEF clientVars, readVars, clockVars, sharedVars, writeVars
  <1>1. CASE Write
    <2>1. /\ left' \in 0 .. AnswerSize /\ outbox' \in 0 .. SendBuffer
          /\ waited' \in 0 .. Max({HeadTimeout, WriteTimeout})
      BY <1>1, SizesAre DEF Write, Full, IngressInv, TypeOK
    <2>2. TypeOK'
      BY <1>1, <2>1, PointsAre DEF Write, IngressInv, TypeOK
    <2> QED BY <1>1, <2>2, MovesKeep DEF Write, Writing, Ending
  <1>2. CASE WriteBlocks \/ WriteStops \/ Hangup
    <2>1. TypeOK'
      BY <1>2, PointsAre DEF WriteBlocks, WriteStops, Hangup, IngressInv, TypeOK
    <2>2. pc \in Ending \ {"closed"} /\ pc' \in Ending
      BY <1>2 DEF WriteBlocks, WriteStops, Hangup, Writing, Ending
    <2> QED BY <1>2, <2>1, <2>2, MovesKeep DEF WriteBlocks, WriteStops, Hangup
  <1>3. CASE Drain
    <2>1. outbox' \in 0 .. SendBuffer
      BY <1>3, SizesAre DEF Drain, IngressInv, TypeOK
    <2>2. TypeOK'
      BY <1>3, <2>1 DEF Drain, IngressInv, TypeOK
    <2> QED BY <1>3, <2>2, MovesKeep DEF Drain
  <1> QED BY <1>1, <1>2, <1>3

LEMMA TickKeeps == ASSUME IngressInv, Tick PROVE IngressInv'
  <1> USE DEF clientVars, readVars, clockVars, sharedVars, writeVars
  <1>1. waited' \in 0 .. Max({HeadTimeout, WriteTimeout}) /\ bodyAge' \in 0 .. BodyTimeout
    BY SizesAre DEF Tick, Limit, IngressInv, TypeOK
  <1>2. TypeOK'
    BY <1>1 DEF Tick, IngressInv, TypeOK
  <1> QED BY <1>2, MovesKeep DEF Tick

\* The client sends or leaves: what was read stays read.
LEMMA ClientKeeps == ASSUME IngressInv, Send \/ Leave PROVE IngressInv'
  <1> USE DEF Send, Leave, readVars, clockVars, sharedVars, writeVars
  <1>1. /\ sent' \in Nat /\ sent <= sent' /\ sent' <= request.head + request.body
        /\ line' \in {"open", "finished", "reset"}
        /\ UNCHANGED <<pc, request, taken, body, waited, bodyAge, nonblocking, watcher, status,
                       left, outbox>>
    BY DEF IngressInv, TypeOK, Typed
  <1>2. TypeOK' /\ Typed'
    <2>1. taken' \in 0 .. sent'
      BY <1>1 DEF IngressInv, Typed, TypeOK
    <2> QED BY <1>1, <2>1 DEF IngressInv, TypeOK, Typed
  <1>3. Decided' /\ HeadRead' /\ BodyRead'
    BY <1>1 DEF IngressInv, Decided, HeadRead, BodyRead, Whole
  <1>4. BodyExact' /\ LimitsHonest'
    BY <1>1 DEF IngressInv, BodyExact, LimitsHonest
  <1> QED BY <1>2, <1>3, <1>4 DEF IngressInv

----------------------------------------------------------------------------
(***************************************************************************)
(* The invariant, for every request, every limit and every way to cut the  *)
(* bytes into reads.                                                       *)
(***************************************************************************)
THEOREM IngressInvariant == Spec => []IngressInv
  <1>1. IngressInv /\ [Next]_vars => IngressInv'
    <2> SUFFICES ASSUME IngressInv, [Next]_vars PROVE IngressInv'
      OBVIOUS
    <2>1. CASE UNCHANGED vars
      <3>1. TypeOK'
        BY <2>1 DEF vars, clientVars, readVars, clockVars, sharedVars, writeVars, IngressInv, TypeOK
      <3> QED BY <2>1, <3>1, MovesKeep DEF vars, clientVars, readVars
    <2> QED BY <2>1, HeadKeeps, AdmissionKeeps, BodyKeeps, WritingKeeps, TickKeeps, ClientKeeps
        DEF Next, Worker, Signal, Client
  <1> QED BY <1>1, InitIngressInv, PTL DEF Spec

\* The types, and that no counter passes its bound.
THEOREM IngressTypeCorrect == Spec => []TypeOK
  BY IngressInvariant, PTL DEF IngressInv

\* The router gets the announced body, whole and alone.
THEOREM BodiesAreExact == Spec => []BodyExact
  BY IngressInvariant, PTL DEF IngressInv

\* 413 and 408 and the silent refusal of a head are for what they say.
THEOREM LimitsAreHonest == Spec => []LimitsHonest
  BY IngressInvariant, PTL DEF IngressInv

----------------------------------------------------------------------------
(***************************************************************************)
(* The work of one connection.  Its reads and writes are bounded by the    *)
(* limits alone: neither a client that sends a byte at a time nor one that *)
(* drains a byte at a time makes the worker do more than this, and none    *)
(* can make it turn without taking or giving something.                    *)
(***************************************************************************)

\* The most steps of an answer, from before its first write on.
AnswerWork == 2 * AnswerSize + 4

\* The most steps of the worker to the end of the connection, from a point at which
\* it has read some bytes of the head, misses some of the body and owes some of the
\* answer.  A read or a write may find that it has to wait, and counts twice.
Work(at, read, missing, owed) ==
  CASE at = "closed"        -> 0
    [] at = "written"       -> 1
    [] at = "write_blocked" -> 2 * owed + 2
    [] at = "write"         -> 2 * owed + 3
    [] at = "route"         -> AnswerWork
    [] at = "body_blocked"  -> AnswerWork + 2 * missing
    [] at = "body"          -> AnswerWork + 2 * missing + 1
    [] at = "measure"       -> AnswerWork + 2 * MaxBody + 2
    [] at = "watch"         -> AnswerWork + 2 * MaxBody + 3
    [] at = "admit"         -> AnswerWork + 2 * MaxBody + 4
    [] at = "parse"         -> AnswerWork + 2 * MaxBody + 5
    [] at = "head"          -> AnswerWork + 2 * MaxBody + 6
                                 + IF read > MaxHead THEN 0 ELSE MaxHead + 1 - read

WorkLeft == Work(pc, taken, request.length - body, left)

\* Only a signal that interrupts a read of the body makes the worker read again.
Worked ==
  /\ Worker \/ HeadInterrupted => WorkLeft' < WorkLeft
  /\ BodyInterrupted => WorkLeft' = WorkLeft + 1
  /\ WatcherBegins \/ Client \/ Tick => WorkLeft' = WorkLeft

\* An answer is at least one write.
LEMMA AnswerWorkIs == AnswerWork \in Nat /\ AnswerWork >= 6 /\ AnswerWork = 2 * AnswerSize + 4
  BY SizesAre DEF AnswerWork

\* The numbers that the work is counted from.
LEMMA WorkSizes ==
  ASSUME IngressInv
  PROVE  /\ taken \in Nat /\ left \in Nat /\ left <= AnswerSize
         /\ request.length - body \in Nat
         /\ pc \in InBody => request.length - body <= MaxBody
  BY SizesAre DEF IngressInv, TypeOK, Typed, BodyRead

\* It is bounded by the limits, and nothing is left exactly at the end.
LEMMA WorkBounds ==
  ASSUME NEW at \in Points, NEW read \in Nat, NEW missing \in Nat, NEW owed \in Nat,
         owed <= AnswerSize, at \in InBody => missing <= MaxBody
  PROVE  /\ Work(at, read, missing, owed) \in 0 .. AnswerWork + 2 * MaxBody + MaxHead + 7
         /\ Work(at, read, missing, owed) = 0 <=> at = "closed"
  <1> DEFINE work  == Work(at, read, missing, owed)
             Bound == /\ work \in 0 .. AnswerWork + 2 * MaxBody + MaxHead + 7
                      /\ work = 0 <=> at = "closed"
  <1>1. /\ AnswerWork \in Nat /\ AnswerWork >= 6 /\ AnswerWork = 2 * AnswerSize + 4
        /\ MaxBody \in Nat /\ MaxHead \in Nat /\ AnswerSize \in Nat
    BY AnswerWorkIs, SizesAre
  <1>2. ASSUME at \in Ending PROVE Bound
    <2>1. \/ at = "closed" /\ work = 0
          \/ at # "closed" /\ work \in {1, 2 * owed + 2, 2 * owed + 3}
      BY <1>2 DEF Work, Ending
    <2> HIDE DEF work
    <2> QED BY <1>1, <2>1
  <1>3. ASSUME at \in InBody PROVE Bound
    <2>1. work \in {AnswerWork, AnswerWork + 2 * missing, AnswerWork + 2 * missing + 1}
      BY <1>3 DEF Work, InBody
    <2>2. at # "closed" /\ missing <= MaxBody
      BY <1>3 DEF InBody
    <2> HIDE DEF work
    <2> QED BY <1>1, <2>1, <2>2
  <1>4. ASSUME at \in Headed PROVE Bound
    <2>1. work \in {AnswerWork + 2 * MaxBody + 2, AnswerWork + 2 * MaxBody + 3,
                    AnswerWork + 2 * MaxBody + 4, AnswerWork + 2 * MaxBody + 5}
      BY <1>4 DEF Work, Headed
    <2>2. at # "closed"
      BY <1>4 DEF Headed
    <2> HIDE DEF work
    <2> QED BY <1>1, <2>1, <2>2
  <1>5. ASSUME at = "head" PROVE Bound
    <2>1. work = AnswerWork + 2 * MaxBody + 6 + (IF read > MaxHead THEN 0 ELSE MaxHead + 1 - read)
      BY <1>5 DEF Work
    <2> HIDE DEF work
    <2> QED BY <1>1, <1>5, <2>1
  <1>6. Bound
    BY <1>2, <1>3, <1>4, <1>5, PointsAre DEF Ending, InBody, Headed
  <1> QED BY <1>6

\* So it is in every state of a connection.
LEMMA WorkHolds ==
  ASSUME IngressInv
  PROVE  /\ WorkLeft \in 0 .. AnswerWork + 2 * MaxBody + MaxHead + 7
         /\ WorkLeft = 0 <=> pc = "closed"
  <1>1. pc \in Points
    BY DEF IngressInv, TypeOK
  <1> QED BY <1>1, WorkSizes, WorkBounds DEF WorkLeft

----------------------------------------------------------------------------
(* The steps, by the way they end.                                         *)

\* A connection that is closed has no work left.
LEMMA CloseWorks ==
  ASSUME IngressInv, NEW cause, Close(cause), pc # "closed"
  PROVE  WorkLeft' < WorkLeft
  <1>1. WorkLeft' = 0
    BY DEF WorkLeft, Work, Close
  <1>2. WorkLeft \in Nat /\ WorkLeft # 0
    BY WorkHolds, AnswerWorkIs, SizesAre
  <1> QED BY <1>1, <1>2

\* An answer is less work than whatever was before it.
LEMMA AnswerWorks ==
  ASSUME IngressInv, NEW what, NEW size \in {1, AnswerSize}, Answer(what, size),
         pc \in {"admit", "measure", "body", "body_blocked", "route"}
  PROVE  WorkLeft' < WorkLeft
  <1>1. WorkLeft' = 2 * size + 3
    BY DEF WorkLeft, Work, Answer
  <1>2. WorkLeft \in Int /\ WorkLeft >= AnswerWork
    BY WorkSizes, AnswerWorkIs, SizesAre DEF WorkLeft, Work
  <1> QED BY <1>1, <1>2, AnswerWorkIs, SizesAre

\* The worker's place changes and nothing that the work is counted from.
LEMMA MovesOn ==
  ASSUME IngressInv, NEW to, pc' = to, UNCHANGED <<clientVars, readVars, writeVars>>
  PROVE  WorkLeft' = Work(to, taken, request.length - body, left)
  BY DEF WorkLeft, clientVars, readVars, writeVars

\* A read of the head takes at least one byte.
LEMMA HeadBytesWork ==
  ASSUME IngressInv, HeadBytes
  PROVE  WorkLeft' < WorkLeft
  <1>1. /\ taken' = taken + Piece /\ Piece \in Nat \ {0} /\ taken <= MaxHead
        /\ request.length - body \in Nat /\ left \in Nat /\ taken \in Nat /\ taken' \in Nat
    BY PieceIs, WorkSizes DEF HeadBytes
  <1>2. WorkLeft = AnswerWork + 2 * MaxBody + 7 + (MaxHead - taken)
    BY <1>1, AnswerWorkIs, SizesAre DEF WorkLeft, Work, HeadBytes
  <1>3. pc' \in {"parse", "head"} /\ WorkLeft' = Work(pc', taken', request.length - body, left)
    BY DEF WorkLeft, HeadBytes, clientVars, writeVars
  <1>4. CASE pc' = "parse"
    <2>1. WorkLeft' = AnswerWork + 2 * MaxBody + 5
      BY <1>1, <1>3, <1>4, AnswerWorkIs, SizesAre DEF Work
    <2> QED BY <1>1, <1>2, <2>1, AnswerWorkIs, SizesAre
  <1>5. CASE pc' = "head" /\ taken' > MaxHead
    <2>1. WorkLeft' = AnswerWork + 2 * MaxBody + 6
      BY <1>1, <1>3, <1>5, AnswerWorkIs, SizesAre DEF Work
    <2> QED BY <1>1, <1>2, <2>1, AnswerWorkIs, SizesAre
  <1>6. CASE pc' = "head" /\ taken' <= MaxHead
    <2>1. WorkLeft' = AnswerWork + 2 * MaxBody + 7 + (MaxHead - taken')
      BY <1>1, <1>3, <1>6, AnswerWorkIs, SizesAre DEF Work
    <2> QED BY <1>1, <1>2, <2>1, AnswerWorkIs, SizesAre
  <1> QED BY <1>1, <1>3, <1>4, <1>5, <1>6, SizesAre

\* A read of the body puts at least one byte into the buffer.
LEMMA BodyBytesWork ==
  ASSUME IngressInv, BodyBytes
  PROVE  WorkLeft' < WorkLeft
  <1> DEFINE missing == request.length - body
             more    == Min({Piece, missing})
  <1>1. Piece \in Nat \ {0} /\ missing \in Nat \ {0} /\ taken \in Nat /\ left \in Nat
    BY PieceIs, WorkSizes DEF BodyBytes, Incomplete, IngressInv, Typed
  <1>2. more \in Nat \ {0} /\ more <= missing
    <2> HIDE DEF missing
    <2> QED BY <1>1, MinOfTwo
  <1>3. missing' = missing - more
    BY <1>1, <1>2 DEF BodyBytes, clientVars, IngressInv, Typed
  <1>4. WorkLeft \in {AnswerWork + 2 * missing, AnswerWork + 2 * missing + 1}
    <2> HIDE DEF missing
    <2> QED BY <1>1 DEF WorkLeft, Work, BodyBytes, missing
  <1>5. WorkLeft' = AnswerWork + 2 * missing' + 1
    <2>1. taken' \in Nat /\ missing' \in Nat /\ left' \in Nat /\ pc' = "body"
      BY <1>1, <1>2, <1>3 DEF BodyBytes, writeVars
    <2>2. WorkLeft' = Work("body", taken', missing', left')
      BY <2>1 DEF WorkLeft
    <2> HIDE DEF missing
    <2> QED BY <2>1, <2>2 DEF Work
  <1> HIDE DEF missing, more
  <1> QED BY <1>1, <1>2, <1>3, <1>4, <1>5, AnswerWorkIs

\* Each step of the worker, and the interrupted read of a head, leaves less to do.
LEMMA WorkerWorks ==
  ASSUME IngressInv, Worker \/ HeadInterrupted
  PROVE  WorkLeft' < WorkLeft
  <1>1. /\ AnswerWork \in Nat /\ AnswerWork >= 6 /\ AnswerWork = 2 * AnswerSize + 4
        /\ MaxBody \in Nat /\ MaxHead \in Nat
        /\ taken \in Nat /\ left \in Nat /\ request.length - body \in Nat
    BY AnswerWorkIs, SizesAre, WorkSizes
  <1>2. CASE HeadBytes \/ BodyBytes
    BY <1>2, HeadBytesWork, BodyBytesWork
  <1>3. CASE HeadTooLarge \/ HeadEnds \/ HeadTimesOut \/ HeadInterrupted
    BY <1>3, CloseWorks DEF HeadTooLarge, HeadEnds, HeadTimesOut, HeadInterrupted
  <1>4. CASE Parse
    <2>1. CASE Close("malformed")
      BY <1>4, <2>1, CloseWorks DEF Parse
    <2>2. CASE pc' = "admit" /\ UNCHANGED <<clientVars, readVars, writeVars>>
      <3>1. WorkLeft' = AnswerWork + 2 * MaxBody + 4
        BY <2>2, MovesOn DEF Work
      <3>2. WorkLeft = AnswerWork + 2 * MaxBody + 5
        BY <1>4 DEF Parse, WorkLeft, Work
      <3> QED BY <1>1, <3>1, <3>2
    <2> QED BY <1>4, <2>1, <2>2 DEF Parse
  <1>5. CASE AnswerEarly \/ BodyTooLarge \/ BodyWouldBlock \/ BodyTimesOut \/ BodyEnds \/ Route
    BY <1>5, AnswerWorks
    DEF AnswerEarly, BodyTooLarge, BodyWouldBlock, BodyTimesOut, BodyEnds, Route
  <1>6. CASE AdmitChat
    <2>1. WorkLeft' = AnswerWork + 2 * MaxBody + 3
      BY <1>6, MovesOn DEF AdmitChat, Work
    <2>2. WorkLeft = AnswerWork + 2 * MaxBody + 4
      BY <1>6 DEF AdmitChat, WorkLeft, Work
    <2> QED BY <1>1, <2>1, <2>2
  <1>7. CASE StartWatcher
    <2>1. WorkLeft' = AnswerWork + 2 * MaxBody + 2
      BY <1>7, MovesOn DEF StartWatcher, Work
    <2>2. WorkLeft = AnswerWork + 2 * MaxBody + 3
      BY <1>7 DEF StartWatcher, WorkLeft, Work
    <2> QED BY <1>1, <2>1, <2>2
  <1>8. CASE BodyBegins
    <2>1. WorkLeft = AnswerWork + 2 * MaxBody + 2
      BY <1>8 DEF BodyBegins, WorkLeft, Work
    <2>2. body' \in Nat /\ body' <= request.length /\ request.length <= MaxBody
      BY <1>8, BodyBeginsKeeps DEF BodyBegins, clientVars, IngressInv, TypeOK, Typed
    <2>3. WorkLeft' = AnswerWork + 2 * (request.length - body') + 1
      BY <1>8 DEF BodyBegins, WorkLeft, Work, clientVars
    <2>4. request.length - body' \in Nat /\ request.length - body' <= MaxBody
      BY <1>1, <2>2 DEF IngressInv, Typed
    <2> QED BY <1>1, <2>1, <2>3, <2>4
  <1>9. CASE BodyBlocks
    <2>1. WorkLeft' = AnswerWork + 2 * (request.length - body)
      BY <1>9, MovesOn DEF BodyBlocks, Work
    <2>2. WorkLeft = AnswerWork + 2 * (request.length - body) + 1
      BY <1>9 DEF BodyBlocks, WorkLeft, Work
    <2> QED BY <1>1, <2>1, <2>2
  <1>10. CASE BodyWhole
    <2>1. WorkLeft' = AnswerWork
      BY <1>10, MovesOn DEF BodyWhole, Work
    <2>2. WorkLeft = AnswerWork + 2 * (request.length - body) + 1
      BY <1>10 DEF BodyWhole, WorkLeft, Work
    <2> QED BY <1>1, <2>1, <2>2
  <1>11. CASE Write
    <2>1. WorkLeft' = 2 * (left - 1) + 3
      BY <1>11 DEF Write, WorkLeft, Work
    <2>2. WorkLeft \in {2 * left + 2, 2 * left + 3}
      BY <1>11 DEF Write, Writing, WorkLeft, Work
    <2> QED BY <1>1, <2>1, <2>2
  <1>12. CASE WriteBlocks
    <2>1. WorkLeft' = 2 * left + 2
      BY <1>12, MovesOn DEF WriteBlocks, Work
    <2>2. WorkLeft = 2 * left + 3
      BY <1>12 DEF WriteBlocks, WorkLeft, Work
    <2> QED BY <1>1, <2>1, <2>2
  <1>13. CASE WriteStops
    <2>1. WorkLeft' = 1
      BY <1>13, MovesOn DEF WriteStops, Work
    <2>2. WorkLeft \in {2 * left + 2, 2 * left + 3}
      BY <1>13 DEF WriteStops, Writing, WorkLeft, Work
    <2> QED BY <1>1, <2>1, <2>2
  <1>14. CASE Hangup
    <2>1. WorkLeft' = 0
      BY <1>14, MovesOn DEF Hangup, Work
    <2>2. WorkLeft = 1
      BY <1>14 DEF Hangup, WorkLeft, Work
    <2> QED BY <2>1, <2>2
  <1> QED
    BY <1>2, <1>3, <1>4, <1>5, <1>6, <1>7, <1>8, <1>9, <1>10, <1>11, <1>12, <1>13, <1>14
    DEF Worker, Head, Body

\* serve_connection does a bounded number of reads and writes for one connection, the
\* bound a sum of the limits: read_http_head, read_http_body and the writes each take
\* or give at least a byte, or wait, or end.  What the client, the clock and the watcher
\* do adds nothing to it, and a signal adds the one read that it interrupts.
THEOREM WorkIsBounded ==
  /\ Spec => [](WorkLeft \in 0 .. AnswerWork + 2 * MaxBody + MaxHead + 7)
  /\ Spec => [](WorkLeft = 0 <=> pc = "closed")
  /\ Spec => [][Worked]_vars
  <1>1. IngressInv => /\ WorkLeft \in 0 .. AnswerWork + 2 * MaxBody + MaxHead + 7
                      /\ WorkLeft = 0 <=> pc = "closed"
    BY WorkHolds
  <1>2. IngressInv /\ [Next]_vars => [Worked]_vars
    <2> SUFFICES ASSUME IngressInv PROVE Worked
      OBVIOUS
    <2>1. Worker \/ HeadInterrupted => WorkLeft' < WorkLeft
      BY WorkerWorks
    <2>2. BodyInterrupted => WorkLeft' = WorkLeft + 1
      <3> SUFFICES ASSUME BodyInterrupted PROVE WorkLeft' = WorkLeft + 1
        OBVIOUS
      <3>1. WorkLeft' = AnswerWork + 2 * (request.length - body) + 1
        BY MovesOn DEF BodyInterrupted, Work
      <3>2. WorkLeft = AnswerWork + 2 * (request.length - body)
        BY DEF BodyInterrupted, WorkLeft, Work
      <3> QED BY <3>1, <3>2, AnswerWorkIs, WorkSizes
    <2>3. WatcherBegins \/ Client \/ Tick => WorkLeft' = WorkLeft
      <3>1. WatcherBegins \/ Client \/ Tick => UNCHANGED <<pc, request, taken, body, left>>
        BY DEF WatcherBegins, Client, Send, Leave, Drain, Tick, clientVars, readVars, writeVars
      <3> QED BY <3>1 DEF WorkLeft
    <2> QED BY <2>1, <2>2, <2>3 DEF Worked
  <1> QED BY <1>1, <1>2, IngressInvariant, PTL DEF Spec

============================================================================
