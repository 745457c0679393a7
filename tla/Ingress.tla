------------------------------ MODULE Ingress ------------------------------
(***************************************************************************)
(* One connection's bytes, from the first of the head to the last of the   *)
(* answer: read_http_head, the watcher's O_NONBLOCK, read_http_body and the *)
(* writes, of serve_connection (server.rs).  The client sends, pauses,     *)
(* finishes, resets and drains as it likes, in pieces of any size.         *)
(*                                                                         *)
(* Bytes are counted, in units of which Chunk fill the buffer of one read; *)
(* a head is all that comes up to and with its blank line.  Time is counted *)
(* in ticks, by the timers that run.                                       *)
(***************************************************************************)
EXTENDS Naturals, FiniteSetsExt

CONSTANTS
  Requests,      \* what clients send: records of kind, head, length and body
  MaxHead,       \* MAX_HTTP_HEADER_BYTES
  MaxBody,       \* MAX_REQUEST_BODY_BYTES
  Chunk,         \* the buffer of a read
  HeadTimeout,   \* SOCKET_HEADER_TIMEOUT
  BodyTimeout,   \* REQUEST_BODY_TIMEOUT
  WriteTimeout,  \* SOCKET_WRITE_TIMEOUT
  SendBuffer,    \* what the kernel takes before the client drains it
  AnswerSize     \* an answer that may be larger than that

ASSUME IngressAssumption ==
  /\ Requests \subseteq [kind : {"malformed", "other", "chat"},
                         head : Nat \ {0}, length : Nat, body : Nat]
  /\ {MaxHead, MaxBody} \subseteq Nat
  /\ {Chunk, HeadTimeout, BodyTimeout, WriteTimeout, SendBuffer, AnswerSize} \subseteq Nat \ {0}

VARIABLES
  pc,            \* the worker's place
  request,       \* what this client is about to send
  sent,          \* how much of it the kernel has
  line,          \* the client's side: open, finished or reset
  taken,         \* how much of it the worker has read
  body,          \* the length of read_http_body's buffer
  waited,        \* ticks that the present read of the head, or write, has blocked
  bodyAge,       \* ticks since the body's deadline was set
  nonblocking,   \* O_NONBLOCK of the description that worker and watcher share
  watcher,       \* the watcher's thread
  status,        \* what becomes of the request
  left,          \* what is to be written of the answer
  outbox         \* what the kernel has of it and the client has not

clientVars == <<request, sent, line>>
readVars   == <<taken, body>>
clockVars  == <<waited, bodyAge>>
sharedVars == <<nonblocking, watcher>>
writeVars  == <<left, outbox>>
vars == <<pc, clientVars, readVars, clockVars, sharedVars, status, writeVars>>

Reading == {"head", "body", "body_blocked"}
Writing == {"write", "write_blocked"}
Points  == Reading \cup Writing \cup {"parse", "admit", "watch", "measure", "route",
                                      "written", "closed"}

\* Ends without an answer, and answers.
Silent   == {"too_large", "late", "gone", "interrupted", "malformed"}
Statuses == {"none", "early", "408", "413", "answer"} \cup Silent

TypeOK ==
  /\ pc \in Points /\ status \in Statuses
  /\ request \in Requests
  /\ line \in {"open", "finished", "reset"}
  /\ taken \in 0..sent /\ sent <= request.head + request.body
  /\ body \in 0..request.length
  /\ waited \in 0..Max({HeadTimeout, WriteTimeout}) /\ bodyAge \in 0..BodyTimeout
  /\ nonblocking \in BOOLEAN /\ watcher \in {"off", "starting", "watching"}
  /\ left \in 0..AnswerSize /\ outbox \in 0..SendBuffer

Init ==
  /\ pc = "head" /\ status = "none"
  /\ request \in Requests
  /\ sent = 0 /\ line = "open"
  /\ taken = 0 /\ body = 0
  /\ waited = 0 /\ bodyAge = 0
  /\ nonblocking = FALSE /\ watcher = "off"
  /\ left = 0 /\ outbox = 0

----------------------------------------------------------------------------
(* What a read finds.                                                      *)
Available == IF line = "reset" THEN 0 ELSE sent - taken
Silence   == Available = 0 /\ line = "open"
Ended     == Available = 0 /\ line # "open"
Piece     == Min({Chunk, Available})

Close(cause) ==
  /\ pc' = "closed" /\ status' = cause
  /\ UNCHANGED <<clientVars, readVars, clockVars, sharedVars, writeVars>>

Answer(what, size) ==
  /\ pc' = "write" /\ status' = what
  /\ left' = size /\ waited' = 0
  /\ UNCHANGED <<clientVars, readVars, bodyAge, sharedVars, outbox>>

----------------------------------------------------------------------------
(***************************************************************************)
(* read_http_head: the limit is looked at before each read, and every read *)
(* may block for the whole timeout.  An interrupted one is an error here.  *)
(***************************************************************************)
\* Mutant: refused already when the next read might go beyond the limit.
HeadTooLargeEarly == pc = "head" /\ taken + Chunk > MaxHead /\ Close("too_large")

HeadTooLarge == pc = "head" /\ taken > MaxHead /\ Close("too_large")

HeadBytes ==
  /\ pc = "head" /\ taken <= MaxHead /\ Available > 0
  /\ taken' = taken + Piece
  /\ waited' = 0
  /\ pc' = IF taken' >= request.head THEN "parse" ELSE "head"
  /\ UNCHANGED <<clientVars, body, bodyAge, sharedVars, status, writeVars>>

HeadEnds == pc = "head" /\ taken <= MaxHead /\ Ended /\ Close("gone")

HeadTimesOut ==
  /\ pc = "head" /\ taken <= MaxHead /\ Silence
  /\ waited = HeadTimeout
  /\ Close("late")

HeadInterrupted == pc = "head" /\ taken <= MaxHead /\ Silence /\ Close("interrupted")

\* parse_http_head, and socket_admit: all but a chat with a permit is answered now.
Parse ==
  /\ pc = "parse"
  /\ IF request.kind = "malformed"
     THEN Close("malformed")
     ELSE /\ pc' = "admit"
          /\ UNCHANGED <<clientVars, readVars, clockVars, sharedVars, status, writeVars>>

AnswerEarly == pc = "admit" /\ Answer("early", 1)

AdmitChat ==
  /\ pc = "admit" /\ request.kind = "chat"
  /\ pc' = "watch"
  /\ UNCHANGED <<clientVars, readVars, clockVars, sharedVars, status, writeVars>>

----------------------------------------------------------------------------
(***************************************************************************)
(* DisconnectWatcher::start: a clone of the socket, which may fail, has a  *)
(* descriptor of its own but shares the description, and so the flag.      *)
(***************************************************************************)
StartWatcher ==
  /\ pc = "watch"
  /\ pc' = "measure"
  /\ watcher' \in {"starting", "off"}
  /\ UNCHANGED <<clientVars, readVars, clockVars, nonblocking, status, writeVars>>

\* set_nonblocking, whose failure is ignored.
WatcherBegins ==
  /\ watcher = "starting"
  /\ watcher' = "watching"
  /\ nonblocking' \in {TRUE, nonblocking}
  /\ UNCHANGED <<pc, clientVars, readVars, clockVars, status, writeVars>>

----------------------------------------------------------------------------
(* read_http_body.                                                         *)
BodyTooLarge == pc = "measure" /\ request.length > MaxBody /\ Answer("413", 1)

\* Mutant: all of it, though it may be more than the body.
BodyBeginsUncut ==
  /\ pc = "measure" /\ request.length <= MaxBody
  /\ body' = taken - request.head
  /\ bodyAge' = 0
  /\ pc' = "body"
  /\ UNCHANGED <<clientVars, taken, waited, sharedVars, status, writeVars>>

\* What was read behind the blank line is the beginning of the body.
BodyBegins ==
  /\ pc = "measure" /\ request.length <= MaxBody
  /\ body' = Min({taken - request.head, request.length})
  /\ bodyAge' = 0
  /\ pc' = "body"
  /\ UNCHANGED <<clientVars, taken, waited, sharedVars, status, writeVars>>

Incomplete == body < request.length

\* Mutant: the last read is taken whole.
BodyBytesUncut ==
  /\ pc \in {"body", "body_blocked"} /\ Incomplete
  /\ pc = "body" => bodyAge < BodyTimeout
  /\ Available > 0
  /\ taken' = taken + Piece
  /\ body' = body + Piece
  /\ pc' = "body"
  /\ UNCHANGED <<clientVars, clockVars, sharedVars, status, writeVars>>

BodyBytes ==
  /\ pc \in {"body", "body_blocked"} /\ Incomplete
  /\ pc = "body" => bodyAge < BodyTimeout
  /\ Available > 0
  /\ taken' = taken + Piece
  /\ body' = body + Min({Piece, request.length - body})
  /\ pc' = "body"
  /\ UNCHANGED <<clientVars, clockVars, sharedVars, status, writeVars>>

\* The read finds nothing and blocks, if it is allowed to.
BodyBlocks ==
  /\ pc = "body" /\ Incomplete /\ bodyAge < BodyTimeout
  /\ Silence /\ ~nonblocking
  /\ pc' = "body_blocked"
  /\ UNCHANGED <<clientVars, readVars, clockVars, sharedVars, status, writeVars>>

BodyWouldBlock ==
  /\ pc = "body" /\ Incomplete
  /\ Silence /\ nonblocking
  /\ Answer("408", 1)

\* Here an interrupted read is done again.
BodyInterrupted ==
  /\ pc = "body_blocked"
  /\ pc' = "body"
  /\ UNCHANGED <<clientVars, readVars, clockVars, sharedVars, status, writeVars>>

BodyTimesOut ==
  /\ pc \in {"body", "body_blocked"} /\ Incomplete
  /\ bodyAge = BodyTimeout
  /\ pc = "body_blocked" => Silence
  /\ Answer("408", 1)

BodyEnds == pc \in {"body", "body_blocked"} /\ Incomplete /\ Ended /\ Answer("408", 1)

BodyWhole ==
  /\ pc = "body" /\ ~Incomplete
  /\ pc' = "route"
  /\ UNCHANGED <<clientVars, readVars, clockVars, sharedVars, status, writeVars>>

\* handle_admitted_socket_chat, for which Dispatch is the model.
Route == pc = "route" /\ \E size \in {1, AnswerSize} : Answer("answer", size)

----------------------------------------------------------------------------
(***************************************************************************)
(* write_http_response, write_sse_head and the chunks: a write that the    *)
(* kernel cannot take blocks, up to the timeout, or fails at once.         *)
(***************************************************************************)
Full == outbox = SendBuffer

Write ==
  /\ pc \in Writing /\ left > 0 /\ ~Full /\ line # "reset"
  /\ left' = left - 1 /\ outbox' = outbox + 1
  /\ waited' = 0
  /\ pc' = "write"
  /\ UNCHANGED <<clientVars, readVars, bodyAge, sharedVars, status>>

WriteBlocks ==
  /\ pc = "write" /\ left > 0 /\ Full /\ line # "reset" /\ ~nonblocking
  /\ pc' = "write_blocked"
  /\ UNCHANGED <<clientVars, readVars, clockVars, sharedVars, status, writeVars>>

\* Mutant: no timeout of writes.
WriteStopsUntimed ==
  /\ \/ pc = "write" /\ left = 0
     \/ pc = "write" /\ left > 0 /\ Full /\ nonblocking
     \/ pc \in Writing /\ line = "reset"
  /\ pc' = "written"
  /\ UNCHANGED <<clientVars, readVars, clockVars, sharedVars, status, writeVars>>

WriteStops ==
  /\ \/ pc = "write" /\ left = 0
     \/ pc = "write" /\ left > 0 /\ Full /\ nonblocking
     \/ pc = "write_blocked" /\ Full /\ waited = WriteTimeout
     \/ pc \in Writing /\ line = "reset"
  /\ pc' = "written"
  /\ UNCHANGED <<clientVars, readVars, clockVars, sharedVars, status, writeVars>>

\* The watcher is stopped and joined, then the stream is dropped.
Hangup ==
  /\ pc = "written"
  /\ pc' = "closed" /\ watcher' = "off"
  /\ UNCHANGED <<clientVars, readVars, clockVars, nonblocking, status, writeVars>>

----------------------------------------------------------------------------
(* The client, and time.                                                   *)
Send ==
  /\ line = "open" /\ pc # "closed"
  /\ sent' \in sent + 1 .. request.head + request.body
  /\ UNCHANGED <<pc, request, line, readVars, clockVars, sharedVars, status, writeVars>>

Leave ==
  /\ line # "reset" /\ pc # "closed"
  /\ line' \in {"finished", "reset"} \ {line}
  /\ UNCHANGED <<pc, request, sent, readVars, clockVars, sharedVars, status, writeVars>>

Drain ==
  /\ outbox > 0 /\ line # "reset"
  /\ outbox' = outbox - 1
  /\ UNCHANGED <<pc, clientVars, readVars, clockVars, sharedVars, status, left>>

Limit == IF pc = "head" THEN HeadTimeout ELSE WriteTimeout

Tick ==
  \/ /\ pc \in {"head", "write_blocked"} /\ waited < Limit
     /\ waited' = waited + 1
     /\ UNCHANGED <<pc, clientVars, readVars, bodyAge, sharedVars, status, writeVars>>
  \/ /\ pc \in {"body", "body_blocked"} /\ bodyAge < BodyTimeout
     /\ bodyAge' = bodyAge + 1
     /\ UNCHANGED <<pc, clientVars, readVars, waited, sharedVars, status, writeVars>>

----------------------------------------------------------------------------
Head == HeadTooLarge \/ HeadBytes \/ HeadEnds \/ HeadTimesOut \/ Parse

Body ==
  \/ BodyTooLarge \/ BodyBegins \/ BodyBytes \/ BodyBlocks \/ BodyWouldBlock
  \/ BodyTimesOut \/ BodyEnds \/ BodyWhole

Worker ==
  \/ Head \/ AnswerEarly \/ AdmitChat \/ StartWatcher \/ Body
  \/ Route \/ Write \/ WriteBlocks \/ WriteStops \/ Hangup

Signal == HeadInterrupted \/ BodyInterrupted
Client == Send \/ Leave \/ Drain

Next == Worker \/ WatcherBegins \/ Signal \/ Client \/ Tick

Spec == Init /\ [][Next]_vars

\* Threads run and time goes by; clients and signals owe nothing.
FairSpec == Spec /\ WF_vars(Worker) /\ WF_vars(WatcherBegins) /\ WF_vars(Tick)

----------------------------------------------------------------------------
(***************************************************************************)
(* What goes to the router is the body that the head announced, all of it  *)
(* and nothing behind it, however the bytes were cut into reads: the piece *)
(* that came with the head is counted once and cut at the length           *)
(* (read_http_head 255, read_http_body 266-294).                           *)
(***************************************************************************)
BodyExact ==
  pc = "route" \/ status = "answer" =>
    /\ body = request.length
    /\ taken >= request.head + request.length
    /\ taken - Chunk < request.head + request.length

(***************************************************************************)
(* Both limits mean what they say, for every split of the bytes: a head is *)
(* refused for its size only above the limit and never let in a read above *)
(* it, a body is refused exactly above its own, and nobody is told of a    *)
(* timeout with the request whole in hand (226-297).                       *)
(***************************************************************************)
LimitsHonest ==
  /\ status = "too_large" => request.head > MaxHead
  /\ pc \notin {"head", "closed"} => request.head <= MaxHead + Chunk
  /\ status \in {"answer", "408", "413"} => (status = "413" <=> request.length > MaxBody)
  /\ status = "408" => taken < request.head + request.length

(***************************************************************************)
(* A connection ends though its client sends one byte at a time, stops, or *)
(* never drains the answer: each read and write has its timeout and the    *)
(* head its size (226-297, 384-410).                                       *)
(***************************************************************************)
ConnectionEnds == <>(pc = "closed")

(***************************************************************************)
(* The design gives the body thirty seconds from the permit on: 408 is for *)
(* a body that is late, or that will not come any more.  The watcher's     *)
(* O_NONBLOCK (498) is the socket's, so a read that finds nothing yet is a *)
(* timeout too (276-288).                                                  *)
(***************************************************************************)
BodyHasItsTime == status = "408" => bodyAge = BodyTimeout \/ line # "open"
============================================================================
