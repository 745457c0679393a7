# nano-llm, modelled in TLA+

nano-llm (`src/`) is one Rust process that accepts chat requests in the OpenAI
shape over plain HTTP and forwards each to an upstream provider: an
OpenAI-compatible one, Anthropic or Gemini. A configured *route* is a list of
entries; the first entry that answers well wins. This directory holds models of
its control, the TLC runs that check them, and theorems about them that TLAPS
checks. Line numbers below are of `src/src/server.rs` unless another file is named.

## 1. Inventory

| Component | State | Operations | Talks to |
|---|---|---|---|
| Listener (`run_listener`, 77-141) | handles of workers, count of live connections | accept, recheck of the shutdown flag, slot reservation, spawn, reap, join | workers (spawn, join, shared count), signal handler (flag) |
| Connection worker (`serve_connection`, 169-222) | the socket, the request, a permit | read head, admit, read body, route, answer or deliver, close | permits and slots (atomics), watcher, router |
| Generation permits (1854-1890) | free count | `try_acquire`, drop | every worker, by compare-exchange |
| Disconnect watcher (482-530) | stop flag, its thread | peek every 10 ms, cancel, stop and join | worker (stop flag, join), router and delivery (cancellation flag) |
| Router (`dispatch_route`, `dispatch_stream_route`, `block_on_until`, 1436-1693, 2041-2085) | entry, deadlines, attempt records | look at flag and clock, build, poll, pull the first chunk, advance | providers (futures, iterators), clock, flag |
| Delivery (`write_to`, `write_sse_stream`, `StreamSuccessState`, 1895-1928, 2100-2173, 2279-2350) | idle deadline, finish and usage seen | pull, gate, write, `[DONE]` | upstream iterator, socket, clock, flag |
| Ingress (226-410) | bytes read, deadline, the socket's blocking mode | read head, admit, read body, write | socket with timeouts; watcher (shared O_NONBLOCK) |
| Stream assembler (`response.rs` 429-639) | calls, roles, terminal, usage | `push`, `finish`, `usage_chunk` | decoders |
| Complete answers (`response.rs` 184-394) | `NEXT_ID` | normalize and validate one candidate, give ids | adapters, clients (ids come back) |
| Decoders (`openai_compatible.rs`, `anthropic.rs`, `gemini.rs`) | bytes, pending chunks, native lifecycle | `next` | transport, assembler |
| Canonical request (`request.rs`) | turn, ids and open calls of the fold | JSON, conversation and route validation | workers, once per request; adapters, which encode what was let through |
| Configuration (`config/`) | the parser's stack; none after startup | YAML subset, secrets, validation, grouping into routes | startup |
| Startup (`main.rs`, `cli.rs`, 57-64, 424-452) | termination flag | parse, validate, install handlers, serve | listener |
| Transport (`providers.rs`) | an HTTP client per target | execute, read | upstreams |

What is hard here, and hard to test:

* three kinds of threads share two counters, a shutdown flag and one flag per
  request, with no lock anywhere; each counter is a loop of a load and a weak
  compare-exchange;
* a resource (permit, slot, watcher) is given back by a `Drop` on every way out of
  a function: early answer, body error, panic, failed write, end of stream;
* the router and the delivery look at the clock and at the flag at many points,
  one atomic read at a time, with blocking calls in between;
* an upstream may answer late, never, or in an order no test has;
* a clone of a socket has a descriptor of its own and shares its blocking mode;
* a conversation is walked by a validation and by three encoders, each with a state
  of its own, and what one lets through the next takes for impossible (`expect`,
  `unreachable!`); what the gateway says comes back to it as a request.

### What makes each component correct

* *Listener and workers*: slots equal live workers, at most 128; nothing accepted
  is forgotten by a graceful end; nothing late is served; shutdown ends.
* *Permits*: conserved on every path; never more than `max_in_flight` generations;
  a 503 only when they really are all taken.
* *Watcher*: joined before its worker closes; a disconnect gives the permit back.
* *Logging*: one completion record per request.
* *Router*: entries in order, each once, one at a time; the verdict fits what
  happened; no late answer; no call after a disconnect or a deadline; returns.
* *Delivery*: the client reads a prefix of one well-formed answer; the outcome
  fits the bytes; the idle timeout and a disconnect end it.
* *Decoders and assembler*: only canonical streams; one id per call, for its life;
  a finish that is true of what went out; no keepalive an error.
* *Ingress*: the router gets the announced body, all of it and nothing else; a
  refusal for size or time is for what it says; no client holds a connection.
* *Configuration and startup*: routes and targets are those of the file, in its
  order; no key goes out in the clear, no service is open by mistake.
* *Conversation*: no adapter stumbles over what the validation let through; each
  result answers one open call; an answer may be said back to the gateway.

## 2. Modules

```
BoundedPool   <-- implemented twice by --  Gateway  --  MCGateway
                                             |          GatewayProofs
Failover      <-- implemented by ------  Dispatch --  MCDispatch, DispatchProofs

Assembler <- SseDecoder <- { OpenAiStream, AnthropicStream, GeminiStream } <- Adapters
CanonicalStream  <-- implemented by --  Adapters  --  MCAdapters, AdaptersProofs
       ^--- composed with Delivery by -- Relay    --  DeliveryProofs

Ingress  --  MCIngress, IngressProofs

YamlReader, Config                                 <- Startup <-+
Config, Conversation <- NativeRequest, Completion  <- Chat    <-+- Application -- MCApplication,
                                          EventPaths (property) <-+             ApplicationProofs
YamlReader, EventPaths <- ReaderProofs <- ApplicationProofs

FoldProofs, of loops that are folds, is instantiated by the proofs of the adapters, the reader and
the application.
```

**Gateway** is the process: `listener` is the place of the listener thread in
`run_listener`; `stage[c]` the place of connection c's worker in
`serve_connection`, from the kernel's backlog to the end of its thread;
`watcher[c]` its watcher; `active` and `available` the two atomics, with
`seenActive` and `seenFree[c]` the values that the compare-exchange loops hold.
Each load and each compare-exchange is a step. What a request asks for, and how
its upstreams answer, is free; `AnswerChat` and `CommitStream` stand for the
router, `PullChunk` ... `StreamEnds` for the delivery, seen from the counters.
`permit[c]` is the value `GenerationPermit`, `records[c]` counts the
`request_completed` records. A weak compare-exchange may fail though the value is
the expected one; it then changes nothing, which is a stuttering step.

**BoundedPool** says what a counted resource promises. Gateway instantiates it
for the permits (held by `PermitHolders`) and for the slots (held by workers and
by the listener on behalf of the connection it is about to spawn).

**Dispatch** is one call of the router. `pc` names the next read, call or match;
every read of the clock or of the flag is a step (`SeeFlag`, `SeeOverall`,
`SeeLimit`), and the tables `FlagReads`, `OverallReads` and `LimitReads` say which
read follows which, for both functions and for `block_on_until`. `mode` tells the
two functions apart where they differ: `dispatch_route` reads the flag between
construction and first poll, `dispatch_stream_route` does not, but goes on to pull
and judge the first chunk. An answer is good or bad; "bad" covers every
`TargetError` and every first chunk that is none.

**Failover** is what routing promises. Dispatch implements it with the number of
failed entries, whether an operation is alive, and the verdict.

**Delivery** is one committed stream from the head of the answer on. `item` is
what the iterator gave, `wire` what the socket took, with runs of deltas written
as one. An item "alien" is any chunk the gate refuses for itself. Inside `next`
the decoder reads events (`ReadEvent`) and reads on past those that are no chunk
(`ReadOn`). A failed write may have sent a part ("torn").

**Assembler** is `StreamAssembler` (`response.rs`) as operators on a record: `calls`
holds the calls in the order of their indices, so `next_index` is its length and
`used_ids` the ids in it; `Pushed` is `push`, with `AcceptPart` for each delta of a
call and `FinishReason` and `ValidOutcome` for a terminal choice. A name is a
sequence of letters, since it comes in fragments; of the arguments only whether
they are nothing, a beginning, an object or neither; of a text that it was there.

**SseDecoder** is the loop of `next` and `next_event` that the decoders share, one
event or one end of the source per step; a dispatch leaves at most one chunk in
`pending` and it is returned at once, so the queue is not a variable.
**OpenAiStream**, **AnthropicStream** and **GeminiStream** have one action per
native event, with the provider's own fields in `native`: the usage kept until
`[DONE]`; the numbered blocks, open side by side, each with its call and its
arguments; the native ids with their calls, and those that became ambiguous.
**Adapters** runs all three, `provider` telling which, against any order of
events. Every refusal of the code is a step `Fail`; lines, limits and the shapes of
JSON are behind `BreakOff`.

**CanonicalStream** is what `dispatch_stream_route` and the delivery count on:
deltas, a finish, the usage if it was asked for, the end, or an error and the end.
**Relay** puts the two together: `adapted` tells whether the provider is one of the
gateway's own, whose items are then a CanonicalStream, or a custom one, which may
send anything. Adapters implements CanonicalStream and Relay consumes it, so the
gate's books and the assembler's meet there.

**Ingress** is one connection's bytes, counted in units of which `Chunk` fill the
buffer of a read: `sent` of the client's `request` are in the kernel, `taken` of them
were read, `body` is the buffer's length, `left` and `outbox` the answer. A client
sends pieces of any size, pauses, finishes, resets and drains as it likes. The
watcher's `set_nonblocking` (498) is a step that changes `nonblocking`, the flag of
the description that both descriptors share. Time is counted by the timer that
runs, per read for the head and for a write, per body for the body. What makes a head
malformed (`parse_http_head`) is a kind of request.

**YamlReader** is `parse_spanned_node` over the scanner's events, one per action; the
recursion of `parse_node` is the stack `open`. The scanner is external: its events are
well nested and may stop at an error. **Config** has the conditions and functions of
`deserialize_raw_config`, `build_runtime_config` and `get_route`; what the helpers on
strings find in a text is given by constants. **Startup** is `main`, from the arguments
to `serve` or one of the exits. **EventPaths** models no code: it says what a file says, off
the scanner's events and without a tree. A value's path is the keys and the numbers of the
collections around it (`Word`, `Nth`), and `Heard` has every value with its path.

**Conversation** has the fold of `validate_messages` with the rest of the validation,
**NativeRequest** the three encoders of messages, **Completion** the parsers of complete
answers, `normalize_calls` and `build_response`. **Chat** is a conversation over several
requests: a client asks with what it has, or with one thing changed; the gateway
rejects or tries the targets in order (`Send`, `ProviderAnswers`, `AttemptFails`); the
client goes on with the answer and a result for each call (`Continue`). `Restart` sets
`NEXT_ID` to one under clients that go on. **Application** runs Startup and then Chat on
the routes that came out of it. The clock and the flag are Dispatch's matter and
streams are Adapters', so neither is in Chat.

History variables, which the code does not have: `records` (the log), `invoked`
and `answeredAt` in Dispatch, `wire`, `gotAt`, `gotGone` and `progressAt` in Delivery;
`given`, `reason`, `shown` (the index and id of each call as the chunks showed it)
and `event` in SseDecoder; `given` in Relay; `file` in Startup; `history` in Chat is the client's,
and `origin` in Application says which model and which provider gave each answer in it.

## 3. Runs

| Run | Question | Instance |
|---|---|---|
| gateway_safety | Do permits, slots, watchers and records stay consistent in every interleaving? Do both counters implement the pool? | 3 connections, 2 slots, 1 permit |
| gateway_liveness | Does a disconnect give the permit back, does shutdown end, is nothing late served? | 2 connections, 2 slots, 2 permits |
| gateway_accept_error | *violated*: does the process wait for its workers? | as above, safety only |
| dispatch | Does routing implement failover and return, and are late answers and late calls kept out? | 3 entries with timeouts 1, 2, 4; overall 4; clock to 6 |
| delivery | Is the wire well-formed, the outcome honest, nothing stale, the gate open to the adapters? Does a disconnect end it? | idle timeout 2, clock to 6; adapters and custom providers |
| delivery_idle | *violated*: does the idle timeout end a delivery? | Delivery alone, as above |
| adapters | Is each decoder's output a canonical stream, with stable ids, an honest finish, whole arguments, and books that agree with the assembler's? | 2 calls, 2 blocks, native ids 1 and 2, names "a" and "aa" |
| adapters_ping | *violated*: is a provider's keepalive ignored? | as above |
| adapters_policy | *violated*: does a policy block finish the answer? | as above |
| ingress | Is the body exact, are refusals honest, does a connection end? | a read takes 2, heads to 3, bodies to 4; timeouts 2, 2, 1 |
| ingress_body | *violated*: does a body have its time? | as above |
| application | Are routes those of the file, credentials guarded, requests representable, answers fit to be said back? | 5 files and all one-place edits of one; 5 messages, 2 tools |

*Bounds.* Three connections are the fewest that have one holding the only permit
and two racing for it, or two holding both slots and one being refused; with two
slots and one permit both limits are reached, and reached independently.
Liveness takes two, without the symmetry that liveness forbids; there the permits
do not run out, so that two generations go on at once. In Dispatch the third entry's
timeout equals the route's, so its deadline ties with the route's whenever it
starts first, and clips otherwise; the first one's is the shortest there is; three
entries have one that is first, one between and one last. The clock goes past
every deadline and then stops (`Horizon`): nothing in the code depends on how much
later than a deadline it is. In Relay a clock of six has room for three idle
periods. Two calls are the fewest whose ids collide, whose deltas interleave and
whose indices can be mixed up; ids are the positive numbers, and the providers' are 1
and 2, so that the gateway generates ids of its own and one that a later native id then
collides with. A name is in `Letters`, of which one is enough: one tool's name is the beginning of the other's and of an undeclared
one, so fragments decide which it is. A choice carries one thing at a time where
several act one after the other; Gemini's candidate has up to two calls, as ids
matter within one. A sum of token counts may overflow or not, freely.
In Ingress the requests have a head below, at, a read above and beyond the limit,
and a body that is whole, short, too long or announced too large, each with any cut
into reads; a buffer of two makes a read end on either side of the blank line.
The configuration files have two routes, of which one comes twice with the other in
between, each kind of target, one name for a compatible and a translated target, a master key
or none; the edits of `Plain` replace,
drop, repeat or break off every scalar, and put a word that is also a key in its place. Five messages have two rounds of tool calls
or a round and a new question. The clients' edits remove, repeat, swap and spoil any
message.

*Fairness.* Threads run: an enabled step of the listener, of a watcher, or of a
worker that is not waiting for the outside is taken, because the operating
system's scheduler is fair and because every read and write of the client's
socket has a timeout (30 s). Clients, signals and the failures of system calls
owe nothing. Two assumptions are about the upstream and are named apart:
`UpstreamReturns` (a blocking provider call returns) and, in Delivery,
`ChattySpec` in Relay (not only keepalives are sent). Neither is the code's to guarantee,
and the run delivery_idle shows what happens without the second. `ShutdownDrains`
excludes streams that never end, as the code does: there is no total limit on a stream.
In Ingress the worker runs, the watcher's thread is started at some time, and time
goes by; the client owes nothing, so `ConnectionEnds` rests on the timeouts alone.

Deadlock is not checked: every model ends (a process, a call, a delivery), or its
clock does; the liveness properties say that it ends well.

### Disagreements between code and documents

1. *An accept error ends the process under its workers* (119). Any error but
   WouldBlock and Interrupted returns from `run_listener` before the joins; `main`
   then ends the process. The comment at 123-124 says that a worker "is allowed
   to make progress until its normal completion".
2. *Keepalives hold a committed stream* (2142). The idle deadline is looked at
   around `next`, and `next` reads on while events are no chunks. The design
   (786-787, 795-797) closes such a stream.
3. *Anthropic's ping is an error* (`anthropic.rs` 290). Any event outside the message
   lifecycle is refused, the keepalive `ping` with it; the design (833) has
   provider keepalives ignored.
4. *A policy block that reports usage is passed over* (`gemini.rs` 262). The arm for
   usage comes before the arm for a block, so an event with `promptFeedback`,
   no candidates and `usageMetadata` is metadata, and the stream ends as an
   `InvalidResponse`. The design (660-665) wants the one terminal chunk, and the
   parser of complete answers gives it for the same event.

5. *A body that has not come yet is answered 408 at once* (498). The watcher sets
   O_NONBLOCK on its clone, which sets it for the worker's socket too, so a read of
   the body that finds nothing returns WouldBlock, which `read_http_body` (276-288)
   takes for the timeout. The design (759, 991-995) gives the body thirty seconds. A
   large answer to a slow reader breaks off in the same way.

Noted without a run:

* an exact tie of deadlines (2066-2078): the clock is read once for each, and if it
  reaches the common instant between both reads, a last entry ends as
  `upstream_exhausted` (502) where the design (799-800) wants `overall_timeout` (504);
* the header timeout holds for each read (24-27, 237) and the design (1005-1006) has
  it for the head; the size of the head ends it all the same;
* an interrupted read drops the connection in the head and is repeated in the body;
* a termination signal between the installation of the handlers and the reset of the
  flag (62) is lost;
* a complete answer whose client left while an attempt was running is logged as
  `upstream_exhausted` (1420-1431), where one caught earlier is logged as cancelled;
* `NEXT_ID` (`response.rs` 11) starts at one in every process and the ids of a provider
  are kept, so an id may come again in a conversation. The design wants ids unique
  within a response (519-521, 918) and a request wants them unique in the whole
  conversation (490): such a follow-up is refused with 400. `AnswersContinue` excepts
  it (`SharedIds`), as it does an answer blocked without a word (`Wordless`), which no
  request may contain;
* **a mixed route refuses its own answers.** An OpenAI-compatible target may answer with
  arguments that are no JSON object, and the gateway gives them on as they came
  (`nano-llm.md` 506-510). If the same route also has an Anthropic or Gemini target, the
  client that says this answer back, to the same model and with nothing changed, gets
  400 before routing (`request.rs` 195-201, 556-597), now and with every later request
  of the conversation. Each of the two rules is the design's (497-504 has the second,
  so that every fallback can represent the request) and the code follows both, so this is no
  disagreement of code and design, and no run is expected to fail for it; but nothing in the
  design says that a configured fallback can end a conversation in this way.
  `AnswersContinue` excepts exactly this (`OwnJunk`): `origin` records which target of
  which model gave each answer, so that the exception holds only where a target of this
  very route that is not translated gave the arguments. The document `OneRoute` of
  MCApplication has such a route, and the case is reached there: under the run without
  `OwnJunk` the property fails. The same refusal after the client went over to another
  model is a case of its own (`Moved`), as it is of the design's rule alone;
* a Gemini call that comes again under its id appends a second object to the
  arguments already sent (`gemini.rs` 374-385), which together are no JSON ("junk").

## 4. Theorems

All for any finite set of connections and any positive limits; for any route length,
timeouts and clock bound; for any tools, ids and bounds on calls; for any idle timeout;
for any requests and buffers; for any files, texts and conversations. The assumptions are
`GatewayAssumption`, `DispatchAssumption`, `DeliveryAssumption` and `IngressAssumption`
(limits are positive, sets are finite), `AssemblerAssumption` and `SseDecoderAssumption`
(tools have names, which are made of letters), `ConfigAssumption` (the empty text has no
length), `DocumentsAssumption` (the scanner ends a stream once, with its last event) and
`ChatAssumption` (clients begin with a valid conversation; of what the bodies
of providers are made). TLC evaluates them too.

* **GatewayProofs**: `IInv` is inductive. Conservation alone is not: a step that
  gives a permit back must come from a holder, so `PermitStages` ties `permit` to
  the stage; a compare-exchange must not succeed at the limit, so `Registers` says
  that the loaded values passed their test; a slot must have one owner between
  reservation and spawn, so `OneAccepted` says that the listener has one accepted
  connection at a time; `HandlesKept` says that every serving worker is still in
  the vector; `SlotsCounted` that only a panicking spawn loses a slot. From it:
  `TypeCorrect`, `PermitsNeverLeak`, `SlotsNeverLeak`, `GenerationsStayBounded`,
  `WatchersJoined`, `QuietReturn`, and the two refinements `PermitsArePool` and
  `SlotsArePool`. With the stages of one request: `RejectionsAreHonest` (an action
  property: the step to 503 finds the count at zero, and conservation turns that into
  max_in_flight holders), `RecordedOnce` (with the stages after the record), `LateIsNeverServed`.
  `ListenerStopsSoon` and `PermitComesBackSoon` count down: see below.
* **DispatchProofs**: `DInv` ties `attempts`, `entry` and `pc` together and
  carries the deadline under which an answer came past each read of the clock.
  From it `DispatchTypeCorrect`, `VerdictsAreHonest`, `LateAnswersAreDropped`, the
  two properties on calls that are not begun, and `DispatchIsFailover`. For each point
  of the loop `WaysAfterDeadline` and `WaysAfterDisconnect` say where it still leads, from
  which the counts of `OverrunIsBounded` and `DisconnectReturnsSoon` follow.
* **AdaptersProofs**: `CanonicalStreams`, that all three decoders implement
  CanonicalStream. The place of a stream is kept three times, by the decoder
  (`done`), by the assembler (`terminal`, `counted`) and by the reader of the items
  (`given`); `Lifecycle` says that the three agree, and `Stopping` that an Anthropic
  message has its stop reason only when the assembler has finished. What an action
  does to them is one of five things (nothing, an error, a push, the usage, the
  end), each a lemma; the decoders' actions are then cases of those. What the fold
  over the parts of a call computes does not matter for that.
  The rest is about that fold. `Bookkeeping` says that no two calls have
  one id, that the client was shown each call under its index and its id and nothing
  else, and that the books of the decoder are those of the assembler: for Anthropic,
  that an open block has its own call and the arguments so far (`Books`); for Gemini,
  that an id it knows stands for one call, in their order (`Ordered`, `Agrees`). That a
  free id exists is the pigeonhole principle over the calls there are. From it
  `AdaptersTypeCorrect`, `IdsAreStable`, `FinishIsHonest`, `BooksAlwaysAgree` and
  `ArgumentsAreWhole`.
* **FoldProofs** has what the proofs need of loops. The loops of the code are written
  with `FoldLeft`, and the library's theorems on recursion and induction take an operator
  for what is shown, which the provers cannot instantiate. Induction is therefore over a
  *set* of numbers, whose complement would have a least member (`WFMin`). From it:
  a fold has a trace, the state after each element (`FoldTrace`); whatever has such a
  trace ends where the fold does (`TraceIsFold`); one element more is one step more
  (`FoldMore`); and what no step leaves, the fold does not (`FoldIn`). The step is a
  constant of the module, for which each module that instantiates it has its own.
* **DeliveryProofs**: what the wire may take next depends on what is on it, and the
  gate knows that only from its books; `InHand` and `Booked` say that books, item in
  hand and wire agree, before and after each write, `Unended` that only the last step
  writes an end. `Timely` and `Present` carry the two looks on either side of `next` up
  to the write. From it `WireStaysWellFormed`, `OutcomesAreHonest`, `NothingStaleGoesOut`.
  Of Relay, `Lockstep` says that between two items the last one given is what
  the gate's books say, and that an adapter's item in hand is one they expect. So
  `GateIsOpen`: with `CanonicalStreams`, no answer that an adapter finishes is broken off
  by the gate, which neither module says alone. `RelayIsDelivery` carries the
  properties of Delivery over. `DisconnectSilences`: unless the last look at the flag is
  past, nothing goes out after a disconnect; `DisconnectEndsSoon` counts the steps.
* **IngressProofs**: no read is begun when all that is wanted is there, so at most one
  buffer was read beyond the blank line (`HeadRead`) or the body (`BodyRead`), and the
  body's buffer is what was taken behind the head, cut at its length. From it
  `BodiesAreExact` and `LimitsAreHonest`. `WorkIsBounded` counts the reads and writes.
* **ReaderProofs**: `TreeSaysTheFile`, that the tree says what the events say, for any file
  and however deep its collections. A node *says* a text along a path if a branch of items
  leads to a scalar with that text (`Says`); the invariant `Hears` is that what was heard of
  the events so far is said by the open collections, each at its address (`SaysIn`), and that
  the frames of EventPaths mirror the stack. A branch is a function over the positions of the
  path, so that no recursion is needed: a completed item adds the branches that go through it
  and no other (`ItemSays`), and a key without a value adds none (`KeySays`). `Apart` says
  that all nodes, those below the open ones too, have their keys apart: it is a set of nodes
  that is closed under items.
* **ApplicationProofs** follows a file to its routes and a conversation to the providers.
  - `ServiceIsGuarded`: the flag of the command line is looked at with the address, with
    the master key and when the application is made, and nothing changes it in between.
  - `CredentialsAreGuarded` adds the targets' keys. Reading a file gives trees in which a
    complete mapping has an item for each key (`Trees` of ReaderProofs, over the stack); a target
    made of such an entry is `Guarded`; and each step of the fold that groups the entries
    keeps the routes guarded (`GuardedRoutes`).
  - `RoutesAreOwn`, of the step that builds: one route for each name, and under a name the
    targets of the entries of that name. The loop that groups is compared with one loop
    for each name, which takes that name's entries only (`OwnTargets`), entry by entry.
  - `RoutesAreFaithful`, that the routes are what the file says. `TreeSaysTheFile` carries
    the file to the tree; the paths that the property names lead in a tree that deserializes
    to the members that the code takes (`EntrySays`, as keys are apart), so that the events
    list the entries, no more and no fewer (`FileLists`); and the loop that groups keeps names
    and models in the order of the entries (`Grouped`).
  - `ApplicationTypeCorrect`: what a client adds, changes, drops or swaps leaves a sequence
    of messages; an answer that is let through has calls of declared tools under ids of
    their own; and the target that is tried is one of the route (`ChatInv`).
  - `RequestsAreRepresentable`: the loop that validates and the loop that translates go
    over the messages side by side. `Reached` says where both are after i messages: the
    turns made so far alternate, every call but those of the last one is answered in the
    turn behind it (`Linked`), the calls still unanswered are the ones that the validation
    has unresolved, and a result's call is found before it, under one name (`Sourced`,
    `OneName`). There is a lemma for each role; a result takes one call off, and the
    validation ends only with none left. That a turn has as many results as calls, and not
    only the same ids, comes from a bijection between them.
  - `AnswersMayBeSaidBack`: what a client goes on from is a valid conversation, or has a
    wordless answer or a shared id (`HistoryInv`). An answer with new ids, and a result
    for each of its calls in any order, keep it valid (`ContinuedIsValid`), which is the
    same loop, from where it had ended. `Provenance` is about the arguments: a provider
    that speaks in objects answers in objects (`CompletedIsWhole`, through the loops over
    the parts and the calls), so that arguments that are no object came of another kind of
    target, in the route of the model that was asked (`Sources`); as routes do not
    change, that is this route, or the client has moved.

What of the endings is proved. That a thread does step is fairness, and beyond the prover;
that its steps *lead* to the end is not. Each of these theorems gives a count, the most steps
(or stages) that are left, shows that it is bounded and zero exactly at the end, and that
it falls in every step of the thread:

| Theorem | From when on | What is left | But for |
|---|---|---|---|
| `OverrunIsBounded` (Dispatch) | the route's deadline | 4 steps to the return | |
| `DisconnectReturnsSoon` (Dispatch) | the disconnect | 8 steps to the return | |
| `DisconnectEndsSoon` (Delivery) | the disconnect | 4 steps to the return | events that `next` reads over in one call |
| `WorkIsBounded` (Ingress) | the accept | MaxHead + 2 MaxBody + 2 AnswerSize + 11 reads, writes and other steps | reads of the body that a signal interrupts |
| `ListenerStopsSoon` (Gateway) | the signal | 5 places of the listener | failed compare-exchanges, which stay at their place |
| `PermitComesBackSoon` (Gateway) | the cancellation | 4 stages to the permit's return | |

The steps of the two first count reads of the flag and of the clock: within them the
adapter's own call may block for as long as the upstream lets it, which is one step.

Only model-checked:

* liveness (`DisconnectReleases`, `ShutdownDrains`, `Returns`, `DisconnectEndsDelivery`,
  `ConnectionEnds`), since fairness and ENABLED are beyond the prover. Every invariant and
  every action property of the runs is the statement of a theorem.

## 5. What is not modelled, and known simplifications

* The texts: JSON, headers, URLs and percent-encoding, numbers, redaction and the
  wording of errors. The JSON decoder (`request.rs`) is a recursive descent over bytes,
  whose states are texts; which member or type makes a request unsound is one flag.
* Every end of a route is 502 in Chat; 504 and a cancelled request are in Dispatch.
* Of a tool choice that names a tool, `FinishIsHonest` judges that calls were made
  and not which; the name is looked at in `ValidOutcome`.
* Options that the adapters pass on unchanged (temperature, stop and the like), texts
  of messages, and the metadata of answers but for the ids of calls.
* TLS, DNS, connection pools: behind one call of `providers.rs`.
* `sse_response` (2177-2277), the delivery loop for a test's in-memory body.
* `max_in_flight` above 128 cannot be reached, as a permit needs a connection.
* A client that leaves unread bytes behind hides its end of file from the
  watcher's peek ("masked" in Gateway); `DisconnectReleases` speaks of the others.
* A permit is given back before a complete answer is written, and after a stream
  is: `GenerationsBounded`, which is proved, speaks of generations, not of answers being written.
* The record of a complete answer is logged before the answer is written, so a
  failed write is still "completed"; only a stream's outcome knows of the write.

## 6. Plan

1. *(done)* Gateway and BoundedPool; Dispatch and Failover; Delivery; their proofs.
2. *(done)* Assembler, the three decoders and CanonicalStream, with the proof that
   they implement it; Relay, which composes it with the delivery's gate.
3. *(done)* Ingress: head and body readers, their timeouts, the shared O_NONBLOCK flag.
4. *(done)* Startup, the YAML reader and the configuration; conversations, complete
   answers and the native requests, composed in Application.
5. *(done)* The proofs about folds: the decoders' calls, the validation and translation
   of conversations, the routes.
6. *(done)* The reader's tree against the scanner's events, and with it `RoutesFaithful`.
7. Left: Dispatch's first chunk composed with CanonicalStream, as Relay does for the rest.
