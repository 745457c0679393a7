------------------------------ MODULE Gateway ------------------------------
(***************************************************************************)
(* The threads of one nano-llm process (server.rs): the listener loop, one *)
(* worker thread per accepted connection, and the disconnect watcher of    *)
(* each admitted chat request.  They share the count of live connections,  *)
(* the count of free generation permits, the shutdown flag and, per        *)
(* request, a cancellation flag.                                           *)
(*                                                                         *)
(* A connection is one client socket.  What is read from it, which route   *)
(* it names and how its upstream attempts go is a nondeterministic choice  *)
(* here (Dispatch.tla refines the attempts); the order in which counters,  *)
(* flags and threads change is not.                                        *)
(***************************************************************************)
EXTENDS Integers, FiniteSets

CONSTANTS
  Conns,        \* the connections clients may open
  MaxWorkers,   \* MAX_CONNECTION_WORKERS, 128 in the code
  MaxInFlight   \* general_settings.max_in_flight, 64 by default

ASSUME GatewayAssumption ==
  /\ IsFiniteSet(Conns)
  /\ MaxWorkers \in Nat \ {0}
  /\ MaxInFlight \in Nat \ {0}

VARIABLES
  up,           \* the process is running
  shutdown,     \* a signal arrived or Shutdown::request was called
  listener,     \* where the listener thread is
  active,       \* active_connections
  seenActive,   \* the value of it that reserve_connection_slot holds
  workers,      \* connections whose JoinHandle is in the listener's vector
  stage,        \* where each connection is
  available,    \* GenerationCapacity.available
  seenFree,     \* the value of it that each try_acquire holds
  permit,       \* the connection's worker owns a GenerationPermit
  watcher,      \* the connection's watcher thread
  cancelled,    \* its DownstreamCancellation flag
  peer,         \* the client's end of the socket, as far as a peek can tell
  records       \* request_completed records logged for it

processVars  == <<up, shutdown>>
listenerVars == <<listener, active, seenActive, workers>>
watchVars    == <<watcher, cancelled, peer>>
requestVars  == <<seenFree, permit, watchVars, records>>
vars == <<processVars, listenerVars, stage, available, requestVars>>

----------------------------------------------------------------------------
(***************************************************************************)
(* The stages of a connection.  "new" and "backlog" precede accept,        *)
(* "refused" is a stream the listener dropped without serving it, the rest *)
(* are points of serve_connection and of the closure that runs it.         *)
(***************************************************************************)
Unaccepted == {"new", "backlog"}
Admitted   == {"watch", "body", "work", "stream", "pull"}
Served     == {"head", "load", "cas", "write", "unwatch", "close"} \cup Admitted
Stages     == Unaccepted \cup {"accepted", "refused", "done"} \cup Served

ListenerStages == {"poll", "accept", "recheck", "load", "cas", "spawn", "join",
                   "returned", "failed"}

PermitHolders == {c \in Conns : permit[c]}
Serving       == {c \in Conns : stage[c] \in Served}
\* The connection whose slot is taken and whose thread is not yet running.
Spawning      == {c \in Conns : listener = "spawn" /\ stage[c] = "accepted"}
SlotHolders   == Serving \cup Spawning

Init ==
  /\ up = TRUE
  /\ shutdown = FALSE
  /\ listener = "poll"
  /\ active = 0
  /\ seenActive = 0
  /\ workers = {}
  /\ stage = [c \in Conns |-> "new"]
  /\ available = MaxInFlight
  /\ seenFree = [c \in Conns |-> 0]
  /\ permit = [c \in Conns |-> FALSE]
  /\ watcher = [c \in Conns |-> "none"]
  /\ cancelled = [c \in Conns |-> FALSE]
  /\ peer = [c \in Conns |-> "open"]
  /\ records = [c \in Conns |-> 0]


(***************************************************************************)
(* Nothing steps once the process has ended.  A listener step leaves the   *)
(* requests alone, a worker step leaves the listener alone.                *)
(***************************************************************************)
ListenerStep(from, to) ==
  /\ up
  /\ listener = from
  /\ listener' = to
  /\ UNCHANGED <<processVars, available, requestVars>>

WorkerStep(c, from, to) ==
  /\ up
  /\ stage[c] = from
  /\ stage' = [stage EXCEPT ![c] = to]
  /\ UNCHANGED <<processVars, listener, seenActive, workers>>

WatcherStep(c) ==
  /\ up
  /\ watcher[c] = "polling"
  /\ UNCHANGED <<processVars, listenerVars, stage, available, seenFree, permit, records>>

----------------------------------------------------------------------------
(* The environment.                                                        *)

Connect(c) ==
  /\ WorkerStep(c, "new", "backlog")
  /\ UNCHANGED <<active, available, requestVars>>

RequestShutdown ==
  /\ up /\ ~shutdown
  /\ shutdown' = TRUE
  /\ UNCHANGED <<up, listenerVars, stage, available, requestVars>>

(***************************************************************************)
(* The client goes away.  "masked": it left bytes in the receive queue     *)
(* that no one will read, and a peek sees those instead of the end of      *)
(* file.  Without a watcher nothing looks at the socket in this way, and   *)
(* every read and write already may fail, so the step waits for one.       *)
(***************************************************************************)
PeerCloses(c) ==
  /\ WatcherStep(c)
  /\ peer[c] = "open"
  /\ \E how \in {"closed", "masked"} : peer' = [peer EXCEPT ![c] = how]
  /\ UNCHANGED <<watcher, cancelled>>

----------------------------------------------------------------------------
(* The listener thread, run_listener.                                      *)

Refuse(c) == stage' = [stage EXCEPT ![c] = "refused"]

\* Mutant: reaping drops every handle, finished or not.
ReapAll == {}

\* reap_workers: the handles that stay are those of unfinished threads.
Reap == {c \in workers : stage[c] # "done"}

\* The loop's condition fails, or the loop's body begins.
LeaveLoop ==
  /\ shutdown
  /\ ListenerStep("poll", "join")
  /\ UNCHANGED <<active, seenActive, workers, stage>>

EnterLoop ==
  /\ ~shutdown
  /\ ListenerStep("poll", "accept")
  /\ workers' = Reap
  /\ UNCHANGED <<active, seenActive, stage>>

Accept(c) ==
  /\ ListenerStep("accept", "recheck")
  /\ stage[c] = "backlog"
  /\ stage' = [stage EXCEPT ![c] = "accepted"]
  /\ UNCHANGED <<active, seenActive, workers>>

\* WouldBlock (after the poll interval) and Interrupted.
AcceptNothing ==
  /\ ListenerStep("accept", "poll")
  /\ UNCHANGED <<active, seenActive, workers, stage>>

\* Any other error of accept: the loop returns it, no worker is joined.
AcceptFails ==
  /\ ListenerStep("accept", "failed")
  /\ UNCHANGED <<active, seenActive, workers, stage>>

\* Mutant: shutdown is not looked at again after accept.
RecheckNothing(c) ==
  /\ stage[c] = "accepted"
  /\ ListenerStep("recheck", "load")
  /\ UNCHANGED <<active, seenActive, workers, stage>>

Recheck(c) ==
  /\ stage[c] = "accepted"
  /\ IF shutdown
       THEN ListenerStep("recheck", "join") /\ Refuse(c)
       ELSE ListenerStep("recheck", "load") /\ UNCHANGED stage
  /\ UNCHANGED <<active, seenActive, workers>>

\* Mutant: the bound is off by one.
AtBoundPlusOne == active > MaxWorkers

\* The comparison in reserve_connection_slot, on the value just loaded.
AtBound == active >= MaxWorkers

\* A load, or a failed compare-exchange, then the top of the loop.
ReserveFrom(c, where) ==
  /\ stage[c] = "accepted"
  /\ seenActive' = active
  /\ IF AtBound
       THEN ListenerStep(where, "poll") /\ Refuse(c)
       ELSE ListenerStep(where, "cas") /\ UNCHANGED stage
  /\ UNCHANGED <<active, workers>>

LoadActive(c) == ReserveFrom(c, "load")

\* compare_exchange_weak also fails spuriously; it then changes nothing.
RetrySlot(c) == active # seenActive /\ ReserveFrom(c, "cas")

\* Mutant: a store of the loaded value plus one, where the code compares first.
ReserveSlotStore ==
  /\ ListenerStep("cas", "spawn")
  /\ active' = seenActive + 1
  /\ UNCHANGED <<seenActive, workers, stage>>

\* Mutant: the slot is checked and never counted.
ReserveSlotUncounted ==
  /\ ListenerStep("cas", "spawn")
  /\ UNCHANGED <<active, seenActive, workers, stage>>

ReserveSlot ==
  /\ active = seenActive
  /\ ListenerStep("cas", "spawn")
  /\ active' = active + 1
  /\ UNCHANGED <<seenActive, workers, stage>>

Spawn(c) ==
  /\ ListenerStep("spawn", "poll")
  /\ stage[c] = "accepted"
  /\ stage' = [stage EXCEPT ![c] = "head"]
  /\ workers' = workers \cup {c}
  /\ UNCHANGED <<active, seenActive>>

\* thread::spawn panics when the system has no thread to give: the closure is
\* dropped with the stream, the ConnectionSlot never existed, the loop unwinds.
SpawnPanics(c) ==
  /\ ListenerStep("spawn", "failed")
  /\ stage[c] = "accepted"
  /\ Refuse(c)
  /\ UNCHANGED <<active, seenActive, workers>>

JoinWorkers ==
  /\ \A c \in workers : stage[c] = "done"
  /\ ListenerStep("join", "returned")
  /\ workers' = {}
  /\ UNCHANGED <<active, seenActive, stage>>

\* main returns whatever serve returned, and the process ends with its threads.
Exit ==
  /\ up /\ listener \in {"returned", "failed"}
  /\ up' = FALSE
  /\ UNCHANGED <<shutdown, listenerVars, stage, available, requestVars>>

----------------------------------------------------------------------------
(* A worker thread up to its answer, serve_connection.                     *)

Record(c) == records' = [records EXCEPT ![c] = @ + 1]

\* GenerationPermit::drop.
DropPermit(c) ==
  /\ permit' = [permit EXCEPT ![c] = FALSE]
  /\ available' = available + 1

\* read_http_head fails: the connection ends without a request.
HeadFails(c) ==
  /\ WorkerStep(c, "head", "close")
  /\ UNCHANGED <<active, available, requestVars>>

\* /health, /v1/models, 404, 401 and 415: answered from the head alone.
AnswerHead(c) ==
  /\ WorkerStep(c, "head", "write")
  /\ Record(c)
  /\ UNCHANGED <<active, available, seenFree, permit, watchVars>>

\* An authenticated chat request of the right media type reaches try_acquire.
AdmitChat(c) ==
  /\ WorkerStep(c, "head", "load")
  /\ UNCHANGED <<active, available, requestVars>>

\* Mutant: zero is not looked at.
NeverExhausted == FALSE

\* Mutant: the last permit is never given out.
ExhaustedEarly == available <= 1

\* The comparison in try_acquire, on the value just loaded.
Exhausted == available = 0

\* A load, or a failed compare-exchange, then the top of the loop: 503 or try.
AcquireFrom(c, where) ==
  /\ IF Exhausted
       THEN WorkerStep(c, where, "write") /\ Record(c) /\ UNCHANGED seenFree
       ELSE /\ WorkerStep(c, where, "cas")
            /\ seenFree' = [seenFree EXCEPT ![c] = available]
            /\ UNCHANGED records
  /\ UNCHANGED <<active, available, permit, watchVars>>

LoadAvailable(c) == AcquireFrom(c, "load")

\* Mutant: a store of the loaded value less one.
TakePermitStore(c) ==
  /\ WorkerStep(c, "cas", "watch")
  /\ available' = seenFree[c] - 1
  /\ permit' = [permit EXCEPT ![c] = TRUE]
  /\ UNCHANGED <<active, seenFree, watchVars, records>>

TakePermit(c) ==
  /\ available = seenFree[c]
  /\ WorkerStep(c, "cas", "watch")
  /\ available' = available - 1
  /\ permit' = [permit EXCEPT ![c] = TRUE]
  /\ UNCHANGED <<active, seenFree, watchVars, records>>

RetryPermit(c) == available # seenFree[c] /\ AcquireFrom(c, "cas")

\* DisconnectWatcher::start; with no second descriptor there is no watcher.
StartWatcher(c) ==
  /\ WorkerStep(c, "watch", "body")
  /\ \E w \in {"polling", "none"} : watcher' = [watcher EXCEPT ![c] = w]
  /\ UNCHANGED <<active, available, seenFree, permit, cancelled, peer, records>>

\* Its thread::spawn panics: unwinding drops the permit, then the stream.
WatcherPanics(c) ==
  /\ WorkerStep(c, "watch", "close")
  /\ DropPermit(c)
  /\ UNCHANGED <<active, seenFree, watchVars, records>>

\* A materialized answer to an admitted request: the permit is back and the
\* record is out before the first byte is written.
AnswerFrom(c, where) ==
  /\ WorkerStep(c, where, "write")
  /\ DropPermit(c)
  /\ Record(c)
  /\ UNCHANGED <<active, seenFree, watchVars>>

\* 413, or 408.
BodyRefused(c) == AnswerFrom(c, "body")

BodyBuffered(c) ==
  /\ WorkerStep(c, "body", "work")
  /\ UNCHANGED <<active, available, requestVars>>

\* The request was invalid, or its route answered or was exhausted: every path
\* of handle_admitted_socket_chat that ends in a materialized response.
AnswerChat(c) == AnswerFrom(c, "work")

\* dispatch_stream_route selected a stream; SocketStreamDelivery owns the permit.
CommitStream(c) ==
  /\ ~cancelled[c]
  /\ WorkerStep(c, "work", "stream")
  /\ UNCHANGED <<active, available, requestVars>>

----------------------------------------------------------------------------
(* Delivery of a stream, write_sse_stream, and the end of every worker.    *)

\* The flag is clear, and stream.next() blocks.
PullChunk(c) ==
  /\ ~cancelled[c]
  /\ WorkerStep(c, "stream", "pull")
  /\ UNCHANGED <<active, available, requestVars>>

ChunkArrives(c) ==
  /\ WorkerStep(c, "pull", "stream")
  /\ UNCHANGED <<active, available, requestVars>>

\* The end of write_to: the record is logged, then the delivery is dropped.
FinishStream(c) ==
  /\ WorkerStep(c, "stream", "unwatch")
  /\ Record(c)
  /\ DropPermit(c)
  /\ UNCHANGED <<active, seenFree, watcher, peer>>

\* The loop finds the flag set, before or after stream.next().
StreamSeesCancellation(c) ==
  /\ cancelled[c]
  /\ FinishStream(c)
  /\ UNCHANGED cancelled

\* A write of the head, of an event or of [DONE] fails.
StreamWriteFails(c) ==
  /\ FinishStream(c)
  /\ cancelled' = [cancelled EXCEPT ![c] = TRUE]

\* The upstream ended, failed, misbehaved or idled too long.
StreamEnds(c) == FinishStream(c) /\ UNCHANGED cancelled

\* Mutant: the completion is logged a second time once the bytes are out.
WriteResponseLogs(c) ==
  /\ WorkerStep(c, "write", "unwatch")
  /\ Record(c)
  /\ UNCHANGED <<active, available, seenFree, permit, watchVars>>

\* write_http_response returns, its result ignored.
WriteResponse(c) ==
  /\ WorkerStep(c, "write", "unwatch")
  /\ UNCHANGED <<active, available, requestVars>>

\* Mutant: the watcher is told to stop and not waited for.
JoinNothing(c) ==
  /\ WorkerStep(c, "unwatch", "close")
  /\ UNCHANGED <<active, available, requestVars>>

\* DisconnectWatcher::drop has set the stop flag; it joins the thread, if any.
JoinWatcher(c) ==
  /\ watcher[c] # "polling"
  /\ WorkerStep(c, "unwatch", "close")
  /\ UNCHANGED <<active, available, requestVars>>

\* ConnectionSlot::drop, after the stream is closed; the thread is finished.
ReleaseSlot(c) ==
  /\ WorkerStep(c, "close", "done")
  /\ active' = active - 1
  /\ UNCHANGED <<available, requestVars>>

----------------------------------------------------------------------------
(* A watcher thread: one turn of its loop.                                 *)

\* Mutant: the end of file stops the watcher and tells no one.
WatcherLeaves(c) ==
  /\ WatcherStep(c)
  /\ peer[c] = "closed"
  /\ watcher' = [watcher EXCEPT ![c] = "exited"]
  /\ UNCHANGED <<cancelled, peer>>

WatcherSeesClose(c) ==
  /\ WatcherStep(c)
  /\ peer[c] = "closed"
  /\ cancelled' = [cancelled EXCEPT ![c] = TRUE]
  /\ watcher' = [watcher EXCEPT ![c] = "exited"]
  /\ UNCHANGED peer

\* Mutant: the stop flag is stored after the join instead of before it.
WatcherStopsLate(c) ==
  /\ WatcherStep(c)
  /\ stage[c] = "close"
  /\ watcher' = [watcher EXCEPT ![c] = "exited"]
  /\ UNCHANGED <<cancelled, peer>>

WatcherStops(c) ==
  /\ WatcherStep(c)
  /\ stage[c] = "unwatch"
  /\ watcher' = [watcher EXCEPT ![c] = "exited"]
  /\ UNCHANGED <<cancelled, peer>>

----------------------------------------------------------------------------
Environment(c) == Connect(c) \/ PeerCloses(c)

AcceptLoop(c) ==
  \/ Accept(c) \/ Recheck(c) \/ LoadActive(c) \/ RetrySlot(c) \/ Spawn(c)
  \/ SpawnPanics(c)

Listener ==
  \/ LeaveLoop \/ EnterLoop \/ AcceptNothing \/ AcceptFails \/ ReserveSlot
  \/ JoinWorkers \/ Exit
  \/ \E c \in Conns : AcceptLoop(c)

Admission(c) ==
  \/ HeadFails(c) \/ AnswerHead(c) \/ AdmitChat(c)
  \/ LoadAvailable(c) \/ TakePermit(c) \/ RetryPermit(c)

Generation(c) ==
  \/ StartWatcher(c) \/ WatcherPanics(c) \/ BodyRefused(c) \/ BodyBuffered(c)
  \/ AnswerChat(c) \/ CommitStream(c)

Delivery(c) ==
  \/ PullChunk(c) \/ ChunkArrives(c)
  \/ StreamSeesCancellation(c) \/ StreamWriteFails(c) \/ StreamEnds(c)

Teardown(c) == WriteResponse(c) \/ JoinWatcher(c) \/ ReleaseSlot(c)

Worker(c) == Admission(c) \/ Generation(c) \/ Delivery(c) \/ Teardown(c)

Watcher(c) == WatcherSeesClose(c) \/ WatcherStops(c)

Next ==
  \/ RequestShutdown
  \/ Listener
  \/ \E c \in Conns : Environment(c) \/ Worker(c) \/ Watcher(c)

Spec == Init /\ [][Next]_vars

(***************************************************************************)
(* Threads that can step do step: the scheduler is fair, and every read    *)
(* and write of the client's socket has a timeout.  A stream need not end, *)
(* for a progressing one has no total limit.  Clients and signals owe      *)
(* nothing.                                                                *)
(***************************************************************************)
ThreadFairness ==
  /\ WF_vars(Listener)
  /\ \A c \in Conns :
       /\ WF_vars(Admission(c) \/ StartWatcher(c) \/ WatcherPanics(c))
       /\ WF_vars(BodyRefused(c) \/ BodyBuffered(c))
       /\ WF_vars(PullChunk(c) \/ StreamSeesCancellation(c))
       /\ WF_vars(Teardown(c))
       /\ WF_vars(Watcher(c))

(***************************************************************************)
(* An assumption about the upstream, not about this code: a blocking       *)
(* provider call returns.  Each read of it times out, but one call may     *)
(* read any number of keepalives; Delivery.tla looks at those.             *)
(***************************************************************************)
UpstreamReturns ==
  \A c \in Conns : /\ WF_vars(AnswerChat(c) \/ CommitStream(c))
                   /\ WF_vars(ChunkArrives(c))

FairSpec == Spec /\ ThreadFairness /\ UpstreamReturns

----------------------------------------------------------------------------
(* Properties.                                                             *)

\* The variables hold values of the types the code gives them.
TypeOK ==
  /\ up \in BOOLEAN
  /\ shutdown \in BOOLEAN
  /\ listener \in ListenerStages
  /\ active \in Nat
  /\ seenActive \in Nat
  /\ workers \subseteq Conns
  /\ stage \in [Conns -> Stages]
  /\ available \in Nat
  /\ seenFree \in [Conns -> Nat]
  /\ permit \in [Conns -> BOOLEAN]
  /\ watcher \in [Conns -> {"none", "polling", "exited"}]
  /\ cancelled \in [Conns -> BOOLEAN]
  /\ peer \in [Conns -> {"open", "closed", "masked"}]
  /\ records \in [Conns -> Nat]

\* No path of serve_connection (early answer, body error, panic, any end of a
\* stream) loses a generation permit or returns one twice, however the
\* compare-exchange loops of the workers interleave.
PermitsConserved == available + Cardinality(PermitHolders) = MaxInFlight

\* The slot count equals the live workers, plus the one the listener is about
\* to spawn.  (A panicking spawn leaks a slot, but ends the process.)
SlotsConserved == listener # "failed" => active = Cardinality(SlotHolders)

\* Never more than max_in_flight requests buffer a body, talk to an upstream or
\* hold a selected stream.
GenerationsBounded ==
  Cardinality({c \in Conns : stage[c] \in Admitted}) <= MaxInFlight

\* A watcher "never becomes detached background work": it is gone before its
\* worker closes the connection.
NoDetachedWatcher ==
  \A c \in Conns : watcher[c] = "polling" =>
    stage[c] \in {"body", "work", "stream", "pull", "write", "unwatch"}

\* run_listener returns Ok only when no connection it ever accepted is being
\* served: reaping forgets no running worker.
ReturnsQuiet == listener = "returned" => Serving = {}

\* Exactly one completion record per request that was read, logged before the
\* response is written or the stream is dropped; never two.
OneRecord ==
  \A c \in Conns :
    /\ records[c] <= 1
    /\ stage[c] \in {"write", "unwatch"} => records[c] = 1
    /\ stage[c] \in Admitted \cup {"head", "load", "cas"} => records[c] = 0

\* A 503 is given only at a moment when max_in_flight other requests hold their
\* permits: stale values of the counter never turn a request away.
RejectsOnlyWhenFull ==
  [][\A c \in Conns :
       stage[c] \in {"load", "cas"} /\ stage'[c] = "write"
         => Cardinality(PermitHolders \ {c}) = MaxInFlight]_vars

\* A connection that is not accepted when shutdown is requested is never served,
\* though accept may already be on its way to return it.
NoLateService ==
  \A c \in Conns :
    [](shutdown /\ stage[c] \in Unaccepted => [](stage[c] \notin Served))

\* A disconnect the watcher can see gives the permit back, in whatever phase of
\* the request it comes and however long the stream would have gone on.
DisconnectReleases ==
  \A c \in Conns :
    (watcher[c] = "polling" /\ peer[c] = "closed") ~> (~permit[c] \/ ~up)

\* Shutdown ends the process, unless some stream goes on for ever.
ShutdownDrains ==
  shutdown ~> (~up \/ \E c \in Conns : stage[c] \in {"stream", "pull"})

\* "A worker owns an already accepted request or stream and is allowed to make
\* progress until its normal completion" (the comment above the joins): the
\* process does not end under a running worker.
WorkersComplete == ~up => Serving = {}

----------------------------------------------------------------------------
(* Both counters implement the abstract pool.                              *)

Permits == INSTANCE BoundedPool
             WITH Client <- Conns, Limit <- MaxInFlight, held <- PermitHolders

Slots == INSTANCE BoundedPool
           WITH Client <- Conns, Limit <- MaxWorkers, held <- SlotHolders

PermitPool == Permits!Spec
SlotPool   == Slots!Spec
============================================================================
