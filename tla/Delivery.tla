----------------------------- MODULE Delivery -----------------------------
(***************************************************************************)
(* The delivery of a committed stream: SocketStreamDelivery::write_to,     *)
(* write_sse_stream and the gate StreamSuccessState.  The worker alternates *)
(* between the upstream's iterator and the client's socket, and looks at   *)
(* the cancellation flag and at the idle deadline on both sides of the     *)
(* iterator's next, each look a step of its own.                           *)
(*                                                                         *)
(* The upstream is free: it may send any canonical chunk in any order,     *)
(* fail, end, or keep the iterator busy with events that are no chunk.     *)
(***************************************************************************)
EXTENDS Integers, Sequences, SequencesExt

CONSTANTS
  IdleTimeout,   \* request_timeout of the selected target
  Horizon        \* bound of the model: the clock stops here

ASSUME DeliveryAssumption == IdleTimeout \in Nat \ {0} /\ Horizon \in Nat

VARIABLES
  now,           \* MonotonicClock
  cancelled,     \* DownstreamCancellation
  includeUsage,  \* the client asked for the usage chunk
  pc,            \* the next read, call or write of the worker
  item,          \* what the worker is about to write, or has been given
  terminal,      \* StreamSuccessState
  usageSeen,
  idleDeadline,
  wire,          \* what the socket took, a run of deltas written as one
  outcome,       \* StreamCompletionOutcome
  gotAt,         \* history: when next returned the item
  gotGone,       \* history: whether the flag was set by then
  progressAt     \* history: when the last ordinary chunk was out

environmentVars == <<now, cancelled, includeUsage>>
stateVars   == <<terminal, usageSeen>>
historyVars == <<gotAt, gotGone, progressAt>>
vars == <<environmentVars, pc, item, stateVars, idleDeadline, wire, outcome, historyVars>>

----------------------------------------------------------------------------
(***************************************************************************)
(* The items of the iterator.  "alien" is a chunk that accept refuses for  *)
(* itself: other metadata, no choice and no usage, a usage that does not   *)
(* add up, a second choice, a foreign role, or nothing in it.              *)
(***************************************************************************)
Ordinary == {"delta", "finish"}
Chunks   == Ordinary \cup {"usage", "alien"}
Items    == Chunks \cup {"error", "end"}

\* What the iterator may read before it has an item: a comment, metadata, an
\* empty delta, an event the adapter consumes.
Quiet == "quiet"

\* Two looks at the flag and two at the clock, and what comes after each.
FlagReads == [flag |-> "clock", flag_again |-> "clock_again"]
IdleReads == [clock |-> "next", clock_again |-> "match"]

Points == {"head", "first", "next", "event", "match", "write", "done", "returned"}
            \cup DOMAIN FlagReads \cup DOMAIN IdleReads

\* dispatch_stream_route has validated the first chunk; it may finish the answer.
Init ==
  /\ now = 0
  /\ cancelled \in BOOLEAN
  /\ includeUsage \in BOOLEAN
  /\ pc = "head"
  /\ item \in Ordinary
  /\ terminal = (item = "finish")
  /\ usageSeen = FALSE
  /\ idleDeadline = 0
  /\ wire = <<>>
  /\ outcome = "none"
  /\ gotAt = 0
  /\ gotGone = FALSE
  /\ progressAt = 0

----------------------------------------------------------------------------
(* The environment: time passes, and the watcher reports a disconnect.     *)

Tick ==
  /\ now < Horizon
  /\ now' = now + 1
  /\ UNCHANGED <<cancelled, includeUsage, pc, item, stateVars, idleDeadline, wire, outcome,
                 historyVars>>

Disconnect ==
  /\ ~cancelled
  /\ cancelled' = TRUE
  /\ UNCHANGED <<now, includeUsage, pc, item, stateVars, idleDeadline, wire, outcome,
                 historyVars>>

----------------------------------------------------------------------------
(* The worker.                                                             *)

Goto(from, to) ==
  /\ pc = from
  /\ pc' = to
  /\ UNCHANGED <<now, includeUsage>>

Finish(from, how) ==
  /\ Goto(from, "returned")
  /\ outcome' = how
  /\ UNCHANGED <<item, stateVars, idleDeadline, historyVars>>

\* A run of deltas is one delta on the model's wire.
Sent(what) ==
  wire' = IF wire # <<>> /\ Last(wire) = what /\ what = "delta" THEN wire
          ELSE Append(wire, what)

\* A write that fails may have sent a part, and cancels the upstream.
WriteFails(from) ==
  /\ Finish(from, "client_disconnected")
  /\ cancelled' = TRUE
  /\ \/ Sent("torn")
     \/ UNCHANGED wire

WriteHead ==
  /\ Goto("head", "first")
  /\ UNCHANGED <<cancelled, item, stateVars, idleDeadline, wire, outcome, historyVars>>

\* Mutant: the deadline lies before the write.
WriteFirstBefore ==
  /\ Goto("first", "flag")
  /\ Sent(item)
  /\ idleDeadline' = now - IdleTimeout
  /\ progressAt' = now
  /\ UNCHANGED <<cancelled, item, stateVars, outcome, gotAt, gotGone>>

WriteFirst ==
  /\ Goto("first", "flag")
  /\ Sent(item)
  /\ idleDeadline' = now + IdleTimeout
  /\ progressAt' = now
  /\ UNCHANGED <<cancelled, item, stateVars, outcome, gotAt, gotGone>>

\* Mutant: nothing looks at the flag.
SeeNoFlag(at) ==
  /\ Goto(at, FlagReads[at])
  /\ UNCHANGED <<cancelled, item, stateVars, idleDeadline, wire, outcome, historyVars>>

\* Mutant: the flag is looked at before next and not after it.
SeeFlagBefore(at) ==
  IF cancelled /\ at = "flag"
    THEN Finish(at, "client_disconnected") /\ UNCHANGED <<cancelled, wire>>
    ELSE /\ Goto(at, FlagReads[at])
         /\ UNCHANGED <<cancelled, item, stateVars, idleDeadline, wire, outcome, historyVars>>

SeeFlag(at) ==
  IF cancelled
    THEN Finish(at, "client_disconnected") /\ UNCHANGED <<cancelled, wire>>
    ELSE /\ Goto(at, FlagReads[at])
         /\ UNCHANGED <<cancelled, item, stateVars, idleDeadline, wire, outcome, historyVars>>

SeeIdle(at) ==
  IF now >= idleDeadline
    THEN Finish(at, "upstream_failed") /\ UNCHANGED <<cancelled, wire>>
    ELSE /\ Goto(at, IdleReads[at])
         /\ UNCHANGED <<cancelled, item, stateVars, idleDeadline, wire, outcome, historyVars>>

\* Inside next: the iterator reads the next event of the upstream.
ReadEvent ==
  /\ Goto("next", "event")
  /\ item' \in Items \cup {Quiet}
  /\ UNCHANGED <<cancelled, stateVars, idleDeadline, wire, outcome, historyVars>>

\* An event that is no chunk is consumed, and the iterator reads on.
ReadOn ==
  /\ item = Quiet
  /\ Goto("event", "next")
  /\ UNCHANGED <<cancelled, item, stateVars, idleDeadline, wire, outcome, historyVars>>

NextReturns ==
  /\ item # Quiet
  /\ Goto("event", "flag_again")
  /\ gotAt' = now
  /\ gotGone' = cancelled
  /\ UNCHANGED <<cancelled, item, stateVars, idleDeadline, wire, outcome, progressAt>>

\* Mutant: an answer that has ended is not closed to further chunks.
AcceptsOpen(chunk) ==
  \/ chunk \in Ordinary
  \/ chunk = "usage" /\ includeUsage /\ ~usageSeen /\ terminal

\* StreamSuccessState::accept.
Accepts(chunk) ==
  \/ chunk \in Ordinary /\ ~terminal
  \/ chunk = "usage" /\ includeUsage /\ ~usageSeen /\ terminal

\* Mutant: the finish is remembered for one chunk only.
AcceptForgets ==
  /\ Accepts(item)
  /\ Goto("match", "write")
  /\ terminal' = (item = "finish")
  /\ usageSeen' = (usageSeen \/ item = "usage")
  /\ UNCHANGED <<cancelled, item, idleDeadline, wire, outcome, historyVars>>

Accept ==
  /\ Accepts(item)
  /\ Goto("match", "write")
  /\ terminal' = (terminal \/ item = "finish")
  /\ usageSeen' = (usageSeen \/ item = "usage")
  /\ UNCHANGED <<cancelled, item, idleDeadline, wire, outcome, historyVars>>

\* A chunk the gate refuses, an error, or an end without a finished answer.
Refuse ==
  /\ IF item = "end" THEN ~terminal ELSE ~Accepts(item)
  /\ Finish("match", "upstream_failed")
  /\ UNCHANGED <<cancelled, wire>>

EndOfStream ==
  /\ item = "end" /\ terminal
  /\ Goto("match", "done")
  /\ UNCHANGED <<cancelled, item, stateVars, idleDeadline, wire, outcome, historyVars>>

\* Mutant: whatever is written counts as progress.
WriteChunkResets ==
  /\ Goto("write", "flag")
  /\ Sent(item)
  /\ idleDeadline' = now + IdleTimeout
  /\ progressAt' = IF item \in Ordinary THEN now ELSE progressAt
  /\ UNCHANGED <<cancelled, item, stateVars, outcome, gotAt, gotGone>>

\* A chunk with a choice in it is progress, a usage chunk is not.
WriteChunk ==
  /\ Goto("write", "flag")
  /\ Sent(item)
  /\ IF item \in Ordinary
       THEN idleDeadline' = now + IdleTimeout /\ progressAt' = now
       ELSE UNCHANGED <<idleDeadline, progressAt>>
  /\ UNCHANGED <<cancelled, item, stateVars, outcome, gotAt, gotGone>>

\* Mutant: the end marker is written and the write not looked at.
WriteDoneUnchecked ==
  /\ Finish("done", "completed")
  /\ \E what \in {"DONE", "torn"} : Sent(what)
  /\ UNCHANGED cancelled

WriteDone ==
  /\ Finish("done", "completed")
  /\ Sent("DONE")
  /\ UNCHANGED cancelled

----------------------------------------------------------------------------
Looks ==
  \/ \E at \in DOMAIN FlagReads : SeeFlag(at)
  \/ \E at \in DOMAIN IdleReads : SeeIdle(at)

Writes ==
  \/ WriteHead \/ WriteFirst \/ WriteChunk \/ WriteDone
  \/ \E from \in {"head", "first", "write", "done"} : WriteFails(from)

Match == Accept \/ Refuse \/ EndOfStream

Iterator == ReadEvent \/ ReadOn \/ NextReturns

Next == Tick \/ Disconnect \/ Looks \/ Writes \/ Match \/ Iterator

Spec == Init /\ [][Next]_vars

\* The worker runs (a blocked write times out), time passes, and every read of the
\* upstream comes back with something.
FairSpec == Spec /\ WF_vars(Looks \/ Writes \/ Match) /\ WF_vars(Tick)
                 /\ WF_vars(Iterator)

----------------------------------------------------------------------------
(* Properties.                                                             *)

\* The variables hold values of the types the code gives them.
TypeOK ==
  /\ now \in Nat /\ idleDeadline \in Nat /\ gotAt \in Nat /\ progressAt \in Nat
  /\ {cancelled, includeUsage, terminal, usageSeen, gotGone} \subseteq BOOLEAN
  /\ pc \in Points
  /\ item \in Items \cup {Quiet}
  /\ wire \in Seq(Ordinary \cup {"usage", "DONE", "torn"})
  /\ outcome \in {"none", "completed", "client_disconnected", "upstream_failed"}

\* What the client can read is a prefix of one well-formed answer, whatever order
\* the upstream sends its chunks in: nothing but a usage chunk follows the finish,
\* that one at most once and only if asked for, and nothing follows [DONE] or a
\* write that failed.
WireWellFormed ==
  \A i, j \in 1 .. Len(wire) : i < j =>
    /\ wire[i] \notin {"DONE", "torn"}
    /\ wire[i] = "finish" => wire[j] \in {"usage", "DONE", "torn"}
    /\ wire[i] = "usage" => wire[j] \in {"DONE", "torn"}
    /\ wire[j] \in {"usage", "DONE"} => \E k \in 1 .. j : wire[k] = "finish"
    /\ wire[j] = "usage" => includeUsage

\* The outcome in the completion record agrees with what the client was sent:
\* "completed" exactly when [DONE] went out whole, an upstream failure only on an
\* unfinished wire, a disconnect only when the flag was set.
OutcomeHonest ==
  /\ outcome = "completed" <=> (wire # <<>> /\ Last(wire) = "DONE")
  /\ outcome = "client_disconnected" => cancelled
  /\ outcome = "upstream_failed" => "torn" \notin {wire[i] : i \in 1 .. Len(wire)}

\* What goes out came within the idle time of the last ordinary chunk, which neither
\* a usage chunk nor a keepalive extends, and before the client had gone, though both
\* are looked at on either side of a blocking next (write_sse_stream 2135-2148).
NothingStale ==
  pc \in {"write", "done"} => gotAt - progressAt < IdleTimeout /\ ~gotGone

\* A disconnect ends the delivery of an upstream that does send chunks.
DisconnectEndsDelivery == cancelled ~> outcome # "none"

\* "A committed stream that exceeds this idle timeout is closed without fallback",
\* and "native keepalives, comments, metadata [...] do not reset it".
IdleCloses == (pc \in {"next", "event"} /\ now >= idleDeadline) ~> outcome # "none"
============================================================================
