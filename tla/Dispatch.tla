----------------------------- MODULE Dispatch -----------------------------
(***************************************************************************)
(* The router of one generation request: dispatch_route for an answer in   *)
(* one piece, dispatch_stream_route for a stream, and block_on_until, which *)
(* both drive the provider's future with.                                  *)
(*                                                                         *)
(* The worker reads the clock and the cancellation flag again and again.   *)
(* Each read is a step here, because the clock moves and the watcher sets  *)
(* the flag between any two of them.  What an upstream answers is a free   *)
(* choice, and so is how long it takes.                                    *)
(***************************************************************************)
EXTENDS Integers, Sequences

CONSTANTS
  Entries,        \* the number of targets in the route
  TargetTimeout,  \* request_timeout of each target
  OverallTimeout, \* general_settings.overall_timeout
  Horizon         \* bound of the model: the clock stops here

ASSUME DispatchAssumption ==
  /\ Entries \in Nat \ {0}
  /\ TargetTimeout \in [1 .. Entries -> Nat \ {0}]
  /\ OverallTimeout \in Nat \ {0}
  /\ Horizon \in Nat

VARIABLES
  mode,            \* "complete" or "stream": which of the two functions runs
  now,             \* MonotonicClock, zero when the function is entered
  cancelled,       \* DownstreamCancellation
  pc,              \* the next read, call or match of the worker
  entry,           \* route_index + 1
  attemptDeadline,
  running,         \* the entry's operation was polled and is not dropped
  answer,          \* what the future or the iterator returned
  attempts,        \* the outcomes of the AttemptRecords, one per entry
  result,          \* what the function returned
  invoked,         \* history: the entries whose operation was ever polled
  answeredAt       \* history: when the last answer came

environmentVars == <<now, cancelled>>
historyVars     == <<invoked, answeredAt>>
attemptVars     == <<entry, attemptDeadline, running, attempts, result>>
vars == <<mode, environmentVars, pc, answer, attemptVars, historyVars>>

overallDeadline == OverallTimeout

SmallerOf(a, b) == IF a <= b THEN a ELSE b

----------------------------------------------------------------------------
(***************************************************************************)
(* The points where the worker looks at the flag, at the clock against the *)
(* deadline of the route, and at the clock against that of the attempt,    *)
(* each with the point that follows when there is nothing to be seen.      *)
(***************************************************************************)

\* Mutant: the future is polled before the deadlines are looked at.
FlagReadsPollFirst ==
  [top |-> "top_clock", built |-> "loop", loop |-> "poll",
   selected |-> "selected_clock", chunk |-> "chunk_limit"]

FlagReads ==
  [top |-> "top_clock", built |-> "loop", loop |-> "loop_clock",
   selected |-> "selected_clock", chunk |-> "chunk_limit"]

\* Mutant: an answer is checked against the deadline of the route only.
OverallReadsOnly ==
  [top_clock |-> "start", loop_clock |-> "loop_limit", ready |-> "settle",
   selected_clock |-> "selected_limit", pulled |-> "chunk"]

OverallReads ==
  [top_clock |-> "start", loop_clock |-> "loop_limit", ready |-> "ready_limit",
   selected_clock |-> "selected_limit", pulled |-> "chunk"]

LimitReads ==
  [loop_limit |-> "poll", ready_limit |-> "settle",
   selected_limit |-> "pull", chunk_limit |-> "judge"]

\* Where it makes a call, waits for one, or looks at an answer.
Calls == {"start", "poll", "polling", "settle", "pull", "pulling", "judge"}

Points ==
  {"returned"} \cup Calls
    \cup DOMAIN FlagReads \cup DOMAIN OverallReads \cup DOMAIN LimitReads

Outcomes == {"failed", "timeout", "cancelled", "succeeded"}

Init ==
  /\ mode \in {"complete", "stream"}
  /\ now = 0
  /\ cancelled \in BOOLEAN
  /\ pc = "top"
  /\ entry = 1
  /\ attemptDeadline = 0
  /\ running = FALSE
  /\ answer = "none"
  /\ attempts = <<>>
  /\ result = "none"
  /\ invoked = {}
  /\ answeredAt = 0

----------------------------------------------------------------------------
(* The environment: time passes, and the watcher reports a disconnect.     *)

Tick ==
  /\ now < Horizon
  /\ now' = now + 1
  /\ UNCHANGED <<mode, cancelled, pc, answer, attemptVars, historyVars>>

Disconnect ==
  /\ ~cancelled
  /\ cancelled' = TRUE
  /\ UNCHANGED <<mode, now, pc, answer, attemptVars, historyVars>>

----------------------------------------------------------------------------
(* The worker.                                                             *)

Goto(from, to) ==
  /\ pc = from
  /\ pc' = to
  /\ UNCHANGED <<mode, environmentVars>>

Record(outcome) == attempts' = Append(attempts, outcome)

\* The function returns, and drops the future or the stream it does not return.
Return(verdict) ==
  /\ result' = verdict
  /\ running' = FALSE
  /\ UNCHANGED <<entry, attemptDeadline, answer, historyVars>>

\* Mutant: an entry that fails is tried once more.
FailRetries(from, outcome) ==
  /\ Goto(from, "top")
  /\ Record(outcome)
  /\ entry' = IF Len(attempts) = 0 THEN entry ELSE entry + 1
  /\ running' = FALSE
  /\ UNCHANGED <<attemptDeadline, answer, result, historyVars>>

\* Mutant: the loop counter is advanced by the failure and by the loop.
FailSkips(from, outcome) ==
  /\ Goto(from, "top")
  /\ Record(outcome)
  /\ entry' = entry + 2
  /\ running' = FALSE
  /\ UNCHANGED <<attemptDeadline, answer, result, historyVars>>

\* failed_attempt, and on to the next entry.
Fail(from, outcome) ==
  /\ Goto(from, "top")
  /\ Record(outcome)
  /\ entry' = entry + 1
  /\ running' = FALSE
  /\ UNCHANGED <<attemptDeadline, answer, result, historyVars>>

\* The for loop is over.
RouteEnds ==
  /\ entry > Entries
  /\ Goto("top", "returned")
  /\ Return("exhausted")
  /\ UNCHANGED attempts

SeeFlag(at) ==
  /\ at = "top" => entry <= Entries
  /\ IF cancelled
       THEN /\ Goto(at, "returned")
            /\ Return("cancelled")
            /\ IF at \in {"top", "built"} THEN UNCHANGED attempts ELSE Record("cancelled")
       ELSE /\ Goto(at, FlagReads[at])
            /\ UNCHANGED <<answer, attemptVars, historyVars>>

\* The route's deadline leaves no record of the attempt it cuts short.
SeeOverall(at) ==
  IF now >= overallDeadline
    THEN Goto(at, "returned") /\ Return("overall_timeout") /\ UNCHANGED attempts
    ELSE Goto(at, OverallReads[at]) /\ UNCHANGED <<answer, attemptVars, historyVars>>

SeeLimit(at) ==
  IF now >= attemptDeadline
    THEN Fail(at, "timeout")
    ELSE Goto(at, LimitReads[at]) /\ UNCHANGED <<answer, attemptVars, historyVars>>

\* Mutant: the flag is not read between the construction and the first poll.
FirstReadUnchecked == "loop_clock"

\* dispatch_stream_route does not read the flag again before block_on_until does.
FirstRead == IF mode = "complete" THEN "built" ELSE "loop"

\* The provider is built, its operation called, and the clock read in between.
Start ==
  IF now >= overallDeadline
    THEN Goto("start", "returned") /\ Return("overall_timeout") /\ UNCHANGED attempts
    ELSE /\ Goto("start", FirstRead)
         /\ attemptDeadline' = SmallerOf(now + TargetTimeout[entry], overallDeadline)
         /\ UNCHANGED <<entry, running, answer, attempts, result, historyVars>>

\* The future is polled; an adapter does all of its blocking work in there.
Poll ==
  /\ Goto("poll", "polling")
  /\ running' = TRUE
  /\ invoked' = invoked \cup {entry}
  /\ UNCHANGED <<entry, attemptDeadline, answer, attempts, result, answeredAt>>

\* Mutant: a pending future is polled again without a look at anything.
PollPendingAgain ==
  /\ Goto("polling", "poll")
  /\ UNCHANGED <<answer, attemptVars, historyVars>>

PollPending ==
  /\ Goto("polling", "loop")
  /\ UNCHANGED <<answer, attemptVars, historyVars>>

Answers(from, to) ==
  /\ Goto(from, to)
  /\ answer' \in {"good", "bad"}
  /\ answeredAt' = now
  /\ UNCHANGED <<attemptVars, invoked>>

PollReady == Answers("polling", "ready")

\* The answer of the future is matched: a response, a stream, or an error.
Settle ==
  \/ /\ answer = "good" /\ mode = "complete"
     /\ Goto("settle", "returned")
     /\ Return("selected")
     /\ Record("succeeded")
  \/ /\ answer = "good" /\ mode = "stream"
     /\ Goto("settle", "selected")
     /\ UNCHANGED <<answer, attemptVars, historyVars>>
  \/ answer = "bad" /\ Fail("settle", "failed")

\* stream.next() for the first chunk.
Pull ==
  /\ Goto("pull", "pulling")
  /\ UNCHANGED <<answer, attemptVars, historyVars>>

PullReturns == Answers("pulling", "pulled")

\* Mutant: a first chunk that is no first chunk commits the stream.
JudgeAnything ==
  /\ Goto("judge", "returned")
  /\ Return("selected")
  /\ Record("succeeded")

\* A valid first chunk of the requested model; a "bad" one is any other chunk,
\* an error, or the end of the stream.
Judge ==
  \/ /\ answer = "good"
     /\ Goto("judge", "returned")
     /\ Return("selected")
     /\ Record("succeeded")
  \/ answer = "bad" /\ Fail("judge", "failed")

----------------------------------------------------------------------------
Reads ==
  \/ \E at \in DOMAIN FlagReads : SeeFlag(at)
  \/ \E at \in DOMAIN OverallReads : SeeOverall(at)
  \/ \E at \in DOMAIN LimitReads : SeeLimit(at)

Worker ==
  \/ RouteEnds \/ Reads \/ Start \/ Poll \/ Settle \/ Pull \/ Judge

Upstream == PollPending \/ PollReady \/ PullReturns

Next == Tick \/ Disconnect \/ Worker \/ Upstream

Spec == Init /\ [][Next]_vars

(***************************************************************************)
(* The worker runs, time passes, and a blocking call of an adapter comes   *)
(* back.  The last is an assumption about the upstream; PollPending alone  *)
(* satisfies it, so a future that is never ready is among the behaviours.  *)
(***************************************************************************)
FairSpec == Spec /\ WF_vars(Worker) /\ WF_vars(Upstream) /\ WF_vars(Tick)

----------------------------------------------------------------------------
(* Properties.                                                             *)

\* The variables hold values of the types the code gives them.
TypeOK ==
  /\ mode \in {"complete", "stream"}
  /\ now \in Nat
  /\ cancelled \in BOOLEAN
  /\ pc \in Points
  /\ entry \in 1 .. Entries + 1
  /\ attemptDeadline \in Nat
  /\ running \in BOOLEAN
  /\ answer \in {"none", "good", "bad"}
  /\ attempts \in Seq(Outcomes)
  /\ result \in {"none", "selected", "exhausted", "overall_timeout", "cancelled"}
  /\ invoked \subseteq 1 .. Entries
  /\ answeredAt \in Nat

AllFailed(n) ==
  /\ Len(attempts) >= n
  /\ \A k \in 1 .. n : attempts[k] \in {"failed", "timeout"}

\* What is returned is what happened: "all configured upstream targets failed"
\* only after each of them did, a success only of the entry being tried, a timeout
\* or a disconnect only after it came; and the attempts before it all failed.
VerdictHonest ==
  /\ AllFailed(IF result = "exhausted" THEN Entries ELSE entry - 1)
  /\ result \in {"none", "exhausted", "overall_timeout"} => Len(attempts) = entry - 1
  /\ result = "exhausted" => entry = Entries + 1
  /\ result = "overall_timeout" => now >= overallDeadline
  /\ result = "cancelled" =>
       /\ cancelled
       /\ Len(attempts) # entry - 1 => attempts[entry] = "cancelled"
  /\ result = "selected" =>
       /\ answer = "good"
       /\ Len(attempts) = entry
       /\ attempts[entry] = "succeeded"

\* An answer is used only if it came inside the attempt's time and the route's,
\* however the clock moves between the answer and the looks at the clock.
AnswersInTime ==
  result = "selected" => answeredAt < attemptDeadline /\ answeredAt < overallDeadline

\* Once the client has gone, no operation is begun but the one whose last look at
\* the flag is past: a disconnect stops the fallback wherever it finds it.
NoCallAfterDisconnect ==
  \A e \in 1 .. Entries :
    [](cancelled /\ pc \notin {"loop_clock", "loop_limit", "poll"} /\ e \notin invoked
         => [](e \notin invoked))

\* Once the time for the route is over, no operation is begun but the one whose
\* last look at that deadline is past.
NoCallAfterDeadline ==
  \A e \in 1 .. Entries :
    [](now >= overallDeadline /\ pc \notin {"loop_limit", "poll"} /\ e \notin invoked
         => [](e \notin invoked))

\* Dispatch returns, though an upstream may leave its future pending for ever.
Returns == <>(result # "none")

\* Both functions implement the failover that the design promises.
Promise == INSTANCE Failover
             WITH tried <- entry - 1,
                  live <- running,
                  verdict <- IF result \in {"overall_timeout", "cancelled"}
                               THEN "stopped" ELSE result

ImplementsFailover == Promise!Spec
============================================================================
