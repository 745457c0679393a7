-------------------------- MODULE DispatchProofs --------------------------
(***************************************************************************)
(* Proofs about Dispatch.tla, for any route and any time limits.           *)
(***************************************************************************)
EXTENDS Dispatch, TLAPS

----------------------------------------------------------------------------
(***************************************************************************)
(* The inductive invariant.  A verdict is honest because the loop's place  *)
(* tells how many entries have failed and whether an operation is running, *)
(* and an answer is in time because the clock only ever moves forward      *)
(* between the answer and the look at it.                                  *)
(***************************************************************************)

\* No operation of the current entry was polled yet.
Before == {"top", "top_clock", "start", "built"}

\* The current entry's operation was polled at least once.
During == {"polling", "ready", "ready_limit", "settle", "selected", "selected_clock",
           "selected_limit", "pull", "pulling", "pulled", "chunk", "chunk_limit", "judge"}

Polling == {"loop", "loop_clock", "loop_limit", "poll"}

Placed ==
  /\ result = "none" <=> pc # "returned"
  /\ pc \notin {"top", "returned"} => entry <= Entries
  /\ pc \in Before \cup {"returned"} => ~running
  /\ pc \in During => running

Timed ==
  /\ answeredAt <= now
  /\ attemptDeadline <= overallDeadline
  /\ pc \in {"settle", "judge"} => answeredAt < attemptDeadline

DInv == TypeOK /\ Placed /\ Timed /\ VerdictHonest /\ AnswersInTime

\* The points of the loop, one by one.
LEMMA PointsAre ==
  /\ Points = {"returned"} \cup Before \cup Polling \cup During
  /\ DOMAIN FlagReads = {"top", "built", "loop", "selected", "chunk"}
  /\ DOMAIN OverallReads = {"top_clock", "loop_clock", "ready", "selected_clock", "pulled"}
  /\ DOMAIN LimitReads = {"loop_limit", "ready_limit", "selected_limit", "chunk_limit"}
  BY DEF Points, Calls, FlagReads, OverallReads, LimitReads, Before, Polling, During

\* A record is one more outcome.
LEMMA RecordType ==
  ASSUME attempts \in Seq(Outcomes), NEW outcome \in Outcomes, Record(outcome)
  PROVE  /\ attempts' \in Seq(Outcomes)
         /\ Len(attempts') = Len(attempts) + 1
         /\ \A k \in 1 .. Len(attempts) : attempts'[k] = attempts[k]
         /\ attempts'[Len(attempts) + 1] = outcome
  BY DEF Record

\* The function starts at the first entry with nothing running.
LEMMA InitDInv == Init => DInv
  <1> SUFFICES ASSUME Init PROVE DInv
    OBVIOUS
  <1>1. TypeOK
    <2>1. attempts \in Seq(Outcomes) /\ pc \in Points /\ entry \in 1 .. Entries + 1
      BY DispatchAssumption, PointsAre DEF Init, Before
    <2> QED BY <2>1 DEF Init, TypeOK
  <1>2. Placed /\ Timed /\ VerdictHonest /\ AnswersInTime
    BY DispatchAssumption
    DEF Init, Placed, Timed, VerdictHonest, AnswersInTime, AllFailed, overallDeadline,
        Before, During
  <1> QED BY <1>1, <1>2 DEF DInv

----------------------------------------------------------------------------
(* The three ways a step of the worker ends.                               *)

\* It goes on with the same entry and records nothing.
LEMMA GoesOn ==
  ASSUME DInv, NEW from \in Points \ {"returned"}, NEW to \in Points \ {"returned"},
         Goto(from, to),
         UNCHANGED <<answer, attemptVars, historyVars>>,
         to = "top" \/ from # "top" \/ entry <= Entries,
         (from \in Before /\ to \in Before \cup Polling)
           \/ (from \in Polling /\ to \in Polling)
           \/ (from \in During /\ to \in During \cup Polling),
         to \in {"settle", "judge"} => answeredAt < attemptDeadline
  PROVE  DInv'
  <1> USE DEF DInv, Goto, environmentVars, attemptVars, historyVars
  <1>1. TypeOK'
    BY DEF TypeOK
  <1>2. Placed'
    BY DEF Placed, Before, Polling, During
  <1>3. Timed'
    BY DEF Timed, overallDeadline
  <1>4. VerdictHonest'
    BY DEF VerdictHonest, AllFailed, overallDeadline
  <1>5. AnswersInTime'
    BY DEF AnswersInTime, overallDeadline
  <1> QED BY <1>1, <1>2, <1>3, <1>4, <1>5

\* It gives up on the entry.
LEMMA FailKeeps ==
  ASSUME DInv, NEW from \in Points \ {"top", "returned"},
         NEW outcome \in {"failed", "timeout"}, Fail(from, outcome)
  PROVE  DInv'
  <1> USE DispatchAssumption DEF DInv, Fail, Goto, Record, environmentVars, historyVars
  <1>1. entry <= Entries /\ result = "none" /\ pc = from /\ pc' = "top"
    BY DEF Placed
  <1>2. entry' = entry + 1 /\ attempts' = Append(attempts, outcome) /\ result' = result
    OBVIOUS
  <1>3. TypeOK'
    <2>1. attempts' \in Seq(Outcomes)
      BY RecordType DEF TypeOK, Outcomes
    <2>2. pc' \in Points /\ entry' \in 1 .. Entries + 1
      BY <1>1, PointsAre DEF TypeOK, Before
    <2> QED BY <2>1, <2>2 DEF TypeOK
  <1>4. Placed'
    BY <1>1, <1>2 DEF Placed, Before, During
  <1>5. Timed'
    BY <1>1 DEF Timed, overallDeadline
  <1>6. VerdictHonest'
    <2>1. Len(attempts) = entry - 1 /\ AllFailed(entry - 1)
      BY <1>1 DEF VerdictHonest
    <2>2. Len(attempts') = entry /\ \A k \in 1 .. entry : attempts'[k] \in {"failed", "timeout"}
      BY <2>1, <1>2, RecordType DEF AllFailed, TypeOK, Outcomes
    <2> QED BY <1>1, <1>2, <2>2 DEF VerdictHonest, AllFailed, TypeOK
  <1>7. AnswersInTime'
    BY <1>1, <1>2 DEF AnswersInTime
  <1> QED BY <1>3, <1>4, <1>5, <1>6, <1>7

\* It returns without a success.
LEMMA StopKeeps ==
  ASSUME DInv, NEW from \in Points \ {"returned"},
         NEW verdict \in {"exhausted", "overall_timeout", "cancelled"},
         Goto(from, "returned"), Return(verdict),
         \/ attempts' = attempts
         \/ verdict = "cancelled" /\ Record("cancelled"),
         verdict = "exhausted" => entry > Entries,
         verdict = "overall_timeout" => now >= overallDeadline,
         verdict = "cancelled" => cancelled
  PROVE  DInv'
  <1> USE DispatchAssumption DEF DInv, Return, Goto, environmentVars, historyVars
  <1>1. result = "none"
    BY DEF Placed
  <1>2. Len(attempts) = entry - 1 /\ AllFailed(entry - 1) /\ entry \in 1 .. Entries + 1
    BY <1>1 DEF VerdictHonest, TypeOK
  <1>3. TypeOK'
    <2>1. attempts' \in Seq(Outcomes)
      BY RecordType DEF TypeOK, Outcomes
    <2> QED BY <2>1, PointsAre DEF TypeOK
  <1>4. Placed' /\ Timed' /\ AnswersInTime'
    BY DEF Placed, Before, During, Timed, AnswersInTime, overallDeadline
  <1>5. VerdictHonest'
    <2>1. CASE attempts' = attempts
      BY <1>2, <2>1 DEF VerdictHonest, AllFailed, overallDeadline
    <2>2. CASE verdict = "cancelled" /\ Record("cancelled")
      <3>1. attempts \in Seq(Outcomes) /\ "cancelled" \in Outcomes
        BY DEF TypeOK, Outcomes
      <3>2. /\ Len(attempts') = Len(attempts) + 1
            /\ \A k \in 1 .. Len(attempts) : attempts'[k] = attempts[k]
            /\ attempts'[Len(attempts) + 1] = "cancelled"
        BY <2>2, <3>1, RecordType
      <3>3. \A k \in 1 .. entry - 1 : attempts[k] \in {"failed", "timeout"}
        BY <1>2 DEF AllFailed
      <3>4. /\ Len(attempts') = entry /\ attempts'[entry] = "cancelled"
            /\ \A k \in 1 .. entry - 1 : attempts'[k] \in {"failed", "timeout"}
        BY <1>2, <3>2, <3>3
      <3> QED BY <1>2, <2>2, <3>4 DEF VerdictHonest, AllFailed
    <2> QED BY <2>1, <2>2
  <1> QED BY <1>3, <1>4, <1>5

\* It returns the answer it has just matched.
LEMMA SelectKeeps ==
  ASSUME DInv, NEW from \in {"settle", "judge"}, answer = "good",
         Goto(from, "returned"), Return("selected"), Record("succeeded")
  PROVE  DInv'
  <1> USE DispatchAssumption DEF DInv, Return, Goto, environmentVars, historyVars
  <1>1. result = "none"
    BY DEF Placed
  <1>2. Len(attempts) = entry - 1 /\ AllFailed(entry - 1) /\ entry \in 1 .. Entries + 1
    BY <1>1 DEF VerdictHonest, TypeOK
  <1>3. TypeOK'
    <2>1. attempts' \in Seq(Outcomes)
      BY RecordType DEF TypeOK, Outcomes
    <2> QED BY <2>1, PointsAre DEF TypeOK
  <1>4. Placed' /\ Timed'
    BY DEF Placed, Before, During, Timed, overallDeadline
  <1>5. AnswersInTime'
    BY DEF Timed, TypeOK, AnswersInTime, overallDeadline
  <1>6. VerdictHonest'
    <2>1. /\ Len(attempts') = entry /\ attempts'[entry] = "succeeded"
          /\ \A k \in 1 .. entry - 1 : attempts'[k] \in {"failed", "timeout"}
      BY <1>2, RecordType DEF AllFailed, TypeOK, Outcomes
    <2> QED BY <1>2, <2>1 DEF VerdictHonest, AllFailed
  <1> QED BY <1>3, <1>4, <1>5, <1>6

----------------------------------------------------------------------------
(* The invariant, action by action.                                        *)

\* Time and the client take nothing back.
LEMMA EnvironmentKeeps ==
  ASSUME DInv, Tick \/ Disconnect
  PROVE  DInv'
  <1> USE DEF DInv, attemptVars, historyVars
  <1>1. /\ now' \in Nat /\ now' >= now
        /\ cancelled' \in BOOLEAN /\ (cancelled => cancelled')
        /\ UNCHANGED <<mode, pc, answer, attemptVars, historyVars>>
    <2>1. CASE Tick
      BY <2>1 DEF Tick, TypeOK
    <2>2. CASE Disconnect
      BY <2>2 DEF Disconnect, TypeOK
    <2> QED BY <2>1, <2>2
  <1>2. TypeOK'
    BY <1>1 DEF TypeOK
  <1>3. Placed' /\ Timed' /\ AnswersInTime'
    BY <1>1 DEF Placed, Timed, AnswersInTime, TypeOK, overallDeadline
  <1>4. VerdictHonest'
    BY <1>1, DispatchAssumption DEF VerdictHonest, AllFailed, TypeOK, overallDeadline
  <1> QED BY <1>2, <1>3, <1>4

\* A look at the flag.
LEMMA FlagKeeps ==
  ASSUME DInv, NEW at \in DOMAIN FlagReads, SeeFlag(at)
  PROVE  DInv'
  <1>1. at \in {"top", "built", "loop", "selected", "chunk"} /\ pc = at
    BY PointsAre DEF SeeFlag, Goto
  <1>2. CASE cancelled
    BY <1>1, <1>2, PointsAre, StopKeeps DEF SeeFlag, Before, Polling, During
  <1>3. CASE ~cancelled
    <2> DEFINE to == FlagReads[at]
    <2>1. Goto(at, to) /\ UNCHANGED <<answer, attemptVars, historyVars>>
          /\ (at = "top" => entry <= Entries)
      BY <1>3 DEF SeeFlag
    <2>2. to = IF at = "top" THEN "top_clock" ELSE IF at = "built" THEN "loop"
               ELSE IF at = "loop" THEN "loop_clock"
               ELSE IF at = "selected" THEN "selected_clock" ELSE "chunk_limit"
      BY <1>1 DEF FlagReads
    <2> HIDE DEF to
    <2> QED BY <1>1, <2>1, <2>2, PointsAre, GoesOn DEF Before, Polling, During
  <1> QED BY <1>2, <1>3

\* A look at the route's deadline.
LEMMA OverallKeeps ==
  ASSUME DInv, NEW at \in DOMAIN OverallReads, SeeOverall(at)
  PROVE  DInv'
  <1>1. at \in {"top_clock", "loop_clock", "ready", "selected_clock", "pulled"} /\ pc = at
    BY PointsAre DEF SeeOverall, Goto
  <1>2. CASE now >= overallDeadline
    BY <1>1, <1>2, PointsAre, StopKeeps DEF SeeOverall, Before, Polling, During
  <1>3. CASE ~(now >= overallDeadline)
    <2> DEFINE to == OverallReads[at]
    <2>1. Goto(at, to) /\ UNCHANGED <<answer, attemptVars, historyVars>>
      BY <1>3 DEF SeeOverall
    <2>2. to = IF at = "top_clock" THEN "start" ELSE IF at = "loop_clock" THEN "loop_limit"
               ELSE IF at = "ready" THEN "ready_limit"
               ELSE IF at = "selected_clock" THEN "selected_limit" ELSE "chunk"
      BY <1>1 DEF OverallReads
    <2> HIDE DEF to
    <2> QED BY <1>1, <2>1, <2>2, PointsAre, GoesOn DEF Before, Polling, During
  <1> QED BY <1>2, <1>3

\* A look at the attempt's deadline.
LEMMA LimitKeeps ==
  ASSUME DInv, NEW at \in DOMAIN LimitReads, SeeLimit(at)
  PROVE  DInv'
  <1>1. at \in {"loop_limit", "ready_limit", "selected_limit", "chunk_limit"} /\ pc = at
    BY PointsAre DEF SeeLimit, Goto, Fail
  <1>2. CASE now >= attemptDeadline
    BY <1>1, <1>2, PointsAre, FailKeeps DEF SeeLimit, Polling, During
  <1>3. CASE ~(now >= attemptDeadline)
    <2> DEFINE to == LimitReads[at]
    <2>1. Goto(at, to) /\ UNCHANGED <<answer, attemptVars, historyVars>>
      BY <1>3 DEF SeeLimit
    <2>2. to = IF at = "loop_limit" THEN "poll" ELSE IF at = "ready_limit" THEN "settle"
               ELSE IF at = "selected_limit" THEN "pull" ELSE "judge"
      BY <1>1 DEF LimitReads
    <2>3. answeredAt < attemptDeadline
      BY <1>3 DEF DInv, TypeOK, Timed
    <2> HIDE DEF to
    <2> QED BY <1>1, <2>1, <2>2, <2>3, PointsAre, GoesOn DEF Before, Polling, During
  <1> QED BY <1>2, <1>3

\* The attempt gets its deadline, never past that of the route.
LEMMA StartKeeps ==
  ASSUME DInv, Start
  PROVE  DInv'
  <1>1. CASE now >= overallDeadline
    BY <1>1, PointsAre, StopKeeps DEF Start, Before
  <1>2. CASE ~(now >= overallDeadline)
    <2> USE DEF DInv
    <2>1. /\ pc = "start" /\ pc' \in {"built", "loop", "loop_clock"}
          /\ attemptDeadline' = SmallerOf(now + TargetTimeout[entry], overallDeadline)
          /\ UNCHANGED <<mode, now, cancelled, entry, running, answer, attempts, result,
                         invoked, answeredAt>>
      BY <1>2 DEF Start, Goto, FirstRead, environmentVars, historyVars
    <2>2. entry \in 1 .. Entries
      BY <2>1, DispatchAssumption DEF Placed, TypeOK
    <2>3. attemptDeadline' \in Nat /\ attemptDeadline' <= overallDeadline
      BY <2>1, <2>2, DispatchAssumption DEF SmallerOf, overallDeadline, TypeOK
    <2>4. TypeOK'
      BY <2>1, <2>3, PointsAre DEF TypeOK, Before, Polling
    <2>5. Placed'
      BY <2>1, <2>2 DEF Placed, Before, During, TypeOK
    <2>6. Timed' /\ AnswersInTime' /\ VerdictHonest'
      BY <2>1, <2>3
      DEF Timed, AnswersInTime, VerdictHonest, AllFailed, Placed, overallDeadline
    <2> QED BY <2>4, <2>5, <2>6
  <1> QED BY <1>1, <1>2

\* An operation is polled, or gives an answer.
LEMMA CallKeeps ==
  ASSUME DInv, Poll \/ PollReady \/ PullReturns
  PROVE  DInv'
  <1> USE DEF DInv, attemptVars
  <1>1. /\ pc \in {"poll", "polling", "pulling"} /\ pc' \in {"polling", "ready", "pulled"}
        /\ running' = (IF pc = "poll" THEN TRUE ELSE running)
        /\ invoked' \in {invoked, invoked \cup {entry}}
        /\ answer' \in {answer, "good", "bad"}
        /\ answeredAt' \in {answeredAt, now}
        /\ UNCHANGED <<mode, now, cancelled, entry, attemptDeadline, attempts, result>>
    BY DEF Poll, PollReady, PullReturns, Answers, Goto, environmentVars
  <1>2. entry \in 1 .. Entries /\ result = "none"
    BY <1>1, DispatchAssumption DEF Placed, TypeOK
  <1>3. TypeOK'
    BY <1>1, <1>2, PointsAre DEF TypeOK, During
  <1>4. Placed'
    BY <1>1, <1>2 DEF Placed, Before, During
  <1>5. Timed' /\ AnswersInTime' /\ VerdictHonest'
    BY <1>1, <1>2
    DEF Timed, AnswersInTime, VerdictHonest, AllFailed, TypeOK, overallDeadline
  <1> QED BY <1>3, <1>4, <1>5

\* The invariant is inductive.
LEMMA StepDInv == DInv /\ [Next]_vars => DInv'
  <1> SUFFICES ASSUME DInv, [Next]_vars PROVE DInv'
    OBVIOUS
  <1>1. CASE Tick \/ Disconnect
    BY <1>1, EnvironmentKeeps
  <1>2. CASE RouteEnds
    BY <1>2, PointsAre, StopKeeps DEF RouteEnds, Before
  <1>3. CASE Reads
    BY <1>3, FlagKeeps, OverallKeeps, LimitKeeps DEF Reads
  <1>4. CASE Start
    BY <1>4, StartKeeps
  <1>5. CASE Poll \/ PollReady \/ PullReturns
    BY <1>5, CallKeeps
  <1>6. CASE PollPending \/ Pull
    BY <1>6, PointsAre, GoesOn DEF PollPending, Pull, Polling, During
  <1>7. CASE Settle
    <2>1. ASSUME Goto("settle", "selected"), UNCHANGED <<answer, attemptVars, historyVars>>
          PROVE  DInv'
      BY <2>1, PointsAre, GoesOn DEF During
    <2>2. ASSUME answer = "good", Goto("settle", "returned"), Return("selected"),
                 Record("succeeded")
          PROVE  DInv'
      BY <2>2, SelectKeeps
    <2>3. ASSUME Fail("settle", "failed") PROVE DInv'
      BY <2>3, PointsAre, FailKeeps DEF During
    <2> QED BY <1>7, <2>1, <2>2, <2>3 DEF Settle
  <1>8. CASE Judge
    <2>1. ASSUME answer = "good", Goto("judge", "returned"), Return("selected"),
                 Record("succeeded")
          PROVE  DInv'
      BY <2>1, SelectKeeps
    <2>2. ASSUME Fail("judge", "failed") PROVE DInv'
      BY <2>2, PointsAre, FailKeeps DEF During
    <2> QED BY <1>8, <2>1, <2>2 DEF Judge
  <1>9. CASE UNCHANGED vars
    BY <1>9 DEF vars, environmentVars, attemptVars, historyVars, DInv, TypeOK, Placed, Timed,
                VerdictHonest, AllFailed, AnswersInTime, overallDeadline
  <1> QED BY <1>1, <1>2, <1>3, <1>4, <1>5, <1>6, <1>7, <1>8, <1>9 DEF Next, Worker, Upstream

----------------------------------------------------------------------------
(* What the specification guarantees.                                      *)

\* The invariant holds of every reachable state.
THEOREM DispatchInvariant == Spec => []DInv
  BY InitDInv, StepDInv, PTL DEF Spec

\* Every variable keeps its type.
THEOREM DispatchTypeCorrect == Spec => []TypeOK
  <1>1. DInv => TypeOK
    BY DEF DInv
  <1> QED BY <1>1, DispatchInvariant, PTL

\* The verdict and its attempt records tell what happened, for any route.
THEOREM VerdictsAreHonest == Spec => []VerdictHonest
  <1>1. DInv => VerdictHonest
    BY DEF DInv
  <1> QED BY <1>1, DispatchInvariant, PTL

\* No late answer is used, whatever the time limits and however time passes.
THEOREM LateAnswersAreDropped == Spec => []AnswersInTime
  <1>1. DInv => AnswersInTime
    BY DEF DInv
  <1> QED BY <1>1, DispatchInvariant, PTL

----------------------------------------------------------------------------
(* No operation is begun too late.                                         *)

\* The steps that lead to a poll, each with the look that must come before it.
LEMMA WayToPoll ==
  ASSUME [Next]_vars, pc' \in {"loop_clock", "loop_limit", "poll"}, pc' # pc
  PROVE  \/ pc = "loop" /\ pc' = "loop_clock" /\ ~cancelled
         \/ pc = "loop_clock" /\ pc' = "loop_limit" /\ ~(now >= overallDeadline)
         \/ pc = "loop_limit" /\ pc' = "poll"
  <1>1. ASSUME NEW at \in DOMAIN FlagReads, SeeFlag(at)
        PROVE  pc = "loop" /\ pc' = "loop_clock" /\ ~cancelled
    BY <1>1, PointsAre DEF SeeFlag, Goto, FlagReads
  <1>2. ASSUME NEW at \in DOMAIN OverallReads, SeeOverall(at)
        PROVE  pc = "loop_clock" /\ pc' = "loop_limit" /\ ~(now >= overallDeadline)
    BY <1>2, PointsAre DEF SeeOverall, Goto, OverallReads
  <1>3. ASSUME NEW at \in DOMAIN LimitReads, SeeLimit(at)
        PROVE  pc = "loop_limit" /\ pc' = "poll"
    BY <1>3, PointsAre DEF SeeLimit, Goto, Fail, LimitReads
  <1>4. ASSUME \/ RouteEnds \/ Start \/ Poll \/ Settle \/ Pull \/ Judge \/ Upstream
        PROVE  FALSE
    BY <1>4 DEF RouteEnds, Start, FirstRead, Poll, Settle, Pull, Judge, Upstream, PollPending,
                PollReady, PullReturns, Answers, Fail, Goto
  <1>5. ~(Tick \/ Disconnect \/ UNCHANGED vars)
    BY DEF Tick, Disconnect, vars
  <1> QED BY <1>1, <1>2, <1>3, <1>4, <1>5 DEF Next, Worker, Reads

\* Only a poll begins an operation.
LEMMA OnlyPollInvokes ==
  ASSUME [Next]_vars, pc # "poll"
  PROVE  invoked' = invoked
  <1>1. CASE Reads
    BY <1>1 DEF Reads, SeeFlag, SeeOverall, SeeLimit, Return, Fail, historyVars
  <1>2. CASE ~Reads
    BY <1>2 DEF Next, Worker, Upstream, Tick, Disconnect, RouteEnds, Start, Poll, Settle, Pull,
                Judge, PollPending, PollReady, PullReturns, Answers, Return, Fail, Goto,
                historyVars, vars
  <1> QED BY <1>1, <1>2

\* A flag that is set stays set, and the clock does not go back.
LEMMA EnvironmentMonotone ==
  ASSUME TypeOK, [Next]_vars
  PROVE  (cancelled => cancelled') /\ now' \in Nat /\ now' >= now
  <1>1. CASE Tick
    BY <1>1 DEF Tick, TypeOK
  <1>2. CASE Disconnect
    BY <1>2 DEF Disconnect, TypeOK
  <1>3. CASE ~(Tick \/ Disconnect)
    <2>1. now' = now /\ cancelled' = cancelled
      BY <1>3 DEF Next, Worker, Reads, Upstream, SeeFlag, SeeOverall, SeeLimit, RouteEnds,
                  Start, Poll, Settle, Pull, Judge, PollPending, PollReady, PullReturns,
                  Answers, Fail, Goto, environmentVars, vars
    <2> QED BY <2>1 DEF TypeOK
  <1> QED BY <1>1, <1>2, <1>3

\* A disconnect stops the fallback, in both functions and at every point of them.
THEOREM DisconnectStopsFallback == Spec => NoCallAfterDisconnect
  <1> SUFFICES ASSUME NEW e \in 1 .. Entries
               PROVE  Spec => [](cancelled /\ pc \notin {"loop_clock", "loop_limit", "poll"}
                                   /\ e \notin invoked => [](e \notin invoked))
    BY DEF NoCallAfterDisconnect
  <1> DEFINE Stopped == cancelled /\ pc \notin {"loop_clock", "loop_limit", "poll"}
                          /\ e \notin invoked
  <1>1. TypeOK /\ Stopped /\ [Next]_vars => Stopped'
    BY WayToPoll, OnlyPollInvokes, EnvironmentMonotone
  <1>2. Stopped => e \notin invoked
    OBVIOUS
  <1> QED BY <1>1, <1>2, DispatchTypeCorrect, PTL DEF Spec

\* So does the end of the time for the route.
THEOREM DeadlineStopsFallback == Spec => NoCallAfterDeadline
  <1> SUFFICES ASSUME NEW e \in 1 .. Entries
               PROVE  Spec => [](now >= overallDeadline /\ pc \notin {"loop_limit", "poll"}
                                   /\ e \notin invoked => [](e \notin invoked))
    BY DEF NoCallAfterDeadline
  <1> DEFINE Over == now >= overallDeadline /\ pc \notin {"loop_limit", "poll"}
                       /\ e \notin invoked
  <1>1. TypeOK /\ Over /\ [Next]_vars => Over'
    BY WayToPoll, OnlyPollInvokes, EnvironmentMonotone, DispatchAssumption
    DEF overallDeadline, TypeOK
  <1>2. Over => e \notin invoked
    OBVIOUS
  <1> QED BY <1>1, <1>2, DispatchTypeCorrect, PTL DEF Spec

----------------------------------------------------------------------------
(* Both functions implement the failover of Failover.tla.                  *)

\* A step that moves neither the loop nor the operation is none of the promise.
LEMMA Stutters ==
  ASSUME UNCHANGED <<entry, running, result>>
  PROVE  UNCHANGED Promise!vars
  BY DEF Promise!vars

\* Every return but a selection maps to a stop or to the end of the route.
LEMMA ReturnsPromised ==
  ASSUME DInv, NEW from \in Points \ {"returned"}, NEW verdict, Goto(from, "returned"),
         Return(verdict),
         \/ verdict \in {"overall_timeout", "cancelled"}
         \/ verdict = "exhausted" /\ entry > Entries /\ from = "top"
         \/ verdict = "selected" /\ from \in During
  PROVE  Promise!Next
  <1> USE DEF DInv, Goto, Return, Placed
  <1>1. result = "none" /\ result' = verdict /\ running' = FALSE /\ entry' = entry
    OBVIOUS
  <1>2. CASE verdict \in {"overall_timeout", "cancelled"}
    BY <1>1, <1>2 DEF Promise!Next, Promise!Stop
  <1>3. CASE verdict = "exhausted" /\ entry > Entries /\ from = "top"
    <2>1. entry - 1 = Entries
      BY <1>3, DispatchAssumption DEF TypeOK
    <2>2. running' = running
      BY <1>1, <1>3 DEF TypeOK, Before
    <2> QED BY <1>1, <1>3, <2>1, <2>2 DEF Promise!Next, Promise!Exhaust
  <1>4. CASE verdict = "selected" /\ from \in During
    BY <1>1, <1>4 DEF Promise!Next, Promise!Select
  <1> QED BY <1>2, <1>3, <1>4

\* Giving up on an entry maps to its failure.
LEMMA FailPromised ==
  ASSUME DInv, NEW from \in Points \ {"top", "returned"}, NEW outcome, Fail(from, outcome)
  PROVE  Promise!Next
  <1>1. result = "none" /\ result' = result /\ entry \in 1 .. Entries
    BY DispatchAssumption DEF DInv, Placed, TypeOK, Fail, Goto
  <1>2. entry' - 1 = (entry - 1) + 1 /\ entry - 1 < Entries /\ ~running'
    BY <1>1, DispatchAssumption DEF Fail
  <1> QED BY <1>1, <1>2 DEF Promise!Next, Promise!Fail

\* The entries are tried in order, each at most once and one at a time, and a
\* route is exhausted only when all of them failed: for a route of any length.
THEOREM DispatchIsFailover == Spec => ImplementsFailover
  <1>1. Init => Promise!Init
    BY DEF Init, Promise!Init
  <1>2. DInv /\ [Next]_vars => [Promise!Next]_(Promise!vars)
    <2> SUFFICES ASSUME DInv, [Next]_vars PROVE Promise!Next \/ UNCHANGED Promise!vars
      OBVIOUS
    <2>1. CASE Tick \/ Disconnect \/ Upstream \/ Pull \/ UNCHANGED vars
      BY <2>1, Stutters DEF Tick, Disconnect, Upstream, PollPending, PollReady, PullReturns,
                            Answers, Pull, attemptVars, vars
    <2>2. CASE RouteEnds
      BY <2>2, PointsAre, ReturnsPromised DEF RouteEnds, Before
    <2>3. ASSUME NEW at \in DOMAIN FlagReads, SeeFlag(at)
          PROVE  Promise!Next \/ UNCHANGED Promise!vars
      BY <2>3, PointsAre, ReturnsPromised, Stutters
      DEF SeeFlag, attemptVars, Before, Polling, During
    <2>4. ASSUME NEW at \in DOMAIN OverallReads, SeeOverall(at)
          PROVE  Promise!Next \/ UNCHANGED Promise!vars
      BY <2>4, PointsAre, ReturnsPromised, Stutters
      DEF SeeOverall, attemptVars, Before, Polling, During
    <2>5. ASSUME NEW at \in DOMAIN LimitReads, SeeLimit(at)
          PROVE  Promise!Next \/ UNCHANGED Promise!vars
      BY <2>5, PointsAre, FailPromised, Stutters DEF SeeLimit, attemptVars, Polling, During
    <2>6. CASE Start
      BY <2>6, PointsAre, ReturnsPromised, Stutters DEF Start, Before
    <2>7. CASE Poll
      <3>1. result = "none" /\ entry - 1 < Entries
        BY <2>7, DispatchAssumption DEF Poll, Goto, DInv, Placed, TypeOK
      <3>2. running' = TRUE /\ UNCHANGED <<entry, result>>
        BY <2>7 DEF Poll
      <3>3. CASE running
        BY <3>2, <3>3, Stutters DEF DInv, TypeOK
      <3>4. CASE ~running
        BY <3>1, <3>2, <3>4 DEF Promise!Next, Promise!Invoke
      <3> QED BY <3>3, <3>4
    <2>8. CASE Settle \/ Judge
      BY <2>8, PointsAre, FailPromised, ReturnsPromised, Stutters
      DEF Settle, Judge, attemptVars, During
    <2> QED BY <2>1, <2>2, <2>3, <2>4, <2>5, <2>6, <2>7, <2>8 DEF Next, Worker, Reads
  <1> QED BY <1>1, <1>2, DispatchInvariant, PTL DEF Spec, ImplementsFailover, Promise!Spec

----------------------------------------------------------------------------
(***************************************************************************)
(* How far the worker still goes once it has to stop.  A read at the wrong *)
(* place of the loop, or one that is missing, would let it go round with   *)
(* no bound; here every step takes it nearer to its return, whatever the   *)
(* upstream answers and however often a future is pending.                 *)
(***************************************************************************)

\* The most steps to the return once the time for the route is over.  An attempt
\* has no time left then either, so every look at its deadline gives up on it.
StepsAfterDeadline(at) ==
  CASE at = "returned" -> 0
    [] at \in DOMAIN OverallReads \cup {"start"} -> 1
    [] at \in {"top", "loop", "selected", "pulling"} -> 2
    [] at \in DOMAIN LimitReads \cup {"built", "settle", "judge", "polling", "pull"} -> 3
    [] at \in {"poll", "chunk"} -> 4

\* The most steps to the return once the client has gone.
StepsAfterDisconnect(at) ==
  CASE at = "returned" -> 0
    [] at \in DOMAIN FlagReads -> 1
    [] at \in {"start", "settle", "judge", "pulled"} -> 2
    [] at \in {"top_clock", "ready_limit", "pulling", "chunk_limit"} -> 3
    [] at \in {"ready", "pull"} -> 4
    [] at \in {"polling", "selected_limit"} -> 5
    [] at \in {"poll", "selected_clock"} -> 6
    [] at = "loop_limit" -> 7
    [] at = "loop_clock" -> 8

\* A number of steps that is lower after every step of the worker and of the call
\* it waits for, and zero exactly when the function has returned.
CountsDown(steps, most) ==
  steps \in 0 .. most /\ (steps = 0 <=> result # "none")

NearerAfterDeadline ==
  now >= overallDeadline /\ (Worker \/ Upstream)
    => StepsAfterDeadline(pc)' < StepsAfterDeadline(pc)

NearerAfterDisconnect ==
  cancelled /\ (Worker \/ Upstream) => StepsAfterDisconnect(pc)' < StepsAfterDisconnect(pc)

\* What the two counts are at each point of the loop.
LEMMA DeadlineCounts ==
  ASSUME NEW at \in Points
  PROVE  /\ StepsAfterDeadline(at) \in 0 .. 4
         /\ StepsAfterDeadline(at) = 0 <=> at = "returned"
         /\ at \in {"top_clock", "start", "loop_clock", "ready", "selected_clock", "pulled"}
              => StepsAfterDeadline(at) = 1
         /\ at \in {"top", "loop", "selected", "pulling"} => StepsAfterDeadline(at) = 2
         /\ at \in {"loop_limit", "ready_limit", "selected_limit", "chunk_limit",
                    "built", "settle", "judge", "polling", "pull"}
              => StepsAfterDeadline(at) = 3
         /\ at \in {"poll", "chunk"} => StepsAfterDeadline(at) = 4
  BY PointsAre DEF StepsAfterDeadline, Before, Polling, During

\* The same of the steps after a disconnect.
LEMMA DisconnectCounts ==
  ASSUME NEW at \in Points
  PROVE  /\ StepsAfterDisconnect(at) \in 0 .. 8
         /\ StepsAfterDisconnect(at) = 0 <=> at = "returned"
         /\ at \in {"top", "built", "loop", "selected", "chunk"} => StepsAfterDisconnect(at) = 1
         /\ at \in {"start", "settle", "judge", "pulled"} => StepsAfterDisconnect(at) = 2
         /\ at \in {"top_clock", "ready_limit", "pulling", "chunk_limit"}
              => StepsAfterDisconnect(at) = 3
         /\ at \in {"ready", "pull"} => StepsAfterDisconnect(at) = 4
         /\ at \in {"polling", "selected_limit"} => StepsAfterDisconnect(at) = 5
         /\ at \in {"poll", "selected_clock"} => StepsAfterDisconnect(at) = 6
         /\ at = "loop_limit" => StepsAfterDisconnect(at) = 7
         /\ at = "loop_clock" => StepsAfterDisconnect(at) = 8
  <1> DEFINE Steps == StepsAfterDisconnect(at)
  <1>1. at = "returned" => Steps = 0
    BY PointsAre DEF StepsAfterDisconnect
  <1>2. at \in {"top", "built", "loop", "selected", "chunk"} => Steps = 1
    BY PointsAre DEF StepsAfterDisconnect
  <1>3. at \in {"start", "settle", "judge", "pulled"} => Steps = 2
    BY PointsAre DEF StepsAfterDisconnect
  <1>4. at \in {"top_clock", "ready_limit", "pulling", "chunk_limit"} => Steps = 3
    BY PointsAre DEF StepsAfterDisconnect
  <1>5. at \in {"ready", "pull"} => Steps = 4
    BY PointsAre DEF StepsAfterDisconnect
  <1>6. at \in {"polling", "selected_limit"} => Steps = 5
    BY PointsAre DEF StepsAfterDisconnect
  <1>7. at \in {"poll", "selected_clock"} => Steps = 6
    BY PointsAre DEF StepsAfterDisconnect
  <1>8. (at = "loop_limit" => Steps = 7) /\ (at = "loop_clock" => Steps = 8)
    BY PointsAre DEF StepsAfterDisconnect
  <1> HIDE DEF Steps
  <1>9. Steps \in 0 .. 8 /\ (Steps = 0 <=> at = "returned")
    BY PointsAre, <1>1, <1>2, <1>3, <1>4, <1>5, <1>6, <1>7, <1>8
    DEF Before, Polling, During
  <1> QED BY <1>1, <1>2, <1>3, <1>4, <1>5, <1>6, <1>7, <1>8, <1>9 DEF Steps

\* Where a step of the worker leads, once the time for the route is over.
LEMMA WaysAfterDeadline ==
  ASSUME DInv, now >= overallDeadline, Worker \/ Upstream
  PROVE  \/ pc # "returned" /\ pc' = "returned"
         \/ pc \in DOMAIN FlagReads /\ pc' = FlagReads[pc]
         \/ pc \in DOMAIN LimitReads \cup {"settle", "judge"} /\ pc' = "top"
         \/ pc = "settle" /\ pc' = "selected"
         \/ pc = "poll" /\ pc' = "polling"
         \/ pc = "polling" /\ pc' \in {"loop", "ready"}
         \/ pc = "pull" /\ pc' = "pulling"
         \/ pc = "pulling" /\ pc' = "pulled"
  <1>1. CASE Reads
    <2>1. now >= attemptDeadline
      BY DispatchAssumption DEF DInv, Timed, TypeOK, overallDeadline
    <2>2. ASSUME NEW at \in DOMAIN FlagReads, SeeFlag(at)
          PROVE  \/ pc # "returned" /\ pc' = "returned"
                 \/ pc \in DOMAIN FlagReads /\ pc' = FlagReads[pc]
      BY <2>2, PointsAre DEF SeeFlag, Goto
    <2>3. ASSUME NEW at \in DOMAIN OverallReads, SeeOverall(at)
          PROVE  pc # "returned" /\ pc' = "returned"
      BY <2>3, PointsAre DEF SeeOverall, Goto
    <2>4. ASSUME NEW at \in DOMAIN LimitReads, SeeLimit(at)
          PROVE  pc \in DOMAIN LimitReads /\ pc' = "top"
      BY <2>1, <2>4 DEF SeeLimit, Fail, Goto
    <2> QED BY <1>1, <2>2, <2>3, <2>4 DEF Reads
  <1>2. CASE RouteEnds \/ Start
    BY <1>2 DEF RouteEnds, Start, Goto
  <1>3. CASE Poll \/ Pull \/ Upstream
    BY <1>3 DEF Poll, Pull, Upstream, PollPending, PollReady, PullReturns, Answers, Goto
  <1>4. CASE Settle \/ Judge
    BY <1>4 DEF Settle, Judge, Fail, Goto
  <1> QED BY <1>1, <1>2, <1>3, <1>4 DEF Worker

\* Where a step of the worker leads, once the client has gone.
LEMMA WaysAfterDisconnect ==
  ASSUME DInv, cancelled, Worker \/ Upstream
  PROVE  \/ pc # "returned" /\ pc' = "returned"
         \/ pc \in DOMAIN OverallReads /\ pc' = OverallReads[pc]
         \/ pc \in DOMAIN LimitReads /\ pc' \in {"top", LimitReads[pc]}
         \/ pc = "start" /\ pc' \in {"built", "loop"}
         \/ pc \in {"settle", "judge"} /\ pc' = "top"
         \/ pc = "settle" /\ pc' = "selected"
         \/ pc = "poll" /\ pc' = "polling"
         \/ pc = "polling" /\ pc' \in {"loop", "ready"}
         \/ pc = "pull" /\ pc' = "pulling"
         \/ pc = "pulling" /\ pc' = "pulled"
  <1>1. CASE Reads
    <2>1. ASSUME NEW at \in DOMAIN FlagReads, SeeFlag(at)
          PROVE  pc # "returned" /\ pc' = "returned"
      BY <2>1, PointsAre DEF SeeFlag, Goto
    <2>2. ASSUME NEW at \in DOMAIN OverallReads, SeeOverall(at)
          PROVE  \/ pc # "returned" /\ pc' = "returned"
                 \/ pc \in DOMAIN OverallReads /\ pc' = OverallReads[pc]
      BY <2>2, PointsAre DEF SeeOverall, Goto
    <2>3. ASSUME NEW at \in DOMAIN LimitReads, SeeLimit(at)
          PROVE  pc \in DOMAIN LimitReads /\ pc' \in {"top", LimitReads[pc]}
      BY <2>3 DEF SeeLimit, Fail, Goto
    <2> QED BY <1>1, <2>1, <2>2, <2>3 DEF Reads
  <1>2. CASE RouteEnds \/ Start
    BY <1>2 DEF RouteEnds, Start, FirstRead, Goto
  <1>3. CASE Poll \/ Pull \/ Upstream
    BY <1>3 DEF Poll, Pull, Upstream, PollPending, PollReady, PullReturns, Answers, Goto
  <1>4. CASE Settle \/ Judge
    BY <1>4 DEF Settle, Judge, Fail, Goto
  <1> QED BY <1>1, <1>2, <1>3, <1>4 DEF Worker

\* block_on_until and the two dispatch functions return within four steps of the end
\* of the route's time: an answer that is late, a stream that has begun and a further
\* entry of the route do not keep them.
THEOREM OverrunIsBounded ==
  Spec => [](CountsDown(StepsAfterDeadline(pc), 4)) /\ [][NearerAfterDeadline]_vars
  <1>1. DInv => CountsDown(StepsAfterDeadline(pc), 4)
    BY DeadlineCounts DEF DInv, TypeOK, Placed, CountsDown
  <1>2. DInv /\ [Next]_vars => [NearerAfterDeadline]_vars
    <2> SUFFICES ASSUME DInv, DInv', now >= overallDeadline, Worker \/ Upstream
                 PROVE  StepsAfterDeadline(pc)' < StepsAfterDeadline(pc)
      BY StepDInv DEF NearerAfterDeadline
    <2>1. pc \in Points /\ pc' \in Points
      BY DEF DInv, TypeOK
    <2>2. PICK steps \in 0 .. 4, fewer \in 0 .. 4 :
            steps = StepsAfterDeadline(pc) /\ fewer = StepsAfterDeadline(pc')
      BY <2>1, DeadlineCounts
    <2> QED BY <2>1, <2>2, WaysAfterDeadline, DeadlineCounts, PointsAre DEF FlagReads
  <1> QED BY <1>1, <1>2, DispatchInvariant, PTL DEF Spec

\* They return within eight steps of a disconnect, wherever in the route it finds
\* them: the flag is read again before anything can be repeated.
THEOREM DisconnectReturnsSoon ==
  Spec => [](CountsDown(StepsAfterDisconnect(pc), 8)) /\ [][NearerAfterDisconnect]_vars
  <1>1. DInv => CountsDown(StepsAfterDisconnect(pc), 8)
    BY DisconnectCounts DEF DInv, TypeOK, Placed, CountsDown
  <1>2. DInv /\ [Next]_vars => [NearerAfterDisconnect]_vars
    <2> SUFFICES ASSUME DInv, DInv', cancelled, Worker \/ Upstream
                 PROVE  StepsAfterDisconnect(pc)' < StepsAfterDisconnect(pc)
      BY StepDInv DEF NearerAfterDisconnect
    <2>1. pc \in Points /\ pc' \in Points
      BY DEF DInv, TypeOK
    <2>2. PICK steps \in 0 .. 8, fewer \in 0 .. 8 :
            steps = StepsAfterDisconnect(pc) /\ fewer = StepsAfterDisconnect(pc')
      BY <2>1, DisconnectCounts
    <2> QED BY <2>1, <2>2, WaysAfterDisconnect, DisconnectCounts, PointsAre
            DEF OverallReads, LimitReads
  <1> QED BY <1>1, <1>2, DispatchInvariant, PTL DEF Spec

============================================================================
