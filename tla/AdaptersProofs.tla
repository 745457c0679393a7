-------------------------- MODULE AdaptersProofs --------------------------
(***************************************************************************)
(* Proofs about Adapters.tla, for any tools, ids and bounds: each of the   *)
(* three decoders gives a canonical stream; what the client is shown of    *)
(* the calls is what the assembler has, and what the assembler has is what *)
(* the decoder counted.                                                    *)
(***************************************************************************)
EXTENDS Adapters, SequenceTheorems, TLAPS

----------------------------------------------------------------------------
(***************************************************************************)
(* The inductive invariant.  The place of the stream is known three times: *)
(* to the decoder, to the assembler, and to the reader of the items.  What *)
(* they know agrees, so that a finish can only follow deltas, and usage    *)
(* only a finish.                                                          *)
(***************************************************************************)

AsmFields == {"calls", "started", "text", "terminal", "counted"}

\* Until the iterator is exhausted the last item tells where the assembler is.
Agree ==
  /\ ~asm.terminal => given \in {"nothing", "delta"}
  /\ asm.terminal /\ ~asm.counted => given = "finish"
  /\ asm.terminal /\ asm.counted => given = "usage"

Lifecycle ==
  /\ request.usage \in BOOLEAN
  /\ asm = [field \in AsmFields |-> asm[field]]
  /\ asm.counted \in BOOLEAN
  /\ asm.terminal \in BOOLEAN
  /\ done \in BOOLEAN
  /\ done => asm.terminal
  /\ asm.counted => asm.terminal
  /\ ~exhausted => Agree
  /\ exhausted => given \in {"usage", "error", "end"}

\* A message that has its stop reason is one that the assembler has finished.
AnthropicFields ==
  {"blocks", "nextBlock", "nextCall", "started", "messageDelta", "input", "output"}

Stopping ==
  provider = "anthropic" =>
    /\ native = [field \in AnthropicFields |-> native[field]]
    /\ native.messageDelta => asm.terminal

\* A turn of the loop, as far as this invariant looks at it.
Turn == ~exhausted /\ UNCHANGED request

\* What every turn must do.
Goal == Lifecycle' /\ [CS!Next]_CS!vars

LEMMA InitLifecycle == Init => Lifecycle /\ CS!Init
  <1> SUFFICES ASSUME Init PROVE Lifecycle /\ CS!Init
    OBVIOUS
  <1>1. /\ request \in Requests /\ asm = NewAssembler /\ done = FALSE
        /\ exhausted = FALSE /\ given = "nothing"
    BY DEF Init, OpenAiInit, AnthropicInit, GeminiInit, DecoderInit
  <1>2. request.usage \in BOOLEAN
    BY <1>1 DEF Requests
  <1> QED
    BY <1>1, <1>2 DEF Lifecycle, Agree, AsmFields, NewAssembler, CS!Init

\* An item that may follow the last one is a step of the canonical stream.
LEMMA GiveStep ==
  ASSUME NEW item \in {"delta", "finish", "usage", "error", "end"},
         item \in CS!Follows[given], item = "usage" => request.usage,
         given' = item, request' = request
  PROVE  CS!Next
  BY DEF CS!Next, CS!Give

\* Nothing is returned, and the assembler is as it was.
LEMMA QuietStep ==
  ASSUME Lifecycle, Turn, Quiet, done' \in BOOLEAN, done' => asm.terminal
  PROVE  Goal
  BY DEF Lifecycle, Agree, Turn, Quiet, Goal, CS!vars

\* The error may take the place of any item.
LEMMA FailStep ==
  ASSUME Lifecycle, Turn, Fail
  PROVE  Goal
  <1>1. Lifecycle'
    BY DEF Lifecycle, Agree, Turn, Fail
  <1>2. given \in {"nothing", "delta", "finish", "usage"} /\ given' = "error"
    BY DEF Lifecycle, Agree, Turn, Fail
  <1>3. "error" \in CS!Follows[given]
    BY <1>2 DEF CS!Follows
  <1> QED
    BY <1>1, <1>2, <1>3, GiveStep DEF Goal, Turn

\* What a push that gives a chunk has found and done.
LEMMA PushedChunk ==
  ASSUME Lifecycle, NEW delta, NEW ending,
         Pushed(asm, request, delta, ending).verdict = "chunk"
  PROVE  LET pushed == Pushed(asm, request, delta, ending)
         IN /\ ~asm.terminal
            /\ pushed.asm = [field \in AsmFields |-> pushed.asm[field]]
            /\ pushed.asm.terminal = (ending # "none")
            /\ pushed.asm.counted = asm.counted
            /\ pushed.chunk.kind = IF ending # "none" THEN "finish" ELSE "delta"
  <1> DEFINE parts == FoldLeft(AcceptPart, [ok |-> TRUE, calls |-> asm.calls, shown |-> {}],
                               delta.parts)
             text == asm.text \/ delta.content
             finish == FinishReason(ending, text, parts.calls)
             chunk == [kind   |-> IF ending # "none" THEN "finish" ELSE "delta",
                       reason |-> IF ending # "none" THEN finish ELSE "none",
                       shown  |-> parts.shown]
             next == [asm EXCEPT !.calls = parts.calls, !.started = TRUE,
                                 !.text = text, !.terminal = (ending # "none")]
             given_chunk == [verdict |-> "chunk", chunk |-> chunk, asm |-> next]
  <1>1. /\ Pushed(asm, request, delta, ending) = given_chunk
        /\ ~asm.terminal
    BY Zenon DEF Pushed, Refusal
  <1>2. /\ given_chunk.asm = next
        /\ given_chunk.chunk.kind = IF ending # "none" THEN "finish" ELSE "delta"
    OBVIOUS
  <1>3. asm = [field \in AsmFields |-> asm[field]]
    BY DEF Lifecycle
  <1> HIDE DEF parts, text, finish
  <1>4. /\ next = [field \in AsmFields |-> next[field]]
        /\ next.terminal = (ending # "none")
        /\ next.counted = asm.counted
    BY <1>3 DEF AsmFields
  <1> HIDE DEF next, given_chunk
  <1> QED
    BY <1>1, <1>2, <1>4

\* A pushed choice gives a delta or the finish, or ends the stream.
LEMMA PushStep ==
  ASSUME Lifecycle, Turn, NEW delta, NEW ending, NEW fields, NEW ends \in BOOLEAN,
         ends => ending # "none", Push(delta, ending, fields, ends)
  PROVE  Goal
  <1> DEFINE pushed == Pushed(asm, request, delta, ending)
  <1>1. CASE Fail
    BY <1>1, FailStep
  <1>2. CASE pushed.verdict = "nothing" /\ done' = ends /\ Quiet
    <2>1. ending = "none"
      BY <1>2 DEF Pushed, Refusal
    <2> QED
      BY <1>2, <2>1, QuietStep
  <1>3. CASE /\ pushed.verdict = "chunk"
             /\ asm' = pushed.asm
             /\ done' = ends
             /\ given' = pushed.chunk.kind
             /\ UNCHANGED exhausted
    <2>1. /\ ~asm.terminal
          /\ asm' = [field \in AsmFields |-> asm'[field]]
          /\ asm'.terminal = (ending # "none")
          /\ asm'.counted = asm.counted
          /\ given' = IF ending # "none" THEN "finish" ELSE "delta"
      BY <1>3, PushedChunk
    <2>2. ~asm.counted /\ given \in {"nothing", "delta"}
      BY <2>1 DEF Lifecycle, Agree, Turn
    <2>3. Lifecycle'
      BY <1>3, <2>1, <2>2 DEF Lifecycle, Agree, Turn
    <2>4. given' \in CS!Follows[given] /\ given' \in {"delta", "finish"}
      BY <2>1, <2>2 DEF CS!Follows
    <2> QED
      BY <2>3, <2>4, GiveStep DEF Goal, Turn
  <1> QED
    BY <1>1, <1>2, <1>3 DEF Push

\* The usage goes out once, after the finish, to a client that asked for it.
LEMMA UsageStep ==
  ASSUME Lifecycle, Turn, asm.terminal, Counts(asm, request), GiveUsage,
         done' \in BOOLEAN
  PROVE  Goal
  <1>1. given = "finish" /\ request.usage /\ ~asm.counted
    BY DEF Lifecycle, Agree, Turn, Counts
  <1>2. asm = [field \in AsmFields |-> asm[field]]
    BY DEF Lifecycle
  <1>3. /\ asm' = [field \in AsmFields |-> asm'[field]]
        /\ asm'.terminal = asm.terminal
        /\ asm'.counted = TRUE
    BY <1>2 DEF GiveUsage, AsmFields
  <1>4. Lifecycle'
    BY <1>3 DEF Lifecycle, Agree, Turn, GiveUsage
  <1>5. given' = "usage" /\ "usage" \in CS!Follows[given]
    BY <1>1 DEF CS!Follows, GiveUsage
  <1> QED
    BY <1>1, <1>4, <1>5, GiveStep DEF Goal, Turn

\* The source ends after the answer did.
LEMMA EndStep ==
  ASSUME Lifecycle, Turn, done, exhausted' = TRUE, given' = "end", UNCHANGED <<asm, done>>
  PROVE  Goal
  <1>1. given \in {"finish", "usage"}
    BY DEF Lifecycle, Agree, Turn
  <1>2. "end" \in CS!Follows[given]
    BY <1>1 DEF CS!Follows
  <1>3. Lifecycle'
    BY DEF Lifecycle, Agree, Turn
  <1> QED
    BY <1>2, <1>3, GiveStep DEF Goal, Turn

----------------------------------------------------------------------------
(* The steps, decoder by decoder.                                          *)

LEMMA CommonGoal ==
  ASSUME Lifecycle, CommonNext
  PROVE  Goal
  <1>1. CASE ReadComment
    <2>1. Turn /\ Quiet /\ UNCHANGED done
      BY <1>1 DEF ReadComment, Reads, Turn
    <2> QED
      BY <2>1, QuietStep DEF Lifecycle
  <1>2. CASE BreakOff
    BY <1>2, FailStep DEF BreakOff, Reads, Turn
  <1>3. CASE ReturnNone
    <2>1. /\ exhausted /\ given' = "end"
          /\ UNCHANGED <<request, asm, done, exhausted>>
      BY <1>3 DEF ReturnNone
    <2>2. given \in {"usage", "error", "end"}
      BY <2>1 DEF Lifecycle
    <2>3. "end" \in CS!Follows[given]
      BY <2>2 DEF CS!Follows
    <2>4. Lifecycle'
      BY <2>1 DEF Lifecycle, Agree
    <2> QED
      BY <2>1, <2>3, <2>4, GiveStep DEF Goal
  <1> QED
    BY <1>1, <1>2, <1>3 DEF CommonNext

LEMMA OpenAiGoal ==
  ASSUME Lifecycle, OpenAiNext
  PROVE  Goal
  <1>1. Turn
    BY DEF OpenAiNext, ReadChoice, ReadUsage, ReadDone, OpenAiSourceEnds, SourceEnds,
           OpenAiReads, Reads, Turn
  <1>2. CASE Fail
    BY <1>1, <1>2, FailStep
  <1>3. CASE ReadChoice /\ ~Fail
    <2>1. PICK delta \in OpenAiDeltas, ending \in OpenAiEndings :
                 Push(delta, ending, native, FALSE)
      BY <1>3 DEF ReadChoice
    <2> QED
      BY <1>1, <2>1, PushStep
  <1>4. CASE ReadUsage /\ ~Fail
    BY <1>1, <1>4, QuietStep DEF ReadUsage, Lifecycle
  <1>5. CASE ReadDone /\ ~Fail
    <2>1. asm.terminal /\ done' = TRUE /\ UNCHANGED exhausted
      BY <1>5 DEF ReadDone
    <2>2. CASE Counts(asm, request) /\ GiveUsage
      BY <1>1, <2>1, <2>2, UsageStep DEF Turn
    <2>3. CASE UNCHANGED <<asm, given, reason, shown>>
      BY <1>1, <2>1, <2>3, QuietStep DEF Quiet
    <2> QED
      BY <1>5, <2>2, <2>3 DEF ReadDone
  <1>6. CASE OpenAiSourceEnds
    BY <1>1, <1>6, EndStep DEF OpenAiSourceEnds, SourceEnds
  <1> QED
    BY <1>2, <1>3, <1>4, <1>5, <1>6 DEF OpenAiNext

LEMMA AnthropicGoal ==
  ASSUME Lifecycle, Stopping, AnthropicNext
  PROVE  Goal
  <1>1. Turn
    BY DEF AnthropicNext, MessageStart, TextBlockStart, ToolBlockStart, TextBlockDelta,
           ToolBlockDelta, BlockStop, BlockRefused, MessageDelta, MessageStop, ReadPing,
           AnthropicSourceEnds, SourceEnds, AnthropicReads, Reads, Turn
  <1>2. CASE Fail
    BY <1>1, <1>2, FailStep
  <1>3. CASE \E fields : Notes(fields)
    <2>1. Quiet /\ UNCHANGED done
      BY <1>3 DEF Notes
    <2> QED
      BY <1>1, <2>1, QuietStep DEF Lifecycle
  <1>4. CASE \E delta, fields : Push(delta, "none", fields, FALSE)
    BY <1>1, <1>4, PushStep
  <1>5. CASE \E ending, fields : Push(TextDelta(FALSE), ending, fields, FALSE)
    BY <1>1, <1>5, PushStep
  <1>6. CASE MessageStop /\ ~Fail
    <2>1. asm.terminal /\ done' = TRUE /\ UNCHANGED exhausted
      BY <1>6 DEF MessageStop, AnthropicReads, Stopping
    <2>2. CASE Counts(asm, request) /\ GiveUsage
      BY <1>1, <2>1, <2>2, UsageStep DEF Turn
    <2>3. CASE UNCHANGED <<asm, given, reason, shown>>
      BY <1>1, <2>1, <2>3, QuietStep DEF Quiet
    <2> QED
      BY <1>6, <2>2, <2>3 DEF MessageStop
  <1>7. CASE AnthropicSourceEnds
    BY <1>1, <1>7, EndStep DEF AnthropicSourceEnds, SourceEnds
  <1> QED
    BY <1>2, <1>3, <1>4, <1>5, <1>6, <1>7
    DEF AnthropicNext, MessageStart, TextBlockStart, ToolBlockStart, TextBlockDelta,
        ToolBlockDelta, BlockStop, BlockRefused, MessageDelta, ReadPing

LEMMA GeminiGoal ==
  ASSUME Lifecycle, GeminiNext
  PROVE  Goal
  <1>1. Turn
    BY DEF GeminiNext, ReadCandidate, ReadBareCandidate, ReadMetadata, ReadPolicyBlock,
           GeminiSourceEnds, GeminiReads, Reads, Turn
  <1>2. CASE Fail
    BY <1>1, <1>2, FailStep
  <1>3. CASE \E delta, ending, fields : Push(delta, ending, fields, ending # "none")
    BY <1>1, <1>3, PushStep
  <1>4. CASE \E delta, ending, fields : ending # "none" /\ Push(delta, ending, fields, TRUE)
    BY <1>1, <1>4, PushStep
  <1>5. CASE \E what : ReadMetadata(what)
    <2>1. Quiet /\ UNCHANGED done
      BY <1>5 DEF ReadMetadata
    <2> QED
      BY <1>1, <2>1, QuietStep DEF Lifecycle
  <1>6. CASE GeminiSourceEnds
    <2>1. asm.terminal /\ exhausted' = TRUE /\ UNCHANGED done
      BY <1>6 DEF GeminiSourceEnds, Lifecycle
    <2>2. CASE Counts(asm, request) /\ GiveUsage
      BY <1>1, <2>1, <2>2, UsageStep DEF Lifecycle
    <2>3. CASE given' = "end" /\ UNCHANGED asm
      BY <1>1, <1>6, <2>1, <2>3, EndStep DEF GeminiSourceEnds
    <2> QED
      BY <1>6, <2>2, <2>3 DEF GeminiSourceEnds
  <1> QED
    BY <1>2, <1>3, <1>4, <1>5, <1>6
    DEF GeminiNext, ReadCandidate, ReadBareCandidate, ReadPolicyBlock

----------------------------------------------------------------------------
(* Stopping is inductive: only message_delta gives a message its reason.   *)

LEMMA InitStopping == Init => Stopping
  BY DEF Init, OpenAiInit, AnthropicInit, GeminiInit, DecoderInit, Stopping, AnthropicFields

\* A message in its content keeps the decoder's other fields.
LEMMA FieldsStep ==
  ASSUME Lifecycle, Stopping, provider = "anthropic", ~native.messageDelta,
         NEW delta, NEW fields, fields = [field \in AnthropicFields |-> fields[field]],
         ~fields.messageDelta, Push(delta, "none", fields, FALSE)
  PROVE  Stopping'
  BY DEF Push, Fail, Stopping

LEMMA NotesStep ==
  ASSUME Stopping, provider = "anthropic", NEW fields,
         fields = [field \in AnthropicFields |-> fields[field]],
         fields.messageDelta = native.messageDelta, Notes(fields)
  PROVE  Stopping'
  BY DEF Notes, Quiet, Stopping

LEMMA StoppingStep ==
  ASSUME Lifecycle, Stopping, [Next]_vars
  PROVE  Stopping'
  <1>1. CASE provider # "anthropic"
    BY <1>1 DEF Stopping, Next, CommonNext, ReadComment, BreakOff, ReturnNone, OpenAiNext,
                ReadChoice, ReadUsage, ReadDone, OpenAiSourceEnds, SourceEnds, GeminiNext,
                ReadCandidate, ReadBareCandidate, ReadMetadata, ReadPolicyBlock,
                GeminiSourceEnds, AnthropicNext, MessageStart, TextBlockStart, ToolBlockStart,
                TextBlockDelta, ToolBlockDelta, BlockStop, BlockRefused, MessageDelta,
                MessageStop, ReadPing, AnthropicSourceEnds, OpenAiReads, AnthropicReads,
                GeminiReads, Reads, vars
  <1>2. CASE UNCHANGED <<provider, native, asm>>
    BY <1>2 DEF Stopping
  <1>3. CASE provider = "anthropic" /\ AnthropicNext /\ ~Fail
    <2>1. native = [field \in AnthropicFields |-> native[field]]
      BY <1>3 DEF Stopping
    <2>2. CASE MessageStart
      <3>1. PICK input \in BOOLEAN :
                   Notes([native EXCEPT !.started = TRUE, !.input = input])
        BY <1>3, <2>2 DEF MessageStart
      <3> QED
        BY <1>3, <2>1, <3>1, NotesStep DEF AnthropicFields
    <2>3. CASE TextBlockStart
      <3> DEFINE opened == Opened([call |-> NoCall, args |-> ""])
      <3>1. PICK content \in BOOLEAN : Push(TextDelta(content), "none", opened, FALSE)
        BY <2>3 DEF TextBlockStart
      <3>2. /\ opened = [field \in AnthropicFields |-> opened[field]]
            /\ opened.messageDelta = native.messageDelta
        BY <2>1 DEF Opened, AnthropicFields
      <3> HIDE DEF opened
      <3> QED
        BY <1>3, <2>3, <3>1, <3>2, FieldsStep DEF TextBlockStart, InContent
    <2>4. CASE ToolBlockStart
      <3> DEFINE opened == Opened([call |-> native.nextCall, args |-> ""])
                 fields == [opened EXCEPT !.nextCall = @ + 1]
      <3>1. PICK delta : Push(delta, "none", fields, FALSE)
        BY <2>4 DEF ToolBlockStart
      <3>2. /\ opened = [field \in AnthropicFields |-> opened[field]]
            /\ opened.messageDelta = native.messageDelta
        BY <2>1 DEF Opened, AnthropicFields
      <3> HIDE DEF opened
      <3>3. /\ fields = [field \in AnthropicFields |-> fields[field]]
            /\ fields.messageDelta = native.messageDelta
        BY <3>2 DEF AnthropicFields
      <3> HIDE DEF fields
      <3> QED
        BY <1>3, <2>4, <3>1, <3>3, FieldsStep DEF ToolBlockStart, InContent
    <2>5. CASE TextBlockDelta
      BY <1>3, <2>1, <2>5, FieldsStep DEF TextBlockDelta, InContent
    <2>6. CASE ToolBlockDelta
      <3>1. PICK index, fragment, delta :
                   Push(delta, "none", [native EXCEPT !.blocks[index].args = Joined(@, fragment)],
                        FALSE)
        BY <2>6 DEF ToolBlockDelta
      <3> DEFINE fields == [native EXCEPT !.blocks[index].args = Joined(@, fragment)]
      <3>2. /\ fields = [field \in AnthropicFields |-> fields[field]]
            /\ fields.messageDelta = native.messageDelta
        BY <2>1 DEF AnthropicFields
      <3> HIDE DEF fields
      <3> QED
        BY <1>3, <2>6, <3>1, <3>2, FieldsStep DEF fields, ToolBlockDelta, InContent
    <2>7. CASE BlockStop
      <3>1. PICK index : Notes(Closed(index))
        BY <1>3, <2>7 DEF BlockStop
      <3> QED
        BY <1>3, <2>1, <3>1, NotesStep DEF Closed, AnthropicFields
    <2>8. CASE MessageDelta
      <3>1. PICK ending \in AnthropicEndings, output \in BOOLEAN :
                   Push(TextDelta(FALSE), ending,
                        [native EXCEPT !.messageDelta = TRUE, !.output = output], FALSE)
        BY <1>3, <2>8 DEF MessageDelta
      <3>2. /\ Pushed(asm, request, TextDelta(FALSE), ending).verdict = "chunk"
            /\ asm' = Pushed(asm, request, TextDelta(FALSE), ending).asm
        BY <1>3, <3>1 DEF Push, AnthropicEndings, Pushed, Refusal
      <3>3. asm'.terminal
        BY <3>1, <3>2, PushedChunk DEF AnthropicEndings
      <3>4. native' = [native EXCEPT !.messageDelta = TRUE, !.output = output]
        BY <1>3, <3>1 DEF Push
      <3>5. native' = [field \in AnthropicFields |-> native'[field]]
        BY <2>1, <3>4 DEF AnthropicFields
      <3> QED
        BY <3>3, <3>5 DEF Stopping
    <2>9. CASE MessageStop
      <3>1. native' = native /\ (asm.terminal => asm'.terminal) /\ provider' = provider
        BY <1>3, <2>9 DEF MessageStop, GiveUsage, Lifecycle, AsmFields, AnthropicReads, Reads
      <3> QED
        BY <3>1 DEF Stopping
    <2> QED
      BY <1>2, <1>3, <2>2, <2>3, <2>4, <2>5, <2>6, <2>7, <2>8, <2>9
      DEF AnthropicNext, BlockRefused, ReadPing, AnthropicSourceEnds, SourceEnds,
          AnthropicReads, Reads
  <1>4. CASE Fail /\ UNCHANGED provider
    BY <1>2, <1>4 DEF Fail
  <1>5. CASE CommonNext
    BY <1>2, <1>4, <1>5 DEF CommonNext, ReadComment, BreakOff, ReturnNone, Reads, Quiet
  <1>6. AnthropicNext => UNCHANGED provider
    BY DEF AnthropicNext, MessageStart, TextBlockStart, ToolBlockStart, TextBlockDelta,
           ToolBlockDelta, BlockStop, BlockRefused, MessageDelta, MessageStop, ReadPing,
           AnthropicSourceEnds, SourceEnds, AnthropicReads, Reads
  <1>7. OpenAiNext \/ GeminiNext => provider # "anthropic"
    BY DEF OpenAiNext, ReadChoice, ReadUsage, ReadDone, OpenAiSourceEnds, OpenAiReads,
           GeminiNext, ReadCandidate, ReadBareCandidate, ReadMetadata, ReadPolicyBlock,
           GeminiSourceEnds, GeminiReads
  <1>8. CASE UNCHANGED vars
    BY <1>2, <1>8 DEF vars
  <1> QED
    BY <1>1, <1>3, <1>4, <1>5, <1>6, <1>7, <1>8 DEF Next

LEMMA LifecycleStep ==
  ASSUME Lifecycle, Stopping, [Next]_vars
  PROVE  Lifecycle' /\ [CS!Next]_CS!vars
  <1>1. CASE UNCHANGED vars
    BY <1>1 DEF vars, Lifecycle, Agree, CS!vars
  <1>2. CASE Next
    BY <1>2, CommonGoal, OpenAiGoal, AnthropicGoal, GeminiGoal DEF Next, Goal
  <1> QED
    BY <1>1, <1>2

----------------------------------------------------------------------------
(***************************************************************************)
(* Each of the three decoders gives a canonical stream, whatever its       *)
(* provider sends: deltas, one finish, then the usage if it was asked for, *)
(* and nothing after an error.                                             *)
(***************************************************************************)
THEOREM CanonicalStreams == Spec => ImplementsCanonicalStream
  <1>1. Init => Lifecycle /\ Stopping /\ CS!Init
    BY InitLifecycle, InitStopping
  <1>2. Lifecycle /\ Stopping /\ [Next]_vars => Lifecycle' /\ Stopping' /\ [CS!Next]_CS!vars
    BY LifecycleStep, StoppingStep
  <1> QED
    BY <1>1, <1>2, PTL DEF Spec, ImplementsCanonicalStream, CS!Spec

----------------------------------------------------------------------------
(***************************************************************************)
(* The calls: the loop over the parts of a delta is a fold.                *)
(***************************************************************************)
PartStep(none, state, part) == AcceptPart(state, part)
Parts == INSTANCE FoldProofs WITH Step <- PartStep

----------------------------------------------------------------------------
(***************************************************************************)
(* What a part does to the calls.                                          *)
(***************************************************************************)
PartType == [index : Nat, id : {NoId, EmptyId} \cup Ids, name : Seq(Letters), args : Fragments]

Distinct(calls) == \A i, j \in DOMAIN calls : calls[i].id = calls[j].id => i = j

\* Every call under its index, as a client that missed nothing knows it.
Public(calls) == {<<i - 1, calls[i].id>> : i \in DOMAIN calls}

\* generated_call_id: one id more than there are calls cannot all be taken.
LEMMA GeneratedIdIsFree ==
  ASSUME NEW calls \in Seq(Call)
  PROVE  GeneratedId(calls) \in Ids \ UsedIds(calls)
  <1> DEFINE n == Len(calls)
             rest == (1 .. n + 1) \ UsedIds(calls)
  <1>1. \E x \in 1 .. n + 1 : \A i \in 1 .. n : calls[i].id # x
    <2> DEFINE used == [i \in 1 .. n |-> calls[i].id]
    <2>1. n \in Nat /\ 1 \in Nat
      OBVIOUS
    <2> HIDE DEF used, n
    <2>2. \E x \in 1 .. 1 + n : \A i \in 1 .. n : used[i] # x
      BY <2>1, Parts!OneIsFree, ZenonT(30)
    <2> QED
      BY <2>1, <2>2 DEF used
  <1>2. rest # {} /\ rest \in SUBSET Nat
    BY <1>1 DEF UsedIds
  <1>3. \E x \in rest : \A y \in rest : x <= y
    BY <1>2, Parts!LeastNat
  <1>4. Min(rest) \in rest
    BY <1>3 DEF Min
  <1> QED
    BY <1>4 DEF GeneratedId, Ids

\* push_str, of what arguments can be.
LEMMA JoinedIsArguments ==
  ASSUME NEW args \in Arguments, NEW fragment \in Fragments
  PROVE  Joined(args, fragment) \in Arguments
  BY DEF Joined, Arguments, Fragments

\* The call that a part is of, before the part is joined to it.
Before(calls, part) ==
  IF part.index = Len(calls) THEN Introduce(calls, part) ELSE calls

\* A new call comes last, under an id of its own, and keeps a native one.
LEMMA IntroduceKeeps ==
  ASSUME NEW calls \in Seq(Call), Distinct(calls), NEW part \in PartType
  PROVE  LET new == Introduce(calls, part)
             n == Len(calls)
         IN /\ new \in Seq(Call) /\ Distinct(new) /\ Len(new) = n + 1
            /\ \A i \in 1 .. n : new[i] = calls[i]
            /\ new[n + 1].name = <<>> /\ new[n + 1].args = ""
            /\ new[n + 1].kept => new[n + 1].id = part.id
  <1> DEFINE n == Len(calls)
             keeps == Keeps(calls, part.id)
             id == IF keeps THEN part.id ELSE GeneratedId(calls)
             call == [id |-> id, kept |-> keeps, name |-> <<>>, args |-> ""]
             new == Introduce(calls, part)
  <1>1. id \in Ids \ UsedIds(calls)
    BY GeneratedIdIsFree DEF Keeps
  <1>2. keeps \in BOOLEAN
    BY DEF Keeps
  <1>0. new = Append(calls, call)
    BY DEF Introduce
  <1> HIDE DEF id, keeps
  <1>3. call \in Call /\ call.id = id /\ call.kept = keeps /\ call.name = <<>> /\ call.args = ""
    <2>1. <<>> \in Seq(Letters) /\ "" \in Arguments /\ id \in Ids
      BY <1>1 DEF Arguments
    <2>2. call \in Call
      BY <1>2, <2>1 DEF Call
    <2> QED
      BY <2>2
  <1> HIDE DEF call, new
  <1>5. /\ new \in Seq(Call) /\ Len(new) = n + 1
        /\ \A i \in 1 .. n : new[i] = calls[i]
        /\ new[n + 1] = call
    <2>1. call \in Call
      BY <1>3
    <2>2. /\ Append(calls, call) \in Seq(Call) /\ Len(Append(calls, call)) = Len(calls) + 1
          /\ \A i \in 1 .. Len(calls) : Append(calls, call)[i] = calls[i]
          /\ Append(calls, call)[Len(calls) + 1] = call
      BY <2>1, AppendProperties
    <2> QED
      BY <1>0, <2>2
  <1>6. \A i \in 1 .. n : calls[i].id # id
    BY <1>1 DEF UsedIds
  <1>7. Distinct(new)
    <2>1. DOMAIN new = 1 .. n + 1 /\ DOMAIN calls = 1 .. n /\ n \in Nat
      BY <1>5
    <2>2. ASSUME NEW i \in 1 .. n + 1, NEW j \in 1 .. n + 1, new[i].id = new[j].id PROVE i = j
      <3>1. CASE i \in 1 .. n /\ j \in 1 .. n
        BY <1>5, <2>1, <2>2, <3>1 DEF Distinct
      <3>2. CASE i = n + 1 \/ j = n + 1
        <4>1. new[n + 1].id = id
          BY <1>3, <1>5
        <4>2. \A k \in 1 .. n : new[k].id # id
          BY <1>5, <1>6
        <4> QED
          BY <2>1, <2>2, <3>2, <4>1, <4>2
      <3> QED
        BY <2>1, <3>1, <3>2
    <2> QED
      BY <2>1, <2>2 DEF Distinct
  <1> QED
    BY <1>3, <1>5, <1>7 DEF id, keeps, new

\* A part is joined to its call.
Extended(call, part) ==
  [id |-> call.id, kept |-> call.kept, name |-> call.name \o part.name,
   args |-> Joined(call.args, part.args)]

IsState(state) == state = [ok |-> state.ok, calls |-> state.calls, shown |-> state.shown]

\* accept_call_delta, of a part that is not refused: what the calls become, and
\* that the chunk shows a new call with its id.
LEMMA AcceptPartKeeps ==
  ASSUME NEW state, IsState(state), state.calls \in Seq(Call), Distinct(state.calls),
         NEW part \in PartType, AcceptPart(state, part).ok
  PROVE  LET next == AcceptPart(state, part)
             old  == Before(state.calls, part)
             at   == part.index + 1
             n    == Len(state.calls)
         IN /\ state.ok
            /\ IsState(next) /\ next.ok = TRUE
            /\ old \in Seq(Call) /\ Distinct(old)
            /\ at \in 1 .. Len(old) /\ Len(old) \in {n, n + 1}
            /\ next.calls = [old EXCEPT ![at] = Extended(old[at], part)]
            /\ next.shown \cup Public(state.calls) = state.shown \cup Public(old)
            /\ state.shown \subseteq next.shown /\ Public(state.calls) \subseteq Public(old)
  <1> DEFINE next == AcceptPart(state, part)
             old  == Before(state.calls, part)
             at   == part.index + 1
             n    == Len(state.calls)
             call == old[at]
             id   == IF part.index = n THEN call.id ELSE part.id
             shows == ShownId(call, id)
             calls == [old EXCEPT ![part.index + 1].name = @ \o part.name,
                                  ![part.index + 1].args = Joined(@, part.args)]
             showing == state.shown \cup (IF shows = NoId THEN {} ELSE {<<part.index, shows>>})
             accepted == [ok |-> TRUE, calls |-> calls, shown |-> showing]
             refused == ~state.ok \/ part.index > n \/ (call.kept /\ id \notin {NoId, call.id})
  <1>0. next = IF refused THEN [state EXCEPT !.ok = FALSE] ELSE accepted
    BY Zenon DEF AcceptPart, Before
  <1> HIDE DEF old, id, calls, showing
  <1>a. [state EXCEPT !.ok = FALSE].ok = FALSE
    BY DEF IsState
  <1>b. ~refused
    BY <1>0, <1>a
  <1>1. state.ok /\ part.index <= n /\ (call.kept => id \in {NoId, call.id}) /\ next = accepted
    BY <1>0, <1>b DEF PartType
  <1> HIDE DEF refused, accepted, next
  <1>2. n \in Nat /\ part.index \in Nat /\ DOMAIN state.calls = 1 .. n
    BY DEF PartType
  <1>3. /\ old \in Seq(Call) /\ Distinct(old) /\ Len(old) \in {n, n + 1}
        /\ Len(old) = n + 1 <=> part.index = n
        /\ \A i \in 1 .. n : old[i] = state.calls[i]
    <2>1. CASE part.index = n
      <3>1. old = Introduce(state.calls, part)
        BY <2>1 DEF old, Before
      <3> QED
        BY <1>2, <2>1, <3>1, IntroduceKeeps
    <2>2. CASE part.index # n
      BY <1>2, <2>2 DEF old, Before
    <2> QED
      BY <2>1, <2>2
  <1>4. at \in 1 .. Len(old)
    BY <1>1, <1>2, <1>3
  <1>5. call \in Call /\ call.id \in Ids /\ call.id # NoId
    <2>1. call \in Call
      BY <1>3, <1>4
    <2> QED
      BY <2>1 DEF Call, Ids, NoId
  <1>6. /\ showing \cup Public(state.calls) = state.shown \cup Public(old)
        /\ state.shown \subseteq showing /\ Public(state.calls) \subseteq Public(old)
    <2>1. CASE part.index = n
      <3>1. shows = call.id
        BY <2>1 DEF ShownId, id
      <3>2. showing = state.shown \cup {<<n, call.id>>}
        BY <1>5, <2>1, <3>1 DEF showing
      <3>3. Len(old) = n + 1 /\ DOMAIN old = 1 .. n + 1 /\ at = n + 1
        BY <1>2, <1>3, <2>1
      <3>4. Public(old) = Public(state.calls) \cup {<<n, call.id>>}
        <4>1. \A i \in 1 .. n + 1 : old[i].id = IF i = n + 1 THEN call.id ELSE state.calls[i].id
          BY <1>3, <3>3
        <4>2. Public(old) = {<<i - 1, old[i].id>> : i \in 1 .. n + 1}
          BY <3>3 DEF Public
        <4>3. Public(state.calls) = {<<i - 1, state.calls[i].id>> : i \in 1 .. n}
          BY <1>2 DEF Public
        <4>4. /\ n + 1 \in 1 .. n + 1 /\ (n + 1) - 1 = n
              /\ \A i \in 1 .. n + 1 : i = n + 1 \/ i \in 1 .. n
              /\ 1 .. n \subseteq 1 .. n + 1
          BY <1>2
        <4>5. \A i \in 1 .. n : i # n + 1
          BY <1>2
        <4>6. ASSUME NEW x \in Public(old) PROVE x \in Public(state.calls) \cup {<<n, call.id>>}
          <5>1. PICK i \in 1 .. n + 1 : x = <<i - 1, old[i].id>>
            BY <4>2
          <5> QED
            BY <4>1, <4>3, <4>4, <5>1
        <4>7. ASSUME NEW x \in Public(state.calls) PROVE x \in Public(old)
          <5>1. PICK i \in 1 .. n : x = <<i - 1, state.calls[i].id>>
            BY <4>3
          <5>2. i \in 1 .. n + 1 /\ old[i].id = state.calls[i].id
            BY <4>1, <4>4, <4>5
          <5> QED
            BY <4>2, <5>1, <5>2
        <4>8. <<n, call.id>> \in Public(old)
          BY <4>1, <4>2, <4>4, Zenon
        <4> QED
          BY <4>6, <4>7, <4>8
      <3> QED
        BY <3>2, <3>4
    <2>2. CASE part.index # n
      <3>1. shows \in {NoId, call.id}
        BY <1>1 DEF ShownId
      <3>2. DOMAIN old = 1 .. n /\ at \in 1 .. n /\ part.index = at - 1
        BY <1>2, <1>3, <1>4, <2>2
      <3>3. Public(old) = Public(state.calls)
        BY <1>2, <1>3, <3>2 DEF Public
      <3>4. <<part.index, call.id>> \in Public(old)
        BY <3>2 DEF Public
      <3>5. showing = state.shown \/ showing = state.shown \cup {<<part.index, call.id>>}
        BY <3>1 DEF showing
      <3> QED
        BY <3>3, <3>4, <3>5
    <2> QED
      BY <2>1, <2>2
  <1>7. calls = [old EXCEPT ![at] = Extended(call, part)]
    <2>1. call = [id |-> call.id, kept |-> call.kept, name |-> call.name, args |-> call.args]
      BY <1>5 DEF Call
    <2> DEFINE named == [old EXCEPT ![at].name = @ \o part.name]
    <2>2. named = [old EXCEPT ![at] = [call EXCEPT !.name = call.name \o part.name]]
      OBVIOUS
    <2>3. calls = [named EXCEPT ![at].args = Joined(@, part.args)]
      BY DEF calls
    <2>4. DOMAIN old = 1 .. Len(old) /\ old = [i \in 1 .. Len(old) |-> old[i]]
      BY <1>3
    <2> DEFINE name == call.name \o part.name
               args == Joined(call.args, part.args)
               one == [id |-> call.id, kept |-> call.kept, name |-> name, args |-> call.args]
    <2>3a. named = [old EXCEPT ![at] = [call EXCEPT !.name = name]]
      BY <2>2
    <2>3b. Extended(call, part) =
             [id |-> call.id, kept |-> call.kept, name |-> name, args |-> args]
      BY DEF Extended
    <2> HIDE DEF call, name, args
    <2>5. [call EXCEPT !.name = name] = one
      BY <2>1
    <2>6. one.args = call.args /\ [one EXCEPT !.args = args] = Extended(call, part)
      BY <2>3b
    <2>7. named[at] = one /\ named = [old EXCEPT ![at] = one]
      BY <1>4, <2>3a, <2>4, <2>5
    <2> HIDE DEF one, named
    <2>8. calls = [named EXCEPT ![at] = Extended(call, part)]
      BY <2>3, <2>6, <2>7 DEF args
    <2> QED
      BY <2>4, <2>7, <2>8
  <1>8. accepted.ok = TRUE /\ accepted.calls = calls /\ accepted.shown = showing
    BY DEF accepted
  <1>9. IsState(next)
    BY <1>1, <1>8 DEF accepted, IsState
  <1> QED
    BY <1>1, <1>3, <1>4, <1>6, <1>7, <1>8, <1>9 DEF old, next

\* Joining a part to a call changes no id and no other call.
LEMMA ExtendedKeeps ==
  ASSUME NEW old \in Seq(Call), Distinct(old), NEW part \in PartType, NEW at \in 1 .. Len(old)
  PROVE  LET new == [old EXCEPT ![at] = Extended(old[at], part)]
         IN /\ new \in Seq(Call) /\ Len(new) = Len(old) /\ Distinct(new)
            /\ \A i \in 1 .. Len(old) : new[i].id = old[i].id /\ new[i].kept = old[i].kept
            /\ Public(new) = Public(old)
  <1> DEFINE call == Extended(old[at], part)
             n == Len(old)
             new == [old EXCEPT ![at] = call]
  <1>1. old[at] \in Call /\ n \in Nat /\ DOMAIN old = 1 .. n
    OBVIOUS
  <1>2. /\ call \in Call /\ call.id = old[at].id /\ call.kept = old[at].kept
    <2>1. old[at].name \in Seq(Letters) /\ part.name \in Seq(Letters)
          /\ old[at].id \in Ids /\ old[at].kept \in BOOLEAN
          /\ old[at].args \in Arguments /\ part.args \in Fragments
      BY <1>1 DEF Call, PartType
    <2> DEFINE name == old[at].name \o part.name
               args == Joined(old[at].args, part.args)
    <2>2. name \in Seq(Letters)
      BY <2>1, ConcatProperties
    <2>3. args \in Arguments
      BY <2>1, JoinedIsArguments
    <2>4. call = [id |-> old[at].id, kept |-> old[at].kept, name |-> name, args |-> args]
      BY DEF Extended
    <2> HIDE DEF name, args, call
    <2> QED
      BY <2>1, <2>2, <2>3, <2>4 DEF Call
  <1> HIDE DEF call
  <1>3. DOMAIN new = 1 .. n /\ \A i \in 1 .. n : new[i] = IF i = at THEN call ELSE old[i]
    BY <1>1
  <1>4. \A i \in 1 .. n : new[i] \in Call
    BY <1>1, <1>2, <1>3
  <1>5. new \in Seq(Call) /\ Len(new) = n
    <2>1. new = [i \in 1 .. n |-> IF i = at THEN call ELSE old[i]]
      BY <1>1
    <2> HIDE DEF new
    <2>2. new \in [1 .. n -> Call]
      BY <1>3, <1>4, <2>1
    <2>3. new \in Seq(Call)
      BY <1>1, <2>2, SeqDef
    <2> QED
      BY <1>1, <1>3, <2>3, LenProperties
  <1> HIDE DEF new
  <1>6. \A i \in 1 .. n : new[i].id = old[i].id /\ new[i].kept = old[i].kept
    BY <1>2, <1>3
  <1>7. Distinct(new)
    BY <1>1, <1>3, <1>6 DEF Distinct
  <1>8. Public(new) = Public(old)
    <2>1. Public(new) = {<<i - 1, new[i].id>> : i \in 1 .. n}
          /\ Public(old) = {<<i - 1, old[i].id>> : i \in 1 .. n}
      BY <1>1, <1>3 DEF Public
    <2> QED
      BY <1>6, <2>1
  <1> QED
    BY <1>5, <1>6, <1>7, <1>8 DEF call, new

\* Where the parts of one push can lead from the calls that were there before.
PartStates(calls) ==
  {state \in [ok : BOOLEAN, calls : Seq(Call), shown : SUBSET (Nat \X Ids)] :
     state.ok => /\ Distinct(state.calls)
                 /\ state.shown \cup Public(calls) = Public(state.calls)}

\* What the client can have seen, by type.
LEMMA PublicType ==
  ASSUME NEW calls \in Seq(Call)
  PROVE  Public(calls) \subseteq (0 .. Len(calls) - 1) \X Ids
  <1>1. DOMAIN calls = 1 .. Len(calls) /\ Len(calls) \in Nat
    OBVIOUS
  <1>2. \A i \in DOMAIN calls : i - 1 \in 0 .. Len(calls) - 1 /\ calls[i].id \in Ids
    <2>1. \A i \in DOMAIN calls : calls[i] \in Call
      OBVIOUS
    <2>2. \A i \in DOMAIN calls : calls[i].id \in Ids
      BY <2>1 DEF Call
    <2>3. \A i \in DOMAIN calls : i - 1 \in 0 .. Len(calls) - 1
      BY <1>1
    <2> QED
      BY <2>2, <2>3
  <1> QED
    BY <1>2 DEF Public

\* Only the first field of a state changes when it is refused.
RefusedStates(state) == [ok : {FALSE}, calls : {state.calls}, shown : {state.shown}]

\* A refusal keeps the rest of the record.
LEMMA OkChanges ==
  ASSUME NEW state, IsState(state)
  PROVE  [state EXCEPT !.ok = FALSE] \in RefusedStates(state)
  <1> DEFINE a == state.ok
             b == state.calls
             c == state.shown
  <1>2. state = [ok |-> a, calls |-> b, shown |-> c]
    BY Zenon DEF IsState
  <1> HIDE DEF a, b, c
  <1>3. [[ok |-> a, calls |-> b, shown |-> c] EXCEPT !.ok = FALSE]
          \in [ok : {FALSE}, calls : {b}, shown : {c}]
    OBVIOUS
  <1> QED
    BY <1>2, <1>3, Zenon DEF RefusedStates, b, c

\* A part is refused, or joined to the call it names.
LEMMA RefusedPart ==
  ASSUME NEW state, NEW part, IsState(state)
  PROVE  \/ AcceptPart(state, part) \in RefusedStates(state)
         \/ AcceptPart(state, part).ok = TRUE /\ state.ok
  <1> DEFINE old  == Before(state.calls, part)
             call == old[part.index + 1]
             id   == IF part.index = Len(state.calls) THEN call.id ELSE part.id
             shows == ShownId(call, id)
             calls == [old EXCEPT ![part.index + 1].name = @ \o part.name,
                                  ![part.index + 1].args = Joined(@, part.args)]
             showing == state.shown \cup (IF shows = NoId THEN {} ELSE {<<part.index, shows>>})
             accepted == [ok |-> TRUE, calls |-> calls, shown |-> showing]
             refused == ~state.ok \/ part.index > Len(state.calls)
                                  \/ (call.kept /\ id \notin {NoId, call.id})
  <1>1. AcceptPart(state, part) = IF refused THEN [state EXCEPT !.ok = FALSE] ELSE accepted
    BY Zenon DEF AcceptPart, Before
  <1>2. accepted.ok = TRUE
    OBVIOUS
  <1>2a. ~refused => state.ok
    OBVIOUS
  <1> HIDE DEF refused, accepted, old, call, id, shows, calls, showing
  <1>3. [state EXCEPT !.ok = FALSE] \in RefusedStates(state)
    BY OkChanges, Zenon
  <1> QED
    BY <1>1, <1>2, <1>2a, <1>3

\* One part more keeps ids distinct and shows the calls that there are.
LEMMA PartStays ==
  ASSUME NEW calls \in Seq(Call), NEW state \in PartStates(calls), NEW part \in PartType
  PROVE  AcceptPart(state, part) \in PartStates(calls)
  <1> DEFINE next == AcceptPart(state, part)
  <1>1. IsState(state) /\ state.ok \in BOOLEAN /\ state.calls \in Seq(Call)
        /\ state.shown \in SUBSET (Nat \X Ids)
    BY DEF PartStates, IsState
  <1>2. CASE next \in RefusedStates(state)
    <2>1. next \in [ok : BOOLEAN, calls : Seq(Call), shown : SUBSET (Nat \X Ids)]
      BY <1>1, <1>2 DEF RefusedStates
    <2>2. next.ok = FALSE
      BY <1>2 DEF RefusedStates
    <2> HIDE DEF next
    <2>3. next \in PartStates(calls)
      BY <2>1, <2>2, Zenon DEF PartStates
    <2> QED
      BY <2>3 DEF next
  <1>3. CASE next.ok = TRUE /\ state.ok
    <2> DEFINE old == Before(state.calls, part)
               at  == part.index + 1
               new == [old EXCEPT ![at] = Extended(old[at], part)]
    <2>b. Distinct(state.calls) /\ state.shown \cup Public(calls) = Public(state.calls)
      BY <1>3 DEF PartStates
    <2>1. /\ IsState(next) /\ old \in Seq(Call) /\ Distinct(old) /\ at \in 1 .. Len(old)
          /\ next.calls = new
          /\ next.shown \cup Public(state.calls) = state.shown \cup Public(old)
          /\ state.shown \subseteq next.shown /\ Public(state.calls) \subseteq Public(old)
      BY <1>1, <1>3, <2>b, AcceptPartKeeps
    <2> HIDE DEF next, old, at
    <2>2. new \in Seq(Call) /\ Distinct(new) /\ Public(new) = Public(old)
      BY <2>1, ExtendedKeeps
    <2> HIDE DEF new
    <2>3. Public(old) \subseteq Nat \X Ids
      <3>1. Len(old) \in Nat /\ 0 .. Len(old) - 1 \subseteq Nat
        BY <2>1
      <3> QED
        BY <2>1, <3>1, PublicType
    <2>4. next.shown \in SUBSET (Nat \X Ids)
      BY <1>1, <2>1, <2>3
    <2>5. next.shown \cup Public(calls) = Public(next.calls)
      BY <2>1, <2>2, <2>b
    <2> DEFINE showing == next.shown
    <2>6. next = [ok |-> TRUE, calls |-> new, shown |-> showing] /\ showing \in SUBSET (Nat \X Ids)
      BY <1>3, <2>1, <2>4 DEF IsState
    <2> HIDE DEF showing
    <2>7. next \in [ok : BOOLEAN, calls : Seq(Call), shown : SUBSET (Nat \X Ids)]
      BY <2>2, <2>6
    <2> QED
      BY <2>1, <2>2, <2>5, <2>7 DEF PartStates, next
  <1> QED
    BY <1>1, <1>2, <1>3, RefusedPart

----------------------------------------------------------------------------
(* The assembler: all parts of a choice.                                   *)

\* What the parts of a choice make of the calls.
Loaded(calls, parts) == Parts!Fold({}, [ok |-> TRUE, calls |-> calls, shown |-> {}], parts)

\* push walks the parts as Loaded does.
LEMMA LoadedIsFold ==
  ASSUME NEW calls, NEW parts
  PROVE  FoldLeft(AcceptPart, [ok |-> TRUE, calls |-> calls, shown |-> {}], parts)
           = Loaded(calls, parts)
  BY Zenon DEF Loaded, Parts!Fold, Parts!FoldLeft, FoldLeft, Parts!MapThenFoldSet,
     MapThenFoldSet, Max, Parts!Max, PartStep

\* All parts of a choice keep what one part keeps.
LEMMA LoadedType ==
  ASSUME NEW calls \in Seq(Call), Distinct(calls), NEW parts \in Seq(PartType)
  PROVE  Loaded(calls, parts) \in PartStates(calls)
  <1> DEFINE base == [ok |-> TRUE, calls |-> calls, shown |-> {}]
             n == Len(parts)
             S == PartStates(calls)
  <1>1. base \in S
    BY DEF PartStates
  <1>2. n \in Nat /\ DOMAIN parts = 1 .. n
    OBVIOUS
  <1>3. \A i \in 1 .. n : \A s \in S : PartStep({}, s, parts[i]) \in S
    <2>1. ASSUME NEW i \in 1 .. n, NEW s \in S PROVE PartStep({}, s, parts[i]) \in S
      <3>1. parts[i] \in PartType
        OBVIOUS
      <3> QED
        BY <3>1, PartStays DEF PartStep
    <2> QED
      BY <2>1
  <1> HIDE DEF base, n, S
  <1>4. Parts!Fold({}, base, parts) \in S
    BY <1>1, <1>2, <1>3, Parts!FoldIn, Zenon
  <1> QED
    BY <1>4 DEF Loaded, base, S

\* A choice without parts changes no call.
LEMMA LoadedNothing ==
  ASSUME NEW calls
  PROVE  Loaded(calls, <<>>) = [ok |-> TRUE, calls |-> calls, shown |-> {}]
  BY Parts!FoldEmpty, Zenon DEF Loaded

\* More about a push that gives a chunk, and about one that gives nothing.
LEMMA PushedParts ==
  ASSUME asm = [field \in AsmFields |-> asm[field]], NEW delta, NEW ending,
         Pushed(asm, request, delta, ending).verdict = "chunk"
  PROVE  LET pushed == Pushed(asm, request, delta, ending)
             parts  == Loaded(asm.calls, delta.parts)
             text   == asm.text \/ delta.content
             finish == FinishReason(ending, text, parts.calls)
         IN /\ parts.ok
            /\ pushed.asm.calls = parts.calls
            /\ pushed.asm.started = TRUE
            /\ pushed.asm.text = text
            /\ pushed.chunk.shown = parts.shown
            /\ pushed.chunk.reason = IF ending # "none" THEN finish ELSE "none"
            /\ ending # "none" => ValidOutcome(request.choice, text, parts.calls, finish)
  <1> DEFINE parts == FoldLeft(AcceptPart, [ok |-> TRUE, calls |-> asm.calls, shown |-> {}],
                               delta.parts)
             text == asm.text \/ delta.content
             finish == FinishReason(ending, text, parts.calls)
             chunk == [kind   |-> IF ending # "none" THEN "finish" ELSE "delta",
                       reason |-> IF ending # "none" THEN finish ELSE "none",
                       shown  |-> parts.shown]
             next == [asm EXCEPT !.calls = parts.calls, !.started = TRUE,
                                 !.text = text, !.terminal = (ending # "none")]
             given_chunk == [verdict |-> "chunk", chunk |-> chunk, asm |-> next]
  <1>1. /\ Pushed(asm, request, delta, ending) = given_chunk
        /\ parts.ok
        /\ ending # "none" => ValidOutcome(request.choice, text, parts.calls, finish)
    BY Zenon DEF Pushed, Refusal
  <1>2. /\ given_chunk.asm = next
        /\ given_chunk.chunk.shown = parts.shown
        /\ given_chunk.chunk.reason = IF ending # "none" THEN finish ELSE "none"
    OBVIOUS
  <1>3. parts = Loaded(asm.calls, delta.parts)
    BY LoadedIsFold
  <1> HIDE DEF parts, text, finish
  <1>4. next.calls = parts.calls /\ next.started = TRUE /\ next.text = text
    BY DEF AsmFields
  <1> HIDE DEF next, given_chunk
  <1> QED
    BY <1>1, <1>2, <1>3, <1>4 DEF finish, text

\* A push that is silent carried no part and no end.
LEMMA PushedNothing ==
  ASSUME NEW delta, NEW ending, Pushed(asm, request, delta, ending).verdict = "nothing"
  PROVE  ending = "none" /\ delta.parts = <<>>
  BY Zenon DEF Pushed, Refusal

(***************************************************************************)
(* What the client has seen of the calls is what the assembler has.        *)
(***************************************************************************)
Reasons == {"none", "stop", "length", "tool_calls", "content_filter"}

Known ==
  /\ provider \in Providers
  /\ request \in Requests
  /\ event \in Events
  /\ asm.calls \in Seq(Call)
  /\ Len(asm.calls) <= MaxCalls
  /\ Distinct(asm.calls)
  /\ asm.started \in BOOLEAN
  /\ asm.text \in BOOLEAN
  /\ shown = Public(asm.calls)
  /\ reason \in Reasons
  /\ given \in Items
  /\ FinishHonest

\* What all turns have in common.
Steps == UNCHANGED <<provider, request>> /\ event' \in Events

IsDelta(delta) == delta.parts \in Seq(PartType)

\* The client has seen a call exactly when there is one.
LEMMA PublicEmpty ==
  ASSUME NEW calls \in Seq(Call)
  PROVE  Public(calls) = {} <=> calls = <<>>
  <1>1. DOMAIN calls = 1 .. Len(calls) /\ Len(calls) \in Nat
    OBVIOUS
  <1>2. CASE calls = <<>>
    BY <1>2 DEF Public
  <1>3. CASE calls # <<>>
    <2>1. 1 \in DOMAIN calls
      BY <1>1, <1>3, EmptySeq
    <2> QED
      BY <1>3, <2>1 DEF Public
  <1> QED
    BY <1>2, <1>3

\* validate_outcome lets only the reasons of the wire through.
LEMMA FinishType ==
  ASSUME NEW ending \in Terminals \ {"none"}, NEW text, NEW calls, NEW choice,
         ValidOutcome(choice, text, calls, FinishReason(ending, text, calls))
  PROVE  FinishReason(ending, text, calls) \in Reasons \ {"none"}
  BY DEF FinishReason, ValidOutcome, Terminals, Reasons

\* The assembler, the last item and what was shown do not change.
LEMMA SameKnown ==
  ASSUME Known, Steps, UNCHANGED <<asm, shown, reason>>,
         given' = given \/ given' \in Items \ {"finish"}
  PROVE  Known'
  BY DEF Known, Steps, FinishHonest

\* The usage changes no call, and is no finish.
LEMMA UsageKnown ==
  ASSUME Lifecycle, Known, Steps, GiveUsage
  PROVE  Known'
  <1>1. asm'.calls = asm.calls /\ asm'.started = asm.started /\ asm'.text = asm.text
    BY DEF GiveUsage, Lifecycle, AsmFields
  <1>2. given' = "usage" /\ shown' = shown /\ reason' = reason
    BY DEF GiveUsage
  <1> QED
    BY <1>1, <1>2 DEF Known, Steps, FinishHonest, Items

\* The heart of the matter: whatever is pushed, the client has seen the calls that
\* the assembler has, and a finish is true of them.
LEMMA PushKnown ==
  ASSUME Lifecycle, Known, Steps, NEW delta, IsDelta(delta), NEW ending \in Terminals,
         NEW fields, NEW ends, Push(delta, ending, fields, ends)
  PROVE  Known'
  <1> DEFINE pushed == Pushed(asm, request, delta, ending)
             parts  == Loaded(asm.calls, delta.parts)
             text   == asm.text \/ delta.content
             finish == FinishReason(ending, text, parts.calls)
  <1>1. CASE Fail
    BY <1>1, SameKnown DEF Fail, Items
  <1>2. CASE Quiet
    BY <1>2, SameKnown DEF Quiet
  <1>3. CASE /\ pushed.verdict = "chunk"
             /\ WithinBounds(pushed.asm.calls)
             /\ asm' = pushed.asm
             /\ given' = pushed.chunk.kind
             /\ reason' = pushed.chunk.reason
             /\ shown' = shown \cup pushed.chunk.shown
    <2>1. parts \in PartStates(asm.calls)
      BY LoadedType DEF Known, IsDelta
    <2>2. /\ parts.ok
          /\ asm'.calls = parts.calls
          /\ asm'.started = TRUE
          /\ asm'.text = text
          /\ shown' = shown \cup parts.shown
          /\ reason' = IF ending # "none" THEN finish ELSE "none"
          /\ ending # "none" => ValidOutcome(request.choice, text, parts.calls, finish)
      <3>1. asm = [field \in AsmFields |-> asm[field]]
        BY DEF Lifecycle
      <3>2. /\ parts.ok
            /\ pushed.asm.calls = parts.calls
            /\ pushed.asm.started = TRUE
            /\ pushed.asm.text = text
            /\ pushed.chunk.shown = parts.shown
            /\ pushed.chunk.reason = IF ending # "none" THEN finish ELSE "none"
            /\ ending # "none" => ValidOutcome(request.choice, text, parts.calls, finish)
        BY <1>3, <3>1, PushedParts
      <3> HIDE DEF pushed, parts, text, finish
      <3> QED
        BY <1>3, <3>2
    <2>3. given' = IF ending # "none" THEN "finish" ELSE "delta"
      <3>1. /\ ~asm.terminal
            /\ pushed.asm = [field \in AsmFields |-> pushed.asm[field]]
            /\ pushed.asm.terminal = (ending # "none")
            /\ pushed.asm.counted = asm.counted
            /\ pushed.chunk.kind = IF ending # "none" THEN "finish" ELSE "delta"
        BY <1>3, PushedChunk
      <3> HIDE DEF pushed
      <3> QED
        BY <1>3, <3>1
    <2>4. /\ parts.calls \in Seq(Call) /\ Distinct(parts.calls)
          /\ parts.shown \cup Public(asm.calls) = Public(parts.calls)
      BY <2>1, <2>2 DEF PartStates
    <2> HIDE DEF parts
    <2>5. shown' = Public(parts.calls)
      BY <2>2, <2>4 DEF Known
    <2>6. Len(parts.calls) <= MaxCalls
      BY <1>3, <2>2 DEF WithinBounds
    <2>7. reason' \in Reasons
      BY <2>2, FinishType DEF Reasons
    <2>8. FinishHonest'
      <3> SUFFICES ASSUME ending # "none"
                   PROVE  /\ finish = "tool_calls" <=> Public(parts.calls) # {}
                          /\ request.choice = "none" => Public(parts.calls) = {}
                          /\ request.choice \in {"required", "named"} =>
                               finish \in {"tool_calls", "content_filter"}
        BY <2>2, <2>3, <2>5 DEF FinishHonest, Steps
      <3>1. Public(parts.calls) = {} <=> parts.calls = <<>>
        BY <2>4, PublicEmpty
      <3> HIDE DEF finish, text
      <3> QED
        BY <2>2, <3>1 DEF ValidOutcome, HonorsChoice
    <2>9. text \in BOOLEAN
      OBVIOUS
    <2> HIDE DEF text, finish, pushed
    <2> QED
      BY <2>2, <2>3, <2>4, <2>5, <2>6, <2>7, <2>8, <2>9 DEF Known, Steps, Items
  <1> QED
    BY <1>1, <1>2, <1>3 DEF Push

(***************************************************************************)
(* The books of Anthropic's decoder: an open block of a call has the       *)
(* arguments of the call so far, and a call without a block of its own has *)
(* whole ones.                                                             *)
(***************************************************************************)
Blocks(nextCall) == [call : {NoCall} \cup 0 .. nextCall - 1, args : Arguments]

Books(blocks, nextBlock, nextCall, calls) ==
  /\ nextBlock \in Nat
  /\ nextCall \in Nat
  /\ DOMAIN blocks \subseteq 0 .. nextBlock - 1
  /\ blocks \in [DOMAIN blocks -> Blocks(nextCall)]
  /\ \A i \in DOMAIN blocks :
       blocks[i].call # NoCall => calls[blocks[i].call + 1].args = blocks[i].args
  /\ \A i, j \in DOMAIN blocks :
       blocks[i].call = blocks[j].call /\ blocks[i].call # NoCall => i = j
  /\ \A c \in 1 .. nextCall :
       calls[c].args = "object" \/ \E i \in DOMAIN blocks : blocks[i].call = c - 1

\* A block of text opens.
LEMMA OpenText ==
  ASSUME NEW blocks, NEW nextBlock \in Nat, NEW nextCall \in Nat, NEW calls,
         Books(blocks, nextBlock, nextCall, calls)
  PROVE  Books(Inserted(blocks, nextBlock, [call |-> NoCall, args |-> ""]), nextBlock + 1,
               nextCall, calls)
  <1> DEFINE block == [call |-> NoCall, args |-> ""]
             more == Inserted(blocks, nextBlock, block)
  <1> HIDE DEF block
  <1>1. /\ DOMAIN more = DOMAIN blocks \cup {nextBlock}
        /\ more = [i \in DOMAIN more |-> more[i]]
        /\ more[nextBlock] = block
        /\ \A i \in DOMAIN blocks : i # nextBlock => more[i] = blocks[i]
    BY DEF Inserted
  <1> USE DEF block
  <1>2. block \in Blocks(nextCall) /\ block.call = NoCall
    BY DEF Blocks, Arguments
  <1> HIDE DEF more, block
  <1>3. /\ nextBlock \in Nat /\ nextBlock + 1 \in Nat
        /\ 0 .. (nextBlock + 1) - 1 = (0 .. nextBlock - 1) \cup {nextBlock}
        /\ nextBlock \notin DOMAIN blocks
    BY DEF Books
  <1>4. \A i \in DOMAIN more : more[i] \in Blocks(nextCall)
    BY <1>1, <1>2, <1>3 DEF Books
  <1>5. more \in [DOMAIN more -> Blocks(nextCall)]
    BY <1>1, <1>4, Zenon
  <1>6. DOMAIN more \subseteq 0 .. (nextBlock + 1) - 1
    BY <1>1, <1>3 DEF Books
  <1>7. \A i \in DOMAIN more : more[i].call # NoCall => i \in DOMAIN blocks /\ more[i] = blocks[i]
    BY <1>1, <1>2, <1>3
  <1>8. \A i \in DOMAIN blocks : i \in DOMAIN more /\ more[i] = blocks[i]
    BY <1>1, <1>3
  <1>9. Books(more, nextBlock + 1, nextCall, calls)
    BY <1>3, <1>5, <1>6, <1>7, <1>8 DEF Books
  <1> QED
    BY <1>9 DEF more, block

\* A call without arguments comes after the others.
Begun(calls, new, nextCall) ==
  /\ \A c \in 1 .. nextCall : new[c].args = calls[c].args
  /\ new[nextCall + 1].args = ""

\* A block of a tool opens, with the call that comes with it.
LEMMA OpenTool ==
  ASSUME NEW blocks, NEW nextBlock \in Nat, NEW nextCall \in Nat,
         NEW calls, NEW new,
         Books(blocks, nextBlock, nextCall, calls),
         Begun(calls, new, nextCall)
  PROVE  Books(Inserted(blocks, nextBlock, [call |-> nextCall, args |-> ""]), nextBlock + 1,
               nextCall + 1, new)
  <1> DEFINE block == [call |-> nextCall, args |-> ""]
             more == Inserted(blocks, nextBlock, block)
  <1> HIDE DEF block
  <1>1. /\ DOMAIN more = DOMAIN blocks \cup {nextBlock}
        /\ more = [i \in DOMAIN more |-> more[i]]
        /\ more[nextBlock] = block
        /\ \A i \in DOMAIN blocks : i # nextBlock => more[i] = blocks[i]
    BY DEF Inserted
  <1> USE DEF block
  <1>0. nextCall \in Nat /\ nextCall + 1 \in Nat /\ nextCall \in 0 .. (nextCall + 1) - 1
        /\ 0 .. nextCall - 1 \subseteq 0 .. (nextCall + 1) - 1
    OBVIOUS
  <1>2. /\ block \in Blocks(nextCall + 1) /\ block.call = nextCall /\ block.args = ""
        /\ Blocks(nextCall) \subseteq Blocks(nextCall + 1)
    BY <1>0 DEF Blocks, Arguments
  <1> HIDE DEF more, block
  <1>3. /\ nextBlock \in Nat /\ nextBlock + 1 \in Nat
        /\ 0 .. (nextBlock + 1) - 1 = (0 .. nextBlock - 1) \cup {nextBlock}
        /\ nextBlock \notin DOMAIN blocks
    BY DEF Books
  <1>8. \A i \in DOMAIN blocks : /\ i \in DOMAIN more /\ more[i] = blocks[i]
                                 /\ blocks[i] \in Blocks(nextCall)
    BY <1>1, <1>3 DEF Books
  <1>9. \A i \in DOMAIN more : i = nextBlock \/ i \in DOMAIN blocks
    BY <1>1
  <1>4. \A i \in DOMAIN more : more[i] \in Blocks(nextCall + 1)
    BY <1>1, <1>2, <1>8, <1>9
  <1>5. more \in [DOMAIN more -> Blocks(nextCall + 1)]
    BY <1>1, <1>4, Zenon
  <1>6. DOMAIN more \subseteq 0 .. (nextBlock + 1) - 1
    BY <1>1, <1>3 DEF Books
  <1>7. \A i \in DOMAIN blocks : blocks[i].call # NoCall =>
          /\ blocks[i].call + 1 \in 1 .. nextCall /\ blocks[i].call # nextCall
    BY <1>8, <1>0 DEF Blocks, NoCall
  <1>10. ASSUME NEW i \in DOMAIN more, more[i].call # NoCall
         PROVE  new[more[i].call + 1].args = more[i].args
    <2>1. CASE i = nextBlock
      BY <1>1, <1>2, <2>1 DEF Begun
    <2>2. CASE i \in DOMAIN blocks
      BY <1>7, <1>8, <1>10, <2>2 DEF Books, Begun
    <2> QED
      BY <1>9, <2>1, <2>2
  <1>11. ASSUME NEW i \in DOMAIN more, NEW j \in DOMAIN more,
                more[i].call = more[j].call, more[i].call # NoCall
         PROVE  i = j
    <2>1. CASE i \in DOMAIN blocks /\ j \in DOMAIN blocks
      BY <1>8, <1>11, <2>1 DEF Books
    <2>2. CASE i = nextBlock \/ j = nextBlock
      BY <1>1, <1>2, <1>7, <1>8, <1>9, <1>11, <2>2
    <2> QED
      BY <1>9, <2>1, <2>2
  <1>12. ASSUME NEW c \in 1 .. nextCall + 1
         PROVE  new[c].args = "object" \/ \E i \in DOMAIN more : more[i].call = c - 1
    <2>1. CASE c = nextCall + 1
      <3>1. nextBlock \in DOMAIN more /\ more[nextBlock].call = c - 1
        <4>1. c - 1 = nextCall
          BY <2>1
        <4> QED
          BY <1>1, <1>2, <4>1, Zenon
      <3> QED
        BY <3>1
    <2>2. CASE c \in 1 .. nextCall
      BY <1>8, <2>2 DEF Books, Begun
    <2> QED
      BY <1>0, <2>1, <2>2
  <1>13. Books(more, nextBlock + 1, nextCall + 1, new)
    BY <1>0, <1>3, <1>5, <1>6, <1>10, <1>11, <1>12 DEF Books
  <1> QED
    BY <1>13 DEF more, block

\* Arguments go to an open block and to its call alike.
LEMMA MoreArguments ==
  ASSUME NEW blocks, NEW nextBlock \in Nat, NEW nextCall \in Nat,
         NEW calls, NEW new,
         Books(blocks, nextBlock, nextCall, calls),
         NEW index \in DOMAIN blocks, blocks[index].call # NoCall,
         NEW fragment \in Fragments,
         \A c \in 1 .. nextCall : c # blocks[index].call + 1 => new[c] = calls[c],
         new[blocks[index].call + 1].args
           = Joined(calls[blocks[index].call + 1].args, fragment)
  PROVE  Books([blocks EXCEPT ![index].args = Joined(@, fragment)], nextBlock, nextCall, new)
  <1> DEFINE block == blocks[index]
             args == Joined(block.args, fragment)
             more == [blocks EXCEPT ![index].args = Joined(@, fragment)]
             joined == [call |-> block.call, args |-> args]
  <1>1. block \in Blocks(nextCall) /\ nextCall \in Nat
    BY DEF Books
  <1>2. args \in Arguments
    BY <1>1, JoinedIsArguments DEF Blocks
  <1>3. joined \in Blocks(nextCall) /\ joined.call = block.call /\ joined.args = args
    BY <1>1, <1>2 DEF Blocks
  <1>4. more = [blocks EXCEPT ![index] = joined]
    <2> HIDE DEF args
    <2>1. block = [call |-> block.call, args |-> block.args]
      BY <1>1 DEF Blocks
    <2>2. [block EXCEPT !.args = args] = joined
      <3> DEFINE c == block.call
                 a == block.args
      <3>1. block = [call |-> c, args |-> a]
        BY <2>1
      <3>2. joined = [call |-> c, args |-> args]
        OBVIOUS
      <3> HIDE DEF c, a, block
      <3> QED
        BY <3>1, <3>2
    <2> HIDE DEF joined
    <2>3. more = [blocks EXCEPT ![index] = [block EXCEPT !.args = args]]
      BY DEF args
    <2> QED
      BY <2>2, <2>3
  <1>5. blocks = [i \in DOMAIN blocks |-> blocks[i]]
    BY DEF Books
  <1>6. /\ DOMAIN more = DOMAIN blocks /\ more[index] = joined
        /\ \A i \in DOMAIN blocks : i # index => more[i] = blocks[i]
        /\ more = [i \in DOMAIN more |-> more[i]]
    <2> HIDE DEF joined
    <2> QED
      BY <1>4, <1>5
  <1> HIDE DEF more, joined, args
  <1>7. \A i \in DOMAIN more : more[i] \in Blocks(nextCall)
    BY <1>3, <1>6 DEF Books
  <1>8. more \in [DOMAIN more -> Blocks(nextCall)]
    BY <1>6, <1>7, Zenon
  <1>9. \A i \in DOMAIN more : more[i].call = blocks[i].call
    BY <1>3, <1>6
  <1>10. ASSUME NEW i \in DOMAIN more, more[i].call # NoCall
         PROVE  new[more[i].call + 1].args = more[i].args
    <2>1. CASE i = index
      <3>1. calls[block.call + 1].args = block.args
        BY DEF Books
      <3> QED
        BY <1>3, <1>6, <2>1, <3>1 DEF args
    <2>2. CASE i # index
      <3>1. blocks[i].call # block.call /\ calls[blocks[i].call + 1].args = blocks[i].args
        BY <1>6, <1>10, <2>2 DEF Books
      <3>2. blocks[i].call \in 0 .. nextCall - 1 /\ block.call \in 0 .. nextCall - 1
        <4>1. blocks[i] \in Blocks(nextCall)
          BY <1>6 DEF Books
        <4> QED
          BY <1>1, <1>6, <1>10, <2>2, <4>1 DEF Blocks
      <3>3. blocks[i].call + 1 \in 1 .. nextCall /\ blocks[i].call + 1 # block.call + 1
        BY <1>1, <3>1, <3>2
      <3> QED
        BY <1>6, <2>2, <3>1, <3>3
    <2> QED
      BY <2>1, <2>2
  <1>11. ASSUME NEW c \in 1 .. nextCall
         PROVE  new[c].args = "object" \/ \E i \in DOMAIN more : more[i].call = c - 1
    <2>1. CASE c = block.call + 1
      <3>1. more[index].call = c - 1
        BY <1>1, <1>9, <1>6, <2>1 DEF Blocks, NoCall
      <3> QED
        BY <1>6, <3>1
    <2>2. CASE c # block.call + 1
      <3>1. new[c] = calls[c]
        BY <2>2
      <3> QED
        BY <1>6, <1>9, <3>1 DEF Books
    <2> QED
      BY <2>1, <2>2
  <1> QED
    BY <1>6, <1>8, <1>9, <1>10, <1>11 DEF Books, more

\* A block closes when its arguments are whole.
LEMMA CloseBlock ==
  ASSUME NEW blocks, NEW nextBlock \in Nat, NEW nextCall \in Nat, NEW calls,
         Books(blocks, nextBlock, nextCall, calls), NEW index \in DOMAIN blocks,
         blocks[index].call = NoCall \/ blocks[index].args = "object"
  PROVE  Books(Restrict(blocks, DOMAIN blocks \ {index}), nextBlock, nextCall, calls)
  <1> DEFINE left == DOMAIN blocks \ {index}
             less == [i \in left |-> blocks[i]]
  <1>1. \A i \in left : i \in DOMAIN blocks /\ i # index
    OBVIOUS
  <1>2. \A c \in 1 .. nextCall : c - 1 # NoCall
    BY DEF NoCall
  <1>3. ASSUME NEW c \in 1 .. nextCall, calls[c].args # "object"
        PROVE  \E i \in left : less[i].call = c - 1
    <2>1. PICK i \in DOMAIN blocks : blocks[i].call = c - 1
      BY <1>3 DEF Books
    <2>2. i # index
      <3>1. c - 1 # NoCall /\ (c - 1) + 1 = c
        BY <1>2 DEF Books
      <3>2. calls[c].args = blocks[i].args
        BY <2>1, <3>1 DEF Books
      <3> QED
        BY <1>3, <2>1, <3>1, <3>2
    <2> QED
      BY <2>1, <2>2
  <1>4. less \in [left -> Blocks(nextCall)]
    BY DEF Books
  <1>5. DOMAIN less = left
    OBVIOUS
  <1>6. Books(less, nextBlock, nextCall, calls)
    BY <1>1, <1>3, <1>4, <1>5 DEF Books
  <1> QED
    BY <1>6 DEF Restrict

\* With no block open every call has its arguments.
LEMMA AllClosed ==
  ASSUME NEW blocks, NEW nextBlock \in Nat, NEW nextCall \in Nat, NEW calls,
         Books(blocks, nextBlock, nextCall, calls), blocks = <<>>
  PROVE  \A c \in 1 .. nextCall : calls[c].args = "object"
  BY DEF Books

----------------------------------------------------------------------------
(* What a push does, for the decoders' books.                              *)

\* What a push does to the calls and to the decoder's fields.
LEMMA PushCases ==
  ASSUME Lifecycle, NEW delta, NEW ending, NEW fields, NEW ends,
         Push(delta, ending, fields, ends)
  PROVE  \/ UNCHANGED <<asm, native>>
         \/ asm' = asm /\ native' = fields /\ delta.parts = <<>> /\ ending = "none"
         \/ /\ ~asm.terminal
            /\ native' = fields
            /\ Loaded(asm.calls, delta.parts).ok
            /\ asm'.calls = Loaded(asm.calls, delta.parts).calls
            /\ asm'.terminal = (ending # "none")
  <1> DEFINE pushed == Pushed(asm, request, delta, ending)
             parts  == Loaded(asm.calls, delta.parts)
             text   == asm.text \/ delta.content
             finish == FinishReason(ending, text, parts.calls)
  <1>1. CASE Fail
    BY <1>1 DEF Fail
  <1>2. CASE pushed.verdict = "nothing" /\ native' = fields /\ Quiet
    BY <1>2, PushedNothing DEF Quiet
  <1>3. CASE pushed.verdict = "chunk" /\ asm' = pushed.asm /\ native' = fields
    <2>1. asm = [field \in AsmFields |-> asm[field]]
      BY DEF Lifecycle
    <2>2. /\ parts.ok
          /\ pushed.asm.calls = parts.calls
          /\ pushed.asm.started = TRUE
          /\ pushed.asm.text = text
          /\ pushed.chunk.shown = parts.shown
          /\ pushed.chunk.reason = IF ending # "none" THEN finish ELSE "none"
          /\ ending # "none" => ValidOutcome(request.choice, text, parts.calls, finish)
      BY <1>3, <2>1, PushedParts
    <2>3. /\ ~asm.terminal
          /\ pushed.asm = [field \in AsmFields |-> pushed.asm[field]]
          /\ pushed.asm.terminal = (ending # "none")
          /\ pushed.asm.counted = asm.counted
          /\ pushed.chunk.kind = IF ending # "none" THEN "finish" ELSE "delta"
      BY <1>3, PushedChunk
    <2> HIDE DEF pushed, parts, text, finish
    <2>4. parts.ok /\ asm'.calls = parts.calls /\ asm'.terminal = (ending # "none")
      BY <1>3, <2>2, <2>3
    <2> QED
      BY <1>3, <2>3, <2>4 DEF parts
  <1> QED
    BY <1>1, <1>2, <1>3 DEF Push

\* A choice with one part.
LEMMA LoadedOne ==
  ASSUME NEW calls, NEW part
  PROVE  Loaded(calls, <<part>>) = AcceptPart([ok |-> TRUE, calls |-> calls, shown |-> {}], part)
  <1> DEFINE base == [ok |-> TRUE, calls |-> calls, shown |-> {}]
             n == 0
             seq == <<>>
             more == <<part>>
  <1>1. Parts!OneMore(seq, n, more)
    BY DEF Parts!OneMore
  <1>5. more[n + 1] = part
    OBVIOUS
  <1>6. Parts!Fold({}, base, seq) = base
    BY Parts!FoldEmpty, Zenon
  <1> HIDE DEF base, n, seq, more
  <1>7. Parts!Fold({}, base, more) = PartStep({}, Parts!Fold({}, base, seq), more[n + 1])
    BY <1>1, Parts!FoldMore
  <1> QED
    BY <1>5, <1>6, <1>7 DEF PartStep, Loaded, base, more

\* A part of a call that is not there yet.
LEMMA AcceptFirst ==
  ASSUME NEW state, IsState(state), state.calls \in Seq(Call), Distinct(state.calls),
         NEW part \in PartType, part.index = Len(state.calls), AcceptPart(state, part).ok
  PROVE  LET new == AcceptPart(state, part).calls
             n   == Len(state.calls)
         IN /\ Len(new) = n + 1
            /\ \A i \in 1 .. n : new[i] = state.calls[i]
            /\ new[n + 1].name = part.name
            /\ new[n + 1].args = Joined("", part.args)
            /\ new[n + 1].kept => new[n + 1].id = part.id
  <1> DEFINE calls == state.calls
             n == Len(calls)
             got == AcceptPart(state, part)
             old == Before(calls, part)
             call == Extended(old[n + 1], part)
             new == [old EXCEPT ![n + 1] = call]
  <1>1. got.calls = new /\ old \in Seq(Call)
    <2> DEFINE at == part.index + 1
    <2>1. /\ state.ok
          /\ IsState(got) /\ got.ok = TRUE
          /\ old \in Seq(Call) /\ Distinct(old)
          /\ at \in 1 .. Len(old) /\ Len(old) \in {Len(calls), Len(calls) + 1}
          /\ got.calls = [old EXCEPT ![at] = Extended(old[at], part)]
          /\ got.shown \cup Public(calls) = state.shown \cup Public(old)
          /\ state.shown \subseteq got.shown /\ Public(calls) \subseteq Public(old)
      BY AcceptPartKeeps
    <2> HIDE DEF got, old
    <2> QED
      BY <2>1
  <1>2. old = Introduce(calls, part)
    BY DEF Before
  <1>3. /\ Len(old) = n + 1
        /\ \A i \in 1 .. n : old[i] = calls[i]
        /\ old[n + 1].name = <<>> /\ old[n + 1].args = ""
        /\ old[n + 1].kept => old[n + 1].id = part.id
    <2> HIDE DEF old
    <2>1. /\ old \in Seq(Call) /\ Distinct(old) /\ Len(old) = n + 1
          /\ \A i \in 1 .. n : old[i] = calls[i]
          /\ old[n + 1].name = <<>> /\ old[n + 1].args = ""
          /\ old[n + 1].kept => old[n + 1].id = part.id
      BY <1>2, IntroduceKeeps
    <2> QED
      BY <2>1
  <1>4. n \in Nat
    OBVIOUS
  <1> HIDE DEF old
  <1>5. /\ call.name = part.name /\ call.args = Joined("", part.args)
        /\ call.id = old[n + 1].id /\ call.kept = old[n + 1].kept
    <2>1. <<>> \o part.name = part.name
      BY ConcatEmptySeq DEF PartType
    <2> QED
      BY <1>3, <2>1 DEF Extended
  <1> HIDE DEF call
  <1>6. /\ Len(new) = n + 1 /\ new[n + 1] = call
        /\ \A i \in 1 .. n : new[i] = old[i]
    <2>1. Len(old) = n + 1 /\ DOMAIN old = 1 .. n + 1 /\ n + 1 \in 1 .. n + 1
      <3>1. Len(old) = n + 1
        BY <1>3
      <3> QED
        BY <1>1, <1>4, <3>1
    <2>2. DOMAIN new = 1 .. n + 1 /\ new \in Seq(Call \cup {call})
      BY <1>1, <2>1
    <2> QED
      BY <1>4, <2>1, <2>2
  <1> HIDE DEF new
  <1> QED
    BY <1>1, <1>3, <1>5, <1>6

\* A further part of a call.
LEMMA AcceptLater ==
  ASSUME NEW state, IsState(state), state.calls \in Seq(Call), Distinct(state.calls),
         NEW part \in PartType, part.index < Len(state.calls), AcceptPart(state, part).ok
  PROVE  LET new == AcceptPart(state, part).calls
             at  == part.index + 1
             n   == Len(state.calls)
         IN /\ at \in 1 .. n
            /\ Len(new) = n
            /\ \A i \in 1 .. n : i # at => new[i] = state.calls[i]
            /\ new[at].name = state.calls[at].name \o part.name
            /\ new[at].args = Joined(state.calls[at].args, part.args)
            /\ new[at].id = state.calls[at].id /\ new[at].kept = state.calls[at].kept
  <1> DEFINE calls == state.calls
             n == Len(calls)
             got == AcceptPart(state, part)
             old == Before(calls, part)
             at == part.index + 1
             call == Extended(calls[at], part)
             new == [calls EXCEPT ![at] = call]
  <1>1. part.index \in Nat /\ n \in Nat /\ at \in 1 .. n
    BY DEF PartType
  <1>2. old = calls
    BY <1>1 DEF Before
  <1>3. got.calls = new
    <2>1. /\ state.ok
          /\ IsState(got) /\ got.ok = TRUE
          /\ old \in Seq(Call) /\ Distinct(old)
          /\ at \in 1 .. Len(old) /\ Len(old) \in {Len(calls), Len(calls) + 1}
          /\ got.calls = [old EXCEPT ![at] = Extended(old[at], part)]
          /\ got.shown \cup Public(calls) = state.shown \cup Public(old)
          /\ state.shown \subseteq got.shown /\ Public(calls) \subseteq Public(old)
      BY AcceptPartKeeps
    <2> HIDE DEF got, old
    <2> QED
      BY <1>2, <2>1
  <1>4. /\ call.name = calls[at].name \o part.name
        /\ call.args = Joined(calls[at].args, part.args)
        /\ call.id = calls[at].id /\ call.kept = calls[at].kept
    BY DEF Extended
  <1> HIDE DEF call, got
  <1>5. /\ Len(new) = n /\ new[at] = call
        /\ \A i \in 1 .. n : i # at => new[i] = calls[i]
    BY <1>1
  <1> HIDE DEF new
  <1> QED
    BY <1>1, <1>3, <1>4, <1>5 DEF got

\* The same of a choice that has one part.
LEMMA OnePart ==
  ASSUME NEW calls, NEW part
  PROVE  \E state : /\ IsState(state) /\ state.calls = calls
                    /\ Loaded(calls, <<part>>) = AcceptPart(state, part)
  <1> DEFINE base == [ok |-> TRUE, calls |-> calls, shown |-> {}]
  <1>1. IsState(base) /\ base.calls = calls
    BY DEF IsState
  <1> QED
    BY <1>1, LoadedOne

\* A choice whose one part begins a call.
LEMMA FirstPart ==
  ASSUME NEW calls \in Seq(Call), Distinct(calls), NEW part \in PartType,
         part.index = Len(calls), Loaded(calls, <<part>>).ok
  PROVE  LET new == Loaded(calls, <<part>>).calls
             n   == Len(calls)
         IN /\ Len(new) = n + 1
            /\ \A i \in 1 .. n : new[i] = calls[i]
            /\ new[n + 1].name = part.name
            /\ new[n + 1].args = Joined("", part.args)
            /\ new[n + 1].kept => new[n + 1].id = part.id
  <1>1. PICK state : /\ IsState(state) /\ state.calls = calls
                     /\ Loaded(calls, <<part>>) = AcceptPart(state, part)
    BY OnePart
  <1>2. state.calls \in Seq(Call) /\ Distinct(state.calls) /\ AcceptPart(state, part).ok
        /\ part.index = Len(state.calls)
    BY <1>1
  <1> DEFINE new == AcceptPart(state, part).calls
             n   == Len(state.calls)
  <1>3. /\ Len(new) = n + 1
        /\ \A i \in 1 .. n : new[i] = state.calls[i]
        /\ new[n + 1].name = part.name
        /\ new[n + 1].args = Joined("", part.args)
        /\ new[n + 1].kept => new[n + 1].id = part.id
    BY <1>1, <1>2, AcceptFirst
  <1> HIDE DEF new
  <1> QED
    BY <1>1, <1>3 DEF new

\* A choice whose one part goes on with a call.
LEMMA LaterPart ==
  ASSUME NEW calls \in Seq(Call), Distinct(calls), NEW part \in PartType,
         part.index < Len(calls), Loaded(calls, <<part>>).ok
  PROVE  LET new == Loaded(calls, <<part>>).calls
             at  == part.index + 1
         IN /\ at \in 1 .. Len(calls)
            /\ Len(new) = Len(calls)
            /\ \A i \in 1 .. Len(calls) : i # at => new[i] = calls[i]
            /\ new[at].name = calls[at].name \o part.name
            /\ new[at].args = Joined(calls[at].args, part.args)
            /\ new[at].id = calls[at].id /\ new[at].kept = calls[at].kept
  <1>1. PICK state : /\ IsState(state) /\ state.calls = calls
                     /\ Loaded(calls, <<part>>) = AcceptPart(state, part)
    BY OnePart
  <1>2. state.calls \in Seq(Call) /\ Distinct(state.calls) /\ AcceptPart(state, part).ok
        /\ part.index < Len(state.calls)
    BY <1>1
  <1> DEFINE new == AcceptPart(state, part).calls
             at  == part.index + 1
             n   == Len(state.calls)
  <1>3. /\ at \in 1 .. n
        /\ Len(new) = n
        /\ \A i \in 1 .. n : i # at => new[i] = state.calls[i]
        /\ new[at].name = state.calls[at].name \o part.name
        /\ new[at].args = Joined(state.calls[at].args, part.args)
        /\ new[at].id = state.calls[at].id /\ new[at].kept = state.calls[at].kept
    BY <1>1, <1>2, AcceptLater
  <1> HIDE DEF new
  <1> QED
    BY <1>1, <1>3 DEF new

\* A choice with a part more.
LEMMA LoadedMore ==
  ASSUME NEW calls, NEW parts \in Seq(PartType), NEW part \in PartType
  PROVE  Loaded(calls, Append(parts, part)) = AcceptPart(Loaded(calls, parts), part)
  <1> DEFINE base == [ok |-> TRUE, calls |-> calls, shown |-> {}]
             n == Len(parts)
             more == Append(parts, part)
  <1>1. Parts!OneMore(parts, n, more) /\ more[n + 1] = part
    BY AppendProperties DEF Parts!OneMore
  <1> HIDE DEF base, n, more
  <1>2. Parts!Fold({}, base, more) = PartStep({}, Parts!Fold({}, base, parts), more[n + 1])
    BY <1>1, Parts!FoldMore
  <1> QED
    BY <1>1, <1>2 DEF PartStep, Loaded, base, more

AnthropicBooks ==
  provider = "anthropic" =>
    /\ Books(native.blocks, native.nextBlock, native.nextCall, asm.calls)
    /\ native.nextCall = Len(asm.calls)
    /\ native.input \in BOOLEAN
    /\ native.output \in BOOLEAN
    /\ asm.terminal => \A c \in 1 .. native.nextCall : asm.calls[c].args = "object"

\* A delta with text has no part.
LEMMA TextIsDelta ==
  ASSUME NEW content
  PROVE  IsDelta(TextDelta(content)) /\ TextDelta(content).parts = <<>>
  BY DEF IsDelta, TextDelta

\* A delta with a call has that part.
LEMMA CallIsDelta ==
  ASSUME NEW part \in PartType
  PROVE  IsDelta(CallDelta(part)) /\ CallDelta(part).parts = <<part>>
  BY DEF IsDelta, CallDelta

\* The decoder and the assembler are as they were, as far as the books go.
LEMMA SameBooks ==
  ASSUME Stopping, AnthropicBooks, UNCHANGED <<provider, native>>,
         asm'.calls = asm.calls, asm'.terminal = asm.terminal
  PROVE  AnthropicBooks'
  BY DEF AnthropicBooks

\* A text, or the end, changes no call.
LEMMA TextCalls ==
  ASSUME Lifecycle, NEW content, NEW ending, NEW fields, NEW ends,
         Push(TextDelta(content), ending, fields, ends)
  PROVE  \/ UNCHANGED <<asm, native>>
         \/ /\ native' = fields
            /\ asm'.calls = asm.calls
            /\ asm'.terminal = asm.terminal \/ (~asm.terminal /\ asm'.terminal = (ending # "none"))
  <1>1. TextDelta(content).parts = <<>>
    BY TextIsDelta
  <1>2. Loaded(asm.calls, <<>>).calls = asm.calls
    BY LoadedNothing
  <1> QED
    BY <1>1, <1>2, PushCases

\* message_start.
LEMMA MessageStartBooks ==
  ASSUME Lifecycle, Stopping, AnthropicBooks, provider = "anthropic", ~Fail, MessageStart
  PROVE  AnthropicBooks'
  <1>1. PICK input \in BOOLEAN : Notes([native EXCEPT !.started = TRUE, !.input = input])
    BY DEF MessageStart
  <1>2. native = [field \in AnthropicFields |-> native[field]]
    BY DEF Stopping
  <1>3. /\ native'.blocks = native.blocks /\ native'.nextBlock = native.nextBlock
        /\ native'.nextCall = native.nextCall /\ native'.output = native.output
        /\ native'.input = input /\ asm' = asm /\ provider' = provider
    BY <1>1, <1>2 DEF Notes, Quiet, AnthropicFields, MessageStart, AnthropicReads, Reads
  <1> QED
    BY <1>3 DEF AnthropicBooks

\* content_block_start, of a text.
LEMMA TextBlockStartBooks ==
  ASSUME Lifecycle, Stopping, AnthropicBooks, provider = "anthropic", TextBlockStart
  PROVE  AnthropicBooks'
  <1> DEFINE block == [call |-> NoCall, args |-> ""]
             opened == Opened(block)
  <1>0. provider' = provider
    BY DEF TextBlockStart, AnthropicReads, Reads
  <1>1. PICK content \in BOOLEAN : Push(TextDelta(content), "none", opened, FALSE)
    BY DEF TextBlockStart
  <1>2. native = [field \in AnthropicFields |-> native[field]]
    BY DEF Stopping
  <1> HIDE DEF block
  <1>3. /\ opened.blocks = Inserted(native.blocks, native.nextBlock, block)
        /\ opened.nextBlock = native.nextBlock + 1
        /\ opened.nextCall = native.nextCall
        /\ opened.input = native.input /\ opened.output = native.output
    BY <1>2 DEF Opened, AnthropicFields
  <1> HIDE DEF opened
  <1>4. CASE UNCHANGED <<asm, native>>
    BY <1>0, <1>4, SameBooks
  <1>5. CASE /\ native' = opened
             /\ asm'.calls = asm.calls
             /\ (asm'.terminal => asm.terminal)
    <2>1. Books(native.blocks, native.nextBlock, native.nextCall, asm.calls)
          /\ native.nextBlock \in Nat /\ native.nextCall \in Nat
      BY DEF AnthropicBooks, Books
    <2>2. Books(opened.blocks, opened.nextBlock, opened.nextCall, asm.calls)
      BY <1>3, <2>1, OpenText DEF block
    <2> QED
      BY <1>0, <1>3, <1>5, <2>2 DEF AnthropicBooks
  <1>6. (asm'.terminal = asm.terminal \/ (~asm.terminal /\ asm'.terminal = FALSE))
          => (asm'.terminal => asm.terminal)
    OBVIOUS
  <1> QED
    BY <1>1, <1>4, <1>5, <1>6, TextCalls

\* content_block_start, of a tool: next_call is the index of the call that comes.
LEMMA ToolBlockStartBooks ==
  ASSUME Lifecycle, Stopping, Known, AnthropicBooks, provider = "anthropic", ToolBlockStart
  PROVE  AnthropicBooks' /\ (Steps => Known')
  <1> DEFINE block == [call |-> native.nextCall, args |-> ""]
             opened == [Opened(block) EXCEPT !.nextCall = @ + 1]
             first(id, name) == [index |-> native.nextCall, id |-> id, name |-> name, args |-> ""]
  <1>0. provider' = provider
    BY DEF ToolBlockStart, AnthropicReads, Reads
  <1>1. PICK id \in {NoId, EmptyId} \cup NativeIds, name \in Tools \cup {Undeclared} :
          Push(CallDelta(first(id, name)), "none", opened, FALSE)
    BY DEF ToolBlockStart
  <1> DEFINE part == first(id, name)
  <1>2. native = [field \in AnthropicFields |-> native[field]]
    BY DEF Stopping
  <1>3. /\ Books(native.blocks, native.nextBlock, native.nextCall, asm.calls)
        /\ native.nextBlock \in Nat /\ native.nextCall \in Nat
        /\ native.nextCall = Len(asm.calls)
        /\ asm.calls \in Seq(Call) /\ Distinct(asm.calls)
    BY DEF AnthropicBooks, Books, Known
  <1>4. part \in PartType /\ part.index = Len(asm.calls) /\ part.args = ""
    BY <1>3, SseDecoderAssumption DEF PartType, Fragments
  <1> HIDE DEF block
  <1>5. /\ opened.blocks = Inserted(native.blocks, native.nextBlock, block)
        /\ opened.nextBlock = native.nextBlock + 1
        /\ opened.nextCall = native.nextCall + 1
        /\ opened.input = native.input /\ opened.output = native.output
    BY <1>2 DEF Opened, AnthropicFields
  <1> HIDE DEF opened, first
  <1>6. IsDelta(CallDelta(part)) /\ CallDelta(part).parts = <<part>>
    BY <1>4, CallIsDelta
  <1>7. Steps => Known'
    BY <1>1, <1>6, PushKnown DEF Terminals
  <1> DEFINE loaded == Loaded(asm.calls, <<part>>)
  <1>8. CASE UNCHANGED <<asm, native>>
    BY <1>0, <1>7, <1>8, SameBooks
  <1>9. CASE /\ native' = opened /\ loaded.ok
             /\ asm'.calls = loaded.calls /\ asm'.terminal = FALSE
    <2> DEFINE n == Len(asm.calls)
               new == loaded.calls
    <2>1. /\ Len(new) = n + 1
          /\ \A i \in 1 .. n : new[i] = asm.calls[i]
          /\ new[n + 1].args = Joined("", part.args)
      BY <1>3, <1>4, <1>9, FirstPart
    <2>2. Joined("", "") = ""
      BY DEF Joined
    <2> HIDE DEF loaded
    <2>3. Begun(asm.calls, new, native.nextCall)
      BY <1>3, <1>4, <2>1, <2>2 DEF Begun
    <2> HIDE DEF new
    <2>4. Books(opened.blocks, opened.nextBlock, opened.nextCall, new)
      BY <1>3, <1>5, <2>3, OpenTool DEF block
    <2>5. asm'.calls = new
      BY <1>9 DEF new
    <2> QED
      BY <1>0, <1>3, <1>5, <1>7, <1>9, <2>1, <2>4, <2>5 DEF AnthropicBooks
  <1> QED
    <2> DEFINE delta == CallDelta(part)
    <2>1. \/ UNCHANGED <<asm, native>>
          \/ asm' = asm /\ native' = opened /\ delta.parts = <<>> /\ "none" = "none"
          \/ /\ ~asm.terminal
             /\ native' = opened
             /\ Loaded(asm.calls, delta.parts).ok
             /\ asm'.calls = Loaded(asm.calls, delta.parts).calls
             /\ asm'.terminal = ("none" # "none")
      BY <1>1, PushCases
    <2>2. <<part>> # <<>>
      OBVIOUS
    <2> HIDE DEF delta
    <2>3. delta.parts = <<part>>
      BY <1>6 DEF delta
    <2> QED
      BY <2>1, <2>2, <2>3, <1>8, <1>9

\* content_block_delta, of a tool.
LEMMA ToolBlockDeltaBooks ==
  ASSUME Lifecycle, Stopping, Known, AnthropicBooks, provider = "anthropic", ToolBlockDelta
  PROVE  AnthropicBooks' /\ (Steps => Known')
  <1>0. provider' = provider
    BY DEF ToolBlockDelta, AnthropicReads, Reads
  <1> DEFINE later(index, fragment) ==
               [index |-> native.blocks[index].call, id |-> NoId, name |-> <<>>, args |-> fragment]
             fields(index, fragment) ==
               [native EXCEPT !.blocks[index].args = Joined(@, fragment)]
  <1>1. PICK index \in DOMAIN native.blocks, fragment \in Fragments :
          /\ native.blocks[index].call # NoCall
          /\ Push(CallDelta(later(index, fragment)), "none", fields(index, fragment), FALSE)
    BY DEF ToolBlockDelta
  <1> DEFINE part == later(index, fragment)
             more == fields(index, fragment)
             blocks == [native.blocks EXCEPT ![index].args = Joined(@, fragment)]
  <1>2. native = [field \in AnthropicFields |-> native[field]]
    BY DEF Stopping
  <1>3. /\ Books(native.blocks, native.nextBlock, native.nextCall, asm.calls)
        /\ native.nextBlock \in Nat /\ native.nextCall \in Nat
        /\ native.nextCall = Len(asm.calls)
        /\ asm.calls \in Seq(Call) /\ Distinct(asm.calls)
    BY DEF AnthropicBooks, Books, Known
  <1>4. native.blocks[index].call \in 0 .. Len(asm.calls) - 1
    <2>1. native.blocks[index] \in Blocks(native.nextCall)
      BY <1>3 DEF Books
    <2> QED
      BY <1>1, <1>3, <2>1 DEF Blocks
  <1>5. part \in PartType /\ part.index < Len(asm.calls) /\ part.args = fragment
        /\ part.index = native.blocks[index].call
    <2>1. <<>> \in Seq(Letters)
      OBVIOUS
    <2> QED
      BY <1>3, <1>4, <2>1 DEF PartType
  <1>6. /\ more.blocks = blocks
        /\ more.nextBlock = native.nextBlock
        /\ more.nextCall = native.nextCall
        /\ more.input = native.input /\ more.output = native.output
    BY <1>2 DEF AnthropicFields
  <1> HIDE DEF later, fields, blocks
  <1>7. IsDelta(CallDelta(part)) /\ CallDelta(part).parts = <<part>>
    BY <1>5, CallIsDelta
  <1>8. Steps => Known'
    BY <1>1, <1>7, PushKnown DEF Terminals
  <1> DEFINE loaded == Loaded(asm.calls, <<part>>)
  <1>9. CASE UNCHANGED <<asm, native>>
    BY <1>0, <1>8, <1>9, SameBooks
  <1>10. CASE /\ native' = more /\ loaded.ok
              /\ asm'.calls = loaded.calls /\ asm'.terminal = FALSE
    <2> DEFINE n == Len(asm.calls)
               new == loaded.calls
               at == native.blocks[index].call + 1
    <2>1. /\ Len(new) = n
          /\ \A i \in 1 .. n : i # at => new[i] = asm.calls[i]
          /\ new[at].args = Joined(asm.calls[at].args, fragment)
      <3> HIDE DEF loaded
      <3>1. /\ part.index + 1 \in 1 .. n
            /\ Len(new) = n
            /\ \A i \in 1 .. n : i # part.index + 1 => new[i] = asm.calls[i]
            /\ new[part.index + 1].name = asm.calls[part.index + 1].name \o part.name
            /\ new[part.index + 1].args = Joined(asm.calls[part.index + 1].args, part.args)
            /\ new[part.index + 1].id = asm.calls[part.index + 1].id
            /\ new[part.index + 1].kept = asm.calls[part.index + 1].kept
        BY <1>3, <1>5, <1>10, LaterPart DEF loaded
      <3> HIDE DEF new
      <3> QED
        BY <1>5, <3>1
    <2> HIDE DEF loaded, new
    <2>2. Books(blocks, native.nextBlock, native.nextCall, new)
      <3>1. /\ \A c \in 1 .. native.nextCall :
                 c # native.blocks[index].call + 1 => new[c] = asm.calls[c]
            /\ new[native.blocks[index].call + 1].args
                 = Joined(asm.calls[native.blocks[index].call + 1].args, fragment)
        BY <1>3, <2>1
      <3> QED
        BY <1>1, <1>3, <3>1, MoreArguments, ZenonT(30) DEF blocks
    <2>5. asm'.calls = new
      BY <1>10 DEF new
    <2> QED
      BY <1>0, <1>3, <1>6, <1>8, <1>10, <2>1, <2>2, <2>5 DEF AnthropicBooks
  <1> QED
    <2> DEFINE delta == CallDelta(part)
    <2>1. \/ UNCHANGED <<asm, native>>
          \/ asm' = asm /\ native' = more /\ delta.parts = <<>> /\ "none" = "none"
          \/ /\ ~asm.terminal
             /\ native' = more
             /\ Loaded(asm.calls, delta.parts).ok
             /\ asm'.calls = Loaded(asm.calls, delta.parts).calls
             /\ asm'.terminal = ("none" # "none")
      BY <1>1, PushCases
    <2>2. <<part>> # <<>>
      OBVIOUS
    <2> HIDE DEF delta
    <2>3. delta.parts = <<part>>
      BY <1>7 DEF delta
    <2> QED
      BY <2>1, <2>2, <2>3, <1>9, <1>10

\* content_block_stop.
LEMMA BlockStopBooks ==
  ASSUME Lifecycle, Stopping, AnthropicBooks, provider = "anthropic", ~Fail, BlockStop
  PROVE  AnthropicBooks'
  <1>1. PICK index \in DOMAIN native.blocks :
          /\ native.blocks[index].call = NoCall \/ native.blocks[index].args = "object"
          /\ Notes(Closed(index))
    BY DEF BlockStop
  <1> DEFINE blocks == Restrict(native.blocks, DOMAIN native.blocks \ {index})
  <1>2. native = [field \in AnthropicFields |-> native[field]]
    BY DEF Stopping
  <1>3. /\ native'.blocks = blocks /\ native'.nextBlock = native.nextBlock
        /\ native'.nextCall = native.nextCall /\ native'.output = native.output
        /\ native'.input = native.input /\ asm' = asm /\ provider' = provider
    <2> HIDE DEF blocks
    <2>1. Closed(index) = [native EXCEPT !.blocks = blocks]
      BY DEF Closed, blocks
    <2> QED
      BY <1>1, <1>2, <2>1 DEF Notes, Quiet, AnthropicFields, BlockStop, AnthropicReads, Reads
  <1>4. Books(blocks, native.nextBlock, native.nextCall, asm.calls)
    <2>1. Books(native.blocks, native.nextBlock, native.nextCall, asm.calls)
      BY DEF AnthropicBooks
    <2>2. native.nextBlock \in Nat /\ native.nextCall \in Nat
      BY <2>1 DEF Books
    <2> QED
      BY <1>1, <2>1, <2>2, CloseBlock
  <1> HIDE DEF blocks
  <1> QED
    BY <1>3, <1>4 DEF AnthropicBooks

\* message_delta ends the answer, and no block may be open then.
LEMMA MessageDeltaBooks ==
  ASSUME Lifecycle, Stopping, AnthropicBooks, provider = "anthropic", ~Fail, MessageDelta
  PROVE  AnthropicBooks'
  <1>0. provider' = provider
    BY DEF MessageDelta, AnthropicReads, Reads
  <1>1. PICK ending \in AnthropicEndings, output \in BOOLEAN :
          Push(TextDelta(FALSE), ending,
               [native EXCEPT !.messageDelta = TRUE, !.output = output], FALSE)
    BY DEF MessageDelta
  <1> DEFINE fields == [native EXCEPT !.messageDelta = TRUE, !.output = output]
  <1>2. native = [field \in AnthropicFields |-> native[field]]
    BY DEF Stopping
  <1>3. /\ fields.blocks = native.blocks /\ fields.nextBlock = native.nextBlock
        /\ fields.nextCall = native.nextCall /\ fields.output = output
        /\ fields.input = native.input
    BY <1>2 DEF AnthropicFields
  <1> HIDE DEF fields
  <1>4. \A c \in 1 .. native.nextCall : asm.calls[c].args = "object"
    <2>1. /\ Books(native.blocks, native.nextBlock, native.nextCall, asm.calls)
          /\ native.blocks = <<>>
      BY DEF AnthropicBooks, MessageDelta
    <2>2. native.nextBlock \in Nat /\ native.nextCall \in Nat
      BY <2>1 DEF Books
    <2> QED
      BY <2>1, <2>2, AllClosed, Zenon
  <1>5. CASE UNCHANGED <<asm, native>>
    BY <1>0, <1>5, SameBooks
  <1>6. CASE native' = fields /\ asm'.calls = asm.calls
    BY <1>0, <1>3, <1>4, <1>6 DEF AnthropicBooks
  <1> QED
    BY <1>1, <1>5, <1>6, TextCalls DEF fields

CallStep(none, state, call) == AcceptCall(state, call)
Contained == INSTANCE FoldProofs WITH Step <- CallStep

(***************************************************************************)
(* The books of Gemini's decoder.                                          *)
(***************************************************************************)
GeminiFields == {"calls", "ambiguous", "nextCall", "prompt", "completion", "invalidUsage"}

IsFields(fields) == fields = [field \in GeminiFields |-> fields[field]]

Ordered(fields) ==
  /\ IsFields(fields)
  /\ fields.nextCall \in Nat
  /\ DOMAIN fields.calls \subseteq NativeIds
  /\ \A id \in DOMAIN fields.calls : fields.calls[id].index \in 0 .. fields.nextCall - 1
  /\ fields.ambiguous \subseteq DOMAIN fields.calls
  /\ fields.prompt \in BOOLEAN
  /\ fields.completion \in BOOLEAN

Agrees(fields, calls) ==
  /\ fields.nextCall = Len(calls)
  /\ \A id \in DOMAIN fields.calls :
       LET call == calls[fields.calls[id].index + 1]
       IN call.name = fields.calls[id].name /\ (call.kept => call.id = id)

\* A call in a candidate makes one part.
IsTaking(state) ==
  state = [ok |-> state.ok, fields |-> state.fields, seen |-> state.seen, parts |-> state.parts]

Taking(state) ==
  /\ Ordered(state.fields)
  /\ state.parts \in Seq(PartType)
  /\ state.seen \subseteq DOMAIN state.fields.calls
  /\ LET loaded == Loaded(asm.calls, state.parts)
     IN loaded.ok => Agrees(state.fields, loaded.calls)

\* What NewCall, NativeCall and MoreOfCall do, field by field.
LEMMA NewCallFields ==
  ASSUME NEW state, IsTaking(state), Ordered(state.fields), NEW call
  PROVE  LET new == NewCall(state, call)
         IN /\ IsTaking(new) /\ new.ok = state.ok /\ new.seen = state.seen
            /\ new.parts = Append(state.parts, [index |-> state.fields.nextCall, id |-> NoId,
                                                name |-> call.name, args |-> "object"])
            /\ IsFields(new.fields)
            /\ new.fields.nextCall = state.fields.nextCall + 1
            /\ new.fields.calls = state.fields.calls
            /\ new.fields.ambiguous = state.fields.ambiguous
            /\ new.fields.prompt = state.fields.prompt
            /\ new.fields.completion = state.fields.completion
  <1> DEFINE a == state.ok
             b == state.fields
             c == state.seen
             d == state.parts
             part == [index |-> b.nextCall, id |-> NoId, name |-> call.name, args |-> "object"]
             fields == [b EXCEPT !.nextCall = @ + 1]
             parts == Append(d, part)
             new == [ok |-> a, fields |-> fields, seen |-> c, parts |-> parts]
  <1>1. state = [ok |-> a, fields |-> b, seen |-> c, parts |-> d]
    BY DEF IsTaking
  <1>2. NewCall(state, call) = new
    <2>1. NewCall(state, call) = [state EXCEPT !.fields = fields, !.parts = parts]
      BY Zenon DEF NewCall
    <2> HIDE DEF a, b, c, d, fields, parts
    <2> QED
      BY <1>1, <2>1
  <1>3. IsFields(b) /\ b.nextCall \in Nat
    BY DEF Ordered
  <1>4. /\ IsFields(fields)
        /\ fields.nextCall = b.nextCall + 1
        /\ fields.calls = b.calls /\ fields.ambiguous = b.ambiguous
        /\ fields.prompt = b.prompt /\ fields.completion = b.completion
    <2> HIDE DEF b
    <2> QED
      BY <1>3 DEF GeminiFields, IsFields
  <1> HIDE DEF a, b, c, d, fields, parts
  <1>5. IsTaking(new) /\ new.ok = a /\ new.seen = c /\ new.parts = parts /\ new.fields = fields
    BY DEF IsTaking
  <1> HIDE DEF new
  <1> QED
    BY <1>2, <1>4, <1>5 DEF a, b, c, d, parts

\* A call that comes with an id for the first time.
LEMMA NativeCallFields ==
  ASSUME NEW state, IsTaking(state), Ordered(state.fields), NEW call
  PROVE  LET new == NativeCall(state, call)
             n   == state.fields.nextCall
         IN /\ IsTaking(new) /\ new.ok = state.ok /\ new.seen = state.seen \cup {call.id}
            /\ new.parts = Append(state.parts, [index |-> n, id |-> call.id,
                                                name |-> call.name, args |-> "object"])
            /\ IsFields(new.fields)
            /\ new.fields.nextCall = n + 1
            /\ new.fields.calls
                 = Inserted(state.fields.calls, call.id, [index |-> n, name |-> call.name])
            /\ new.fields.ambiguous = state.fields.ambiguous
            /\ new.fields.prompt = state.fields.prompt
            /\ new.fields.completion = state.fields.completion
  <1> DEFINE a == state.ok
             b == state.fields
             c == state.seen
             d == state.parts
             part == [index |-> b.nextCall, id |-> call.id, name |-> call.name,
                      args |-> "object"]
             calls == Inserted(b.calls, call.id, [index |-> b.nextCall, name |-> call.name])
             fields == [[b EXCEPT !.nextCall = @ + 1] EXCEPT !.calls = calls]
             seen == c \cup {call.id}
             parts == Append(d, part)
             new == [ok |-> a, fields |-> fields, seen |-> seen, parts |-> parts]
  <1>1. state = [ok |-> a, fields |-> b, seen |-> c, parts |-> d]
    BY DEF IsTaking
  <1>3. IsFields(b) /\ b.nextCall \in Nat
    BY DEF Ordered
  <1>2. NativeCall(state, call) = new
    <2> DEFINE next == b.nextCall + 1
               given1 == [state EXCEPT !.fields = [b EXCEPT !.nextCall = next]]
    <2>1. NativeCall(state, call) =
            [state EXCEPT !.fields.nextCall = next, !.fields.calls = Inserted(@, call.id, [index |-> b.nextCall, name |-> call.name]),
                          !.seen = seen, !.parts = parts]
      BY Zenon DEF NativeCall
    <2> DEFINE entry == [index |-> b.nextCall, name |-> call.name]
    <2>2. calls = Inserted(b.calls, call.id, entry)
      OBVIOUS
    <2>3. fields = [[b EXCEPT !.nextCall = next] EXCEPT !.calls = calls]
      OBVIOUS
    <2> DEFINE f1 == [b EXCEPT !.nextCall = next]
    <2>4. f1.calls = b.calls
      <3> HIDE DEF b, next
      <3> QED
        BY <1>3 DEF GeminiFields, IsFields
    <2> HIDE DEF a, b, c, d, fields, seen, parts, entry, calls, next, f1
    <2>5. state.fields = b
      BY DEF b
    <2> QED
      BY <1>1, <2>1, <2>2, <2>3, <2>4, <2>5 DEF f1, entry
  <1>4. /\ IsFields(fields)
        /\ fields.nextCall = b.nextCall + 1
        /\ fields.calls = calls /\ fields.ambiguous = b.ambiguous
        /\ fields.prompt = b.prompt /\ fields.completion = b.completion
    <2> HIDE DEF b, calls
    <2> QED
      BY <1>3 DEF GeminiFields, IsFields
  <1> HIDE DEF a, b, c, d, fields, parts, seen, calls
  <1>5. IsTaking(new) /\ new.ok = a /\ new.seen = seen /\ new.parts = parts /\ new.fields = fields
    BY DEF IsTaking
  <1> HIDE DEF new
  <1> QED
    BY <1>2, <1>4, <1>5 DEF a, b, c, d, parts, seen, calls

\* An id that becomes ambiguous.
LEMMA AmbiguousFields ==
  ASSUME NEW state, IsTaking(state), Ordered(state.fields), NEW id
  PROVE  LET new == [state EXCEPT !.fields.ambiguous = @ \cup {id}]
         IN /\ IsTaking(new) /\ new.ok = state.ok /\ new.seen = state.seen
            /\ new.parts = state.parts
            /\ IsFields(new.fields)
            /\ new.fields.nextCall = state.fields.nextCall
            /\ new.fields.calls = state.fields.calls
            /\ new.fields.ambiguous = state.fields.ambiguous \cup {id}
            /\ new.fields.prompt = state.fields.prompt
            /\ new.fields.completion = state.fields.completion
  <1> DEFINE a == state.ok
             b == state.fields
             c == state.seen
             d == state.parts
             fields == [b EXCEPT !.ambiguous = @ \cup {id}]
             new == [ok |-> a, fields |-> fields, seen |-> c, parts |-> d]
  <1>1. state = [ok |-> a, fields |-> b, seen |-> c, parts |-> d]
    BY DEF IsTaking
  <1>2. [state EXCEPT !.fields.ambiguous = @ \cup {id}] = new
    <2>1. [state EXCEPT !.fields.ambiguous = @ \cup {id}] = [state EXCEPT !.fields = fields]
      BY Zenon
    <2> HIDE DEF a, b, c, d, fields
    <2> QED
      BY <1>1, <2>1
  <1>3. IsFields(b)
    BY DEF Ordered
  <1>4. /\ IsFields(fields)
        /\ fields.nextCall = b.nextCall
        /\ fields.calls = b.calls /\ fields.ambiguous = b.ambiguous \cup {id}
        /\ fields.prompt = b.prompt /\ fields.completion = b.completion
    <2> HIDE DEF b
    <2> QED
      BY <1>3 DEF GeminiFields, IsFields
  <1> HIDE DEF a, b, c, d, fields
  <1>5. IsTaking(new) /\ new.ok = a /\ new.seen = c /\ new.parts = d /\ new.fields = fields
    BY DEF IsTaking
  <1> HIDE DEF new
  <1> QED
    BY <1>2, <1>4, <1>5 DEF a, b, c, d

\* A call that came in an earlier event.
LEMMA MoreFields ==
  ASSUME NEW state, IsTaking(state), NEW call
  PROVE  LET new == MoreOfCall(state, call)
             existing == state.fields.calls[call.id]
         IN /\ IsTaking(new)
            /\ new.ok => existing.name = call.name
            /\ new.seen = state.seen \cup {call.id}
            /\ new.fields = state.fields
            /\ new.parts = Append(state.parts, [index |-> existing.index, id |-> call.id,
                                                name |-> <<>>, args |-> "object"])
  <1> DEFINE a == state.ok
             b == state.fields
             c == state.seen
             d == state.parts
             existing == b.calls[call.id]
             same == existing.name = call.name
             seen == c \cup {call.id}
             parts == Append(d, [index |-> existing.index, id |-> call.id,
                                 name |-> <<>>, args |-> "object"])
             new == [ok |-> same, fields |-> b, seen |-> seen, parts |-> parts]
             got == MoreOfCall(state, call)
  <1>1. state = [ok |-> a, fields |-> b, seen |-> c, parts |-> d]
    BY DEF IsTaking
  <1>2. got = [state EXCEPT !.ok = same, !.seen = seen, !.parts = parts]
    BY Zenon DEF MoreOfCall
  <1> HIDE DEF a, b, c, d, seen, parts, same, got
  <1>3. got.ok = same /\ got.fields = b /\ got.seen = seen /\ got.parts = parts
    BY <1>1, <1>2
  <1>4. IsTaking(got)
    BY <1>1, <1>2 DEF IsTaking
  <1> QED
    BY <1>3, <1>4 DEF b, c, d, seen, parts, same, got

\* A refusal keeps the rest of the record.
LEMMA RefusedTaking ==
  ASSUME NEW state, IsTaking(state)
  PROVE  IsTaking([state EXCEPT !.ok = FALSE]) /\ [state EXCEPT !.ok = FALSE].ok = FALSE
  <1> DEFINE a == state.ok
             b == state.fields
             c == state.seen
             d == state.parts
             new == [state EXCEPT !.ok = FALSE]
  <1>1. state = [ok |-> a, fields |-> b, seen |-> c, parts |-> d]
    BY DEF IsTaking
  <1> HIDE DEF a, b, c, d
  <1>2. new \in [ok : {FALSE}, fields : {b}, seen : {c}, parts : {d}]
    BY <1>1
  <1> HIDE DEF new
  <1>3. IsTaking(new) /\ new.ok = FALSE
    BY <1>2 DEF IsTaking
  <1> QED
    BY <1>3 DEF new

\* Where one part more is accepted, those before it were.
LEMMA LoadedBefore ==
  ASSUME NEW calls \in Seq(Call), Distinct(calls), NEW parts \in Seq(PartType),
         NEW part \in PartType, Loaded(calls, Append(parts, part)).ok
  PROVE  LET before == Loaded(calls, parts)
         IN /\ before.ok /\ IsState(before)
            /\ before.calls \in Seq(Call) /\ Distinct(before.calls)
            /\ Loaded(calls, Append(parts, part)) = AcceptPart(before, part)
            /\ AcceptPart(before, part).ok
  <1> DEFINE before == Loaded(calls, parts)
             after == AcceptPart(before, part)
  <1>1. Loaded(calls, Append(parts, part)) = after
    BY LoadedMore
  <1>2. before \in PartStates(calls)
    BY LoadedType
  <1> HIDE DEF before
  <1>3. IsState(before) /\ before.calls \in Seq(Call)
    BY <1>2 DEF PartStates, IsState
  <1>4. after \in RefusedStates(before) \/ (after.ok = TRUE /\ before.ok)
    BY <1>3, RefusedPart
  <1>5. after.ok
    BY <1>1
  <1> HIDE DEF after
  <1>6. before.ok
    BY <1>4, <1>5 DEF RefusedStates
  <1>7. Distinct(before.calls)
    BY <1>2, <1>6 DEF PartStates
  <1> QED
    BY <1>1, <1>3, <1>5, <1>6, <1>7 DEF before, after

\* A call that the decoder numbers as the next comes, and what is known of the
\* others stays known.
Comes(fields, part, calls) ==
  LET n == fields.nextCall
  IN /\ Len(calls) = n + 1
     /\ calls[n + 1].name = part.name
     /\ calls[n + 1].kept => calls[n + 1].id = part.id
     /\ \A id \in DOMAIN fields.calls :
          LET call == calls[fields.calls[id].index + 1]
          IN call.name = fields.calls[id].name /\ (call.kept => call.id = id)

\* A call that the decoder numbers next is the assembler's next.
LEMMA AgreesFirst ==
  ASSUME asm.calls \in Seq(Call), Distinct(asm.calls), NEW fields, Ordered(fields),
         NEW parts \in Seq(PartType), NEW part \in PartType, part.index = fields.nextCall,
         Loaded(asm.calls, parts).ok => Agrees(fields, Loaded(asm.calls, parts).calls),
         Loaded(asm.calls, Append(parts, part)).ok
  PROVE  Comes(fields, part, Loaded(asm.calls, Append(parts, part)).calls)
  <1> DEFINE before == Loaded(asm.calls, parts)
             after == Loaded(asm.calls, Append(parts, part))
             n == fields.nextCall
             calls == after.calls
  <1>1. /\ before.ok /\ IsState(before)
        /\ before.calls \in Seq(Call) /\ Distinct(before.calls)
        /\ after = AcceptPart(before, part)
        /\ AcceptPart(before, part).ok
    BY LoadedBefore
  <1>2. Agrees(fields, before.calls)
    BY <1>1
  <1>3. n = Len(before.calls) /\ part.index = Len(before.calls)
    BY <1>2 DEF Agrees
  <1> HIDE DEF before
  <1>4. /\ Len(calls) = Len(before.calls) + 1
        /\ \A i \in 1 .. Len(before.calls) : calls[i] = before.calls[i]
        /\ calls[Len(before.calls) + 1].name = part.name
        /\ calls[Len(before.calls) + 1].args = Joined("", part.args)
        /\ calls[Len(before.calls) + 1].kept => calls[Len(before.calls) + 1].id = part.id
    <2> DEFINE new == AcceptPart(before, part).calls
               m == Len(before.calls)
    <2>1. /\ Len(new) = m + 1
          /\ \A i \in 1 .. m : new[i] = before.calls[i]
          /\ new[m + 1].name = part.name
          /\ new[m + 1].args = Joined("", part.args)
          /\ new[m + 1].kept => new[m + 1].id = part.id
      BY <1>1, <1>3, AcceptFirst
    <2> HIDE DEF calls
    <2>2. calls = new
      BY <1>1 DEF calls
    <2> QED
      BY <2>1, <2>2
  <1> HIDE DEF after, calls
  <1>5. ASSUME NEW id \in DOMAIN fields.calls
        PROVE  LET call == calls[fields.calls[id].index + 1]
               IN call.name = fields.calls[id].name /\ (call.kept => call.id = id)
    <2>1. fields.calls[id].index + 1 \in 1 .. n
      BY DEF Ordered
    <2>2. calls[fields.calls[id].index + 1] = before.calls[fields.calls[id].index + 1]
      BY <1>3, <1>4, <2>1
    <2> QED
      BY <1>2, <2>2 DEF Agrees
  <1> QED
    BY <1>3, <1>4, <1>5 DEF after, calls, Comes

\* A further part of a call, without a name of its own.
LEMMA AgreesLater ==
  ASSUME asm.calls \in Seq(Call), Distinct(asm.calls), NEW fields, Ordered(fields),
         NEW parts \in Seq(PartType), NEW part \in PartType,
         part.index \in 0 .. fields.nextCall - 1, part.name = <<>>,
         Loaded(asm.calls, parts).ok => Agrees(fields, Loaded(asm.calls, parts).calls),
         Loaded(asm.calls, Append(parts, part)).ok
  PROVE  Agrees(fields, Loaded(asm.calls, Append(parts, part)).calls)
  <1> DEFINE before == Loaded(asm.calls, parts)
             after == Loaded(asm.calls, Append(parts, part))
             n == fields.nextCall
             calls == after.calls
             at == part.index + 1
  <1>1. /\ before.ok /\ IsState(before)
        /\ before.calls \in Seq(Call) /\ Distinct(before.calls)
        /\ after = AcceptPart(before, part)
        /\ AcceptPart(before, part).ok
    BY LoadedBefore
  <1>2. Agrees(fields, before.calls)
    BY <1>1
  <1>3. n = Len(before.calls) /\ n \in Nat
    BY <1>2 DEF Agrees, Ordered
  <1> HIDE DEF before
  <1>3a. part.index < Len(before.calls)
    BY <1>3
  <1>4. /\ at \in 1 .. Len(before.calls)
        /\ Len(calls) = Len(before.calls)
        /\ \A i \in 1 .. Len(before.calls) : i # at => calls[i] = before.calls[i]
        /\ calls[at].name = before.calls[at].name \o part.name
        /\ calls[at].args = Joined(before.calls[at].args, part.args)
        /\ calls[at].id = before.calls[at].id /\ calls[at].kept = before.calls[at].kept
    <2> DEFINE new == AcceptPart(before, part).calls
               m == Len(before.calls)
    <2>1. /\ at \in 1 .. m
          /\ Len(new) = m
          /\ \A i \in 1 .. m : i # at => new[i] = before.calls[i]
          /\ new[at].name = before.calls[at].name \o part.name
          /\ new[at].args = Joined(before.calls[at].args, part.args)
          /\ new[at].id = before.calls[at].id /\ new[at].kept = before.calls[at].kept
      BY <1>1, <1>3a, AcceptLater
    <2> HIDE DEF calls
    <2>2. calls = new
      BY <1>1 DEF calls
    <2> QED
      BY <2>1, <2>2
  <1> HIDE DEF after, calls, at
  <1>5. calls[at].name = before.calls[at].name
    <2>1. before.calls[at].name \in Seq(Letters)
      <3>1. before.calls[at] \in Call
        BY <1>1, <1>4
      <3> QED
        BY <3>1 DEF Call
    <2> QED
      BY <1>4, <2>1, ConcatEmptySeq
  <1>6. \A i \in 1 .. n : /\ calls[i].name = before.calls[i].name
                          /\ calls[i].id = before.calls[i].id
                          /\ calls[i].kept = before.calls[i].kept
    BY <1>3, <1>4, <1>5
  <1>7. \A id \in DOMAIN fields.calls : fields.calls[id].index + 1 \in 1 .. n
    BY <1>3 DEF Ordered
  <1>8. ASSUME NEW id \in DOMAIN fields.calls
        PROVE  LET call == calls[fields.calls[id].index + 1]
               IN call.name = fields.calls[id].name /\ (call.kept => call.id = id)
    <2> DEFINE i == fields.calls[id].index + 1
    <2>1. i \in 1 .. n
      BY <1>7
    <2>2. /\ before.calls[i].name = fields.calls[id].name
          /\ before.calls[i].kept => before.calls[i].id = id
      BY <1>2 DEF Agrees
    <2> HIDE DEF i
    <2>3. calls[i].name = fields.calls[id].name /\ (calls[i].kept => calls[i].id = id)
      BY <1>6, <2>1, <2>2
    <2> QED
      BY <2>3 DEF i
  <1>9. fields.nextCall = Len(calls)
    BY <1>3, <1>4
  <1>10. Agrees(fields, calls)
    BY <1>8, <1>9 DEF Agrees
  <1> QED
    BY <1>10 DEF after, calls

\* The decoder's fields after a call without an id.
LEMMA OrderedMore ==
  ASSUME NEW fields, Ordered(fields), NEW new, IsFields(new),
         new.nextCall = fields.nextCall + 1, new.calls = fields.calls,
         new.ambiguous \subseteq DOMAIN fields.calls,
         new.prompt = fields.prompt, new.completion = fields.completion
  PROVE  Ordered(new)
  BY DEF Ordered

\* The call that comes is known under its native id.
Named(fields, new, id, name) ==
  /\ DOMAIN new.calls = DOMAIN fields.calls \cup {id}
  /\ new.calls[id].index = fields.nextCall
  /\ new.calls[id].name = name
  /\ \A other \in DOMAIN fields.calls :
       other # id => new.calls[other] = fields.calls[other]

\* The decoder's fields after a call with one.
LEMMA OrderedNative ==
  ASSUME NEW fields, Ordered(fields), NEW new, IsFields(new),
         NEW id \in NativeIds, NEW name,
         new.nextCall = fields.nextCall + 1,
         new.calls = Inserted(fields.calls, id, [index |-> fields.nextCall, name |-> name]),
         new.ambiguous = fields.ambiguous,
         new.prompt = fields.prompt, new.completion = fields.completion
  PROVE  Ordered(new) /\ Named(fields, new, id, name)
  <1> DEFINE entry == [index |-> fields.nextCall, name |-> name]
  <1>1. entry.index = fields.nextCall /\ entry.name = name
    OBVIOUS
  <1> HIDE DEF entry
  <1>2. new.calls = Inserted(fields.calls, id, entry)
    BY DEF entry
  <1>3. /\ DOMAIN new.calls = DOMAIN fields.calls \cup {id}
        /\ new.calls[id] = entry
        /\ \A other \in DOMAIN fields.calls : other # id => new.calls[other] = fields.calls[other]
    BY <1>2 DEF Inserted
  <1>4. fields.nextCall \in Nat
    BY DEF Ordered
  <1>5. \A other \in DOMAIN new.calls : new.calls[other].index \in 0 .. new.nextCall - 1
    BY <1>1, <1>3, <1>4 DEF Ordered
  <1>6. Ordered(new)
    BY <1>3, <1>4, <1>5 DEF Ordered
  <1> QED
    BY <1>1, <1>3, <1>6 DEF Named

\* Where the calls of one candidate can lead.
Grows(state) == IsTaking(state) /\ (state.ok => Taking(state))

\* What a call in a candidate is made of.
LEMMA CallPartType ==
  ASSUME NEW call \in CallParts
  PROVE  call.name \in Seq(Letters) /\ call.id \in {NoId} \cup NativeIds
  BY SseDecoderAssumption DEF CallParts

\* new_call.
LEMMA GrowsNew ==
  ASSUME Known, NEW state, IsTaking(state), Taking(state), NEW call \in CallParts
  PROVE  Taking(NewCall(state, call))
  <1> DEFINE new == NewCall(state, call)
             n == state.fields.nextCall
             part == [index |-> n, id |-> NoId, name |-> call.name, args |-> "object"]
  <1>0. Ordered(state.fields) /\ n \in Nat
    BY DEF Taking, Ordered
  <1>1. /\ IsTaking(new) /\ new.ok = state.ok /\ new.seen = state.seen
        /\ new.parts = Append(state.parts, part)
        /\ IsFields(new.fields)
        /\ new.fields.nextCall = n + 1
        /\ new.fields.calls = state.fields.calls
        /\ new.fields.ambiguous = state.fields.ambiguous
        /\ new.fields.prompt = state.fields.prompt
        /\ new.fields.completion = state.fields.completion
    BY <1>0, NewCallFields
  <1>2. part \in PartType /\ part.index = n /\ part.name = call.name /\ part.id = NoId
    BY <1>0, CallPartType DEF PartType, Fragments
  <1> HIDE DEF new, part
  <1>3. Ordered(new.fields)
    <2>1. new.fields.ambiguous \subseteq DOMAIN state.fields.calls
      BY <1>0, <1>1 DEF Ordered
    <2> QED
      BY <1>0, <1>1, <2>1, OrderedMore
  <1>4. new.parts \in Seq(PartType) /\ state.parts \in Seq(PartType)
    BY <1>1, <1>2, AppendProperties DEF Taking
  <1>5. ASSUME Loaded(asm.calls, new.parts).ok
        PROVE  Agrees(new.fields, Loaded(asm.calls, new.parts).calls)
    <2> DEFINE calls == Loaded(asm.calls, Append(state.parts, part)).calls
    <2>1. Comes(state.fields, part, calls)
      <3>1. asm.calls \in Seq(Call) /\ Distinct(asm.calls)
        BY DEF Known
      <3>2. Loaded(asm.calls, state.parts).ok
              => Agrees(state.fields, Loaded(asm.calls, state.parts).calls)
        BY DEF Taking
      <3>3. Loaded(asm.calls, Append(state.parts, part)).ok
        BY <1>1, <1>5
      <3> QED
        BY <1>0, <1>2, <1>4, <3>1, <3>2, <3>3, AgreesFirst
    <2> HIDE DEF calls
    <2>2. Agrees(new.fields, calls)
      BY <1>1, <2>1 DEF Agrees, Comes
    <2> QED
      BY <1>1, <2>2 DEF calls
  <1>6. new.seen \subseteq DOMAIN new.fields.calls
    BY <1>1 DEF Taking
  <1>7. Taking(new)
    BY <1>3, <1>4, <1>5, <1>6 DEF Taking
  <1> QED
    BY <1>7 DEF new

\* An id comes a second time in one event.
LEMMA GrowsAmbiguous ==
  ASSUME Known, NEW state, IsTaking(state), Taking(state), NEW id \in state.seen
  PROVE  LET new == [state EXCEPT !.fields.ambiguous = @ \cup {id}]
         IN IsTaking(new) /\ Taking(new)
  <1> DEFINE new == [state EXCEPT !.fields.ambiguous = @ \cup {id}]
  <1>0. Ordered(state.fields) /\ id \in DOMAIN state.fields.calls
    BY DEF Taking
  <1>1. /\ IsTaking(new) /\ new.ok = state.ok /\ new.seen = state.seen
        /\ new.parts = state.parts
        /\ IsFields(new.fields)
        /\ new.fields.nextCall = state.fields.nextCall
        /\ new.fields.calls = state.fields.calls
        /\ new.fields.ambiguous = state.fields.ambiguous \cup {id}
        /\ new.fields.prompt = state.fields.prompt
        /\ new.fields.completion = state.fields.completion
    BY <1>0, AmbiguousFields
  <1> HIDE DEF new
  <1>2. Ordered(new.fields)
    BY <1>0, <1>1 DEF Ordered
  <1>3. ASSUME NEW calls, Agrees(state.fields, calls) PROVE Agrees(new.fields, calls)
    BY <1>1, <1>3 DEF Agrees
  <1>4. Taking(new)
    BY <1>1, <1>2, <1>3 DEF Taking
  <1> QED
    BY <1>1, <1>4 DEF new

\* A call under its native id.
LEMMA GrowsNative ==
  ASSUME Known, NEW state, IsTaking(state), Taking(state), NEW call \in CallParts,
         call.id # NoId, call.id \notin DOMAIN state.fields.calls
  PROVE  Taking(NativeCall(state, call))
  <1> DEFINE new == NativeCall(state, call)
             n == state.fields.nextCall
             part == [index |-> n, id |-> call.id, name |-> call.name, args |-> "object"]
  <1>0. Ordered(state.fields) /\ n \in Nat
    BY DEF Taking, Ordered
  <1>1. /\ IsTaking(new) /\ new.ok = state.ok /\ new.seen = state.seen \cup {call.id}
        /\ new.parts = Append(state.parts, part)
        /\ IsFields(new.fields)
        /\ new.fields.nextCall = n + 1
        /\ new.fields.calls
             = Inserted(state.fields.calls, call.id, [index |-> n, name |-> call.name])
        /\ new.fields.ambiguous = state.fields.ambiguous
        /\ new.fields.prompt = state.fields.prompt
        /\ new.fields.completion = state.fields.completion
    BY <1>0, NativeCallFields
  <1>2. part \in PartType /\ part.index = n /\ part.name = call.name /\ part.id = call.id
        /\ call.id \in NativeIds
    BY <1>0, CallPartType, SseDecoderAssumption DEF PartType, Fragments
  <1> HIDE DEF new, part
  <1>3. Ordered(new.fields) /\ Named(state.fields, new.fields, call.id, call.name)
    BY <1>0, <1>1, <1>2, OrderedNative
  <1>4. new.parts \in Seq(PartType) /\ state.parts \in Seq(PartType)
    BY <1>1, <1>2, AppendProperties DEF Taking
  <1>5. ASSUME Loaded(asm.calls, new.parts).ok
        PROVE  Agrees(new.fields, Loaded(asm.calls, new.parts).calls)
    <2> DEFINE calls == Loaded(asm.calls, Append(state.parts, part)).calls
    <2>1. Comes(state.fields, part, calls)
      <3>1. asm.calls \in Seq(Call) /\ Distinct(asm.calls)
        BY DEF Known
      <3>2. Loaded(asm.calls, state.parts).ok
              => Agrees(state.fields, Loaded(asm.calls, state.parts).calls)
        BY DEF Taking
      <3>3. Loaded(asm.calls, Append(state.parts, part)).ok
        BY <1>1, <1>5
      <3> QED
        BY <1>0, <1>2, <1>4, <3>1, <3>2, <3>3, AgreesFirst
    <2> HIDE DEF calls
    <2>2. ASSUME NEW id \in DOMAIN new.fields.calls
          PROVE  LET got == calls[new.fields.calls[id].index + 1]
                 IN got.name = new.fields.calls[id].name /\ (got.kept => got.id = id)
      <3>1. CASE id = call.id
        BY <1>2, <1>3, <2>1, <3>1 DEF Comes, Named
      <3>2. CASE id # call.id
        <4>1. id \in DOMAIN state.fields.calls
              /\ new.fields.calls[id] = state.fields.calls[id]
          BY <1>3, <3>2 DEF Named
        <4> QED
          BY <2>1, <4>1 DEF Comes
      <3> QED
        BY <3>1, <3>2
    <2>3. Agrees(new.fields, calls)
      BY <1>1, <2>1, <2>2 DEF Agrees, Comes
    <2> QED
      BY <1>1, <2>3 DEF calls
  <1>6. new.seen \subseteq DOMAIN new.fields.calls
    BY <1>1, <1>3 DEF Taking, Named
  <1>7. Taking(new)
    BY <1>3, <1>4, <1>5, <1>6 DEF Taking
  <1> QED
    BY <1>7 DEF new

\* More of an earlier call.
LEMMA GrowsMore ==
  ASSUME Known, NEW state, IsTaking(state), Taking(state), NEW call \in CallParts,
         call.id \in DOMAIN state.fields.calls
  PROVE  Taking(MoreOfCall(state, call))
  <1> DEFINE new == MoreOfCall(state, call)
             n == state.fields.nextCall
             existing == state.fields.calls[call.id]
             part == [index |-> existing.index, id |-> call.id, name |-> <<>>, args |-> "object"]
  <1>0. Ordered(state.fields) /\ n \in Nat /\ existing.index \in 0 .. n - 1
    BY DEF Taking, Ordered
  <1>1. /\ IsTaking(new)
        /\ new.ok => existing.name = call.name
        /\ new.seen = state.seen \cup {call.id}
        /\ new.fields = state.fields
        /\ new.parts = Append(state.parts, part)
    BY MoreFields
  <1> HIDE DEF new, existing
  <1>2. part \in PartType /\ part.index \in 0 .. n - 1 /\ part.name = <<>>
    <2>1. <<>> \in Seq(Letters) /\ existing.index \in Nat
      BY <1>0
    <2> QED
      BY <1>0, <2>1, CallPartType, SseDecoderAssumption DEF PartType, Fragments
  <1> HIDE DEF part
  <1>4. new.parts \in Seq(PartType) /\ state.parts \in Seq(PartType)
    BY <1>1, <1>2, AppendProperties DEF Taking
  <1>5. ASSUME Loaded(asm.calls, new.parts).ok
        PROVE  Agrees(new.fields, Loaded(asm.calls, new.parts).calls)
    <2>1. asm.calls \in Seq(Call) /\ Distinct(asm.calls)
      BY DEF Known
    <2>2. Loaded(asm.calls, state.parts).ok
            => Agrees(state.fields, Loaded(asm.calls, state.parts).calls)
      BY DEF Taking
    <2>3. Loaded(asm.calls, Append(state.parts, part)).ok
      BY <1>1, <1>5
    <2>4. Agrees(state.fields, Loaded(asm.calls, Append(state.parts, part)).calls)
      BY <1>0, <1>2, <1>4, <2>1, <2>2, <2>3, AgreesLater
    <2> QED
      BY <1>1, <2>4
  <1>6. new.seen \subseteq DOMAIN new.fields.calls
    BY <1>1 DEF Taking
  <1>7. Taking(new)
    BY <1>0, <1>1, <1>4, <1>5, <1>6 DEF Taking
  <1> QED
    BY <1>7 DEF new

\* Whatever call comes next in a candidate, decoder and assembler agree on it.
LEMMA GrowsCall ==
  ASSUME Known, NEW state, Grows(state), NEW call \in CallParts
  PROVE  Grows(AcceptCall(state, call))
  <1> DEFINE next == AcceptCall(state, call)
             refused == [state EXCEPT !.ok = FALSE]
             marked == [state EXCEPT !.fields.ambiguous = @ \cup {call.id}]
  <1>1. IsTaking(state)
    BY DEF Grows
  <1>2. IsTaking(refused) /\ refused.ok = FALSE
    BY <1>1, RefusedTaking
  <1>3. \/ next = refused
        \/ state.ok /\ next = NewCall(state, call)
        \/ state.ok /\ call.id \in state.seen /\ next = NewCall(marked, call)
        \/ state.ok /\ call.id \in DOMAIN state.fields.calls /\ next = MoreOfCall(state, call)
        \/ /\ state.ok /\ call.id # NoId /\ call.id \notin DOMAIN state.fields.calls
           /\ next = NativeCall(state, call)
    BY Zenon DEF AcceptCall
  <1> HIDE DEF next, refused
  <1>4. next = refused => Grows(next)
    BY <1>2 DEF Grows
  <1>5. ASSUME state.ok, next # refused PROVE Grows(next)
    <2>1. Taking(state)
      BY <1>5 DEF Grows
    <2>2. Ordered(state.fields)
      BY <2>1 DEF Taking
    <2>3. CASE next = NewCall(state, call)
      BY <1>1, <2>1, <2>2, <2>3, GrowsNew, NewCallFields DEF Grows
    <2>4. CASE call.id \in state.seen /\ next = NewCall(marked, call)
      <3>1. IsTaking(marked) /\ Taking(marked)
        BY <1>1, <2>1, <2>4, GrowsAmbiguous
      <3> HIDE DEF marked
      <3>2. Ordered(marked.fields)
        BY <3>1 DEF Taking
      <3> QED
        BY <2>4, <3>1, <3>2, GrowsNew, NewCallFields DEF Grows
    <2>5. CASE call.id \in DOMAIN state.fields.calls /\ next = MoreOfCall(state, call)
      BY <1>1, <2>1, <2>5, GrowsMore, MoreFields DEF Grows
    <2>6. CASE /\ call.id # NoId /\ call.id \notin DOMAIN state.fields.calls
               /\ next = NativeCall(state, call)
      BY <1>1, <2>1, <2>2, <2>6, GrowsNative, NativeCallFields DEF Grows
    <2> QED
      BY <1>3, <1>5, <2>3, <2>4, <2>5, <2>6
  <1>6. Grows(next)
    BY <1>3, <1>4, <1>5
  <1> QED
    BY <1>6 DEF next

----------------------------------------------------------------------------
(* Anthropic, step by step.                                                *)

\* Every event of Anthropic is one turn.
LEMMA AnthropicSteps ==
  AnthropicNext => Steps
  BY DEF AnthropicNext, MessageStart, TextBlockStart, ToolBlockStart, TextBlockDelta,
         ToolBlockDelta, BlockStop, BlockRefused, MessageDelta, MessageStop, ReadPing,
         AnthropicSourceEnds, SourceEnds, AnthropicReads, Reads, Steps, Events

\* A turn that pushes a text, or nothing but the end.
LEMMA TextKnown ==
  ASSUME Lifecycle, Known, Steps, NEW content, NEW ending \in Terminals, NEW fields, NEW ends,
         Push(TextDelta(content), ending, fields, ends)
  PROVE  Known'
  BY TextIsDelta, PushKnown

\* Every event of Anthropic keeps the books.
LEMMA AnthropicStep ==
  ASSUME Lifecycle, Stopping, Known, AnthropicBooks, AnthropicNext
  PROVE  Known' /\ AnthropicBooks'
  <1>1. Steps /\ provider = "anthropic" /\ provider' = "anthropic"
    <2>1. provider = "anthropic"
      BY DEF AnthropicNext, MessageStart, TextBlockStart, ToolBlockStart, TextBlockDelta,
         ToolBlockDelta, BlockStop, BlockRefused, MessageDelta, MessageStop, ReadPing,
         AnthropicSourceEnds, SourceEnds, AnthropicReads
    <2> QED
      BY <2>1, AnthropicSteps DEF Steps
  <1>2. ASSUME Fail PROVE Known' /\ AnthropicBooks'
    <2>1. UNCHANGED <<asm, native, shown, reason>> /\ given' = "error"
      BY <1>2 DEF Fail
    <2> QED
      BY <1>1, <2>1, SameKnown, SameBooks DEF Items, Steps
  <1>3. ASSUME NEW fields, Notes(fields) PROVE Known'
    BY <1>1, <1>3, SameKnown DEF Notes, Quiet
  <1>4. CASE MessageStart /\ ~Fail
    <2>1. Known'
      BY <1>3, <1>4 DEF MessageStart
    <2> QED
      BY <1>1, <1>4, <2>1, MessageStartBooks
  <1>5. CASE TextBlockStart
    <2>1. Known'
      BY <1>1, <1>5, TextKnown DEF TextBlockStart, Terminals
    <2> QED
      BY <1>1, <1>5, <2>1, TextBlockStartBooks
  <1>6. CASE ToolBlockStart
    BY <1>1, <1>6, ToolBlockStartBooks
  <1>7. CASE TextBlockDelta
    <2>1. Push(TextDelta(TRUE), "none", native, FALSE)
      BY <1>7 DEF TextBlockDelta
    <2>2. Known'
      BY <1>1, <2>1, TextKnown DEF Terminals
    <2>3. \/ UNCHANGED <<asm, native>>
          \/ /\ native' = native
             /\ asm'.calls = asm.calls
             /\ asm'.terminal = asm.terminal \/ (~asm.terminal /\ asm'.terminal = ("none" # "none"))
      BY <2>1, TextCalls
    <2>4. CASE UNCHANGED <<asm, native>>
      BY <1>1, <2>2, <2>4, SameBooks
    <2>5. CASE native' = native /\ asm'.calls = asm.calls /\ (asm'.terminal => asm.terminal)
      BY <1>1, <2>2, <2>5 DEF AnthropicBooks
    <2> QED
      BY <2>3, <2>4, <2>5
  <1>8. CASE ToolBlockDelta
    BY <1>1, <1>8, ToolBlockDeltaBooks
  <1>9. CASE BlockStop /\ ~Fail
    <2>1. Known'
      BY <1>3, <1>9 DEF BlockStop
    <2> QED
      BY <1>1, <1>9, <2>1, BlockStopBooks
  <1>10. CASE MessageDelta /\ ~Fail
    <2>1. Known'
      BY <1>1, <1>10, TextKnown DEF MessageDelta, AnthropicEndings, Terminals
    <2> QED
      BY <1>1, <1>10, <2>1, MessageDeltaBooks
  <1>11. CASE MessageStop /\ ~Fail
    <2>1. native' = native
      BY <1>11 DEF MessageStop
    <2>2. CASE GiveUsage
      <3>1. asm'.calls = asm.calls /\ asm'.terminal = asm.terminal
        BY <2>2 DEF GiveUsage, Lifecycle, AsmFields
      <3> QED
        BY <1>1, <2>1, <2>2, <3>1, UsageKnown, SameBooks DEF Steps
    <2>3. CASE UNCHANGED <<asm, given, reason, shown>>
      BY <1>1, <2>1, <2>3, SameKnown, SameBooks DEF Steps
    <2> QED
      BY <1>11, <2>2, <2>3 DEF MessageStop
  <1>12. CASE AnthropicSourceEnds
    <2>1. UNCHANGED <<asm, native, shown, reason>> /\ given' = "end"
      BY <1>12 DEF AnthropicSourceEnds, SourceEnds
    <2> QED
      BY <1>1, <2>1, SameKnown, SameBooks DEF Items, Steps
  <1> QED
    BY <1>2, <1>4, <1>5, <1>6, <1>7, <1>8, <1>9, <1>10, <1>11, <1>12
    DEF AnthropicNext, BlockRefused, ReadPing

----------------------------------------------------------------------------
(* OpenAI, step by step.                                                   *)

OpenAiBooks == provider = "openai" => native \in [usage : BOOLEAN]

\* An index in the model's bound is a number.
LEMMA IndexInNat ==
  ASSUME NEW max \in Nat, NEW index \in 0 .. max
  PROVE  index \in Nat
  OBVIOUS

\* Every event of OpenAI keeps the books, of which that decoder has none.
LEMMA OpenAiStep ==
  ASSUME Lifecycle, Known, OpenAiBooks, OpenAiNext
  PROVE  Known' /\ OpenAiBooks'
  <1>1. Steps /\ provider = "openai" /\ provider' = "openai"
    BY DEF OpenAiNext, ReadChoice, ReadUsage, ReadDone, OpenAiSourceEnds, SourceEnds,
           OpenAiReads, Reads, Steps, Events
  <1>2. native' = native \/ \E valid \in BOOLEAN : native' = [usage |-> valid]
    BY DEF OpenAiNext, ReadChoice, ReadUsage, ReadDone, OpenAiSourceEnds, SourceEnds, Push,
           Fail
  <1>3. OpenAiBooks'
    BY <1>1, <1>2 DEF OpenAiBooks
  <1>4. ASSUME Fail PROVE Known'
    BY <1>1, <1>4, SameKnown DEF Fail, Items
  <1>5. CASE ReadChoice /\ ~Fail
    <2>1. PICK delta \in OpenAiDeltas, ending \in OpenAiEndings :
                 Push(delta, ending, native, FALSE)
      BY <1>5 DEF ReadChoice
    <2>2. IsDelta(delta)
      <3>1. CASE delta.parts = <<>>
        BY <3>1 DEF IsDelta
      <3>2. CASE \E part \in OpenAiParts : delta.parts = <<part>>
        <4>1. PICK part \in OpenAiParts : delta.parts = <<part>>
          BY <3>2
        <4>1a. part.index \in 0 .. MaxCalls /\ part.args = ""
          BY DEF OpenAiParts
        <4>1b. part.index \in Nat
          <5>1. MaxCalls \in Nat
            BY SseDecoderAssumption, Zenon
          <5> QED
            BY <4>1a, <5>1, IndexInNat, Zenon
        <4>2. part.id \in {NoId, EmptyId} \cup NativeIds
          BY DEF OpenAiParts
        <4>2a. part.id \in {NoId, EmptyId} \cup Ids
          BY <4>2, SseDecoderAssumption, Zenon
        <4>3. part.index \in Nat /\ part.id \in {NoId, EmptyId} \cup Ids /\ part.args \in Fragments
          BY <4>1a, <4>1b, <4>2a DEF Fragments
        <4>5. part.name \in {<<>>} \cup {<<letter>> : letter \in Letters}
          BY DEF OpenAiParts
        <4>6. part.name \in Seq(Letters)
          <5>1. CASE part.name = <<>>
            BY <5>1
          <5>2. CASE \E letter \in Letters : part.name = <<letter>>
            BY <5>2
          <5> QED
            BY <4>5, <5>1, <5>2, Zenon
        <4>4. part = [index |-> part.index, id |-> part.id, name |-> part.name,
                      args |-> part.args]
          BY DEF OpenAiParts
        <4>7. part \in PartType
          BY <4>3, <4>4, <4>6 DEF PartType
        <4> QED
          BY <4>1, <4>7 DEF IsDelta
      <3>3. delta.parts = <<>> \/ \E part \in OpenAiParts : delta.parts = <<part>>
        BY DEF OpenAiDeltas
      <3> QED
        BY <3>1, <3>2, <3>3
    <2> QED
      BY <1>1, <1>3, <2>1, <2>2, PushKnown DEF OpenAiEndings, Terminals
  <1>6. CASE ReadUsage /\ ~Fail
    BY <1>1, <1>3, <1>6, SameKnown DEF ReadUsage, Quiet
  <1>7. CASE ReadDone /\ ~Fail
    <2>1. CASE GiveUsage
      BY <1>1, <1>3, <2>1, UsageKnown
    <2>2. CASE UNCHANGED <<asm, given, reason, shown>>
      BY <1>1, <1>3, <2>2, SameKnown
    <2> QED
      BY <1>7, <2>1, <2>2 DEF ReadDone
  <1>8. CASE OpenAiSourceEnds
    BY <1>1, <1>3, <1>8, SameKnown DEF OpenAiSourceEnds, SourceEnds, Items
  <1> QED
    BY <1>3, <1>4, <1>5, <1>6, <1>7, <1>8 DEF OpenAiNext

----------------------------------------------------------------------------
(* Gemini, step by step.                                                   *)

GeminiBooks == provider = "gemini" => Ordered(native) /\ Agrees(native, asm.calls)

\* The calls of a candidate are walked one by one.
LEMMA AcceptedIsFold ==
  ASSUME NEW calls
  PROVE  Accepted(calls)
           = Contained!Fold({}, [ok |-> TRUE, fields |-> native, seen |-> {}, parts |-> <<>>],
                            calls)
  BY Zenon DEF Accepted, Contained!Fold, Contained!FoldLeft, FoldLeft,
     Contained!MapThenFoldSet, MapThenFoldSet, Max, Contained!Max, CallStep

\* The calls of one candidate, one after the other.
LEMMA AcceptedMore ==
  ASSUME NEW calls, NEW n, NEW more, Contained!OneMore(calls, n, more)
  PROVE  Accepted(more) = AcceptCall(Accepted(calls), more[n + 1])
  <1> DEFINE base == [ok |-> TRUE, fields |-> native, seen |-> {}, parts |-> <<>>]
  <1>1. Accepted(more) = Contained!Fold({}, base, more)
        /\ Accepted(calls) = Contained!Fold({}, base, calls)
    BY AcceptedIsFold
  <1> HIDE DEF base
  <1>2. Contained!Fold({}, base, more)
          = CallStep({}, Contained!Fold({}, base, calls), more[n + 1])
    BY Contained!FoldMore
  <1> QED
    BY <1>1, <1>2 DEF CallStep

\* Before the first call of a candidate.
LEMMA GrowsBase ==
  ASSUME Known, provider = "gemini", GeminiBooks
  PROVE  Grows(Accepted(<<>>))
  <1> DEFINE base == [ok |-> TRUE, fields |-> native, seen |-> {}, parts |-> <<>>]
  <1>1. Accepted(<<>>) = Contained!Fold({}, base, <<>>)
    BY AcceptedIsFold
  <1>2. base.ok = TRUE /\ base.fields = native /\ base.seen = {} /\ base.parts = <<>>
    OBVIOUS
  <1>3. IsTaking(base)
    BY DEF IsTaking
  <1> HIDE DEF base
  <1>4. Accepted(<<>>) = base
    BY <1>1, Contained!FoldEmpty, Zenon
  <1>5. Loaded(asm.calls, base.parts).calls = asm.calls
    <2>1. Loaded(asm.calls, <<>>) = [ok |-> TRUE, calls |-> asm.calls, shown |-> {}]
      BY LoadedNothing
    <2> QED
      BY <1>2, <2>1
  <1>6. base.parts \in Seq(PartType)
    BY <1>2
  <1>7. Taking(base)
    BY <1>2, <1>5, <1>6 DEF GeminiBooks, Taking
  <1> QED
    BY <1>3, <1>4, <1>7 DEF Grows

\* A candidate has no call, one, or two.
LEMMA ContentCases ==
  ASSUME NEW content \in Contents
  PROVE  \/ content.calls = <<>>
         \/ \E a \in CallParts : content.calls = <<a>>
         \/ \E a, b \in CallParts : content.calls = <<a, b>>
  <1> DEFINE One == {<<a>> : a \in CallParts}
             Two == {<<a, b>> : a, b \in CallParts}
  <1>1. Contents = [text : BOOLEAN, calls : {<<>>}] \cup [text : {FALSE}, calls : One \cup Two]
    BY DEF Contents
  <1>2. ASSUME content.calls \in One PROVE \E a \in CallParts : content.calls = <<a>>
    BY <1>2, Zenon
  <1>3. ASSUME content.calls \in Two
        PROVE  \E a, b \in CallParts : content.calls = <<a, b>>
    BY <1>3
  <1> HIDE DEF One, Two
  <1>4. content.calls = <<>> \/ content.calls \in One \/ content.calls \in Two
    BY <1>1
  <1> QED
    BY <1>2, <1>3, <1>4

\* All calls of a candidate, accepted, are calls that the assembler would count so.
LEMMA GrowsAccepted ==
  ASSUME Known, provider = "gemini", GeminiBooks, NEW content \in Contents
  PROVE  Grows(Accepted(content.calls))
  <1>1. \/ content.calls = <<>>
        \/ \E a \in CallParts : content.calls = <<a>>
        \/ \E a, b \in CallParts : content.calls = <<a, b>>
    BY ContentCases
  <1>2. CASE content.calls = <<>>
    BY <1>2, GrowsBase
  <1>3. ASSUME NEW a \in CallParts PROVE Grows(Accepted(<<a>>))
    <2> DEFINE none == <<>>
               one == <<a>>
               n == 0
    <2>1. Contained!OneMore(none, n, one) /\ one[n + 1] = a
      BY DEF Contained!OneMore
    <2>2. Grows(Accepted(none))
      BY GrowsBase
    <2> HIDE DEF none, one, n
    <2>3. Accepted(one) = AcceptCall(Accepted(none), a)
      BY <2>1, AcceptedMore
    <2>4. Grows(Accepted(one))
      BY <2>2, <2>3, GrowsCall
    <2> QED
      BY <2>4 DEF one
  <1>4. ASSUME NEW a \in CallParts, NEW b \in CallParts PROVE Grows(Accepted(<<a, b>>))
    <2> DEFINE one == <<a>>
               two == <<a, b>>
               n == 1
    <2>1. Contained!OneMore(one, n, two) /\ two[n + 1] = b
      BY DEF Contained!OneMore
    <2>2. Grows(Accepted(one))
      BY <1>3
    <2> HIDE DEF one, two, n
    <2>3. Accepted(two) = AcceptCall(Accepted(one), b)
      BY <2>1, AcceptedMore
    <2>4. Grows(Accepted(two))
      BY <2>2, <2>3, GrowsCall
    <2> QED
      BY <2>4 DEF two
  <1> QED
    BY <1>1, <1>2, <1>3, <1>4

\* Every event of Gemini is one turn.
LEMMA GeminiSteps == GeminiNext => Steps /\ provider = "gemini"
  BY DEF GeminiNext, ReadCandidate, ReadBareCandidate, ReadMetadata, ReadPolicyBlock,
         GeminiSourceEnds, GeminiReads, Reads, Steps, Events

\* The decoder and the calls are as they were.
LEMMA SameGemini ==
  ASSUME GeminiBooks, UNCHANGED <<provider, native>>, asm'.calls = asm.calls
  PROVE  GeminiBooks'
  BY DEF GeminiBooks

\* candidate.
LEMMA CandidateStep ==
  ASSUME Lifecycle, Known, GeminiBooks, Steps, provider = "gemini", ~Fail, ReadCandidate
  PROVE  Known' /\ GeminiBooks'
  <1>1. PICK content \in Contents, ending \in GeminiEndings :
          LET accepted == Accepted(content.calls)
          IN /\ accepted.ok
             /\ Push([role |-> FALSE, content |-> content.text, parts |-> accepted.parts],
                     ending, accepted.fields, ending # "none")
    BY DEF ReadCandidate
  <1> DEFINE accepted == Accepted(content.calls)
             delta == [role |-> FALSE, content |-> content.text, parts |-> accepted.parts]
             ends == ending # "none"
  <1>2. Grows(accepted) /\ accepted.ok
    BY <1>1, GrowsAccepted
  <1>3. delta.parts = accepted.parts /\ Push(delta, ending, accepted.fields, ends)
    BY <1>1
  <1> HIDE DEF accepted, delta, ends
  <1>4. Taking(accepted)
    BY <1>2 DEF Grows
  <1>5. /\ Ordered(accepted.fields)
        /\ accepted.parts \in Seq(PartType)
        /\ Loaded(asm.calls, accepted.parts).ok
             => Agrees(accepted.fields, Loaded(asm.calls, accepted.parts).calls)
    BY <1>4 DEF Taking
  <1>6. Known'
    <2>1. IsDelta(delta)
      BY <1>3, <1>5 DEF IsDelta
    <2>2. ending \in Terminals
      BY DEF GeminiEndings, Terminals
    <2> QED
      BY <1>3, <2>1, <2>2, PushKnown
  <1>7. \/ UNCHANGED <<asm, native>>
        \/ asm' = asm /\ native' = accepted.fields /\ delta.parts = <<>> /\ ending = "none"
        \/ /\ ~asm.terminal
           /\ native' = accepted.fields
           /\ Loaded(asm.calls, delta.parts).ok
           /\ asm'.calls = Loaded(asm.calls, delta.parts).calls
           /\ asm'.terminal = (ending # "none")
    BY <1>3, PushCases
  <1>8. CASE UNCHANGED <<asm, native>>
    BY <1>6, <1>8, SameGemini DEF Steps
  <1>9. CASE asm' = asm /\ native' = accepted.fields /\ delta.parts = <<>>
    <2>1. Loaded(asm.calls, <<>>) = [ok |-> TRUE, calls |-> asm.calls, shown |-> {}]
      BY LoadedNothing
    <2>2. Loaded(asm.calls, accepted.parts).ok
          /\ Loaded(asm.calls, accepted.parts).calls = asm.calls
      BY <1>3, <1>9, <2>1
    <2>3. Ordered(native') /\ Agrees(native', asm'.calls)
      BY <1>5, <1>9, <2>2
    <2> QED
      BY <1>6, <2>3 DEF GeminiBooks
  <1>10. CASE /\ native' = accepted.fields
              /\ Loaded(asm.calls, delta.parts).ok
              /\ asm'.calls = Loaded(asm.calls, delta.parts).calls
    <2>1. Ordered(native') /\ Agrees(native', asm'.calls)
      BY <1>3, <1>5, <1>10
    <2> QED
      BY <1>6, <2>1 DEF GeminiBooks
  <1> QED
    BY <1>7, <1>8, <1>9, <1>10

\* A turn that pushes nothing but the end.
LEMMA NoDeltaStep ==
  ASSUME Lifecycle, Known, GeminiBooks, Steps, Push(NoDelta, "content_filter", native, TRUE)
  PROVE  Known' /\ GeminiBooks'
  <1>1. NoDelta.parts = <<>> /\ IsDelta(NoDelta)
    BY DEF NoDelta, IsDelta
  <1>2. Known'
    BY <1>1, PushKnown DEF Terminals
  <1>3. Loaded(asm.calls, <<>>) = [ok |-> TRUE, calls |-> asm.calls, shown |-> {}]
    BY LoadedNothing
  <1>4. native' = native /\ asm'.calls = asm.calls
    <2> DEFINE ending == "content_filter"
               ends == TRUE
    <2>0. Push(NoDelta, ending, native, ends)
      OBVIOUS
    <2> HIDE DEF ending, ends
    <2>1. \/ UNCHANGED <<asm, native>>
          \/ asm' = asm /\ native' = native /\ NoDelta.parts = <<>> /\ ending = "none"
          \/ /\ ~asm.terminal
             /\ native' = native
             /\ Loaded(asm.calls, NoDelta.parts).ok
             /\ asm'.calls = Loaded(asm.calls, NoDelta.parts).calls
             /\ asm'.terminal = (ending # "none")
      BY <2>0, PushCases
    <2> QED
      BY <1>1, <1>3, <2>1
  <1> QED
    BY <1>2, <1>4, SameGemini DEF Steps

\* capture_usage.
LEMMA MetadataStep ==
  ASSUME Lifecycle, Known, GeminiBooks, Steps, provider = "gemini",
         NEW what, ReadMetadata(what)
  PROVE  Known' /\ GeminiBooks'
  <1>1. PICK prompt \in BOOLEAN, completion \in BOOLEAN, bad \in BOOLEAN :
          native' = Captured(prompt, completion, bad)
    BY DEF ReadMetadata
  <1>2. UNCHANGED <<asm, given, reason, shown>>
    BY DEF ReadMetadata, Quiet
  <1>3. Ordered(native) /\ Agrees(native, asm.calls)
    BY DEF GeminiBooks
  <1>4. /\ IsFields(native')
        /\ native'.calls = native.calls /\ native'.nextCall = native.nextCall
        /\ native'.ambiguous = native.ambiguous
        /\ native'.prompt = (native.prompt \/ prompt)
        /\ native'.completion = (native.completion \/ completion)
    <2>1. IsFields(native)
      BY <1>3 DEF Ordered
    <2> DEFINE next == Captured(prompt, completion, bad)
    <2>2. /\ IsFields(next)
          /\ next.calls = native.calls /\ next.nextCall = native.nextCall
          /\ next.ambiguous = native.ambiguous
          /\ next.prompt = (native.prompt \/ prompt)
          /\ next.completion = (native.completion \/ completion)
      BY <2>1 DEF Captured, IsFields, GeminiFields
    <2> HIDE DEF next
    <2>3. native' = next
      BY <1>1 DEF next
    <2> QED
      BY <2>2, <2>3
  <1>5. native'.prompt \in BOOLEAN /\ native'.completion \in BOOLEAN
    BY <1>3, <1>4 DEF Ordered
  <1>6. Ordered(native')
    BY <1>3, <1>4, <1>5 DEF Ordered
  <1>7. Agrees(native', asm'.calls)
    BY <1>2, <1>3, <1>4 DEF Agrees
  <1>8. Known'
    BY <1>2, SameKnown
  <1> QED
    BY <1>6, <1>7, <1>8 DEF GeminiBooks

\* Every event of Gemini keeps the books.
LEMMA GeminiStep ==
  ASSUME Lifecycle, Known, GeminiBooks, GeminiNext
  PROVE  Known' /\ GeminiBooks'
  <1>1. Steps /\ provider = "gemini"
    BY GeminiSteps
  <1>2. CASE Fail
    <2>1. UNCHANGED <<asm, native, shown, reason>> /\ given' = "error"
      BY <1>2 DEF Fail
    <2> QED
      BY <1>1, <2>1, SameKnown, SameGemini DEF Items, Steps
  <1>3. CASE ~Fail /\ ReadCandidate
    BY <1>1, <1>3, CandidateStep
  <1>4. CASE ~Fail /\ ReadBareCandidate
    <2>1. Push(NoDelta, "content_filter", native, TRUE)
      BY <1>4 DEF ReadBareCandidate
    <2> QED
      BY <1>1, <2>1, NoDeltaStep
  <1>5. CASE ReadMetadata("plain")
    BY <1>1, <1>5, MetadataStep
  <1>6. CASE ~Fail /\ ReadPolicyBlock
    <2>1. CASE Push(NoDelta, "content_filter", native, TRUE)
      BY <1>1, <2>1, NoDeltaStep
    <2>2. CASE ReadMetadata("policy_block")
      BY <1>1, <2>2, MetadataStep
    <2> QED
      BY <1>6, <2>1, <2>2 DEF ReadPolicyBlock
  <1>7. CASE GeminiSourceEnds
    <2>1. native' = native
      BY <1>7 DEF GeminiSourceEnds
    <2>2. CASE GiveUsage
      <3>1. asm'.calls = asm.calls
        BY <2>2 DEF GiveUsage, Lifecycle, AsmFields
      <3> QED
        BY <1>1, <2>1, <2>2, <3>1, UsageKnown, SameGemini DEF Steps
    <2>3. CASE given' = "end" /\ UNCHANGED <<asm, reason, shown>>
      <3>1. asm'.calls = asm.calls
        BY <2>3
      <3> QED
        BY <1>1, <2>1, <2>3, <3>1, SameKnown, SameGemini DEF Steps, Items
    <2> QED
      BY <1>7, <2>2, <2>3 DEF GeminiSourceEnds
  <1> QED
    BY <1>2, <1>3, <1>4, <1>5, <1>6, <1>7 DEF GeminiNext

----------------------------------------------------------------------------
(***************************************************************************)
(* The second inductive invariant: the books of the calls.  The decoder    *)
(* and the assembler agree on the calls, and the chunks showed what the    *)
(* assembler has.                                                          *)
(***************************************************************************)
Bookkeeping ==
  /\ Known
  /\ exhausted \in BOOLEAN
  /\ OpenAiBooks
  /\ AnthropicBooks
  /\ GeminiBooks

\* At first there is no call, and nothing was seen.
LEMMA NothingKnown ==
  ASSUME provider \in Providers, request \in Requests, asm = NewAssembler,
         event = "plain", given = "nothing", reason = "none", shown = {}
  PROVE  Known
  <1>1. /\ asm.calls = <<>> /\ asm.started = FALSE /\ asm.text = FALSE
    BY DEF NewAssembler
  <1>2. asm.calls \in Seq(Call) /\ Len(asm.calls) = 0 /\ DOMAIN asm.calls = {}
    BY <1>1
  <1>3. Len(asm.calls) <= MaxCalls
    <2>1. MaxCalls \in Nat
      BY SseDecoderAssumption, Zenon
    <2> QED
      BY <1>2, <2>1
  <1>4. Public(asm.calls) = {}
    BY <1>1, <1>2, PublicEmpty
  <1>5. Distinct(asm.calls)
    BY <1>2 DEF Distinct
  <1> QED
    BY <1>1, <1>2, <1>3, <1>4, <1>5 DEF Known, FinishHonest, Events, Items, Reasons

\* The books of each decoder begin empty.
LEMMA InitBookkeeping == Init => Bookkeeping
  <1> SUFFICES ASSUME Init PROVE Bookkeeping
    OBVIOUS
  <1>1. /\ provider \in Providers /\ request \in Requests /\ asm = NewAssembler
        /\ event = "plain" /\ given = "nothing" /\ reason = "none" /\ shown = {}
        /\ exhausted = FALSE
    BY DEF Init, OpenAiInit, AnthropicInit, GeminiInit, DecoderInit, Providers
  <1>2. asm.calls = <<>> /\ asm.terminal = FALSE /\ Len(asm.calls) = 0
    BY <1>1 DEF NewAssembler
  <1>3. OpenAiBooks
    <2> SUFFICES ASSUME provider = "openai" PROVE native \in [usage : BOOLEAN]
      BY DEF OpenAiBooks
    <2>1. OpenAiInit
      BY DEF Init, OpenAiInit, AnthropicInit, GeminiInit, DecoderInit
    <2> QED
      BY <2>1 DEF OpenAiInit, DecoderInit
  <1>4. AnthropicBooks
    <2> SUFFICES ASSUME provider = "anthropic" PROVE AnthropicBooks
      BY DEF AnthropicBooks
    <2>1. AnthropicInit
      BY DEF Init, OpenAiInit, AnthropicInit, GeminiInit, DecoderInit
    <2>2. /\ native.blocks = <<>> /\ native.nextBlock = 0 /\ native.nextCall = 0
          /\ native.input = FALSE /\ native.output = FALSE
      BY <2>1 DEF AnthropicInit, DecoderInit
    <2>3. native.blocks = <<>> /\ DOMAIN native.blocks = {}
      BY <2>2
    <2>4. native.blocks \in [DOMAIN native.blocks -> Blocks(0)]
      BY <2>3
    <2>5. Books(native.blocks, native.nextBlock, native.nextCall, asm.calls)
      BY <2>2, <2>3, <2>4 DEF Books
    <2> QED
      BY <1>2, <2>2, <2>5 DEF AnthropicBooks
  <1>5. GeminiBooks
    <2> SUFFICES ASSUME provider = "gemini" PROVE GeminiBooks
      BY DEF GeminiBooks
    <2>1. GeminiInit
      BY DEF Init, OpenAiInit, AnthropicInit, GeminiInit, DecoderInit
    <2>2. /\ native.calls = <<>> /\ native.nextCall = 0 /\ native.ambiguous = {}
          /\ native.prompt = FALSE /\ native.completion = FALSE
      BY <2>1 DEF GeminiInit, DecoderInit
    <2>6. IsFields(native)
      BY <2>1 DEF GeminiInit, DecoderInit, GeminiFields, IsFields
    <2>3. DOMAIN native.calls = {}
      BY <2>2
    <2>4. Ordered(native)
      <3>1. native.nextCall \in Nat /\ native.ambiguous \subseteq DOMAIN native.calls
            /\ DOMAIN native.calls \subseteq NativeIds
        BY <2>2, <2>3
      <3>2. \A id \in DOMAIN native.calls :
              native.calls[id].index \in 0 .. native.nextCall - 1
        BY <2>3
      <3>3. native.prompt \in BOOLEAN /\ native.completion \in BOOLEAN
        BY <2>2
      <3> QED
        BY <2>6, <3>1, <3>2, <3>3, Zenon DEF Ordered
    <2>5. Agrees(native, asm.calls)
      BY <1>2, <2>2, <2>3 DEF Agrees
    <2> QED
      BY <2>4, <2>5 DEF GeminiBooks
  <1> QED
    BY <1>1, <1>3, <1>4, <1>5, NothingKnown DEF Bookkeeping

\* A turn of one decoder leaves the books of the others alone.
LEMMA OneProvider ==
  ASSUME UNCHANGED provider
  PROVE  /\ provider # "openai" => OpenAiBooks'
         /\ provider # "anthropic" => AnthropicBooks'
         /\ provider # "gemini" => GeminiBooks'
  BY DEF OpenAiBooks, AnthropicBooks, GeminiBooks

\* A turn that changes neither decoder nor assembler.
LEMMA IdleBooks ==
  ASSUME Lifecycle, Stopping, Bookkeeping, Steps, UNCHANGED <<asm, native, shown, reason>>,
         given' = given \/ given' \in Items \ {"finish"}, exhausted' \in BOOLEAN
  PROVE  Bookkeeping'
  <1>1. Known'
    BY SameKnown DEF Bookkeeping
  <1>2. OpenAiBooks' /\ AnthropicBooks' /\ GeminiBooks'
    BY DEF Bookkeeping, OpenAiBooks, AnthropicBooks, GeminiBooks, Steps
  <1> QED
    BY <1>1, <1>2 DEF Bookkeeping

\* The flag stays a flag.
LEMMA ExhaustedStep ==
  ASSUME exhausted \in BOOLEAN, OpenAiNext \/ AnthropicNext \/ GeminiNext
  PROVE  exhausted' \in BOOLEAN
  <1>1. ASSUME NEW delta, NEW ending, NEW fields, NEW ends, Push(delta, ending, fields, ends)
        PROVE  exhausted' \in BOOLEAN
    BY <1>1 DEF Push, Fail, Quiet
  <1>2. ASSUME Fail \/ Quiet PROVE exhausted' \in BOOLEAN
    BY <1>2 DEF Fail, Quiet
  <1>3. ASSUME NEW fields, Notes(fields) PROVE exhausted' \in BOOLEAN
    BY <1>2, <1>3 DEF Notes
  <1>4. CASE OpenAiNext
    BY <1>1, <1>2, <1>4 DEF OpenAiNext, ReadChoice, ReadUsage, ReadDone, OpenAiSourceEnds,
       SourceEnds
  <1>5. CASE AnthropicNext
    BY <1>1, <1>2, <1>3, <1>5 DEF AnthropicNext, MessageStart, TextBlockStart, ToolBlockStart,
       TextBlockDelta, ToolBlockDelta, BlockStop, BlockRefused, MessageDelta, MessageStop,
       ReadPing, AnthropicSourceEnds, SourceEnds
  <1>6. CASE GeminiNext
    BY <1>1, <1>2, <1>6 DEF GeminiNext, ReadCandidate, ReadBareCandidate, ReadMetadata,
       ReadPolicyBlock, GeminiSourceEnds
  <1> QED
    BY <1>4, <1>5, <1>6

\* The invariant is inductive.
LEMMA BookkeepingStep ==
  ASSUME Lifecycle, Stopping, Bookkeeping, [Next]_vars
  PROVE  Bookkeeping'
  <1>1. CASE UNCHANGED vars
    BY <1>1, IdleBooks DEF vars, Bookkeeping, Steps, Known
  <1>2. CASE CommonNext
    <2>1. /\ UNCHANGED <<asm, native, shown, reason>>
          /\ given' = given \/ given' \in Items \ {"finish"}
          /\ exhausted' \in BOOLEAN
          /\ Steps
      BY <1>2 DEF CommonNext, ReadComment, BreakOff, ReturnNone, Reads, Quiet, Fail, Items,
                  Steps, Events, Bookkeeping
    <2> QED
      BY <2>1, IdleBooks
  <1>3. CASE OpenAiNext
    <2>1. provider = "openai" /\ UNCHANGED provider
      BY <1>3 DEF OpenAiNext, ReadChoice, ReadUsage, ReadDone, OpenAiSourceEnds, SourceEnds,
                  OpenAiReads, Reads
    <2> QED
      BY <1>3, <2>1, OpenAiStep, OneProvider, ExhaustedStep DEF Bookkeeping
  <1>4. CASE AnthropicNext
    <2>1. provider = "anthropic" /\ UNCHANGED provider
      <3>1. provider = "anthropic"
        BY <1>4 DEF AnthropicNext, MessageStart, TextBlockStart, ToolBlockStart,
           TextBlockDelta, ToolBlockDelta, BlockStop, BlockRefused, MessageDelta,
           MessageStop, ReadPing, AnthropicSourceEnds, SourceEnds, AnthropicReads
      <3> QED
        BY <1>4, <3>1, AnthropicSteps DEF Steps
    <2> QED
      BY <1>4, <2>1, AnthropicStep, OneProvider, ExhaustedStep DEF Bookkeeping
  <1>5. CASE GeminiNext
    <2>1. provider = "gemini" /\ UNCHANGED provider
      BY <1>5, GeminiSteps DEF Steps
    <2> QED
      BY <1>5, <2>1, GeminiStep, OneProvider, ExhaustedStep DEF Bookkeeping
  <1> QED
    BY <1>1, <1>2, <1>3, <1>4, <1>5 DEF Next

\* Both invariants hold of every state.
LEMMA BookkeepingInvariant == Spec => [](Lifecycle /\ Stopping /\ Bookkeeping)
  <1>1. Init => Lifecycle /\ Stopping /\ Bookkeeping
    BY InitLifecycle, InitStopping, InitBookkeeping
  <1>2. Lifecycle /\ Stopping /\ Bookkeeping /\ [Next]_vars
          => Lifecycle' /\ Stopping' /\ Bookkeeping'
    BY LifecycleStep, StoppingStep, BookkeepingStep
  <1> QED
    BY <1>1, <1>2, PTL DEF Spec

\* The books have the types of the decoders' fields.
LEMMA NativeTypes ==
  ASSUME Lifecycle, Stopping, Bookkeeping
  PROVE  NativeTypeOK
  <1>1. CASE provider = "openai"
    <2>1. native.usage \in BOOLEAN
      BY <1>1 DEF Bookkeeping, OpenAiBooks
    <2> QED
      BY <1>1, <2>1 DEF NativeTypeOK
  <1>2. CASE provider = "anthropic"
    <2>1. /\ Books(native.blocks, native.nextBlock, native.nextCall, asm.calls)
          /\ native.input \in BOOLEAN
          /\ native.output \in BOOLEAN
      BY <1>2 DEF Bookkeeping, AnthropicBooks
    <2>2. DOMAIN native.blocks \subseteq 0 .. native.nextBlock - 1
      BY <2>1 DEF Books
    <2>3. \A i \in DOMAIN native.blocks : native.blocks[i] \in Blocks(native.nextCall)
      BY <2>1 DEF Books
    <2>4. \A i \in DOMAIN native.blocks :
            /\ native.blocks[i].call \in {NoCall} \cup 0 .. native.nextCall - 1
            /\ native.blocks[i].args \in Arguments
      BY <2>3 DEF Blocks
    <2> QED
      BY <1>2, <2>1, <2>2, <2>4 DEF NativeTypeOK
  <1>3. CASE provider = "gemini"
    <2>1. Ordered(native)
      BY <1>3 DEF Bookkeeping, GeminiBooks
    <2>2. /\ DOMAIN native.calls \subseteq NativeIds
          /\ \A id \in DOMAIN native.calls :
               native.calls[id].index \in 0 .. native.nextCall - 1
          /\ native.ambiguous \subseteq DOMAIN native.calls
          /\ {native.prompt, native.completion} \subseteq BOOLEAN
      BY <2>1 DEF Ordered
    <2> QED
      BY <1>3, <2>2 DEF NativeTypeOK
  <1> QED
    BY <1>1, <1>2, <1>3 DEF Bookkeeping, Known, Providers

\* Distinct ids, all shown with their index.
LEMMA StableIds ==
  ASSUME Bookkeeping
  PROVE  IdsStable
  <1>1. shown = {<<i - 1, asm.calls[i].id>> : i \in DOMAIN asm.calls} /\ Distinct(asm.calls)
        /\ DOMAIN asm.calls = 1 .. Len(asm.calls)
    BY DEF Bookkeeping, Known, Public
  <1> SUFFICES ASSUME NEW p \in shown, NEW q \in shown PROVE p[1] = q[1] <=> p[2] = q[2]
    BY DEF IdsStable
  <1>2. PICK i \in DOMAIN asm.calls : p = <<i - 1, asm.calls[i].id>>
    BY <1>1
  <1>3. PICK j \in DOMAIN asm.calls : q = <<j - 1, asm.calls[j].id>>
    BY <1>1
  <1>4. i \in Int /\ j \in Int
    BY <1>1
  <1>5. asm.calls[i].id = asm.calls[j].id => i = j
    BY <1>1 DEF Distinct
  <1> QED
    BY <1>2, <1>3, <1>4, <1>5

\* The books of each decoder say that it agrees with the assembler.
LEMMA BooksMeet ==
  ASSUME Bookkeeping
  PROVE  BooksAgree
  <1>1. CASE provider = "openai"
    BY <1>1 DEF BooksAgree
  <1>2. CASE provider = "anthropic"
    <2>1. /\ Books(native.blocks, native.nextBlock, native.nextCall, asm.calls)
          /\ native.nextCall = Len(asm.calls)
      BY <1>2 DEF Bookkeeping, AnthropicBooks
    <2>2. \A i \in DOMAIN native.blocks :
            native.blocks[i].call # NoCall
              => asm.calls[native.blocks[i].call + 1].args = native.blocks[i].args
      BY <2>1 DEF Books
    <2> QED
      BY <1>2, <2>1, <2>2 DEF BooksAgree
  <1>3. CASE provider = "gemini"
    <2>1. Agrees(native, asm.calls)
      BY <1>3 DEF Bookkeeping, GeminiBooks
    <2> QED
      BY <1>3, <2>1 DEF BooksAgree, Agrees
  <1> QED
    BY <1>1, <1>2, <1>3 DEF Bookkeeping, Known, Providers

(***************************************************************************)
(* The values of the variables, for any names, ids and bounds.             *)
(***************************************************************************)
THEOREM AdaptersTypeCorrect == Spec => []TypeOK
  <1>1. Lifecycle /\ Stopping /\ Bookkeeping => TypeOK
    <2> SUFFICES ASSUME Lifecycle, Stopping, Bookkeeping PROVE TypeOK
      OBVIOUS
    <2>1. /\ provider \in Providers /\ request \in Requests /\ event \in Events
          /\ asm.calls \in Seq(Call) /\ Len(asm.calls) <= MaxCalls
          /\ asm.started \in BOOLEAN /\ asm.text \in BOOLEAN
          /\ shown = Public(asm.calls) /\ reason \in Reasons /\ given \in Items
          /\ exhausted \in BOOLEAN
      BY DEF Bookkeeping, Known
    <2>2. asm.terminal \in BOOLEAN /\ asm.counted \in BOOLEAN /\ done \in BOOLEAN
      BY DEF Lifecycle
    <2>3. shown \subseteq (0 .. MaxCalls - 1) \X Ids
      <3>1. Public(asm.calls) \subseteq (0 .. Len(asm.calls) - 1) \X Ids
        BY <2>1, PublicType
      <3>2. Len(asm.calls) \in Nat /\ MaxCalls \in Nat
        <4>1. MaxCalls \in Nat
          BY SseDecoderAssumption, Zenon
        <4> QED
          BY <2>1, <4>1
      <3>3. 0 .. Len(asm.calls) - 1 \subseteq 0 .. MaxCalls - 1
        BY <2>1, <3>2
      <3> QED
        BY <2>1, <3>1, <3>3
    <2>4. NativeTypeOK
      BY NativeTypes
    <2> QED
      BY <2>1, <2>2, <2>3, <2>4 DEF TypeOK, Reasons
  <1> QED
    BY <1>1, BookkeepingInvariant, PTL

(***************************************************************************)
(* accept_call_delta and generated_call_id: to the client an index is one  *)
(* call under one id, and no two calls share one, whatever ids the         *)
(* provider sends.                                                         *)
(***************************************************************************)
THEOREM IdsAreStable == Spec => []IdsStable
  <1>1. Lifecycle /\ Stopping /\ Bookkeeping => IdsStable
    BY StableIds
  <1> QED
    BY <1>1, BookkeepingInvariant, PTL

(***************************************************************************)
(* normalize_terminal and validate_outcome: the finish_reason is true of   *)
(* the chunks before it, and the tool_choice was honoured.                 *)
(***************************************************************************)
THEOREM FinishIsHonest == Spec => []FinishHonest
  <1>1. Lifecycle /\ Stopping /\ Bookkeeping => FinishHonest
    BY DEF Bookkeeping, Known
  <1> QED
    BY <1>1, BookkeepingInvariant, PTL

(***************************************************************************)
(* next_call, BlockState and native_calls: the decoder's own count of the  *)
(* calls is the assembler's, so no part goes to another call than meant.   *)
(***************************************************************************)
THEOREM BooksAlwaysAgree == Spec => []BooksAgree
  <1>1. Lifecycle /\ Stopping /\ Bookkeeping => BooksAgree
    BY BooksMeet
  <1> QED
    BY <1>1, BookkeepingInvariant, PTL

(***************************************************************************)
(* block_stop and message_delta: when a message of Anthropic finishes, the *)
(* arguments of each of its calls are one whole object.                    *)
(***************************************************************************)
THEOREM ArgumentsAreWhole == Spec => []ArgumentsWhole
  <1>1. Lifecycle /\ Stopping /\ Bookkeeping => ArgumentsWhole
    <2> SUFFICES ASSUME Lifecycle, Bookkeeping, provider = "anthropic", given = "finish",
                        NEW i \in DOMAIN asm.calls
                 PROVE  asm.calls[i].args = "object"
      BY DEF ArgumentsWhole
    <2>1. asm.terminal
      BY DEF Lifecycle, Agree
    <2>2. DOMAIN asm.calls = 1 .. Len(asm.calls)
      BY DEF Bookkeeping, Known
    <2> QED
      BY <2>1, <2>2 DEF Bookkeeping, AnthropicBooks
  <1> QED
    BY <1>1, BookkeepingInvariant, PTL
=============================================================================
