-------------------------- MODULE AnthropicStream --------------------------
(***************************************************************************)
(* AnthropicSseDecoder (anthropic.rs): the lifecycle of a message, whose   *)
(* content comes in numbered blocks, several of them open at a time.  A    *)
(* block of a tool is a call of the canonical answer, and the decoder      *)
(* numbers the calls itself.                                               *)
(*                                                                         *)
(* saw_message_stop is set with done and read only where done is not set;  *)
(* it is left out.                                                         *)
(***************************************************************************)
EXTENDS SseDecoder

CONSTANT MaxBlocks   \* bound of the model: blocks in one message

ASSUME AnthropicAssumption == MaxBlocks \in Nat

\* BlockState: a block of text is no tool, and has no call of its own.
NoCall == -1

AnthropicInit ==
  DecoderInit("anthropic",
    [blocks |-> <<>>, nextBlock |-> 0, nextCall |-> 0, started |-> FALSE,
     messageDelta |-> FALSE, input |-> FALSE, output |-> FALSE])

AnthropicReads(what) == provider = "anthropic" /\ Reads(what)

\* Where the three events of a block are accepted.
InContent == ~done /\ native.started /\ ~native.messageDelta

\* The event changes the decoder's own fields only.
Notes(fields) == native' = fields /\ UNCHANGED done /\ Quiet

MessageStart ==
  /\ AnthropicReads("plain")
  /\ IF done \/ native.started THEN Fail
     ELSE \E input \in BOOLEAN :
            Notes([native EXCEPT !.started = TRUE, !.input = input])

TextDelta(content) == [role |-> FALSE, content |-> content, parts |-> <<>>]
CallDelta(part)    == [role |-> FALSE, content |-> FALSE, parts |-> <<part>>]

Opened(block) ==
  [native EXCEPT !.blocks = Inserted(@, native.nextBlock, block), !.nextBlock = @ + 1]

\* A block of text may bring some of it.
TextBlockStart ==
  /\ AnthropicReads("plain")
  /\ InContent
  /\ native.nextBlock < MaxBlocks
  /\ \E content \in BOOLEAN :
       Push(TextDelta(content), "none", Opened([call |-> NoCall, args |-> ""]), FALSE)

\* Mutant: the number of the call is not used up.
ToolBlockStartReused ==
  /\ AnthropicReads("plain")
  /\ InContent
  /\ native.nextBlock < MaxBlocks
  /\ \E id \in {NoId, EmptyId} \cup NativeIds, name \in Tools \cup {Undeclared} :
       Push(CallDelta([index |-> native.nextCall, id |-> id, name |-> name, args |-> ""]),
            "none",
            Opened([call |-> native.nextCall, args |-> ""]),
            FALSE)

ToolBlockStart ==
  /\ AnthropicReads("plain")
  /\ InContent
  /\ native.nextBlock < MaxBlocks
  /\ \E id \in {NoId, EmptyId} \cup NativeIds, name \in Tools \cup {Undeclared} :
       Push(CallDelta([index |-> native.nextCall, id |-> id, name |-> name, args |-> ""]),
            "none",
            [Opened([call |-> native.nextCall, args |-> ""]) EXCEPT !.nextCall = @ + 1],
            FALSE)

TextBlockDelta ==
  /\ AnthropicReads("plain")
  /\ InContent
  /\ \E index \in DOMAIN native.blocks :
       /\ native.blocks[index].call = NoCall
       /\ Push(TextDelta(TRUE), "none", native, FALSE)

ToolBlockDelta ==
  /\ AnthropicReads("plain")
  /\ InContent
  /\ \E index \in DOMAIN native.blocks, fragment \in Fragments :
       LET call == native.blocks[index].call
       IN /\ call # NoCall
          /\ Push(CallDelta([index |-> call, id |-> NoId, name |-> <<>>, args |-> fragment]),
                  "none",
                  [native EXCEPT !.blocks[index].args = Joined(@, fragment)],
                  FALSE)

Closed(index) ==
  [native EXCEPT !.blocks = Restrict(@, DOMAIN @ \ {index})]

\* Mutant: the arguments of a call are not looked at when its block closes.
BlockStopUnchecked ==
  /\ AnthropicReads("plain")
  /\ InContent
  /\ \E index \in DOMAIN native.blocks : Notes(Closed(index))

\* A call whose arguments are no object, the empty string among them, is refused.
BlockStop ==
  /\ AnthropicReads("plain")
  /\ InContent
  /\ \E index \in DOMAIN native.blocks :
       LET block == native.blocks[index]
       IN IF block.call # NoCall /\ block.args # "object" THEN Fail
          ELSE Notes(Closed(index))

\* An event of a block out of place, of an unknown block, of the wrong kind, or
\* with a number that is not the next.
BlockRefused ==
  /\ AnthropicReads("plain")
  /\ Fail

AnthropicEndings == {"stop", "length", "tool_calls", "content_filter", "invalid", "unknown"}

MessageDelta ==
  /\ AnthropicReads("plain")
  /\ IF ~InContent \/ native.blocks # <<>> THEN Fail
     ELSE \E ending \in AnthropicEndings, output \in BOOLEAN :
            Push(TextDelta(FALSE), ending,
                 [native EXCEPT !.messageDelta = TRUE, !.output = output], FALSE)

MessageStop ==
  /\ AnthropicReads("plain")
  /\ IF done \/ ~native.messageDelta THEN Fail
     ELSE /\ done' = TRUE
          /\ UNCHANGED <<native, exhausted>>
          /\ \E counts \in Normalized(native.input, native.output) :
               IF counts /\ Counts(asm, request) THEN GiveUsage
               ELSE UNCHANGED <<asm, given, reason, shown>>

\* Any other event is refused, the provider's `ping` among them.
ReadPing == AnthropicReads("ping") /\ Fail

AnthropicSourceEnds == provider = "anthropic" /\ SourceEnds

AnthropicNext ==
  \/ MessageStart \/ TextBlockStart \/ ToolBlockStart
  \/ TextBlockDelta \/ ToolBlockDelta \/ BlockStop \/ BlockRefused
  \/ MessageDelta \/ MessageStop \/ ReadPing \/ AnthropicSourceEnds
============================================================================
