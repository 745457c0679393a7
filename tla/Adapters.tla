----------------------------- MODULE Adapters -----------------------------
(***************************************************************************)
(* The streams of the three kinds of provider, each against whatever its   *)
(* provider may send, and what the router and the client are promised of   *)
(* all of them.                                                            *)
(***************************************************************************)
EXTENDS OpenAiStream, AnthropicStream, GeminiStream

Init == OpenAiInit \/ AnthropicInit \/ GeminiInit

CommonNext == ReadComment \/ BreakOff \/ ReturnNone

Next == CommonNext \/ OpenAiNext \/ AnthropicNext \/ GeminiNext

Spec == Init /\ [][Next]_vars

\* What a stream gives, as CanonicalStream has it.
CS == INSTANCE CanonicalStream WITH wanted <- request.usage

----------------------------------------------------------------------------
(* Properties.                                                             *)

Call == [id : Ids, kept : BOOLEAN, name : Seq(Letters), args : Arguments]

NativeTypeOK ==
  CASE provider = "openai"    -> native.usage \in BOOLEAN
    [] provider = "anthropic" ->
         /\ DOMAIN native.blocks \subseteq 0 .. native.nextBlock - 1
         /\ \A i \in DOMAIN native.blocks :
              /\ native.blocks[i].call \in {NoCall} \cup 0 .. native.nextCall - 1
              /\ native.blocks[i].args \in Arguments
         /\ {native.input, native.output} \subseteq BOOLEAN
    [] provider = "gemini"    ->
         /\ DOMAIN native.calls \subseteq NativeIds
         /\ \A id \in DOMAIN native.calls : native.calls[id].index \in 0 .. native.nextCall - 1
         /\ native.ambiguous \subseteq DOMAIN native.calls
         /\ {native.prompt, native.completion} \subseteq BOOLEAN

\* The values of the variables.  The decoders number blocks and calls in order,
\* and an id is ambiguous only after it named a call (anthropic.rs, gemini.rs).
TypeOK ==
  /\ provider \in Providers
  /\ request \in Requests
  /\ asm.calls \in Seq(Call)
  /\ {asm.started, asm.text, asm.terminal, asm.counted} \subseteq BOOLEAN
  /\ NativeTypeOK
  /\ done \in BOOLEAN
  /\ exhausted \in BOOLEAN
  /\ event \in Events
  /\ given \in Items
  /\ reason \in {"none", "stop", "length", "tool_calls", "content_filter"}
  /\ shown \subseteq (0 .. MaxCalls - 1) \X Ids

\* Every decoder gives what the router and the delivery count on: deltas, one
\* finish, the usage at most once, after it, and only if asked for, and nothing
\* after an error (dispatch_stream_route, StreamSuccessState).
ImplementsCanonicalStream == CS!Spec

\* To the client an index is one call for the life of the stream, under one id,
\* and no two calls share an id, whatever ids the provider sends, repeats,
\* leaves out or changes (accept_call_delta, generated_call_id).
IdsStable ==
  \A p, q \in shown : p[1] = q[1] <=> p[2] = q[2]

\* The reason that goes out is true of what went out before it: calls were shown
\* exactly if it says so, and the client's tool_choice was honoured, unless the
\* answer was blocked (normalize_terminal, validate_outcome).
FinishHonest ==
  given = "finish" =>
    /\ reason = "tool_calls" <=> shown # {}
    /\ request.choice = "none" => shown = {}
    /\ request.choice \in {"required", "named"} => reason \in {"tool_calls", "content_filter"}

\* The decoder's books of the calls agree with the assembler's, which counts them
\* for itself: a part is never attached to another call than the provider meant
\* (next_call and BlockState in anthropic.rs, native_calls in gemini.rs).
BooksAgree ==
  CASE provider = "openai" -> TRUE
    [] provider = "anthropic" ->
         /\ native.nextCall = Len(asm.calls)
         /\ \A i \in DOMAIN native.blocks :
              LET block == native.blocks[i]
              IN block.call # NoCall => asm.calls[block.call + 1].args = block.args
    [] provider = "gemini" ->
         /\ native.nextCall = Len(asm.calls)
         /\ \A id \in DOMAIN native.calls :
              LET call == asm.calls[native.calls[id].index + 1]
              IN call.name = native.calls[id].name /\ (call.kept => call.id = id)

\* When an answer of Anthropic finishes, the arguments of each of its calls are
\* one whole object (block_stop, message_delta).
ArgumentsWhole ==
  provider = "anthropic" /\ given = "finish" =>
    \A i \in DOMAIN asm.calls : asm.calls[i].args = "object"

\* As the documentation has it, a keepalive is ignored (docs/specs/nano-llm.md,
\* section 4: "SSE comments, provider keepalives, and empty frames are ignored").
KeepaliveIgnored ==
  [][event' = "ping" => given' = given]_vars

\* As the documentation has it, a policy block without a candidate gives the one
\* terminal chunk (docs/specs/nano-llm.md, section 3.2), if calls do not forbid it.
PolicyBlockAnswers ==
  [][(event' = "policy_block" /\ ~done /\ asm.calls = <<>>) => given' = "finish"]_vars
============================================================================
