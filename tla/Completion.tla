----------------------------- MODULE Completion -----------------------------
(***************************************************************************)
(* A complete answer: what the adapters make of a provider's body          *)
(* (parse_response of each) and what the gateway makes of that             *)
(* (response.rs).  A body is sound if it has the members and types that    *)
(* the adapter wants but for the ones below; texts, usage and metadata are *)
(* left out.                                                               *)
(***************************************************************************)
EXTENDS Assembler, FiniteSetsExt

\* What a body is made of.
PartType == [part : STRING, id : Ids \cup {NoId, EmptyId}, name : Tools \cup {Undeclared},
             args : Arguments]

\* The reasons, by what they mean to the providers that have them.
Reasons == {"stop", "length", "tool_calls", "content_filter", "overloaded", "invalid",
            "unheard_of", "null"}

\* terminal, of each adapter; a null reason is an error of the two that translate.
Terminal(provider, reason) ==
  CASE provider = "anthropic" ->
         IF reason \in {"stop", "length", "tool_calls", "content_filter", "invalid"}
         THEN reason ELSE "unknown"
    [] provider = "gemini" ->
         IF reason \in {"stop", "length", "content_filter", "invalid"} THEN reason ELSE "unknown"
    [] OTHER ->
         IF reason \in {"stop", "length", "tool_calls", "content_filter"} THEN reason
         ELSE IF reason = "overloaded" /\ provider = "deepseek" THEN reason
         ELSE IF reason = "null" THEN "invalid" ELSE "unknown"

\* Mutant: arguments that are no object are taken for ones of Gemini too.
ObjectsOfAnthropic(provider, body) ==
  provider = "anthropic" =>
    \A i \in DOMAIN body.parts : body.parts[i].part = "call" => body.parts[i].args = "object"

Objects(provider, body) ==
  provider \in {"anthropic", "gemini"} =>
    \A i \in DOMAIN body.parts : body.parts[i].part = "call" => body.parts[i].args = "object"

\* parse_blocks, parse_parts, parse_choice: texts are joined, calls keep their order.
Parses(provider, body) ==
  /\ body.sound
  /\ \A i \in DOMAIN body.parts : body.parts[i].part \in {"text", "call"}
  /\ Objects(provider, body)
  /\ provider = "gemini" => body.parts # <<>>
  /\ provider \in {"anthropic", "gemini"} => body.reason # "null"

\* normalize_response: one choice, whose index is zero.  Anthropic's body is one.
OneChoice(provider, body) ==
  provider # "anthropic" => body.choices = 1 /\ body.index = 0

\* ParsedResponse::SafetyBlock.
PolicyBlock(provider, body) == provider = "gemini" /\ body.blocked /\ body.choices = 0

Content(body) == \E i \in DOMAIN body.parts : body.parts[i].part = "text"
NativeCalls(body) ==
  LET Take(calls, part) == IF part.part = "call" THEN Append(calls, part) ELSE calls
  IN FoldLeft(Take, <<>>, body.parts)

----------------------------------------------------------------------------
\* generated_call_id: the counter goes on until its id is free.
NextFree(next, calls) == Min((next .. next + Len(calls)) \ UsedIds(calls))

\* normalize_calls; the counter goes with it.
NormalizedCalls(native, next) ==
  LET Step(state, call) ==
        LET keeps == Keeps(state.calls, call.id)
            id    == IF keeps THEN call.id ELSE NextFree(state.next, state.calls)
        IN [calls |-> Append(state.calls, [id |-> id, name |-> call.name, args |-> call.args]),
            next  |-> IF keeps THEN state.next ELSE id + 1]
  IN FoldLeft(Step, [calls |-> <<>>, next |-> next], native)

(***************************************************************************)
(* build_response, after the adapter: the answer, or an error for which    *)
(* the next target is tried; `next` is NEXT_ID, which the metadata of each *)
(* attempt moves too.  It moves here for the calls behind an undeclared    *)
(* one as well, at which the code stops.  A request declares Tools or      *)
(* none; with none its choice is "none", and any call is refused for that. *)
(***************************************************************************)
Built(choice, content, native, terminal, next) ==
  LET normal == NormalizedCalls(native, next + 1)
      finish == FinishReason(terminal, content, normal.calls)
  IN IF \A i \in DOMAIN native : native[i].name \in Tools
     THEN [good    |-> ValidOutcome(choice, content, normal.calls, finish),
           content |-> content, calls |-> normal.calls, finish |-> finish, next |-> normal.next]
     ELSE [good |-> FALSE, next |-> normal.next]

\* complete, of each adapter.
Completed(provider, choice, body, next) ==
  CASE PolicyBlock(provider, body) ->
         Built(choice, FALSE, <<>>, "content_filter", next)
    [] ~PolicyBlock(provider, body) /\ Parses(provider, body) /\ OneChoice(provider, body) ->
         Built(choice, Content(body), NativeCalls(body), Terminal(provider, body.reason), next)
    [] OTHER -> [good |-> FALSE, next |-> next + (IF provider = "gemini" \/ Parses(provider, body) THEN 1 ELSE 0)]
============================================================================
