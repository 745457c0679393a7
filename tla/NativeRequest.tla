--------------------------- MODULE NativeRequest ---------------------------
(***************************************************************************)
(* outbound_request of the three adapters: a canonical request in the form *)
(* of a provider.  A native message has a role and parts: texts, calls,    *)
(* and results, with their ids and names.                                  *)
(***************************************************************************)
EXTENDS Conversation

NoName == <<>>
Part(part, id, name) == [part |-> part, id |-> id, name |-> name]
Text == Part("text", NoId, NoName)

Said(message) ==
  (IF message.content THEN <<Text>> ELSE <<>>)
    \o [k \in DOMAIN message.calls |-> Part("call", message.calls[k].id, message.calls[k].name)]

----------------------------------------------------------------------------
(* messages of anthropic.rs, contents of gemini.rs: results are parts of a *)
(* user's message, those that come together of one.                        *)

Results(messages) == {i \in DOMAIN messages : messages[i].role = "tool"}

Joins(messages, i) == /\ messages[i].role = "tool"
                      /\ i > 1 /\ messages[i - 1].role = "tool"

Translation(messages, assistant, results) ==
  LET Step(output, i) ==
        LET message == messages[i]
        IN CASE message.role \in Instructing -> output
             [] message.role = "user"        -> Append(output, [role |-> "user", parts |-> <<Text>>])
             [] message.role = "assistant"   -> Append(output, [role |-> assistant, parts |-> Said(message)])
             [] Joins(messages, i)           -> [output EXCEPT ![Len(output)].parts = Append(@, results[i])]
             [] OTHER                        -> Append(output, [role |-> "user", parts |-> <<results[i]>>])
  IN FoldLeft(Step, <<>>, [i \in DOMAIN messages |-> i])

\* Gemini's results repeat the name of their call, which is looked up among those before.
Calls(messages) == UNION {ToSet(messages[i].calls) : i \in DOMAIN messages}
NamesOf(messages, i) == {call.name : call \in {c \in Calls(SubSeq(messages, 1, i)) : c.id = messages[i].id}}

AnthropicMessages(messages) ==
  Translation(messages, "assistant",
              [i \in Results(messages) |-> Part("result", messages[i].id, NoName)])

GeminiContents(messages) ==
  Translation(messages, "model",
              [i \in Results(messages) |->
                 Part("result", messages[i].id, CHOOSE name \in NamesOf(messages, i) : TRUE)])

\* compatible_messages: the instructions are one message, the rest stays as it is.
CompatibleMessages(messages) ==
  LET Same(i) == [role  |-> messages[i].role,
                  parts |-> IF messages[i].role = "tool"
                            THEN <<Part("result", messages[i].id, NoName)>> ELSE Said(messages[i])]
      leading == Instructions(messages)
  IN (IF leading = 0 THEN <<>> ELSE <<[role |-> "system", parts |-> <<Text>>]>>)
       \o [i \in 1 .. Len(messages) - leading |-> Same(i + leading)]

----------------------------------------------------------------------------
\* Where an adapter would not go on: an argument that is no object (unreachable!), a
\* result whose call is not found (expect), no limit for Anthropic.
Stumbles(provider, chat) ==
  \/ provider \in Translated /\ \E call \in Calls(chat.messages) : call.args # "object"
  \/ /\ provider = "gemini"
     /\ \E i \in DOMAIN chat.messages :
          chat.messages[i].role = "tool" /\ NamesOf(chat.messages, i) = {}
  \/ provider = "anthropic" /\ chat.limits = {}

NativeMessages(provider, messages) ==
  CASE provider = "anthropic" -> AnthropicMessages(messages)
    [] provider = "gemini"    -> GeminiContents(messages)
    [] OTHER                  -> CompatibleMessages(messages)

\* tool_choice, gemini_tool_choice; the others pass on what was given.
NativeChoice(provider, chat) ==
  IF provider \notin Translated THEN chat.choice
  ELSE IF chat.tools = {} THEN "absent" ELSE ToolChoice(chat)

Outbound(provider, chat) ==
  IF Stumbles(provider, chat) THEN [stumbled |-> TRUE]
  ELSE [stumbled |-> FALSE,
        messages |-> NativeMessages(provider, chat.messages),
        system   |-> provider \in Translated /\ Instructions(chat.messages) > 0,
        limited  |-> chat.limits # {},
        choice   |-> NativeChoice(provider, chat)]
============================================================================
