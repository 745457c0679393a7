---------------------------- MODULE Conversation ----------------------------
(***************************************************************************)
(* The canonical request (request.rs): which conversations, tools and      *)
(* limits a chat request may have, and what must hold of them on a route.  *)
(*                                                                         *)
(* A message is its role, whether it has string content, its calls, and    *)
(* for a result the id it answers; a call's arguments are "object" if they *)
(* parse as one JSON object, or "junk".  Unknown members and wrong types   *)
(* make a message or the request unsound; which of them it was, and the    *)
(* decoder of JSON, are left out.                                          *)
(***************************************************************************)
EXTENDS Assembler, FiniteSetsExt

\* The providers whose messages are made of objects.
Translated == {"anthropic", "gemini"}

Message(role, content, calls, id) ==
  [role |-> role, content |-> content, calls |-> calls, id |-> id, sound |-> TRUE]

\* Any name that is not declared is Undeclared.
CallType == [id : Ids \cup {NoId, EmptyId}, name : Tools \cup {Undeclared}, args : Arguments]
MessageType ==
  {message \in [role : {"system", "developer", "user", "assistant", "tool"}, content : BOOLEAN,
                calls : Seq(CallType), id : Ids \cup {NoId, EmptyId}, sound : BOOLEAN] :
     message.role # "assistant" => message.calls = <<>>}

Instructing == {"system", "developer"}

----------------------------------------------------------------------------
(* validate_messages: a fold over the turns.                               *)
Turns == {"instruction", "after_user", "after_assistant", "tool_results", "after_tool_result"}

Fresh == [turn |-> "instruction", ids |-> {}, unresolved |-> {}, ok |-> TRUE]

CallIds(calls) == {calls[i].id : i \in DOMAIN calls}

\* validate_tool_calls; validate_call_function.
GoodCalls(calls, ids, declared) ==
  /\ \A i \in DOMAIN calls : calls[i].id \in Ids /\ calls[i].name \in declared
  /\ CallIds(calls) \cap ids = {}
  /\ \A i, j \in DOMAIN calls : i # j => calls[i].id # calls[j].id

\* Mutant: a user may speak though results are missing.
MayFollowLax(state, message) ==
  CASE message.role \in Instructing -> state.turn = "instruction"
    [] message.role = "user"        -> state.turn \in {"instruction", "after_assistant", "tool_results"}
    [] message.role = "assistant"   -> state.turn \in {"after_user", "after_tool_result"}
    [] message.role = "tool"        -> state.turn \in {"tool_results", "after_tool_result"}
    [] OTHER                        -> FALSE

MayFollow(state, message) ==
  CASE message.role \in Instructing -> state.turn = "instruction"
    [] message.role = "user"        -> state.turn \in {"instruction", "after_assistant"}
    [] message.role = "assistant"   -> state.turn \in {"after_user", "after_tool_result"}
    [] message.role = "tool"        -> state.turn \in {"tool_results", "after_tool_result"}
    [] OTHER                        -> FALSE

GoodMessage(state, message, declared) ==
  /\ message.sound
  /\ message.role # "assistant" => message.content
  /\ message.role = "assistant" =>
       /\ message.content \/ message.calls # <<>>
       /\ GoodCalls(message.calls, state.ids, declared)
  /\ message.role = "tool" => message.id \in state.unresolved

After(state, message) ==
  CASE message.role \in Instructing -> state
    [] message.role = "user"        -> [state EXCEPT !.turn = "after_user"]
    [] message.role = "assistant"   ->
         [state EXCEPT !.ids = @ \cup CallIds(message.calls),
                       !.unresolved = @ \cup CallIds(message.calls),
                       !.turn = IF message.calls = <<>> THEN "after_assistant" ELSE "tool_results"]
    [] OTHER                        ->
         [state EXCEPT !.unresolved = @ \ {message.id},
                       !.turn = IF state.unresolved = {message.id}
                                THEN "after_tool_result" ELSE "tool_results"]

ValidMessages(messages, declared) ==
  LET Step(state, message) ==
        IF state.ok /\ MayFollow(state, message) /\ GoodMessage(state, message, declared)
        THEN After(state, message) ELSE [state EXCEPT !.ok = FALSE]
      end == FoldLeft(Step, Fresh, messages)
  IN end.ok /\ end.turn \in {"after_user", "after_tool_result"}

----------------------------------------------------------------------------
(***************************************************************************)
(* A chat request: the members that matter.  tools is empty if the member  *)
(* is absent; limits are the output limits that are given, of which there  *)
(* are two spellings.                                                      *)
(***************************************************************************)
ChoiceMembers == {"absent", "none", "auto", "required", "named"}
Limits  == {"max_tokens", "max_completion_tokens"}

\* validate_tool_choice: a named tool is a declared one.
ValidChoice(chat) ==
  chat.choice # "absent" =>
    /\ chat.tools # {}
    /\ chat.choice = "named" => NamedTool \in chat.tools

\* validate_top and canonicalize.
ValidRequest(chat) ==
  /\ chat.sound
  /\ ValidMessages(chat.messages, chat.tools)
  /\ ValidChoice(chat)
  /\ chat.limits # Limits

\* canonical_tool_choice.
ToolChoice(chat) ==
  IF chat.choice # "absent" THEN chat.choice
  ELSE IF chat.tools = {} THEN "none" ELSE "auto"

\* combined_instruction: how many messages it is made of.
Instructions(messages) ==
  Cardinality({i \in DOMAIN messages :
                 \A j \in 1 .. i : messages[j].role \in Instructing})

\* validate_route_tool_arguments.
StructuredArguments(messages) ==
  \A i \in DOMAIN messages : \A k \in DOMAIN messages[i].calls :
    messages[i].calls[k].args = "object"

\* validate_for_route, on the providers of the route's targets.
ValidForRoute(chat, providers) ==
  /\ "anthropic" \in ToSet(providers) => chat.limits # {}
  /\ ToSet(providers) \cap Translated # {} => StructuredArguments(chat.messages)
============================================================================
