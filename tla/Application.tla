---------------------------- MODULE Application ----------------------------
(***************************************************************************)
(* The whole way from a configuration file to an answer: Startup gives the *)
(* routes, and Chat serves them.  What is said here of a conversation is   *)
(* said for the routes that some accepted file gives.                      *)
(***************************************************************************)
EXTENDS Startup, Chat, EventPaths

VARIABLE origin  \* history variable: for each answer in history, who gave it

vars == <<startVars, chatVars, origin>>

Init == StartInit /\ ChatInit /\ origin = <<>>

\* An answer that is taken up came from the target that was tried last; what the
\* client says itself has no origin.
Remember ==
  LET answer == Len(history) + 1
      giver  == [model |-> chat.model, provider |-> Route[attempt]]
  IN origin' = IF step = "answered"
               THEN [i \in DOMAIN origin \cup {answer} |-> IF i = answer THEN giver ELSE origin[i]]
               ELSE origin

Next ==
  \/ StartNext /\ UNCHANGED <<chatVars, origin>>
  \/ Serve /\ Opens(config.routes, cli.no_auth) /\ UNCHANGED origin
  \/ ChatNext /\ Remember /\ UNCHANGED startVars

Spec == Init /\ [][Next]_vars

TypeOK ==
  /\ stage \in Stages /\ code \in {"none", "0", "1", "2"}
  /\ cli \in CommandLines
  /\ place \in Places
  /\ \A i \in DOMAIN open :
       IF open[i].node = "map" THEN Len(open[i].keys) - Len(open[i].items) \in {0, 1}
       ELSE open[i].node = "seq" /\ open[i].keys = <<>>
  /\ step \in Steps
  /\ gate \in {"off", "key"}
  /\ nextId \in Ids
  /\ history \in Seq(MessageType)
  /\ reply.status \in {0, 200, 400, 401, 404, 502}
  /\ step \in {"routing", "sent"} => attempt \in DOMAIN Route

----------------------------------------------------------------------------
(***************************************************************************)
(* The routes are what the file says, to the word and in its order: each   *)
(* entry of the file is one target, equal ones too, of the route of its    *)
(* name, targets and routes in the order of the file, and get_route finds  *)
(* them (parse_node, deserialize_raw_config, build_runtime_config).  The   *)
(* file is read here off the scanner's events, without a tree.             *)
(***************************************************************************)
NamePath(k)  == <<Word("model_list"), Nth(k), Word("model_name")>>
ModelPath(k) == <<Word("model_list"), Nth(k), Word("litellm_params"), Word("model")>>

\* The entries that the events list.
Listed(said) ==
  {value.path[2][2] : value \in {v \in said : Len(v.path) = 3 /\ v.path = NamePath(v.path[2][2])}}

\* What is shown is the words of these numbers, from the least to the greatest.
InOrder(shown, words, numbers) ==
  \E at \in [DOMAIN shown -> numbers] :
    /\ numbers = {at[i] : i \in DOMAIN at}
    /\ \A i, j \in DOMAIN at : i < j => at[i] < at[j]
    /\ \A i \in DOMAIN at : shown[i] = words[at[i]]

Firsts(names) == {k \in DOMAIN names : \A j \in DOMAIN names : j < k => names[j] # names[k]}
Bearing(names, name) == {k \in DOMAIN names : names[k] = name}

FollowsFile(routes, said) ==
  LET names  == [k \in Listed(said) |-> TextAt(said, NamePath(k))]
      models == [k \in Listed(said) |-> TextAt(said, ModelPath(k))]
      Shown(targets) == [t \in DOMAIN targets |-> targets[t].model]
  IN /\ Listed(said) = 1 .. Cardinality(Listed(said))
     /\ InOrder([r \in DOMAIN routes |-> routes[r].model_name], names, Firsts(names))
     /\ \A k \in Listed(said) :
          InOrder(Shown(GetRoute(routes, names[k])), models, Bearing(names, names[k]))

RoutesFaithful == stage = "built" => FollowsFile(config.routes, Heard(file).said)

(***************************************************************************)
(* No key goes anywhere in the clear and no service is open by mistake:    *)
(* what is built speaks TLS to every target that has a key, authentication *)
(* is off only on the loopback, and else there is a master key; nobody     *)
(* without it is answered or costs an attempt (validate.rs, cli.rs,        *)
(* is_authenticated).                                                      *)
(***************************************************************************)
KeysGuarded ==
  stage = "built" =>
    \A i \in DOMAIN config.routes : \A k \in DOMAIN config.routes[i].targets :
      LET target == config.routes[i].targets[k]
      IN /\ target.api_key => target.https
         /\ target.provider # "openai_compatible" => target.api_key

ServiceGuarded ==
  /\ stage \in {"built", "serving"} =>
       IF cli.no_auth THEN cli.loopback ELSE config.general_settings.master_key
  /\ step \in {"routing", "sent"} /\ ~chat.authorized => cli.no_auth

CredentialsGuarded == KeysGuarded /\ ServiceGuarded

(***************************************************************************)
(* What is sent can be sent and says what the client said: no adapter      *)
(* stumbles over what the validation let through, for whichever target of  *)
(* the route; the messages of Anthropic and Gemini alternate, beginning    *)
(* and ending with the user; and the message behind each message of the    *)
(* model has one result for each of its calls, under its id and, for       *)
(* Gemini, its name (validate_messages against messages and contents).     *)
(***************************************************************************)
Parts(message, part) == {p \in ToSet(message.parts) : p.part = part}

Representable ==
  step = "sent" =>
    /\ ~outbound.stumbled
    /\ LET messages == outbound.messages
           provider == Route[attempt]
       IN provider \in Translated =>
            /\ \A i \in DOMAIN messages : messages[i].role = "user" <=> i % 2 = 1
            /\ Len(messages) % 2 = 1
            /\ \A i \in DOMAIN messages : i % 2 = 0 =>
                 LET calls   == Parts(messages[i], "call")
                     results == Parts(messages[i + 1], "result")
                 IN /\ {c.id : c \in calls} = {r.id : r \in results}
                    /\ Cardinality(results)
                         = Cardinality({k \in DOMAIN messages[i + 1].parts :
                                          messages[i + 1].parts[k].part = "result"})
                    /\ provider = "gemini" =>
                         {<<c.id, c.name>> : c \in calls} = {<<r.id, r.name>> : r \in results}
            /\ \A i \in DOMAIN messages : messages[i].parts # <<>>

(***************************************************************************)
(* What the gateway says may be said back to it: a client that adds the    *)
(* answer, with a result for each call, and asks again is refused only if  *)
(*  - an answer was blocked without a word;                                *)
(*  - an id of an earlier answer came again (a provider's own, or the      *)
(*    gateway's after a restart);                                          *)
(*  - the route has a target that wants arguments to be objects, and there *)
(*    are some that are none, which this route did not give (Moved: the    *)
(*    client now asks for another model, or began with them);              *)
(*  - the route is mixed, and a target of it that gives arguments on as    *)
(*    they come gave some that are no object (OwnJunk: the client never    *)
(*    left the model, and the route refuses its own answer).               *)
(* A target that wants objects never is the reason itself, nor are one     *)
(* answer's own ids (normalize_calls, parse_blocks, parse_parts against    *)
(* validate_messages, validate_route_tool_arguments).                      *)
(***************************************************************************)
Wordless(messages) ==
  \E i \in DOMAIN messages :
    messages[i].role = "assistant" /\ ~messages[i].content /\ messages[i].calls = <<>>

SharedIds(messages) ==
  \E i, j \in DOMAIN messages :
    i # j /\ CallIds(messages[i].calls) \cap CallIds(messages[j].calls) # {}

\* The messages with arguments that are no object.
Loose(messages) ==
  {i \in DOMAIN messages :
     \E k \in DOMAIN messages[i].calls : messages[i].calls[k].args # "object"}

\* The answers that came of the model that is asked for.
OfThisModel == {i \in DOMAIN origin : origin[i].model = chat.model}

Moved(messages) ==
  /\ ToSet(Route) \cap Translated # {}
  /\ \E i \in Loose(messages) : i \notin OfThisModel

OwnJunk(messages) ==
  /\ ToSet(Route) \cap Translated # {}
  /\ \E i \in Loose(messages) \cap OfThisModel : origin[i].provider \in ToSet(Route) \ Translated

AnswersContinue ==
  step = "answered" /\ chat.honest /\ reply.status \in 400 .. 499 =>
    \/ Wordless(chat.messages)
    \/ SharedIds(chat.messages)
    \/ Moved(chat.messages)
    \/ OwnJunk(chat.messages)
============================================================================
