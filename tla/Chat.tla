-------------------------------- MODULE Chat --------------------------------
(***************************************************************************)
(* A conversation: a client sends requests, each with all that was said    *)
(* before, and the gateway validates them, tries the targets of the route  *)
(* in their order, and answers (chat_response_with_permit, server.rs).     *)
(* The routes come from Config; how the time and a disconnect end the      *)
(* attempts is in Dispatch, and streams are in Adapters and Delivery.      *)
(***************************************************************************)
EXTENDS Config, NativeRequest, Completion

CONSTANTS
  Openings,      \* what clients begin a conversation with
  Bodies,        \* what providers answer with
  MaxMessages    \* bound of the model: messages of a conversation

\* A conversation begins well; what may be wrong with a request comes with Unusual.
ASSUME ChatAssumption ==
  /\ \A opening \in Openings :
       opening \in Seq(MessageType) /\ ValidMessages(opening, Tools)
  /\ \A body \in Bodies : body.parts \in Seq(PartType)

VARIABLES
  table,     \* the routes, with their targets' providers
  gate,      \* authentication: off, or a key is wanted
  nextId,    \* NEXT_ID
  history,   \* the client's conversation
  step,      \* where the request is
  chat,      \* the request
  attempt,   \* the target that is tried
  outbound,  \* what it is sent
  reply      \* what the client gets

chatVars == <<table, gate, nextId, history, step, chat, attempt, outbound, reply>>

Steps == {"closed", "idle", "received", "routing", "sent", "answered", "over"}
NoReply == [status |-> 0]
NotSent == [stumbled |-> FALSE]

\* A request of a client that only goes on from what it was told, and those that
\* differ from it in one thing.
Honest(model) ==
  [authorized |-> TRUE, model |-> model, tools |-> Tools, choice |-> "absent",
   limits |-> {"max_tokens"}, sound |-> TRUE, messages |-> history, honest |-> TRUE]

Replaced(messages, i, message) == [messages EXCEPT ![i] = message]

\* What is wrong with a message, or with its first call.
Spoilt(message) ==
  {[message EXCEPT !.sound = FALSE]}
  \cup (IF message.calls = <<>> THEN {}
        ELSE {[message EXCEPT !.calls[1].args = "junk"],
              [message EXCEPT !.calls[1].name = Undeclared],
              [message EXCEPT !.calls[1].id = EmptyId]})

Edited(messages) ==
  {RemoveAt(messages, i) : i \in DOMAIN messages}
  \cup {InsertAt(messages, i, messages[i]) : i \in DOMAIN messages}
  \cup {Replaced(Replaced(messages, i, messages[i + 1]), i + 1, messages[i])
            : i \in 1 .. Len(messages) - 1}
  \cup (UNION {{Replaced(messages, i, message) : message \in Spoilt(messages[i])}
                : i \in DOMAIN messages})
  \cup {Append(Front(messages), Message("user", TRUE, <<>>, NoId))}

ServedModels == {table[i].model_name : i \in DOMAIN table}

Usual == {[Honest(model) EXCEPT !.choice = choice] : model \in ServedModels, choice \in ChoiceMembers}

Variants(usual) ==
  LET other == [usual EXCEPT !.honest = FALSE]
  IN {[other EXCEPT !.authorized = FALSE],
      [other EXCEPT !.model = "unheard_of"], [other EXCEPT !.model = ""],
      [other EXCEPT !.limits = {}], [other EXCEPT !.limits = Limits],
      [other EXCEPT !.tools = {}], [other EXCEPT !.sound = FALSE]}

Instead(model, messages) ==
  [Honest(model) EXCEPT !.honest = FALSE, !.messages = messages]

Unusual ==
  (UNION {Variants(usual) : usual \in Usual})
  \cup {Instead(model, messages) : model \in ServedModels, messages \in Edited(history)}

ChatInit ==
  /\ table = <<>> /\ gate = "key"
  /\ nextId = 1
  /\ history = <<>>
  /\ step = "closed"
  /\ chat = NoReply /\ attempt = 0 /\ outbound = NotSent /\ reply = NoReply

\* app: the routes and the mode of authentication are handed over.
Opens(routes, noAuth) ==
  /\ step = "closed"
  /\ table' = [i \in DOMAIN routes |->
                 [model_name |-> routes[i].model_name,
                  targets    |-> [k \in DOMAIN routes[i].targets |-> routes[i].targets[k].provider]]]
  /\ gate' = IF noAuth THEN "off" ELSE "key"
  /\ history' \in Openings
  /\ step' = "idle"
  /\ UNCHANGED <<nextId, chat, attempt, outbound, reply>>

Ask ==
  /\ step = "idle"
  /\ chat' \in Usual \cup Unusual
  /\ step' = "received"
  /\ UNCHANGED <<table, gate, nextId, history, attempt, outbound, reply>>

----------------------------------------------------------------------------
(* Before routing: is_authenticated, requested_model, get_route, and the   *)
(* validation, in this order.                                              *)
Route == GetRoute(table, chat.model)

Status ==
  IF gate = "key" /\ ~chat.authorized THEN 401
  ELSE IF chat.model = "" THEN 400
  ELSE IF Route = <<>> THEN 404
  ELSE IF ValidRequest(chat) /\ ValidForRoute(chat, Route) THEN 200
  ELSE 400

Answer(with) ==
  /\ step' = "answered"
  /\ reply' = with
  /\ outbound' = NotSent
  /\ UNCHANGED <<table, gate, history, chat, attempt>>

Reject ==
  /\ step = "received"
  /\ LET status == Status
     IN status # 200 /\ Answer([status |-> status])
  /\ UNCHANGED nextId

Accept ==
  /\ step = "received"
  /\ Status = 200
  /\ step' = "routing" /\ attempt' = 1
  /\ UNCHANGED <<table, gate, nextId, history, chat, outbound, reply>>

----------------------------------------------------------------------------
(* dispatch_route: one target after the other.                             *)
Send ==
  /\ step = "routing"
  /\ outbound' = Outbound(Route[attempt], chat)
  /\ step' = "sent"
  /\ UNCHANGED <<table, gate, nextId, history, chat, attempt, reply>>

\* Mutant: the end of the route is not noticed.
NextTargetEndless ==
  /\ step' = "routing" /\ attempt' = attempt + 1
  /\ outbound' = NotSent
  /\ UNCHANGED <<table, gate, history, chat, reply>>

NextTarget ==
  IF attempt = Len(Route) THEN Answer([status |-> 502])
  ELSE /\ step' = "routing" /\ attempt' = attempt + 1
       /\ outbound' = NotSent
       /\ UNCHANGED <<table, gate, history, chat, reply>>

\* The transport fails, or the status is no success.
AttemptFails ==
  /\ step = "sent"
  /\ NextTarget
  /\ UNCHANGED nextId

ProviderAnswers ==
  /\ step = "sent"
  /\ ~outbound.stumbled
  /\ \E body \in Bodies :
       LET done == Completed(Route[attempt], ToolChoice(chat), body, nextId)
       IN /\ nextId' = done.next
          /\ IF done.good
             THEN Answer([status |-> 200, content |-> done.content, calls |-> done.calls])
             ELSE NextTarget

----------------------------------------------------------------------------
\* The client adds the answer and a result for each call, in any order, or its next
\* word; a conversation that went another way is over.
FollowUps ==
  LET results == {Message("tool", TRUE, <<>>, id) : id \in UsedIds(reply.calls)}
  IN IF reply.calls = <<>> THEN {<<Message("user", TRUE, <<>>, NoId)>>}
     ELSE SetToSeqs(results)

Continue ==
  /\ step = "answered"
  /\ chat.honest /\ reply.status = 200
  /\ \E after \in FollowUps :
       history' = history \o <<Message("assistant", reply.content, reply.calls, NoId)>> \o after
  /\ Len(history') <= MaxMessages
  /\ step' = "idle"
  /\ chat' = NoReply /\ attempt' = 0 /\ reply' = NoReply
  /\ UNCHANGED <<table, gate, nextId, outbound>>

\* The process ends and is started again with the same configuration; NEXT_ID and the
\* request are lost, the client asks again.
Restart ==
  /\ step \in {"idle", "received", "routing", "sent"}
  /\ nextId' = 1
  /\ step' = "idle"
  /\ chat' = NoReply /\ attempt' = 0 /\ outbound' = NotSent /\ reply' = NoReply
  /\ UNCHANGED <<table, gate, history>>

ChatNext ==
  \/ Ask \/ Reject \/ Accept \/ Send \/ AttemptFails \/ ProviderAnswers
  \/ Continue \/ Restart
============================================================================
