----------------------------- MODULE Assembler -----------------------------
(***************************************************************************)
(* StreamAssembler (response.rs): the state that every decoder keeps of    *)
(* one canonical stream, and what it does with one native choice.  A name  *)
(* is a sequence of letters, since it may come in fragments.  Of a call's  *)
(* arguments only what they are so far is kept, and of a text only that it *)
(* was there.                                                              *)
(*                                                                         *)
(* Every error of the assembler ends its decoder, so the state it leaves   *)
(* behind then is of no interest.  The parsers of the adapters let no role *)
(* but "assistant" and no type but "function" through; those two tests are *)
(* left out.                                                               *)
(***************************************************************************)
EXTENDS Integers, Sequences, SequencesExt

CONSTANTS
  Tools,      \* the declared tool names
  Undeclared, \* a name that is none of them
  NamedTool   \* the tool that a named tool_choice names

ASSUME AssemblerAssumption ==
  /\ NamedTool \in Tools
  /\ {<<>>, Undeclared} \cap Tools = {}

\* Call ids, of providers and of the gateway; the member "id" may be absent, or an
\* empty string.
Ids == Nat \ {0}
NoId == 0
EmptyId == -1

\* The request: its tool_choice, and stream_options.include_usage.
Requests == [choice : {"auto", "none", "required", "named"}, usage : BOOLEAN]

\* NativeTerminal, with "none" for a chunk that is not the last.
Terminals == {"stop", "length", "tool_calls", "content_filter", "unknown",
              "overloaded", "invalid", "none"}

\* A StreamAssembler that has seen nothing.
NewAssembler ==
  [calls |-> <<>>, started |-> FALSE, text |-> FALSE, terminal |-> FALSE, counted |-> FALSE]

\* What a call's arguments are so far, and what a fragment may be: "half" is the
\* beginning of an object, "rest" completes one.
Arguments == {"", "half", "object", "junk"}
Fragments == {"", "half", "rest", "object"}

\* push_str.
Joined(args, fragment) ==
  CASE fragment = ""                            -> args
    [] args = "" /\ fragment # "rest"           -> fragment
    [] args = "half" /\ fragment = "half"       -> "half"
    [] args = "half" /\ fragment = "rest"       -> "object"
    [] OTHER                                    -> "junk"

UsedIds(calls) == {calls[i].id : i \in DOMAIN calls}

\* generated_call_id: an id that no call has; which one does not matter.
GeneratedId(calls) == Min((1 .. Len(calls) + 1) \ UsedIds(calls))

\* Mutant: a native id is preserved though an earlier call has it.
KeepsAny(calls, id) == id \in Ids

\* A native id is preserved unless it is empty or collides.
Keeps(calls, id) == id \in Ids \ UsedIds(calls)

Introduce(calls, part) ==
  LET keeps == Keeps(calls, part.id)
  IN Append(calls, [id   |-> IF keeps THEN part.id ELSE GeneratedId(calls),
                    kept |-> keeps,
                    name |-> <<>>,
                    args |-> ""])

\* The id that goes out with a part of a call: a generated one always does.
ShownId(call, id) == IF call.kept THEN id ELSE call.id

(***************************************************************************)
(* accept_call_delta, on what the parts before it left: the calls so far   *)
(* and the ids shown, each with the index of its call.                     *)
(***************************************************************************)
AcceptPart(state, part) ==
  LET isNew == part.index = Len(state.calls)
      calls == IF isNew THEN Introduce(state.calls, part) ELSE state.calls
      call  == calls[part.index + 1]
      id    == IF isNew THEN call.id ELSE part.id
      shown == ShownId(call, id)
      refused == \/ ~state.ok
                 \/ part.index > Len(state.calls)
                 \/ call.kept /\ id \notin {NoId, call.id}
  IN IF refused THEN [state EXCEPT !.ok = FALSE]
     ELSE [ok    |-> TRUE,
           calls |-> [calls EXCEPT ![part.index + 1].name = @ \o part.name,
                                   ![part.index + 1].args = Joined(@, part.args)],
           shown |-> state.shown \cup
                       (IF shown = NoId THEN {} ELSE {<<part.index, shown>>})]

\* normalize_terminal; "invalid" stands for both kinds of error.
FinishReason(native, text, calls) ==
  IF native \in {"overloaded", "invalid"} THEN "invalid"
  ELSE IF native = "content_filter" THEN native
  ELSE IF native = "tool_calls" /\ calls = <<>> THEN "invalid"
  ELSE IF calls # <<>> THEN "tool_calls"
  ELSE IF native = "unknown" /\ text THEN "stop"
  ELSE IF native = "unknown" THEN "invalid"
  ELSE native

HonorsChoice(choice, calls) ==
  /\ choice = "none" => calls = <<>>
  /\ choice \in {"required", "named"} => calls # <<>>
  /\ choice = "named" => \A i \in DOMAIN calls : calls[i].name = NamedTool

\* Mutant: nothing holds the reason against the calls that were made.
ValidOutcomeAnyReason(choice, text, calls, finish) ==
  /\ finish # "invalid"
  /\ \A i \in DOMAIN calls : calls[i].name \in Tools
  /\ finish = "content_filter" \/ text \/ calls # <<>>
  /\ finish = "content_filter" \/ HonorsChoice(choice, calls)

\* completed_calls, then validate_outcome.
ValidOutcome(choice, text, calls, finish) ==
  /\ finish # "invalid"
  /\ \A i \in DOMAIN calls : calls[i].name \in Tools
  /\ finish = "content_filter" \/ text \/ calls # <<>>
  /\ calls # <<>> <=> finish = "tool_calls"
  /\ finish = "content_filter" \/ HonorsChoice(choice, calls)

Refusal == [verdict |-> "error"]

(***************************************************************************)
(* push: an error, nothing to be seen, or a chunk with the ids it shows.   *)
(***************************************************************************)
Pushed(asm, request, delta, native) ==
  LET parts  == FoldLeft(AcceptPart, [ok |-> TRUE, calls |-> asm.calls, shown |-> {}],
                         delta.parts)
      text   == asm.text \/ delta.content
      ends   == native # "none"
      finish == FinishReason(native, text, parts.calls)
      silent == ~ends /\ ~delta.role /\ ~delta.content /\ delta.parts = <<>>
      refused == \/ asm.terminal
                 \/ ~parts.ok
                 \/ ends /\ ~ValidOutcome(request.choice, text, parts.calls, finish)
  IN IF refused THEN Refusal
     ELSE IF silent THEN [verdict |-> "nothing"]
     ELSE [verdict |-> "chunk",
           chunk   |-> [kind   |-> IF ends THEN "finish" ELSE "delta",
                        reason |-> IF ends THEN finish ELSE "none",
                        shown  |-> parts.shown],
           asm     |-> [asm EXCEPT !.calls = parts.calls, !.started = TRUE,
                                   !.text = text, !.terminal = ends]]

\* usage_chunk gives a chunk, on a stream that has finished.
Counts(asm, request) == request.usage /\ ~asm.counted
============================================================================
