--------------------------- MODULE GeminiStream ---------------------------
(***************************************************************************)
(* GeminiSseDecoder (gemini.rs): candidates, each with whole calls in it,  *)
(* and no mark of the end but that of the source.  A call that comes again *)
(* under its native id in a later event continues the earlier one; the     *)
(* same id twice in one event stands for two calls, and for none           *)
(* afterwards.  Usage comes with any event, and in events of its own.      *)
(***************************************************************************)
EXTENDS SseDecoder

GeminiInit ==
  DecoderInit("gemini",
    [calls |-> <<>>, ambiguous |-> {}, nextCall |-> 0,
     prompt |-> FALSE, completion |-> FALSE, invalidUsage |-> FALSE])

GeminiReads(what) == provider = "gemini" /\ Reads(what)

----------------------------------------------------------------------------
(* The parts of a candidate.                                               *)

CallParts == [id : {NoId} \cup NativeIds, name : Tools \cup {Undeclared}]

\* At most two calls: only the ids in one candidate bear on one another, and
\* whatever else it carries acts as a further candidate does.
Contents ==
  [text : BOOLEAN, calls : {<<>>}]
    \cup [text : {FALSE}, calls : {<<a>> : a \in CallParts}
                                    \cup {<<a, b>> : a, b \in CallParts}]

Permitted(name) ==
  /\ name \in Tools
  /\ request.choice # "none"
  /\ request.choice = "named" => name = NamedTool

\* Mutant: the index of the call is given out again.
NewCallUncounted(state, call) ==
  [state EXCEPT !.parts = Append(@, [index |-> state.fields.nextCall, id |-> NoId,
                                     name |-> call.name, args |-> "object"])]

\* new_call: a call without an id, for the assembler to give one.
NewCall(state, call) ==
  [state EXCEPT !.fields.nextCall = @ + 1,
                !.parts = Append(@, [index |-> state.fields.nextCall, id |-> NoId,
                                     name |-> call.name, args |-> "object"])]

\* The first call with this id in this event, and the first of all.
NativeCall(state, call) ==
  [state EXCEPT !.fields.nextCall = @ + 1,
                !.fields.calls = Inserted(@, call.id, [index |-> state.fields.nextCall,
                                                       name  |-> call.name]),
                !.seen = @ \cup {call.id},
                !.parts = Append(@, [index |-> state.fields.nextCall, id |-> call.id,
                                     name |-> call.name, args |-> "object"])]

\* The call came in an earlier event.
MoreOfCall(state, call) ==
  LET existing == state.fields.calls[call.id]
  IN [state EXCEPT !.ok = existing.name = call.name,
                   !.seen = @ \cup {call.id},
                   !.parts = Append(@, [index |-> existing.index, id |-> call.id,
                                        name |-> <<>>, args |-> "object"])]

\* call.
AcceptCall(state, call) ==
  IF ~state.ok \/ ~Permitted(call.name) \/ call.id \in state.fields.ambiguous
    THEN [state EXCEPT !.ok = FALSE]
  ELSE IF call.id = NoId THEN NewCall(state, call)
  ELSE IF call.id \in state.seen
    THEN NewCall([state EXCEPT !.fields.ambiguous = @ \cup {call.id}], call)
  ELSE IF call.id \in DOMAIN state.fields.calls THEN MoreOfCall(state, call)
  ELSE NativeCall(state, call)

Accepted(calls) ==
  FoldLeft(AcceptCall, [ok |-> TRUE, fields |-> native, seen |-> {}, parts |-> <<>>], calls)

----------------------------------------------------------------------------
(* The events.                                                             *)

GeminiEndings == {"stop", "length", "content_filter", "invalid", "unknown", "none"}

\* candidate, with its content.
ReadCandidate ==
  /\ GeminiReads("plain")
  /\ IF done THEN Fail
     ELSE \E content \in Contents, ending \in GeminiEndings :
            LET accepted == Accepted(content.calls)
            IN /\ Len(content.calls) > 1 => ending = "none"
               /\ IF ~accepted.ok THEN Fail
                  ELSE Push([role |-> FALSE, content |-> content.text, parts |-> accepted.parts],
                            ending, accepted.fields, ending # "none")

NoDelta == [role |-> FALSE, content |-> FALSE, parts |-> <<>>]

\* A candidate without content ends the answer only as a block does.
ReadBareCandidate ==
  /\ GeminiReads("plain")
  /\ \E ending \in GeminiEndings :
       IF done \/ ending # "content_filter" THEN Fail
       ELSE Push(NoDelta, ending, native, TRUE)

\* capture_usage: a component that is absent leaves the earlier one.
Captured(prompt, completion, bad) ==
  [native EXCEPT !.prompt = @ \/ prompt,
                 !.completion = @ \/ completion,
                 !.invalidUsage = @ \/ bad]

\* An event with usage and no candidates, before or after the end of the answer.
\* Usage that comes with a candidate acts as such an event just before it.
ReadMetadata(what) ==
  /\ GeminiReads(what)
  /\ \E prompt, completion, bad \in BOOLEAN :
       native' = Captured(prompt, completion, bad)
  /\ UNCHANGED done
  /\ Quiet

\* A policy block with no candidate; with usage it is metadata like any other.
ReadPolicyBlock ==
  \/ /\ GeminiReads("policy_block")
     /\ IF done THEN Fail ELSE Push(NoDelta, "content_filter", native, TRUE)
  \/ ReadMetadata("policy_block")

\* Mutant: an answer that the source cut off is taken for whole.
GeminiSourceEndsAnytime ==
  /\ GeminiReads("plain")
  /\ exhausted' = TRUE
  /\ UNCHANGED <<native, done>>
  /\ \E counts \in Normalized(native.prompt, native.completion) :
       IF counts /\ ~native.invalidUsage /\ Counts(asm, request) THEN GiveUsage
       ELSE given' = "end" /\ UNCHANGED <<asm, reason, shown>>

\* The end of the source after that of the answer, and finish.
GeminiSourceEnds ==
  /\ GeminiReads("plain")
  /\ done
  /\ exhausted' = TRUE
  /\ UNCHANGED <<native, done>>
  /\ \E counts \in Normalized(native.prompt, native.completion) :
       IF counts /\ ~native.invalidUsage /\ Counts(asm, request) THEN GiveUsage
       ELSE given' = "end" /\ UNCHANGED <<asm, reason, shown>>

GeminiNext ==
  \/ ReadCandidate \/ ReadBareCandidate \/ ReadMetadata("plain") \/ ReadPolicyBlock
  \/ GeminiSourceEnds
============================================================================
