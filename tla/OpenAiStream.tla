--------------------------- MODULE OpenAiStream ---------------------------
(***************************************************************************)
(* OpenAiSseDecoder (openai_compatible.rs): the stream of OpenAI, Mistral  *)
(* and DeepSeek.  Its own field is the usage that an event without choices *)
(* reported, kept until [DONE].                                            *)
(***************************************************************************)
EXTENDS SseDecoder

OpenAiInit == DecoderInit("openai", [usage |-> FALSE])

OpenAiReads(what) == provider = "openai" /\ Reads(what)

\* One choice carries one part of a call at most, and no more with it: what a
\* choice carries acts on the assembler as the same in several choices does.
OpenAiParts ==
  [index : 0 .. MaxCalls, id : {NoId, EmptyId} \cup NativeIds,
   name : {<<>>} \cup {<<letter>> : letter \in Letters}, args : {""}]

OpenAiDeltas ==
  [role : BOOLEAN, content : BOOLEAN, parts : {<<>>}]
    \cup [role : {FALSE}, content : {FALSE}, parts : {<<part>> : part \in OpenAiParts}]

OpenAiEndings == {"stop", "length", "tool_calls", "content_filter", "overloaded",
                  "unknown", "none"}

\* A choice that is not the first, or that comes after [DONE], is refused.
ReadChoice ==
  /\ OpenAiReads("plain")
  /\ \/ Fail
     \/ /\ ~done
        /\ \E delta \in OpenAiDeltas, ending \in OpenAiEndings :
             /\ delta.parts # <<>> => ending = "none"
             /\ Push(delta, ending, native, FALSE)

\* No choice but a usage; one that cannot be read takes back an earlier one.
ReadUsage ==
  /\ OpenAiReads("plain")
  /\ IF done THEN Fail
     ELSE /\ \E valid \in BOOLEAN : native' = [usage |-> valid]
          /\ Quiet
          /\ UNCHANGED done

ReadDone ==
  /\ OpenAiReads("plain")
  /\ IF done \/ ~asm.terminal THEN Fail
     ELSE /\ done' = TRUE
          /\ native' = [usage |-> FALSE]
          /\ UNCHANGED exhausted
          /\ IF native.usage /\ Counts(asm, request) THEN GiveUsage
             ELSE UNCHANGED <<asm, given, reason, shown>>

OpenAiSourceEnds == provider = "openai" /\ SourceEnds

OpenAiNext == ReadChoice \/ ReadUsage \/ ReadDone \/ OpenAiSourceEnds
============================================================================
