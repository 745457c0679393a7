---------------------------- MODULE SseDecoder ----------------------------
(***************************************************************************)
(* What the three SSE decoders (openai_compatible.rs, anthropic.rs,        *)
(* gemini.rs) have in common: the loop of next and next_event around a     *)
(* StreamAssembler.  Every action below is one turn of that loop: an event *)
(* is read to its end and dispatched, or the source fails or ends.         *)
(*                                                                         *)
(* A dispatch leaves at most one chunk in `pending`, and next returns it   *)
(* before anything else is read; the queue is empty between two turns and  *)
(* is left out.  The lines and their limits are left out too: an event     *)
(* that is too long, or is no JSON of the shape the adapter wants, is      *)
(* "malformed", and the source may end within an event.                    *)
(***************************************************************************)
EXTENDS Assembler

CONSTANTS
  Letters,     \* what names are made of
  NativeIds,   \* the call ids that a provider sends
  MaxCalls,    \* bound of the model: calls in one answer
  MaxName      \* bound of the model: letters in a name

ASSUME SseDecoderAssumption ==
  /\ Tools \cup {Undeclared} \subseteq Seq(Letters)
  /\ NativeIds \subseteq Ids
  /\ MaxCalls \in Nat
  /\ MaxName \in Nat

VARIABLES
  provider,    \* which of the decoders runs
  request,     \* the client's request, as far as the decoder looks at it
  asm,         \* assembler: StreamAssembler
  native,      \* the fields of the provider's own decoder
  done,        \* the provider's own end of the answer has come
  exhausted,
  event,       \* history: whether the last turn read an event of note
  given,       \* history: the last item that next returned
  reason,      \* history: the finish_reason that went out
  shown        \* history: <<index, id>> of every call as the chunks showed it

vars == <<provider, request, asm, native, done, exhausted, event, given, reason, shown>>

Providers == {"openai", "anthropic", "gemini"}
Items == {"nothing", "delta", "finish", "usage", "error", "end"}

\* insert of a decoder's map.
Inserted(map, key, value) ==
  [k \in DOMAIN map \cup {key} |-> IF k = key THEN value ELSE map[k]]

DecoderInit(which, fields) ==
  /\ provider = which
  /\ request \in Requests
  /\ asm = NewAssembler
  /\ native = fields
  /\ done = FALSE
  /\ exhausted = FALSE
  /\ event = "plain"
  /\ given = "nothing"
  /\ reason = "none"
  /\ shown = {}

\* The events that a property is about, and the others.
Events == {"plain", "ping", "policy_block"}

\* A turn of the loop that reads.
Reads(what) ==
  /\ ~exhausted
  /\ event' = what
  /\ UNCHANGED <<provider, request>>

\* Nothing to return yet: the loop goes on.
Quiet == UNCHANGED <<asm, exhausted, given, reason, shown>>

\* next returns the error, and nothing but the end follows it.
Fail ==
  /\ exhausted' = TRUE
  /\ given' = "error"
  /\ UNCHANGED <<asm, native, done, reason, shown>>

WithinBounds(calls) ==
  /\ Len(calls) <= MaxCalls
  /\ \A i \in DOMAIN calls : Len(calls[i].name) <= MaxName

\* A choice is pushed, the decoder's own fields having changed already.
Push(delta, ending, fields, ends) ==
  LET pushed == Pushed(asm, request, delta, ending)
  IN \/ /\ pushed.verdict = "error"
        /\ Fail
     \/ /\ pushed.verdict = "nothing"
        /\ native' = fields
        /\ done' = ends
        /\ Quiet
     \/ /\ pushed.verdict = "chunk"
        /\ WithinBounds(pushed.asm.calls)
        /\ asm' = pushed.asm
        /\ native' = fields
        /\ done' = ends
        /\ given' = pushed.chunk.kind
        /\ reason' = pushed.chunk.reason
        /\ shown' = shown \cup pushed.chunk.shown
        /\ UNCHANGED exhausted

\* normalize_usage: both counts of tokens are there, and their sum, which the
\* model does not have, fits into 64 bits.
Normalized(prompt, completion) == {fits /\ prompt /\ completion : fits \in BOOLEAN}

\* usage_chunk is called with normalized counts.
GiveUsage ==
  /\ asm' = [asm EXCEPT !.counted = TRUE]
  /\ given' = "usage"
  /\ UNCHANGED <<reason, shown>>

----------------------------------------------------------------------------
(* The turns that do not depend on the provider.                           *)

\* A comment, or a frame with no data.
ReadComment ==
  /\ Reads("plain")
  /\ Quiet
  /\ UNCHANGED <<native, done>>

\* A malformed event, a source that fails, or one that ends within an event or
\* before the answer did.
BreakOff == Reads("plain") /\ Fail

\* The source ends after the answer did.
SourceEnds ==
  /\ Reads("plain")
  /\ done
  /\ exhausted' = TRUE
  /\ given' = "end"
  /\ UNCHANGED <<asm, native, done, reason, shown>>

\* next is called again after the last item.
ReturnNone ==
  /\ exhausted
  /\ given' = "end"
  /\ event' = "plain"
  /\ UNCHANGED <<provider, request, asm, native, done, exhausted, reason, shown>>
============================================================================
