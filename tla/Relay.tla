------------------------------- MODULE Relay -------------------------------
(***************************************************************************)
(* A stream on its whole way: what the iterator gives goes through the     *)
(* gate of the delivery to the client (write_sse_stream, server.rs).  The  *)
(* iterator is an adapter's, of which CanonicalStream is the promise, or   *)
(* that of a custom provider, against which the gate is there.             *)
(***************************************************************************)
EXTENDS Delivery

VARIABLES
  adapted,   \* the provider is one of the gateway's own
  given      \* the last item that its iterator gave

relayVars == <<vars, adapted, given>>

Stream == INSTANCE CanonicalStream WITH wanted <- includeUsage

\* dispatch_stream_route has pulled the first chunk.
RelayInit ==
  /\ Init
  /\ adapted \in BOOLEAN
  /\ given = item

\* next, on what an adapter has: an event that is no chunk, or the next item.
Pull ==
  /\ ReadEvent
  /\ IF adapted /\ item' # Quiet THEN Stream!Give(item') ELSE UNCHANGED given
  /\ UNCHANGED adapted

Rest == Tick \/ Disconnect \/ Looks \/ Writes \/ Match \/ ReadOn \/ NextReturns

RelayNext == Pull \/ (Rest /\ UNCHANGED <<adapted, given>>)

RelaySpec == RelayInit /\ [][RelayNext]_relayVars

\* The worker runs (a blocked write times out), time passes, every read of the upstream
\* comes back with something, and, which is an assumption about the upstream, not
\* always with a keepalive.
ChattySpec ==
  /\ RelaySpec
  /\ WF_relayVars((Looks \/ Writes \/ Match) /\ UNCHANGED <<adapted, given>>)
  /\ WF_relayVars(Tick /\ UNCHANGED <<adapted, given>>)
  /\ WF_relayVars(Pull \/ ((ReadOn \/ NextReturns) /\ UNCHANGED <<adapted, given>>))
  /\ SF_relayVars(Pull /\ item' # Quiet)

\* The types of Delivery, and of what is added here.
RelayTypeOK == TypeOK /\ adapted \in BOOLEAN /\ given \in DOMAIN Stream!Follows

(***************************************************************************)
(* The gate is no obstacle: of what an adapter gives it refuses only the   *)
(* errors.  What the adapters promise and what the gate wants, each with   *)
(* its own books of the finish and of the usage, fit together              *)
(* (StreamSuccessState::accept against StreamAssembler).                   *)
(***************************************************************************)
GateOpen ==
  adapted /\ pc = "match" /\ item # "error" =>
    IF item = "end" THEN terminal ELSE Accepts(item)
============================================================================
