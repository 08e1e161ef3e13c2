------------------------------- MODULE Stream -------------------------------
(***************************************************************************)
(* What the streaming wrappers of stream.py have in common.  A wrapper     *)
(* iterates over the provider's events, buffers the fragments of every     *)
(* tool call, gives each event to the application, and holds the event     *)
(* that completes a call back until the call was inspected.  The           *)
(* application assembles calls from the very events it is given.           *)
(*                                                                         *)
(* A buffer lives in a slot: content block i of an Anthropic stream in     *)
(* slot <<i, 0>>, tool k of choice c of an OpenAI stream in slot <<c, k>>. *)
(* Fragments of arguments have unit size, and a call is its slot together  *)
(* with how much of its arguments was sent.  What was inspected is         *)
(* remembered until the application asks for the next event, which starts  *)
(* the calls of a slot afresh; streams of any length are explored.         *)
(***************************************************************************)
EXTENDS Integers, FiniteSets, Sequences

CONSTANTS
    Groups,         \* indices of content blocks, or of choices
    Tools,          \* indices of the tool calls of a choice
    MaxBuffers,     \* MAX_STREAM_BUFFERS
    ArgLimit,       \* MAX_TOOL_ARGUMENT_BYTES, in fragments
    BatchLimit,     \* MAX_BATCH_REQUEST_BYTES, in fragments
    MaxCalls,       \* bound: calls the provider has begun and not completed
    MaxFragments    \* bound: fragments of one call

\* A call may have at least one fragment, and its bound does not keep it from
\* reaching the limit.
ASSUME StreamAssumption ==
    /\ 0 \in Tools
    /\ {MaxBuffers, BatchLimit, MaxCalls, MaxFragments} \subseteq Nat
    /\ ArgLimit \in 1 .. MaxFragments

Modes == {"enforce", "observe"}
Providers == {"anthropic", "openai"}
Slots == Groups \X Tools

\* Where the generator is while it lives, and how it ended: at the end of the
\* provider's stream, by an exception of its own, of the provider's or of a
\* callback, or because the application stopped iterating or was cancelled.
Points == {"upstream", "chunk", "inspect", "decide", "yield"}
Ends == {"ended", "transport_error", "refused", "client_error", "hook_error",
         "upstream_error", "abandoned"}

VARIABLES
    mode,        \* opts.mode
    provider,    \* which wrapper create_wrapped chose
    pc,          \* where the generator is, or how it ended
    bufs,        \* open tool-call buffers
    ignored,     \* blocks or choices that are no longer assembled
    toInspect,   \* choices the chunk finishes with tool_calls, in order
    otherwise,   \* choices the chunk finishes with another finish_reason
    batch,       \* the calls of the decision under way
    sent,        \* (history) the open calls as the application assembles them
    held,        \* (history) the calls that the event in hand completes
    submitted,   \* (history) those calls that were submitted to the gateway
    approved,    \* (history) those calls that the gateway allowed
    reported     \* (history) groups with an error given to on_policy_error

kind == <<mode, provider>>
buffers == <<bufs, ignored>>
chunk == <<toInspect, otherwise>>
decided == <<submitted, approved>>
vars == <<kind, pc, buffers, chunk, batch, sent, held, decided, reported>>

\* The content of a slot: fragments so far, -1 for a slot that is free; and
\* whether a buffer has the call's id and name.
NoCall == -1
NoBuf == [args |-> NoCall, known |-> FALSE]

\* A call as the gateway or the application gets it.
Call == [slot: Slots, args: 0 .. MaxFragments]

Enforced == mode = "enforce"
Running(p) == provider = p /\ pc \notin Ends
Begun == {s \in Slots : sent[s] # NoCall}
Open == {s \in Slots : bufs[s] # NoBuf}
OpenIn(g) == {s \in Open : s[1] = g}
CallsIn(ss) == {[slot |-> s, args |-> bufs[s].args] : s \in ss}

\* The fragments buffered in all slots together.
Buffered == {f \in Slots \X (1 .. MaxFragments) : f[2] <= bufs[f[1]].args}

\* _append_args: both limits are checked before anything is appended.
FitsIn(s) == bufs[s].args < ArgLimit /\ Cardinality(Buffered) < BatchLimit

-----------------------------------------------------------------------------
Init ==
    /\ mode \in Modes
    /\ provider \in Providers
    /\ pc = "upstream"
    /\ bufs = [s \in Slots |-> NoBuf]
    /\ ignored = {}
    /\ toInspect = <<>> /\ otherwise = {}
    /\ batch = {}
    /\ sent = [s \in Slots |-> NoCall]
    /\ held = {}
    /\ submitted = {} /\ approved = {}
    /\ reported = {}

Goto(point) == pc' = point

\* A ClavenarTransportError about groups gs: raised in enforce mode, given to
\* on_policy_error in observe mode, which may raise in turn.
ShapeError(gs, point) ==
    IF Enforced
    THEN Goto("transport_error") /\ UNCHANGED reported
    ELSE reported' = reported \cup gs /\ (Goto(point) \/ Goto("hook_error"))

\* The provider begins a call in slot s; the application starts to assemble it.
Begins(s, n) ==
    /\ Cardinality(Begun \cup {s}) <= MaxCalls
    /\ sent' = [sent EXCEPT ![s] = n]

\* The calls in slots ss are complete with the event in hand, and for what
\* reason the application takes them to be.
Completed(ss, reason) ==
    {[slot |-> s, args |-> sent[s], reason |-> reason] : s \in ss \cap Begun}

-----------------------------------------------------------------------------
(* inspect_tool_use(s), on_verdict and the refusal.                        *)

Submit == submitted' = submitted \cup batch /\ batch' = {}

Allowed ==
    /\ pc = "decide"
    /\ Submit
    /\ approved' = approved \cup batch
    /\ Goto("inspect") \/ Goto("hook_error")
    /\ UNCHANGED <<kind, buffers, chunk, sent, held, reported>>

\* Mutant: a review that is pending does not refuse the call.
RefusedUnlessDenied ==
    /\ pc = "decide"
    /\ Submit
    /\ Goto("inspect") \/ Goto("hook_error")
    /\ UNCHANGED <<kind, buffers, chunk, sent, held, approved, reported>>

\* on_verdict may raise first; observe mode goes on whatever the verdict is.
Refused ==
    /\ pc = "decide"
    /\ Submit
    /\ Goto(IF Enforced THEN "refused" ELSE "inspect") \/ Goto("hook_error")
    /\ UNCHANGED <<kind, buffers, chunk, sent, held, approved, reported>>

\* The batch is rejected before it is sent, or all attempts fail, some of
\* which may have reached the gateway.
InspectionFails ==
    /\ pc = "decide"
    /\ Submit \/ (batch' = {} /\ UNCHANGED submitted)
    /\ ShapeError({b.slot[1] : b \in batch}, "inspect")
    /\ UNCHANGED <<kind, buffers, chunk, sent, held, approved>>

\* The token provider or the transport profile fails: no ClavenarTransportError,
\* and not caught in either mode.
ClientUnusable ==
    /\ pc = "decide"
    /\ batch' = {}
    /\ Goto("client_error")
    /\ UNCHANGED <<kind, buffers, chunk, sent, held, decided, reported>>

-----------------------------------------------------------------------------
(* The event in hand, and the ends of the generator.                       *)

\* Nothing is left to inspect: the application is given the event.
Yield ==
    /\ pc = "inspect" /\ toInspect = <<>>
    /\ Goto("yield")
    /\ UNCHANGED <<kind, buffers, chunk, batch, sent, held, decided, reported>>

\* The application asks for the next event.
Resume ==
    /\ pc = "yield"
    /\ held' = {} /\ submitted' = {} /\ approved' = {}
    /\ Goto("upstream")
    /\ UNCHANGED <<kind, buffers, chunk, batch, sent, reported>>

\* Mutant: buffers left open are dropped when the provider's stream ends.
UpstreamEndsUnchecked ==
    /\ pc = "upstream"
    /\ Goto("ended")
    /\ UNCHANGED <<kind, buffers, chunk, batch, sent, held, decided, reported>>

UpstreamEnds ==
    /\ pc = "upstream"
    /\ IF Open = {}
       THEN Goto("ended") /\ UNCHANGED reported
       ELSE ShapeError({s[1] : s \in Open}, "ended")
    /\ UNCHANGED <<kind, buffers, chunk, batch, sent, held, decided>>

\* The generator is gone with its local variables.
Discard ==
    /\ bufs' = [s \in Slots |-> NoBuf] /\ sent' = [s \in Slots |-> NoCall]
    /\ ignored' = {} /\ otherwise' = {} /\ held' = {} /\ batch' = {}
    /\ toInspect' = <<>>

UpstreamRaises ==
    /\ pc = "upstream"
    /\ Goto("upstream_error")
    /\ Discard
    /\ UNCHANGED <<kind, decided, reported>>

\* Closed by the application at a yield, or cancelled while it waits for the
\* provider, for the gateway (which may have got the batch) or for a callback.
Abandon ==
    /\ pc \notin Ends
    /\ Goto("abandoned")
    /\ Discard
    /\ submitted' \in {submitted, submitted \cup batch}
    /\ UNCHANGED <<kind, approved, reported>>

Shared ==
    \/ Allowed \/ Refused \/ InspectionFails \/ ClientUnusable
    \/ Yield \/ Resume \/ UpstreamEnds \/ UpstreamRaises \/ Abandon

-----------------------------------------------------------------------------
\* Types; and a decision is taken on at least one call.
TypeOK ==
    /\ mode \in Modes /\ provider \in Providers
    /\ pc \in Points \cup Ends
    /\ bufs \in [Slots -> [args: {NoCall} \cup 0 .. MaxFragments, known: BOOLEAN]]
    /\ ignored \subseteq Groups
    /\ toInspect \in Seq(Groups) /\ otherwise \subseteq Groups
    /\ batch \cup submitted \cup approved \subseteq Call
    /\ sent \in [Slots -> {NoCall} \cup 0 .. MaxFragments]
    /\ held \subseteq [slot: Slots, args: 0 .. MaxFragments, reason: {"tool_calls", "other"}]
    /\ reported \subseteq Groups
    /\ pc = "decide" <=> batch # {}
=============================================================================
