----------------------------- MODULE StreamGates -----------------------------
(***************************************************************************)
(* A streamed answer passes through the wrapper of its provider.  What the *)
(* two wrappers, which assemble and hold calls differently, promise alike. *)
(***************************************************************************)
EXTENDS AnthropicStream, OpenAIStream

Next ==
    \/ Shared
    \/ AnthropicNext
    \/ OpenAINext

Spec == Init /\ [][Next]_vars

-----------------------------------------------------------------------------
(* Properties.                                                             *)

\* The application has been given an event; the calls it completes, by
\* content_block_stop or by finish_reason "tool_calls", are actionable.
Closed(reason) ==
    {[slot |-> h.slot, args |-> h.args] : h \in {g \in held : pc = "yield" /\ g.reason = reason}}
Actionable == Closed("tool_calls")

\* In enforce mode every call the application has assembled from the events it
\* was given, up to and including the closing one, was allowed by the gateway
\* with exactly these arguments: nothing was inspected that was not shown, and
\* nothing shown that was not inspected (stream.py:12-16).
ClosedOnlyIfAllowed == Enforced => Actionable \subseteq approved

\* A stream that ends without an exception in enforce mode leaves the
\* application with no call that it has seen begin and not seen closed.
CleanEnd == Enforced /\ pc = "ended" => Begun = {}

\* Observe mode misses no call silently: one that was completed and not
\* submitted as the application got it is in a block or choice for which
\* on_policy_error was given an error before the closing event was passed on.
\* An error counts for its block as long as the stream lasts: the property does
\* not ask for a second one if the provider uses an index again.
NothingSilent ==
    ~Enforced => \A a \in Actionable : a \in submitted \/ a.slot[1] \in reported

\* However the provider opens and abandons blocks, buffers stay within their
\* three limits in both modes (stream.py:47, 409, 465-471).
BuffersBounded ==
    /\ Cardinality(Open) <= MaxBuffers
    /\ Cardinality(Buffered) <= BatchLimit
    /\ \A s \in Slots : bufs[s].args <= ArgLimit

\* The stream is a gate: calls are granted by the gateway, released by the
\* closing event, and a stream that has ended or raised releases nothing.
Gate == INSTANCE HeldGate WITH
    AllCalls <- Call,
    enforced <- Enforced,
    granted <- approved,
    released <- Actionable,
    stopped <- pc \in Ends

ImplementsGate == Gate!Spec

\* wrap.py:1-2: "so every tool call is inspected by clavenar before the caller
\* sees it", here of the calls with id and name in a choice that has finished
\* for another reason.
EveryCallInspected ==
    Enforced => \A a \in Closed("other") : bufs[a.slot].known => a \in approved
=============================================================================
