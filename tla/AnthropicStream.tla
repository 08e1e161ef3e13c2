--------------------------- MODULE AnthropicStream ---------------------------
(***************************************************************************)
(* wrap_anthropic_stream and wrap_anthropic_stream_sync: an event opens a  *)
(* content block, brings a fragment of its arguments or closes it, and the *)
(* closing event is the one that is held.                                  *)
(***************************************************************************)
EXTENDS Stream

Block(i) == <<i, 0>>
Receiving == Running("anthropic") /\ pc = "upstream"

\* The block is no longer assembled: its buffer goes, its stop will be passed.
Ignore(i) ==
    /\ bufs' = [bufs EXCEPT ![Block(i)] = NoBuf]
    /\ ignored' = ignored \cup {i}

\* A start with an id and a name, for an index without an open buffer.
OpenBlock(i) ==
    /\ Receiving
    /\ Begins(Block(i), 0)
    /\ Block(i) \notin Open /\ Cardinality(Open) < MaxBuffers
    /\ bufs' = [bufs EXCEPT ![Block(i)] = [args |-> 0, known |-> TRUE]]
    /\ Goto("yield")
    /\ UNCHANGED <<kind, ignored, chunk, batch, held, decided, reported>>

\* Mutant: a start for an index that is open goes on with the old buffer.
RejectBlockKeeping(i) ==
    /\ Receiving
    /\ Begins(Block(i), 0)
    /\ Block(i) \in Open \/ Cardinality(Open) >= MaxBuffers
    /\ Goto("yield")
    /\ UNCHANGED <<kind, buffers, chunk, batch, held, decided, reported>>

\* A start for an index that is open already, or one buffer too many.
RejectBlock(i) ==
    /\ Receiving
    /\ Begins(Block(i), 0)
    /\ Block(i) \in Open \/ Cardinality(Open) >= MaxBuffers
    /\ Ignore(i)
    /\ ShapeError({i}, "yield")
    /\ UNCHANGED <<kind, chunk, batch, held, decided>>

\* A start without a valid id or name.  A buffer that is open at its index
\* stays open.
MalformedBlock(i) ==
    /\ Receiving
    /\ Begins(Block(i), 0)
    /\ ignored' = ignored \cup {i}
    /\ ShapeError({i}, "yield")
    /\ UNCHANGED <<kind, bufs, chunk, batch, held, decided>>

\* A start whose index is not an integer: it belongs to no block.
UnplacedBlock ==
    /\ Receiving
    /\ ShapeError({}, "yield")
    /\ UNCHANGED <<kind, buffers, chunk, batch, sent, held, decided>>

\* A fragment of the arguments.  The application gets it in any case and adds
\* it to the block, if there is one.
Fragment(i) ==
    /\ Receiving
    /\ sent[Block(i)] < MaxFragments
    /\ sent' = IF Block(i) \in Begun THEN [sent EXCEPT ![Block(i)] = @ + 1] ELSE sent

\* Mutant: only the limit of one call is enforced.
AppendUnbounded(i) ==
    /\ Fragment(i)
    /\ Block(i) \in Open /\ bufs[Block(i)].args < ArgLimit
    /\ bufs' = [bufs EXCEPT ![Block(i)].args = @ + 1]
    /\ Goto("yield")
    /\ UNCHANGED <<kind, ignored, chunk, batch, held, decided, reported>>

AppendFragment(i) ==
    /\ Fragment(i)
    /\ Block(i) \in Open /\ FitsIn(Block(i))
    /\ bufs' = [bufs EXCEPT ![Block(i)].args = @ + 1]
    /\ Goto("yield")
    /\ UNCHANGED <<kind, ignored, chunk, batch, held, decided, reported>>

RejectFragment(i) ==
    /\ Fragment(i)
    /\ Block(i) \in Open /\ ~FitsIn(Block(i))
    /\ Ignore(i)
    /\ ShapeError({i}, "yield")
    /\ UNCHANGED <<kind, chunk, batch, held, decided>>

\* Without a buffer a delta is passed on, as all events of other kinds are.
PassFragment(i) ==
    /\ Fragment(i)
    /\ Block(i) \notin Open
    /\ Goto("yield")
    /\ UNCHANGED <<kind, buffers, chunk, batch, held, decided, reported>>

\* The closing event completes the block for the application, if it is a tool
\* call.
Closes(i) ==
    /\ Receiving
    /\ held' = Completed({Block(i)}, "tool_calls")
    /\ sent' = [sent EXCEPT ![Block(i)] = NoCall]

CloseIgnored(i) ==
    /\ Closes(i)
    /\ i \in ignored
    /\ ignored' = ignored \ {i}
    /\ Goto("yield")
    /\ UNCHANGED <<kind, bufs, chunk, batch, decided, reported>>

\* Arguments that are no JSON.
CloseUnreadable(i) ==
    /\ Closes(i)
    /\ i \notin ignored /\ bufs[Block(i)].args > 0
    /\ bufs' = [bufs EXCEPT ![Block(i)] = NoBuf]
    /\ ShapeError({i}, "yield")
    /\ UNCHANGED <<kind, ignored, chunk, batch, decided>>

CloseBlock(i) ==
    /\ Closes(i)
    /\ i \notin ignored /\ Block(i) \in Open
    /\ batch' = CallsIn({Block(i)})
    /\ bufs' = [bufs EXCEPT ![Block(i)] = NoBuf]
    /\ Goto("decide")
    /\ UNCHANGED <<kind, ignored, chunk, decided, reported>>

\* The stop of a text block passes.
CloseUnknown(i) ==
    /\ Closes(i)
    /\ i \notin ignored /\ Block(i) \notin Open
    /\ Goto("yield")
    /\ UNCHANGED <<kind, buffers, chunk, batch, decided, reported>>

AnthropicNext ==
    \/ UnplacedBlock
    \/ \E i \in Groups :
          \/ OpenBlock(i) \/ RejectBlock(i) \/ MalformedBlock(i)
          \/ AppendFragment(i) \/ RejectFragment(i) \/ PassFragment(i)
          \/ CloseIgnored(i) \/ CloseUnreadable(i) \/ CloseBlock(i) \/ CloseUnknown(i)
=============================================================================
