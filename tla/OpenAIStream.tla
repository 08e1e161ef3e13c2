---------------------------- MODULE OpenAIStream ----------------------------
(***************************************************************************)
(* wrap_openai_chat_stream and wrap_openai_chat_stream_sync: a chunk has   *)
(* entries for several choices, each of which brings fragments of tool     *)
(* calls, finishes its choice, or both.  All entries are read before the   *)
(* finished choices are inspected, one batch for each choice, and the      *)
(* chunk is held until the last of them was.                               *)
(***************************************************************************)
EXTENDS Stream

CONSTANT MaxFinishes   \* bound: entries of one chunk that finish a choice

ASSUME OpenAIAssumption == MaxFinishes \in Nat

Reading == Running("openai") /\ pc = "chunk"
Draining == Running("openai") /\ pc = "inspect"
Finished == {toInspect[n] : n \in DOMAIN toInspect}

WithoutChoice(c) == [s \in Slots |-> IF s[1] = c THEN NoBuf ELSE bufs[s]]

TakeChunk ==
    /\ Running("openai") /\ pc = "upstream"
    /\ Goto("chunk")
    /\ UNCHANGED <<kind, buffers, chunk, batch, sent, held, decided, reported>>

\* A chunk whose choices are no list, or an entry without a valid index: it
\* belongs to no choice.
MalformedChunk ==
    /\ Running("openai") /\ pc \in {"upstream", "chunk"}
    /\ ShapeError({}, IF pc = "upstream" THEN "yield" ELSE "chunk")
    /\ UNCHANGED <<kind, buffers, chunk, batch, sent, held, decided>>

\* A delta for tool k of choice c either names the call or has a fragment of
\* its arguments; one that does both is two of them.
Size(d) == IF d = "fragment" THEN 1 ELSE 0

Delta(c, k, d) ==
    /\ Reading
    /\ LET s == <<c, k>> IN
       IF s \in Begun
       THEN sent[s] + Size(d) <= MaxFragments /\ sent' = [sent EXCEPT ![s] = @ + Size(d)]
       ELSE Begins(s, Size(d))

\* Whether the delta has a buffer, or can be given one, and its fragment fits.
Accepted(s, d) ==
    /\ s \in Open \/ Cardinality(Open) < MaxBuffers
    /\ d = "fragment" => FitsIn(s)

AccumulateDelta(c, k, d) ==
    /\ Delta(c, k, d)
    /\ c \notin ignored /\ Accepted(<<c, k>>, d)
    /\ bufs' = [bufs EXCEPT ![<<c, k>>] =
          [args |-> (IF @ = NoBuf THEN 0 ELSE @.args) + Size(d),
           known |-> @.known \/ d = "name"]]
    /\ UNCHANGED <<kind, pc, ignored, chunk, batch, held, decided, reported>>

RejectDelta(c, k, d) ==
    /\ Delta(c, k, d)
    /\ c \notin ignored /\ ~Accepted(<<c, k>>, d)
    /\ bufs' = WithoutChoice(c)
    /\ ignored' = ignored \cup {c}
    /\ ShapeError({c}, "chunk")
    /\ UNCHANGED <<kind, chunk, batch, held, decided>>

SkipDelta(c, k, d) ==
    /\ Delta(c, k, d)
    /\ c \in ignored
    /\ UNCHANGED <<kind, pc, buffers, chunk, batch, held, decided, reported>>

\* A delta without a valid tool index.
MalformedDelta(c) ==
    /\ Reading
    /\ c \notin ignored
    /\ bufs' = WithoutChoice(c)
    /\ ignored' = ignored \cup {c}
    /\ ShapeError({c}, "chunk")
    /\ UNCHANGED <<kind, chunk, batch, sent, held, decided>>

FinishChoice(c) ==
    /\ Reading
    /\ Len(toInspect) < MaxFinishes
    /\ toInspect' = Append(toInspect, c)
    /\ UNCHANGED <<kind, pc, buffers, otherwise, batch, sent, held, decided, reported>>

\* Any other finish_reason: the choice is not inspected, and what follows
\* continues its calls.
FinishOtherwise(c) ==
    /\ Reading
    /\ c \notin otherwise
    /\ otherwise' = otherwise \cup {c}
    /\ UNCHANGED <<kind, pc, buffers, toInspect, batch, sent, held, decided, reported>>

\* With its last entry the chunk completes the calls of all its choices.
EndChunk ==
    /\ Reading
    /\ LET In(cs) == {s \in Slots : s[1] \in cs} IN
       held' = Completed(In(Finished), "tool_calls") \cup Completed(In(otherwise \ Finished), "other")
    /\ sent' = [s \in Slots |-> IF s[1] \in Finished THEN NoCall ELSE sent[s]]
    /\ otherwise' = {}
    /\ Goto("inspect")
    /\ UNCHANGED <<kind, buffers, toInspect, batch, decided, reported>>

-----------------------------------------------------------------------------
(* The choices to inspect, in the order of the chunk.                      *)

NextChoice(c) ==
    /\ Draining
    /\ toInspect # <<>> /\ c = Head(toInspect)
    /\ toInspect' = Tail(toInspect)

DrainIgnored(c) ==
    /\ NextChoice(c)
    /\ c \in ignored
    /\ ignored' = ignored \ {c}
    /\ UNCHANGED <<kind, pc, bufs, otherwise, batch, sent, held, decided, reported>>

\* No buffer, one without id or name, or arguments that are no JSON: the whole
\* choice is dropped.
DrainUnreadable(c) ==
    /\ NextChoice(c)
    /\ c \notin ignored
    /\ OpenIn(c) = {} \/ \E s \in OpenIn(c) : ~bufs[s].known \/ bufs[s].args > 0
    /\ bufs' = WithoutChoice(c)
    /\ ShapeError({c}, "inspect")
    /\ UNCHANGED <<kind, ignored, otherwise, batch, sent, held, decided>>

\* Mutant: a choice that was finished without tool calls is inspected.
DrainChoiceEmpty(c) ==
    /\ NextChoice(c)
    /\ c \notin ignored
    /\ \A s \in OpenIn(c) : bufs[s].known
    /\ batch' = CallsIn(OpenIn(c))
    /\ bufs' = WithoutChoice(c)
    /\ Goto("decide")
    /\ UNCHANGED <<kind, ignored, otherwise, sent, held, decided, reported>>

\* Mutant: calls without id or name are left out of the batch.
DrainChoicePartly(c) ==
    /\ NextChoice(c)
    /\ c \notin ignored
    /\ \E s \in OpenIn(c) : bufs[s].known
    /\ batch' = CallsIn({s \in OpenIn(c) : bufs[s].known})
    /\ bufs' = WithoutChoice(c)
    /\ Goto("decide")
    /\ UNCHANGED <<kind, ignored, otherwise, sent, held, decided, reported>>

DrainChoice(c) ==
    /\ NextChoice(c)
    /\ c \notin ignored
    /\ OpenIn(c) # {} /\ \A s \in OpenIn(c) : bufs[s].known
    /\ batch' = CallsIn(OpenIn(c))
    /\ bufs' = WithoutChoice(c)
    /\ Goto("decide")
    /\ UNCHANGED <<kind, ignored, otherwise, sent, held, decided, reported>>

OpenAINext ==
    \/ TakeChunk \/ MalformedChunk \/ EndChunk
    \/ \E c \in Groups :
          \/ MalformedDelta(c) \/ FinishChoice(c) \/ FinishOtherwise(c)
          \/ DrainIgnored(c) \/ DrainUnreadable(c) \/ DrainChoice(c)
          \/ \E k \in Tools, d \in {"name", "fragment"} :
                AccumulateDelta(c, k, d) \/ RejectDelta(c, k, d) \/ SkipDelta(c, k, d)
=============================================================================
