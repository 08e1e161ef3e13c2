-------------------------- MODULE StreamGatesProofs --------------------------
(***************************************************************************)
(* Proofs about StreamGates: its type invariant, the limits of the         *)
(* buffers, that nothing is actionable before it was allowed, that a       *)
(* stream ends cleanly or reports, and that it is a gate.                  *)
(*                                                                         *)
(* The wrapper's buffers and the application's own assembly of the calls   *)
(* are two pictures of one stream.  The inductive invariant says that they *)
(* agree in every slot, except where an error was reported and in the      *)
(* choices whose inspection is due, and accounts for every call that the   *)
(* event in hand completes.                                                *)
(***************************************************************************)
EXTENDS StreamGates, FiniteSetTheorems, TLAPS

Live == pc \notin Ends

\* An open buffer has the fragments of its call; a closed one has none.
Filled == \A s \in Slots : bufs[s] = NoBuf \/ bufs[s].args \in 0 .. ArgLimit

\* However large the sets of blocks, choices and tools are, few are buffered.
Bounded ==
    /\ IsFiniteSet(Open) /\ Cardinality(Open) <= MaxBuffers
    /\ IsFiniteSet(Buffered) /\ Cardinality(Buffered) <= BatchLimit

\* Choices are due for inspection, and calls are held, only within a chunk.
Queued ==
    /\ pc \in {"upstream", "yield"} \/ provider = "anthropic" => toInspect = <<>>
    /\ pc \in {"upstream", "chunk"} => held = {}

\* The choices of the chunk whose calls are still to be inspected.
Due == IF pc \in {"inspect", "decide"} THEN Finished ELSE {}

\* What the application has of a call is what the buffer has of it.
Assembled ==
    \A s \in Slots :
        s[1] \in reported \/ sent[s] = IF s[1] \in Due THEN NoCall ELSE bufs[s].args

\* A call that the event in hand completes was submitted, or is about to be,
\* or its group has an error.
Accounted ==
    \A h \in held :
        h.reason = "tool_calls" =>
            \/ [slot |-> h.slot, args |-> h.args] \in submitted \cup batch
            \/ h.slot[1] \in reported
            \/ h.slot[1] \in Due /\ bufs[h.slot].args = h.args

\* Enforce mode reports nothing and goes on only after an allow.
Strict == Enforced => reported = {} /\ (Live => submitted \subseteq approved)

\* What holds of the calls of the stream until the generator is gone.
Tracked == Live => Queued /\ Assembled /\ Accounted /\ ignored \subseteq reported

IInv == TypeOK /\ Filled /\ Bounded /\ Tracked /\ Strict /\ CleanEnd

-----------------------------------------------------------------------------
(* Slots, and what an error leaves behind.                                 *)

LEMMA BlockIsSlot == \A i \in Groups : Block(i) \in Slots /\ Block(i)[1] = i
  BY StreamAssumption DEF Block, Slots

\* An error about groups gs ends the wrapper in enforce mode and is reported
\* in observe mode.
LEMMA ErrorIsSeen ==
    ASSUME NEW gs, NEW point, ShapeError(gs, point)
    PROVE  /\ pc' \in {point, "hook_error", "transport_error"}
           /\ Enforced => pc' = "transport_error" /\ reported' = reported
           /\ ~Enforced => pc' # "transport_error" \/ point = "transport_error"
           /\ ~Enforced => reported' = reported \cup gs
  BY DEF ShapeError, Goto

LEMMA NextOfQueue ==
    ASSUME TypeOK, NEW c \in Groups, NextChoice(c)
    PROVE  /\ toInspect' \in Seq(Groups)
           /\ Finished = {c} \cup Finished'
  <1>1. Len(toInspect) \in Nat \ {0} /\ DOMAIN toInspect = 1 .. Len(toInspect)
    BY DEF TypeOK, NextChoice
  <1>2. toInspect' \in Seq(Groups) /\ DOMAIN toInspect' = 1 .. Len(toInspect) - 1
    BY <1>1 DEF TypeOK, NextChoice
  <1>3. c = toInspect[1] /\ \A n \in 1 .. Len(toInspect) - 1 : toInspect'[n] = toInspect[n + 1]
    BY <1>1 DEF TypeOK, NextChoice
  <1>4. \A n \in 2 .. Len(toInspect) : n - 1 \in DOMAIN toInspect' /\ toInspect'[n - 1] = toInspect[n]
    BY <1>1, <1>2, <1>3
  <1>5. Finished \subseteq {c} \cup Finished'
    <2>1. \A n \in DOMAIN toInspect : n = 1 \/ n \in 2 .. Len(toInspect)
      BY <1>1
    <2> QED
      BY <1>3, <1>4, <2>1 DEF Finished
  <1>6. {c} \cup Finished' \subseteq Finished
    <2>1. \A n \in DOMAIN toInspect' : n + 1 \in DOMAIN toInspect
      BY <1>1, <1>2
    <2> QED
      BY <1>1, <1>2, <1>3, <2>1 DEF Finished
  <1> QED
    BY <1>2, <1>5, <1>6

-----------------------------------------------------------------------------
(* The buffers: a step drops some of them, or gives one of them a name, a  *)
(* fragment, or its first content.                                         *)

Drops == \E ss \in SUBSET Slots : bufs' = [s \in Slots |-> IF s \in ss THEN NoBuf ELSE bufs[s]]

Fills ==
    \E s \in Slots, n \in {0, 1}, known \in BOOLEAN :
        /\ s \in Open \/ Cardinality(Open) < MaxBuffers
        /\ n = 1 => FitsIn(s)
        /\ bufs' = [bufs EXCEPT ![s] =
              [args |-> (IF s \in Open THEN bufs[s].args ELSE 0) + n, known |-> known]]

LEMMA BuffersChange ==
    ASSUME TypeOK, Filled, Next
    PROVE  Drops \/ Fills
  <1>1. CASE bufs' = bufs
    <2>1. PICK none : none = {}
      OBVIOUS
    <2>2. none \in SUBSET Slots /\ bufs' = [s \in Slots |-> IF s \in none THEN NoBuf ELSE bufs[s]]
      BY <1>1, <2>1 DEF TypeOK
    <2> QED
      BY <2>2 DEF Drops
  <1>2. CASE Discard
    <2>1. bufs' = [s \in Slots |-> IF s \in Slots THEN NoBuf ELSE bufs[s]]
      BY <1>2 DEF Discard
    <2> QED
      BY <2>1 DEF Drops
  <1>3. ASSUME NEW c \in Groups, bufs' = WithoutChoice(c)
        PROVE  Drops
    <2>1. bufs' = [s \in Slots |-> IF s \in {r \in Slots : r[1] = c} THEN NoBuf ELSE bufs[s]]
      BY <1>3 DEF WithoutChoice
    <2> QED
      BY <2>1 DEF Drops
  <1>4. ASSUME NEW i \in Groups, bufs' = [bufs EXCEPT ![Block(i)] = NoBuf]
        PROVE  Drops
    <2>1. bufs' = [s \in Slots |-> IF s \in {Block(i)} THEN NoBuf ELSE bufs[s]]
      BY <1>4, BlockIsSlot DEF TypeOK
    <2> QED
      BY <2>1, BlockIsSlot DEF Drops
  <1>5. ASSUME NEW i \in Groups, OpenBlock(i)
        PROVE  Fills
    <2> DEFINE had == IF Block(i) \in Open THEN bufs[Block(i)].args ELSE 0
    <2>1. PICK n \in {0, 1}, known \in BOOLEAN : n = 0 /\ known = TRUE
      OBVIOUS
    <2>2. had + n = 0 /\ Cardinality(Open) < MaxBuffers
      BY <1>5, <2>1 DEF OpenBlock
    <2>3. bufs' = [bufs EXCEPT ![Block(i)] = [args |-> had + n, known |-> known]]
      BY <1>5, <2>1, <2>2 DEF OpenBlock
    <2>4. (Block(i) \in Open \/ Cardinality(Open) < MaxBuffers) /\ (n = 1 => FitsIn(Block(i)))
      BY <2>1, <2>2
    <2> QED
      BY <2>3, <2>4, BlockIsSlot DEF Fills
  <1>6. ASSUME NEW i \in Groups, AppendFragment(i)
        PROVE  Fills
    <2> DEFINE b == bufs[Block(i)]
    <2>1. b \in [args: {NoCall} \cup 0 .. MaxFragments, known: BOOLEAN]
      BY BlockIsSlot DEF TypeOK
    <2>2. [b EXCEPT !.args = @ + 1] = [args |-> b.args + 1, known |-> b.known]
      BY <2>1
    <2>3. Block(i) \in Open /\ FitsIn(Block(i)) /\ b.known \in BOOLEAN
      BY <1>6, <2>1 DEF AppendFragment
    <2>4. bufs' = [bufs EXCEPT ![Block(i)] =
                      [args |-> (IF Block(i) \in Open THEN b.args ELSE 0) + 1, known |-> b.known]]
      BY <1>6, <2>2, <2>3 DEF AppendFragment
    <2> QED
      BY <2>3, <2>4, BlockIsSlot DEF Fills
  <1>7. ASSUME NEW c \in Groups, NEW k \in Tools, NEW d \in {"name", "fragment"}, AccumulateDelta(c, k, d)
        PROVE  Fills
    <2> DEFINE s == <<c, k>>
               known == bufs[s].known \/ d = "name"
    <2>1. s \in Slots /\ Size(d) \in {0, 1} /\ (Size(d) = 1 <=> d = "fragment") /\ known \in BOOLEAN
      BY DEF Slots, Size
    <2>2. bufs' = [bufs EXCEPT ![s] = [args |-> (IF s \in Open THEN bufs[s].args ELSE 0) + Size(d), known |-> known]]
      BY <1>7, <2>1 DEF AccumulateDelta, Open, TypeOK
    <2>3. (s \in Open \/ Cardinality(Open) < MaxBuffers) /\ (Size(d) = 1 => FitsIn(s))
      BY <1>7, <2>1 DEF AccumulateDelta, Accepted
    <2> QED
      BY <2>1, <2>2, <2>3 DEF Fills
  <1>8. CASE Shared
    BY <1>1, <1>2, <1>8
    DEF Shared, Allowed, Refused, InspectionFails, ClientUnusable, Yield, Resume, UpstreamEnds,
        UpstreamRaises, Abandon, buffers
  <1>9. CASE AnthropicNext
    BY <1>1, <1>4, <1>5, <1>6, <1>9
    DEF AnthropicNext, UnplacedBlock, RejectBlock, MalformedBlock, RejectFragment, PassFragment,
        CloseIgnored, CloseUnreadable, CloseBlock, CloseUnknown, Ignore, buffers
  <1>10. CASE OpenAINext
    BY <1>1, <1>3, <1>7, <1>10
    DEF OpenAINext, TakeChunk, MalformedChunk, EndChunk, MalformedDelta, FinishChoice, FinishOtherwise,
        DrainIgnored, DrainUnreadable, DrainChoice, RejectDelta, SkipDelta, buffers
  <1> QED
    BY <1>8, <1>9, <1>10 DEF Next

LEMMA DropsKeepBounds ==
    ASSUME TypeOK, Filled, Bounded, Drops
    PROVE  Filled' /\ Bounded'
  <1>1. PICK ss \in SUBSET Slots : bufs' = [s \in Slots |-> IF s \in ss THEN NoBuf ELSE bufs[s]]
    BY DEF Drops
  <1>2. \A s \in Slots : bufs'[s] = NoBuf \/ bufs'[s] = bufs[s]
    BY <1>1
  <1>3. Open' \subseteq Open
    BY <1>2 DEF Open
  <1>4. Buffered' \subseteq Buffered
    <2>1. \A s \in Slots, n \in 1 .. MaxFragments : n <= bufs'[s].args => n <= bufs[s].args
      BY <1>2, StreamAssumption DEF NoBuf, NoCall
    <2> QED
      BY <2>1 DEF Buffered
  <1>5. Cardinality(Open) \in Nat /\ Cardinality(Buffered) \in Nat
    BY FS_CardinalityType DEF Bounded
  <1>6. /\ IsFiniteSet(Open') /\ Cardinality(Open') \in Nat /\ Cardinality(Open') <= Cardinality(Open)
        /\ IsFiniteSet(Buffered') /\ Cardinality(Buffered') \in Nat
        /\ Cardinality(Buffered') <= Cardinality(Buffered)
    BY <1>3, <1>4, FS_Subset, FS_CardinalityType DEF Bounded
  <1>7. Bounded'
    BY <1>5, <1>6, StreamAssumption DEF Bounded
  <1>8. Filled'
    BY <1>2 DEF Filled
  <1> QED
    BY <1>7, <1>8

LEMMA FillsKeepBounds ==
    ASSUME TypeOK, Filled, Bounded, Fills
    PROVE  Filled' /\ Bounded'
  <1> DEFINE Had(s) == IF s \in Open THEN bufs[s].args ELSE 0
  <1>1. PICK s \in Slots, n \in {0, 1}, known \in BOOLEAN :
            /\ s \in Open \/ Cardinality(Open) < MaxBuffers
            /\ n = 1 => FitsIn(s)
            /\ bufs' = [bufs EXCEPT ![s] = [args |-> Had(s) + n, known |-> known]]
    BY DEF Fills
  <1>2. Had(s) \in 0 .. ArgLimit /\ (n = 1 => Had(s) < ArgLimit)
    BY <1>1, StreamAssumption DEF Filled, Open, FitsIn
  <1>3. /\ bufs'[s] = [args |-> Had(s) + n, known |-> known]
        /\ \A r \in Slots \ {s} : bufs'[r] = bufs[r]
    BY <1>1 DEF TypeOK
  <1>4. Filled'
    BY <1>2, <1>3, StreamAssumption DEF Filled
  <1>5. Open' = Open \cup {s}
    BY <1>2, <1>3 DEF Open, NoBuf, NoCall
  <1>6. IsFiniteSet(Open') /\ Cardinality(Open') <= MaxBuffers
    <2>1. CASE s \in Open
      BY <1>5, <2>1 DEF Bounded
    <2>2. CASE s \notin Open
      <3>1. IsFiniteSet(Open') /\ Cardinality(Open') = Cardinality(Open) + 1 /\ Cardinality(Open) \in Nat
        BY <1>5, <2>2, FS_AddElement, FS_CardinalityType DEF Bounded
      <3> QED
        BY <1>1, <2>2, <3>1, StreamAssumption
    <2> QED
      BY <2>1, <2>2
  <1>7. IsFiniteSet(Buffered') /\ Cardinality(Buffered') <= BatchLimit
    <2>1. \A m \in 1 .. MaxFragments : m <= bufs[s].args <=> m <= Had(s)
      BY StreamAssumption DEF Open, NoBuf, NoCall
    <2>2. CASE n = 0
      <3>1. \A r \in Slots, m \in 1 .. MaxFragments : m <= bufs'[r].args <=> m <= bufs[r].args
        BY <1>2, <1>3, <2>1, <2>2, StreamAssumption
      <3>2. Buffered' = Buffered
        BY <3>1 DEF Buffered
      <3> QED
        BY <3>2 DEF Bounded
    <2>3. CASE n = 1
      <3> DEFINE new == <<s, Had(s) + 1>>
      <3>1. Had(s) + 1 \in 1 .. MaxFragments
        BY <1>2, <2>3, StreamAssumption
      <3>2. \A r \in Slots, m \in 1 .. MaxFragments :
                m <= bufs'[r].args <=> m <= bufs[r].args \/ <<r, m>> = new
        BY <1>2, <1>3, <2>1, <2>3, <3>1, StreamAssumption
      <3>3. Buffered' = Buffered \cup {new}
        BY <3>1, <3>2 DEF Buffered
      <3>4. new \notin Buffered
        BY <1>2, <2>1, <3>1 DEF Buffered
      <3>5. IsFiniteSet(Buffered') /\ Cardinality(Buffered') = Cardinality(Buffered) + 1
            /\ Cardinality(Buffered) \in Nat
        BY <3>3, <3>4, FS_AddElement, FS_CardinalityType DEF Bounded
      <3> QED
        BY <1>1, <2>3, <3>5, StreamAssumption DEF FitsIn
    <2> QED
      BY <2>2, <2>3
  <1> QED
    BY <1>4, <1>6, <1>7 DEF Bounded

LEMMA BufferTypes ==
    ASSUME TypeOK, Filled, Drops \/ Fills
    PROVE  bufs' \in [Slots -> [args: {NoCall} \cup 0 .. MaxFragments, known: BOOLEAN]]
  <1>1. CASE Drops
    <2>1. NoBuf \in [args: {NoCall} \cup 0 .. MaxFragments, known: BOOLEAN]
      BY DEF NoBuf
    <2> QED
      BY <1>1, <2>1 DEF TypeOK, Drops
  <1>2. CASE Fills
    <2> DEFINE Had(s) == IF s \in Open THEN bufs[s].args ELSE 0
    <2>1. PICK s \in Slots, n \in {0, 1}, known \in BOOLEAN :
              /\ n = 1 => FitsIn(s)
              /\ bufs' = [bufs EXCEPT ![s] = [args |-> Had(s) + n, known |-> known]]
      BY <1>2 DEF Fills
    <2>2. Had(s) + n \in 0 .. MaxFragments
      BY <2>1, StreamAssumption DEF Filled, Open, FitsIn
    <2> QED
      BY <2>1, <2>2 DEF TypeOK
  <1> QED
    BY <1>1, <1>2

-----------------------------------------------------------------------------
(* Types.                                                                  *)

LEMMA CallsTyped ==
    ASSUME Filled, NEW ss \in SUBSET Open
    PROVE  CallsIn(ss) \subseteq Call /\ (ss # {} => CallsIn(ss) # {})
  <1>1. \A s \in ss : s \in Slots /\ bufs[s].args \in 0 .. MaxFragments
    BY StreamAssumption DEF Filled, Open
  <1>2. CallsIn(ss) \subseteq Call
    BY <1>1 DEF CallsIn, Call
  <1>3. \A s \in ss : [slot |-> s, args |-> bufs[s].args] \in CallsIn(ss)
    BY DEF CallsIn
  <1> QED
    BY <1>2, <1>3

LEMMA HeldTyped ==
    ASSUME TypeOK, NEW ss, NEW reason \in {"tool_calls", "other"}
    PROVE  Completed(ss, reason) \subseteq [slot: Slots, args: 0 .. MaxFragments, reason: {"tool_calls", "other"}]
  <1>1. \A s \in Begun : s \in Slots /\ sent[s] \in 0 .. MaxFragments
    BY DEF Begun, TypeOK
  <1> QED
    BY <1>1 DEF Completed

\* The types of all variables but bufs.
OtherTypes ==
    /\ mode \in Modes /\ provider \in Providers
    /\ pc \in Points \cup Ends
    /\ ignored \subseteq Groups
    /\ toInspect \in Seq(Groups) /\ otherwise \subseteq Groups
    /\ batch \cup submitted \cup approved \subseteq Call
    /\ sent \in [Slots -> {NoCall} \cup 0 .. MaxFragments]
    /\ held \subseteq [slot: Slots, args: 0 .. MaxFragments, reason: {"tool_calls", "other"}]
    /\ reported \subseteq Groups
    /\ pc = "decide" <=> batch # {}

LEMMA SharedTypes ==
    ASSUME TypeOK, Filled, Shared
    PROVE  OtherTypes'
  <1>1. CASE Allowed \/ Refused \/ ClientUnusable \/ Yield \/ Resume
    BY <1>1
    DEF Allowed, Refused, ClientUnusable, Yield, Resume, Submit, Goto, TypeOK, OtherTypes, kind, buffers,
        chunk, decided, Points, Ends
  <1>2. CASE InspectionFails
    <2>1. {b.slot[1] : b \in batch} \subseteq Groups
      BY DEF TypeOK, Call, Slots
    <2> QED
      BY <1>2, <2>1
      DEF InspectionFails, ShapeError, Submit, Goto, TypeOK, OtherTypes, kind, buffers, chunk, Points, Ends
  <1>3. CASE UpstreamEnds
    <2>1. {s[1] : s \in Open} \subseteq Groups
      BY DEF Open, Slots
    <2> QED
      BY <1>3, <2>1
      DEF UpstreamEnds, ShapeError, Goto, TypeOK, OtherTypes, kind, buffers, chunk, decided, Points, Ends
  <1>4. CASE UpstreamRaises \/ Abandon
    <2>1. Discard /\ pc' \in Ends /\ UNCHANGED kind /\ approved' = approved /\ reported' = reported
      BY <1>4 DEF UpstreamRaises, Abandon, Goto, decided, Ends
    <2>2. submitted' \subseteq submitted \cup batch
      BY <1>4 DEF UpstreamRaises, Abandon, decided
    <2>3. sent' \in [Slots -> {NoCall} \cup 0 .. MaxFragments] /\ toInspect' \in Seq(Groups)
      BY <2>1 DEF Discard
    <2>4. ignored' = {} /\ otherwise' = {} /\ held' = {} /\ batch' = {}
      BY <2>1 DEF Discard
    <2> QED
      BY <2>1, <2>2, <2>3, <2>4 DEF TypeOK, OtherTypes, kind, Ends
  <1> QED
    BY <1>1, <1>2, <1>3, <1>4 DEF Shared

LEMMA AnthropicTypes ==
    ASSUME TypeOK, Filled, AnthropicNext
    PROVE  OtherTypes'
  <1>1. CASE UnplacedBlock
    BY <1>1
    DEF UnplacedBlock, Receiving, Running, ShapeError, Goto, TypeOK, OtherTypes, kind, buffers, chunk,
        decided, Points, Ends
  <1>2. ASSUME NEW i \in Groups, OpenBlock(i) \/ RejectBlock(i) \/ MalformedBlock(i)
        PROVE  OtherTypes'
    <2>1. sent' \in [Slots -> {NoCall} \cup 0 .. MaxFragments]
      BY <1>2, StreamAssumption DEF OpenBlock, RejectBlock, MalformedBlock, Begins, TypeOK
    <2> QED
      BY <1>2, <2>1
      DEF OpenBlock, RejectBlock, MalformedBlock, Ignore, Receiving, Running, ShapeError, Goto, TypeOK,
          OtherTypes, kind, chunk, decided, Points, Ends
  <1>3. ASSUME NEW i \in Groups, AppendFragment(i) \/ RejectFragment(i) \/ PassFragment(i)
        PROVE  OtherTypes'
    <2>1. sent' \in [Slots -> {NoCall} \cup 0 .. MaxFragments]
      <3>1. Fragment(i)
        BY <1>3 DEF AppendFragment, RejectFragment, PassFragment
      <3>2. sent[Block(i)] \in {NoCall} \cup 0 .. MaxFragments
        BY BlockIsSlot DEF TypeOK
      <3>3. Block(i) \in Begun => sent[Block(i)] + 1 \in 0 .. MaxFragments
        BY <3>1, <3>2, StreamAssumption DEF Fragment, Begun
      <3> QED
        BY <3>1, <3>3 DEF Fragment, TypeOK
    <2> QED
      BY <1>3, <2>1
      DEF AppendFragment, RejectFragment, PassFragment, Fragment, Ignore, Receiving, Running, ShapeError,
          Goto, TypeOK, OtherTypes, kind, buffers, chunk, decided, Points, Ends
  <1>4. ASSUME NEW i \in Groups, CloseIgnored(i) \/ CloseUnreadable(i) \/ CloseBlock(i) \/ CloseUnknown(i)
        PROVE  OtherTypes'
    <2>1. Closes(i)
      BY <1>4 DEF CloseIgnored, CloseUnreadable, CloseBlock, CloseUnknown
    <2>2. sent' \in [Slots -> {NoCall} \cup 0 .. MaxFragments]
      BY <2>1 DEF Closes, TypeOK
    <2>3. held' \subseteq [slot: Slots, args: 0 .. MaxFragments, reason: {"tool_calls", "other"}]
      BY <2>1, HeldTyped DEF Closes
    <2>4. CASE CloseBlock(i)
      <3>1. batch' \subseteq Call /\ batch' # {}
        BY <2>4, CallsTyped DEF CloseBlock
      <3> QED
        BY <2>1, <2>2, <2>3, <2>4, <3>1
        DEF CloseBlock, Goto, TypeOK, OtherTypes, kind, chunk, decided, Points, Ends
    <2>5. CASE CloseIgnored(i)
      BY <2>1, <2>2, <2>3, <2>5
      DEF CloseIgnored, Closes, Receiving, Running, Goto, TypeOK, OtherTypes, kind, chunk, decided, Points,
          Ends
    <2>6. CASE CloseUnreadable(i)
      BY <2>1, <2>2, <2>3, <2>6
      DEF CloseUnreadable, Closes, Receiving, Running, ShapeError, Goto, TypeOK, OtherTypes, kind, chunk,
          decided, Points, Ends
    <2>7. CASE CloseUnknown(i)
      BY <2>1, <2>2, <2>3, <2>7
      DEF CloseUnknown, Closes, Receiving, Running, Goto, TypeOK, OtherTypes, kind, buffers, chunk,
          decided, Points, Ends
    <2> QED
      BY <1>4, <2>4, <2>5, <2>6, <2>7
  <1> QED
    BY <1>1, <1>2, <1>3, <1>4 DEF AnthropicNext

LEMMA OpenAITypes ==
    ASSUME TypeOK, Filled, OpenAINext
    PROVE  OtherTypes'
  <1>1. CASE TakeChunk \/ MalformedChunk
    BY <1>1
    DEF TakeChunk, MalformedChunk, Running, ShapeError, Goto, TypeOK, OtherTypes, kind, buffers, chunk,
        decided, Points, Ends
  <1>2. CASE EndChunk
    <2> DEFINE In(cs) == {s \in Slots : s[1] \in cs}
    <2>1. held' = Completed(In(Finished), "tool_calls") \cup Completed(In(otherwise \ Finished), "other")
      BY <1>2 DEF EndChunk
    <2>2. held' \subseteq [slot: Slots, args: 0 .. MaxFragments, reason: {"tool_calls", "other"}]
      <3> HIDE DEF In
      <3> QED
        BY <2>1, HeldTyped
    <2>3. sent' \in [Slots -> {NoCall} \cup 0 .. MaxFragments]
      BY <1>2 DEF EndChunk, TypeOK
    <2> QED
      BY <1>2, <2>2, <2>3
      DEF EndChunk, Reading, Running, Goto, TypeOK, OtherTypes, kind, buffers, decided, Points, Ends
  <1>3. ASSUME NEW c \in Groups, MalformedDelta(c) \/ FinishChoice(c) \/ FinishOtherwise(c)
        PROVE  OtherTypes'
    BY <1>3
    DEF MalformedDelta, FinishChoice, FinishOtherwise, Reading, Running, ShapeError, Goto, TypeOK,
        OtherTypes, kind, buffers, chunk, decided, Points, Ends
  <1>4. ASSUME NEW c \in Groups, NEW k \in Tools, NEW d \in {"name", "fragment"},
               AccumulateDelta(c, k, d) \/ RejectDelta(c, k, d) \/ SkipDelta(c, k, d)
        PROVE  OtherTypes'
    <2>1. Delta(c, k, d)
      BY <1>4 DEF AccumulateDelta, RejectDelta, SkipDelta
    <2>2. sent' \in [Slots -> {NoCall} \cup 0 .. MaxFragments]
      <3>1. sent[<<c, k>>] \in {NoCall} \cup 0 .. MaxFragments /\ Size(d) \in {0, 1}
        BY DEF TypeOK, Slots, Size
      <3>2. sent[<<c, k>>] # NoCall /\ sent[<<c, k>>] + Size(d) <= MaxFragments =>
                sent[<<c, k>>] + Size(d) \in 0 .. MaxFragments
        BY <3>1, StreamAssumption DEF NoCall
      <3>3. Size(d) \in 0 .. MaxFragments
        BY <3>1, StreamAssumption
      <3> QED
        BY <2>1, <3>2, <3>3 DEF Delta, Begins, Begun, TypeOK
    <2> QED
      BY <1>4, <2>1, <2>2
      DEF AccumulateDelta, RejectDelta, SkipDelta, Delta, Reading, Running, ShapeError, Goto, TypeOK,
          OtherTypes, kind, buffers, chunk, decided, Points, Ends
  <1>5. ASSUME NEW c \in Groups, DrainIgnored(c) \/ DrainUnreadable(c)
        PROVE  OtherTypes'
    <2>1. toInspect' \in Seq(Groups) /\ Draining
      BY <1>5, NextOfQueue DEF DrainIgnored, DrainUnreadable, NextChoice
    <2> QED
      BY <1>5, <2>1
      DEF DrainIgnored, DrainUnreadable, Draining, Running, ShapeError, Goto, TypeOK, OtherTypes, kind,
          decided, Points, Ends
  <1>6. ASSUME NEW c \in Groups, DrainChoice(c)
        PROVE  OtherTypes'
    <2>1. toInspect' \in Seq(Groups)
      BY <1>6, NextOfQueue DEF DrainChoice
    <2>2. batch' \subseteq Call /\ batch' # {}
      BY <1>6, CallsTyped DEF DrainChoice, OpenIn
    <2> QED
      BY <1>6, <2>1, <2>2
      DEF DrainChoice, Goto, TypeOK, OtherTypes, kind, decided, Points, Ends
  <1> QED
    BY <1>1, <1>2, <1>3, <1>4, <1>5, <1>6 DEF OpenAINext

LEMMA NextTypeOK ==
    ASSUME TypeOK, Filled, Next
    PROVE  TypeOK'
  <1>1. OtherTypes'
    BY SharedTypes, AnthropicTypes, OpenAITypes DEF Next
  <1> QED
    BY <1>1, BuffersChange, BufferTypes DEF OtherTypes, TypeOK

-----------------------------------------------------------------------------
(* The calls of the stream.                                                *)

\* Only a generator that lives takes a step, and its options stay.
LEMMA OnlyTheLiving == Next => Live /\ UNCHANGED kind
  <1>1. Shared => Live /\ UNCHANGED kind
    BY DEF Shared, Allowed, Refused, InspectionFails, ClientUnusable, Yield, Resume, UpstreamEnds,
           UpstreamRaises, Abandon, Live, Ends
  <1>2. AnthropicNext => Live /\ UNCHANGED kind
    BY DEF AnthropicNext, UnplacedBlock, OpenBlock, RejectBlock, MalformedBlock, AppendFragment,
           RejectFragment, PassFragment, Fragment, CloseIgnored, CloseUnreadable, CloseBlock, CloseUnknown,
           Closes, Receiving, Running, Live
  <1>3. \A c \in Groups, k \in Tools, d \in {"name", "fragment"} :
            AccumulateDelta(c, k, d) \/ RejectDelta(c, k, d) \/ SkipDelta(c, k, d) => Live /\ UNCHANGED kind
    <2>1. \A c, k, d : Delta(c, k, d) => Live
      BY DEF Delta, Reading, Running, Live
    <2> QED
      BY <2>1 DEF AccumulateDelta, RejectDelta, SkipDelta
  <1>4. OpenAINext => Live /\ UNCHANGED kind
    BY <1>3
    DEF OpenAINext, TakeChunk, MalformedChunk, EndChunk, MalformedDelta, FinishChoice, FinishOtherwise,
        DrainIgnored, DrainUnreadable, DrainChoice, NextChoice, Draining, Reading, Running, Live
  <1> QED
    BY <1>1, <1>2, <1>4 DEF Next

\* A generator that is gone tracks nothing.
LEMMA GoneIsTracked ==
    ASSUME Strict, UNCHANGED kind, pc' \in Ends \ {"ended"}, Enforced => reported' = reported
    PROVE  Tracked' /\ Strict' /\ CleanEnd'
  BY DEF Tracked, Strict, CleanEnd, Live, Enforced, kind

LEMMA SharedTracks ==
    ASSUME IInv, Shared
    PROVE  Tracked' /\ Strict' /\ CleanEnd'
  <1>1. Live /\ UNCHANGED kind
    BY OnlyTheLiving DEF Next
  <1>2. Queued /\ Assembled /\ Accounted /\ ignored \subseteq reported /\ Strict /\ TypeOK
    BY <1>1 DEF IInv, Tracked
  <1>3. ASSUME pc = "decide", pc' = "inspect", UNCHANGED <<buffers, chunk, sent, held>>, batch' = {},
               reported \subseteq reported',
               \A b \in batch : b \in submitted' \/ b.slot[1] \in reported',
               submitted \subseteq submitted',
               Enforced => reported' = {} /\ submitted' \subseteq approved'
        PROVE  Tracked' /\ Strict' /\ CleanEnd'
    <2>1. Due' = Due /\ Finished' = Finished
      BY <1>3 DEF Due, Finished, chunk
    <2>2. Queued' /\ Assembled' /\ ignored' \subseteq reported'
      BY <1>1, <1>2, <1>3, <2>1 DEF Queued, Assembled, buffers, chunk, kind
    <2>3. Accounted'
      BY <1>2, <1>3, <2>1 DEF Accounted, buffers
    <2> QED
      BY <1>1, <1>3, <2>2, <2>3 DEF Tracked, Strict, CleanEnd, Live, Enforced, kind
  <1>4. CASE Allowed
    <2>1. CASE pc' = "inspect"
      BY <1>2, <1>3, <1>4, <2>1 DEF Allowed, Submit, Strict, IInv, Live, Ends
    <2>2. CASE pc' = "hook_error"
      BY <1>1, <1>2, <1>4, <2>2, GoneIsTracked DEF Allowed, Ends
    <2> QED
      BY <1>4, <2>1, <2>2 DEF Allowed, Goto
  <1>5. CASE Refused
    <2>1. CASE pc' = "inspect"
      <3>1. ~Enforced
        BY <1>5, <2>1 DEF Refused, Goto
      <3> QED
        BY <1>3, <1>5, <2>1, <3>1 DEF Refused, Submit
    <2>2. CASE pc' \in {"refused", "hook_error"}
      BY <1>1, <1>2, <1>5, <2>2, GoneIsTracked DEF Refused, Ends
    <2> QED
      BY <1>5, <2>1, <2>2 DEF Refused, Goto
  <1>6. CASE InspectionFails
    <2>1. ShapeError({b.slot[1] : b \in batch}, "inspect") /\ pc = "decide" /\ batch' = {}
      BY <1>6 DEF InspectionFails, Submit
    <2>2. Enforced => pc' = "transport_error" /\ reported' = reported
      BY <2>1, ErrorIsSeen
    <2>3. CASE pc' = "inspect"
      <3>1. ~Enforced /\ reported' = reported \cup {b.slot[1] : b \in batch}
        BY <2>1, <2>2, <2>3, ErrorIsSeen
      <3>2. submitted \subseteq submitted'
        BY <1>6 DEF InspectionFails, Submit
      <3>3. \A b \in batch : b.slot[1] \in reported'
        BY <3>1
      <3> QED
        BY <1>3, <1>6, <2>1, <2>3, <3>1, <3>2, <3>3 DEF InspectionFails
    <2>4. CASE pc' \in {"hook_error", "transport_error"}
      BY <1>1, <1>2, <2>2, <2>4, GoneIsTracked DEF Ends
    <2> QED
      BY <2>1, <2>3, <2>4, ErrorIsSeen
  <1>7. CASE ClientUnusable
    BY <1>1, <1>2, <1>7, GoneIsTracked DEF ClientUnusable, Goto, Ends
  <1>8. CASE Yield
    <2>1. Due = {} /\ Due' = {} /\ pc' = "yield" /\ batch = {}
      BY <1>2, <1>8 DEF Yield, Goto, Due, Finished, TypeOK
    <2>2. Queued' /\ Assembled' /\ Accounted' /\ ignored' \subseteq reported'
      BY <1>2, <1>8, <2>1 DEF Yield, Queued, Assembled, Accounted, buffers, chunk, decided
    <2> QED
      BY <1>1, <1>2, <1>8, <2>1, <2>2 DEF Yield, Tracked, Strict, CleanEnd, Live, Enforced, kind, decided
  <1>9. CASE Resume
    <2>1. Due = {} /\ Due' = {} /\ pc' = "upstream"
      BY <1>9 DEF Resume, Goto, Due
    <2>2. Queued' /\ Assembled' /\ Accounted' /\ ignored' \subseteq reported'
      BY <1>2, <1>9, <2>1 DEF Resume, Queued, Assembled, Accounted, buffers, chunk
    <2> QED
      BY <1>1, <1>2, <1>9, <2>1, <2>2 DEF Resume, Tracked, Strict, CleanEnd, Live, Enforced, kind
  <1>10. CASE UpstreamEnds
    <2>1. pc' \in Ends /\ (Enforced => reported' = reported)
      BY <1>10, ErrorIsSeen DEF UpstreamEnds, Goto, Ends
    <2>2. CleanEnd'
      <3>1. SUFFICES ASSUME Enforced, pc' = "ended"
                     PROVE  Begun' = {}
        BY <1>1 DEF CleanEnd, Enforced, kind
      <3>2. Open = {}
        BY <1>10, <3>1 DEF UpstreamEnds, ShapeError, Goto
      <3>3. \A s \in Slots : sent[s] = NoCall
        BY <1>2, <1>10, <3>1, <3>2 DEF UpstreamEnds, Strict, Assembled, Due, Open, NoBuf
      <3> QED
        BY <1>10, <3>3 DEF UpstreamEnds, Begun
    <2> QED
      BY <1>1, <1>2, <2>1, <2>2 DEF Tracked, Strict, Live, Enforced, kind
  <1>11. CASE UpstreamRaises \/ Abandon
    BY <1>1, <1>2, <1>11, GoneIsTracked DEF UpstreamRaises, Abandon, Goto, Ends
  <1> QED
    BY <1>4, <1>5, <1>6, <1>7, <1>8, <1>9, <1>10, <1>11 DEF Shared

\* An Anthropic event that is passed on, or held for a decision.
LEMMA EventTracks ==
    ASSUME IInv, Receiving, UNCHANGED <<kind, toInspect, decided>>, pc' \in {"yield", "decide"},
           \A s \in Slots : s[1] \in reported' \/ sent'[s] = bufs'[s].args,
           \A h \in held' : [slot |-> h.slot, args |-> h.args] \in batch' \/ h.slot[1] \in reported',
           ignored' \subseteq reported', Enforced => reported' = {}
    PROVE  Tracked' /\ Strict' /\ CleanEnd'
  <1>1. Live /\ pc = "upstream" /\ provider = "anthropic"
    BY DEF Receiving, Running, Live
  <1>2. toInspect' = <<>> /\ (Enforced => submitted \subseteq approved)
    BY <1>1 DEF IInv, Tracked, Queued, Strict
  <1>3. Due' = {}
    BY <1>2 DEF Due, Finished
  <1>4. Queued' /\ Assembled' /\ Accounted'
    BY <1>2, <1>3 DEF Queued, Assembled, Accounted
  <1> QED
    BY <1>2, <1>4 DEF Tracked, Strict, CleanEnd, Enforced, kind, decided

LEMMA AnthropicTracks ==
    ASSUME IInv, AnthropicNext
    PROVE  Tracked' /\ Strict' /\ CleanEnd'
  <1>1. Live /\ UNCHANGED kind /\ Receiving
    BY OnlyTheLiving
    DEF Next, AnthropicNext, UnplacedBlock, OpenBlock, RejectBlock, MalformedBlock, AppendFragment,
        RejectFragment, PassFragment, Fragment, CloseIgnored, CloseUnreadable, CloseBlock, CloseUnknown, Closes
  <1>2. /\ TypeOK /\ Filled /\ Strict /\ held = {} /\ ignored \subseteq reported
        /\ Enforced => reported = {}
        /\ \A s \in Slots : s[1] \in reported \/ sent[s] = bufs[s].args
    BY <1>1 DEF IInv, Tracked, Queued, Assembled, Strict, Due, Receiving
  <1>3. \A s \in Slots : (s \notin Open => bufs[s].args = NoCall) /\ (s \in Open => bufs[s].args # NoCall)
    BY <1>2 DEF Filled, Open, NoBuf, NoCall
  \* An error about the block of an event.
  <1>4. ASSUME NEW i \in Groups, ShapeError({i}, "yield"), UNCHANGED <<toInspect, decided>>,
               \A s \in Slots : s[1] # i => sent'[s] = sent[s] /\ bufs'[s] = bufs[s],
               ignored' \subseteq ignored \cup {i}, \A h \in held' : h.slot[1] = i
        PROVE  Tracked' /\ Strict' /\ CleanEnd'
    <2>1. CASE pc' = "yield"
      <3>1. ~Enforced /\ reported' = reported \cup {i}
        BY <1>4, <2>1, ErrorIsSeen
      <3>2. \A s \in Slots : s[1] \in reported' \/ sent'[s] = bufs'[s].args
        BY <1>2, <1>4, <3>1
      <3> QED
        BY <1>1, <1>2, <1>4, <2>1, <3>1, <3>2, EventTracks
    <2>2. CASE pc' # "yield"
      BY <1>1, <1>2, <1>4, <2>2, ErrorIsSeen, GoneIsTracked DEF Ends
    <2> QED
      BY <2>1, <2>2
  <1>5. CASE UnplacedBlock
    <2>1. CASE pc' = "yield"
      <3>1. ~Enforced /\ reported' = reported
        BY <1>5, <2>1, ErrorIsSeen DEF UnplacedBlock
      <3> QED
        BY <1>1, <1>2, <1>5, <2>1, <3>1, EventTracks DEF UnplacedBlock, buffers, chunk
    <2>2. CASE pc' # "yield"
      BY <1>1, <1>2, <1>5, <2>2, ErrorIsSeen, GoneIsTracked DEF UnplacedBlock, Ends
    <2> QED
      BY <2>1, <2>2
  <1>6. ASSUME NEW i \in Groups, OpenBlock(i)
        PROVE  Tracked' /\ Strict' /\ CleanEnd'
    <2>1. sent'[Block(i)] = 0 /\ bufs'[Block(i)].args = 0
      BY <1>2, <1>6, BlockIsSlot DEF OpenBlock, Begins, TypeOK
    <2>2. \A s \in Slots \ {Block(i)} : sent'[s] = sent[s] /\ bufs'[s] = bufs[s]
      BY <1>2, <1>6 DEF OpenBlock, Begins, TypeOK
    <2> QED
      BY <1>1, <1>2, <1>6, <2>1, <2>2, EventTracks DEF OpenBlock, Goto, chunk
  <1>7. ASSUME NEW i \in Groups, RejectBlock(i) \/ MalformedBlock(i)
        PROVE  Tracked' /\ Strict' /\ CleanEnd'
    <2>1. \A s \in Slots : s[1] # i => sent'[s] = sent[s] /\ bufs'[s] = bufs[s]
      BY <1>2, <1>7, BlockIsSlot DEF RejectBlock, MalformedBlock, Ignore, Begins, TypeOK
    <2> QED
      BY <1>2, <1>4, <1>7, <2>1 DEF RejectBlock, MalformedBlock, Ignore, chunk
  <1>8. ASSUME NEW i \in Groups, RejectFragment(i)
        PROVE  Tracked' /\ Strict' /\ CleanEnd'
    <2>1. \A s \in Slots : s[1] # i => sent'[s] = sent[s] /\ bufs'[s] = bufs[s]
      BY <1>2, <1>8, BlockIsSlot DEF RejectFragment, Fragment, Ignore, TypeOK
    <2> QED
      BY <1>2, <1>4, <1>8, <2>1 DEF RejectFragment, Ignore, chunk
  <1>9. ASSUME NEW i \in Groups, AppendFragment(i)
        PROVE  Tracked' /\ Strict' /\ CleanEnd'
    <2>1. bufs'[Block(i)].args = bufs[Block(i)].args + 1
      BY <1>2, <1>9, BlockIsSlot DEF AppendFragment, TypeOK
    <2>2. i \in reported \/ sent'[Block(i)] = sent[Block(i)] + 1
      BY <1>2, <1>3, <1>9, BlockIsSlot DEF AppendFragment, Fragment, Begun, TypeOK
    <2>3. \A s \in Slots \ {Block(i)} : sent'[s] = sent[s] /\ bufs'[s] = bufs[s]
      BY <1>2, <1>9 DEF AppendFragment, Fragment, TypeOK
    <2>4. \A s \in Slots : s[1] \in reported \/ sent'[s] = bufs'[s].args
      BY <1>2, <2>1, <2>2, <2>3, BlockIsSlot
    <2> QED
      BY <1>1, <1>2, <1>9, <2>4, EventTracks DEF AppendFragment, Goto, chunk
  <1>10. ASSUME NEW i \in Groups, PassFragment(i)
         PROVE  Tracked' /\ Strict' /\ CleanEnd'
    <2>1. \A s \in Slots : s[1] \in reported \/ sent'[s] = bufs[s].args
      BY <1>2, <1>3, <1>10, BlockIsSlot DEF PassFragment, Fragment, Begun, TypeOK
    <2> QED
      BY <1>1, <1>2, <1>10, <2>1, EventTracks DEF PassFragment, Goto, buffers, chunk
  \* The closing event holds the block as the application has it.
  <1>11. ASSUME NEW i \in Groups, Closes(i)
         PROVE  /\ sent'[Block(i)] = NoCall
                /\ \A s \in Slots \ {Block(i)} : sent'[s] = sent[s]
                /\ \A h \in held' : h.slot = Block(i) /\ h.args = sent[Block(i)] /\ h.args # NoCall
    BY <1>2, <1>11, BlockIsSlot DEF Closes, Completed, Begun, TypeOK
  <1>12. ASSUME NEW i \in Groups, CloseIgnored(i)
         PROVE  Tracked' /\ Strict' /\ CleanEnd'
    <2>1. Closes(i) /\ i \in reported
      BY <1>2, <1>12 DEF CloseIgnored
    <2>2. \A h \in held' : h.slot[1] \in reported
      BY <1>11, <2>1, BlockIsSlot
    <2>3. \A s \in Slots : s[1] \in reported \/ sent'[s] = bufs[s].args
      BY <1>2, <1>11, <2>1, BlockIsSlot
    <2> QED
      BY <1>1, <1>2, <1>12, <2>2, <2>3, EventTracks DEF CloseIgnored, Goto, chunk
  <1>13. ASSUME NEW i \in Groups, CloseUnreadable(i)
         PROVE  Tracked' /\ Strict' /\ CleanEnd'
    <2>1. Closes(i)
      BY <1>13 DEF CloseUnreadable
    <2>2. \A s \in Slots : s[1] # i => sent'[s] = sent[s] /\ bufs'[s] = bufs[s]
      BY <1>2, <1>11, <1>13, <2>1, BlockIsSlot DEF CloseUnreadable, TypeOK
    <2> QED
      BY <1>2, <1>4, <1>11, <1>13, <2>1, <2>2, BlockIsSlot DEF CloseUnreadable, chunk
  <1>14. ASSUME NEW i \in Groups, CloseBlock(i)
         PROVE  Tracked' /\ Strict' /\ CleanEnd'
    <2>1. Closes(i) /\ batch' = CallsIn({Block(i)})
      BY <1>14 DEF CloseBlock
    <2>2. [slot |-> Block(i), args |-> bufs[Block(i)].args] \in batch'
      BY <2>1 DEF CallsIn
    <2>3. \A h \in held' : [slot |-> h.slot, args |-> h.args] \in batch' \/ h.slot[1] \in reported
      BY <1>2, <1>11, <2>1, <2>2, BlockIsSlot
    <2>4. bufs'[Block(i)].args = NoCall /\ \A s \in Slots \ {Block(i)} : bufs'[s] = bufs[s]
      BY <1>2, <1>14, BlockIsSlot DEF CloseBlock, NoBuf, TypeOK
    <2>5. \A s \in Slots : s[1] \in reported \/ sent'[s] = bufs'[s].args
      BY <1>2, <1>11, <2>1, <2>4
    <2> QED
      BY <1>1, <1>2, <1>14, <2>3, <2>5, EventTracks DEF CloseBlock, Goto, chunk
  <1>15. ASSUME NEW i \in Groups, CloseUnknown(i)
         PROVE  Tracked' /\ Strict' /\ CleanEnd'
    <2>1. Closes(i) /\ Block(i) \notin Open
      BY <1>15 DEF CloseUnknown
    <2>2. \A h \in held' : h.slot[1] \in reported
      BY <1>2, <1>3, <1>11, <2>1, BlockIsSlot
    <2>3. \A s \in Slots : s[1] \in reported \/ sent'[s] = bufs[s].args
      BY <1>2, <1>3, <1>11, <2>1, BlockIsSlot
    <2> QED
      BY <1>1, <1>2, <1>15, <2>2, <2>3, EventTracks DEF CloseUnknown, Goto, buffers, chunk
  <1> QED
    BY <1>5, <1>6, <1>7, <1>8, <1>9, <1>10, <1>12, <1>13, <1>14, <1>15 DEF AnthropicNext

\* Entries of a chunk that is being read.
LEMMA EntryTracks ==
    ASSUME IInv, Reading, UNCHANGED <<kind, held, decided>>, pc' = "chunk",
           \A s \in Slots : s[1] \in reported' \/ sent'[s] = bufs'[s].args,
           ignored' \subseteq reported', Enforced => reported' = {}
    PROVE  Tracked' /\ Strict' /\ CleanEnd'
  <1>1. Live /\ pc = "chunk" /\ provider = "openai"
    BY DEF Reading, Running, Live
  <1>2. held' = {} /\ (Enforced => submitted \subseteq approved)
    BY <1>1 DEF IInv, Tracked, Queued, Strict
  <1>3. Due' = {}
    BY DEF Due
  <1>4. Queued' /\ Assembled' /\ Accounted'
    BY <1>1, <1>2, <1>3 DEF Queued, Assembled, Accounted, kind
  <1> QED
    BY <1>2, <1>4 DEF Tracked, Strict, CleanEnd, Enforced, kind, decided

LEMMA ReadingTracks ==
    ASSUME IInv,
           \/ TakeChunk \/ MalformedChunk \/ EndChunk
           \/ \E c \in Groups :
                 \/ MalformedDelta(c) \/ FinishChoice(c) \/ FinishOtherwise(c)
                 \/ \E k \in Tools, d \in {"name", "fragment"} :
                       AccumulateDelta(c, k, d) \/ RejectDelta(c, k, d) \/ SkipDelta(c, k, d)
    PROVE  Tracked' /\ Strict' /\ CleanEnd'
  <1>1. Live /\ UNCHANGED kind
    BY OnlyTheLiving DEF Next, OpenAINext
  <1>2. pc \in {"upstream", "chunk"}
    <2>1. \A c \in Groups, k \in Tools, d \in {"name", "fragment"} :
              AccumulateDelta(c, k, d) \/ RejectDelta(c, k, d) \/ SkipDelta(c, k, d) => Reading
      BY DEF AccumulateDelta, RejectDelta, SkipDelta, Delta
    <2> QED
      BY <2>1
      DEF TakeChunk, MalformedChunk, EndChunk, MalformedDelta, FinishChoice, FinishOtherwise, Reading
  <1>3. /\ TypeOK /\ Filled /\ Strict /\ held = {} /\ ignored \subseteq reported
        /\ Enforced => reported = {} /\ submitted \subseteq approved
        /\ \A s \in Slots : s[1] \in reported \/ sent[s] = bufs[s].args
    BY <1>1, <1>2 DEF IInv, Tracked, Queued, Assembled, Strict, Due
  \* An error about the choice of an entry.
  <1>4. ASSUME NEW c \in Groups, Reading, ShapeError({c}, "chunk"), UNCHANGED <<held, decided>>,
               \A s \in Slots : s[1] # c => sent'[s] = sent[s] /\ bufs'[s] = bufs[s],
               ignored' \subseteq ignored \cup {c}
        PROVE  Tracked' /\ Strict' /\ CleanEnd'
    <2>1. CASE pc' = "chunk"
      <3>1. ~Enforced /\ reported' = reported \cup {c}
        BY <1>4, <2>1, ErrorIsSeen
      <3>2. \A s \in Slots : s[1] \in reported' \/ sent'[s] = bufs'[s].args
        BY <1>3, <1>4, <3>1
      <3> QED
        BY <1>1, <1>3, <1>4, <2>1, <3>1, <3>2, EntryTracks
    <2>2. CASE pc' # "chunk"
      BY <1>1, <1>3, <1>4, <2>2, ErrorIsSeen, GoneIsTracked DEF Ends
    <2> QED
      BY <2>1, <2>2
  <1>5. CASE TakeChunk \/ MalformedChunk
    <2>1. UNCHANGED <<buffers, chunk, batch, sent, held, decided>> /\ (Enforced => reported' = reported)
          /\ provider = "openai"
      BY <1>5, ErrorIsSeen DEF TakeChunk, MalformedChunk, Running
    <2>2. CASE pc' \in {"yield", "chunk"}
      <3>1. Due' = {} /\ reported' = reported
        BY <1>5, <2>1, <2>2, ErrorIsSeen DEF TakeChunk, MalformedChunk, Due
      <3>2. pc' = "yield" => toInspect' = <<>>
        BY <1>1, <1>5, <2>1, ErrorIsSeen DEF TakeChunk, MalformedChunk, Goto, chunk, IInv, Tracked, Queued
      <3>3. Queued' /\ Assembled' /\ Accounted' /\ ignored' \subseteq reported'
        BY <1>1, <1>3, <2>1, <2>2, <3>1, <3>2 DEF Queued, Assembled, Accounted, buffers, kind
      <3> QED
        BY <1>1, <1>3, <2>1, <2>2, <3>1, <3>3 DEF Tracked, Strict, CleanEnd, Enforced, kind, decided
    <2>3. CASE pc' \notin {"yield", "chunk"}
      BY <1>1, <1>3, <1>5, <2>1, <2>3, ErrorIsSeen, GoneIsTracked DEF TakeChunk, MalformedChunk, Goto, Ends
    <2> QED
      BY <2>2, <2>3
  <1>6. CASE EndChunk
    <2>1. pc' = "inspect" /\ provider = "openai" /\ Due' = Finished
          /\ UNCHANGED <<bufs, ignored, reported, decided>>
      BY <1>6 DEF EndChunk, Reading, Running, Goto, buffers, Due, Finished
    <2>2. \A s \in Slots : sent'[s] = IF s[1] \in Finished THEN NoCall ELSE sent[s]
      BY <1>6 DEF EndChunk
    <2>3. \A h \in held' : h.reason = "tool_calls" =>
              h.slot \in Slots /\ h.slot[1] \in Finished /\ h.args = sent[h.slot]
      <3> DEFINE In(cs) == {s \in Slots : s[1] \in cs}
      <3>1. held' = Completed(In(Finished), "tool_calls") \cup Completed(In(otherwise \ Finished), "other")
        BY <1>6 DEF EndChunk
      <3> QED
        BY <3>1 DEF Completed
    <2>4. Assembled' /\ Accounted'
      BY <1>3, <2>1, <2>2, <2>3 DEF Assembled, Accounted
    <2>5. Queued'
      BY <1>1, <2>1 DEF Queued, kind
    <2> QED
      BY <1>1, <1>3, <2>1, <2>4, <2>5 DEF Tracked, Strict, CleanEnd, Enforced, kind, decided
  <1>7. ASSUME NEW c \in Groups, MalformedDelta(c)
        PROVE  Tracked' /\ Strict' /\ CleanEnd'
    <2>1. \A s \in Slots : s[1] # c => sent'[s] = sent[s] /\ bufs'[s] = bufs[s]
      BY <1>7 DEF MalformedDelta, WithoutChoice
    <2> QED
      BY <1>4, <1>7, <2>1 DEF MalformedDelta
  <1>8. ASSUME NEW c \in Groups, FinishChoice(c) \/ FinishOtherwise(c)
        PROVE  Tracked' /\ Strict' /\ CleanEnd'
    BY <1>1, <1>3, <1>8, EntryTracks DEF FinishChoice, FinishOtherwise, Reading, buffers
  <1>9. ASSUME NEW c \in Groups, NEW k \in Tools, NEW d \in {"name", "fragment"}, Delta(c, k, d)
        PROVE  /\ Reading
               /\ \A s \in Slots : s[1] # c => sent'[s] = sent[s]
               /\ \A s \in Slots \ {<<c, k>>} : sent'[s] = sent[s]
               /\ sent'[<<c, k>>] = (IF sent[<<c, k>>] # NoCall THEN sent[<<c, k>>] ELSE 0) + Size(d)
    <2>1. <<c, k>> \in Slots /\ Size(d) \in {0, 1}
      BY DEF Slots, Size
    <2>2. sent' = [sent EXCEPT ![<<c, k>>] =
                      (IF sent[<<c, k>>] # NoCall THEN sent[<<c, k>>] ELSE 0) + Size(d)]
      BY <1>9, <2>1 DEF Delta, Begins, Begun
    <2> QED
      BY <1>3, <1>9, <2>1, <2>2 DEF Delta, TypeOK
  <1>10. ASSUME NEW c \in Groups, NEW k \in Tools, NEW d \in {"name", "fragment"}, AccumulateDelta(c, k, d)
         PROVE  Tracked' /\ Strict' /\ CleanEnd'
    <2> DEFINE s == <<c, k>>
    <2>1. s \in Slots /\ s[1] = c /\ Delta(c, k, d)
      BY <1>10 DEF AccumulateDelta, Slots
    <2>2. /\ bufs'[s].args = (IF bufs[s] = NoBuf THEN 0 ELSE bufs[s].args) + Size(d)
          /\ \A r \in Slots \ {s} : bufs'[r] = bufs[r]
      BY <1>3, <1>10, <2>1 DEF AccumulateDelta, TypeOK
    <2>3. bufs[s] = NoBuf <=> bufs[s].args = NoCall
      BY <1>3, <2>1 DEF Filled, NoBuf, NoCall
    <2>4. c \in reported \/ sent'[s] = bufs'[s].args
      BY <1>3, <1>9, <2>1, <2>2, <2>3
    <2>5. \A r \in Slots : r[1] \in reported \/ sent'[r] = bufs'[r].args
      BY <1>3, <1>9, <2>1, <2>2, <2>4
    <2> QED
      BY <1>1, <1>3, <1>9, <1>10, <2>1, <2>5, EntryTracks DEF AccumulateDelta, Reading
  <1>11. ASSUME NEW c \in Groups, NEW k \in Tools, NEW d \in {"name", "fragment"}, RejectDelta(c, k, d)
         PROVE  Tracked' /\ Strict' /\ CleanEnd'
    <2>1. \A s \in Slots : s[1] # c => bufs'[s] = bufs[s]
      BY <1>11 DEF RejectDelta, WithoutChoice
    <2> QED
      BY <1>4, <1>9, <1>11, <2>1 DEF RejectDelta
  <1>12. ASSUME NEW c \in Groups, NEW k \in Tools, NEW d \in {"name", "fragment"}, SkipDelta(c, k, d)
         PROVE  Tracked' /\ Strict' /\ CleanEnd'
    <2>1. Delta(c, k, d) /\ c \in reported
      BY <1>3, <1>12 DEF SkipDelta
    <2>2. \A s \in Slots : s[1] \in reported \/ sent'[s] = bufs[s].args
      BY <1>3, <1>9, <2>1
    <2> QED
      BY <1>1, <1>3, <1>9, <1>12, <2>1, <2>2, EntryTracks DEF SkipDelta, Reading, buffers
  <1> QED
    BY <1>5, <1>6, <1>7, <1>8, <1>10, <1>11, <1>12

LEMMA DrainingTracks ==
    ASSUME IInv, NEW c \in Groups, DrainIgnored(c) \/ DrainUnreadable(c) \/ DrainChoice(c)
    PROVE  Tracked' /\ Strict' /\ CleanEnd'
  <1>1. Live /\ UNCHANGED kind
    BY OnlyTheLiving DEF Next, OpenAINext
  <1>2. /\ NextChoice(c) /\ pc = "inspect" /\ provider = "openai"
        /\ UNCHANGED <<sent, held, decided>>
    BY DEF DrainIgnored, DrainUnreadable, DrainChoice, NextChoice, Draining, Running
  <1>3. /\ TypeOK /\ Filled /\ Strict /\ Accounted /\ Assembled /\ ignored \subseteq reported
        /\ Enforced => reported = {} /\ submitted \subseteq approved
        /\ batch = {}
    BY <1>1, <1>2 DEF IInv, Tracked, Strict, TypeOK
  <1>4. Finished = {c} \cup Finished' /\ Due = Finished
    BY <1>2, <1>3, NextOfQueue DEF Due
  \* The calls of the other choices wait for their turn.
  <1>5. ASSUME pc' \in {"inspect", "decide"}, reported \subseteq reported', ignored' \subseteq reported',
               Enforced => reported' = {},
               \A s \in Slots : s[1] # c => bufs'[s] = bufs[s],
               c \in reported' \/ \A s \in Slots : s[1] = c => bufs'[s].args = NoCall,
               c \in reported' \/ \A h \in held : h.slot[1] = c /\ bufs[h.slot].args = h.args =>
                                      [slot |-> h.slot, args |-> h.args] \in batch'
        PROVE  Tracked' /\ Strict' /\ CleanEnd'
    <2>1. Due' = Finished'
      BY <1>5 DEF Due, Finished
    <2>2. Assembled'
      BY <1>2, <1>3, <1>4, <1>5, <2>1 DEF Assembled
    <2>3. \A h \in held : h.slot \in Slots
      BY <1>3 DEF TypeOK
    <2>4. Accounted'
      BY <1>2, <1>3, <1>4, <1>5, <2>1, <2>3 DEF Accounted, decided
    <2>5. Queued'
      BY <1>1, <1>2, <1>5 DEF Queued, kind
    <2> QED
      BY <1>1, <1>2, <1>3, <1>5, <2>2, <2>4, <2>5 DEF Tracked, Strict, CleanEnd, Enforced, kind, decided
  <1>6. CASE DrainIgnored(c)
    BY <1>2, <1>3, <1>5, <1>6 DEF DrainIgnored
  <1>7. CASE DrainUnreadable(c)
    <2>1. \A s \in Slots : s[1] # c => bufs'[s] = bufs[s]
      BY <1>7 DEF DrainUnreadable, WithoutChoice
    <2>2. CASE pc' = "inspect"
      <3>1. ~Enforced /\ reported' = reported \cup {c}
        BY <1>7, <2>2, ErrorIsSeen DEF DrainUnreadable
      <3> QED
        BY <1>3, <1>5, <1>7, <2>1, <2>2, <3>1 DEF DrainUnreadable
    <2>3. CASE pc' # "inspect"
      BY <1>1, <1>3, <1>7, <2>3, ErrorIsSeen, GoneIsTracked DEF DrainUnreadable, Ends
    <2> QED
      BY <2>2, <2>3
  <1>8. CASE DrainChoice(c)
    <2>1. \A s \in Slots : bufs'[s] = IF s[1] = c THEN NoBuf ELSE bufs[s]
      BY <1>8 DEF DrainChoice, WithoutChoice
    <2>2. \A h \in held : h.slot[1] = c /\ bufs[h.slot].args = h.args =>
              [slot |-> h.slot, args |-> h.args] \in batch'
      <3>1. \A h \in held : h.slot \in Slots /\ h.args # NoCall
        BY <1>3 DEF TypeOK, NoCall
      <3>2. \A h \in held : h.slot[1] = c /\ bufs[h.slot].args = h.args => h.slot \in OpenIn(c)
        BY <3>1 DEF OpenIn, Open, NoBuf
      <3> QED
        BY <1>8, <3>2 DEF DrainChoice, CallsIn
    <2> QED
      BY <1>3, <1>5, <1>8, <2>1, <2>2 DEF DrainChoice, Goto, NoBuf
  <1> QED
    BY <1>6, <1>7, <1>8

-----------------------------------------------------------------------------
(* The theorems.                                                           *)

LEMMA InitIInv == Init => IInv
  <1> SUFFICES ASSUME Init
               PROVE  IInv
    OBVIOUS
  <1>1. TypeOK
    BY DEF Init, TypeOK, NoBuf, Points
  <1>2. Filled /\ Open = {} /\ Buffered = {}
    BY StreamAssumption DEF Init, Filled, Open, Buffered, NoBuf, NoCall
  <1>3. Bounded
    BY <1>2, FS_EmptySet, StreamAssumption DEF Bounded
  <1>4. Tracked
    BY DEF Init, Tracked, Queued, Assembled, Accounted, Due, NoBuf
  <1>5. Strict /\ CleanEnd
    BY DEF Init, Strict, CleanEnd
  <1> QED
    BY <1>1, <1>2, <1>3, <1>4, <1>5 DEF IInv

LEMMA NextIInv ==
    ASSUME IInv, [Next]_vars
    PROVE  IInv'
  <1>1. CASE UNCHANGED vars
    <2> USE <1>1 DEF vars, kind, buffers, chunk, decided
    <2>1. Due' = Due /\ Open' = Open /\ Buffered' = Buffered /\ (Live' <=> Live)
      BY DEF Due, Finished, Open, Buffered, Live
    <2>2. TypeOK'
      BY DEF IInv, TypeOK
    <2>3. Filled' /\ Bounded'
      BY <2>1 DEF IInv, Filled, Bounded
    <2>4. Tracked'
      BY <2>1 DEF IInv, Tracked, Queued, Assembled, Accounted
    <2>5. Strict' /\ CleanEnd'
      BY <2>1 DEF IInv, Strict, CleanEnd, Enforced, Begun
    <2> QED
      BY <2>2, <2>3, <2>4, <2>5 DEF IInv
  <1>2. CASE Next
    <2>1. TypeOK' /\ Filled' /\ Bounded'
      BY <1>2, NextTypeOK, BuffersChange, DropsKeepBounds, FillsKeepBounds DEF IInv
    <2>2. Tracked' /\ Strict' /\ CleanEnd'
      BY <1>2, SharedTracks, AnthropicTracks, ReadingTracks, DrainingTracks DEF Next, OpenAINext
    <2> QED
      BY <2>1, <2>2 DEF IInv
  <1> QED
    BY <1>1, <1>2

\* In every state the buffers, the application's assembly and the decisions
\* agree, except where an error was reported.
THEOREM Invariant == Spec => []IInv
  BY InitIInv, NextIInv, PTL DEF Spec

\* Every variable has its type, and a decision is taken on at least one call.
THEOREM TypeCorrectness == Spec => []TypeOK
  <1>1. IInv => TypeOK
    BY DEF IInv
  <1> QED
    BY <1>1, Invariant, PTL

\* However many blocks, choices and tools the provider uses, the buffers stay
\* within their three limits.
THEOREM BuffersAreBounded == Spec => []BuffersBounded
  <1>1. IInv => BuffersBounded
    BY StreamAssumption DEF IInv, Filled, Bounded, BuffersBounded, NoBuf, NoCall
  <1> QED
    BY <1>1, Invariant, PTL

LEMMA ActionableIsAccounted ==
    ASSUME IInv, NEW a \in Actionable
    PROVE  a \in Call /\ (a \in submitted \/ a.slot[1] \in reported)
  <1>1. PICK h \in held : pc = "yield" /\ h.reason = "tool_calls" /\ a = [slot |-> h.slot, args |-> h.args]
    BY DEF Actionable, Closed
  <1>2. TypeOK /\ Accounted /\ Due = {} /\ batch = {}
    BY <1>1 DEF IInv, Tracked, Live, Ends, Due, TypeOK
  <1> QED
    BY <1>1, <1>2 DEF Accounted, TypeOK, Call

LEMMA ActionableIsAllowed == IInv => ClosedOnlyIfAllowed
  <1>1. Actionable # {} => Live
    BY DEF Actionable, Closed, Live, Ends
  <1> QED
    BY <1>1, ActionableIsAccounted DEF ClosedOnlyIfAllowed, IInv, Strict

\* In enforce mode a call that a streamed event completes was allowed with the
\* very arguments the application assembled.
THEOREM ClosedCallsAreAllowed == Spec => []ClosedOnlyIfAllowed
  BY ActionableIsAllowed, Invariant, PTL

\* In enforce mode a stream that ends without an exception leaves no call
\* half-shown.
THEOREM EndsAreClean == Spec => []CleanEnd
  <1>1. IInv => CleanEnd
    BY DEF IInv
  <1> QED
    BY <1>1, Invariant, PTL

\* In observe mode a call that was not submitted as the application got it is
\* in a block or choice with a reported error.
THEOREM ObservationMissesNothing == Spec => []NothingSilent
  <1>1. IInv => NothingSilent
    BY ActionableIsAccounted DEF NothingSilent
  <1> QED
    BY <1>1, Invariant, PTL

-----------------------------------------------------------------------------
(* The gate.                                                               *)

\* ClosedOnlyIfAllowed, in the form of the gate's Release.
Releasable == Actionable \subseteq (IF Enforced THEN approved ELSE Call)

LEMMA ActionableIsReleasable == IInv => Releasable
  BY ActionableIsAccounted, ActionableIsAllowed DEF Releasable, ClosedOnlyIfAllowed

\* A generator that lives may go on or stop.
LEMMA MayStop ==
    ASSUME NEW point, ~(point \in Ends)
    PROVE  \A p \in BOOLEAN : p \in {(point \in Ends), TRUE}
  <1>1. (point \in Ends) = FALSE
    OBVIOUS
  <1> QED
    BY <1>1

LEMMA GateSteps ==
    ASSUME IInv, [Next]_vars
    PROVE  [Gate!Next]_(Gate!gate)
  <1>1. IInv'
    BY NextIInv
  <1>2. Releasable'
    BY <1>1, ActionableIsReleasable, PTL
  <1>3. CASE UNCHANGED vars
    BY <1>3 DEF vars, kind, decided, Gate!gate, Enforced, Actionable, Closed
  <1>4. CASE Next
    <2>1. pc \notin Ends /\ Enforced' = Enforced
      BY <1>4, OnlyTheLiving DEF Live, Enforced, kind
    <2>2. CASE Allowed
      <3>1. Actionable = {} /\ Actionable' = {}
        BY <2>2 DEF Allowed, Goto, Actionable, Closed
      <3>2. approved' \in SUBSET Call /\ approved \subseteq approved'
        BY <2>2 DEF Allowed, IInv, TypeOK
      <3>3. (pc \in Ends)' \in {(pc \in Ends), TRUE}
        BY <2>1, MayStop
      <3> QED
        BY <2>1, <3>1, <3>2, <3>3 DEF Gate!Next, Gate!Grant
    <2>3. CASE Resume
      <3>1. Actionable' = {} /\ approved' = {} /\ pc' \notin Ends
        BY <2>3 DEF Resume, Goto, Actionable, Closed, Ends
      <3>2. (pc \in Ends)' \in {(pc \in Ends), TRUE}
        BY <2>1, MayStop
      <3> QED
        BY <2>1, <3>1, <3>2 DEF Gate!Next, Gate!Reset
    <2>4. CASE approved' = approved
      <3>1. Actionable' \in SUBSET (IF Enforced THEN approved ELSE Call)
        BY <1>2, <2>1, <2>4 DEF Releasable
      <3> QED
        BY <2>1, <2>4, <3>1 DEF Gate!Next, Gate!Release
    <2>5. Allowed \/ Resume \/ approved' = approved
      <3>1. Shared => Allowed \/ Resume \/ approved' = approved
        BY DEF Shared, Refused, InspectionFails, ClientUnusable, Yield, UpstreamEnds, UpstreamRaises,
               Abandon, decided
      <3>2. AnthropicNext => approved' = approved
        BY DEF AnthropicNext, UnplacedBlock, OpenBlock, RejectBlock, MalformedBlock, AppendFragment,
               RejectFragment, PassFragment, CloseIgnored, CloseUnreadable, CloseBlock, CloseUnknown, decided
      <3>3. OpenAINext => approved' = approved
        BY DEF OpenAINext, TakeChunk, MalformedChunk, EndChunk, MalformedDelta, FinishChoice, FinishOtherwise,
               AccumulateDelta, RejectDelta, SkipDelta, DrainIgnored, DrainUnreadable, DrainChoice, decided
      <3> QED
        BY <1>4, <3>1, <3>2, <3>3 DEF Next
    <2> QED
      BY <2>2, <2>3, <2>4, <2>5
  <1> QED
    BY <1>3, <1>4

\* A stream of either provider implements the abstract gate: nothing is
\* released but what was granted in enforce mode, and nothing after the end.
THEOREM StreamsAreGates == Spec => ImplementsGate
  <1>1. Init => Gate!Init
    BY DEF Init, Gate!Init, Enforced, Actionable, Closed, Ends
  <1>2. IInv /\ [Next]_vars => [Gate!Next]_(Gate!gate)
    BY GateSteps
  <1> QED
    BY <1>1, <1>2, Invariant, PTL DEF Spec, ImplementsGate, Gate!Spec
=============================================================================
