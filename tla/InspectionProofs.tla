-------------------------- MODULE InspectionProofs --------------------------
(* Theorems about Inspection, for every value of its constants.            *)
EXTENDS Inspection, FiniteSetTheorems, TLAPS

-----------------------------------------------------------------------------
(* The inductive invariant.                                                *)

NoHooks == [verdict |-> 0, error |-> 0]
Extracted == {"begin", "attempt", "waiting", "verdict", "failed"}

\* Where a turn is says what was extracted, asked, received and reported.
Stage(t) ==
    /\ outcome[t] = "none" <=> pc[t] # "done"
    /\ pc[t] = "extract" => calls[t] = {}
    /\ pc[t] \in {"extract", "begin"} => id[t] = 0
    /\ pc[t] \in {"attempt", "waiting", "verdict"} => id[t] # 0
    /\ pc[t] \in Extracted =>
          Readable(answer[t]) /\ calls[t] = Calls(answer[t]) /\ calls[t] # {}
    /\ pc[t] \notin {"verdict", "done"} => verdict[t] = "none"
    /\ pc[t] = "verdict" => Wrapped(t) /\ verdict[t] # "none" /\ Decided(t, verdict[t])
    /\ pc[t] = "failed" => Wrapped(t) /\ ~Enforced(t)
    /\ pc[t] \in {"extract", "begin", "attempt", "waiting"} => hooks[t] = NoHooks
    /\ pc[t] = "verdict" => hooks[t].error = 0 /\ hooks[t].verdict < Count(t)
    /\ pc[t] = "failed" => hooks[t].verdict = 0 /\ hooks[t].error < Count(t)
    /\ ~Wrapped(t) => OneCall(answer[t])

\* How a turn ended was justified: ReleasedOnlyIfAllowed and ReportedInFull,
\* for one turn.
Justified(t) ==
    /\ outcome[t] = "released" /\ Enforced(t) =>
          IF Calls(answer[t]) \cup Malformed(answer[t]) = {}
          THEN \A c \in Choices : ~answer[t][c].declared
          ELSE /\ Malformed(answer[t]) = {} /\ calls[t] = Calls(answer[t])
               /\ Decided(t, "allow")
    /\ outcome[t] = "released" /\ id[t] # 0 =>
          hooks[t] \in {[verdict |-> Count(t), error |-> 0], [verdict |-> 0, error |-> Count(t)]}
    /\ ~Enforced(t) /\ Wrapped(t) => outcome[t] \notin Refusals \cup {"transport_error"}

\* An idempotency id belongs to one turn, for good, and has one verdict;
\* answers that carry a verdict repeat it.
Allocated ==
    /\ \A t, u \in Turns : id[t] = id[u] /\ id[t] # 0 => t = u
    /\ \A m \in wire : m.id = id[m.turn] /\ m.id # 0
    /\ \A d \in decisions : d.id = id[d.turn] /\ d.id # 0
    /\ \A d, e \in decisions : d.id = e.id => d.verdict = e.verdict
    /\ \A a \in answers : a.kind \in Verdicts => Decided(a.turn, a.kind)

IInv ==
    /\ TypeOK
    /\ \A t \in Turns : Stage(t)
    /\ \A t \in Turns : Justified(t)
    /\ Allocated

LEMMA Properties ==
    ASSUME IInv
    PROVE  ReleasedOnlyIfAllowed /\ ReportedInFull /\ SingleDecision
  <1>1. ReleasedOnlyIfAllowed /\ ReportedInFull
    BY DEF IInv, Justified, ReleasedOnlyIfAllowed, ReportedInFull
  <1>2. SingleDecision
    <2> SUFFICES ASSUME NEW d \in decisions, NEW e \in decisions, d.turn = e.turn
                 PROVE  d = e
      BY DEF SingleDecision
    <2>1. d \in [turn: Turns, id: Nat, verdict: Verdicts] /\ e \in [turn: Turns, id: Nat, verdict: Verdicts]
      BY DEF IInv, TypeOK
    <2>2. d.id = e.id /\ d.verdict = e.verdict
      BY DEF IInv, Allocated
    <2> QED
      BY <2>1, <2>2
  <1> QED
    BY <1>1, <1>2

-----------------------------------------------------------------------------
(* Lemmas about the answers of a provider.                                 *)

\* The calls of an answer can be counted, and a readable answer with no call in
\* it neither declares nor hides one.
LEMMA CallsCount ==
    ASSUME NEW a \in Answers
    PROVE  /\ IsFiniteSet(Calls(a))
           /\ Cardinality(Calls(a)) \in 0 .. Width
           /\ Calls(a) # {} => Cardinality(Calls(a)) # 0
           /\ Calls(a) \subseteq Choices \X (1 .. Width)
           /\ Malformed(a) \subseteq Choices \X (0 .. Width)
           /\ Calls(a) \subseteq Choices \X (0 .. Width)
  <1>1. IsFiniteSet(Choices) /\ IsFiniteSet(1 .. Width)
    BY ExtractionAssumption, FS_Interval
  <1>2. IsFiniteSet(Choices \X (1 .. Width))
    BY <1>1, FS_Product
  <1>3. Calls(a) \subseteq Choices \X (1 .. Width)
    BY DEF Calls
  <1>4. IsFiniteSet(Calls(a))
    BY <1>2, <1>3, FS_Subset
  <1>5. Cardinality(Calls(a)) \in Nat /\ Cardinality(Calls(a)) <= Width
    BY <1>4, FS_CardinalityType DEF Answers
  <1>6. Calls(a) # {} => Cardinality(Calls(a)) # 0
    BY <1>4, FS_EmptySet
  <1>7. Malformed(a) \subseteq Choices \X (0 .. Width) /\ Calls(a) \subseteq Choices \X (0 .. Width)
    BY ExtractionAssumption DEF Malformed, Calls
  <1> QED
    BY <1>3, <1>4, <1>5, <1>6, <1>7, ExtractionAssumption

LEMMA ReadableFacts ==
    ASSUME NEW a \in Answers, Readable(a)
    PROVE  /\ Malformed(a) = {}
           /\ Calls(a) = {} => \A c \in Choices : ~a[c].declared
  <1>1. Malformed(a) = {}
    BY DEF Readable, Sound, Malformed
  <1>2. ASSUME NEW c \in Choices, a[c].declared
        PROVE  <<c, 1>> \in Calls(a)
    <2>1. a[c].calls > 0 /\ a[c].calls \in 0 .. Width
      BY <1>2 DEF Readable, Sound, Answers, Choice
    <2> QED
      BY <2>1, ExtractionAssumption DEF Calls
  <1> QED
    BY <1>1, <1>2

LEMMA OneCallFacts ==
    ASSUME NEW a \in Answers, OneCall(a)
    PROVE  Readable(a) /\ Calls(a) # {}
  <1>1. ASSUME NEW c \in Choices
        PROVE  Sound(a[c])
    <2>1. PICK n : a[c] = [shape |-> "readable", declared |-> FALSE, calls |-> n, malformed |-> FALSE]
      BY DEF OneCall
    <2>2. a[c].shape = "readable" /\ a[c].declared = FALSE /\ a[c].malformed = FALSE
      BY <2>1
    <2> QED
      BY <2>2 DEF Sound
  <1>2. Calls(a) # {}
    BY FS_EmptySet DEF OneCall
  <1> QED
    BY <1>1, <1>2 DEF Readable

-----------------------------------------------------------------------------
(* One turn's step leaves the others alone.                                *)

LEMMA InitIInv == Init => IInv
  <1> SUFFICES ASSUME Init
               PROVE  IInv
    OBVIOUS
  <1>1. TypeOK
    BY InspectionAssumption, ExtractionAssumption DEF Init, TypeOK, Points, Outcomes
  <1>2. \A t \in Turns : Stage(t)
    BY DEF Init, Stage, NoHooks, Extracted
  <1>3. \A t \in Turns : Justified(t)
    BY DEF Init, Justified, Refusals
  <1>4. Allocated
    BY DEF Init, Allocated
  <1> QED
    BY <1>1, <1>2, <1>3, <1>4 DEF IInv

\* What is true of a turn stays true while it rests: decisions are only added.
LEMMA OthersRest ==
    ASSUME NEW t \in Turns, Stage(t), Justified(t),
           UNCHANGED turn, decisions \subseteq decisions',
           calls'[t] = calls[t], pc'[t] = pc[t], id'[t] = id[t], verdict'[t] = verdict[t],
           hooks'[t] = hooks[t], outcome'[t] = outcome[t]
    PROVE  Stage(t)' /\ Justified(t)'
  <1>1. \A v \in Verdicts \cup {"none"} : Decided(t, v) => Decided(t, v)'
    BY DEF Decided
  <1>2. UNCHANGED <<mode[t], surface[t], answer[t]>>
    BY DEF turn
  <1>3. (Enforced(t)' <=> Enforced(t)) /\ (Wrapped(t)' <=> Wrapped(t)) /\ Count(t)' = Count(t)
    BY <1>2 DEF Enforced, Wrapped, Count
  <1>4. Decided(t, verdict[t]) => Decided(t, verdict[t])'
    BY DEF Decided
  <1>5. Stage(t)'
    BY <1>2, <1>3, <1>4 DEF Stage
  <1>6. Justified(t)'
    BY <1>1, <1>2, <1>3 DEF Justified, Verdicts
  <1> QED
    BY <1>5, <1>6

\* A step of turn t, which may put its submission on the wire.
TurnStep(t) ==
    /\ \A u \in Turns \ {t} :
          /\ calls'[u] = calls[u] /\ pc'[u] = pc[u] /\ verdict'[u] = verdict[u]
          /\ hooks'[u] = hooks[u] /\ outcome'[u] = outcome[u]
    /\ UNCHANGED <<turn, id, decisions, answers>>
    /\ \A m \in wire' : m \in wire \/ (m.turn = t /\ m.id = id[t] /\ m.id # 0)

LEMMA TurnStepIInv ==
    ASSUME IInv, NEW t \in Turns, TurnStep(t), TypeOK', Stage(t)', Justified(t)'
    PROVE  IInv'
  <1>1. \A u \in Turns \ {t} : Stage(u)' /\ Justified(u)'
    BY OthersRest DEF IInv, TurnStep
  <1>2. Allocated'
    BY DEF IInv, Allocated, TurnStep, Decided
  <1> QED
    BY <1>1, <1>2 DEF IInv

\* What a step may do to what a turn has extracted, received and reported.
Typed(t) ==
    /\ calls' \in [Turns -> SUBSET (Choices \X (1 .. Width))]
    /\ attempt' \in [Turns -> 0 .. MaxAttempts - 1]
    /\ verdict' \in [Turns -> Verdicts \cup {"none"}]
    /\ hooks' \in [Turns -> [verdict: 0 .. Width, error: 0 .. Width]]
    /\ wire' \subseteq Submissions
    /\ \A u \in Turns \ {t} :
          calls'[u] = calls[u] /\ verdict'[u] = verdict[u] /\ hooks'[u] = hooks[u]
    /\ UNCHANGED <<turn, id, lastId, decisions, answers>>
    /\ \A m \in wire' : m \in wire \/ (m.turn = t /\ m.id = id[t] /\ m.id # 0)

\* A turn that goes on, at a place that what it holds justifies.
LEMMA GotoIInv ==
    ASSUME IInv, NEW t \in Turns, NEW p \in Points \ {"done"}, Goto(t, p), Typed(t), pc[t] # "done",
           Stage(t)'
    PROVE  IInv'
  <1>1. pc' = [pc EXCEPT ![t] = p] /\ outcome' = outcome /\ outcome[t] = "none"
    BY DEF Goto, IInv, Stage
  <1>2. TypeOK'
    BY <1>1 DEF IInv, TypeOK, Typed, turn
  <1>3. Justified(t)'
    BY <1>1 DEF Justified, Refusals
  <1>4. TurnStep(t)
    BY <1>1 DEF IInv, TypeOK, TurnStep, Typed
  <1> QED
    BY <1>2, <1>3, <1>4, TurnStepIInv

\* A turn that ends, if how it ends is justified.
LEMMA EndIInv ==
    ASSUME IInv, NEW t \in Turns, NEW how \in Outcomes \ {"none"}, End(t, how), Typed(t), Justified(t)'
    PROVE  IInv'
  <1>1. pc' = [pc EXCEPT ![t] = "done"] /\ outcome' = [outcome EXCEPT ![t] = how]
    BY DEF End
  <1>2. TypeOK'
    BY <1>1 DEF IInv, TypeOK, Typed, turn, Points
  <1>3. /\ pc'[t] = "done" /\ outcome'[t] = how /\ how # "none"
        /\ \A u \in Turns \ {t} : pc'[u] = pc[u] /\ outcome'[u] = outcome[u]
    BY <1>1 DEF IInv, TypeOK
  <1>4. Stage(t)'
    BY <1>3 DEF IInv, Stage, Extracted, Typed, turn, Wrapped
  <1>5. TurnStep(t)
    BY <1>3 DEF TurnStep, Typed
  <1> QED
    BY <1>2, <1>4, <1>5, TurnStepIInv

\* An exception is justified unless it blocks an observed answer.
LEMMA RaiseIInv ==
    ASSUME IInv, NEW t \in Turns, NEW how \in Outcomes \ {"none", "released"}, End(t, how), Typed(t),
           how \in Refusals \cup {"transport_error"} => Enforced(t) \/ ~Wrapped(t)
    PROVE  IInv'
  <1>1. outcome'[t] = how
    BY DEF IInv, TypeOK, End
  <1>2. Justified(t)'
    BY <1>1 DEF Justified, Typed, turn, Enforced, Wrapped
  <1> QED
    BY <1>2, EndIInv

LEMMA TypedByRest ==
    ASSUME TypeOK, NEW t \in Turns, UNCHANGED <<turn, calls, id, attempt, verdict, hooks, lastId, gateway>>
    PROVE  Typed(t)
  BY DEF TypeOK, Typed, gateway

LEMMA OutcomeFacts ==
    /\ Refusals \subseteq Verdicts /\ Refusals = Verdicts \ {"allow"}
    /\ {"deny", "pending", "rate_limited", "transport_error", "client_error", "hook_error", "cancelled",
        "executed", "answered"} \subseteq Outcomes \ {"none", "released"}
    /\ Refusals \subseteq Outcomes \ {"none", "released"}
    /\ "released" \in Outcomes \ {"none"}
    /\ {"client_error", "hook_error", "cancelled", "executed", "answered"}
          \cap (Refusals \cup {"transport_error"}) = {}
    /\ Extracted \cup {"extract"} \subseteq Points \ {"done"}
  BY DEF Refusals, Verdicts, Outcomes, Points, Extracted

-----------------------------------------------------------------------------
(* Each action.                                                            *)

LEMMA ExtractIInv ==
    ASSUME IInv, NEW t \in Turns, Extract(t)
    PROVE  IInv'
  <1> DEFINE a == answer[t]
  <1>1. /\ a \in Answers /\ Readable(a) /\ pc[t] = "extract"
        /\ calls' = [calls EXCEPT ![t] = Calls(a)]
        /\ UNCHANGED <<turn, id, attempt, verdict, hooks, lastId, gateway>>
    BY DEF IInv, TypeOK, Extract
  <1>2. /\ Malformed(a) = {} /\ (Calls(a) = {} => \A c \in Choices : ~a[c].declared)
        /\ Calls(a) \subseteq Choices \X (1 .. Width) /\ Cardinality(Calls(a)) \in Nat
        /\ Calls(a) # {} => Cardinality(Calls(a)) > 0
    <2> HIDE DEF a
    <2>1. Malformed(a) = {} /\ (Calls(a) = {} => \A c \in Choices : ~a[c].declared)
      BY <1>1, ReadableFacts
    <2>2. /\ Calls(a) \subseteq Choices \X (1 .. Width) /\ Cardinality(Calls(a)) \in 0 .. Width
          /\ Calls(a) # {} => Cardinality(Calls(a)) # 0
      BY <1>1, CallsCount
    <2> QED
      BY <2>1, <2>2, ExtractionAssumption
  <1>3. calls'[t] = Calls(a) /\ answer' = answer /\ mode' = mode /\ surface' = surface
    BY <1>1 DEF IInv, TypeOK, turn
  <1>4. Typed(t)
    BY <1>1, <1>2 DEF IInv, TypeOK, Typed, gateway
  <1>5. /\ id[t] = 0 /\ hooks[t] = NoHooks /\ verdict[t] = "none" /\ (~Wrapped(t) => OneCall(a))
        /\ outcome[t] = "none"
    BY <1>1 DEF IInv, Stage
  <1>6. CASE End(t, "released") /\ Calls(a) = {}
    <2>1. outcome'[t] = "released" /\ id'[t] = 0
      BY <1>1, <1>5, <1>6 DEF IInv, TypeOK, End
    <2>2. Justified(t)'
      BY <1>2, <1>3, <1>6, <2>1 DEF Justified, Refusals
    <2> QED
      BY <1>4, <1>6, <2>2, EndIInv, OutcomeFacts
  <1>7. CASE Goto(t, "begin") /\ Calls(a) # {}
    <2>1. pc'[t] = "begin" /\ outcome' = outcome
      BY <1>7 DEF IInv, TypeOK, Goto
    <2>2. Stage(t)'
      BY <1>1, <1>3, <1>5, <1>7, <2>1 DEF Stage, Extracted, NoHooks, Wrapped, Enforced
    <2>3. "begin" \in Points \ {"done"}
      BY DEF Points
    <2> QED
      BY <1>1, <1>4, <1>7, <2>2, <2>3, GotoIInv
  <1> QED
    BY <1>3, <1>6, <1>7 DEF Extract

\* Single calls are always readable, so only a wrapped answer can fail here.
LEMMA UnreadableIsWrapped ==
    ASSUME IInv, NEW t \in Turns, ~Readable(answer[t])
    PROVE  Wrapped(t)
  BY OneCallFacts DEF IInv, TypeOK, Stage

LEMMA ExtractionFailsIInv ==
    ASSUME IInv, NEW t \in Turns, ExtractionFails(t)
    PROVE  IInv'
  <1>1. /\ pc[t] = "extract" /\ ~Readable(answer[t]) /\ id[t] = 0
        /\ UNCHANGED <<turn, calls, id, attempt, verdict, lastId, gateway>>
    BY DEF ExtractionFails, IInv, Stage
  <1>2. CASE End(t, "transport_error") /\ UNCHANGED hooks /\ Enforced(t)
    BY <1>1, <1>2, TypedByRest, RaiseIInv, OutcomeFacts DEF IInv
  <1>3. ASSUME ~Enforced(t), NEW how \in {"released", "hook_error", "cancelled"}, End(t, how),
               hooks' = [hooks EXCEPT ![t].error = 1]
        PROVE  IInv'
    <2>1. Typed(t)
      BY <1>1, <1>3, ExtractionAssumption DEF IInv, TypeOK, Typed, gateway
    <2>2. outcome'[t] = how /\ ~Enforced(t)' /\ id'[t] = 0
      BY <1>1, <1>3 DEF IInv, TypeOK, End, turn, Enforced
    <2>3. Justified(t)'
      BY <2>2 DEF Justified, Refusals
    <2> QED
      BY <1>3, <2>1, <2>3, EndIInv, OutcomeFacts
  <1> QED
    BY <1>2, <1>3 DEF ExtractionFails

\* The new id is larger than every id in use.
LEMMA BeginDecisionIInv ==
    ASSUME IInv, NEW t \in Turns, BeginDecision(t)
    PROVE  IInv'
  <1>1. /\ pc[t] = "begin" /\ lastId' = lastId + 1 /\ id' = [id EXCEPT ![t] = lastId + 1]
        /\ pc' = [pc EXCEPT ![t] = "attempt"] /\ id[t] = 0 /\ lastId \in Nat
        /\ UNCHANGED <<turn, calls, attempt, verdict, hooks, outcome, wire, answers, decisions>>
    BY DEF IInv, TypeOK, Stage, BeginDecision, Goto, gateway
  <1>2. /\ id'[t] = lastId + 1 /\ id'[t] # 0 /\ pc'[t] = "attempt"
        /\ \A u \in Turns \ {t} : id'[u] = id[u] /\ pc'[u] = pc[u] /\ id[u] # lastId + 1
    BY <1>1 DEF IInv, TypeOK
  <1>3. TypeOK'
    BY <1>1 DEF IInv, TypeOK, turn, Points
  <1>4. Stage(t)' /\ Justified(t)'
    BY <1>1, <1>2 DEF IInv, Stage, Justified, Extracted, turn, Wrapped, Enforced, Refusals
  <1>5. \A u \in Turns \ {t} : Stage(u)' /\ Justified(u)'
    BY <1>1, <1>2, OthersRest DEF IInv
  <1>6. Allocated'
    <2>1. /\ \A m \in wire : m.turn \in Turns /\ m.turn # t
          /\ \A d \in decisions : d.turn \in Turns /\ d.turn # t
      BY <1>1 DEF IInv, TypeOK, Submissions, Allocated
    <2> QED
      BY <1>1, <1>2, <2>1 DEF IInv, Allocated, Decided
  <1> QED
    BY <1>3, <1>4, <1>5, <1>6 DEF IInv

LEMMA CountFacts ==
    ASSUME IInv, NEW t \in Turns, pc[t] \in Extracted
    PROVE  Count(t) \in 1 .. Width /\ Width \in Nat
  <1>1. answer[t] \in Answers /\ calls[t] = Calls(answer[t]) /\ calls[t] # {}
    BY DEF IInv, TypeOK, Stage
  <1>2. Cardinality(calls[t]) \in 0 .. Width /\ Cardinality(calls[t]) # 0
    BY <1>1, CallsCount
  <1> QED
    BY <1>2, ExtractionAssumption DEF Count

\* An error raised in enforce mode, or reported call by call in observe mode.
LEMMA FailIInv ==
    ASSUME IInv, NEW t \in Turns, Fail(t), pc[t] \in {"begin", "waiting"},
           UNCHANGED <<turn, calls, id, attempt, verdict, hooks, lastId, gateway>>
    PROVE  IInv'
  <1>1. Typed(t)
    BY TypedByRest DEF IInv
  <1>2. CASE (Enforced(t) \/ ~Wrapped(t)) /\ End(t, "transport_error")
    BY <1>1, <1>2, RaiseIInv, OutcomeFacts
  <1>3. CASE ~Enforced(t) /\ Wrapped(t) /\ Goto(t, "failed")
    <2>1. pc'[t] = "failed" /\ outcome' = outcome
      BY <1>3 DEF IInv, TypeOK, Goto
    <2>2. Count(t) > 0 /\ pc[t] \in Extracted
      BY CountFacts DEF Extracted
    <2>3. Stage(t)'
      BY <1>3, <2>1, <2>2 DEF IInv, Stage, Extracted, NoHooks, Wrapped, Enforced, Count, turn
    <2> QED
      BY <1>1, <1>3, <2>3, GotoIInv, OutcomeFacts DEF Extracted
  <1> QED
    BY <1>2, <1>3 DEF Fail

LEMMA SendIInv ==
    ASSUME IInv, NEW t \in Turns, Send(t)
    PROVE  IInv'
  <1> DEFINE m == [turn |-> t, id |-> id[t], attempt |-> attempt[t]]
  <1>1. /\ pc[t] = "attempt" /\ Goto(t, "waiting") /\ wire' = wire \cup {m}
        /\ UNCHANGED <<turn, calls, id, attempt, verdict, hooks, lastId, answers, decisions>>
    BY DEF Send
  <1>2. m \in Submissions /\ m.turn = t /\ m.id = id[t] /\ id[t] # 0
    BY <1>1 DEF IInv, TypeOK, Stage, Submissions
  <1> HIDE DEF m
  <1>3. Typed(t)
    BY <1>1, <1>2 DEF IInv, TypeOK, Typed
  <1>4. pc'[t] = "waiting" /\ outcome' = outcome
    BY <1>1 DEF IInv, TypeOK, Goto
  <1>5. Stage(t)'
    BY <1>1, <1>4 DEF IInv, Stage, Extracted, turn, Wrapped, Enforced
  <1> QED
    BY <1>1, <1>3, <1>5, GotoIInv, OutcomeFacts DEF Extracted

\* A verdict that is received was decided by the gateway on this very turn.
LEMMA ReceivedIsDecided ==
    ASSUME IInv, NEW t \in Turns, NEW v \in Verdicts, AnswerTo(t, {v})
    PROVE  Decided(t, v)
  BY DEF IInv, Allocated, AnswerTo

LEMMA ReceiveVerdictIInv ==
    ASSUME IInv, NEW t \in Turns, ReceiveVerdict(t)
    PROVE  IInv'
  <1>1. PICK v \in Verdicts : /\ AnswerTo(t, {v})
                              /\ verdict' = [verdict EXCEPT ![t] = v]
                              /\ Act(t, v)
    BY DEF ReceiveVerdict
  <1>2. /\ pc[t] = "waiting" /\ Decided(t, v) /\ v # "none"
        /\ UNCHANGED <<turn, calls, id, attempt, hooks, lastId, gateway>>
    BY <1>1, ReceivedIsDecided DEF ReceiveVerdict, Verdicts
  <1>3. Typed(t) /\ verdict'[t] = v
    BY <1>1, <1>2 DEF IInv, TypeOK, Typed, gateway
  <1>4. surface[t] \in Surfaces
    BY DEF IInv, TypeOK
  <1>5. CASE surface[t] = "create"
    <2>1. Goto(t, "verdict")
      BY <1>1, <1>5 DEF Act
    <2>2. pc'[t] = "verdict" /\ outcome' = outcome
      BY <2>1 DEF IInv, TypeOK, Goto
    <2>3. Count(t) > 0
      BY <1>2, CountFacts DEF Extracted
    <2>4. Decided(t, v)'
      BY <1>2 DEF Decided, gateway
    <2>5. Stage(t)'
      BY <1>2, <1>3, <1>5, <2>2, <2>3, <2>4
      DEF IInv, Stage, Extracted, NoHooks, turn, Wrapped, Enforced, Count
    <2> QED
      BY <1>2, <1>3, <2>1, <2>5, GotoIInv, OutcomeFacts DEF Extracted
  <1>6. CASE surface[t] # "create"
    <2>1. PICK how \in {"executed", "answered"} : End(t, how)
      BY <1>1, <1>4, <1>6 DEF Act, Dispatch, RunTool, Surfaces
    <2> QED
      BY <1>3, <2>1, RaiseIInv, OutcomeFacts
  <1> QED
    BY <1>5, <1>6

LEMMA AttemptFailsIInv ==
    ASSUME IInv, NEW t \in Turns, AttemptFails(t)
    PROVE  IInv'
  <1>1. pc[t] = "waiting" /\ UNCHANGED <<turn, calls, id, verdict, hooks, lastId, gateway>>
    BY DEF AttemptFails
  <1>2. CASE Fail(t) /\ UNCHANGED attempt
    BY <1>1, <1>2, FailIInv
  <1>3. CASE Goto(t, "attempt") /\ attempt[t] + 1 < MaxAttempts /\ attempt' = [attempt EXCEPT ![t] = @ + 1]
    <2>1. Typed(t)
      BY <1>1, <1>3, InspectionAssumption DEF IInv, TypeOK, Typed, gateway
    <2>2. pc'[t] = "attempt" /\ outcome' = outcome
      BY <1>3 DEF IInv, TypeOK, Goto
    <2>3. Stage(t)'
      BY <1>1, <2>2 DEF IInv, Stage, Extracted, turn, Wrapped, Enforced
    <2> QED
      BY <1>1, <1>3, <2>1, <2>3, GotoIInv, OutcomeFacts DEF Extracted
  <1> QED
    BY <1>2, <1>3 DEF AttemptFails, Retry

\* on_verdict fires once for each call, up to the one that is refused.
LEMMA FireVerdictIInv ==
    ASSUME IInv, NEW t \in Turns, FireVerdict(t)
    PROVE  IInv'
  <1>1. /\ pc[t] = "verdict" /\ hooks' = [hooks EXCEPT ![t].verdict = @ + 1]
        /\ UNCHANGED <<turn, calls, id, attempt, verdict, lastId, gateway>>
    BY DEF FireVerdict
  <1>2. /\ hooks[t].error = 0 /\ hooks[t].verdict < Count(t) /\ Wrapped(t)
        /\ verdict[t] # "none" /\ Decided(t, verdict[t]) /\ Readable(answer[t])
        /\ calls[t] = Calls(answer[t]) /\ calls[t] # {} /\ answer[t] \in Answers
        /\ verdict[t] \in Verdicts
    BY <1>1 DEF IInv, TypeOK, Stage, Extracted
  <1>3. Count(t) \in 1 .. Width /\ Width \in Nat
    BY <1>1, CountFacts DEF Extracted
  <1>4. /\ hooks'[t] = [verdict |-> hooks[t].verdict + 1, error |-> 0]
        /\ hooks[t].verdict + 1 \in 0 .. Width
        /\ hooks[t].verdict + 1 <= Count(t)
    <2>1. hooks[t] \in [verdict: 0 .. Width, error: 0 .. Width]
      BY DEF IInv, TypeOK
    <2> QED
      BY <1>1, <1>2, <1>3, <2>1 DEF IInv, TypeOK
  <1>5. Typed(t)
    <2>1. hooks' \in [Turns -> [verdict: 0 .. Width, error: 0 .. Width]]
      BY <1>1, <1>3, <1>4 DEF IInv, TypeOK
    <2> QED
      BY <1>1, <2>1 DEF IInv, TypeOK, Typed, gateway
  <1>6. CASE Enforced(t) /\ verdict[t] \in Refusals /\ End(t, verdict[t])
    BY <1>5, <1>6, RaiseIInv, OutcomeFacts
  <1>7. CASE /\ ~(Enforced(t) /\ verdict[t] \in Refusals)
             /\ hooks'[t].verdict = Count(t) /\ End(t, "released")
    <2>1. outcome'[t] = "released"
      BY <1>7 DEF IInv, TypeOK, End
    <2>2. hooks'[t] = [verdict |-> Count(t), error |-> 0]
      BY <1>4, <1>7
    <2>3. Enforced(t) => Decided(t, "allow")'
      BY <1>1, <1>2, <1>7, OutcomeFacts DEF Decided, gateway
    <2>4. Malformed(answer[t]) = {}
      BY <1>2, ReadableFacts
    <2>5. Justified(t)'
      BY <1>1, <1>2, <2>1, <2>2, <2>3, <2>4, OutcomeFacts DEF Justified, turn, Enforced, Wrapped, Count, Outcomes, Refusals
    <2> QED
      BY <1>5, <1>7, <2>5, EndIInv, OutcomeFacts
  <1>8. CASE hooks'[t].verdict # Count(t) /\ Goto(t, "verdict")
    <2>1. pc'[t] = "verdict" /\ outcome' = outcome
      BY <1>8 DEF IInv, TypeOK, Goto
    <2>2. hooks'[t].error = 0 /\ hooks'[t].verdict < Count(t)
      BY <1>3, <1>4, <1>8
    <2>3. Stage(t)'
      BY <1>1, <2>1, <2>2 DEF IInv, Stage, Extracted, turn, Wrapped, Enforced, Count, Decided, gateway
    <2> QED
      BY <1>1, <1>5, <1>8, <2>3, GotoIInv, OutcomeFacts DEF Extracted
  <1> QED
    BY <1>6, <1>7, <1>8 DEF FireVerdict

LEMMA FirePolicyErrorIInv ==
    ASSUME IInv, NEW t \in Turns, FirePolicyError(t)
    PROVE  IInv'
  <1>1. /\ pc[t] = "failed" /\ hooks' = [hooks EXCEPT ![t].error = @ + 1]
        /\ UNCHANGED <<turn, calls, id, attempt, verdict, lastId, gateway>>
    BY DEF FirePolicyError
  <1>2. hooks[t].verdict = 0 /\ hooks[t].error < Count(t) /\ Wrapped(t) /\ ~Enforced(t)
    BY <1>1 DEF IInv, Stage
  <1>3. Count(t) \in 1 .. Width /\ Width \in Nat
    BY <1>1, CountFacts DEF Extracted
  <1>4. /\ hooks'[t] = [verdict |-> 0, error |-> hooks[t].error + 1]
        /\ hooks[t].error + 1 \in 0 .. Width
        /\ hooks[t].error + 1 <= Count(t)
    <2>1. hooks[t] \in [verdict: 0 .. Width, error: 0 .. Width]
      BY DEF IInv, TypeOK
    <2> QED
      BY <1>1, <1>2, <1>3, <2>1 DEF IInv, TypeOK
  <1>5. Typed(t)
    <2>1. hooks' \in [Turns -> [verdict: 0 .. Width, error: 0 .. Width]]
      BY <1>1, <1>3, <1>4 DEF IInv, TypeOK
    <2> QED
      BY <1>1, <2>1 DEF IInv, TypeOK, Typed, gateway
  <1>6. CASE hooks'[t].error = Count(t) /\ End(t, "released")
    <2>1. outcome'[t] = "released" /\ hooks'[t] = [verdict |-> 0, error |-> Count(t)]
      BY <1>4, <1>6 DEF IInv, TypeOK, End
    <2>2. Justified(t)'
      BY <1>1, <1>2, <2>1 DEF Justified, turn, Enforced, Wrapped, Count, Refusals
    <2> QED
      BY <1>5, <1>6, <2>2, EndIInv, OutcomeFacts
  <1>7. CASE hooks'[t].error # Count(t) /\ Goto(t, "failed")
    <2>1. pc'[t] = "failed" /\ outcome' = outcome
      BY <1>7 DEF IInv, TypeOK, Goto
    <2>2. hooks'[t].verdict = 0 /\ hooks'[t].error < Count(t)
      BY <1>3, <1>4, <1>7
    <2>3. Stage(t)'
      BY <1>1, <2>1, <2>2 DEF IInv, Stage, Extracted, turn, Wrapped, Enforced, Count
    <2> QED
      BY <1>1, <1>5, <1>7, <2>3, GotoIInv, OutcomeFacts DEF Extracted
  <1> QED
    BY <1>6, <1>7 DEF FirePolicyError

LEMMA StepIInv ==
    ASSUME IInv, NEW t \in Turns, Step(t) \/ Cancel(t)
    PROVE  IInv'
  <1>1. CASE Extract(t) \/ ExtractionFails(t) \/ BeginDecision(t) \/ Send(t)
    BY <1>1, ExtractIInv, ExtractionFailsIInv, BeginDecisionIInv, SendIInv
  <1>2. CASE RejectBatch(t) \/ AttemptRefused(t)
    BY <1>2, FailIInv DEF RejectBatch, AttemptRefused
  <1>3. CASE ClientUnusable(t) \/ HookRaises(t) \/ Cancel(t)
    <2>1. PICK how \in {"client_error", "hook_error", "cancelled"} : End(t, how)
      BY <1>3 DEF ClientUnusable, HookRaises, Cancel
    <2>2. Typed(t)
      BY <1>3, TypedByRest DEF IInv, ClientUnusable, HookRaises, Cancel
    <2> QED
      BY <2>1, <2>2, RaiseIInv, OutcomeFacts
  <1>4. CASE ReceiveVerdict(t) \/ AttemptFails(t) \/ FireVerdict(t) \/ FirePolicyError(t)
    BY <1>4, ReceiveVerdictIInv, AttemptFailsIInv, FireVerdictIInv, FirePolicyErrorIInv
  <1> QED
    BY <1>1, <1>2, <1>3, <1>4 DEF Step

-----------------------------------------------------------------------------
(* The gateway.                                                            *)

\* The gateway takes a submission off the wire; what it decides agrees with what
\* it decided under the same id, and what it answers is what it decided.
LEMMA GatewayIInv ==
    ASSUME IInv, NEW m \in wire, GatewayDecides(m) \/ GatewayFails(m) \/ SubmissionLost(m)
    PROVE  IInv'
  <1>1. /\ wire' = wire \ {m}
        /\ UNCHANGED <<turn, calls, pc, id, attempt, verdict, hooks, outcome, lastId>>
    BY DEF GatewayDecides, GatewayFails, SubmissionLost
  <1>2. m.turn \in Turns /\ m.id \in Nat /\ m.attempt \in Nat /\ m.id = id[m.turn] /\ m.id # 0
    BY DEF IInv, TypeOK, Submissions, Allocated
  <1>3. \/ UNCHANGED decisions
        \/ \E v \in Verdicts :
              /\ \A d \in decisions : d.id = m.id => d.verdict = v
              /\ decisions' = decisions \cup {[turn |-> m.turn, id |-> m.id, verdict |-> v]}
    BY DEF GatewayDecides, GatewayFails, SubmissionLost
  <1>4. /\ decisions \subseteq decisions'
        /\ decisions' \subseteq [turn: Turns, id: Nat, verdict: Verdicts]
        /\ \A d \in decisions' : d.id = id[d.turn] /\ d.id # 0
        /\ \A d, e \in decisions' : d.id = e.id => d.verdict = e.verdict
    <2>1. CASE UNCHANGED decisions
      BY <2>1 DEF IInv, TypeOK, Allocated
    <2>2. ASSUME NEW v \in Verdicts,
                 \A d \in decisions : d.id = m.id => d.verdict = v,
                 decisions' = decisions \cup {[turn |-> m.turn, id |-> m.id, verdict |-> v]}
          PROVE  /\ decisions \subseteq decisions'
                 /\ decisions' \subseteq [turn: Turns, id: Nat, verdict: Verdicts]
                 /\ \A d \in decisions' : d.id = id[d.turn] /\ d.id # 0
                 /\ \A d, e \in decisions' : d.id = e.id => d.verdict = e.verdict
      <3> DEFINE new == [turn |-> m.turn, id |-> m.id, verdict |-> v]
      <3>1. /\ new \in [turn: Turns, id: Nat, verdict: Verdicts]
            /\ new.turn = m.turn /\ new.id = m.id /\ new.verdict = v
        BY <1>2
      <3>2. decisions' = decisions \cup {new}
        BY <2>2
      <3> HIDE DEF new
      <3> QED
        BY <1>2, <2>2, <3>1, <3>2 DEF IInv, TypeOK, Allocated
    <2> QED
      BY <1>3, <2>1, <2>2
  <1>5. \/ UNCHANGED answers
        \/ \E kind \in Failures : Answer(m, kind)
        \/ \E v \in Verdicts : /\ Answer(m, v)
                              /\ decisions' = decisions \cup {[turn |-> m.turn, id |-> m.id, verdict |-> v]}
    BY DEF GatewayDecides, GatewayFails, SubmissionLost
  <1>6. /\ answers' \subseteq [turn: Turns, attempt: Nat, kind: Verdicts \cup Failures]
        /\ \A a \in answers' : a.kind \in Verdicts => Decided(a.turn, a.kind)'
    <2>1. \A a \in answers : a.kind \in Verdicts => Decided(a.turn, a.kind)'
      BY <1>4 DEF IInv, Allocated, Decided
    <2>2. ASSUME NEW k \in Verdicts \cup Failures, Answer(m, k), k \in Verdicts => Decided(m.turn, k)'
          PROVE  /\ answers' \subseteq [turn: Turns, attempt: Nat, kind: Verdicts \cup Failures]
                 /\ \A a \in answers' : a.kind \in Verdicts => Decided(a.turn, a.kind)'
      <3> DEFINE new == [turn |-> m.turn, attempt |-> m.attempt, kind |-> k]
      <3>1. /\ new \in [turn: Turns, attempt: Nat, kind: Verdicts \cup Failures]
            /\ new.turn = m.turn /\ new.kind = k
        BY <1>2
      <3>2. answers' = answers \cup {new}
        BY <2>2 DEF Answer
      <3> HIDE DEF new
      <3> QED
        BY <2>1, <2>2, <3>1, <3>2 DEF IInv, TypeOK
    <2>3. CASE UNCHANGED answers
      BY <2>1, <2>3 DEF IInv, TypeOK
    <2>4. \A k \in Failures : k \notin Verdicts
      BY DEF Failures, Verdicts
    <2>5. ASSUME NEW v \in Verdicts,
                 decisions' = decisions \cup {[turn |-> m.turn, id |-> m.id, verdict |-> v]}
          PROVE  Decided(m.turn, v)'
      <3> DEFINE new == [turn |-> m.turn, id |-> m.id, verdict |-> v]
      <3>1. new \in decisions' /\ new.turn = m.turn /\ new.verdict = v
        BY <2>5
      <3> QED
        BY <3>1 DEF Decided
    <2> QED
      BY <1>5, <2>2, <2>3, <2>4, <2>5
  <1>7. TypeOK'
    BY <1>1, <1>4, <1>6 DEF IInv, TypeOK, turn
  <1>8. \A t \in Turns : Stage(t)' /\ Justified(t)'
    BY <1>1, <1>4, OthersRest DEF IInv
  <1>9. Allocated'
    BY <1>1, <1>4, <1>6 DEF IInv, Allocated
  <1> QED
    BY <1>7, <1>8, <1>9 DEF IInv

LEMMA NextIInv ==
    ASSUME IInv, [Next]_vars
    PROVE  IInv'
  <1>1. CASE UNCHANGED vars
    <2>1. TypeOK' /\ Allocated'
      BY <1>1 DEF vars, turn, gateway, IInv, TypeOK, Allocated, Decided
    <2>2. \A t \in Turns : Stage(t)' /\ Justified(t)'
      BY <1>1, OthersRest DEF vars, gateway, IInv
    <2> QED
      BY <2>1, <2>2 DEF IInv
  <1> QED
    BY <1>1, StepIInv, GatewayIInv DEF Next, Gateway

-----------------------------------------------------------------------------
(* The theorems.                                                           *)

\* The inductive invariant, for any turns, answers of any width, any attempts.
THEOREM Invariant == Spec => []IInv
  BY InitIInv, NextIInv, PTL DEF Spec

\* Type correctness.
THEOREM TypeCorrectness == Spec => []TypeOK
  <1>1. IInv => TypeOK
    BY DEF IInv
  <1> QED
    BY <1>1, Invariant, PTL

\* In enforce mode an answer with a tool call in it, or with anything that
\* cannot be read, is returned only if the gateway allowed the whole of it.
THEOREM ReleasesAreAllowed == Spec => []ReleasedOnlyIfAllowed
  <1>1. IInv => ReleasedOnlyIfAllowed
    BY Properties
  <1> QED
    BY <1>1, Invariant, PTL

\* The gateway takes one decision on a turn, whatever retries get through.
THEOREM DecisionsAreSingle == Spec => []SingleDecision
  <1>1. IInv => SingleDecision
    BY Properties
  <1> QED
    BY <1>1, Invariant, PTL

\* A released turn was reported call by call, and observe mode blocks nothing.
THEOREM ReportsAreComplete == Spec => []ReportedInFull
  <1>1. IInv => ReportedInFull
    BY Properties
  <1> QED
    BY <1>1, Invariant, PTL

\* A verdict, once received, is neither asked for again nor replaced.
THEOREM VerdictsAreFinal == Spec => VerdictFinal
  <1>1. IInv /\ [Next]_vars =>
           [\A t \in Turns : verdict[t] # "none" =>
              /\ verdict'[t] = verdict[t]
              /\ attempt'[t] = attempt[t]]_vars
    <2> SUFFICES ASSUME IInv, [Next]_vars, NEW t \in Turns, verdict[t] # "none"
                 PROVE  verdict'[t] = verdict[t] /\ attempt'[t] = attempt[t]
      OBVIOUS
    <2>1. pc[t] \in {"verdict", "done"}
      BY DEF IInv, Stage
    <2>2. ASSUME NEW u \in Turns, ReceiveVerdict(u) \/ AttemptFails(u)
          PROVE  verdict'[t] = verdict[t] /\ attempt'[t] = attempt[t]
      <3>1. u # t
        BY <2>1, <2>2 DEF ReceiveVerdict, AttemptFails
      <3> QED
        BY <2>2, <3>1 DEF IInv, TypeOK, ReceiveVerdict, AttemptFails, Retry
    <2>3. ASSUME NEW u \in Turns, Step(u) \/ Cancel(u), ~ReceiveVerdict(u), ~AttemptFails(u)
          PROVE  UNCHANGED <<verdict, attempt>>
      BY <2>3
      DEF Step, Extract, ExtractionFails, BeginDecision, RejectBatch, Send, ClientUnusable, AttemptRefused,
          FireVerdict, FirePolicyError, HookRaises, Cancel
    <2>4. ASSUME Gateway \/ UNCHANGED vars
          PROVE  UNCHANGED <<verdict, attempt>>
      BY <2>4 DEF Gateway, GatewayDecides, GatewayFails, SubmissionLost, vars
    <2> QED
      BY <2>2, <2>3, <2>4 DEF Next
  <1> QED
    BY <1>1, Invariant, PTL DEF Spec, VerdictFinal

-----------------------------------------------------------------------------
(* Every turn is a gate.                                                   *)

Granted(t) == IF Decided(t, "allow") THEN calls[t] ELSE {}
Released(t) ==
    IF outcome[t] \in {"released", "executed"} THEN Calls(answer[t]) \cup Malformed(answer[t]) ELSE {}

LEMMA GateInit ==
    ASSUME Init, NEW t \in Turns
    PROVE  Gate(t)!Init
  <1>1. Gated(t) \in BOOLEAN
    BY DEF Gated, Enforced
  <1>2. Granted(t) = {} /\ Released(t) = {} /\ (pc[t] = "done") = FALSE
    BY DEF Init, Granted, Released
  <1> QED
    BY <1>1, <1>2 DEF Gate!Init, Granted, Released

LEMMA GateRests ==
    ASSUME NEW t \in Turns, UNCHANGED <<turn, decisions>>,
           calls'[t] = calls[t], outcome'[t] = outcome[t], pc'[t] = pc[t]
    PROVE  UNCHANGED Gate(t)!gate
  <1>1. Gated(t)' = Gated(t) /\ Granted(t)' = Granted(t) /\ Released(t)' = Released(t)
    BY DEF Gated, Granted, Released, Wrapped, Enforced, Decided, turn
  <1> QED
    BY <1>1 DEF Gate!gate, Granted, Released

\* Whatever the gateway decides, it only grants.
LEMMA GatewayGrants ==
    ASSUME IInv, NEW t \in Turns, NEW m \in wire, GatewayDecides(m) \/ GatewayFails(m) \/ SubmissionLost(m)
    PROVE  Gate(t)!Next
  <1>1. decisions \subseteq decisions' /\ UNCHANGED <<turn, calls, pc, outcome>>
    BY DEF GatewayDecides, GatewayFails, SubmissionLost, turn
  <1>2. Decided(t, "allow") => Decided(t, "allow")'
    BY <1>1 DEF Decided
  <1>3. calls[t] \subseteq Choices \X (0 .. Width)
    BY ExtractionAssumption DEF IInv, TypeOK
  <1>4. Granted(t)' \in SUBSET (Choices \X (0 .. Width)) /\ Granted(t) \subseteq Granted(t)'
    BY <1>1, <1>2, <1>3 DEF Granted
  <1>5. Gated(t)' = Gated(t) /\ Released(t)' = Released(t)
    BY <1>1 DEF Gated, Released, Wrapped, Enforced, turn
  <1>6. Gate(t)!Grant
    BY <1>1, <1>4, <1>5 DEF Gate!Grant, Granted, Released
  <1> QED
    BY <1>6 DEF Gate!Next

\* A handler runs on a refusal only where nobody promised it would not.
LEMMA ExecutedIsGranted ==
    ASSUME IInv, NEW t \in Turns, Step(t) \/ Cancel(t), outcome'[t] = "executed", Gated(t)
    PROVE  /\ Decided(t, "allow") /\ calls[t] = Calls(answer[t])
           /\ Malformed(answer[t]) = {}
  <1>1. \/ \E how \in Outcomes \ {"executed"} : End(t, how)
        \/ \E p \in Points \ {"done"} : Goto(t, p) /\ pc[t] # "done"
        \/ ReceiveVerdict(t)
    <2>1. {"attempt", "begin", "waiting", "verdict", "failed"} \subseteq Points \ {"done"}
      BY DEF Points
    <2>2. {"released", "transport_error", "client_error", "hook_error", "cancelled"} \cup Refusals
             \subseteq Outcomes \ {"executed"}
      BY DEF Outcomes, Refusals
    <2> QED
      BY <2>1, <2>2
      DEF Step, Extract, ExtractionFails, BeginDecision, RejectBatch, Send, ClientUnusable, AttemptFails,
          AttemptRefused, FireVerdict, FirePolicyError, HookRaises, Cancel, Fail, Retry
  <1>2. ReceiveVerdict(t)
    BY <1>1 DEF IInv, TypeOK, Stage, End, Goto
  <1>3. PICK v \in Verdicts : AnswerTo(t, {v}) /\ Act(t, v)
    BY <1>2 DEF ReceiveVerdict
  <1>4. pc[t] = "waiting" /\ outcome[t] = "none"
    BY <1>2 DEF ReceiveVerdict, IInv, Stage
  <1>5. surface[t] = "realtime"
    <2>1. CASE surface[t] = "create"
      BY <1>3, <1>4, <2>1 DEF Act, Goto
    <2>2. CASE surface[t] # "create"
      BY <2>2 DEF Gated, Wrapped
    <2> QED
      BY <2>1, <2>2
  <1>6. v = "allow"
    BY <1>3, <1>5 DEF Act, Dispatch, End, IInv, TypeOK
  <1>7. Readable(answer[t]) /\ calls[t] = Calls(answer[t]) /\ answer[t] \in Answers
    BY <1>4 DEF IInv, TypeOK, Stage, Extracted
  <1> QED
    BY <1>3, <1>6, <1>7, ReceivedIsDecided, ReadableFacts

\* A turn's own step releases no more than it was granted.
LEMMA TurnReleases ==
    ASSUME IInv, IInv', NEW t \in Turns, Step(t) \/ Cancel(t)
    PROVE  Gate(t)!Next
  <1>1. pc[t] # "done" /\ UNCHANGED <<turn, decisions>>
    BY DEF Step, Extract, ExtractionFails, BeginDecision, RejectBatch, Send, ClientUnusable, AttemptFails,
           AttemptRefused, FireVerdict, FirePolicyError, HookRaises, Cancel, ReceiveVerdict, gateway
  <1>2. Gated(t)' = Gated(t) /\ (Decided(t, "allow")' <=> Decided(t, "allow")) /\ answer' = answer
        /\ (Enforced(t)' <=> Enforced(t))
    BY <1>1 DEF Gated, Wrapped, Enforced, Decided, turn
  <1>3. calls'[t] = calls[t] \/ ~Decided(t, "allow")
    <2>1. CASE Extract(t)
      <3>1. id[t] = 0
        BY <2>1 DEF Extract, IInv, Stage
      <3> QED
        BY <3>1 DEF IInv, Allocated, Decided
    <2>2. CASE ~Extract(t)
      BY <2>2
      DEF Step, ExtractionFails, BeginDecision, RejectBatch, Send, ClientUnusable, AttemptFails,
          AttemptRefused, FireVerdict, FirePolicyError, HookRaises, Cancel, ReceiveVerdict
    <2> QED
      BY <2>1, <2>2
  <1>4. Granted(t)' = Granted(t)
    BY <1>2, <1>3 DEF Granted
  <1>5. Released(t)' \subseteq IF Gated(t) THEN Granted(t) ELSE Choices \X (0 .. Width)
    <2>1. CASE ~Gated(t)
      <3>1. answer[t] \in Answers
        BY DEF IInv, TypeOK
      <3> QED
        BY <1>2, <2>1, <3>1, CallsCount DEF Released
    <2>2. CASE Gated(t) /\ outcome'[t] = "executed"
      BY <1>2, <2>2, ExecutedIsGranted DEF Released, Granted
    <2>3. CASE Gated(t) /\ outcome'[t] = "released"
      <3>1. CASE Enforced(t)
        <4>1. \/ Calls(answer[t]) \cup Malformed(answer[t]) = {}
              \/ Malformed(answer[t]) = {} /\ calls'[t] = Calls(answer[t]) /\ Decided(t, "allow")'
          BY <1>2, <2>3, <3>1 DEF IInv, Justified
        <4> QED
          BY <1>2, <1>3, <2>3, <4>1 DEF Released, Granted
      <3>2. CASE ~Enforced(t)
        <4>1. ~Wrapped(t) /\ surface[t] = "realtime"
          BY <2>3, <3>2 DEF Gated
        <4>2. OneCall(answer[t]) /\ answer[t] \in Answers
          BY <4>1 DEF IInv, TypeOK, Stage
        <4>3. Readable(answer[t]) /\ Calls(answer[t]) # {}
          BY <4>2, OneCallFacts
        <4>4. outcome'[t] # "released"
          <5>1. outcome[t] = "none" /\ pc[t] # "verdict" /\ pc[t] # "failed"
            BY <1>1, <4>1 DEF IInv, Stage
          <5>2. ~FireVerdict(t) /\ ~FirePolicyError(t) /\ ~ExtractionFails(t)
            BY <4>3, <5>1 DEF FireVerdict, FirePolicyError, ExtractionFails
          <5>4. Extract(t) => outcome' = outcome
            BY <4>3 DEF Extract, Goto, IInv, TypeOK
          <5>5. CASE Extract(t)
            BY <5>1, <5>4, <5>5
          <5>6. CASE ~Extract(t)
            <6>1. \/ \E how \in Outcomes \ {"released"} : End(t, how)
                  \/ outcome' = outcome
              <7>1. {"executed", "answered", "transport_error", "client_error", "hook_error", "cancelled"}
                       \subseteq Outcomes \ {"released"}
                BY DEF Outcomes
              <7>2. surface[t] # "create"
                BY <4>1
              <7> QED
                BY <4>1, <5>2, <5>6, <7>1
                DEF Step, BeginDecision, RejectBatch, Send, ClientUnusable, AttemptFails, AttemptRefused,
                    HookRaises, Cancel, ReceiveVerdict, Fail, Retry, Act, Dispatch, RunTool, Goto
            <6> QED
              BY <5>1, <6>1 DEF End, IInv, TypeOK
          <5> QED
            BY <5>5, <5>6
        <4> QED
          BY <2>3, <4>4
      <3> QED
        BY <3>1, <3>2
    <2>4. CASE outcome'[t] \notin {"executed", "released"}
      BY <2>4 DEF Released
    <2> QED
      BY <2>1, <2>2, <2>3, <2>4
  <1>6. Gate(t)!Release
    BY <1>1, <1>2, <1>4, <1>5 DEF Gate!Release, Granted, Released
  <1> QED
    BY <1>6 DEF Gate!Next

LEMMA GateSteps ==
    ASSUME IInv, [Next]_vars, NEW t \in Turns
    PROVE  [Gate(t)!Next]_(Gate(t)!gate)
  <1>1. IInv'
    BY NextIInv
  <1>2. CASE UNCHANGED vars
    BY <1>2, GateRests DEF vars, gateway
  <1>3. CASE Gateway
    BY <1>3, GatewayGrants DEF Gateway
  <1>4. CASE Step(t) \/ Cancel(t)
    BY <1>1, <1>4, TurnReleases
  <1>5. ASSUME NEW u \in Turns \ {t}, Step(u) \/ Cancel(u)
        PROVE  UNCHANGED Gate(t)!gate
    <2>1. UNCHANGED <<turn, decisions>>
      BY <1>5
      DEF Step, Extract, ExtractionFails, BeginDecision, RejectBatch, Send, ClientUnusable, AttemptFails,
          AttemptRefused, FireVerdict, FirePolicyError, HookRaises, Cancel, ReceiveVerdict, gateway
    <2>2. calls' = calls \/ calls' = [calls EXCEPT ![u] = Calls(answer[u])]
      BY <1>5
      DEF Step, Extract, ExtractionFails, BeginDecision, RejectBatch, Send, ClientUnusable, AttemptFails,
          AttemptRefused, FireVerdict, FirePolicyError, HookRaises, Cancel, ReceiveVerdict
    <2>3. (\E p \in Points : Goto(u, p)) \/ (\E how \in Outcomes : End(u, how))
      <3>1. CASE Extract(u) \/ ExtractionFails(u)
        BY <3>1 DEF Extract, ExtractionFails, Points, Outcomes
      <3>2. CASE BeginDecision(u) \/ RejectBatch(u) \/ Send(u) \/ ClientUnusable(u)
        BY <3>2 DEF BeginDecision, RejectBatch, Send, ClientUnusable, Fail, Points, Outcomes
      <3>3. CASE ReceiveVerdict(u)
        BY <3>3 DEF ReceiveVerdict, Act, Dispatch, RunTool, TypeOK, IInv, Points, Outcomes, Surfaces
      <3>4. CASE AttemptFails(u) \/ AttemptRefused(u)
        BY <3>4 DEF AttemptFails, AttemptRefused, Retry, Fail, Points, Outcomes
      <3>5. CASE FireVerdict(u) \/ FirePolicyError(u) \/ HookRaises(u) \/ Cancel(u)
        <4>1. FireVerdict(u) => verdict[u] \in Verdicts \cup {"none"}
          BY DEF IInv, TypeOK
        <4> QED
          BY <3>5, <4>1
          DEF FireVerdict, FirePolicyError, HookRaises, Cancel, Verdicts, Refusals, Points, Outcomes, IInv, Stage
      <3> QED
        BY <1>5, <3>1, <3>2, <3>3, <3>4, <3>5 DEF Step
    <2>4. calls'[t] = calls[t] /\ outcome'[t] = outcome[t] /\ pc'[t] = pc[t]
      BY <2>2, <2>3 DEF Goto, End, IInv, TypeOK
    <2> QED
      BY <2>1, <2>4, GateRests
  <1> QED
    BY <1>2, <1>3, <1>4, <1>5 DEF Next

\* Every turn implements the abstract gate: nothing reaches the application but
\* what the gateway granted, where the surface promises it, and nothing after
\* the end.
THEOREM TurnsAreGates == Spec => ImplementsGate
  <1>1. Init => \A t \in Turns : Gate(t)!Init
    BY GateInit
  <1>2. IInv /\ [Next]_vars => [\A t \in Turns : [Gate(t)!Next]_(Gate(t)!gate)]_vars
    BY GateSteps
  <1> QED
    BY <1>1, <1>2, Invariant, PTL DEF Spec, ImplementsGate
=============================================================================
