----------------------------- MODULE Inspection -----------------------------
(***************************************************************************)
(* The gate of a wrapped client (wrap.py) and the decision it waits for    *)
(* (transport.py).  A provider answered with a turn of tool calls; the     *)
(* wrapper submits all of them to the gateway as one atomic decision,      *)
(* retries transient failures under one idempotency id, runs the           *)
(* application's callbacks and then either returns the provider's answer   *)
(* to the application, which makes the calls actionable, or raises.        *)
(*                                                                         *)
(* Every member of Turns is one such answer.  Turns are handled            *)
(* concurrently and share the gateway.  An attempt the SDK gave up may     *)
(* still be on its way, and the gateway may decide it at any later time.   *)
(*                                                                         *)
(* A turn is an answer of create, or a single call that is submitted by    *)
(* itself: a function call of a Realtime session (realtime.py and its      *)
(* recipe), or the call of a tool that an agent framework was given in a   *)
(* wrapper of the recipes under examples/.  Streamed answers are the       *)
(* subject of StreamGates.                                                 *)
(***************************************************************************)
EXTENDS Extraction

CONSTANTS
    Turns,         \* provider answers that pass through the wrapper
    MaxAttempts,   \* opts.retry.max_attempts
    Cancellable    \* TRUE: an asynchronous client; FALSE: a synchronous one

ASSUME InspectionAssumption ==
    /\ MaxAttempts \in Nat \ {0}
    /\ Cancellable \in BOOLEAN

Modes == {"enforce", "observe"}
Verdicts == {"allow", "deny", "pending", "rate_limited"}
Failures == {"transient", "terminal"}
Points == {"extract", "begin", "attempt", "waiting", "verdict", "failed", "done"}
Refusals == {"deny", "pending", "rate_limited"}

Surfaces == {"create", "realtime", "tool"}

\* How a turn ends: handed to the application, with the tool's handler called
\* or answered for, or with an exception.  The refusals stand for
\* ClavenarDenied, ClavenarPending and ClavenarRateLimited.
Outcomes == {"none", "released", "executed", "answered", "transport_error", "client_error",
             "hook_error", "cancelled"} \cup Refusals

VARIABLES
    mode,       \* opts.mode of the client a turn came through
    surface,    \* where it came from
    answer,     \* the provider's answer
    calls,      \* the tool calls extracted from it
    pc,         \* where the wrapper is with a turn
    id,         \* idempotency id of its decision, 0 before there is one
    attempt,    \* attempts given up so far
    verdict,    \* the verdict it received
    hooks,      \* callbacks fired: [verdict, error]
    outcome,    \* how it ended
    lastId,     \* idempotency ids allocated so far
    wire,       \* submissions on their way to the gateway
    answers,    \* the gateway's answers on their way back
    decisions   \* what the gateway decided, by idempotency id

turn == <<mode, surface, answer>>
gateway == <<wire, answers, decisions>>
vars == <<turn, calls, pc, id, attempt, verdict, hooks, outcome, lastId, gateway>>

Submissions == [turn: Turns, id: Nat, attempt: Nat]
Enforced(t) == mode[t] = "enforce"
Wrapped(t) == surface[t] = "create"
Count(t) == Cardinality(calls[t])

\* Where the gateway's refusal has to keep the call from the application.
Gated(t) == IF Wrapped(t) THEN Enforced(t) ELSE surface[t] = "realtime"

\* A done event of a Realtime session, or a tool that is called: arguments that
\* are no JSON are inspected as they are.
OneCall(a) == Cardinality(Calls(a)) = 1 /\ \A c \in Choices :
    a[c] = [shape |-> "readable", declared |-> FALSE, calls |-> a[c].calls, malformed |-> FALSE]

-----------------------------------------------------------------------------
Init ==
    /\ mode \in [Turns -> Modes]
    /\ surface \in [Turns -> Surfaces]
    /\ answer \in [Turns -> Answers]
    /\ \A t \in Turns : ~Wrapped(t) => OneCall(answer[t])
    /\ calls = [t \in Turns |-> {}]
    /\ pc = [t \in Turns |-> "extract"]
    /\ id = [t \in Turns |-> 0]
    /\ attempt = [t \in Turns |-> 0]
    /\ verdict = [t \in Turns |-> "none"]
    /\ hooks = [t \in Turns |-> [verdict |-> 0, error |-> 0]]
    /\ outcome = [t \in Turns |-> "none"]
    /\ lastId = 0
    /\ wire = {}
    /\ answers = {}
    /\ decisions = {}

Goto(t, point) == pc' = [pc EXCEPT ![t] = point] /\ UNCHANGED outcome

End(t, how) ==
    /\ pc' = [pc EXCEPT ![t] = "done"]
    /\ outcome' = [outcome EXCEPT ![t] = how]

\* A ClavenarTransportError: raised in enforce mode, reported in observe mode.
\* Single calls are inspected without a mode, and the error leaves their helper.
Fail(t) == IF Enforced(t) \/ ~Wrapped(t) THEN End(t, "transport_error") ELSE Goto(t, "failed")

-----------------------------------------------------------------------------
(* Extraction and the batch.                                               *)

\* A turn without tool calls needs no decision.
Extract(t) ==
    /\ pc[t] = "extract"
    /\ Readable(answer[t])
    /\ calls' = [calls EXCEPT ![t] = Calls(answer[t])]
    /\ IF calls'[t] = {} THEN End(t, "released") ELSE Goto(t, "begin")
    /\ UNCHANGED <<turn, id, attempt, verdict, hooks, lastId, gateway>>

\* The answer cannot be read: in observe mode one on_policy_error, which may
\* raise or be cancelled, stands for the whole answer, which is then returned
\* uninspected.
ExtractionFails(t) ==
    /\ pc[t] = "extract"
    /\ ~Readable(answer[t])
    /\ IF Enforced(t)
       THEN End(t, "transport_error") /\ UNCHANGED hooks
       ELSE /\ \/ End(t, "released") \/ End(t, "hook_error")
               \/ Cancellable /\ End(t, "cancelled")
            /\ hooks' = [hooks EXCEPT ![t].error = 1]
    /\ UNCHANGED <<turn, calls, id, attempt, verdict, lastId, gateway>>

\* The idempotency id is allocated once, before the first attempt.
BeginDecision(t) ==
    /\ pc[t] = "begin"
    /\ lastId' = lastId + 1
    /\ id' = [id EXCEPT ![t] = lastId']
    /\ Goto(t, "attempt")
    /\ UNCHANGED <<turn, calls, attempt, verdict, hooks, gateway>>

\* Too many calls, duplicate ids, arguments that are too large or not JSON.
RejectBatch(t) ==
    /\ pc[t] = "begin"
    /\ Fail(t)
    /\ UNCHANGED <<turn, calls, id, attempt, verdict, hooks, lastId, gateway>>

-----------------------------------------------------------------------------
(* The attempts of one decision.                                           *)

\* Mutant: every attempt allocates an idempotency id of its own.
SendFresh(t) ==
    /\ pc[t] = "attempt"
    /\ lastId' = lastId + 1
    /\ id' = [id EXCEPT ![t] = lastId']
    /\ wire' = wire \cup {[turn |-> t, id |-> lastId', attempt |-> attempt[t]]}
    /\ Goto(t, "waiting")
    /\ UNCHANGED <<turn, calls, attempt, verdict, hooks, answers, decisions>>

Send(t) ==
    /\ pc[t] = "attempt"
    /\ wire' = wire \cup {[turn |-> t, id |-> id[t], attempt |-> attempt[t]]}
    /\ Goto(t, "waiting")
    /\ UNCHANGED <<turn, calls, id, attempt, verdict, hooks, lastId, answers, decisions>>

\* An attempt does not get as far as the network: the token provider or the
\* credential files fail, or the transport profile is closed.  This is no
\* ClavenarTransportError, and neither mode catches it.
ClientUnusable(t) ==
    /\ pc[t] = "attempt"
    /\ End(t, "client_error")
    /\ UNCHANGED <<turn, calls, id, attempt, verdict, hooks, lastId, gateway>>

\* The answer an attempt waits for; answers to attempts given up are dropped.
AnswerTo(t, kinds) ==
    \E a \in answers : a.turn = t /\ a.attempt = attempt[t] /\ a.kind \in kinds

\* Mutant: the Realtime pump dispatches whatever was not denied.
DispatchUnlessDenied(t, v) == End(t, IF v # "deny" THEN "executed" ELSE "answered")

\* The Realtime pump dispatches the handler of an allowed call and answers for
\* any other.
Dispatch(t, v) == End(t, IF v = "allow" THEN "executed" ELSE "answered")

\* The wrapped tools expect inspect_tool_use to raise a refusal, drop the
\* verdict it returns instead, and run.
RunTool(t) == End(t, "executed")

Act(t, v) ==
    CASE surface[t] = "create"   -> Goto(t, "verdict")
      [] surface[t] = "realtime" -> Dispatch(t, v)
      [] surface[t] = "tool"     -> RunTool(t)

ReceiveVerdict(t) ==
    /\ pc[t] = "waiting"
    /\ \E v \in Verdicts :
          /\ AnswerTo(t, {v})
          /\ verdict' = [verdict EXCEPT ![t] = v]
          /\ Act(t, v)
    /\ UNCHANGED <<turn, calls, id, attempt, hooks, lastId, gateway>>

\* Mutant: one attempt too many.
RetryOffByOne(t) ==
    IF attempt[t] < MaxAttempts
    THEN Goto(t, "attempt") /\ attempt' = [attempt EXCEPT ![t] = @ + 1]
    ELSE Fail(t) /\ UNCHANGED attempt

Retry(t) ==
    IF attempt[t] + 1 < MaxAttempts
    THEN Goto(t, "attempt") /\ attempt' = [attempt EXCEPT ![t] = @ + 1]
    ELSE Fail(t) /\ UNCHANGED attempt

\* Mutant: a 429 is retried like a 5xx.
AttemptFailsOn429(t) ==
    /\ pc[t] \in {"waiting", "verdict"}
    /\ pc[t] = "verdict" => verdict[t] = "rate_limited"
    /\ Retry(t)
    /\ UNCHANGED <<turn, calls, id, verdict, hooks, lastId, gateway>>

\* Mutant: an attempt has no timeout and only an answer ends it.
AttemptFailsAnswered(t) ==
    /\ pc[t] = "waiting"
    /\ AnswerTo(t, {"transient"})
    /\ Retry(t)
    /\ UNCHANGED <<turn, calls, id, verdict, hooks, lastId, gateway>>

\* A timeout, a network error or a 5xx answer.
AttemptFails(t) ==
    /\ pc[t] = "waiting"
    /\ Retry(t)
    /\ UNCHANGED <<turn, calls, id, verdict, hooks, lastId, gateway>>

\* Any other status, or a body _parse_inspect_response does not accept.
AttemptRefused(t) ==
    /\ pc[t] = "waiting"
    /\ AnswerTo(t, {"terminal"})
    /\ Fail(t)
    /\ UNCHANGED <<turn, calls, id, attempt, verdict, hooks, lastId, gateway>>

-----------------------------------------------------------------------------
(* Callbacks and the gate: calls are visited in the order of the turn.     *)

\* on_verdict for the next call, then, in enforce mode, the refusal.
FireVerdict(t) ==
    /\ pc[t] = "verdict"
    /\ hooks' = [hooks EXCEPT ![t].verdict = @ + 1]
    /\ IF Enforced(t) /\ verdict[t] \in Refusals THEN End(t, verdict[t])
       ELSE IF hooks'[t].verdict = Count(t) THEN End(t, "released")
       ELSE Goto(t, "verdict")
    /\ UNCHANGED <<turn, calls, id, attempt, verdict, lastId, gateway>>

\* Mutant: a failed batch is reported once, not for each of its calls.
FirePolicyErrorOnce(t) ==
    /\ pc[t] = "failed"
    /\ hooks' = [hooks EXCEPT ![t].error = @ + 1]
    /\ End(t, "released")
    /\ UNCHANGED <<turn, calls, id, attempt, verdict, lastId, gateway>>

FirePolicyError(t) ==
    /\ pc[t] = "failed"
    /\ hooks' = [hooks EXCEPT ![t].error = @ + 1]
    /\ IF hooks'[t].error = Count(t) THEN End(t, "released") ELSE Goto(t, "failed")
    /\ UNCHANGED <<turn, calls, id, attempt, verdict, lastId, gateway>>

\* A callback raises, or returns a coroutine to a synchronous client.
HookRaises(t) ==
    /\ pc[t] \in {"verdict", "failed"}
    /\ End(t, "hook_error")
    /\ UNCHANGED <<turn, calls, id, attempt, verdict, hooks, lastId, gateway>>

\* The task is cancelled while it waits for the gateway, sleeps between two
\* attempts or awaits a callback.
Cancel(t) ==
    /\ Cancellable
    /\ pc[t] \in {"attempt", "waiting", "verdict", "failed"}
    /\ pc[t] = "attempt" => attempt[t] > 0
    /\ End(t, "cancelled")
    /\ UNCHANGED <<turn, calls, id, attempt, verdict, hooks, lastId, gateway>>

-----------------------------------------------------------------------------
(* The gateway: one decision per idempotency id, repeated if asked again.  *)

Answer(m, kind) == answers' = answers \cup {[turn |-> m.turn, attempt |-> m.attempt, kind |-> kind]}

GatewayDecides(m) ==
    /\ \E v \in Verdicts :
          /\ \A d \in decisions : d.id = m.id => d.verdict = v
          /\ decisions' = decisions \cup {[turn |-> m.turn, id |-> m.id, verdict |-> v]}
          /\ Answer(m, v)
    /\ wire' = wire \ {m}
    /\ UNCHANGED <<turn, calls, pc, id, attempt, verdict, hooks, outcome, lastId>>

\* A status that is no verdict, or a body that cannot be read, before or after
\* the decision was made.
GatewayFails(m) ==
    /\ \E kind \in Failures : Answer(m, kind)
    /\ \/ UNCHANGED decisions
       \/ \E v \in Verdicts :
             /\ \A d \in decisions : d.id = m.id => d.verdict = v
             /\ decisions' = decisions \cup {[turn |-> m.turn, id |-> m.id, verdict |-> v]}
    /\ wire' = wire \ {m}
    /\ UNCHANGED <<turn, calls, pc, id, attempt, verdict, hooks, outcome, lastId>>

SubmissionLost(m) ==
    /\ wire' = wire \ {m}
    /\ UNCHANGED <<turn, calls, pc, id, attempt, verdict, hooks, outcome, lastId, answers, decisions>>

-----------------------------------------------------------------------------
Step(t) ==
    \/ Extract(t) \/ ExtractionFails(t) \/ BeginDecision(t) \/ RejectBatch(t)
    \/ Send(t) \/ ClientUnusable(t) \/ ReceiveVerdict(t) \/ AttemptFails(t) \/ AttemptRefused(t)
    \/ FireVerdict(t) \/ FirePolicyError(t) \/ HookRaises(t)

Gateway == \E m \in wire : GatewayDecides(m) \/ GatewayFails(m) \/ SubmissionLost(m)

Next == (\E t \in Turns : Step(t) \/ Cancel(t)) \/ Gateway

Spec == Init /\ [][Next]_vars

\* The wrapper goes on whenever it can: an attempt that is not answered times
\* out.  Nothing is assumed of the gateway.
FairSpec == Spec /\ \A t \in Turns : WF_vars(Step(t))

-----------------------------------------------------------------------------
(* Properties.                                                             *)

TypeOK ==
    /\ mode \in [Turns -> Modes]
    /\ surface \in [Turns -> Surfaces]
    /\ answer \in [Turns -> Answers]
    /\ calls \in [Turns -> SUBSET (Choices \X (1 .. Width))]
    /\ pc \in [Turns -> Points]
    /\ id \in [Turns -> 0 .. lastId]
    /\ attempt \in [Turns -> 0 .. MaxAttempts - 1]
    /\ verdict \in [Turns -> Verdicts \cup {"none"}]
    /\ hooks \in [Turns -> [verdict: 0 .. Width, error: 0 .. Width]]
    /\ outcome \in [Turns -> Outcomes]
    /\ lastId \in Nat
    /\ wire \subseteq Submissions
    /\ answers \subseteq [turn: Turns, attempt: Nat, kind: Verdicts \cup Failures]
    /\ decisions \subseteq [turn: Turns, id: Nat, verdict: Verdicts]

Decided(t, v) == \E d \in decisions : d.turn = t /\ d.verdict = v

\* In enforce mode an answer reaches the application only if there is nothing
\* in it that is, or is declared to be, a tool call, or if the gateway allowed
\* this turn and had all of it: whatever fails on the way, and whatever cannot
\* be read, fails closed (README, Modes).
ReleasedOnlyIfAllowed ==
    \A t \in Turns : outcome[t] = "released" /\ Enforced(t) =>
        IF Calls(answer[t]) \cup Malformed(answer[t]) = {}
        THEN \A c \in Choices : ~answer[t][c].declared
        ELSE /\ Malformed(answer[t]) = {} /\ calls[t] = Calls(answer[t])
             /\ Decided(t, "allow")

\* However many attempts get through, early, late or twice, the gateway takes
\* one decision on a turn: it parks no second review, counts no second call
\* against a quota (transport.py allocates the id outside the retry loop).
SingleDecision ==
    \A d, e \in decisions : d.turn = e.turn => d = e

\* A verdict is final: once a turn has received one, it is not asked again and
\* not replaced by the answer to another attempt.
VerdictFinal ==
    [][\A t \in Turns : verdict[t] # "none" =>
          /\ verdict'[t] = verdict[t]
          /\ attempt'[t] = attempt[t]]_vars

\* A turn that was inspected and released was reported call by call, either as
\* a verdict or as a failed inspection, and observe mode releases whatever the
\* gateway said or failed to say.  A turn that is refused is reported up to the
\* call that raises only.
ReportedInFull ==
    \A t \in Turns :
        /\ outcome[t] = "released" /\ id[t] # 0 =>
              hooks[t] \in {[verdict |-> Count(t), error |-> 0], [verdict |-> 0, error |-> Count(t)]}
        /\ ~Enforced(t) /\ Wrapped(t) => outcome[t] \notin Refusals \cup {"transport_error"}

\* A turn is a gate: what the gateway allowed is granted, an answer that is
\* returned, or a handler that is run, is released with every tool call in it.
Gate(t) == INSTANCE HeldGate WITH
    AllCalls <- Choices \X (0 .. Width),
    enforced <- Gated(t),
    granted <- IF Decided(t, "allow") THEN calls[t] ELSE {},
    released <- IF outcome[t] \in {"released", "executed"} THEN Calls(answer[t]) \cup Malformed(answer[t]) ELSE {},
    stopped <- pc[t] = "done"

ImplementsGate ==
    /\ \A t \in Turns : Gate(t)!Init
    /\ [][\A t \in Turns : [Gate(t)!Next]_(Gate(t)!gate)]_vars

\* Every turn ends, whether or not the gateway ever answers.
TurnEnds == \A t \in Turns : pc[t] = "attempt" ~> pc[t] = "done"

\* options.py: "observe inspects + logs but never blocks, even if clavenar is
\* unreachable".  Cancelling the call and raising from a callback are the
\* application's own doing.
ObserveNeverBlocks ==
    \A t \in Turns :
        pc[t] = "done" /\ ~Enforced(t) /\ Wrapped(t) => outcome[t] \in {"released", "hook_error", "cancelled"}

\* examples/llamaindex_recipe.py: "the wrapped callable consults clavenar, then
\* runs your handler on green / approved-pending".
RecipeRunsOnlyIfAllowed ==
    \A t \in Turns : surface[t] = "tool" /\ outcome[t] = "executed" => Decided(t, "allow")
=============================================================================
