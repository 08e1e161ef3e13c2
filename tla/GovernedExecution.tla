------------------------- MODULE GovernedExecution -------------------------
(***************************************************************************)
(* Governed execution of one tool request (governed_execution.py): the     *)
(* call obtains a signed authorization from the gateway, verifies it,      *)
(* commits an intent in the application's durable store, runs the          *)
(* application's executor once, has the receipt signed, and commits the    *)
(* completion together with the receipt's outbox entry.  A later call with *)
(* the same idempotency id finds what is durable and resumes from it.      *)
(*                                                                         *)
(* Every member of Calls is one invocation of execute_prepared_tool or     *)
(* execute_prepared_tool_sync.  Calls run concurrently, in one process or  *)
(* in several; a retry after a crash is a call that loads the store after  *)
(* the crashed one.  The store, the gateway, the executor, the provider    *)
(* behind it, the recoverer, the verifier and the signer belong to the     *)
(* application or to the network: their answers are chosen freely, within  *)
(* what their protocol in governed_execution.py lets them do.              *)
(***************************************************************************)
EXTENDS Integers, FiniteSets

CONSTANTS
    Calls,                \* invocations of execute_prepared_tool[_sync]
    Ids,                  \* idempotency ids, the keys of the durable store
    Bodies,               \* tool name and arguments, up to equality
    Executors,            \* values of opts.executor_id
    MaxAttempts,          \* opts.max_attempts
    Cancellable,          \* TRUE: asyncio calls; FALSE: synchronous calls
    ExclusiveIntents,     \* commit_intent refuses an id that has an intent
    KeepFirstCompletion,  \* a second completion of an id is refused
    None

ASSUME AttemptsAssumption == MaxAttempts \in Nat \ {0}

ASSUME FlagsAssumption ==
    /\ Cancellable \in BOOLEAN
    /\ ExclusiveIntents \in BOOLEAN
    /\ KeepFirstCompletion \in BOOLEAN

(***************************************************************************)
(* Data.  A request is what one call was given.  An authorization carries  *)
(* the identity and payload it was signed for, and a grade:                *)
(*   plain    - genuine, payload as requested (modification_diff is null)  *)
(*   modified - genuine, the gateway rewrote the payload                   *)
(*   altered  - some binding _validate_authorization checks is broken      *)
(*   forged   - bindings hold, but the identity signature does not verify  *)
(* and the call it was issued to, which stands for its authorization_id.   *)
(***************************************************************************)
Requests == [id: Ids, body: Bodies, executor: Executors]
Grades == {"plain", "modified", "altered", "forged"}
Authorizations == [id: Ids, body: Bodies, grade: Grades, call: Calls]
Intents == [auth: Authorizations, executor: Executors]
Effects == [id: Ids, serial: Nat, body: Bodies]
Receipts ==
    [id: Ids, auth: Authorizations, effect: Effects, executor: Executors, by: Calls]
States == [intent: Intents \cup {None}, completion: Receipts \cup {None}]

ASSUME NoneAssumption ==
    /\ None \notin Authorizations
    /\ None \notin Intents
    /\ None \notin Effects
    /\ None \notin Receipts

Finalizing == {"sign", "complete", "signCancelled", "completeCancelled"}
Awaits ==   \* the suspension points where a cancellation ends the call at once
    {"load", "checkIntent", "checkCompletion", "recover", "authorize",
     "verify", "intend", "executing"}
Effected == {"executing"} \cup Finalizing
Authorized == {"recover", "verify", "intend", "execute"} \cup Effected
Points == Awaits \cup Finalizing \cup {"execute", "done"}

Kinds == {"none", "ok", "config_error", "transport_error", "recovery_required",
          "timeout_error", "cancelled", "error", "crashed"}
Outcomes == [kind: Kinds, receipt: Receipts \cup {None}]

VARIABLES
    prepared,    \* the PreparedToolRequest and executor_id of each call
    pc,          \* where each call is
    seen,        \* the ExecutionState a call loaded
    attempt,     \* failed authorization attempts of the call so far
    auth,        \* the authorization a call works under
    effect,      \* the effect a call asked for, or is finalizing
    outcome,     \* how each call ended
    intent,      \* durable store: id -> intent
    completion,  \* durable store: id -> completion (with its signed receipt)
    outbox,      \* durable store: receipts queued for delivery
    writes,      \* completion writes issued and not yet settled by the store
    invoked,     \* id -> number of times an executor was called for it
    wire,        \* effects requested of the provider and not yet applied
    effects      \* effects the provider applied

locals == <<seen, attempt, auth, effect>>
store == <<intent, completion, outbox>>
provider == <<invoked, wire, effects>>
vars == <<prepared, pc, locals, outcome, store, writes, provider>>

NoState == [intent |-> None, completion |-> None]
IdOf(t) == prepared[t].id

-----------------------------------------------------------------------------
(* What the code checks.                                                   *)

Genuine(a) == a.grade # "forged"

\* _validate_authorization: identity, tool and payload bindings.  A payload
\* the gateway modified is not compared with the requested arguments.
Binds(a, r) ==
    /\ a.id = r.id
    /\ a.grade # "altered"
    /\ a.grade = "modified" \/ a.body = r.body

\* _validate_stored_intent followed by a verifier that accepts.
StoredIntentHolds(i, r) ==
    /\ i.executor = r.executor
    /\ Binds(i.auth, r)
    /\ Genuine(i.auth)

\* _validate_completion.
CompletionHolds(c, i, r) ==
    /\ c.id = r.id
    /\ c.executor = r.executor
    /\ c.auth = i.auth

\* The signed completion a call builds from what it holds.
ReceiptOf(t) ==
    [id |-> auth[t].id, auth |-> auth[t], effect |-> effect[t],
     executor |-> prepared[t].executor, by |-> t]

\* _execution_intent.
IntentOf(t) == [auth |-> auth[t], executor |-> prepared[t].executor]

-----------------------------------------------------------------------------
Init ==
    /\ prepared \in [Calls -> Requests]
    /\ pc = [t \in Calls |-> "load"]
    /\ seen = [t \in Calls |-> NoState]
    /\ attempt = [t \in Calls |-> 0]
    /\ auth = [t \in Calls |-> None]
    /\ effect = [t \in Calls |-> None]
    /\ outcome = [t \in Calls |-> [kind |-> "none", receipt |-> None]]
    /\ intent = [i \in Ids |-> None]
    /\ completion = [i \in Ids |-> None]
    /\ outbox = {}
    /\ writes = {}
    /\ invoked = [i \in Ids |-> 0]
    /\ wire = {}
    /\ effects = {}

\* The call returns or raises: its frame is gone, only the outcome remains.
Finish(t, kind, receipt) ==
    /\ pc' = [pc EXCEPT ![t] = "done"]
    /\ outcome' = [outcome EXCEPT ![t] = [kind |-> kind, receipt |-> receipt]]
    /\ seen' = [seen EXCEPT ![t] = NoState]
    /\ attempt' = [attempt EXCEPT ![t] = 0]
    /\ auth' = [auth EXCEPT ![t] = None]
    /\ effect' = [effect EXCEPT ![t] = None]

Raise(t, kind) == Finish(t, kind, None)

Goto(t, point) == pc' = [pc EXCEPT ![t] = point] /\ UNCHANGED outcome

-----------------------------------------------------------------------------
(* Loading, and resuming from what is durable.                             *)

Load(t) ==
    /\ pc[t] = "load"
    /\ LET state == [intent |-> intent[IdOf(t)], completion |-> completion[IdOf(t)]]
       IN  /\ seen' = [seen EXCEPT ![t] = state]
           /\ Goto(t, IF state.completion # None THEN "checkCompletion"
                      ELSE IF state.intent # None THEN "checkIntent"
                      ELSE "authorize")
    /\ UNCHANGED <<prepared, attempt, auth, effect, store, writes, provider>>

\* The stored completion passes its integrity checks and is returned again.
ReturnStored(t) ==
    /\ pc[t] = "checkCompletion"
    /\ seen[t].intent # None /\ seen[t].completion # None
    /\ StoredIntentHolds(seen[t].intent, prepared[t])
    /\ CompletionHolds(seen[t].completion, seen[t].intent, prepared[t])
    /\ Finish(t, "ok", seen[t].completion)
    /\ UNCHANGED <<prepared, store, writes, provider>>

AcceptIntent(t) ==
    /\ pc[t] = "checkIntent"
    /\ seen[t].intent # None
    /\ StoredIntentHolds(seen[t].intent, prepared[t])
    /\ auth' = [auth EXCEPT ![t] = seen[t].intent.auth]
    /\ Goto(t, "recover")
    /\ UNCHANGED <<prepared, seen, attempt, effect, store, writes, provider>>

\* A check of the stored records fails, or the verifier refuses the stored
\* authorization, which it may do to a genuine one (a rotated key).
RejectStored(t) ==
    /\ pc[t] \in {"checkIntent", "checkCompletion"}
    /\ Raise(t, "config_error")
    /\ UNCHANGED <<prepared, store, writes, provider>>

\* The recoverer finds the effect at the provider.
Recover(t) ==
    /\ pc[t] = "recover"
    /\ \E e \in effects :
          /\ e.id = IdOf(t)
          /\ effect' = [effect EXCEPT ![t] = e]
    /\ Goto(t, "sign")
    /\ UNCHANGED <<prepared, seen, attempt, auth, store, writes, provider>>

\* Mutant: an inconclusive recovery runs the stored intent again.
RecoveryInconclusiveReexecutes(t) ==
    /\ pc[t] = "recover"
    /\ Goto(t, "execute")
    /\ UNCHANGED <<prepared, locals, store, writes, provider>>

\* Mutant: an inconclusive recovery is taken for an effect that was released.
RecoveryInconclusiveAssumed(t) ==
    /\ pc[t] = "recover"
    /\ effect' = [effect EXCEPT ![t] = [id |-> IdOf(t), serial |-> 0, body |-> auth[t].body]]
    /\ Goto(t, "sign")
    /\ UNCHANGED <<prepared, seen, attempt, auth, store, writes, provider>>

\* There is no recoverer, or it returns None.
RecoveryInconclusive(t) ==
    /\ pc[t] = "recover"
    /\ Raise(t, "recovery_required")
    /\ UNCHANGED <<prepared, store, writes, provider>>

-----------------------------------------------------------------------------
(* A fresh execution: authorize, verify, commit the intent, execute.       *)

\* Mutant: attempts are counted from one too few.
AuthorizeAgainOffByOne(t) ==
    /\ pc[t] = "authorize"
    /\ attempt[t] + 1 <= MaxAttempts
    /\ attempt' = [attempt EXCEPT ![t] = @ + 1]
    /\ UNCHANGED <<prepared, pc, seen, auth, effect, outcome, store, writes, provider>>

\* A transport failure or a 5xx answer with attempts left.
AuthorizeAgain(t) ==
    /\ pc[t] = "authorize"
    /\ attempt[t] + 1 < MaxAttempts
    /\ attempt' = [attempt EXCEPT ![t] = @ + 1]
    /\ UNCHANGED <<prepared, pc, seen, auth, effect, outcome, store, writes, provider>>

\* The last attempt fails, or an answer that is not retried (4xx, bad body).
AuthorizeFails(t) ==
    /\ pc[t] = "authorize"
    /\ Raise(t, "transport_error")
    /\ UNCHANGED <<prepared, store, writes, provider>>

\* The gateway answers with an authorization; a copy of it is the only thing
\* the rest of the call works from.
Authorize(t) ==
    /\ pc[t] = "authorize"
    /\ \E a \in Authorizations :
          /\ a.call = t
          /\ \/ /\ Binds(a, prepared[t])
                /\ auth' = [auth EXCEPT ![t] = a]
                /\ Goto(t, "verify")
                /\ UNCHANGED <<seen, attempt, effect>>
             \/ /\ ~Binds(a, prepared[t])
                /\ Raise(t, "config_error")
    /\ UNCHANGED <<prepared, store, writes, provider>>

Verify(t) ==
    /\ pc[t] = "verify"
    /\ Genuine(auth[t])
    /\ Goto(t, "intend")
    /\ UNCHANGED <<prepared, locals, store, writes, provider>>

\* The verifier raises, always for a forged authorization.
RefuseAuthorization(t) ==
    /\ pc[t] = "verify"
    /\ Raise(t, "config_error")
    /\ UNCHANGED <<prepared, store, writes, provider>>

StoreAdmitsIntent(i) == ExclusiveIntents => intent[i] = None

PersistIntent(t) ==
    /\ StoreAdmitsIntent(IdOf(t))
    /\ intent' = [intent EXCEPT ![IdOf(t)] = IntentOf(t)]
    /\ UNCHANGED <<completion, outbox>>

CommitIntent(t) ==
    /\ pc[t] = "intend"
    /\ PersistIntent(t)
    /\ Goto(t, "execute")
    /\ UNCHANGED <<prepared, locals, writes, provider>>

\* The intent is durable but the call does not learn it: the store raises
\* after the commit, or the call is cancelled or dies while it waits.
CommitIntentUnheard(t) ==
    /\ pc[t] = "intend"
    /\ PersistIntent(t)
    /\ \E kind \in {"error", "crashed"} \cup (IF Cancellable THEN {"cancelled"} ELSE {}) :
          Raise(t, kind)
    /\ UNCHANGED <<prepared, writes, provider>>

\* Mutant: the executor is called with the requested arguments.
ExecuteAsRequested(t) ==
    /\ pc[t] = "execute"
    /\ LET e == [id |-> IdOf(t), serial |-> invoked[IdOf(t)] + 1, body |-> prepared[t].body]
       IN  /\ effect' = [effect EXCEPT ![t] = e]
           /\ wire' = wire \cup {e}
    /\ invoked' = [invoked EXCEPT ![IdOf(t)] = @ + 1]
    /\ Goto(t, "executing")
    /\ UNCHANGED <<prepared, seen, attempt, auth, store, writes, effects>>

\* The executor is called with the authorized payload.  Nothing is awaited
\* between the commit of the intent and this call.
Execute(t) ==
    /\ pc[t] = "execute"
    /\ LET e == [id |-> IdOf(t), serial |-> invoked[IdOf(t)] + 1, body |-> auth[t].body]
       IN  /\ effect' = [effect EXCEPT ![t] = e]
           /\ wire' = wire \cup {e}
    /\ invoked' = [invoked EXCEPT ![IdOf(t)] = @ + 1]
    /\ Goto(t, "executing")
    /\ UNCHANGED <<prepared, seen, attempt, auth, store, writes, effects>>

\* Mutant: the executor's effect is finalized before the provider applied it.
ExecutorReturnsEarly(t) ==
    /\ pc[t] = "executing"
    /\ Goto(t, "sign")
    /\ UNCHANGED <<prepared, locals, store, writes, provider>>

ExecutorReturns(t) ==
    /\ pc[t] = "executing"
    /\ effect[t] \in effects
    /\ Goto(t, "sign")
    /\ UNCHANGED <<prepared, locals, store, writes, provider>>

\* _stable_effect: the executor or the recoverer returns something that is
\* not an effect with an id.
RejectEffect(t) ==
    /\ pc[t] \in {"executing", "recover"}
    /\ Raise(t, "config_error")
    /\ UNCHANGED <<prepared, store, writes, provider>>

\* Mutant: an executor that raises is called again.
CallbackRaisesRetried(t) ==
    \/ /\ pc[t] = "executing"
       /\ Goto(t, "execute")
       /\ UNCHANGED <<prepared, locals, store, writes, provider>>
    \/ /\ pc[t] \in {"load", "recover", "intend"}
       /\ Raise(t, "error")
       /\ UNCHANGED <<prepared, store, writes, provider>>

\* An application callback raises: nothing in the SDK catches it.
CallbackRaises(t) ==
    /\ pc[t] \in {"load", "recover", "intend", "executing"}
    /\ Raise(t, "error")
    /\ UNCHANGED <<prepared, store, writes, provider>>

-----------------------------------------------------------------------------
(* Finalization: sign the receipt, then commit completion and outbox entry. *)
(* _critical_async shields the operation from cancellation and waits for it *)
(* up to the deadline, once more after a cancellation; _critical_sync runs  *)
(* it in a thread that outlives the deadline.                               *)

SignReceipt(t) ==
    /\ pc[t] = "sign"
    /\ writes' = writes \cup {ReceiptOf(t)}
    /\ Goto(t, "complete")
    /\ UNCHANGED <<prepared, locals, store, provider>>

\* _completion: the signature is malformed, or made with a credential other
\* than the authorized one.
RejectSignature(t) ==
    /\ pc[t] = "sign"
    /\ Raise(t, "config_error")
    /\ UNCHANGED <<prepared, store, writes, provider>>

SignerRaises(t) ==
    /\ pc[t] \in {"sign", "signCancelled"}
    /\ Raise(t, "error")
    /\ UNCHANGED <<prepared, store, writes, provider>>

\* Mutant: the completion write is started but not awaited.
CompletionReturnsAtOnce(t) ==
    /\ pc[t] = "complete"
    /\ Finish(t, "ok", ReceiptOf(t))
    /\ UNCHANGED <<prepared, store, writes, provider>>

CompletionReturns(t) ==
    /\ pc[t] = "complete"
    /\ ReceiptOf(t) \notin writes
    /\ ReceiptOf(t) \in outbox
    /\ Finish(t, "ok", ReceiptOf(t))
    /\ UNCHANGED <<prepared, store, writes, provider>>

\* The store raises, whether or not the completion became durable.
CompletionRaises(t) ==
    /\ pc[t] \in {"complete", "completeCancelled"}
    /\ ReceiptOf(t) \notin writes
    /\ Raise(t, "error")
    /\ UNCHANGED <<prepared, store, writes, provider>>

\* Mutant: the second wait, after a cancellation, has no deadline.
FinalizationTimeoutOnce(t) ==
    /\ pc[t] \in {"sign", "complete"}
    /\ Raise(t, "transport_error")
    /\ UNCHANGED <<prepared, store, writes, provider>>

\* The deadline: the operation itself is not stopped.  After a cancellation
\* the bare TimeoutError of the second wait escapes.
FinalizationTimeout(t) ==
    /\ pc[t] \in Finalizing
    /\ Raise(t, IF pc[t] \in {"sign", "complete"} THEN "transport_error" ELSE "timeout_error")
    /\ UNCHANGED <<prepared, store, writes, provider>>

\* A cancelled call whose shielded operation settles in time raises
\* CancelledError; the signature it obtained is dropped.
CancelledAfterSign(t) ==
    /\ pc[t] = "signCancelled"
    /\ Raise(t, "cancelled")
    /\ UNCHANGED <<prepared, store, writes, provider>>

CancelledAfterCompletion(t) ==
    /\ pc[t] = "completeCancelled"
    /\ ReceiptOf(t) \notin writes
    /\ ReceiptOf(t) \in outbox
    /\ Raise(t, "cancelled")
    /\ UNCHANGED <<prepared, store, writes, provider>>

-----------------------------------------------------------------------------
(* What may befall a call.                                                 *)

Cancel(t) ==
    /\ Cancellable
    /\ \/ /\ pc[t] \in Awaits \cup {"signCancelled", "completeCancelled"}
          /\ Raise(t, "cancelled")
       \/ /\ pc[t] \in {"sign", "complete"}
          /\ Goto(t, IF pc[t] = "sign" THEN "signCancelled" ELSE "completeCancelled")
          /\ UNCHANGED locals
    /\ UNCHANGED <<prepared, store, writes, provider>>

\* The process dies.  What was already sent may still arrive.
Crash(t) ==
    /\ pc[t] # "done"
    /\ Raise(t, "crashed")
    /\ UNCHANGED <<prepared, store, writes, provider>>

-----------------------------------------------------------------------------
(* The durable store and the provider.                                     *)

StoreAdmitsCompletion(r) == KeepFirstCompletion => completion[r.id] = None

\* commit_completion_and_enqueue_receipt is one transaction.
CompletionLands(r) ==
    /\ StoreAdmitsCompletion(r)
    /\ completion' = [completion EXCEPT ![r.id] = r]
    /\ outbox' = outbox \cup {r}
    /\ writes' = writes \ {r}
    /\ UNCHANGED <<prepared, pc, locals, outcome, intent, provider>>

\* The store refuses the completion, or the write dies with its process.
CompletionLost(r) ==
    /\ writes' = writes \ {r}
    /\ UNCHANGED <<prepared, pc, locals, outcome, store, provider>>

ProviderApplies(e) ==
    /\ wire' = wire \ {e}
    /\ effects' = effects \cup {e}
    /\ UNCHANGED <<prepared, pc, locals, outcome, store, writes, invoked>>

ProviderDrops(e) ==
    /\ wire' = wire \ {e}
    /\ UNCHANGED <<prepared, pc, locals, outcome, store, writes, invoked, effects>>

-----------------------------------------------------------------------------
Resume(t) ==
    \/ Load(t) \/ ReturnStored(t) \/ AcceptIntent(t) \/ RejectStored(t)
    \/ Recover(t) \/ RecoveryInconclusive(t)

Fresh(t) ==
    \/ AuthorizeAgain(t) \/ AuthorizeFails(t) \/ Authorize(t)
    \/ Verify(t) \/ RefuseAuthorization(t)
    \/ CommitIntent(t) \/ CommitIntentUnheard(t)
    \/ Execute(t) \/ ExecutorReturns(t) \/ RejectEffect(t) \/ CallbackRaises(t)

Finalize(t) ==
    \/ SignReceipt(t) \/ RejectSignature(t) \/ SignerRaises(t)
    \/ CompletionReturns(t) \/ CompletionRaises(t) \/ FinalizationTimeout(t)
    \/ CancelledAfterSign(t) \/ CancelledAfterCompletion(t)

CallStep(t) == Resume(t) \/ Fresh(t) \/ Finalize(t) \/ Cancel(t) \/ Crash(t)

Environment ==
    \/ \E r \in writes : CompletionLands(r) \/ CompletionLost(r)
    \/ \E e \in wire : ProviderApplies(e) \/ ProviderDrops(e)

Next == (\E t \in Calls : CallStep(t)) \/ Environment

Spec == Init /\ [][Next]_vars

\* The only step the code itself guarantees to happen is a deadline expiring.
Fairness == \A t \in Calls : WF_vars(FinalizationTimeout(t))

FairSpec == Spec /\ Fairness

-----------------------------------------------------------------------------
(* Properties.                                                             *)

\* Types, and what a call holds at each point of execute_prepared_tool.
TypeOK ==
    /\ prepared \in [Calls -> Requests]
    /\ pc \in [Calls -> Points]
    /\ seen \in [Calls -> States]
    /\ attempt \in [Calls -> 0 .. MaxAttempts - 1]
    /\ auth \in [Calls -> Authorizations \cup {None}]
    /\ effect \in [Calls -> Effects \cup {None}]
    /\ outcome \in [Calls -> Outcomes]
    /\ intent \in [Ids -> Intents \cup {None}]
    /\ completion \in [Ids -> Receipts \cup {None}]
    /\ outbox \subseteq Receipts
    /\ writes \subseteq Receipts
    /\ invoked \in [Ids -> Nat]
    /\ wire \subseteq Effects
    /\ effects \subseteq Effects
    /\ \A t \in Calls : pc[t] \in Authorized => auth[t] # None
    /\ \A t \in Calls : pc[t] \in Effected => effect[t] # None

\* However calls with one idempotency id interleave, crash and retry, the
\* executor is called at most once for that id (README: a stored intent is
\* recovered "instead of executing again"), if the store's commit_intent is
\* exclusive.
EffectAtMostOnce == \A i \in Ids : invoked[i] <= 1

\* Whatever reached the provider was released under a durable intent whose
\* authorization is genuine, bound to that id, and for exactly that payload
\* (README: bindings are checked before an effect is released).
EffectsAuthorized ==
    \A e \in wire \cup effects :
        /\ intent[e.id] # None
        /\ LET a == intent[e.id].auth
           IN  a.id = e.id /\ a.body = e.body /\ a.grade \in {"plain", "modified"}

\* A durable completion, even one written by a call that is long gone, is
\* backed by its outbox entry, by an effect the provider really applied, and
\* by the intent stored beside it.
CompletionTruthful ==
    \A i \in Ids : completion[i] # None =>
        LET c == completion[i]
        IN  /\ c \in outbox
            /\ c.id = i /\ c.effect \in effects /\ c.effect.id = i
            /\ intent[i] = [auth |-> c.auth, executor |-> c.executor]

Succeeded(t) == outcome[t].kind = "ok"

\* A call that returns hands out a receipt that is durable in the outbox and
\* that belongs to the request it was given, its own or a recovered one.
OutcomeDurable ==
    \A t \in Calls : Succeeded(t) =>
        LET r == outcome[t].receipt
        IN  /\ r \in outbox
            /\ r.executor = prepared[t].executor
            /\ Binds(r.auth, prepared[t]) /\ Genuine(r.auth)

\* Two calls with one idempotency id that both return report one effect under
\* one authorization, whichever of them ran, recovered or reloaded it.
OutcomesAgree ==
    \A t, u \in Calls :
        Succeeded(t) /\ Succeeded(u) /\ IdOf(t) = IdOf(u) =>
            /\ outcome[t].receipt.effect = outcome[u].receipt.effect
            /\ outcome[t].receipt.auth = outcome[u].receipt.auth

\* The durable record of an id only advances: an intent is never replaced, and
\* a completion, once durable, keeps its authorization and its effect even if
\* a second finalizer writes again.
Advances ==
    \A i \in Ids :
        /\ intent[i] # None => intent'[i] = intent[i]
        /\ completion[i] # None =>
              /\ completion'[i] # None
              /\ completion'[i].auth = completion[i].auth
              /\ completion'[i].effect = completion[i].effect

RecordAdvances == [][Advances]_vars

\* A call that has its effect ends, whatever the signer, the store and the
\* cancellations do: each wait of _critical_async and _critical_sync has a
\* deadline.
FinalizationEnds ==
    \A t \in Calls : pc[t] \in Finalizing ~> pc[t] = "done"

\* README: "Completion plus receipt-outbox persistence is bounded by the
\* finalization deadline": no completion write outlives the call that made it.
CompletionBounded ==
    \A r \in writes : pc[r.by] \in {"complete", "completeCancelled"}

-----------------------------------------------------------------------------
(* Refinement: the stores, the provider and the calls together keep the    *)
(* contract of ExecutionContract.                                          *)

StageOf(i) ==
    IF completion[i] # None THEN "recorded"
    ELSE IF \E e \in effects : e.id = i THEN "applied"
    ELSE IF intent[i] # None THEN "intended"
    ELSE "new"

LedgerOf(i) ==
    [stage |-> StageOf(i),
     grant |-> IF intent[i] = None THEN None ELSE intent[i].auth,
     work  |-> IF \E e \in effects : e.id = i
               THEN CHOOSE e \in effects : e.id = i ELSE None]

Reported ==
    {[id |-> IdOf(t), grant |-> outcome[t].receipt.auth, work |-> outcome[t].receipt.effect] :
        t \in {u \in Calls : Succeeded(u)}}

Contract ==
    INSTANCE ExecutionContract WITH
        Grants <- {a \in Authorizations : a.grade \in {"plain", "modified"}},
        Works <- Effects,
        ledger <- [i \in Ids |-> LedgerOf(i)],
        answers <- Reported

\* The whole machine implements the contract: what the durable store, the
\* provider and the callers see of an id is one grant, one effect, one record.
ImplementsContract == Contract!Spec

-----------------------------------------------------------------------------
(* The inductive invariant behind the safety properties, for a store whose *)
(* commit_intent is exclusive.                                             *)

\* The executor is called only by the one call whose intent went in.
OnceInv ==
    /\ \A i \in Ids : intent[i] = None => invoked[i] = 0
    /\ \A i \in Ids : invoked[i] <= 1
    /\ \A t \in Calls : pc[t] = "execute" => invoked[IdOf(t)] = 0
    /\ \A t, u \in Calls :
          pc[t] = "execute" /\ pc[u] = "execute" /\ IdOf(t) = IdOf(u) => t = u

\* What a call holds was checked, and is what the store holds from the commit
\* of the intent on.
Held(t) ==
    /\ pc[t] \in Authorized => Binds(auth[t], prepared[t])
    /\ pc[t] \in Authorized \ {"verify"} => Genuine(auth[t])
    /\ pc[t] \in Authorized \ {"verify", "intend"} => intent[IdOf(t)] = IntentOf(t)
    /\ pc[t] \in Effected => effect[t].id = IdOf(t)
    /\ pc[t] \in Finalizing => effect[t] \in effects

\* What a call loaded is still true of the store.
Current(t) ==
    /\ seen[t].intent # None => intent[IdOf(t)] = seen[t].intent
    /\ seen[t].completion # None =>
          seen[t].completion \in outbox /\ seen[t].completion.id = IdOf(t)

\* What a call returned is durable, and is about the request it was given.
Answered(t) ==
    Succeeded(t) =>
        LET r == outcome[t].receipt
        IN  /\ pc[t] = "done" /\ r \in outbox
            /\ r.id = IdOf(t) /\ r.executor = prepared[t].executor
            /\ Binds(r.auth, prepared[t]) /\ Genuine(r.auth)

\* Intents, effects, receipts and completions hang together.
RecordInv ==
    /\ \A i \in Ids : intent[i] # None =>
          intent[i].auth.id = i /\ intent[i].auth.grade \in {"plain", "modified"}
    /\ \A e \in wire \cup effects :
          /\ intent[e.id] # None
          /\ e.body = intent[e.id].auth.body
          /\ e.serial \in 1 .. invoked[e.id]
    /\ \A r \in writes \cup outbox :
          /\ r.effect \in effects /\ r.effect.id = r.id
          /\ intent[r.id] = [auth |-> r.auth, executor |-> r.executor]
    /\ \A i \in Ids : completion[i] # None =>
          completion[i] \in outbox /\ completion[i].id = i
    /\ \A r \in outbox : completion[r.id] # None

IInv ==
    /\ TypeOK
    /\ OnceInv
    /\ RecordInv
    /\ \A t \in Calls : Held(t) /\ Current(t) /\ Answered(t)
=============================================================================
