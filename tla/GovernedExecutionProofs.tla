---------------------- MODULE GovernedExecutionProofs ----------------------
(* Theorems about GovernedExecution, for every value of its constants.     *)
EXTENDS GovernedExecution, TLAPS

-----------------------------------------------------------------------------
(* Type correctness.                                                       *)

\* A call that returns or raises leaves well-typed locals behind.
LEMMA FinishTypes ==
    ASSUME TypeOK, NEW t \in Calls, NEW kind \in Kinds,
           NEW r \in Receipts \cup {None}, Finish(t, kind, r),
           UNCHANGED <<prepared, store, writes, provider>>
    PROVE  TypeOK'
  <1>1. NoState \in States
    BY DEF NoState, States
  <1>2. 0 \in 0 .. MaxAttempts - 1
    BY AttemptsAssumption
  <1>3. [kind |-> kind, receipt |-> r] \in Outcomes
    BY DEF Outcomes
  <1>4. "done" \in Points
    BY DEF Points
  <1>5. "done" \notin Authorized /\ "done" \notin Effected
    BY DEF Authorized, Effected, Finalizing
  <1> QED
    BY <1>1, <1>2, <1>3, <1>4, <1>5 DEF TypeOK, Finish, store, provider

LEMMA RaiseTypes ==
    ASSUME TypeOK, NEW t \in Calls, NEW kind \in Kinds, Raise(t, kind),
           UNCHANGED <<prepared, store, writes, provider>>
    PROVE  TypeOK'
  BY FinishTypes DEF Raise

\* A call that moves on, keeping what it holds, keeps the types.
LEMMA GotoTypes ==
    ASSUME TypeOK, NEW t \in Calls, NEW p \in Points, Goto(t, p),
           p \in Authorized => auth[t] # None,
           p \in Effected => effect[t] # None,
           UNCHANGED <<prepared, locals, intent, completion, outbox>>,
           UNCHANGED provider,
           writes' \subseteq Receipts
    PROVE  TypeOK'
  BY DEF TypeOK, Goto, locals, provider

LEMMA InitTypes == Init => TypeOK
  BY AttemptsAssumption
  DEF Init, TypeOK, NoState, States, Points, Awaits, Outcomes, Kinds,
      Authorized, Effected, Finalizing

LEMMA ResumeTypes ==
    ASSUME TypeOK, NEW t \in Calls, Resume(t)
    PROVE  TypeOK'
  <1>1. CASE Load(t)
    <2> DEFINE state == [intent |-> intent[IdOf(t)], completion |-> completion[IdOf(t)]]
    <2>1. state \in States
      BY DEF TypeOK, IdOf, Requests, States
    <2>2. seen' = [seen EXCEPT ![t] = state]
      BY <1>1 DEF Load
    <2>3. \E p \in Points \ (Authorized \cup Effected) : pc' = [pc EXCEPT ![t] = p]
      BY <1>1 DEF Load, Goto, Points, Awaits, Authorized, Effected, Finalizing
    <2> QED
      BY <1>1, <2>1, <2>2, <2>3 DEF TypeOK, Load, Goto, store, provider
  <1>2. CASE ReturnStored(t)
    <2>1. seen[t].completion \in Receipts \cup {None}
      BY DEF TypeOK, States
    <2> QED
      BY <1>2, <2>1, FinishTypes DEF ReturnStored, Kinds
  <1>3. CASE AcceptIntent(t)
    <2>1. seen[t].intent.auth \in Authorizations
      BY <1>3 DEF TypeOK, States, Intents, AcceptIntent
    <2>2. "recover" \in Points /\ "recover" \notin Effected
      BY DEF Points, Awaits, Effected, Finalizing
    <2> QED
      BY <1>3, <2>1, <2>2, NoneAssumption DEF TypeOK, AcceptIntent, Goto, store, provider
  <1>4. CASE RejectStored(t)
    BY <1>4, RaiseTypes DEF RejectStored, Kinds
  <1>5. CASE Recover(t)
    <2>1. PICK e \in effects : effect' = [effect EXCEPT ![t] = e]
      BY <1>5 DEF Recover
    <2>2. e \in Effects /\ e # None
      BY NoneAssumption DEF TypeOK
    <2>3. "sign" \in Points /\ pc[t] \in Authorized
      BY <1>5 DEF Recover, Points, Finalizing, Authorized
    <2> QED
      BY <1>5, <2>1, <2>2, <2>3 DEF TypeOK, Recover, Goto, store, provider
  <1>6. CASE RecoveryInconclusive(t)
    BY <1>6, RaiseTypes DEF RecoveryInconclusive, Kinds
  <1> QED
    BY <1>1, <1>2, <1>3, <1>4, <1>5, <1>6 DEF Resume

LEMMA FreshTypes ==
    ASSUME TypeOK, NEW t \in Calls, Fresh(t)
    PROVE  TypeOK'
  <1>1. CASE AuthorizeAgain(t)
    <2>1. attempt[t] + 1 \in 0 .. MaxAttempts - 1
      BY <1>1, AttemptsAssumption DEF TypeOK, AuthorizeAgain
    <2> QED
      BY <1>1, <2>1 DEF TypeOK, AuthorizeAgain, store, provider
  <1>2. CASE AuthorizeFails(t)
    BY <1>2, RaiseTypes DEF AuthorizeFails, Kinds
  <1>3. CASE Authorize(t)
    <2>1. PICK a \in Authorizations :
             \/ /\ auth' = [auth EXCEPT ![t] = a]
                /\ Goto(t, "verify")
                /\ UNCHANGED <<seen, attempt, effect>>
             \/ Raise(t, "config_error")
      BY <1>3 DEF Authorize
    <2>2. UNCHANGED <<prepared, store, writes, provider>>
      BY <1>3 DEF Authorize
    <2>3. CASE Raise(t, "config_error")
      BY <2>2, <2>3, RaiseTypes DEF Kinds
    <2>4. CASE /\ auth' = [auth EXCEPT ![t] = a]
               /\ Goto(t, "verify")
               /\ UNCHANGED <<seen, attempt, effect>>
      <3>1. "verify" \in Points /\ "verify" \notin Effected
        BY DEF Points, Awaits, Effected, Finalizing
      <3> QED
        BY <2>2, <2>4, <3>1, NoneAssumption DEF TypeOK, Goto, store, provider
    <2> QED
      BY <2>1, <2>3, <2>4
  <1>4. CASE Verify(t)
    <2>1. pc[t] \in Authorized /\ "intend" \in Points /\ "intend" \notin Effected
      BY <1>4 DEF Verify, Authorized, Points, Awaits, Effected, Finalizing
    <2> QED
      BY <1>4, <2>1, GotoTypes DEF TypeOK, Verify, store
  <1>5. CASE RefuseAuthorization(t)
    BY <1>5, RaiseTypes DEF RefuseAuthorization, Kinds
  <1>6. ASSUME pc[t] = "intend", PersistIntent(t)
        PROVE  intent' \in [Ids -> Intents \cup {None}]
    <2>1. auth[t] \in Authorizations
      BY <1>6 DEF TypeOK, Authorized
    <2>2. IntentOf(t) \in Intents
      BY <2>1 DEF TypeOK, Intents, Requests, IntentOf
    <2> QED
      BY <1>6, <2>2 DEF TypeOK, PersistIntent
  <1>7. CASE CommitIntent(t)
    <2>1. pc[t] \in Authorized /\ "execute" \in Points /\ "execute" \notin Effected
      BY <1>7 DEF CommitIntent, Authorized, Points, Effected, Finalizing
    <2> QED
      BY <1>6, <1>7, <2>1 DEF TypeOK, CommitIntent, PersistIntent, Goto, locals, provider
  <1>8. CASE CommitIntentUnheard(t)
    <2>1. PICK kind \in Kinds : Raise(t, kind)
      BY <1>8 DEF CommitIntentUnheard, Kinds
    <2>2. NoState \in States /\ 0 \in 0 .. MaxAttempts - 1
      BY AttemptsAssumption DEF NoState, States
    <2>3. [kind |-> kind, receipt |-> None] \in Outcomes
      BY DEF Outcomes
    <2>4. "done" \in Points /\ "done" \notin Authorized /\ "done" \notin Effected
      BY DEF Points, Authorized, Effected, Finalizing
    <2> QED
      BY <1>6, <1>8, <2>1, <2>2, <2>3, <2>4
      DEF TypeOK, CommitIntentUnheard, PersistIntent, Raise, Finish, provider
  <1>9. CASE Execute(t)
    <2> DEFINE e == [id |-> IdOf(t), serial |-> invoked[IdOf(t)] + 1, body |-> auth[t].body]
    <2>1. IdOf(t) \in Ids /\ auth[t] \in Authorizations
      BY <1>9 DEF TypeOK, Execute, Authorized, IdOf, Requests
    <2>2. e \in Effects /\ e # None
      BY <2>1, NoneAssumption DEF TypeOK, Authorizations, Effects
    <2>3. effect' = [effect EXCEPT ![t] = e] /\ wire' = wire \cup {e}
      BY <1>9 DEF Execute
    <2>4. invoked' \in [Ids -> Nat]
      BY <1>9, <2>1 DEF TypeOK, Execute
    <2>5. "executing" \in Points /\ pc[t] \in Authorized
      BY <1>9 DEF Execute, Points, Awaits, Authorized
    <2> HIDE DEF e
    <2> QED
      BY <1>9, <2>2, <2>3, <2>4, <2>5 DEF TypeOK, Execute, Goto, store
  <1>10. CASE ExecutorReturns(t)
    <2>1. pc[t] \in Authorized /\ pc[t] \in Effected /\ "sign" \in Points
      BY <1>10 DEF ExecutorReturns, Authorized, Effected, Points, Finalizing
    <2> QED
      BY <1>10, <2>1, GotoTypes DEF TypeOK, ExecutorReturns, store
  <1>11. CASE RejectEffect(t)
    BY <1>11, RaiseTypes DEF RejectEffect, Kinds
  <1>12. CASE CallbackRaises(t)
    BY <1>12, RaiseTypes DEF CallbackRaises, Kinds
  <1> QED
    BY <1>1, <1>2, <1>3, <1>4, <1>5, <1>7, <1>8, <1>9, <1>10, <1>11, <1>12 DEF Fresh

LEMMA FinalizeTypes ==
    ASSUME TypeOK, NEW t \in Calls, Finalize(t)
    PROVE  TypeOK'
  <1>1. ASSUME pc[t] \in Finalizing
        PROVE  ReceiptOf(t) \in Receipts
    <2>1. auth[t] \in Authorizations /\ effect[t] \in Effects
      BY <1>1 DEF TypeOK, Authorized, Effected
    <2> QED
      BY <2>1 DEF TypeOK, ReceiptOf, Receipts, Authorizations, Requests
  <1>2. CASE SignReceipt(t)
    <2>1. pc[t] \in Finalizing /\ "complete" \in Points
      BY <1>2 DEF SignReceipt, Finalizing, Points
    <2>2. auth[t] # None /\ effect[t] # None
      BY <2>1 DEF TypeOK, Authorized, Effected
    <2>3. writes' \subseteq Receipts
      BY <1>1, <1>2, <2>1 DEF TypeOK, SignReceipt
    <2> QED
      BY <1>2, <2>1, <2>2, <2>3, GotoTypes DEF SignReceipt, store
  <1>3. CASE RejectSignature(t)
    BY <1>3, RaiseTypes DEF RejectSignature, Kinds
  <1>4. CASE SignerRaises(t)
    BY <1>4, RaiseTypes DEF SignerRaises, Kinds
  <1>5. CASE CompletionReturns(t)
    BY <1>1, <1>5, FinishTypes DEF CompletionReturns, Finalizing, Kinds
  <1>6. CASE CompletionRaises(t)
    BY <1>6, RaiseTypes DEF CompletionRaises, Kinds
  <1>7. CASE FinalizationTimeout(t)
    <2>1. \E kind \in Kinds : Raise(t, kind)
      BY <1>7 DEF FinalizationTimeout, Kinds
    <2> QED
      BY <1>7, <2>1, RaiseTypes DEF FinalizationTimeout
  <1>8. CASE CancelledAfterSign(t)
    BY <1>8, RaiseTypes DEF CancelledAfterSign, Kinds
  <1>9. CASE CancelledAfterCompletion(t)
    BY <1>9, RaiseTypes DEF CancelledAfterCompletion, Kinds
  <1> QED
    BY <1>2, <1>3, <1>4, <1>5, <1>6, <1>7, <1>8, <1>9 DEF Finalize

LEMMA MishapTypes ==
    ASSUME TypeOK, NEW t \in Calls, Cancel(t) \/ Crash(t)
    PROVE  TypeOK'
  <1>1. CASE Crash(t)
    BY <1>1, RaiseTypes DEF Crash, Kinds
  <1>2. CASE Cancel(t) /\ Raise(t, "cancelled")
    BY <1>2, RaiseTypes DEF Cancel, Kinds
  <1>3. CASE Cancel(t) /\ ~Raise(t, "cancelled")
    <2>1. PICK p \in {"signCancelled", "completeCancelled"} : Goto(t, p)
      BY <1>3 DEF Cancel
    <2>2. pc[t] \in Finalizing /\ UNCHANGED locals
      BY <1>3 DEF Cancel, Finalizing
    <2>3. auth[t] # None /\ effect[t] # None
      BY <2>2 DEF TypeOK, Authorized, Effected
    <2>4. p \in Points /\ writes' \subseteq Receipts
      BY <1>3 DEF TypeOK, Cancel, Points, Finalizing
    <2> QED
      BY <1>3, <2>1, <2>2, <2>3, <2>4, GotoTypes DEF Cancel, store
  <1> QED
    BY <1>1, <1>2, <1>3

LEMMA EnvironmentTypes == TypeOK /\ Environment => TypeOK'
  <1> SUFFICES ASSUME TypeOK, Environment
               PROVE  TypeOK'
    OBVIOUS
  <1>1. CASE \E r \in writes : CompletionLands(r)
    <2>1. PICK r \in writes : CompletionLands(r)
      BY <1>1
    <2>2. r \in Receipts
      BY DEF TypeOK
    <2> QED
      BY <2>1, <2>2 DEF TypeOK, CompletionLands, locals, provider
  <1>2. CASE \E r \in writes : CompletionLost(r)
    BY <1>2 DEF TypeOK, CompletionLost, locals, store, provider
  <1>3. CASE \E e \in wire : ProviderApplies(e) \/ ProviderDrops(e)
    BY <1>3 DEF TypeOK, ProviderApplies, ProviderDrops, locals, store
  <1> QED
    BY <1>1, <1>2, <1>3 DEF Environment

LEMMA NextTypes == TypeOK /\ [Next]_vars => TypeOK'
  <1> SUFFICES ASSUME TypeOK, [Next]_vars
               PROVE  TypeOK'
    OBVIOUS
  <1>1. CASE UNCHANGED vars
    BY <1>1 DEF TypeOK, vars, locals, store, provider
  <1>2. CASE Environment
    BY <1>2, EnvironmentTypes
  <1>3. CASE \E t \in Calls : CallStep(t)
    BY <1>3, ResumeTypes, FreshTypes, FinalizeTypes, MishapTypes DEF CallStep
  <1> QED
    BY <1>1, <1>2, <1>3 DEF Next

\* Every reachable state is well typed, and a call past authorization holds
\* the authorization and, past the executor, the effect it works with.
THEOREM TypeCorrectness == Spec => []TypeOK
  <1>1. Init => TypeOK
    BY InitTypes
  <1>2. TypeOK /\ [Next]_vars => TypeOK'
    BY NextTypes
  <1> QED
    BY <1>1, <1>2, PTL DEF Spec

-----------------------------------------------------------------------------
(* Safety, for a store whose commit_intent is exclusive.                   *)

\* A step inside one call, which touches neither the store nor the provider
\* and does not arrive at the executor, need only be checked for that call.
LEMMA LocalInv ==
    ASSUME IInv, TypeOK', NEW t \in Calls,
           \A u \in Calls \ {t} :
              /\ pc'[u] = pc[u] /\ seen'[u] = seen[u] /\ auth'[u] = auth[u]
              /\ effect'[u] = effect[u] /\ outcome'[u] = outcome[u],
           UNCHANGED <<prepared, store, writes, provider>>,
           pc'[t] # "execute",
           Held(t)', Current(t)', Answered(t)'
    PROVE  IInv'
  <1>1. OnceInv'
    BY DEF IInv, OnceInv, IdOf, store, provider
  <1>2. RecordInv'
    BY DEF IInv, RecordInv, store, provider
  <1>3. ASSUME NEW u \in Calls \ {t}
        PROVE  Held(u)' /\ Current(u)' /\ Answered(u)'
    <2>1. Held(u) /\ Current(u) /\ Answered(u)
      BY DEF IInv
    <2>2. Held(u)'
      BY <2>1 DEF Held, IntentOf, IdOf, store, provider
    <2>3. Current(u)'
      BY <2>1 DEF Current, IdOf, store
    <2>4. Answered(u)'
      BY <2>1 DEF Answered, Succeeded, IdOf, store
    <2> QED
      BY <2>2, <2>3, <2>4
  <1> QED
    BY <1>1, <1>2, <1>3 DEF IInv

\* A call may return a receipt that is durable and belongs to its request.
LEMMA FinishInv ==
    ASSUME IInv, NEW t \in Calls, NEW kind \in Kinds,
           NEW r \in Receipts \cup {None}, Finish(t, kind, r),
           UNCHANGED <<prepared, store, writes, provider>>,
           kind = "ok" =>
              /\ r \in outbox
              /\ r.id = IdOf(t) /\ r.executor = prepared[t].executor
              /\ Binds(r.auth, prepared[t]) /\ Genuine(r.auth)
    PROVE  IInv'
  <1>1. TypeOK'
    BY FinishTypes DEF IInv
  <1>2. /\ pc'[t] = "done" /\ seen'[t] = NoState
        /\ outcome'[t] = [kind |-> kind, receipt |-> r]
    BY DEF IInv, TypeOK, Finish
  <1>3. Held(t)'
    BY <1>2 DEF Held, Authorized, Effected, Finalizing
  <1>4. Current(t)'
    BY <1>2 DEF Current, NoState
  <1>5. Answered(t)'
    BY <1>2 DEF Answered, Succeeded, IdOf, store
  <1>6. \A u \in Calls \ {t} :
           /\ pc'[u] = pc[u] /\ seen'[u] = seen[u] /\ auth'[u] = auth[u]
           /\ effect'[u] = effect[u] /\ outcome'[u] = outcome[u]
    BY DEF IInv, TypeOK, Finish
  <1> QED
    BY <1>1, <1>2, <1>3, <1>4, <1>5, <1>6, LocalInv

LEMMA RaiseInv ==
    ASSUME IInv, NEW t \in Calls, NEW kind \in Kinds \ {"ok"}, Raise(t, kind),
           UNCHANGED <<prepared, store, writes, provider>>
    PROVE  IInv'
  BY FinishInv DEF Raise

LEMMA InitInv == Init => IInv
  <1> SUFFICES ASSUME Init
               PROVE  IInv
    OBVIOUS
  <1>1. OnceInv
    BY DEF Init, OnceInv, IdOf, Requests
  <1>2. RecordInv
    BY DEF Init, RecordInv
  <1>3. ASSUME NEW t \in Calls
        PROVE  Held(t) /\ Current(t) /\ Answered(t)
    BY DEF Init, Held, Current, Answered, Succeeded, NoState, Authorized, Effected,
           Finalizing
  <1> QED
    BY <1>1, <1>2, <1>3, InitTypes DEF IInv

LEMMA ResumeInv ==
    ASSUME IInv, NEW t \in Calls, Resume(t)
    PROVE  IInv'
  <1>0. TypeOK' /\ TypeOK
    BY ResumeTypes DEF IInv
  <1>1. CASE Load(t)
    <2>1. /\ seen'[t] = [intent |-> intent[IdOf(t)], completion |-> completion[IdOf(t)]]
          /\ pc'[t] \in {"checkCompletion", "checkIntent", "authorize"}
      BY <1>0, <1>1 DEF TypeOK, Load, Goto
    <2>2. Held(t)'
      BY <2>1 DEF Held, Authorized, Effected, Finalizing
    <2>3. IdOf(t) \in Ids
      BY <1>0 DEF TypeOK, IdOf, Requests
    <2>4. Current(t)'
      BY <1>1, <2>1, <2>3 DEF IInv, RecordInv, Current, Load, IdOf, store
    <2>5. Answered(t)'
      BY <1>1 DEF IInv, Answered, Succeeded, Load, Goto, IdOf, store
    <2>6. \A u \in Calls \ {t} : pc'[u] = pc[u] /\ seen'[u] = seen[u]
      BY <1>0, <1>1 DEF TypeOK, Load, Goto
    <2> QED
      BY <1>0, <1>1, <2>1, <2>2, <2>4, <2>5, <2>6, LocalInv DEF Load, Goto
  <1>2. CASE ReturnStored(t)
    <2> DEFINE r == seen[t].completion
    <2>1. Current(t) /\ r \in Receipts \cup {None}
      BY <1>0 DEF IInv, TypeOK, States
    <2>2. /\ r \in outbox
          /\ r.id = IdOf(t) /\ r.executor = prepared[t].executor
          /\ Binds(r.auth, prepared[t]) /\ Genuine(r.auth)
      BY <1>2, <2>1 DEF Current, ReturnStored, StoredIntentHolds, CompletionHolds
    <2> QED
      BY <1>2, <2>1, <2>2, FinishInv DEF ReturnStored, Kinds
  <1>3. CASE AcceptIntent(t)
    <2>1. /\ pc[t] = "checkIntent"
          /\ seen[t].intent # None /\ StoredIntentHolds(seen[t].intent, prepared[t])
          /\ auth'[t] = seen[t].intent.auth /\ pc'[t] = "recover"
          /\ seen' = seen /\ effect' = effect /\ outcome' = outcome
          /\ UNCHANGED <<prepared, store, writes, provider>>
      BY <1>0, <1>3 DEF TypeOK, AcceptIntent, Goto
    <2>2. /\ Current(t) /\ Answered(t)
          /\ seen[t].intent \in Intents
      BY <1>0, <2>1 DEF IInv, TypeOK, States
    <2>3. seen[t].intent = [auth |-> seen[t].intent.auth, executor |-> prepared[t].executor]
      BY <2>1, <2>2 DEF Intents, StoredIntentHolds
    <2>4. Held(t)'
      BY <2>1, <2>2, <2>3
      DEF Held, Current, StoredIntentHolds, IntentOf, IdOf, Effected, Finalizing, store
    <2>5. Current(t)' /\ Answered(t)'
      BY <2>1, <2>2 DEF Current, Answered, Succeeded, IdOf, store
    <2>6. \A u \in Calls \ {t} : pc'[u] = pc[u] /\ auth'[u] = auth[u]
      BY <1>0, <1>3 DEF TypeOK, AcceptIntent, Goto
    <2> QED
      BY <1>0, <2>1, <2>4, <2>5, <2>6, LocalInv
  <1>4. CASE RejectStored(t)
    BY <1>4, RaiseInv DEF RejectStored, Kinds
  <1>5. CASE Recover(t)
    <2>1. /\ effect'[t] \in effects /\ effect'[t].id = IdOf(t) /\ pc'[t] = "sign"
          /\ seen' = seen /\ auth' = auth /\ outcome' = outcome
          /\ UNCHANGED <<prepared, store, writes, provider>>
      BY <1>0, <1>5 DEF TypeOK, Recover, Goto
    <2>2. Held(t) /\ Current(t) /\ Answered(t) /\ pc[t] = "recover"
      BY <1>5 DEF IInv, Recover
    <2>3. Held(t)'
      BY <2>1, <2>2 DEF Held, IntentOf, IdOf, Authorized, store, provider
    <2>4. Current(t)' /\ Answered(t)'
      BY <2>1, <2>2 DEF Current, Answered, Succeeded, IdOf, store
    <2>5. \A u \in Calls \ {t} : pc'[u] = pc[u] /\ effect'[u] = effect[u]
      BY <1>0, <1>5 DEF TypeOK, Recover, Goto
    <2> QED
      BY <1>0, <2>1, <2>3, <2>4, <2>5, LocalInv
  <1>6. CASE RecoveryInconclusive(t)
    BY <1>6, RaiseInv DEF RecoveryInconclusive, Kinds
  <1> QED
    BY <1>1, <1>2, <1>3, <1>4, <1>5, <1>6 DEF Resume

\* A call that takes no part in a step keeps what it knows, as long as intents
\* are not replaced and effects and receipts are not withdrawn.
LEMMA BystanderInv ==
    ASSUME IInv, NEW u \in Calls,
           pc'[u] = pc[u], seen'[u] = seen[u], auth'[u] = auth[u],
           effect'[u] = effect[u], outcome'[u] = outcome[u], prepared' = prepared,
           \A i \in Ids : intent[i] # None => intent'[i] = intent[i],
           effects \subseteq effects', outbox \subseteq outbox'
    PROVE  Held(u)' /\ Current(u)' /\ Answered(u)'
  <1>1. Held(u) /\ Current(u) /\ Answered(u) /\ IdOf(u) \in Ids
    BY DEF IInv, TypeOK, IdOf, Requests
  <1>2. pc[u] \in Authorized => IntentOf(u) \in Intents
    BY DEF IInv, TypeOK, IntentOf, Intents, Requests
  <1>3. Held(u)'
    BY <1>1, <1>2, NoneAssumption DEF Held, IntentOf, IdOf, Authorized
  <1>4. Current(u)'
    BY <1>1 DEF Current, IdOf
  <1>5. Answered(u)'
    BY <1>1 DEF Answered, Succeeded, IdOf
  <1> QED
    BY <1>3, <1>4, <1>5

\* What the exclusive store does with an intent it admits.
LEMMA IntentCommitted ==
    ASSUME ExclusiveIntents, IInv, NEW t \in Calls, pc[t] = "intend", PersistIntent(t)
    PROVE  /\ IdOf(t) \in Ids /\ intent[IdOf(t)] = None
           /\ IntentOf(t) \in Intents /\ IntentOf(t) # None
           /\ intent'[IdOf(t)] = IntentOf(t)
           /\ \A i \in Ids : intent[i] # None => intent'[i] = intent[i]
           /\ invoked[IdOf(t)] = 0
           /\ \A u \in Calls : pc[u] = "execute" => IdOf(u) # IdOf(t)
  <1>1. IdOf(t) \in Ids /\ intent[IdOf(t)] = None
    BY DEF IInv, TypeOK, IdOf, Requests, PersistIntent, StoreAdmitsIntent
  <1>2. \A u \in Calls : pc[u] \in Authorized => IntentOf(u) \in Intents
    BY DEF IInv, TypeOK, IntentOf, Intents, Requests
  <1>3. IntentOf(t) \in Intents /\ IntentOf(t) # None
    BY <1>2, NoneAssumption DEF Authorized
  <1>4. /\ intent'[IdOf(t)] = IntentOf(t)
        /\ \A i \in Ids : i # IdOf(t) => intent'[i] = intent[i]
    BY <1>1 DEF IInv, TypeOK, PersistIntent
  <1>5. invoked[IdOf(t)] = 0
    BY <1>1 DEF IInv, OnceInv
  <1>6. ASSUME NEW u \in Calls, pc[u] = "execute"
        PROVE  IdOf(u) # IdOf(t)
    <2>1. Held(u) /\ pc[u] \in Authorized \ {"verify", "intend"}
      BY <1>6 DEF IInv, Authorized
    <2>2. intent[IdOf(u)] # None
      BY <1>2, <2>1, NoneAssumption DEF Held
    <2> QED
      BY <1>1, <2>2
  <1> QED
    BY <1>1, <1>3, <1>4, <1>5, <1>6

LEMMA IntentRecordInv ==
    ASSUME ExclusiveIntents, IInv, NEW t \in Calls, pc[t] = "intend", PersistIntent(t),
           UNCHANGED <<writes, provider>>
    PROVE  RecordInv'
  <1>1. /\ IntentOf(t).auth.id = IdOf(t)
        /\ IntentOf(t).auth.grade \in {"plain", "modified"}
    <2>1. Held(t) /\ auth[t] \in Authorizations
      BY DEF IInv, TypeOK, Authorized
    <2> QED
      BY <2>1 DEF Held, Authorized, Binds, Genuine, Authorizations, Grades, IntentOf, IdOf
  <1>2. \A i \in Ids : intent[i] # None => intent'[i] = intent[i]
    BY IntentCommitted
  <1>3. \A i \in Ids : i # IdOf(t) => intent'[i] = intent[i]
    BY DEF IInv, TypeOK, PersistIntent
  <1>4. ASSUME NEW i \in Ids, intent'[i] # None
        PROVE  intent'[i].auth.id = i /\ intent'[i].auth.grade \in {"plain", "modified"}
    BY <1>1, <1>3, <1>4, IntentCommitted DEF IInv, RecordInv
  <1>5. ASSUME NEW e \in wire \cup effects
        PROVE  /\ intent'[e.id] # None /\ e.body = intent'[e.id].auth.body
               /\ e.serial \in 1 .. invoked[e.id]
    <2>1. e.id \in Ids
      BY DEF IInv, TypeOK, Effects
    <2> QED
      BY <1>2, <2>1 DEF IInv, RecordInv
  <1>6. ASSUME NEW r \in writes \cup outbox
        PROVE  intent'[r.id] = [auth |-> r.auth, executor |-> r.executor]
    <2>1. r \in Receipts
      BY DEF IInv, TypeOK
    <2>2. r.id \in Ids /\ [auth |-> r.auth, executor |-> r.executor] \in Intents
      BY <2>1 DEF Receipts, Intents
    <2>3. intent[r.id] # None
      BY <2>2, NoneAssumption DEF IInv, RecordInv
    <2> QED
      BY <1>2, <2>2, <2>3 DEF IInv, RecordInv
  <1> QED
    BY <1>4, <1>5, <1>6 DEF IInv, RecordInv, PersistIntent, provider

LEMMA CommitInv ==
    ASSUME ExclusiveIntents, IInv, NEW t \in Calls,
           CommitIntent(t) \/ CommitIntentUnheard(t)
    PROVE  IInv'
  <1>0. TypeOK /\ TypeOK'
    BY FreshTypes DEF IInv, Fresh
  <1>1. /\ pc[t] = "intend" /\ PersistIntent(t)
        /\ UNCHANGED <<prepared, writes, provider>>
    BY DEF CommitIntent, CommitIntentUnheard
  <1>2. /\ pc'[t] \in {"execute", "done"}
        /\ \A u \in Calls \ {t} :
              /\ pc'[u] = pc[u] /\ seen'[u] = seen[u] /\ auth'[u] = auth[u]
              /\ effect'[u] = effect[u] /\ outcome'[u] = outcome[u]
    BY <1>0 DEF TypeOK, CommitIntent, CommitIntentUnheard, Raise, Finish, Goto, locals
  <1>3. OnceInv'
    <2>1. /\ IdOf(t) \in Ids /\ intent'[IdOf(t)] # None /\ invoked[IdOf(t)] = 0
          /\ \A i \in Ids : intent[i] # None => intent'[i] = intent[i]
          /\ \A u \in Calls : pc[u] = "execute" => IdOf(u) # IdOf(t)
      BY <1>1, IntentCommitted
    <2>2. \A u \in Calls : IdOf(u)' = IdOf(u)
      BY <1>1 DEF IdOf
    <2>3. \A i \in Ids : intent'[i] = None => invoked'[i] = 0
      BY <1>1, <2>1 DEF IInv, OnceInv, provider
    <2>4. \A u \in Calls : pc'[u] = "execute" => invoked'[IdOf(u)] = 0
      BY <1>1, <1>2, <2>1 DEF IInv, OnceInv, provider
    <2>5. \A u, v \in Calls :
             pc'[u] = "execute" /\ pc'[v] = "execute" /\ IdOf(u) = IdOf(v) => u = v
      BY <1>2, <2>1 DEF IInv, OnceInv
    <2> QED
      BY <1>1, <2>2, <2>3, <2>4, <2>5 DEF IInv, OnceInv, provider
  <1>4. RecordInv'
    BY <1>1, IntentRecordInv
  <1>5. ASSUME NEW u \in Calls \ {t}
        PROVE  Held(u)' /\ Current(u)' /\ Answered(u)'
    BY <1>1, <1>2, IntentCommitted, BystanderInv DEF PersistIntent, provider
  <1>6. Held(t) /\ Current(t) /\ Answered(t)
    BY DEF IInv
  <1>7. CASE CommitIntent(t)
    <2>1. /\ pc'[t] = "execute" /\ auth' = auth /\ seen' = seen /\ outcome' = outcome
          /\ intent'[IdOf(t)] = IntentOf(t) /\ outbox' = outbox
      BY <1>0, <1>1, <1>7, IntentCommitted DEF TypeOK, CommitIntent, Goto, PersistIntent, locals
    <2>2. Held(t)'
      BY <1>1, <1>6, <2>1 DEF Held, IntentOf, IdOf, Authorized, Effected, Finalizing
    <2>3. Current(t)'
      BY <1>1, <1>6, <2>1, IntentCommitted DEF Current, IdOf
    <2>4. Answered(t)'
      BY <1>1, <1>6, <2>1 DEF Answered, Succeeded, IdOf
    <2> QED
      BY <1>0, <1>3, <1>4, <1>5, <2>2, <2>3, <2>4 DEF IInv
  <1>8. CASE CommitIntentUnheard(t)
    <2>1. /\ pc'[t] = "done" /\ seen'[t] = NoState /\ outcome'[t].kind # "ok"
      BY <1>0, <1>8 DEF TypeOK, CommitIntentUnheard, Raise, Finish
    <2>2. Held(t)' /\ Current(t)' /\ Answered(t)'
      BY <2>1 DEF Held, Current, Answered, Succeeded, NoState, Authorized, Effected, Finalizing
    <2> QED
      BY <1>0, <1>3, <1>4, <1>5, <2>2 DEF IInv
  <1> QED
    BY <1>7, <1>8

LEMMA ExecuteInv ==
    ASSUME IInv, NEW t \in Calls, Execute(t)
    PROVE  IInv'
  <1> DEFINE e == [id |-> IdOf(t), serial |-> invoked[IdOf(t)] + 1, body |-> auth[t].body]
  <1>0. TypeOK /\ TypeOK'
    BY FreshTypes DEF IInv, Fresh
  <1>1. /\ pc[t] = "execute" /\ pc'[t] = "executing"
        /\ invoked' = [invoked EXCEPT ![IdOf(t)] = @ + 1]
        /\ wire' = wire \cup {e} /\ effect'[t] = e
        /\ \A u \in Calls \ {t} : pc'[u] = pc[u] /\ effect'[u] = effect[u]
        /\ UNCHANGED <<prepared, seen, auth, outcome, store, writes, effects>>
    BY <1>0 DEF TypeOK, Execute, Goto
  <1>2. IdOf(t) \in Ids /\ invoked[IdOf(t)] = 0 /\ Held(t) /\ Current(t) /\ Answered(t)
    BY <1>0, <1>1 DEF IInv, OnceInv, TypeOK, IdOf, Requests
  <1>3. /\ intent[IdOf(t)] = IntentOf(t) /\ IntentOf(t) \in Intents
        /\ intent[IdOf(t)] # None
    BY <1>0, <1>1, <1>2, NoneAssumption
    DEF TypeOK, Held, Authorized, IntentOf, Intents, Requests
  <1>4. /\ invoked'[IdOf(t)] = 1
        /\ \A i \in Ids : i # IdOf(t) => invoked'[i] = invoked[i]
    BY <1>0, <1>1, <1>2 DEF TypeOK
  <1>5. OnceInv'
    <2>1. \A u \in Calls : IdOf(u)' = IdOf(u) /\ IdOf(u) \in Ids
      BY <1>0, <1>1 DEF TypeOK, IdOf, Requests
    <2>2. \A u \in Calls : pc'[u] = "execute" => pc[u] = "execute" /\ IdOf(u) # IdOf(t)
      BY <1>1 DEF IInv, OnceInv
    <2> QED
      BY <1>1, <1>3, <1>4, <2>1, <2>2 DEF IInv, OnceInv, store
  <1>6. RecordInv'
    <2>1. ASSUME NEW f \in wire' \cup effects'
          PROVE  /\ intent[f.id] # None /\ f.body = intent[f.id].auth.body
                 /\ f.serial \in 1 .. invoked'[f.id]
      <3>1. CASE f = e
        BY <1>2, <1>3, <1>4, <3>1 DEF IntentOf
      <3>2. CASE f # e
        <4>1. f \in wire \cup effects /\ f \in Effects
          BY <1>0, <1>1, <3>2 DEF TypeOK
        <4>2. f.id \in Ids /\ f.serial \in 1 .. invoked[f.id] /\ invoked[f.id] \in Nat
          BY <1>0, <4>1 DEF IInv, RecordInv, TypeOK, Effects
        <4> QED
          BY <1>2, <1>4, <4>1, <4>2 DEF IInv, RecordInv
      <3> QED
        BY <3>1, <3>2
    <2> QED
      BY <1>1, <2>1 DEF IInv, RecordInv, store
  <1>7. ASSUME NEW u \in Calls \ {t}
        PROVE  Held(u)' /\ Current(u)' /\ Answered(u)'
    BY <1>1, BystanderInv DEF store
  <1>8. Held(t)' /\ Current(t)' /\ Answered(t)'
    BY <1>1, <1>2
    DEF Held, Current, Answered, Succeeded, IntentOf, IdOf, Authorized, Effected,
        Finalizing, store
  <1> QED
    BY <1>0, <1>5, <1>6, <1>7, <1>8 DEF IInv

LEMMA FreshInv ==
    ASSUME ExclusiveIntents, IInv, NEW t \in Calls, Fresh(t)
    PROVE  IInv'
  <1>0. TypeOK /\ TypeOK' /\ Held(t) /\ Current(t) /\ Answered(t)
    BY FreshTypes DEF IInv
  <1>1. CASE AuthorizeAgain(t)
    <2>1. Held(t)' /\ Current(t)' /\ Answered(t)'
      BY <1>0, <1>1
      DEF AuthorizeAgain, Held, Current, Answered, Succeeded, IntentOf, IdOf, store, provider
    <2> QED
      BY <1>0, <1>1, <2>1, LocalInv DEF AuthorizeAgain
  <1>2. CASE AuthorizeFails(t)
    BY <1>2, RaiseInv DEF AuthorizeFails, Kinds
  <1>3. CASE Authorize(t) /\ Raise(t, "config_error")
    BY <1>3, RaiseInv DEF Authorize, Kinds
  <1>4. CASE Authorize(t) /\ ~Raise(t, "config_error")
    <2>1. /\ pc[t] = "authorize" /\ Binds(auth'[t], prepared[t]) /\ pc'[t] = "verify"
          /\ \A u \in Calls \ {t} : pc'[u] = pc[u] /\ auth'[u] = auth[u]
          /\ UNCHANGED <<prepared, seen, effect, outcome, store, writes, provider>>
      BY <1>0, <1>4 DEF TypeOK, Authorize, Goto
    <2>2. Held(t)' /\ Current(t)' /\ Answered(t)'
      BY <1>0, <2>1
      DEF Held, Current, Answered, Succeeded, IdOf, Effected, Finalizing, store
    <2> QED
      BY <1>0, <2>1, <2>2, LocalInv
  <1>5. CASE Verify(t)
    <2>1. /\ Genuine(auth[t]) /\ pc[t] = "verify" /\ pc'[t] = "intend"
          /\ \A u \in Calls \ {t} : pc'[u] = pc[u]
          /\ UNCHANGED <<prepared, locals, outcome, store, writes, provider>>
      BY <1>0, <1>5 DEF TypeOK, Verify, Goto
    <2>2. Held(t)' /\ Current(t)' /\ Answered(t)'
      BY <1>0, <2>1
      DEF Held, Current, Answered, Succeeded, IdOf, Authorized, Effected, Finalizing,
          locals, store
    <2> QED
      BY <1>0, <2>1, <2>2, LocalInv DEF locals
  <1>6. CASE RefuseAuthorization(t)
    BY <1>6, RaiseInv DEF RefuseAuthorization, Kinds
  <1>7. CASE CommitIntent(t) \/ CommitIntentUnheard(t)
    BY <1>7, CommitInv
  <1>8. CASE Execute(t)
    BY <1>8, ExecuteInv
  <1>9. CASE ExecutorReturns(t)
    <2>1. /\ effect[t] \in effects /\ pc[t] = "executing" /\ pc'[t] = "sign"
          /\ \A u \in Calls \ {t} : pc'[u] = pc[u]
          /\ UNCHANGED <<prepared, locals, outcome, store, writes, provider>>
      BY <1>0, <1>9 DEF TypeOK, ExecutorReturns, Goto
    <2>2. Held(t)' /\ Current(t)' /\ Answered(t)'
      BY <1>0, <2>1
      DEF Held, Current, Answered, Succeeded, IntentOf, IdOf, Authorized, Effected,
          Finalizing, locals, store, provider
    <2> QED
      BY <1>0, <2>1, <2>2, LocalInv DEF locals
  <1>10. CASE RejectEffect(t)
    BY <1>10, RaiseInv DEF RejectEffect, Kinds
  <1>11. CASE CallbackRaises(t)
    BY <1>11, RaiseInv DEF CallbackRaises, Kinds
  <1> QED
    BY <1>1, <1>2, <1>3, <1>4, <1>5, <1>6, <1>7, <1>8, <1>9, <1>10, <1>11 DEF Fresh

LEMMA FinalizeInv ==
    ASSUME IInv, NEW t \in Calls, Finalize(t)
    PROVE  IInv'
  <1>0. TypeOK /\ TypeOK' /\ Held(t) /\ Current(t) /\ Answered(t)
    BY FinalizeTypes DEF IInv
  <1>1. CASE SignReceipt(t)
    <2>1. /\ pc[t] = "sign" /\ pc'[t] = "complete"
          /\ writes' = writes \cup {ReceiptOf(t)}
          /\ \A u \in Calls \ {t} : pc'[u] = pc[u]
          /\ UNCHANGED <<prepared, locals, outcome, store, provider>>
      BY <1>0, <1>1 DEF TypeOK, SignReceipt, Goto
    <2>2. /\ effect[t] \in effects /\ effect[t].id = IdOf(t) /\ auth[t].id = IdOf(t)
          /\ intent[IdOf(t)] = IntentOf(t)
      BY <1>0, <2>1 DEF Held, Authorized, Effected, Finalizing, Binds, IdOf
    <2>3. RecordInv'
      BY <2>1, <2>2 DEF IInv, RecordInv, ReceiptOf, IntentOf, store, provider
    <2>4. OnceInv'
      BY <2>1 DEF IInv, OnceInv, IdOf, store, provider
    <2>5. Held(t)' /\ Current(t)' /\ Answered(t)'
      BY <1>0, <2>1
      DEF Held, Current, Answered, Succeeded, IntentOf, IdOf, Authorized, Effected,
          Finalizing, locals, store, provider
    <2>6. ASSUME NEW u \in Calls \ {t}
          PROVE  Held(u)' /\ Current(u)' /\ Answered(u)'
      BY <2>1, BystanderInv DEF locals, store, provider
    <2> QED
      BY <1>0, <2>3, <2>4, <2>5, <2>6 DEF IInv
  <1>2. CASE RejectSignature(t)
    BY <1>2, RaiseInv DEF RejectSignature, Kinds
  <1>3. CASE SignerRaises(t)
    BY <1>3, RaiseInv DEF SignerRaises, Kinds
  <1>4. CASE CompletionReturns(t)
    <2> DEFINE r == ReceiptOf(t)
    <2>1. pc[t] \in Effected /\ pc[t] \in Authorized \ {"verify"}
      BY <1>4 DEF CompletionReturns, Authorized, Effected, Finalizing
    <2>2. r \in Receipts
      BY <1>0, <1>4 DEF TypeOK, CompletionReturns
    <2>3. /\ r.id = IdOf(t) /\ r.executor = prepared[t].executor
          /\ Binds(r.auth, prepared[t]) /\ Genuine(r.auth)
      BY <1>0, <2>1 DEF Held, ReceiptOf, Binds, IdOf
    <2> QED
      BY <1>4, <2>2, <2>3, FinishInv DEF CompletionReturns, Kinds
  <1>5. CASE CompletionRaises(t)
    BY <1>5, RaiseInv DEF CompletionRaises, Kinds
  <1>6. CASE FinalizationTimeout(t)
    <2>1. \E kind \in Kinds \ {"ok"} : Raise(t, kind)
      BY <1>6 DEF FinalizationTimeout, Kinds
    <2> QED
      BY <1>6, <2>1, RaiseInv DEF FinalizationTimeout
  <1>7. CASE CancelledAfterSign(t)
    BY <1>7, RaiseInv DEF CancelledAfterSign, Kinds
  <1>8. CASE CancelledAfterCompletion(t)
    BY <1>8, RaiseInv DEF CancelledAfterCompletion, Kinds
  <1> QED
    BY <1>1, <1>2, <1>3, <1>4, <1>5, <1>6, <1>7, <1>8 DEF Finalize

LEMMA MishapInv ==
    ASSUME IInv, NEW t \in Calls, Cancel(t) \/ Crash(t)
    PROVE  IInv'
  <1>0. TypeOK /\ TypeOK' /\ Held(t) /\ Current(t) /\ Answered(t)
    BY MishapTypes DEF IInv
  <1>1. CASE Crash(t)
    BY <1>1, RaiseInv DEF Crash, Kinds
  <1>2. CASE Cancel(t) /\ Raise(t, "cancelled")
    BY <1>2, RaiseInv DEF Cancel, Kinds
  <1>3. CASE Cancel(t) /\ ~Raise(t, "cancelled")
    <2>1. /\ pc[t] \in Finalizing
          /\ pc'[t] \in {"signCancelled", "completeCancelled"}
          /\ \A u \in Calls \ {t} : pc'[u] = pc[u]
          /\ UNCHANGED <<prepared, locals, outcome, store, writes, provider>>
      BY <1>0, <1>3 DEF TypeOK, Cancel, Goto, Finalizing
    <2>2. Held(t)' /\ Current(t)' /\ Answered(t)'
      BY <1>0, <2>1
      DEF Held, Current, Answered, Succeeded, IntentOf, IdOf, Authorized, Effected,
          Finalizing, locals, store, provider
    <2> QED
      BY <1>0, <2>1, <2>2, LocalInv DEF locals
  <1> QED
    BY <1>1, <1>2, <1>3

LEMMA EnvironmentInv == IInv /\ Environment => IInv'
  <1> SUFFICES ASSUME IInv, Environment
               PROVE  IInv'
    OBVIOUS
  <1>0. TypeOK /\ TypeOK'
    BY EnvironmentTypes DEF IInv
  <1>1. /\ UNCHANGED <<prepared, pc, locals, outcome, intent, invoked>>
        /\ effects \subseteq effects' /\ outbox \subseteq outbox'
    BY DEF Environment, CompletionLands, CompletionLost, ProviderApplies, ProviderDrops,
           store, provider
  <1>2. ASSUME NEW u \in Calls
        PROVE  Held(u)' /\ Current(u)' /\ Answered(u)'
    BY <1>1, BystanderInv DEF locals
  <1>3. OnceInv'
    BY <1>1 DEF IInv, OnceInv, IdOf
  <1>4. CASE \E r \in writes : CompletionLands(r)
    <2>1. PICK r \in writes : CompletionLands(r)
      BY <1>4
    <2>2. r.id \in Ids
      BY <1>0 DEF TypeOK, Receipts
    <2>3. /\ completion'[r.id] = r /\ writes' \cup outbox' = writes \cup outbox
          /\ \A i \in Ids \ {r.id} : completion'[i] = completion[i]
          /\ r \in outbox' /\ outbox \subseteq outbox'
          /\ UNCHANGED provider
      BY <1>0, <2>1, <2>2 DEF TypeOK, CompletionLands
    <2>4. \A i \in Ids : completion'[i] # None =>
             completion'[i] \in outbox' /\ completion'[i].id = i
      BY <2>2, <2>3 DEF IInv, RecordInv
    <2>5. \A s \in outbox' : completion'[s.id] # None
      <3>1. r # None /\ outbox' = outbox \cup {r}
        BY <1>0, <2>1, NoneAssumption DEF TypeOK, CompletionLands
      <3> QED
        BY <1>0, <2>3, <3>1 DEF IInv, RecordInv, TypeOK, Receipts
    <2>6. RecordInv'
      BY <1>1, <2>3, <2>4, <2>5 DEF IInv, RecordInv, provider
    <2> QED
      BY <1>0, <1>2, <1>3, <2>6 DEF IInv
  <1>5. CASE \E r \in writes : CompletionLost(r)
    BY <1>0, <1>2, <1>3, <1>5 DEF IInv, RecordInv, CompletionLost, store, provider
  <1>6. CASE \E e \in wire : ProviderApplies(e) \/ ProviderDrops(e)
    BY <1>0, <1>2, <1>3, <1>6 DEF IInv, RecordInv, ProviderApplies, ProviderDrops, store
  <1> QED
    BY <1>4, <1>5, <1>6 DEF Environment

LEMMA NextInv ==
    ASSUME ExclusiveIntents, IInv, [Next]_vars
    PROVE  IInv'
  <1>1. CASE UNCHANGED vars
    BY <1>1 DEF IInv, TypeOK, OnceInv, RecordInv, Held, Current, Answered, Succeeded,
                IntentOf, IdOf, vars, locals, store, provider
  <1>2. CASE Environment
    BY <1>2, EnvironmentInv
  <1>3. CASE \E t \in Calls : CallStep(t)
    BY <1>3, ResumeInv, FreshInv, FinalizeInv, MishapInv DEF CallStep
  <1> QED
    BY <1>1, <1>2, <1>3 DEF Next

\* The invariant is inductive over an exclusive store.
THEOREM Invariance == ExclusiveIntents => (Spec => []IInv)
  <1> SUFFICES ASSUME ExclusiveIntents
               PROVE  Spec => []IInv
    OBVIOUS
  <1>1. Init => IInv
    BY InitInv
  <1>2. IInv /\ [Next]_vars => IInv'
    BY NextInv
  <1> QED
    BY <1>1, <1>2, PTL DEF Spec

\* However calls interleave, crash, are cancelled and retried, the executor is
\* called at most once per idempotency id.
THEOREM AtMostOnce == ExclusiveIntents => (Spec => []EffectAtMostOnce)
  <1>1. IInv => EffectAtMostOnce
    BY DEF IInv, OnceInv, EffectAtMostOnce
  <1> QED
    BY <1>1, Invariance, PTL

\* Whatever reached the provider was released under a durable, genuine
\* authorization for that id and payload.
THEOREM AuthorizedEffects == ExclusiveIntents => (Spec => []EffectsAuthorized)
  <1>1. IInv => EffectsAuthorized
    BY DEF IInv, TypeOK, RecordInv, Effects, EffectsAuthorized
  <1> QED
    BY <1>1, Invariance, PTL

\* A durable completion is backed by outbox, provider and intent.
THEOREM TruthfulCompletions == ExclusiveIntents => (Spec => []CompletionTruthful)
  <1>1. IInv => CompletionTruthful
    BY DEF IInv, RecordInv, CompletionTruthful
  <1> QED
    BY <1>1, Invariance, PTL

\* All receipts of an id, queued or still being written, are about one effect
\* and one authorization.
LEMMA OneRecord ==
    ASSUME IInv, NEW r \in writes \cup outbox, NEW s \in writes \cup outbox, r.id = s.id
    PROVE  r.effect = s.effect /\ r.auth = s.auth
  <1>1. r \in Receipts /\ s \in Receipts
    BY DEF IInv, TypeOK
  <1>2. /\ r.effect \in effects /\ r.effect.id = r.id
        /\ s.effect \in effects /\ s.effect.id = r.id
        /\ intent[r.id] = [auth |-> r.auth, executor |-> r.executor]
        /\ intent[r.id] = [auth |-> s.auth, executor |-> s.executor]
    BY DEF IInv, RecordInv
  <1>3. \A e \in effects : e.id = r.id =>
           e = [id |-> r.id, serial |-> 1, body |-> intent[r.id].auth.body]
    <2> SUFFICES ASSUME NEW e \in effects, e.id = r.id
                 PROVE  e = [id |-> r.id, serial |-> 1, body |-> intent[r.id].auth.body]
      OBVIOUS
    <2>1. e \in Effects /\ r.id \in Ids
      BY <1>1 DEF IInv, TypeOK, Receipts
    <2>2. e.serial \in 1 .. invoked[r.id] /\ invoked[r.id] <= 1 /\ invoked[r.id] \in Nat
      BY <2>1 DEF IInv, TypeOK, OnceInv, RecordInv
    <2>3. e.body = intent[r.id].auth.body
      BY DEF IInv, RecordInv
    <2> QED
      BY <2>1, <2>2, <2>3 DEF Effects
  <1> QED
    BY <1>2, <1>3

\* Calls with one id that return report one effect under one authorization.
THEOREM AgreeingOutcomes == ExclusiveIntents => (Spec => []OutcomesAgree)
  <1>1. ASSUME IInv
        PROVE  OutcomesAgree
    <2> SUFFICES ASSUME NEW t \in Calls, NEW u \in Calls,
                        Succeeded(t), Succeeded(u), IdOf(t) = IdOf(u)
                 PROVE  /\ outcome[t].receipt.effect = outcome[u].receipt.effect
                        /\ outcome[t].receipt.auth = outcome[u].receipt.auth
      BY DEF OutcomesAgree
    <2>1. Answered(t) /\ Answered(u)
      BY <1>1 DEF IInv
    <2> QED
      BY <1>1, <2>1, OneRecord DEF Answered
  <1>2. IInv => OutcomesAgree
    BY <1>1
  <1> QED
    BY <1>2, Invariance, PTL

LEMMA StoreFrame ==
    ASSUME IInv, [Next]_vars,
           ~ \E r \in writes : CompletionLands(r),
           ~ \E t \in Calls : CommitIntent(t) \/ CommitIntentUnheard(t)
    PROVE  UNCHANGED store
  <1>1. CASE UNCHANGED vars
    BY <1>1 DEF vars, store
  <1>2. CASE Environment
    BY <1>2 DEF Environment, CompletionLost, ProviderApplies, ProviderDrops
  <1>3. ASSUME NEW t \in Calls, CallStep(t)
        PROVE  UNCHANGED store
    <2>1. CASE Resume(t)
      BY <2>1 DEF Resume, Load, ReturnStored, AcceptIntent, RejectStored, Recover,
                  RecoveryInconclusive
    <2>2. CASE Fresh(t)
      BY <2>2 DEF Fresh, AuthorizeAgain, AuthorizeFails, Authorize, Verify,
                  RefuseAuthorization, Execute, ExecutorReturns, RejectEffect, CallbackRaises
    <2>3. CASE Finalize(t)
      BY <2>3 DEF Finalize, SignReceipt, RejectSignature, SignerRaises, CompletionReturns,
                  CompletionRaises, FinalizationTimeout, CancelledAfterSign,
                  CancelledAfterCompletion
    <2>4. CASE Cancel(t) \/ Crash(t)
      BY <2>4 DEF Cancel, Crash
    <2> QED
      BY <1>3, <2>1, <2>2, <2>3, <2>4 DEF CallStep
  <1> QED
    BY <1>1, <1>2, <1>3 DEF Next

LEMMA StepAdvances ==
    ASSUME ExclusiveIntents, IInv, [Next]_vars
    PROVE  Advances
  <1>1. CASE \E r \in writes : CompletionLands(r)
    <2>1. PICK r \in writes : CompletionLands(r)
      BY <1>1
    <2>2. /\ r \in Receipts /\ r.id \in Ids /\ r # None
          /\ completion'[r.id] = r /\ intent' = intent
          /\ \A i \in Ids \ {r.id} : completion'[i] = completion[i]
      BY <2>1, NoneAssumption DEF IInv, TypeOK, Receipts, CompletionLands
    <2>3. completion[r.id] # None =>
             completion[r.id] \in outbox /\ completion[r.id].id = r.id
      BY <2>2 DEF IInv, RecordInv
    <2>4. completion[r.id] # None =>
             r.auth = completion[r.id].auth /\ r.effect = completion[r.id].effect
      BY <2>3, OneRecord
    <2> QED
      BY <2>2, <2>4 DEF Advances
  <1>2. CASE \E t \in Calls : CommitIntent(t) \/ CommitIntentUnheard(t)
    <2>1. PICK t \in Calls : pc[t] = "intend" /\ PersistIntent(t)
      BY <1>2 DEF CommitIntent, CommitIntentUnheard
    <2> QED
      BY <2>1, IntentCommitted DEF PersistIntent, Advances
  <1>3. CASE UNCHANGED store
    BY <1>3 DEF Advances, store
  <1> QED
    BY <1>1, <1>2, <1>3, StoreFrame

\* The durable record of an id only advances.
THEOREM AdvancingRecords == ExclusiveIntents => (Spec => RecordAdvances)
  <1> SUFFICES ASSUME ExclusiveIntents
               PROVE  Spec => RecordAdvances
    OBVIOUS
  <1>1. IInv /\ [Next]_vars => [Advances]_vars
    BY StepAdvances
  <1>2. Spec => []IInv
    BY Invariance
  <1> QED
    BY <1>1, <1>2, PTL DEF Spec, RecordAdvances

-----------------------------------------------------------------------------
(* Safety for any store, also one that overwrites intents or completions:  *)
(* what a call checked is its own, and what it loaded or was told of is in *)
(* the outbox for good.                                                    *)

Sound(t) ==
    /\ pc[t] \in Authorized =>
          Binds(auth[t], prepared[t]) /\ (pc[t] # "verify" => Genuine(auth[t]))
    /\ seen[t].completion # None => seen[t].completion \in outbox
    /\ Succeeded(t) =>
          LET r == outcome[t].receipt
          IN  /\ r \in outbox
              /\ r.executor = prepared[t].executor
              /\ Binds(r.auth, prepared[t]) /\ Genuine(r.auth)

Queued == \A i \in Ids : completion[i] # None => completion[i] \in outbox

StoreInv == TypeOK /\ Queued /\ \A t \in Calls : Sound(t)

\* Receipts are not withdrawn, so what others do cannot make a call unsound.
LEMMA BystanderSound ==
    ASSUME StoreInv, NEW u \in Calls, outbox \subseteq outbox', prepared' = prepared,
           pc'[u] = pc[u], seen'[u] = seen[u], auth'[u] = auth[u], outcome'[u] = outcome[u]
    PROVE  Sound(u)'
  <1>1. Sound(u)
    BY DEF StoreInv
  <1> QED
    BY <1>1 DEF Sound, Succeeded

LEMMA FinishSound ==
    ASSUME TypeOK, NEW t \in Calls, NEW kind, NEW r, Finish(t, kind, r),
           UNCHANGED <<prepared, outbox>>,
           kind = "ok" =>
              /\ r \in outbox
              /\ r.executor = prepared[t].executor
              /\ Binds(r.auth, prepared[t]) /\ Genuine(r.auth)
    PROVE  Sound(t)'
  <1>1. /\ pc'[t] = "done" /\ seen'[t] = NoState
        /\ outcome'[t] = [kind |-> kind, receipt |-> r]
    BY DEF TypeOK, Finish
  <1>2. "done" \notin Authorized
    BY DEF Authorized, Effected, Finalizing
  <1> QED
    BY <1>1, <1>2 DEF Sound, Succeeded, NoState

LEMMA RaiseSound ==
    ASSUME TypeOK, NEW t \in Calls, NEW kind, kind # "ok", Raise(t, kind),
           UNCHANGED <<prepared, outbox>>
    PROVE  Sound(t)'
  BY FinishSound DEF Raise

\* A call that moves on keeps the authorization it has checked.
LEMMA MoveSound ==
    ASSUME TypeOK, NEW t \in Calls, Sound(t), NEW p, Goto(t, p),
           p \in Authorized => pc[t] \in Authorized \ {"verify"},
           UNCHANGED <<prepared, outbox, auth, seen>>
    PROVE  Sound(t)'
  <1>1. pc'[t] = p /\ outcome' = outcome
    BY DEF TypeOK, Goto
  <1> QED
    BY <1>1 DEF Sound, Succeeded

LEMMA ResumeSound ==
    ASSUME StoreInv, NEW t \in Calls, Resume(t)
    PROVE  Sound(t)'
  <1>1. TypeOK /\ Sound(t) /\ IdOf(t) \in Ids
    BY DEF StoreInv, TypeOK, IdOf, Requests
  <1>2. CASE Load(t)
    <2>1. /\ seen'[t] = [intent |-> intent[IdOf(t)], completion |-> completion[IdOf(t)]]
          /\ pc'[t] \in {"checkCompletion", "checkIntent", "authorize"}
      BY <1>1, <1>2 DEF TypeOK, Load, Goto
    <2>2. completion[IdOf(t)] # None => completion[IdOf(t)] \in outbox
      BY <1>1 DEF StoreInv, Queued
    <2> QED
      BY <1>1, <1>2, <2>1, <2>2 DEF Load, Goto, Sound, Succeeded, store, Authorized, Effected, Finalizing
  <1>3. CASE ReturnStored(t)
    BY <1>1, <1>3, FinishSound DEF ReturnStored, Sound, StoredIntentHolds, CompletionHolds, store
  <1>4. CASE AcceptIntent(t)
    <2>1. pc'[t] = "recover" /\ auth'[t] = seen[t].intent.auth
      BY <1>1, <1>4 DEF TypeOK, AcceptIntent, Goto
    <2> QED
      BY <1>1, <1>4, <2>1 DEF AcceptIntent, Goto, StoredIntentHolds, Sound, Succeeded, store
  <1>5. CASE Recover(t)
    BY <1>1, <1>5, MoveSound DEF Recover, store, Authorized
  <1>6. CASE RejectStored(t) \/ RecoveryInconclusive(t)
    BY <1>1, <1>6, RaiseSound DEF RejectStored, RecoveryInconclusive, store
  <1> QED
    BY <1>2, <1>3, <1>4, <1>5, <1>6 DEF Resume

LEMMA FreshSound ==
    ASSUME StoreInv, NEW t \in Calls, Fresh(t)
    PROVE  Sound(t)'
  <1>1. TypeOK /\ Sound(t)
    BY DEF StoreInv
  <1>2. CASE AuthorizeAgain(t)
    BY <1>1, <1>2 DEF AuthorizeAgain, Sound, Succeeded, store
  <1>3. CASE Authorize(t)
    <2>1. CASE Raise(t, "config_error")
      BY <1>1, <1>3, <2>1, RaiseSound DEF Authorize, store
    <2>2. ASSUME NEW a \in Authorizations, Binds(a, prepared[t]), Goto(t, "verify"),
                 auth' = [auth EXCEPT ![t] = a], seen' = seen
          PROVE  Sound(t)'
      <3>1. pc'[t] = "verify" /\ auth'[t] = a
        BY <1>1, <2>2 DEF TypeOK, Goto
      <3> QED
        BY <1>1, <1>3, <2>2, <3>1 DEF Authorize, Goto, Sound, Succeeded, store
    <2> QED
      BY <1>3, <2>1, <2>2 DEF Authorize
  <1>4. CASE Verify(t)
    <2>1. pc'[t] = "intend" /\ pc[t] \in Authorized
      BY <1>1, <1>4 DEF TypeOK, Verify, Goto, Authorized
    <2> QED
      BY <1>1, <1>4, <2>1 DEF Verify, Goto, Sound, Succeeded, locals, store
  <1>5. CASE CommitIntent(t)
    BY <1>1, <1>5, MoveSound DEF CommitIntent, PersistIntent, locals, Authorized
  <1>6. CASE CommitIntentUnheard(t)
    <2>1. \E kind : kind # "ok" /\ Raise(t, kind)
      BY <1>6 DEF CommitIntentUnheard
    <2> QED
      BY <1>1, <1>6, <2>1, RaiseSound DEF CommitIntentUnheard, PersistIntent
  <1>7. CASE Execute(t) \/ ExecutorReturns(t)
    BY <1>1, <1>7, MoveSound DEF Execute, ExecutorReturns, locals, store, Authorized, Effected
  <1>8. CASE AuthorizeFails(t) \/ RefuseAuthorization(t) \/ RejectEffect(t) \/ CallbackRaises(t)
    BY <1>1, <1>8, RaiseSound
    DEF AuthorizeFails, RefuseAuthorization, RejectEffect, CallbackRaises, store
  <1> QED
    BY <1>2, <1>3, <1>4, <1>5, <1>6, <1>7, <1>8 DEF Fresh

LEMMA FinalizeSound ==
    ASSUME StoreInv, NEW t \in Calls, Finalize(t) \/ Cancel(t) \/ Crash(t)
    PROVE  Sound(t)'
  <1>1. TypeOK /\ Sound(t) /\ Finalizing \subseteq Authorized \ {"verify"}
    BY DEF StoreInv, Authorized, Effected, Finalizing
  <1>2. CASE SignReceipt(t)
    BY <1>1, <1>2, MoveSound DEF SignReceipt, locals, store, Finalizing
  <1>3. CASE CompletionReturns(t)
    <2>1. Binds(auth[t], prepared[t]) /\ Genuine(auth[t])
      BY <1>1, <1>3 DEF CompletionReturns, Sound, Finalizing
    <2> QED
      BY <1>1, <1>3, <2>1, FinishSound DEF CompletionReturns, ReceiptOf, store
  <1>4. CASE \/ RejectSignature(t) \/ SignerRaises(t) \/ CompletionRaises(t) \/ FinalizationTimeout(t)
             \/ CancelledAfterSign(t) \/ CancelledAfterCompletion(t) \/ Crash(t)
    BY <1>1, <1>4, RaiseSound
    DEF RejectSignature, SignerRaises, CompletionRaises, FinalizationTimeout, CancelledAfterSign,
        CancelledAfterCompletion, Crash, store
  <1>5. CASE Cancel(t)
    <2>1. CASE Raise(t, "cancelled")
      BY <1>1, <1>5, <2>1, RaiseSound DEF Cancel, store
    <2>2. CASE ~Raise(t, "cancelled")
      BY <1>1, <1>5, <2>2, MoveSound DEF Cancel, locals, store, Finalizing
    <2> QED
      BY <2>1, <2>2
  <1> QED
    BY <1>2, <1>3, <1>4, <1>5 DEF Finalize

\* A call steps for itself.
LEMMA OthersUndisturbed ==
    ASSUME TypeOK, NEW t \in Calls, CallStep(t), NEW u \in Calls \ {t}
    PROVE  pc'[u] = pc[u] /\ seen'[u] = seen[u] /\ auth'[u] = auth[u] /\ outcome'[u] = outcome[u]
  <1>1. \A kind, r : Finish(t, kind, r) =>
            pc'[u] = pc[u] /\ seen'[u] = seen[u] /\ auth'[u] = auth[u] /\ outcome'[u] = outcome[u]
    BY DEF TypeOK, Finish
  <1>2. \A p : Goto(t, p) => pc'[u] = pc[u] /\ outcome'[u] = outcome[u]
    BY DEF TypeOK, Goto
  <1>3. CASE Load(t) \/ AcceptIntent(t) \/ Recover(t)
    BY <1>2, <1>3 DEF TypeOK, Load, AcceptIntent, Recover
  <1>4. CASE ReturnStored(t) \/ RejectStored(t) \/ RecoveryInconclusive(t)
    BY <1>1, <1>4 DEF ReturnStored, RejectStored, RecoveryInconclusive, Raise
  <1>5. CASE AuthorizeAgain(t) \/ Verify(t) \/ CommitIntent(t) \/ Execute(t) \/ ExecutorReturns(t)
    BY <1>2, <1>5 DEF AuthorizeAgain, Verify, CommitIntent, Execute, ExecutorReturns, locals
  <1>6. CASE Authorize(t)
    BY <1>1, <1>2, <1>6 DEF TypeOK, Authorize, Raise
  <1>7. CASE \/ AuthorizeFails(t) \/ RefuseAuthorization(t) \/ CommitIntentUnheard(t)
             \/ RejectEffect(t) \/ CallbackRaises(t)
    BY <1>1, <1>7
    DEF AuthorizeFails, RefuseAuthorization, CommitIntentUnheard, RejectEffect, CallbackRaises, Raise
  <1>8. CASE SignReceipt(t)
    BY <1>2, <1>8 DEF SignReceipt, locals
  <1>9. CASE (Finalize(t) /\ ~SignReceipt(t)) \/ Crash(t)
    BY <1>1, <1>9
    DEF Finalize, RejectSignature, SignerRaises, CompletionReturns, CompletionRaises,
        FinalizationTimeout, CancelledAfterSign, CancelledAfterCompletion, Crash, Raise
  <1>10. CASE Cancel(t)
    BY <1>1, <1>2, <1>10 DEF Cancel, Raise, locals
  <1> QED
    BY <1>3, <1>4, <1>5, <1>6, <1>7, <1>8, <1>9, <1>10 DEF CallStep, Resume, Fresh, Finalize

LEMMA NextSound ==
    ASSUME StoreInv, [Next]_vars
    PROVE  StoreInv'
  <1>1. TypeOK /\ TypeOK'
    BY NextTypes DEF StoreInv
  <1>2. CASE UNCHANGED vars
    BY <1>1, <1>2, BystanderSound DEF StoreInv, Queued, vars, locals, store
  <1>3. ASSUME NEW t \in Calls, CallStep(t)
        PROVE  StoreInv'
    <2>1. Sound(t)'
      BY <1>3, ResumeSound, FreshSound, FinalizeSound DEF CallStep
    <2>2. UNCHANGED <<prepared, completion, outbox>>
      BY <1>3
      DEF CallStep, Resume, Fresh, Finalize, Load, ReturnStored, AcceptIntent, RejectStored, Recover,
          RecoveryInconclusive, AuthorizeAgain, AuthorizeFails, Authorize, Verify, RefuseAuthorization,
          CommitIntent, CommitIntentUnheard, PersistIntent, Execute, ExecutorReturns, RejectEffect,
          CallbackRaises, SignReceipt, RejectSignature, SignerRaises, CompletionReturns, CompletionRaises,
          FinalizationTimeout, CancelledAfterSign, CancelledAfterCompletion, Cancel, Crash, store
    <2>3. ASSUME NEW u \in Calls \ {t}
          PROVE  pc'[u] = pc[u] /\ seen'[u] = seen[u] /\ auth'[u] = auth[u] /\ outcome'[u] = outcome[u]
      BY <1>1, <1>3, OthersUndisturbed
    <2> QED
      BY <1>1, <2>1, <2>2, <2>3, BystanderSound DEF StoreInv, Queued
  <1>4. CASE Environment
    <2>1. UNCHANGED <<prepared, pc, locals, outcome>>
      BY <1>4 DEF Environment, CompletionLands, CompletionLost, ProviderApplies, ProviderDrops
    <2>2. outbox \subseteq outbox' /\ Queued'
      BY <1>1, <1>4
      DEF StoreInv, Queued, TypeOK, Receipts, Environment, CompletionLands, CompletionLost,
          ProviderApplies, ProviderDrops, store
    <2> QED
      BY <1>1, <2>1, <2>2, BystanderSound DEF StoreInv, locals
  <1> QED
    BY <1>2, <1>3, <1>4 DEF Next

\* Whatever the store admits, a call that returns hands out a durable receipt
\* of its own request.
THEOREM DurableOutcomes == Spec => []OutcomeDurable
  <1>1. Init => StoreInv
    BY InitTypes
    DEF StoreInv, Init, Queued, Sound, Succeeded, NoState, Authorized, Effected, Finalizing
  <1>2. StoreInv => OutcomeDurable
    BY DEF StoreInv, Sound, OutcomeDurable
  <1> QED
    BY <1>1, <1>2, NextSound, PTL DEF Spec
=============================================================================
