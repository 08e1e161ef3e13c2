---------------------- MODULE GovernedExecutionRefines ---------------------
(* GovernedExecution implements ExecutionContract when the store's         *)
(* commit_intent is exclusive: every step of the machine is a step of the  *)
(* contract for one id, or leaves the contract's state alone.              *)
EXTENDS GovernedExecutionProofs

Ledger == [i \in Ids |-> LedgerOf(i)]
ContractVars == <<Ledger, Reported>>

\* There is one effect per id, and its shape follows from the intent.
LEMMA OneEffect ==
    ASSUME IInv, NEW e \in wire \cup effects
    PROVE  /\ e \in Effects /\ e.id \in Ids
           /\ e = [id |-> e.id, serial |-> 1, body |-> intent[e.id].auth.body]
           /\ intent[e.id] # None
  <1>1. e \in Effects /\ e.id \in Ids
    BY DEF IInv, TypeOK, Effects
  <1>2. /\ e.serial \in 1 .. invoked[e.id] /\ invoked[e.id] <= 1 /\ invoked[e.id] \in Nat
        /\ intent[e.id] # None /\ e.body = intent[e.id].auth.body
    BY <1>1 DEF IInv, TypeOK, OnceInv, RecordInv
  <1>3. e.serial = 1
    BY <1>2
  <1>4. e = [id |-> e.id, serial |-> 1, body |-> e.body]
    BY <1>1, <1>3 DEF Effects
  <1> QED
    BY <1>1, <1>2, <1>4

\* The ledger entry of an id whose effect was applied.
LEMMA AppliedEntry ==
    ASSUME IInv, NEW e \in effects
    PROVE  LedgerOf(e.id) =
             [stage |-> IF completion[e.id] # None THEN "recorded" ELSE "applied",
              grant |-> intent[e.id].auth, work |-> e]
  <1>1. /\ intent[e.id] # None
        /\ \A f \in effects : f.id = e.id => f = e
    BY OneEffect
  <1>2. (CHOOSE f \in effects : f.id = e.id) = e
    BY <1>1
  <1> QED
    BY <1>1, <1>2 DEF LedgerOf, StageOf

\* The entry of an id none of whose effects was applied: nothing is recorded.
LEMMA UnappliedEntry ==
    ASSUME IInv, NEW i \in Ids, \A e \in effects : e.id # i
    PROVE  /\ completion[i] = None
           /\ LedgerOf(i) =
                [stage |-> IF intent[i] # None THEN "intended" ELSE "new",
                 grant |-> IF intent[i] = None THEN None ELSE intent[i].auth,
                 work |-> None]
  <1>1. completion[i] = None
    <2> SUFFICES ASSUME completion[i] # None
                 PROVE  FALSE
      OBVIOUS
    <2>1. completion[i] \in outbox /\ completion[i].id = i
      BY DEF IInv, RecordInv
    <2>2. completion[i].effect \in effects /\ completion[i].effect.id = i
      BY <2>1 DEF IInv, RecordInv
    <2> QED
      BY <2>2
  <1> QED
    BY <1>1 DEF LedgerOf, StageOf

LEMMA InitRefines == Init => Contract!Init
  BY DEF Init, Contract!Init, LedgerOf, StageOf, Reported, Succeeded

\* Entries change only where the store or the effects do.
LEMMA EntryFrame ==
    ASSUME NEW i \in Ids, intent'[i] = intent[i],
           completion'[i] # None <=> completion[i] # None, effects' = effects
    PROVE  LedgerOf(i)' = LedgerOf(i)
  BY DEF LedgerOf, StageOf

\* Committing an intent is the contract's Intend.
LEMMA CommitRefines ==
    ASSUME ExclusiveIntents, IInv, NEW t \in Calls, pc[t] = "intend", PersistIntent(t),
           UNCHANGED <<prepared, provider, Reported>>
    PROVE  Contract!Next
  <1>1. PICK i \in Ids, a \in Authorizations : i = IdOf(t) /\ a = auth[t]
    BY DEF IInv, TypeOK, IdOf, Requests, Authorized
  <1>2. /\ intent[i] = None /\ intent'[i] # None /\ intent'[i].auth = a
        /\ \A j \in Ids \ {i} : intent'[j] = intent[j]
        /\ UNCHANGED <<completion, effects>>
    <2>1. intent[i] = None /\ intent'[i] = IntentOf(t) /\ IntentOf(t) # None
      BY <1>1, IntentCommitted
    <2>2. IntentOf(t).auth = a
      BY <1>1 DEF IntentOf
    <2>3. \A j \in Ids \ {i} : intent'[j] = intent[j]
      BY <1>1 DEF IInv, TypeOK, PersistIntent
    <2>4. UNCHANGED <<completion, effects>>
      BY DEF PersistIntent, provider
    <2> QED
      BY <2>1, <2>2, <2>3, <2>4
  <1>3. Held(t) /\ a.id = i /\ a.grade \in {"plain", "modified"}
    BY <1>1 DEF IInv, Held, Authorized, Binds, Genuine, Authorizations, Grades, IdOf
  <1>4. \A e \in effects : e.id # i
    BY <1>2, OneEffect
  <1>5. /\ LedgerOf(i) = [stage |-> "new", grant |-> None, work |-> None]
        /\ completion[i] = None
    BY <1>2, <1>4, UnappliedEntry
  <1>6. LedgerOf(i)' = [stage |-> "intended", grant |-> a, work |-> None]
    BY <1>2, <1>4, <1>5 DEF LedgerOf, StageOf
  <1>7. \A j \in Ids \ {i} : LedgerOf(j)' = LedgerOf(j)
    BY <1>2, EntryFrame
  <1>8. Ledger' = [Ledger EXCEPT ![i] = [stage |-> "intended", grant |-> a, work |-> None]]
    BY <1>5, <1>6, <1>7 DEF Ledger
  <1>9. Ledger[i].stage = "new"
    BY <1>5 DEF Ledger
  <1>10. Contract!Intend(i)
    BY <1>3, <1>8, <1>9 DEF Contract!Intend, Ledger
  <1> QED
    BY <1>10 DEF Contract!Next

\* The provider applying the one effect of an id is the contract's Apply.
LEMMA ApplyRefines ==
    ASSUME IInv, IInv', NEW e \in wire, ProviderApplies(e),
           UNCHANGED Reported
    PROVE  Contract!Next \/ UNCHANGED ContractVars
  <1>1. PICK i \in Ids :
           /\ i = e.id /\ e \in Effects /\ intent[i] # None
           /\ e = [id |-> i, serial |-> 1, body |-> intent[i].auth.body]
    BY OneEffect
  <1>2. UNCHANGED store /\ effects' = effects \cup {e}
    BY DEF ProviderApplies
  <1>3. CASE e \in effects
    <2>1. \A j \in Ids : LedgerOf(j)' = LedgerOf(j)
      BY <1>2, <1>3, EntryFrame DEF store
    <2> QED
      BY <2>1 DEF ContractVars, Ledger
  <1>4. CASE e \notin effects
    <2>1. \A f \in effects : f.id # i
      BY <1>1, <1>4, OneEffect
    <2>2. LedgerOf(i) = [stage |-> "intended", grant |-> intent[i].auth, work |-> None]
      BY <1>1, <2>1, UnappliedEntry
    <2>3. completion[i] = None
      BY <1>1, <2>1, UnappliedEntry
    <2>4. (CHOOSE f \in effects' : f.id = i) = e
      BY <1>2, <2>1
    <2>5. LedgerOf(i)' = [stage |-> "applied", grant |-> intent[i].auth, work |-> e]
      BY <1>1, <1>2, <2>3, <2>4 DEF LedgerOf, StageOf, store
    <2>6. ASSUME NEW j \in Ids \ {i}
          PROVE  LedgerOf(j)' = LedgerOf(j)
      <3>1. CASE \A f \in effects : f.id # j
        <4>1. \A f \in effects' : f.id # j
          BY <1>1, <1>2, <3>1
        <4> QED
          BY <1>2, <3>1, <4>1 DEF LedgerOf, StageOf, store
      <3>2. CASE \E f \in effects : f.id = j
        <4>1. PICK f \in effects : f.id = j
          BY <3>2
        <4>2. \A g \in effects' : g.id = j => g = f
          BY <1>1, <1>2, <4>1, OneEffect
        <4>3. /\ (CHOOSE g \in effects' : g.id = j) = f
              /\ (CHOOSE g \in effects : g.id = j) = f
          BY <1>2, <4>1, <4>2
        <4>4. f \in effects'
          BY <1>2
        <4> QED
          BY <1>2, <4>1, <4>3, <4>4 DEF LedgerOf, StageOf, store
      <3> QED
        BY <3>1, <3>2
    <2>7. Ledger' = [Ledger EXCEPT ![i] =
                               [stage |-> "applied", grant |-> @.grant, work |-> e]]
      BY <1>1, <2>2, <2>5, <2>6 DEF Ledger
    <2>8. /\ Ledger[i].stage = "intended" /\ Ledger[i].grant = intent[i].auth
          /\ Ledger'[i].work = e
          /\ e.id = i /\ e.body = Ledger[i].grant.body
      BY <1>1, <2>2, <2>5 DEF Ledger
    <2>9. Contract!Apply(i)
      BY <1>1, <2>7, <2>8 DEF Contract!Apply, Ledger
    <2> QED
      BY <2>9 DEF Contract!Next
  <1> QED
    BY <1>3, <1>4

\* A completion that lands is the contract's Record, or a second receipt for
\* what is already recorded.
LEMMA LandsRefines ==
    ASSUME IInv, NEW r \in writes, CompletionLands(r), UNCHANGED Reported
    PROVE  Contract!Next \/ UNCHANGED ContractVars
  <1>1. PICK i \in Ids, e \in effects :
           /\ i = r.id /\ e = r.effect /\ e.id = i /\ intent[i] # None
    <2>1. r.effect \in effects /\ r.effect.id = r.id
      BY DEF IInv, RecordInv
    <2> QED
      BY <2>1, OneEffect
  <1>2. /\ completion'[i] # None
        /\ \A j \in Ids \ {i} : completion'[j] = completion[j]
        /\ intent' = intent /\ effects' = effects
    BY <1>1, NoneAssumption DEF IInv, TypeOK, CompletionLands, provider
  <1>3. \A j \in Ids \ {i} : LedgerOf(j)' = LedgerOf(j)
    BY <1>2, EntryFrame
  <1>4. CASE completion[i] # None
    <2>1. LedgerOf(i)' = LedgerOf(i)
      BY <1>2, <1>4, EntryFrame
    <2> QED
      BY <1>3, <2>1 DEF ContractVars, Ledger
  <1>5. CASE completion[i] = None
    <2>1. LedgerOf(i) = [stage |-> "applied", grant |-> intent[i].auth, work |-> e]
      BY <1>1, <1>5, AppliedEntry
    <2>2. LedgerOf(i)' = [stage |-> "recorded", grant |-> intent[i].auth, work |-> e]
      <3>1. (CHOOSE f \in effects : f.id = i) = e
        BY <1>1, OneEffect
      <3> QED
        BY <1>1, <1>2, <3>1 DEF LedgerOf, StageOf
    <2>3. /\ Ledger[i].stage = "applied"
          /\ Ledger[i].grant = intent[i].auth /\ Ledger[i].work = e
      BY <2>1 DEF Ledger
    <2>4. Ledger' = [Ledger EXCEPT ![i] =
                       [stage |-> "recorded", grant |-> intent[i].auth, work |-> e]]
      BY <1>3, <2>2 DEF Ledger
    <2>5. Contract!Record(i)
      BY <2>3, <2>4 DEF Contract!Record, Ledger
    <2> QED
      BY <2>5 DEF Contract!Next
  <1> QED
    BY <1>4, <1>5

\* A call that returns reports what is recorded: the contract's Answer.
LEMMA AnswerRefines ==
    ASSUME IInv, IInv', NEW t \in Calls, NEW r \in outbox, Finish(t, "ok", r), r.id = IdOf(t),
           pc[t] # "done", ~Succeeded(t),
           UNCHANGED <<prepared, store, writes, provider>>
    PROVE  Contract!Next \/ UNCHANGED ContractVars
  <1>1. PICK i \in Ids, e \in effects :
           /\ i = r.id /\ e = r.effect /\ e.id = i /\ intent[i] # None
           /\ r.auth = intent[i].auth /\ completion[i] # None
    <2>1. /\ r.effect \in effects /\ r.effect.id = r.id /\ completion[r.id] # None
          /\ intent[r.id] = [auth |-> r.auth, executor |-> r.executor]
      BY DEF IInv, RecordInv
    <2>2. intent[r.id].auth = r.auth
      BY <2>1
    <2> QED
      BY <2>1, <2>2, OneEffect
  <1>2. LedgerOf(i) = [stage |-> "recorded", grant |-> r.auth, work |-> r.effect]
    BY <1>1, AppliedEntry
  <1>3. UNCHANGED Ledger
    <2>1. \A j \in Ids : LedgerOf(j)' = LedgerOf(j)
      BY EntryFrame DEF store, provider
    <2> QED
      BY <2>1 DEF Ledger
  <1>4. Reported' = Reported \cup {[id |-> i, grant |-> r.auth, work |-> r.effect]}
    <2>1. /\ outcome'[t] = [kind |-> "ok", receipt |-> r]
          /\ \A u \in Calls \ {t} : outcome'[u] = outcome[u]
          /\ \A u \in Calls : IdOf(u)' = IdOf(u)
      BY DEF IInv, TypeOK, Finish, IdOf
    <2>2. {u \in Calls : Succeeded(u)}' = {u \in Calls : Succeeded(u)} \cup {t}
      BY <2>1 DEF Succeeded
    <2> QED
      BY <1>1, <2>1, <2>2 DEF Reported, Succeeded
  <1>5. Contract!Answer(i)
    BY <1>2, <1>3, <1>4 DEF Contract!Answer, Ledger
  <1> QED
    BY <1>5 DEF Contract!Next

\* A call that ends without a result, or does not end, reports nothing.
LEMMA SilentRefines ==
    ASSUME IInv, NEW t \in Calls, pc[t] # "done",
           \/ UNCHANGED outcome
           \/ \E kind \in Kinds \ {"ok"} : Raise(t, kind),
           UNCHANGED prepared
    PROVE  UNCHANGED Reported
  <1>1. ~Succeeded(t)
    BY DEF IInv, Answered
  <1>2. CASE UNCHANGED outcome
    BY <1>2 DEF Reported, Succeeded, IdOf
  <1>3. CASE \E kind \in Kinds \ {"ok"} : Raise(t, kind)
    <2>1. /\ \A u \in Calls \ {t} : outcome'[u] = outcome[u]
          /\ outcome'[t].kind # "ok"
      BY <1>3 DEF IInv, TypeOK, Raise, Finish
    <2>2. {u \in Calls : Succeeded(u)}' = {u \in Calls : Succeeded(u)}
      BY <1>1, <2>1 DEF Succeeded
    <2>3. \A u \in {v \in Calls : Succeeded(v)} :
             outcome'[u] = outcome[u] /\ IdOf(u)' = IdOf(u)
      BY <1>1, <2>1 DEF IdOf
    <2> QED
      BY <2>2, <2>3 DEF Reported
  <1> QED
    BY <1>2, <1>3

LEMMA LedgerFrame ==
    ASSUME UNCHANGED <<store, effects>>
    PROVE  UNCHANGED Ledger
  <1>1. \A j \in Ids : LedgerOf(j)' = LedgerOf(j)
    BY EntryFrame DEF store
  <1> QED
    BY <1>1 DEF Ledger

\* A step of a call that is none of the others leaves the contract alone.
LEMMA QuietRefines ==
    ASSUME IInv, NEW t \in Calls, pc[t] # "done",
           \/ UNCHANGED outcome
           \/ \E kind \in Kinds \ {"ok"} : Raise(t, kind),
           UNCHANGED <<prepared, store, effects>>
    PROVE  UNCHANGED ContractVars
  BY SilentRefines, LedgerFrame DEF ContractVars

LEMMA CallRefines ==
    ASSUME ExclusiveIntents, IInv, IInv', NEW t \in Calls, CallStep(t)
    PROVE  Contract!Next \/ UNCHANGED ContractVars
  <1>0. ~Succeeded(t) \/ pc[t] = "done"
    BY DEF IInv, Answered
  <1>1. CASE CommitIntent(t) \/ CommitIntentUnheard(t)
    <2>1. /\ pc[t] = "intend" /\ PersistIntent(t)
          /\ UNCHANGED <<prepared, provider>>
          /\ \/ UNCHANGED outcome
             \/ \E kind \in Kinds \ {"ok"} : Raise(t, kind)
      BY <1>1 DEF CommitIntent, CommitIntentUnheard, Goto, Kinds
    <2> QED
      BY <2>1, SilentRefines, CommitRefines
  <1>2. CASE ReturnStored(t)
    <2> DEFINE r == seen[t].completion
    <2>1. r \in outbox /\ r.id = IdOf(t)
      BY <1>2 DEF IInv, Current, ReturnStored
    <2> QED
      BY <1>0, <1>2, <2>1, AnswerRefines DEF ReturnStored
  <1>3. CASE CompletionReturns(t)
    <2>1. pc[t] \in Authorized /\ pc[t] # "done"
      BY <1>3 DEF CompletionReturns, Authorized, Effected, Finalizing
    <2>2. ReceiptOf(t).id = IdOf(t)
      BY <2>1 DEF IInv, Held, Binds, ReceiptOf, IdOf
    <2> QED
      BY <1>0, <1>3, <2>1, <2>2, AnswerRefines DEF CompletionReturns
  <1>4. CASE Load(t) \/ AcceptIntent(t) \/ RejectStored(t) \/ Recover(t)
             \/ RecoveryInconclusive(t)
    BY <1>4, QuietRefines
    DEF Load, AcceptIntent, RejectStored, Recover, RecoveryInconclusive, Goto, Kinds, provider
  <1>5. CASE AuthorizeAgain(t) \/ AuthorizeFails(t) \/ Authorize(t) \/ Verify(t)
             \/ RefuseAuthorization(t)
    BY <1>5, QuietRefines
    DEF AuthorizeAgain, AuthorizeFails, Authorize, Verify, RefuseAuthorization, Goto, Kinds,
        provider
  <1>6. CASE Execute(t) \/ ExecutorReturns(t) \/ RejectEffect(t) \/ CallbackRaises(t)
    BY <1>6, QuietRefines
    DEF Execute, ExecutorReturns, RejectEffect, CallbackRaises, Goto, Kinds, provider
  <1>7. CASE SignReceipt(t) \/ RejectSignature(t) \/ SignerRaises(t)
             \/ CompletionRaises(t)
    BY <1>7, QuietRefines
    DEF SignReceipt, RejectSignature, SignerRaises, CompletionRaises, Goto, Kinds, provider
  <1>8. CASE FinalizationTimeout(t) \/ CancelledAfterSign(t) \/ CancelledAfterCompletion(t)
    BY <1>8, QuietRefines
    DEF FinalizationTimeout, CancelledAfterSign, CancelledAfterCompletion, Finalizing, Kinds,
        provider
  <1>9. CASE Cancel(t) \/ Crash(t)
    BY <1>9, QuietRefines DEF Cancel, Crash, Awaits, Goto, Kinds, provider
  <1> QED
    BY <1>1, <1>2, <1>3, <1>4, <1>5, <1>6, <1>7, <1>8, <1>9
    DEF CallStep, Resume, Fresh, Finalize

LEMMA EnvironmentRefines ==
    ASSUME IInv, IInv', Environment
    PROVE  Contract!Next \/ UNCHANGED ContractVars
  <1>1. UNCHANGED <<prepared, outcome>>
    BY DEF Environment, CompletionLands, CompletionLost, ProviderApplies, ProviderDrops
  <1>2. UNCHANGED Reported
    BY <1>1 DEF Reported, Succeeded, IdOf
  <1>3. CASE \E r \in writes : CompletionLands(r)
    BY <1>2, <1>3, LandsRefines
  <1>4. CASE \E e \in wire : ProviderApplies(e)
    BY <1>2, <1>4, ApplyRefines
  <1>5. CASE \/ \E r \in writes : CompletionLost(r)
             \/ \E e \in wire : ProviderDrops(e)
    <2>1. UNCHANGED <<store, effects>>
      BY <1>5 DEF CompletionLost, ProviderDrops, provider
    <2> QED
      BY <1>2, <2>1, LedgerFrame DEF ContractVars
  <1> QED
    BY <1>3, <1>4, <1>5 DEF Environment

LEMMA StepRefines ==
    ASSUME ExclusiveIntents, IInv, IInv', [Next]_vars
    PROVE  [Contract!Next]_(Contract!vars)
  <1>1. CASE UNCHANGED vars
    <2>1. UNCHANGED <<store, effects>> /\ UNCHANGED <<prepared, outcome>>
      BY <1>1 DEF vars, store, provider
    <2>2. UNCHANGED Reported
      BY <2>1 DEF Reported, Succeeded, IdOf
    <2> QED
      BY <2>1, <2>2, LedgerFrame DEF Contract!vars, Ledger
  <1>2. CASE \E t \in Calls : CallStep(t)
    BY <1>2, CallRefines DEF ContractVars, Ledger, Contract!vars
  <1>3. CASE Environment
    BY <1>3, EnvironmentRefines DEF ContractVars, Ledger, Contract!vars
  <1> QED
    BY <1>1, <1>2, <1>3 DEF Next

\* Governed execution over an exclusive store keeps the contract.
THEOREM Refinement == ExclusiveIntents => (Spec => ImplementsContract)
  <1> SUFFICES ASSUME ExclusiveIntents
               PROVE  Spec => Contract!Spec
    BY DEF ImplementsContract
  <1>1. Init => Contract!Init
    BY InitRefines
  <1>2. IInv /\ IInv' /\ [Next]_vars => [Contract!Next]_(Contract!vars)
    BY StepRefines
  <1>3. Spec => []IInv
    BY Invariance
  <1> QED
    BY <1>1, <1>2, <1>3, PTL DEF Spec, Contract!Spec
=============================================================================
