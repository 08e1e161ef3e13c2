------------------------- MODULE ExecutionContract -------------------------
(***************************************************************************)
(* What governed execution promises the owner of an idempotency id: a      *)
(* grant is fixed once, then one effect is released under it, then that    *)
(* effect is recorded, and only a recorded effect is ever reported as the  *)
(* result of a call.  Any number of calls, retries and crashes may happen  *)
(* in between; the ledger of an id only moves forward.                     *)
(***************************************************************************)
EXTENDS Integers

CONSTANTS
    Ids,       \* idempotency ids
    Grants,    \* genuine signed authorizations
    Works,     \* effects a provider can apply
    None

VARIABLES
    ledger,    \* id -> how far its execution is, under which grant, to what effect
    answers    \* the results reported to callers

vars == <<ledger, answers>>

Stages == {"new", "intended", "applied", "recorded"}
Entry == [stage: Stages, grant: Grants \cup {None}, work: Works \cup {None}]
Answers == [id: Ids, grant: Grants, work: Works]

Init ==
    /\ ledger = [i \in Ids |-> [stage |-> "new", grant |-> None, work |-> None]]
    /\ answers = {}

Intend(i) ==
    /\ ledger[i].stage = "new"
    /\ \E g \in Grants :
          /\ g.id = i
          /\ ledger' = [ledger EXCEPT ![i] =
                            [stage |-> "intended", grant |-> g, work |-> None]]
    /\ UNCHANGED answers

Apply(i) ==
    /\ ledger[i].stage = "intended"
    /\ LET w == ledger'[i].work    \* Works may be infinite: the step names its choice
       IN  /\ w \in Works
           /\ w.id = i /\ w.body = ledger[i].grant.body
           /\ ledger' = [ledger EXCEPT ![i] =
                             [stage |-> "applied", grant |-> @.grant, work |-> w]]
    /\ UNCHANGED answers

Record(i) ==
    /\ ledger[i].stage = "applied"
    /\ ledger' = [ledger EXCEPT ![i] =
                      [stage |-> "recorded", grant |-> @.grant, work |-> @.work]]
    /\ UNCHANGED answers

Answer(i) ==
    /\ ledger[i].stage = "recorded"
    /\ answers' = answers \cup
                    {[id |-> i, grant |-> ledger[i].grant, work |-> ledger[i].work]}
    /\ UNCHANGED ledger

Next == \E i \in Ids : Intend(i) \/ Apply(i) \/ Record(i) \/ Answer(i)

Spec == Init /\ [][Next]_vars
=============================================================================
