------------------------ MODULE PendingResolveProofs ------------------------
(* Theorems about PendingResolve, for every value of its constants.        *)
EXTENDS PendingResolve, TLAPS

-----------------------------------------------------------------------------
(* The inductive invariant.                                                *)

\* Nothing that happened lies in the future, and every deadline on the clock.
Clock ==
    /\ decidedAt <= now
    /\ \A r \in Resolvers :
          /\ started[r] <= now /\ began[r] <= now /\ ended[r] <= now
          /\ pc[r] # "idle" => Deadline(r) <= Horizon
          /\ pc[r] # "done" => outcome[r] = "none"

\* Every poll has had its interval since the one before it began, unless there
\* is no time left for another one.
Paced ==
    \A r \in Resolvers :
        /\ pc[r] = "idle" => polls[r] = 0
        /\ pc[r] \in {"poll", "sleep"} => polls[r] > 0
        /\ pc[r] = "check" => polls[r] * Interval <= now - started[r] \/ now >= Deadline(r)
        /\ pc[r] = "sleep" => polls[r] * Interval <= wake[r] - started[r] \/ wake[r] >= Deadline(r)

\* The decision a resolver was told is the operator's.
Informed(r) == pc[r] = "poll" /\ Accepts(reply[r]) /\ reply[r].decision # "open"

Truthful ==
    \A r \in Resolvers :
        /\ pc[r] # "poll" => reply[r] = NoReply
        /\ Informed(r) => reply[r].decision = decision

\* No decision had been made when the last poll of a resolver began.
Covered(r) == decision = "open" \/ decidedAt >= began[r]

\* While gateway and scheduler keep up, time passes only in the pauses, and a
\* pause follows a poll that found the request undecided.
Punctual ==
    \A r \in Resolvers : prompt[r] =>
        /\ pc[r] = "check" =>
              \/ polls[r] = 0 /\ now = started[r]
              \/ polls[r] > 0 /\ now <= began[r] + Interval /\ Covered(r)
        /\ pc[r] = "poll" =>
              now = began[r] /\ (reply[r] = NoReply \/ Informed(r) \/ Covered(r))
        /\ pc[r] = "sleep" =>
              now <= wake[r] /\ wake[r] <= began[r] + Interval /\ Covered(r)

IInv ==
    /\ TypeOK /\ Clock
    /\ Paced /\ PollsPaced
    /\ Truthful /\ DecisionFaithful
    /\ Punctual /\ NoDecisionMissed
    /\ TimeoutNotEarly

-----------------------------------------------------------------------------
(* Lemmas about the operators.                                             *)

\* The shorter of an interval and the time that is left.
LEMMA MinOfTwo ==
    ASSUME NEW a \in Int, NEW b \in Int
    PROVE  /\ Min({a, b}) \in {a, b}
           /\ Min({a, b}) <= a /\ Min({a, b}) <= b
  <1>1. \E x \in {a, b} : \A y \in {a, b} : x =< y
    <2>1. CASE a <= b
      BY <2>1
    <2>2. CASE b <= a
      BY <2>2
    <2> QED
      BY <2>1, <2>2
  <1> QED
    BY <1>1 DEF Min

\* One poll more costs one interval more.
LEMMA OneInterval ==
    ASSUME NEW p \in Nat, NEW i \in Nat
    PROVE  p * i \in Nat /\ (p > 0 => (p - 1) * i = p * i - i)
  OBVIOUS

LEMMA ReplyFacts ==
    /\ NoReply \in Views \cup Failures \cup {NoReply}
    /\ ~Accepts(NoReply) /\ NoReply.kind = "none" /\ ~StillOpen(NoReply) /\ ~RaisesTerminal(NoReply)
  BY DEF NoReply, Answer, Accepts, StillOpen, RaisesTerminal

-----------------------------------------------------------------------------
(* Each kind of step preserves the invariant.                              *)

LEMMA InitIInv == Init => IInv
  <1> SUFFICES ASSUME Init
               PROVE  IInv
    OBVIOUS
  <1>1. TypeOK
    BY DurationsAssumption, ReplyFacts DEF Init, TypeOK, Decisions, Points, Outcomes
  <1>2. Clock /\ Paced /\ PollsPaced /\ Punctual
    BY DEF Init, Clock, Paced, PollsPaced, Punctual
  <1>3. Truthful /\ DecisionFaithful /\ NoDecisionMissed /\ TimeoutNotEarly
    BY DEF Init, Truthful, Informed, DecisionFaithful, NoDecisionMissed, TimeoutNotEarly
  <1> QED
    BY <1>1, <1>2, <1>3 DEF IInv

\* A resolver that ends keeps the invariant if what it raises is justified.
LEMMA EndIInv ==
    ASSUME IInv, NEW r \in Resolvers, NEW how \in Outcomes, End(r, how), pc[r] # "done", pc[r] # "idle",
           UNCHANGED <<now, gateway, started, prompt>>,
           how = "approved" => decision = "allow",
           how = "denied" => decision = "deny",
           how = "timeout" => now >= Deadline(r) /\ pc[r] \in {"check", "poll"}
    PROVE  IInv'
  <1>1. TypeOK'
    BY DurationsAssumption, ReplyFacts DEF IInv, TypeOK, End, gateway, Points, Deadline
  <1>2. /\ pc'[r] = "done" /\ outcome'[r] = how /\ ended'[r] = now /\ polls'[r] = 0 /\ began'[r] = 0
        /\ reply'[r] = NoReply
        /\ \A s \in Resolvers \ {r} :
              /\ pc'[s] = pc[s] /\ outcome'[s] = outcome[s] /\ ended'[s] = ended[s] /\ polls'[s] = polls[s]
              /\ began'[s] = began[s] /\ reply'[s] = reply[s] /\ wake'[s] = wake[s]
    BY DEF IInv, TypeOK, End
  <1>3. Clock'
    BY <1>2 DEF IInv, TypeOK, Clock, gateway, Deadline
  <1>4. Paced' /\ PollsPaced'
    BY <1>2 DEF IInv, Paced, PollsPaced, Deadline
  <1>5. Truthful'
    BY <1>2 DEF IInv, Truthful, Informed, gateway
  <1>6. DecisionFaithful' /\ TimeoutNotEarly'
    BY <1>2 DEF IInv, DecisionFaithful, TimeoutNotEarly, gateway, Deadline
  <1>7. Punctual'
    BY <1>2 DEF IInv, Punctual, Covered, Informed, gateway
  <1>8. ASSUME how = "timeout", prompt[r]
        PROVE  decision = "open" \/ decidedAt + Interval >= Deadline(r)
    <2>1. /\ now \in Nat /\ decidedAt \in Nat /\ began[r] \in Nat /\ started[r] \in Nat
          /\ Timeout \in Nat \ {0} /\ Interval \in Nat
      BY DurationsAssumption DEF IInv, TypeOK
    <2>2. CASE pc[r] = "check"
      BY <1>8, <2>1, <2>2 DEF IInv, Punctual, Covered, Deadline
    <2>3. CASE pc[r] = "poll"
      BY <1>8, <2>1, <2>3 DEF IInv, Paced, PollsPaced, Punctual, Deadline
    <2> QED
      BY <1>8, <2>2, <2>3
  <1>9. NoDecisionMissed'
    BY <1>2, <1>8 DEF IInv, NoDecisionMissed, gateway, Deadline
  <1> QED
    BY <1>1, <1>3, <1>4, <1>5, <1>6, <1>7, <1>9 DEF IInv

LEMMA StartIInv ==
    ASSUME IInv, NEW r \in Resolvers, Start(r)
    PROVE  IInv'
  <1>1. TypeOK'
    BY DEF IInv, TypeOK, Start, gateway, Points, Deadline
  <1>2. /\ pc[r] = "idle" /\ pc'[r] = "check" /\ started'[r] = now /\ now + Timeout <= Horizon
        /\ \A s \in Resolvers \ {r} : pc'[s] = pc[s] /\ started'[s] = started[s]
        /\ polls[r] = 0 /\ outcome[r] = "none" /\ now \in Nat
    BY DEF IInv, TypeOK, Start, Paced, Clock
  <1>3. UNCHANGED <<now, decision, decidedAt, polls, began, reply, wake, outcome, ended, prompt>>
    BY DEF Start, gateway
  <1>4. Clock'
    BY <1>2, <1>3 DEF IInv, Clock, Deadline
  <1>5. Paced' /\ PollsPaced'
    BY <1>2, <1>3, OneInterval, DurationsAssumption DEF IInv, Paced, PollsPaced, Deadline
  <1>6. Truthful'
    BY <1>2, <1>3 DEF IInv, Truthful, Informed
  <1>7. DecisionFaithful' /\ NoDecisionMissed' /\ TimeoutNotEarly'
    BY <1>2, <1>3 DEF IInv, DecisionFaithful, NoDecisionMissed, TimeoutNotEarly, Deadline
  <1>8. Punctual'
    BY <1>2, <1>3 DEF IInv, Punctual, Covered, Informed
  <1> QED
    BY <1>1, <1>4, <1>5, <1>6, <1>7, <1>8 DEF IInv

\* A poll begins while time is left, an interval after the one before.
LEMMA BeginPollIInv ==
    ASSUME IInv, NEW r \in Resolvers, BeginPoll(r)
    PROVE  IInv'
  <1>1. TypeOK'
    BY DEF IInv, TypeOK, BeginPoll, gateway, Points, Deadline
  <1>2. /\ pc[r] = "check" /\ pc'[r] = "poll" /\ began'[r] = now /\ now < Deadline(r)
        /\ \A s \in Resolvers \ {r} : pc'[s] = pc[s] /\ began'[s] = began[s] /\ polls'[s] = polls[s]
        /\ polls'[r] = polls[r] + 1 /\ polls[r] \in Nat
        /\ now \in Nat /\ started[r] \in Nat
    BY DEF IInv, TypeOK, BeginPoll
  <1>3. UNCHANGED <<now, decision, decidedAt, started, reply, wake, outcome, ended, prompt>>
    BY DEF BeginPoll, gateway
  <1>4. Clock'
    BY <1>2, <1>3 DEF IInv, Clock, Deadline
  <1>5. polls[r] * Interval <= now - started[r]
    BY <1>2, DurationsAssumption DEF IInv, Paced, Deadline
  <1>6. Paced'
    BY <1>2, <1>3 DEF IInv, Paced, Deadline
  <1>7. PollsPaced'
    <2>1. (polls'[r] - 1) = polls[r]
      BY <1>2
    <2>2. ASSUME NEW s \in Resolvers, polls'[s] > 0
          PROVE  began'[s] < Deadline(s)' /\ (polls'[s] - 1) * Interval <= began'[s] - started'[s]
      <3>1. CASE s = r
        BY <1>2, <1>3, <1>5, <2>1, <3>1 DEF Deadline
      <3>2. CASE s # r
        BY <1>2, <1>3, <2>2, <3>2 DEF IInv, PollsPaced, Deadline
      <3> QED
        BY <3>1, <3>2
    <2> QED
      BY <2>2 DEF PollsPaced
  <1>8. Truthful'
    BY <1>2, <1>3, ReplyFacts DEF IInv, Truthful, Informed
  <1>9. DecisionFaithful' /\ NoDecisionMissed' /\ TimeoutNotEarly'
    BY <1>2, <1>3 DEF IInv, DecisionFaithful, NoDecisionMissed, TimeoutNotEarly, Deadline
  <1>10. Punctual'
    BY <1>2, <1>3, ReplyFacts DEF IInv, Truthful, Punctual, Covered, Informed
  <1> QED
    BY <1>1, <1>4, <1>6, <1>7, <1>8, <1>9, <1>10 DEF IInv

\* What an answer says is what the operator has decided by now.
LEMMA PollAnsweredIInv ==
    ASSUME IInv, NEW r \in Resolvers, PollAnswered(r)
    PROVE  IInv'
  <1>1. PICK a \in Views \cup Failures :
              /\ a.kind = "view" /\ a.own => a.decision = decision
              /\ reply' = [reply EXCEPT ![r] = a]
              /\ prompt' = [prompt EXCEPT ![r] = @ /\ Accepts(a)]
    BY DEF PollAnswered
  <1>2. /\ pc[r] = "poll" /\ reply[r].kind = "none"
        /\ UNCHANGED <<now, decision, decidedAt, pc, started, polls, began, wake, outcome, ended>>
    BY DEF PollAnswered, gateway
  <1>3. TypeOK'
    BY <1>1, <1>2 DEF IInv, TypeOK, Deadline
  <1>4. /\ reply'[r] = a /\ prompt'[r] = (prompt[r] /\ Accepts(a))
        /\ \A s \in Resolvers \ {r} : reply'[s] = reply[s] /\ prompt'[s] = prompt[s]
        /\ now \in Nat
    BY <1>1 DEF IInv, TypeOK
  <1>5. Clock'
    BY <1>2, <1>4 DEF IInv, Clock, Deadline
  <1>6. Paced' /\ PollsPaced' /\ DecisionFaithful' /\ TimeoutNotEarly'
    BY <1>2 DEF IInv, Paced, PollsPaced, DecisionFaithful, TimeoutNotEarly, Deadline
  <1>7. outcome[r] = "none"
    BY <1>2 DEF IInv, Clock
  <1>8. NoDecisionMissed'
    BY <1>2, <1>4, <1>7 DEF IInv, NoDecisionMissed, Deadline
  <1>9. Truthful'
    <2>1. Accepts(a) => a.decision = decision
      BY <1>1 DEF Accepts
    <2>2. ~Informed(r)
      BY <1>2 DEF Informed, Accepts
    <2> QED
      BY <1>2, <1>4, <2>1, <2>2 DEF IInv, Truthful, Informed
  <1>10. Punctual'
    <2>1. Accepts(a) => a.decision = decision
      BY <1>1 DEF Accepts
    <2>2. prompt'[r] => Informed(r)' \/ Covered(r)'
      BY <1>2, <1>4, <2>1 DEF Informed, Covered
    <2>3. prompt'[r] => now' = began'[r]
      BY <1>2, <1>4 DEF IInv, Punctual
    <2> QED
      BY <1>2, <1>4, <2>2, <2>3 DEF IInv, Punctual, Covered, Informed
  <1> QED
    BY <1>3, <1>5, <1>6, <1>8, <1>9, <1>10 DEF IInv

\* A sleep lasts an interval, or until the deadline.
LEMMA KeepWaitingIInv ==
    ASSUME IInv, NEW r \in Resolvers, KeepWaiting(r)
    PROVE  IInv'
  <1>1. /\ pc[r] = "poll" /\ StillOpen(reply[r]) /\ UNCHANGED <<now, gateway, started, prompt>>
    BY DEF KeepWaiting
  <1>2. ~Informed(r)
    BY <1>1 DEF StillOpen, Informed, Accepts
  <1>3. CASE End(r, "timeout") /\ now >= Deadline(r)
    BY <1>1, <1>3, EndIInv DEF Outcomes
  <1>4. ASSUME ~(now >= Deadline(r)),
               wake' = [wake EXCEPT ![r] = now + Min({Interval, Deadline(r) - now})],
               pc' = [pc EXCEPT ![r] = "sleep"],
               reply' = [reply EXCEPT ![r] = NoReply],
               UNCHANGED <<polls, began, outcome, ended>>
        PROVE  IInv'
    <2> DEFINE left == Deadline(r) - now
               pause == Min({Interval, left})
    <2>1. /\ now \in Nat /\ started[r] \in Nat /\ began[r] \in Nat /\ polls[r] \in Nat
          /\ began[r] <= now /\ started[r] <= now /\ Deadline(r) <= Horizon /\ now < Deadline(r)
          /\ Interval \in Nat /\ Deadline(r) \in Nat /\ Horizon \in Nat
      BY <1>1, <1>4, DurationsAssumption DEF IInv, TypeOK, Clock, Deadline
    <2>2. pause \in {Interval, left} /\ pause <= Interval /\ pause <= left /\ left \in Nat
      BY <2>1, MinOfTwo
    <2>3. /\ wake'[r] = now + pause /\ pc'[r] = "sleep" /\ reply'[r] = NoReply
          /\ \A s \in Resolvers \ {r} : pc'[s] = pc[s] /\ wake'[s] = wake[s] /\ reply'[s] = reply[s]
      BY <1>4 DEF IInv, TypeOK
    <2> HIDE DEF left, pause
    <2>4. pause \in Nat /\ wake'[r] \in 0 .. Horizon /\ wake'[r] \in began[r] .. Deadline(r)
      BY <2>1, <2>2, <2>3 DEF left
    <2>5. TypeOK'
      BY <1>1, <1>4, <2>3, <2>4, ReplyFacts DEF IInv, TypeOK, gateway, Points, Deadline
    <2>6. Clock' /\ PollsPaced' /\ DecisionFaithful' /\ NoDecisionMissed' /\ TimeoutNotEarly'
      BY <1>1, <1>4, <2>3
      DEF IInv, Clock, PollsPaced, DecisionFaithful, NoDecisionMissed, TimeoutNotEarly, Deadline, gateway
    <2>7. polls[r] * Interval <= wake'[r] - started[r] \/ wake'[r] >= Deadline(r)
      <3>1. CASE pause = left
        BY <2>1, <2>2, <2>3, <3>1 DEF left
      <3>2. CASE pause = Interval /\ polls[r] > 0
        <4>1. (polls[r] - 1) * Interval <= began[r] - started[r]
          BY <3>2 DEF IInv, PollsPaced
        <4>2. polls[r] * Interval - Interval <= now - started[r] /\ polls[r] * Interval \in Nat
          BY <2>1, <3>2, <4>1, OneInterval
        <4> QED
          BY <2>1, <2>3, <3>2, <4>2
      <3>3. CASE pause = Interval /\ polls[r] = 0
        BY <2>1, <2>3, <3>3
      <3> QED
        BY <2>1, <2>2, <3>1, <3>2, <3>3
    <2>8. Paced'
      BY <1>1, <1>4, <2>3, <2>7 DEF IInv, Paced, Deadline
    <2>9. Truthful'
      BY <1>1, <1>2, <1>4, <2>3 DEF IInv, Truthful, Informed, gateway
    <2>10. prompt[r] => now = began[r] /\ Covered(r)
      BY <1>1, <1>2, ReplyFacts DEF IInv, Punctual
    <2>11. Punctual'
      BY <1>1, <1>4, <2>1, <2>2, <2>3, <2>4, <2>10 DEF IInv, Punctual, Covered, Informed, gateway
    <2> QED
      BY <2>5, <2>6, <2>8, <2>9, <2>11 DEF IInv
  <1> QED
    BY <1>3, <1>4 DEF KeepWaiting

LEMMA WakeUpIInv ==
    ASSUME IInv, NEW r \in Resolvers, WakeUp(r)
    PROVE  IInv'
  <1>1. TypeOK'
    BY DurationsAssumption DEF IInv, TypeOK, WakeUp, gateway, Points, Deadline
  <1>2. /\ pc[r] = "sleep" /\ now >= wake[r] /\ pc'[r] = "check"
        /\ \A s \in Resolvers \ {r} : pc'[s] = pc[s] /\ wake'[s] = wake[s]
        /\ UNCHANGED <<now, decision, decidedAt, started, polls, began, reply, outcome, ended, prompt>>
        /\ now \in Nat /\ wake[r] \in Nat /\ started[r] \in Nat /\ polls[r] \in Nat
    BY DEF IInv, TypeOK, WakeUp, gateway
  <1>3. Clock' /\ PollsPaced' /\ DecisionFaithful' /\ NoDecisionMissed' /\ TimeoutNotEarly'
    BY <1>2
    DEF IInv, Clock, PollsPaced, DecisionFaithful, NoDecisionMissed, TimeoutNotEarly, Deadline
  <1>4. Paced'
    <2>1. polls[r] * Interval <= now - started[r] \/ now >= Deadline(r)
      <3>1. polls[r] * Interval \in Nat /\ Deadline(r) \in Nat
        BY <1>2, OneInterval, DurationsAssumption DEF Deadline
      <3> QED
        BY <1>2, <3>1 DEF IInv, Paced
    <2> QED
      BY <1>2, <2>1 DEF IInv, Paced, Deadline
  <1>5. Truthful'
    BY <1>2, ReplyFacts DEF IInv, Truthful, Informed
  <1>6. Punctual'
    <2>1. prompt[r] => now <= began[r] + Interval /\ Covered(r) /\ polls[r] > 0
      BY <1>2, DurationsAssumption DEF IInv, TypeOK, Paced, Punctual
    <2> QED
      BY <1>2, <2>1 DEF IInv, Punctual, Covered, Informed
  <1> QED
    BY <1>1, <1>3, <1>4, <1>5, <1>6 DEF IInv

\* The operator decides now, after every read of the gateway's record so far.
LEMMA OperatorDecidesIInv ==
    ASSUME IInv, OperatorDecides
    PROVE  IInv'
  <1>1. /\ decision = "open" /\ decision' \in {"allow", "deny"} /\ decidedAt' = now
        /\ UNCHANGED <<now, pc, started, polls, began, reply, wake, outcome, ended, prompt>>
    BY DEF OperatorDecides
  <1>2. TypeOK'
    BY <1>1 DEF IInv, TypeOK, Decisions, Deadline
  <1>3. Clock' /\ Paced' /\ PollsPaced' /\ TimeoutNotEarly'
    BY <1>1 DEF IInv, TypeOK, Clock, Paced, PollsPaced, TimeoutNotEarly, Deadline
  <1>4. \A r \in Resolvers : ~Informed(r)
    BY <1>1 DEF IInv, Truthful, Informed
  <1>5. Truthful' /\ Punctual'
    BY <1>1, <1>4 DEF IInv, TypeOK, Clock, Truthful, Informed, Punctual, Covered
  <1>6. DecisionFaithful'
    BY <1>1 DEF IInv, DecisionFaithful
  <1>7. NoDecisionMissed'
    <2>1. ASSUME NEW r \in Resolvers, outcome[r] = "timeout"
          PROVE  now + Interval >= Deadline(r)
      BY <2>1, DurationsAssumption DEF IInv, TypeOK, Clock, TimeoutNotEarly, Deadline
    <2> QED
      BY <1>1, <2>1 DEF NoDecisionMissed, Deadline
  <1> QED
    BY <1>2, <1>3, <1>5, <1>6, <1>7 DEF IInv

LEMMA TickIInv ==
    ASSUME IInv, Tick
    PROVE  IInv'
  <1>1. /\ now' = now + 1 /\ now \in Nat /\ now' \in 0 .. Horizon
        /\ \A r \in Resolvers : prompt'[r] = (prompt[r] /\ ~Busy(r))
        /\ prompt' \in [Resolvers -> BOOLEAN]
        /\ UNCHANGED <<decision, decidedAt, pc, started, polls, began, reply, wake, outcome, ended>>
    BY DurationsAssumption DEF IInv, TypeOK, Tick, gateway
  <1>2. TypeOK'
    BY <1>1 DEF IInv, TypeOK, Deadline
  <1>3. Clock' /\ PollsPaced' /\ TimeoutNotEarly'
    BY <1>1 DEF IInv, TypeOK, Clock, PollsPaced, TimeoutNotEarly, Deadline
  <1>4. Paced'
    <2>1. ASSUME NEW r \in Resolvers, pc[r] = "check"
          PROVE  polls[r] * Interval <= now' - started[r] \/ now' >= Deadline(r)
      <3>1. polls[r] * Interval \in Nat /\ Deadline(r) \in Nat /\ started[r] \in Nat
        BY OneInterval, DurationsAssumption DEF IInv, TypeOK, Deadline
      <3> QED
        BY <1>1, <2>1, <3>1 DEF IInv, Paced
    <2> QED
      BY <1>1, <2>1 DEF IInv, Paced, Deadline
  <1>5. Truthful' /\ DecisionFaithful' /\ NoDecisionMissed'
    BY <1>1 DEF IInv, Truthful, Informed, DecisionFaithful, NoDecisionMissed, Deadline
  <1>6. Punctual'
    BY <1>1 DEF IInv, TypeOK, Punctual, Covered, Informed, Busy
  <1> QED
    BY <1>2, <1>3, <1>4, <1>5, <1>6 DEF IInv

LEMMA NextIInv ==
    ASSUME IInv, [Next]_vars
    PROVE  IInv'
  <1>1. CASE UNCHANGED vars
    BY <1>1
    DEF vars, gateway, IInv, TypeOK, Clock, Paced, PollsPaced, Truthful, Informed, DecisionFaithful,
        Punctual, Covered, NoDecisionMissed, TimeoutNotEarly, Deadline
  <1>2. ASSUME NEW r \in Resolvers,
               Expire(r) \/ Approved(r) \/ Denied(r) \/ PollRaises(r) \/ Cancel(r)
        PROVE  IInv'
    <2>1. CASE Expire(r)
      BY <2>1, EndIInv DEF Expire, Outcomes
    <2>2. CASE Approved(r)
      <3>1. decision = "allow"
        BY <2>2 DEF Approved, IInv, Truthful, Informed
      <3> QED
        BY <2>2, <3>1, EndIInv DEF Approved, Outcomes
    <2>3. CASE Denied(r)
      <3>1. decision = "deny"
        BY <2>3 DEF Denied, IInv, Truthful, Informed
      <3> QED
        BY <2>3, <3>1, EndIInv DEF Denied, Outcomes
    <2>4. CASE PollRaises(r) \/ Cancel(r)
      BY <2>4, EndIInv DEF PollRaises, Cancel, Outcomes
    <2> QED
      BY <1>2, <2>1, <2>2, <2>3, <2>4
  <1>3. ASSUME NEW r \in Resolvers,
               Start(r) \/ BeginPoll(r) \/ PollAnswered(r) \/ KeepWaiting(r) \/ WakeUp(r)
        PROVE  IInv'
    BY <1>3, StartIInv, BeginPollIInv, PollAnsweredIInv, KeepWaitingIInv, WakeUpIInv
  <1>4. CASE OperatorDecides \/ Tick
    BY <1>4, OperatorDecidesIInv, TickIInv
  <1> QED
    BY <1>1, <1>2, <1>3, <1>4 DEF Next, Step

-----------------------------------------------------------------------------
(* The theorems.                                                           *)

\* The inductive invariant, for any number of resolvers and any durations.
THEOREM Invariant == Spec => []IInv
  BY InitIInv, NextIInv, PTL DEF Spec

\* Types; and a sleep lies within the time the resolver was given.
THEOREM TypeCorrectness == Spec => []TypeOK
  <1>1. IInv => TypeOK
    BY DEF IInv
  <1> QED
    BY <1>1, Invariant, PTL

\* resolve returns, or raises ClavenarDenied, only on the operator's decision.
THEOREM DecisionsAreFaithful == Spec => []DecisionFaithful
  <1>1. IInv => DecisionFaithful
    BY DEF IInv
  <1> QED
    BY <1>1, Invariant, PTL

\* Polls begin while time is left, no more often than one per interval, whatever
\* the timeout and the interval are.
THEOREM PollsArePaced == Spec => []PollsPaced
  <1>1. IInv => PollsPaced
    BY DEF IInv
  <1> QED
    BY <1>1, Invariant, PTL

\* A timeout is never raised before the time is over.
THEOREM TimeoutIsNotEarly == Spec => []TimeoutNotEarly
  <1>1. IInv => TimeoutNotEarly
    BY DEF IInv
  <1> QED
    BY <1>1, Invariant, PTL

\* While gateway and scheduler keep up, a timeout hides only a decision made in
\* the last interval before the deadline, whatever timeout and interval are.
THEOREM TimeoutMissesNoDecision == Spec => []NoDecisionMissed
  <1>1. IInv => NoDecisionMissed
    BY DEF IInv
  <1> QED
    BY <1>1, Invariant, PTL
=============================================================================
