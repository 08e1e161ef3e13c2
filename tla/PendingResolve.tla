--------------------------- MODULE PendingResolve ---------------------------
(***************************************************************************)
(* ClavenarPending.resolve and resolve_sync (errors.py): a tool call was   *)
(* parked for human review, and the caller polls the gateway until the     *)
(* operator decides, a poll fails for good, or the deadline passes.        *)
(*                                                                         *)
(* Every member of Resolvers is one call of resolve on the same parked     *)
(* request: an application may wait in several tasks, or again after a     *)
(* timeout.  Time is counted in ticks and passes freely, also between two  *)
(* statements of a resolver and while a poll is under way: the HTTP        *)
(* timeouts bound each network operation of a poll, not the whole poll.    *)
(***************************************************************************)
EXTENDS Integers, FiniteSetsExt

CONSTANTS
    Resolvers,     \* calls of resolve / resolve_sync for one correlation id
    Timeout,       \* timeout_s
    Interval,      \* poll_interval_s
    Horizon,       \* bound: the last tick of the clock
    Cancellable    \* TRUE: resolve; FALSE: resolve_sync

\* Both are checked to be positive before the deadline is computed.
ASSUME DurationsAssumption ==
    /\ Timeout \in Nat \ {0}
    /\ Interval \in Nat \ {0}
    /\ Horizon \in Nat

Points == {"idle", "check", "poll", "sleep", "done"}
Outcomes == {"none", "approved", "denied", "timeout", "error", "cancelled"}
Decisions == {"open", "allow", "deny"}

\* What a poll comes back with: a view of some parked request (own: the one
\* asked for), a network failure or 5xx, any other status or a malformed body.
Answer(kind, own, seen) == [kind |-> kind, own |-> own, decision |-> seen]
NoReply == Answer("none", TRUE, "open")
Views == {Answer("view", own, d) : own \in BOOLEAN, d \in Decisions}
Failures == {Answer(kind, TRUE, "open") : kind \in {"transient", "terminal"}}

VARIABLES
    now,         \* time.monotonic()
    decision,    \* the operator's decision, kept by the gateway
    decidedAt,   \* when it was made
    pc,          \* where each resolver is
    started,     \* when a resolver computed its deadline
    polls,       \* polls a resolver has begun
    began,       \* when its last poll began
    reply,       \* the answer to the poll under way
    wake,        \* when its sleep ends
    outcome,     \* how it ended
    ended,       \* when it ended
    prompt       \* (history) gateway and scheduler kept up with the clock so far

gateway == <<decision, decidedAt>>
vars == <<now, gateway, pc, started, polls, began, reply, wake, outcome, ended, prompt>>

Deadline(r) == started[r] + Timeout

-----------------------------------------------------------------------------
Init ==
    /\ now = 0
    /\ decision = "open" /\ decidedAt = 0
    /\ pc = [r \in Resolvers |-> "idle"]
    /\ started = [r \in Resolvers |-> 0]
    /\ polls = [r \in Resolvers |-> 0]
    /\ began = [r \in Resolvers |-> 0]
    /\ reply = [r \in Resolvers |-> NoReply]
    /\ wake = [r \in Resolvers |-> 0]
    /\ outcome = [r \in Resolvers |-> "none"]
    /\ ended = [r \in Resolvers |-> 0]
    /\ prompt = [r \in Resolvers |-> TRUE]

\* The call returns or raises: its frame is gone.
End(r, how) ==
    /\ pc' = [pc EXCEPT ![r] = "done"]
    /\ outcome' = [outcome EXCEPT ![r] = how]
    /\ ended' = [ended EXCEPT ![r] = now]
    /\ polls' = [polls EXCEPT ![r] = 0]
    /\ began' = [began EXCEPT ![r] = 0]
    /\ reply' = [reply EXCEPT ![r] = NoReply]
    /\ wake' = [wake EXCEPT ![r] = 0]

Start(r) ==
    /\ pc[r] = "idle"
    /\ now + Timeout <= Horizon
    /\ started' = [started EXCEPT ![r] = now]
    /\ pc' = [pc EXCEPT ![r] = "check"]
    /\ UNCHANGED <<now, gateway, polls, began, reply, wake, outcome, ended, prompt>>

BeginPoll(r) ==
    /\ pc[r] = "check"
    /\ now < Deadline(r)
    /\ polls' = [polls EXCEPT ![r] = @ + 1]
    /\ began' = [began EXCEPT ![r] = now]
    /\ pc' = [pc EXCEPT ![r] = "poll"]
    /\ UNCHANGED <<now, gateway, started, reply, wake, outcome, ended, prompt>>

Expire(r) ==
    /\ pc[r] = "check"
    /\ now >= Deadline(r)
    /\ End(r, "timeout")
    /\ UNCHANGED <<now, gateway, started, prompt>>

\* Mutant: the view's correlation id is not compared with the expected one.
AcceptsAnyView(a) == a.kind = "view"

\* _parse_pending_view accepts the body only for the expected correlation id.
Accepts(a) == a.kind = "view" /\ a.own

\* The gateway reads its record, or something on the way fails.  The answer
\* may be delivered much later, and may be about another request.
PollAnswered(r) ==
    /\ pc[r] = "poll"
    /\ reply[r].kind = "none"
    /\ \E a \in Views \cup Failures :
          /\ a.kind = "view" /\ a.own => a.decision = decision
          /\ reply' = [reply EXCEPT ![r] = a]
          /\ prompt' = [prompt EXCEPT ![r] = @ /\ Accepts(a)]
    /\ UNCHANGED <<now, gateway, pc, started, polls, began, wake, outcome, ended>>

\* poll_once raises with a status that is neither absent nor 5xx.
RaisesTerminal(a) == a.kind = "terminal" \/ (a.kind = "view" /\ ~Accepts(a))

Approved(r) ==
    /\ pc[r] = "poll"
    /\ Accepts(reply[r]) /\ reply[r].decision = "allow"
    /\ End(r, "approved")
    /\ UNCHANGED <<now, gateway, started, prompt>>

Denied(r) ==
    /\ pc[r] = "poll"
    /\ Accepts(reply[r]) /\ reply[r].decision = "deny"
    /\ End(r, "denied")
    /\ UNCHANGED <<now, gateway, started, prompt>>

PollRaises(r) ==
    /\ pc[r] = "poll"
    /\ RaisesTerminal(reply[r])
    /\ End(r, "error")
    /\ UNCHANGED <<now, gateway, started, prompt>>

StillOpen(a) == a.kind = "transient" \/ (Accepts(a) /\ a.decision = "open")

\* Mutant: after a transient failure the loop goes round without a sleep.
KeepWaitingRestless(r) ==
    /\ pc[r] = "poll"
    /\ StillOpen(reply[r])
    /\ IF now >= Deadline(r)
       THEN End(r, "timeout")
       ELSE /\ wake' = [wake EXCEPT ![r] = now + Min({Interval, Deadline(r) - now})]
            /\ pc' = [pc EXCEPT ![r] = IF reply[r].kind = "transient" THEN "check" ELSE "sleep"]
            /\ reply' = [reply EXCEPT ![r] = NoReply]
            /\ UNCHANGED <<polls, began, outcome, ended>>
    /\ UNCHANGED <<now, gateway, started, prompt>>

\* Mutant: a transient failure is retried inside the poll, whatever the time.
KeepWaitingForever(r) ==
    /\ pc[r] = "poll"
    /\ StillOpen(reply[r])
    /\ reply' = [reply EXCEPT ![r] = NoReply]
    /\ UNCHANGED <<now, gateway, pc, started, polls, began, wake, outcome, ended, prompt>>

\* Mutant: the wait is given up when a whole interval no longer fits.
KeepWaitingHasty(r) ==
    /\ pc[r] = "poll"
    /\ StillOpen(reply[r])
    /\ IF now + Interval >= Deadline(r)
       THEN End(r, "timeout")
       ELSE /\ wake' = [wake EXCEPT ![r] = now + Interval]
            /\ pc' = [pc EXCEPT ![r] = "sleep"]
            /\ reply' = [reply EXCEPT ![r] = NoReply]
            /\ UNCHANGED <<polls, began, outcome, ended>>
    /\ UNCHANGED <<now, gateway, started, prompt>>

\* Mutant: the sleep is not shortened to the time that is left.
KeepWaitingOversleeps(r) ==
    /\ pc[r] = "poll"
    /\ StillOpen(reply[r])
    /\ IF now >= Deadline(r)
       THEN End(r, "timeout")
       ELSE /\ wake' = [wake EXCEPT ![r] = now + Interval]
            /\ pc' = [pc EXCEPT ![r] = "sleep"]
            /\ reply' = [reply EXCEPT ![r] = NoReply]
            /\ UNCHANGED <<polls, began, outcome, ended>>
    /\ UNCHANGED <<now, gateway, started, prompt>>

\* Mutant: the pause grows with every poll, as between the attempts of an
\* inspection.
KeepWaitingBacksOff(r) ==
    /\ pc[r] = "poll"
    /\ StillOpen(reply[r])
    /\ IF now >= Deadline(r)
       THEN End(r, "timeout")
       ELSE /\ wake' = [wake EXCEPT ![r] = now + Min({polls[r] * Interval, Deadline(r) - now})]
            /\ pc' = [pc EXCEPT ![r] = "sleep"]
            /\ reply' = [reply EXCEPT ![r] = NoReply]
            /\ UNCHANGED <<polls, began, outcome, ended>>
    /\ UNCHANGED <<now, gateway, started, prompt>>

\* No decision yet: give up at the deadline, else sleep, never past it.
KeepWaiting(r) ==
    /\ pc[r] = "poll"
    /\ StillOpen(reply[r])
    /\ IF now >= Deadline(r)
       THEN End(r, "timeout")
       ELSE /\ wake' = [wake EXCEPT ![r] = now + Min({Interval, Deadline(r) - now})]
            /\ pc' = [pc EXCEPT ![r] = "sleep"]
            /\ reply' = [reply EXCEPT ![r] = NoReply]
            /\ UNCHANGED <<polls, began, outcome, ended>>
    /\ UNCHANGED <<now, gateway, started, prompt>>

WakeUp(r) ==
    /\ pc[r] = "sleep"
    /\ now >= wake[r]
    /\ pc' = [pc EXCEPT ![r] = "check"]
    /\ wake' = [wake EXCEPT ![r] = 0]
    /\ UNCHANGED <<now, gateway, started, polls, began, reply, outcome, ended, prompt>>

\* The task of an asynchronous resolver is cancelled at an await.
Cancel(r) ==
    /\ Cancellable
    /\ pc[r] \in {"poll", "sleep"}
    /\ End(r, "cancelled")
    /\ UNCHANGED <<now, gateway, started, prompt>>

-----------------------------------------------------------------------------
OperatorDecides ==
    /\ decision = "open"
    /\ decision' \in {"allow", "deny"}
    /\ decidedAt' = now
    /\ UNCHANGED <<now, pc, started, polls, began, reply, wake, outcome, ended, prompt>>

\* A resolver that is not asleep, or should not be.
Busy(r) == pc[r] \in {"check", "poll"} \/ (pc[r] = "sleep" /\ now >= wake[r])

Tick ==
    /\ now < Horizon
    /\ now' = now + 1
    /\ prompt' = [r \in Resolvers |-> prompt[r] /\ ~Busy(r)]
    /\ UNCHANGED <<gateway, pc, started, polls, began, reply, wake, outcome, ended>>

Step(r) ==
    \/ BeginPoll(r) \/ Expire(r) \/ PollAnswered(r)
    \/ Approved(r) \/ Denied(r) \/ PollRaises(r) \/ KeepWaiting(r) \/ WakeUp(r)

Next ==
    \/ \E r \in Resolvers : Start(r) \/ Step(r) \/ Cancel(r)
    \/ OperatorDecides
    \/ Tick

Spec == Init /\ [][Next]_vars

\* The clock advances, a resolver that can go on does, and every poll comes
\* back in the end: the gateway answers or the connection fails.
FairSpec == Spec /\ WF_vars(Tick) /\ \A r \in Resolvers : WF_vars(Step(r))

-----------------------------------------------------------------------------
(* Properties.                                                             *)

\* Types; and a sleep lies within the time the resolver was given.
TypeOK ==
    /\ now \in 0 .. Horizon
    /\ decision \in Decisions /\ decidedAt \in 0 .. Horizon
    /\ pc \in [Resolvers -> Points]
    /\ started \in [Resolvers -> 0 .. Horizon]
    /\ polls \in [Resolvers -> Nat]
    /\ began \in [Resolvers -> 0 .. Horizon]
    /\ reply \in [Resolvers -> Views \cup Failures \cup {NoReply}]
    /\ wake \in [Resolvers -> 0 .. Horizon]
    /\ outcome \in [Resolvers -> Outcomes]
    /\ ended \in [Resolvers -> 0 .. Horizon]
    /\ prompt \in [Resolvers -> BOOLEAN]
    /\ \A r \in Resolvers : pc[r] = "sleep" => wake[r] \in began[r] .. Deadline(r)

\* resolve returns, or raises ClavenarDenied, only on what the operator decided
\* about this request; late, foreign and malformed answers decide nothing.
DecisionFaithful ==
    \A r \in Resolvers :
        /\ outcome[r] = "approved" => decision = "allow"
        /\ outcome[r] = "denied" => decision = "deny"

\* The gateway is polled only while time is left, and no more often than one
\* poll per interval of the timeout, however fast polls fail (errors.py: the
\* sleep follows a swallowed transport error as well).
PollsPaced ==
    \A r \in Resolvers : polls[r] > 0 =>
        /\ began[r] < Deadline(r)
        /\ (polls[r] - 1) * Interval <= began[r] - started[r]

\* "not decided within timeout_s" is never raised before that time is over.
TimeoutNotEarly ==
    \A r \in Resolvers : outcome[r] = "timeout" => ended[r] >= Deadline(r)

\* While every poll is answered with the record, and polls and wake-ups take
\* less than a tick, a timeout hides only what the operator decided during the
\* last interval before the deadline: the pauses never leave a larger gap, and
\* what a poll was told in time is not lost.
NoDecisionMissed ==
    \A r \in Resolvers :
        outcome[r] = "timeout" /\ prompt[r] =>
            decision = "open" \/ decidedAt + Interval >= Deadline(r)

\* errors.py:105: "The deadline is enforced as a hard wall-clock ceiling", so a
\* wait is never ended by a decision made after its deadline.
DeadlineIsCeiling ==
    \A r \in Resolvers : outcome[r] \in {"approved", "denied"} => decidedAt <= Deadline(r)

\* Every resolver ends, even if the operator never decides and polls only fail.
ResolveEnds == \A r \in Resolvers : pc[r] = "check" ~> pc[r] = "done"
=============================================================================
