# Verification of the Clavenar Python agent SDK

TLA+ models of `src/src/clavenar_agent_sdk/`, the TLC runs that check them on
small instances, and TLAPS proofs of every safety property for every value of
the constants. `PROJECT.json` lists runs, mutants, findings, hazards, theorems and
the source lines behind every definition.

## 1. Inventory

The SDK sits between an application, its model provider (Anthropic or OpenAI)
and the Clavenar gateway. Provider answers contain tool calls; the SDK lets the
application act on them only as the gateway decides. A separate entry point
runs a tool under a signed authorization with a durable record.

| Component | State it keeps | Operations | What is hard | Correct means |
|---|---|---|---|---|
| Governed execution (`governed_execution.py`) | none between calls: intent, completion and receipt outbox live in the application's store; a call holds authorization and effect | `execute_prepared_tool`, `execute_prepared_tool_sync` | concurrent calls with one id, crashes between intent, effect and completion, cancellation, writes that outlive their call | one effect per id, under its durable intent, recorded truthfully, reported consistently |
| Decision transport (`transport.py`) | attempt counter, idempotency id | `inspect_tool_use(s)`, `poll_pending_once`, sync mirrors | retries against a gateway that may still decide on an abandoned attempt | one decision per turn, a verdict is final, it ends |
| Wrapper gate (`wrap.py`) | none between answers | `clavenar_wrap`, the patched `create` | failing inspections, callbacks interleaved with refusals, two modes | enforce fails closed, observe never blocks, callbacks are complete |
| Pending review (`errors.py`) | deadline of a wait | `ClavenarPending.resolve`, `resolve_sync` | deadline against slow polls, swallowed errors, a decision at the last moment | ends, not early, only as the operator decided |
| Stream gates (`stream.py`) | open tool-call buffers, ignored indices | `wrap_anthropic_stream`, `wrap_openai_chat_stream`, sync mirrors | malformed and interleaved blocks, limits, several choices in a chunk | no closing event of a call that was not allowed; nothing lost or reordered |
| Secure transport profile (`secure_transport.py`) | cached clients, closed flag, a lock | `async_client`, `client`, `token`, `reload(_sync)`, `close`, `aclose` | threads, rotation during a build, failure of one of two builds | reload is all or nothing, nothing leaks, closed is final |
| Response extraction (`_anthropic.py`, `_openai.py`) | none | `extract_tool_uses`, `extract_tool_calls` | one unreadable call or choice among readable ones | the answer is read completely or refused as a whole |
| Realtime helper (`realtime.py`) and its recipe | none | `inspect_realtime_function_call`; the pump that dispatches handlers | verdicts are values, nothing stops a pump that ignores one | a handler runs only for an allowed call |
| Framework recipes (`examples/langchain_recipe.py`, `llamaindex_recipe.py`) | none | a tool wrapped for an agent framework | the same | a tool runs on allow, or on an approved review |
| Options, developer mode | none | configuration, rendering | - | - |

Interactions: `wrap.py` and `stream.py` call the decision transport and raise
its refusals; a refusal that parked the call carries a closure over
`poll_pending_once`, which `resolve` calls. The transport and the poll take
their HTTP client and token from a secure transport profile if there is one.
Governed execution uses its own HTTP request and the application's store,
executor, recoverer, verifier and signer. A patched `create` hands a streamed
result to `stream.py` and any other to the extractors.

## 2. Plan

Modules, the most important behaviour first. All are written; 7 lists the proofs.

1. `GovernedExecution`, with the abstract `ExecutionContract`, its invariant
   (`GovernedExecutionProofs`) and its refinement (`GovernedExecutionRefines`);
   `MCGovernedExecution`: symmetry for TLC.
2. `PendingResolve`.
3. `Inspection` over `Extraction`: the wrapper gate, the Realtime pump and the
   wrapped tools over the decision transport.
4. `SecureTransport`.
5. `Stream`, shared by `AnthropicStream` and `OpenAIStream`; `StreamGates`
   composes them; `MCStreamGates`: symmetry for TLC.
6. `HeldGate`, the abstract gate that `StreamGates` and `Inspection` refine.
7. A module of proofs per component: `SecureTransportProofs`,
   `PendingResolveProofs`, `InspectionProofs` and `StreamGatesProofs`, the last
   two with their refinements of `HeldGate`. Done: every safety invariant,
   action property and refinement that a passing run checks has a theorem.
   Liveness stays with TLC (section 5). The hazards of `PROJECT.json` that no
   property covers carry the reason in their notes.

There is one passing run per module that can be run (two for governed
execution) and one run per disagreement with the documents that is listed as a
finding. Two lesser ones, the callbacks of a refused turn and a decision made
during the last sleep of a wait, are described in section 3.

## 3. Modules

### GovernedExecution

Every `t \in Calls` is one call of `execute_prepared_tool` or its synchronous
form; a retry after a crash is another call that loads the store later. `pc` is
where the call is, named after what it waits for:

| `pc` | source (`governed_execution.py`) |
|---|---|
| `load` | `load_execution`, 171 |
| `checkCompletion` | `_recovered_completion_async`, 175 |
| `checkIntent`, `recover` | stored intent and recoverer, 176-184 |
| `authorize`, `verify` | request with retries, validation, verifier, 186-188 |
| `intend`, `execute`, `executing` | intent commit, executor call, 189-191 |
| `sign`, `complete` | the two waits of `_complete_async` |
| `signCancelled`, `completeCancelled` | their second wait after a cancellation, 705-709 |

`intent`, `completion` and `outbox` are the durable store; `writes` are
completion writes that were issued and not yet settled, which is how a shielded
task or the daemon thread of `_critical_sync` outlives its call. `invoked`
counts executor calls per id, `wire` holds effects requested from the provider
and not yet applied, `effects` those applied. Bodies are opaque; an
authorization has a grade that says which of the code's checks it would fail.

What the environment may do, and what it may not:

- `commit_intent` and `commit_completion_and_enqueue_receipt` are one
  transaction each (protocol docstring, line 94). The intent may be durable and
  the call not learn it (`CommitIntentUnheard`). `ExclusiveIntents` says that
  the store refuses a second intent of one id; the safety results depend on it
  and the run `ge_overwriting_store` shows why.
- The provider applies each request at most once but does not deduplicate by
  idempotency id: the worst case. The recoverer tells the truth about effects
  that were applied; it may also find nothing although one is coming.
- The verifier refuses every forged authorization and may refuse a genuine one.
- `authorization_id`s are unique per call (`auth.call`).
- A cancellation is delivered where the code awaits; between the intent's
  commit and the executor call there is no await.
- A store that silently ignores a second completion (reports success and keeps
  the first) is not modelled; `KeepFirstCompletion` refuses it instead.
- Requests and options that fail validation raise before anything happens, so
  `Init` holds only valid ones. A signer may hand a completion to a call that
  then times out; the signature is dropped, as in the code.
- On Python 3.10 `asyncio.TimeoutError` is not the builtin one; the model
  follows 3.11 and later.

`Cancellable = FALSE` (the synchronous entry point) has a subset of the
behaviours with `TRUE`, so the runs use `TRUE`; the proofs cover both.

`ExecutionContract` is what the owner of an id is promised: a ledger entry that
goes new, intended, applied, recorded, and answers that repeat a recorded entry.
`Contract` in `GovernedExecution` maps it: the stage from completion, effects and
intent, the grant from the intent, the work from the effect, the answers from the
outcomes of successful calls.

### PendingResolve

`resolve` as a state machine over a clock: `check` is the loop condition
(errors.py:127), `poll` the awaited poll, `sleep` the shortened sleep. The
clock may advance in every state, so slow polls and a slow scheduler are
included. `PollAnswered` is what the gateway or the network gives; a view is
read at one moment and delivered later. The operator decides once. Ticks are
coarser than the resolution of the event loop's clock, so a sleep never ends
early. `FairSpec` assumes that each poll comes back; the transport bounds it by
its operation timeouts together with the response size limit.

The deadline bounds the start of polls (`PollsPaced`). The docstring of
`resolve` calls it "a hard wall-clock ceiling", which it is not: a poll that
began before it is awaited without a limit of its own and its answer counts,
even if the operator decided after the deadline (`DeadlineIsCeiling`, refuted by
`pr_late_answer`).

Nor does the wait see every decision made in time: no poll follows the last
sleep, so a decision during that sleep is reported as "not decided within" the
timeout. `NoDecisionMissed` says that this is all: while gateway and scheduler
keep up, a timeout hides only a decision of the last interval before the deadline. The
history variable `prompt` says that they kept up: every poll was answered with
the record of the request, and no tick passed while a resolver was anywhere but
in its sleep. The property does not depend on what is done with an answer that
comes after the deadline; a `resolve` that ignored it would satisfy it as well.

### Extraction and Inspection

`Extraction` says which provider answers can be read. An answer is a function
from choices to their shape, the number of calls, whether the choice declares
calls, and whether one of them cannot be normalized; an Anthropic answer is one
choice. One part that cannot be read makes the extractor raise.

A turn (`t \in Turns`) is such an answer on one of three surfaces. On `create`
it goes through extraction (wrap.py:200-244), one atomic decision with retries
(transport.py:144-212) and the loop of callbacks and refusals
(wrap.py:247-313). On `realtime` it is one function call that the pump
(examples/openai_realtime_recipe.py:87-127) dispatches or answers for. On
`tool` it is one call of a tool wrapped as in the LangChain and LlamaIndex
recipes; these drop the verdict and run, which `RunTool` models and `in_recipe`
reports. The gateway is external: it takes a submission at any time after it
was sent, decides once per idempotency id and repeats that decision. Answers to
an attempt that was given up are dropped with its connection. Hooks are always
set; not setting one is the same without the counter. Callbacks and refusals
alternate (wrap.py:266-276), so a refused turn is reported up to the call that
raises, and `ReportedInFull` promises a callback per call for the other turns
only; options.py:56-57 promises one "per inspected tool_use [...] before any
deny→raise translation".

### SecureTransport

Threads perform operations of one profile one after another. `lock` is `_lock`;
critical sections that build no client are single steps, and a build is split
where it reads the CA bundle and where it reads the identity. `clients` numbers
every client ever built with the generation of the files it read; `hand` is
what a thread keeps in local variables, which is what it will use or close
after the lock was released. An operator replaces the CA bundle and the
identity one after the other; certificate and key are one file of the model,
because a pair that does not match is refused. A request follows
transport.py:190-207: token, client, use. The client it took may be closed by
then; httpx then raises and the attempt fails as `ClientUnusable`. Closing a
client always succeeds, and `NoLeak` holds under that assumption only: a close
that raises, or is cancelled, in the middle of a reload is a hazard of its own
(secure_transport.py:108) and outside the model. `FreshAfterReload` accepts a
client built from the CA bundle before a rotation and the identity after it; it
says that no such client outlives a reload begun after the rotation.

### The stream modules

`Stream` has the variables and what both wrappers share: decisions, refusals,
errors of shape, the end. `AnthropicStream` and `OpenAIStream` have one action
per kind of event and outcome; `StreamGates` is their disjunction, since a
wrapped client has one provider. The synchronous wrappers differ only in never
being cancelled.

A generator is `upstream` (waits for the provider), in a `chunk`, has calls to
`inspect`, waits for a decision (`decide`), or has given its event to the
application (`yield`). `bufs` and `ignored` are the code's; `sent` is how the
application assembles the same calls from the events it gets, so the two can
differ, and the properties compare them. `held`, `submitted` and `approved`
belong to the event in hand. Fragments of arguments have unit size, so a call
is a slot and a length; an inspected call that is shorter than the one the
application has would show. JSON that cannot be parsed, a missing name and a
callback that raises are choices. A decision is one step: its retries are
`Inspection`'s.

The application acts on a call at `content_block_stop` or at `finish_reason`
`"tool_calls"`, which is what stream.py:9-13 assumes. `stream_unheld` shows what
an application that acts on any end of a choice would get.

### HeldGate

Grants, releases and the end of a surface: in enforce mode only granted calls
are released, and a surface that has returned or raised releases nothing more.
`StreamGates` maps the approved and the actionable calls of the event in hand,
which `Resume` resets; `Inspection` maps each turn, where the Realtime pump
counts as enforcing and the wrapped tools, which do not gate, as observing.

## 4. Runs

| Run | Question | Bounds |
|---|---|---|
| `ge_async` | safety and refinement of concurrent calls with one id | 3 calls, 1 id, 2 bodies, 1 attempt |
| `ge_deadline` | durable outcomes, finalization ends | 2 calls, 2 ids, 2 executors, 2 attempts |
| `ge_overwriting_store` | violated: one executor call per id without an exclusive store | 2 calls, 1 id |
| `ge_late_write` | violated: persistence is bounded by the deadline | 2 calls, 1 id |
| `pr_resolve` | the wait ends, not early, as decided, at the promised pace, and hides only a decision of the last interval | timeout 5, interval 2, clock to 9 |
| `pr_late_answer` | violated: the deadline is a ceiling for what ends the wait | the same |
| `in_gate` | fail closed, one decision, complete callbacks, a gate on each surface, it ends | 1 turn, 2 choices, 2 calls, 3 attempts |
| `in_observe` | violated: observe never blocks | 1 turn, 1 attempt |
| `in_recipe` | violated: a wrapped tool runs only if allowed | 1 turn, 1 attempt |
| `st_profile` | nothing leaks, closed is final, reload is atomic and takes effect, the lock is given back | 2 threads, 4 operations, 1 rotation |
| `stream_gates` | what is closed was inspected as shown, a clean end, nothing silent, limits, a gate | 2 blocks or choices, 2 tools, 2 buffers, limits of 2 and 3 fragments |
| `stream_unheld` | violated: every call is inspected before the caller sees it | the same |

Why the bounds are enough. Three calls are the least in which one crashes after
its effect and two others recover it at the same time; ids do not interact, so
one id suffices where calls must collide, and a second one is used where a call
must not read another id's record. Two bodies tell a modified payload from the
requested one. Two attempts exercise retry and exhaustion. Five ticks with an
interval of two give three polls and a last sleep shorter than the interval.
Waits do not share state except the operator's decision, and turns share only
the counter of ids, so one of each is enough; two calls are the least at which
a refusal separates siblings, and two choices the least at which one can be
read and the other not. Two threads are all that meet at a lock, and four
operations let one create both clients, the other reload or close them, and a
request run across it. Two slots more than buffers reach the limit of buffers;
the limit of one call (2 fragments) and that of all (3) can each be exceeded
first; three open calls at the provider are one more than the wrapper buffers.
Streams are not bounded in length. Blocks and choices are symmetric: no action
tells them apart. Deadlock is not checked where every call, wait, turn, stream
or budget of operations ends and then nothing happens.

Fairness. `ge_deadline` assumes only that a deadline that has passed is acted on
(`WF` of `FinalizationTimeout`), which the event loop or `Future.result` does;
nothing is assumed of signer, store or callers. No liveness is claimed for the
authorization request: it reads its response without a limit of its own.
`pr_resolve` assumes that the clock advances and a poll comes back. `in_gate`
assumes that a turn goes on when it can, in particular that an attempt times out.
`st_profile` assumes that a thread goes on with its own steps; the token
provider and requests may hang forever. The stream runs state safety only: a
generator runs when the application asks, and the provider may never answer.

The disagreements the violation runs show are quoted in `PROJECT.json` under
`findings`, each with its source and document line.

## 5. Proofs

Each component has a module of proofs. A theorem holds for every value of the
constants that satisfies the named assumptions of the module it extends; these
are evaluated by TLC in every run. Each inductive invariant was given to TLC as
an invariant before it was proved.

| Module of proofs | Theorems |
|---|---|
| `GovernedExecutionProofs` | `TypeCorrectness`, `AtMostOnce`, `AuthorizedEffects`, `TruthfulCompletions`, `DurableOutcomes`, `AgreeingOutcomes`, `AdvancingRecords` |
| `GovernedExecutionRefines` | `Refinement` (of `ExecutionContract`) |
| `SecureTransportProofs` | `TypeCorrectness`, `NoClientLeaks`, `CacheIsUsable`, `CloseIsFinal`, `CredentialsAreFresh`, `ReloadIsAtomic` |
| `PendingResolveProofs` | `TypeCorrectness`, `DecisionsAreFaithful`, `PollsArePaced`, `TimeoutIsNotEarly`, `TimeoutMissesNoDecision` |
| `InspectionProofs` | `TypeCorrectness`, `ReleasesAreAllowed`, `DecisionsAreSingle`, `ReportsAreComplete`, `VerdictsAreFinal`, `TurnsAreGates` (refines `HeldGate`) |
| `StreamGatesProofs` | `TypeCorrectness`, `BuffersAreBounded`, `ClosedCallsAreAllowed`, `EndsAreClean`, `ObservationMissesNothing`, `StreamsAreGates` (refines `HeldGate`) |

### Governed execution

Any sets of calls, ids, bodies and executors, any number of attempts. `IInv` is
`TypeOK` and five parts. `OnceInv`: an id without intent was never executed, and
at most one call stands at `execute`, with a count of zero; `EffectAtMostOnce`
alone is not inductive, because it does not say that a call about to execute is
the first. `Held`: what a call holds was checked and, from the commit on, equals
the stored intent. `Current`: what a call loaded is still true. `Answered`: what
a call returned is durable. `RecordInv`: intents, effects, receipts and
completions fit together.

The theorems that rest on `IInv`, and `Refinement`, assume `ExclusiveIntents`.
That is a hypothesis of the theorems and not of the model, and it is needed: with
`ExclusiveIntents = FALSE` TLC refutes `EffectAtMostOnce`, `EffectsAuthorized`,
`CompletionTruthful` and `OutcomesAgree`. What the SDK guarantees over any store
is `TypeCorrectness` and `DurableOutcomes`, from the smaller invariant
`StoreInv`: what a call checked is its own (`Sound`), and a completion it loaded
or was told of is in the outbox (`Queued`), which nothing removes.

`Refinement`: initial states map to initial states, and every step under `IInv`
maps to a contract step or a stutter.

### Secure transport

Any set of threads, any number of operations and rotations. `NoLeak`,
`CachedUsable` and `ClosedIsFinal` are proved together (`Owned`), with three
parts that make them inductive. `Held`: a thread outside the operations that
carry clients has none in hand. `UnderLock`: what a build found in the cache when
it took the lock is still there when it stores its client, so storing it drops
none. `Disjoint`: a client in the hands of a reload or of a close is cached
nowhere and in no other hands, so closing it closes nobody's client.
`FreshAfterReload` needs `Generations`: the cache is at least as new as the last
reload promised, and a build that has read one of the files when a rotation comes
is new enough for what it was asked (`Sees`), not necessarily the newest.
`ReloadAtomic` follows from both.

### Pending review

Any number of waits, any positive timeout and interval. `Clock`: what happened
is not in the future. `Paced`: a resolver at `check` or `sleep` has waited an
interval for each poll it made, or has no time left; `PollsPaced`, which bounds
the number of polls, is not inductive without it. `Truthful`: a reply that
carries a decision carries the operator's. `Punctual`: while gateway and
scheduler keep up, a poll ends in the tick in which it began, a pause lasts an
interval at most, and no decision had been made when the last poll began
(`Covered`); `NoDecisionMissed` speaks of the end of a wait only and needs this at
every point before it.

### Inspection

Any number of turns and attempts, any width of an answer, any finite set of
choices (`ExtractionAssumption`: an answer's choices are a list in a response
body; the callbacks could not be counted otherwise). `Stage` says what was
extracted, sent, received and reported where a turn stands; `Justified` says the
same of how it ended; `Allocated` says that an idempotency id belongs to one turn,
which carries the step from "the gateway decides once per id" to
`SingleDecision`. `TurnsAreGates` maps every turn to a gate of its own.

### Streams

Any sets of blocks or choices and of tools, infinite ones included, and any
limits. `Bounded` says that the slots with a buffer and the buffered fragments
are finite as well as few, since a cardinality bounds nothing else. `Assembled`:
what the application has of a call is what the buffer has of it, except where an
error was reported or the inspection of the choice is due. This is what makes
`ClosedOnlyIfAllowed` provable: the decision is taken on the buffer, and the
property is about the application's copy. `Accounted`: a call that the event in
hand completes was submitted with these arguments, or is about to be, or has an
error. `Strict`: enforce mode reports nothing and goes on only after an allow.
`Filled`: a buffer never exceeds the limit of a call. These hold while the
generator lives (`Tracked`); afterwards only the end matters (`CleanEnd`).
`StreamAssumption` asks for a positive limit of one call, as the code has, that
is no larger than the model's bound on fragments, so that the bound does not
stand in for the limit.

### Only model-checked

Liveness under fairness: `FinalizationEnds` (`ge_deadline`), `ResolveEnds`
(`pr_resolve`), `TurnEnds` (`in_gate`), `LockReleased` (`st_profile`). It is out
of the prover's reach. The six violations are shown by TLC.

## 6. Not modelled

- Client detection and patching (`clavenar_wrap`, the marker, the refusal of
  `stream()` helpers): it runs before any call. Two threads that wrap one client
  at once, and a second wrap with other options, are listed as hazards.
- The encoding of requests, size limits, header rules and the parsing of
  verdict bodies, which appear as accepted or refused; a transport error of
  either kind has the two consequences the code distinguishes, retry or not.
- Option validation, a precondition of the initial states.
- Options, developer mode and re-exports: data and rendering.
- Cryptography, which is the grade of an authorization.
