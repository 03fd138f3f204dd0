# PoolGate in TLA+

PoolGate pools several API keys of one LLM provider behind one service object. A
request takes a key from the pool, calls the provider with it, and reports the
outcome back, so that overloaded keys rest, bad keys are taken out, and a failed
request is tried again on another key. This directory holds TLA+ modules of that
machinery, TLC configurations that check them on small instances, and proofs, checked
by TLAPS, that the main properties hold for every number of callers, keys, slots and
retries.

Paths below are relative to `src/poolgate/` unless they start with `src/`.

```
tlc -workers 2 -config GroqServiceBooks.cfg MCGroqService.tla     # one run
tlapm RequestSchedulerProofs.tla                                  # one proof module
```

## The system

| part | code | state | operations | shared with |
|---|---|---|---|---|
| API key state | `pool/key_pool.py` `APIKeyState` | status, `cooldown_until`, `active_requests`, `consecutive_failures`, `consecutive_429s`, statistics | `record_request_start/_end`, `record_failure`, `mark_disabled`, `mark_failed`, `reset_cooldown`, each under the key's own lock; `is_available` and `is_cooling_down` without it | scheduler, services, operators |
| Scheduler | `pool/scheduler.py` | list of keys, strategy, `_sync_lock` | `acquire_key` under `_sync_lock`; `release_key`, `mark_key_failure`, `mark_key_disabled` without it | every thread and task of a service |
| Strategies | `pool/strategies/*.py` | cursor or current weights | `select(candidates)` under `_sync_lock` | scheduler |
| Rotation loop | `services/provider.py`, `services/gemini_provider.py` | attempt, current key | `_run_with_rotation`, its async and generic twins | scheduler, books |
| Streams | same | `first_chunk_yielded` | `stream`, `async_stream`; generators, which their reader may drop at any chunk | scheduler, books (Groq only) |
| Sessions | `persistence/session.py` | sessions by id, expiry, totals | `get_or_create`, `get`, `expire_old_sessions` | all requests |
| Tracking | `tracking/*.py` | lifetime totals, day buckets, rolling windows | `record_success`, `record_failure`, `load_days` | all requests, persistence |
| Persistence | `tracking/persistence.py`, `persistence/snapshots.py` | JSON or SQLite files, JSONL journal | `save_all`, `load_all`, journal append | tracking, other processes |
| Throttling | `throttling/*.py`, `utils.py` | quota mirror, sliding counters | header updates, `consume` | services |
| Key pool | `pool/key_pool.py` `KeyPool` | the list of keys | add, remove, enable, disable, mark | operators |
| Retry policies | `services/retry.py` | none | error classes, tenacity policies | services |
| Batches | both services | a semaphore | one task per item | rotation loop |
| SDK clients and capabilities | `providers/`, `capabilities/` | none | one call each; which errors it raises, whether it reports tokens, whether it carries a timeout | rotation loop |
| Health, configuration, logging, schemas | the other files | none that protocols depend on | | |

How they interact: a request resolves its session, then loops. In each attempt it calls
`acquire_key` (global lock, reads of all keys, one selection), calls the provider, and
calls exactly one outcome handler of the scheduler (no global lock, one key's lock). At
the end it writes usage totals, session totals and journal, one after another. The usage
trackers also count by day; `flush_tracking` saves the day buckets to files that the next
process loads. Structured requests run the loop again when an answer does not parse;
batches run it once for every prompt, under a semaphore.

What makes it hard:

* **Reads without the lock that protects them.** `acquire_key` holds `_sync_lock`, but
  outcome handlers do not take it. Status, cooldown and slot count of a key are read one
  by one while they change, and the slot is taken several reads later.
* **Checks separated from acts.** The reset of an expired cooldown; the circuit breaker's
  counter, read after the key's lock was left.
* **Late outcomes.** A call ends long after its key was rate limited, failed or disabled
  by another one.
* **Ways out that skip a handler.** Cancellation and dropped generators pass by
  `except Exception`; `finally` runs after `except`.
* **Retries of work partly done**, above all streams that have handed over output.
* **Several books**, written one after another from several ways out of a loop, and
  several files, saved one after another while they change, by a process that may crash.
* **Algorithms that remember**, fed with a list that changes under them: turn-taking
  strategies, sliding windows with timestamps out of order.

`PROJECT.json` lists these places line by line under `hazards`, with the properties
aimed at each.

## The modules

```
APIKeyState <- RequestScheduler <- RequestSchedulerHistory <- RequestSchedulerHistoryProofs
      |            |   |    \----- (implements) KeyLeases            |
      |            |   \<- RequestSchedulerProofs <------------------/
      |            |              \<---------------\--------------\
      |            \<- ServiceRotation <- GroqService <- GroqServiceProofs
      |                                <- GeminiService <- GeminiServiceProofs
      \<- KeyPool <--\
SchedulingStrategies <- MCPoolParts <- PoolPartsProofs
Throttling <---------/

UpstreamErrors <- ServiceRequests <- ServiceRequestsProofs
TrackingStore --- (implements) DurableCounts
      \<- TrackingStoreProofs

FiniteSums: lemmas used by the proofs of GroqService, ServiceRequests and MCPoolParts
```

`MC*` modules add the symmetry set of the callers, or put small parts side by side.

**APIKeyState** has one operator per method of the class; each is one step, as the
method holds the key's lock throughout. Time is the number of ticks a cooldown has left,
so `now < cooldown_until` is `cooldown > 0`. `consecutive_failures` and
`consecutive_429s` saturate at `CounterCap`, at or above the breaker's threshold: the
code only compares the first with the threshold and the second with nothing but a
report. `consecutive_429s` is zero exactly after an outcome that was no 429, which
the breaker's property needs. Tokens, latencies and request rates are left out: they
influence scores and reports only.

**RequestScheduler** gives each caller a `pc`:

| `pc` | code (`pool/scheduler.py`) |
|---|---|
| `idle` | outside the scheduler |
| `scan`, `slots` | `_gather_candidates`, first comprehension: `is_available` reads status and cooldown, then the slot count; then the second look at the status (54-58) |
| `cool`, `status`, `reset` | the pass over expired cooldowns: check, check, `reset_cooldown` (59-61) |
| `rescan`, `reslots` | the second comprehension (62-64) |
| `select` | the strategy's choice and `record_request_start`, still under the lock (73-88) |
| `raise` | `NoAvailableAPIKeyError` (66-72) |
| `calling` | the provider is called with `held` |
| `check`, `trip` | `mark_key_failure` after `record_failure`: read of the counter, `mark_failed` (116-126) |

Outcomes are actions: `ReleaseKey`, `MarkRateLimited`, `MarkFailure`, `DisableKey`, and
`AbandonCall` for a call that reports nothing. The variable `lost` counts slots that no
handler gives back (`mark_key_disabled`, abandoned calls); it is a history variable, read
by no action. Any candidate may be selected, which covers all six strategies and
`set_strategy`.

The status and cooldown test of one key is one step, the slot test and the second
status test another. Splitting them further adds nothing: the slot count of a key only
grows under the lock that the reader holds, and every other change between two of these
reads is also reachable between two keys' steps or before the first.

**KeyLeases** is the promise to callers: each key is a counting semaphore; a slot is
leased only while one is free, and given back at most once per lease, or dropped.

**RequestSchedulerHistory** adds variables that only watch (which keys were usable during
the whole search, how much cooldown the last 429 calls for, failures that are no 429s),
for properties that relate a state to earlier ones.

**ServiceRotation** is the retry loop common to both services. Every scheduler step in it
is an action of RequestScheduler taken together with what the loop does. `stage` says
where the request is: `new` (session not resolved), `attempt` (in the loop), `account`
and `session` (before the first and the second record), `finally` (Gemini streams),
`done`. `result` is what its caller gets. A session may be absent, open or expired.
`retried` follows the code: for a success `attempts > 1`, for a failure a constant of the
configuration. With `Strategy = "priority_failover"` the first candidate of the list is
taken; with `"any"`, any.

**GroqService** adds streams: `StreamYields` sets `first_chunk_yielded`, a failure before
it is retried, after it raised. **GeminiService** adds single-attempt streams whose
`except` clause marks the key and whose `finally` clause releases it again, in a step of
its own. A stream that failed is `broken`, one whose key was refused `refused`: only the
former gives its slot back twice. Its streams touch none of the books.

**UpstreamErrors** is the path of an exception: class names and status codes go through
the provider client's `_handle_sdk_error`, then through the `except` clauses of the loop
(`Outcome`), or through the predicate and the classifier of the fixed-key retry policies
(`IsRetryable`, `Classify`). It has no state; errors are enumerated, since what the SDKs
raise is external.

**ServiceRequests** is everything around the loop. An entry point is a record: the service,
its steps before the loop in order (the checks that may reject a request, and where the
session is resolved among them), its client, and the number of rounds if it parses the
answer. The methods of both services come to twelve such records; they differ in
order, and that decides whether a rejected request leaves a session behind. Then come the
attempts (`Responds`, `Fails`, `NoKey`, `Cancelled`), the books (`RecordUsage`,
`RecordSession`), the repair rounds (`Parse`), the batch (`BeginBatch`, `TakePermit`,
`EnterItem`, `ItemEnds`, `BatchReturns`, `CancelBatch`), sessions that expire, and
`RetryPolicy.execute` (`UsePolicy`, `PolicyReturns`, `PolicyFails`). An item that ends sets
the `success` flag of its `BatchResult` by what `async_invoke` did (`Success`), and the
summary counts flags; `heard`, a history variable, is the set of items that upstream
answered. An attempt is one step and has no key: that part is ServiceRotation's.

**TrackingStore** is `tracking/` and its files. A figure stands for what one lock section
of a tracker counts. A request thread counts usage, tokens in, tokens out, and account, one
after another, each under the day it reads there, so a request may straddle midnight.
`flush_tracking` is a thread with a `phase`: `export` under the tracker's lock, `acquire`
the backend's lock, `write` a temporary file, `replace` the old one; or `WriteFails`. The
process may crash before any step; `Restart` is the constructors' loading. Groq and Gemini
share the directory under different file names. **DurableCounts** is the promise: live and
saved values; a save moves saved ones forward and never beyond the live ones; a crash
leaves the live ones where the saved ones are.

**KeyPool** is `KeyPool` with operators and running calls: adding (with or without an id),
removing, enabling (two writes without the key's lock, two actions), disabling, marking
unhealthy, taking a key, the four outcomes, the reset of cooled-down keys. `drift` is the
difference between slots taken and calls under way: refused calls raise it, `mark_unhealthy`
lowers it, and no action reads it.

**SchedulingStrategies** has the six strategies as operators on the candidates of a
selection, with what two of them remember (`next_index`, `current`). Any set of keys with
a free slot may be the candidates of the next selection. Services call `acquire_key` with
the model of the request, and the scheduler puts that model's requests per minute in the
place of `max_rpm_per_key` (`pool/scheduler.py:73-76`), which is the weight of every key
without a limit of its own: each selection has a `limit` from `Limits`, so weights and
capacities change from one to the next. A strategy set by name starts afresh, an instance
keeps what it remembers (`SetStrategy`). `Weights` are integers, as limits are; the
attribute `weight`, which nothing in the repository sets, is left out.

**Throttling** is a window of timestamps with threads that read the clock before the lock
and check before they record, in its two variants (`utils.py`,
`tracking/rolling_window.py`), and the quota mirror. The rolling window reads the wall
clock, which may be set back (`StepBack`), by no more than the window keeps entries beyond
the longest span that it counts; `latest`, a history variable, is the latest time shown.
**MCPoolParts** runs these three as alternatives: they share no state.

## What the runs show

| run | bounds | states | shows |
|---|---|---|---|
| `RequestSchedulerTwoKeys` | 2 callers, 2 keys of 1 slot, threshold 2 | 536k | `TypeOK`; `CapRespected`: a free slot seen several steps before it is taken never lets a key exceed its cap; `NoFalseExhaustion`: `NoAvailableAPIKeyError` is honest although the list is read key by key; `ImplementsKeyLeases` |
| `RequestSchedulerCrowd` | 3 callers, 1 key of 2 slots, cooldown 2, fairness | 42k | `SlotAccounting`, `BreakerComplete` (no missed trip), `OutOfServiceForGood`; `AcquireCompletes`; `RateLimitedPoolRecovers` |
| `GroqServiceBooks` | 2 requests, 2 keys, 1 retry, threshold 1, fairness | 672k | `GroqTypeOK`, `BooksAgree`, `SlotsComeBack`, `OutputDeliveredOnce`, `RequestsEnd` |
| `GeminiServiceStreams` | 3 requests, 1 key of 1 slot, 1 retry | 369k | `StreamsLeakNothing`: a stream leaves no slot behind, however it ends; `OverloadBounded`: a key exceeds its cap by no more calls than streams have failed on it |
| `TrackingStoreDurable` | 2 services, 1 recorder, 1 flusher, 2 days, 1 request, fairness | 41k | `StoreTypeOK`, `FlushedIsDurable`, `ImplementsDurableCounts`, `FlushEnds`: what a flush promised survives crashes and failing writes |
| `ServiceRequests` | 1 caller, a batch of 2 with 1 permit, 1 retry, 1 repair, 1 expiry, fairness | 510k | `RequestsTypeOK`, `BilledAreBooked`, `ExpiredOnce`, `FinalErrorsEnd`, `PermitsAccounted`, `BatchReportsAnswers` (a prompt counts as a success exactly if upstream answered it), `BatchEnds` |
| `PoolParts` | 2 ids and 2 calls on each; 3 keys, one of weight 2, the others of 1 or 3 by the request; 2 threads and a limit of 1 | 796k | `PartsTypeOK`; pool: `CapExceededOnlyByOperator`, `IdleKeysAvailable`, `EnabledOnProbation`, `OperatorAloneRestores`, `FreshIdsReplaceNothing`; strategies: `NoCandidateStarves`, `WeightsBalance`; windows and quota: `WindowForgetsNothing`, `BudgetOvershoot`, `QuotaStaysExhausted` |

Five more runs end in a counterexample, each against a sentence of the repository:

| run | what happens | what is said |
|---|---|---|
| `RequestSchedulerCooldown` | A searcher sees an expired cooldown; a late 429 starts a new one; the searcher resets it. The key is handed out at once. | `src/.env.example:43` "Seconds a key is held in cooldown after receiving a 429." |
| `RequestSchedulerBreaker` | One 429 and one other failure mark a key FAILED at threshold two. | `src/.env.example:47` "Consecutive non-rate-limit failures before a key is marked FAILED." |
| `GroqServiceRetrySameKey` | Under `priority_failover`, a retry takes the key that has just failed though a backup is available. | `services/provider.py:609` "each retry should acquire a \*different\* key" |
| `GeminiServiceOverload` | A failed stream gives its slot back twice, the second time another request's: the key then serves more calls than its cap. | `src/.env.example:121` "Max concurrent in-flight requests per key." |
| `TrackingStoreFlushRace` | Of two threads that flush, the one that exported first writes last and replaces the newer file; after a crash, counts that a completed flush had saved are gone. | `services/provider.py:211` "Call this periodically or before process shutdown to avoid losing in-memory data." |

The last one needs two threads; with one, `FlushedIsDurable` holds (`TrackingStoreDurable`).

More divergences show in the modules without a run of their own:

* **The limit on requests per minute is not enforced.** `SelectKey` has no guard on `rpm`
  (but the model's own bound `MaxRequests`), because `_gather_candidates` looks at status,
  cooldown and slots only (`pool/scheduler.py:54-64`) and every strategy picks one of the
  candidates: `max_rpm_per_key` ranks or weighs them and refuses none. A key is handed out
  beyond its limit as long as it has a free slot, until the provider answers with a 429.
  `src/.env.example:35` says "Max requests per minute per key before PoolGate applies
  back-pressure.", `:117` "Max requests per minute per key.", and `src/README.md:36`
  "sliding-window counters prevent 429s before they happen". No property mentions the
  limit: no step of the code maintains one.
* **Streams of the Gemini service are in no book.** The stream actions of GeminiService
  leave `books` alone, because `stream` and `async_stream` call neither `_record_success`
  nor `_record_failure` (`services/gemini_provider.py:597-676`); only `release_key` gets
  their tokens. `persistence/snapshots.py:56` says of the journal "Appends one JSON line per
  completed request", and `src/README.md:348` has `UsageTracker` answer "What did we send
  overall / today?". `BooksAgree` is about the Groq service.
* `CallDenied` concludes like the last attempt, so the message "All {attempts} attempt(s)
  failed." (`services/provider.py:708`) is raised after one attempt of several.
* `RecordSession` adds to the journal for successes only, where
  `persistence/snapshots.py:56` speaks of "one JSON line per completed request";
  `BooksAgree` and `BilledAreBooked` state what the code does.
* A response that lacks what the client reads raises, is retried as a failure of the key,
  and is in no book, though upstream bills it: in the model it is an error, not a response,
  and `BilledAreBooked` says nothing of it.
* google-genai raises `ClientError` for refusals and 429s, which the Gemini client does not
  recognise; the loop takes both for ordinary failures of the key.
* Audio and Gemini calls carry no timeout, whatever their `RequestConfig` says.
* Two processes on one data directory replace each other's files; only services of one
  process are modelled, as nothing in the repository promises more.
* A key that an operator marks unhealthy gives back a slot that nobody took, and even a
  disabled key comes back after that cooldown. `CapExceededOnlyByOperator` and
  `OperatorAloneRestores` name this operation as their exception.

Only the Gemini service breaks `CapRespected`; under GroqService it is a theorem, and
`OverloadBounded` says how far the Gemini service goes. What the code does lose is named as
an exception by the properties around it, and none of them would notice: slots of cancelled
and refused calls (`SlotAccounting`, `SlotsComeBack`, `IdleKeysAvailable`), a retired key that
a late 429 revives (`OutOfServiceForGood`, `OperatorAloneRestores` exclude keys with calls
under way), the effects of `mark_unhealthy`, and calls without a timeout. `hazards` in
`PROJECT.json` lists these without a property.

### Bounds, and why they are enough

* Two callers are needed for every race in the scheduler: a searcher and a call that ends.
  Three are used where two late outcomes must meet a third caller (`Crowd`) and where one
  failing stream takes the slot of a second request and a third overloads the key
  (`GeminiServiceOverload`, `GeminiServiceStreams`).
* Two keys make a pass over the list have a first, a last, and a gap between them; the
  theorems cover any number.
* One slot per key makes "full" frequent; two (`Crowd`) let outcomes on the same key race.
* A threshold of two separates one failure from a trip and lets 429s and failures mix;
  `GroqServiceBooks` uses one, so that a single request can lose both keys.
* One retry gives a first attempt, a last one, and a step from one to the next; one repair
  likewise. `ServiceRequests` has a caller that may use any entry point beside a batch of
  two prompts with one permit, so that an item always waits; its one expiry hits the
  session that several requests may name (`SessionExpires(Shared)`).
* `CooldownTicks` of one gives the states cooling and expired; two (`Crowd`) also a
  cooldown in its middle. `CounterCap` is the threshold, or one above it.
* In `TrackingStoreDurable` one request touches all three trackers in up to four steps, and
  two days let it straddle midnight; flushes, crashes, restarts and failing writes are
  unbounded. The counters' only comparison is larger or smaller, which one request shows.
* Three keys are the least for which a turn can be missed between two others. One has a
  limit of its own of 2, the others weigh 1 or 3 as the model of the request has it, so a
  selection may charge a key for weights that the next one does not give back. The bounds
  of `WeightsBalance` and `NoCandidateStarves` are in terms of the heaviest weight of any
  key and model, (N - 1) times it for N keys (`Reach`), and proved for any number of keys
  and any weights. A key that weighs at least w waits for at most 2 `Reach` / w
  selections: that is long where models differ much. With two keys, one selection
  at a limit of 60 followed by requests at 10 lets a candidate wait about six times, which
  is within 2 * 60 / 10. No bound in terms of the weights of one selection holds.
* A window of one tick, kept for two, under a clock of three lets every entry pass both
  cutoffs and the wall clock be set back by one; two threads suffice for out-of-order entries.
* Callers of the scheduler alone never stop, so nothing bounds those behaviours but the
  data, and its runs check deadlock, as does `PoolParts`. Requests of a service do end, and
  a store may be left alone for good: their configurations say `CHECK_DEADLOCK FALSE`.
* Callers are symmetric in the safety runs of scheduler and Gemini. Runs with liveness use
  no symmetry.

### Fairness

* `FairSpec` of the scheduler: weak fairness of a caller inside `acquire_key` and inside
  `mark_key_failure`, because a running thread is scheduled again and again. It assumes
  nothing of calls, which may hang, and nothing of who asks for a key, nor that the lock is
  granted fairly. `TimedFairSpec` adds that time passes. `RateLimitedPoolRecovers` is
  conditional on somebody asking again and again: nothing resets a key without a search.
* `GroqFairSpec` also assumes that upstream answers, because calls and streams carry the
  timeout of their `RequestConfig` and a timeout is an answer. For a stream this includes
  its reader: a generator that is neither read on nor closed keeps its slot, and its
  request does not end; the code has no guard against that. Weak fairness of `Progress`
  suffices for waiting on the lock because requests are finitely many and each acquires
  finitely often.
* `FairSpec` of ServiceRequests: bookkeeping, the steps of batch items and the end of a
  batch are fair; an answer is assumed only for calls that carry a timeout, which leaves out
  audio and all of Gemini. `BatchEnds` is therefore stated for Groq. Permits go to items in
  order, so weak fairness suffices.
* `FairSpec` of TrackingStore: weak fairness of a thread inside `flush_tracking`. A crash
  ends a flush as well.

## What is proved

Everything below holds for any finite set of callers and for all values of `NumKeys`,
`MaxParallel`, `CooldownTicks`, `FailureThreshold`, `CounterCap`, `Retries` and
`Strategy` allowed by the named `ASSUME`s of the modules (positive, and
`CounterCap >= FailureThreshold`). TLC evaluates these assumptions in each run.

**RequestSchedulerProofs**

* `TypeCorrect`. Invariant `TypeInv`: `TypeOK`, and whoever is calling or in the breaker
  holds a real key (else `keys[held[c]]` means nothing).
* `SlotsAccounted`, `CapHolds`. `CapRespected` is not inductive. The argument runs:
  only the caller inside the lock adds to a key's slots (`LockInv`); every candidate it
  has collected had a free slot when it was read, and still has one, as since then slots
  were only given back (`CandidatesInv`); hence `active_requests` never
  exceeds the cap (`WithinCap`); and calls in flight are at most `active_requests`
  (`SlotAccounting`). `SafeInv` is the conjunction of these with `TypeInv`.
  `SlotAccounting` needs finite cardinalities changing by one, from
  FiniteSetTheorems; the proof classifies steps into those that take, end, lose or leave
  alone a slot.
* `SchedulerImplementsKeyLeases`. Under the refinement mapping, a selection is an
  `Acquire` (by `CandidatesInv` there is a free slot), an outcome that gives a slot back
  a `Return`, a disabled key or abandoned call a `Drop`, everything else a stutter.
* `RetiredKeysStayOut`, for `OutOfServiceForGood`.
* `BreakerMissesNoTrip`, for `BreakerComplete`, which is inductive given the types: only
  `MarkFailure` brings a counter to the threshold with the latest outcome no 429, and it
  leaves its caller on the way to the check; only a 429 revives a retired key, and then the
  latest outcome is one.

**RequestSchedulerHistoryProofs**

* `ExhaustionIsReal`, for `NoFalseExhaustion`. The history watches the keys that are usable
  in every state of a search. Inductive invariant `SearchInv`: watched keys are usable now
  (`WatchedInv`); the pass that resets cooldowns leaves every watched key it has gone by
  ACTIVE; the pass after it finds all of them ACTIVE and has collected those it has gone
  by; so at `raise` none is left. It rests on `ByMethods` and `ActiveStays`: every step of
  anybody changes a key by one method of its state, and a method leaves an active key
  active or makes it unusable, in which case it is watched no more. Together with
  `SafeInv`, as the search reads slot counts too.

**GroqServiceProofs**

* `ServiceIsSchedulerClient`: every step of the service is a step of the scheduler or
  leaves it alone, so its theorems hold for the service: `ServiceRespectsCap`.
* `GroqTypeCorrect`: among others, no request goes beyond its last attempt.
* `StreamsDeliverOnce`. Inductive invariant `DeliveryInv`: callers search and call only
  within an attempt (`AttemptInv`); a request has either delivered nothing, with `first`
  unset, or has delivered from one attempt and is still in that attempt's call or out of
  the loop for good.
* `AllSlotsComeBack`. Inductive invariant `LeakInv`: a result is set only when the loop
  is over, and no slot is lost unless some request has a leaky result; with
  `SlotAccounting` the property follows.
* `OutcomesAreBooked`, for `BooksAgree`. Inductive invariant `BooksInv`: only a response or
  an exhausted loop gets a request to the books, and each total is the number of requests
  that have gone past the step that records in it. A step moves one request, which changes
  each of these cardinalities by at most one (`CountChange`), just as it changes the totals.

**GeminiServiceProofs**. This service breaks the scheduler's protocol, so nothing of its
safety comes from RequestSchedulerProofs but the types and the effects of single actions.

* `StreamsReleaseTheirSlots`, for `StreamsLeakNothing`. `PlaceInv` ties the scheduler's `pc`
  to the stage of the request. `SlotBound` is all that remains of the slot equation:
  `active_requests` is *at most* calls under way, plus slots lost, plus failed streams that
  have yet to release (`Releasing`), because the second release may have been clamped at
  zero or have taken somebody else's slot. `LossInv`: no slot is lost unless a call, never
  a stream, came to a leaky result.
* `OverloadIsBounded`, for `OverloadBounded`. That a slot is free when it is taken still
  holds (`LockInv`, `CandidatesInv`, `WithinCap`), as slots are only ever given back behind
  the searcher's back. What fails is the slot equation from below, and the inductive
  invariant says by how much: calls under way plus slots that a `finally` clause rightly
  owes (`Owed`: refused streams) are at most `active_requests` plus the failed streams
  that have released a second time (`GivenBackTwice`).

**PoolPartsProofs** has three parts, as MCPoolParts runs three machines side by side; it
ends with `PartsTypeCorrect`, since a behaviour of all is one of each (`PartsAreBehaviours`).

*The key pool*, for any number of ids and calls.

* The inductive invariant is `PInv`: the variables' shapes, and for each id `SoundAt(id)` -
  either nothing is there (no calls, no drift, no tripped breaker), or a key's state whose
  `active_requests` is calls under way plus drift and at most the cap, and whose failure
  counter is at the threshold if the breaker tripped. None of the properties below is
  inductive without the equation, and the equation needs the cap, since a search reads
  `active_requests` and not the calls. `Methods`, `SlotUse` and `Failures` are lemmas about
  what the methods of a key's state do to these; `OneIdStep` reduces a step to the one id it
  touches.
* From it: `PoolTypeCorrect`, `PoolCapHolds` (`CapExceededOnlyByOperator`),
  `IdleKeysCanBeTaken` (`IdleKeysAvailable`), and, as action properties,
  `EnabledKeysAreOnProbation`, `FreshIdsAreFree`, `OperatorsAloneRestoreKeys`.

*The strategies*, for any number of keys, any limits of their own and any finite set of
limits from which each selection has one. `SInv` is inductive.

* `WeightsStayBalanced`, for `WeightsBalance`. That no key is owed more than `Reach` is not
  inductive: what a key is owed grows with what the candidates it competes with are owed.
  `Balanced` bounds *every group* of keys: of N keys, a group of a is owed at most
  a(N - a) times the heaviest weight. When the winner is in the group, its loss pays for what
  the candidates of the group gained; when it is not, the group with the winner added
  and the group without its candidates give the bound (`GroupArithmetic`). A key
  is a group of one, and all but one key are a group too, hence both signs
  (`OwedWithinReach`). None of this compares two selections, so the weights of each may be
  its own: a selection adds and charges the same total (`ChargeKeepsBalance`).
* `TurnsComeAround`, for `NoCandidateStarves`. Under round robin, selections missed plus
  distance from the index are below N, as each selection that passes a candidate brings
  the index nearer (`RoundGoesOn`); under weighted round robin, selections missed times the
  least weight of the key are at most what it is owed plus `Reach` (`WaitBound`).

*The windows and the quota*, for any threads, window and limit. `TInv` is inductive.

* `WindowsForgetNothing`, for `WindowForgetsNothing`: a window is the record of all requests
  less a prefix that is all before the cutoff (`Suffix`) - though timestamps are out of
  order, eviction stops at the first entry that is young enough, and the wall clock may be
  set back: the cutoff that counts is the one of `latest` (`SuffixLater`). Hence both count the
  same (`SuffixCounts`, by a bijection).
* `OvershootIsBounded`, for `BudgetOvershoot`: requests counted plus threads that were
  granted one and have not recorded it (`Owing`) stay below limit plus threads.
* `ExhaustionLasts`, for `QuotaStaysExhausted`.

**ServiceRequestsProofs**, for any callers, batch size, permits, retries and repairs

* `RefusedKeysAreDisabled`, and `ValidationErrorsAreFinal`, by which the predicate and the
  classifier of the retry policies never contradict each other on validation errors: for
  all class names and status codes. `GroqErrorsReachTheirBranch`: a constant-level
  statement over the SDK's classes, so it is proved and in no run.
* `RequestsTypes` and `FinalErrorsEndHere`. Inductive invariant `RInv`: the variables' shapes
  and `Coherent` - a request has a result once it is over and not before, an answer only
  between loop and caller, and after a final error neither an answer nor an attempt to
  come. `FinalErrorsEndHere` needs the two theorems on errors, since the loop and the
  policies decide by predicates that do not mention what makes an error final.
* `PermitsAreAccounted` and `BatchesReportAnswers`. Inductive invariants `BatchInv`: permits
  and holders add up to the limit, before a batch all items are queued, after it all are
  reported; a reported item is flagged exactly if its request returned (`Flagged`), and the
  summary counts the flags (`Summed`). `HeardInv`: an item was answered exactly if its
  request has its answer or has returned, which no check, error, refusal or
  cancellation on the way may undo.
* `ExpiryIsReportedOnce`. Inductive invariant `ExpiryInv`: requests told of an expiry *plus*
  sessions whose expiry nobody has been told of are at most the expiries so far.
* `ResponsesAreBooked`, for `BilledAreBooked`, which is inductive given `RInv`; its last part
  is a sum over all sessions, of which a step changes one.

**FiniteSums** has what TLA+'s library lacks for sums over a finite set (`SumSplit`,
`SumAdd`, `SumParts`, `SumMonotone`, `SumOfSums`): the sum does not depend on the order of
its summands. The fold that defines it is recursive, and the library's induction
theorems cannot be instantiated here; `SmallestSet` replaces them. Of the subsets of a
finite set that lack a property one includes no other, as strict inclusion is
well-founded on them.

**TrackingStoreProofs**, for any services, recording threads, days and number of requests,
which lifts the run's bound of one request

* `StoreTypeCorrect`, for any number of flushing threads.
* `FlushedCountsAreDurable` and `StoreImplementsDurableCounts`, with at most one flushing
  thread (`OneFlusher`); with two, `TrackingStoreFlushRace` refutes the first. The inductive
  invariant is `DInv`, cell by cell: the files are never ahead of the memory; an exported
  buffer lies between the file it will replace and the memory, and covers what was live
  when the flush began; the trackers already written cover it too; while the process is
  down, nobody records or flushes. `FilesApart` says that no two services or trackers share a
  file. In the refinement, a lock section of a tracker is a `Count`, the replacement of a
  file a `Save`, a crash a `Crash`, everything else a stutter.

**Only model-checked**: the liveness properties `AcquireCompletes`,
`RateLimitedPoolRecovers`, `RequestsEnd`, `BatchEnds` and `FlushEnds`, since neither fairness
nor ENABLED can be handled by the prover. Every invariant and every action property of a
run that passes is a theorem; what the five counterexamples refute is not, of course, but
`FlushedCountsAreDurable` and `ServiceRespectsCap` show under which condition two of
them hold: one thread that flushes, and the Groq service.

## What is not modelled

* `SQLitePersistence`, which no service constructs, and `save_day`, which no service calls.
* Figures per model and per key: trackers count one figure per lock section; sessions one
  count; the journal is a number. Latencies, percentiles and hit rates feed reports and the
  score of `health_aware`, which may therefore pick any candidate.
* The key indices in the saved account history: a changed list of keys attributes history
  to other keys, but the code's state has no secret to compare.
* The translation of messages, schemas and tools in capabilities and clients: stateless
  text and data conversion.
* `services/health.py` counts statuses in a list it is handed. Configuration, paths and
  logging parse the environment and write text; the file names of `core/paths.py` are in
  TrackingStore. Schemas and exceptions are data definitions.
* Double failures of the bookkeeping itself: the writers of the journal swallow `OSError`,
  and no legal input makes the trackers raise.
* Calls under way with a key that is removed from the pool or replaced: they keep the old
  state, which nobody can reach through the pool any more.

## Plan

Done: scheduler and leases, retry loop, both services, entry points with sessions, repairs,
batches and retry policies, tracker files and their refinement, key pool, strategies,
windows and quota; proofs of all invariants, action properties and both refinements.

What is left:

1. Two more abstract specifications: a fair queue for the strategies that take turns, a
   counting semaphore for the batch, each refined by the module that has it.
2. The conditions under which the refuted sentences about cooldown and breaker hold (no
   late outcome on a key that is cooling down; no 429 among the failures).
