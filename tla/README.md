# Verification of the TrafficWar SDKs

TLA+ specifications of the TrafficWar client libraries (Python and Node), the TLC
runs that check them on small instances, and TLAPS proofs of what matters most.
Paths are relative to the repository; `_client.py`, `_async_client.py`, `_base.py`
and `_uuidv7.py` are in `packages/python/src/trafficwar/`, `client.ts`,
`observedCatalog.ts` and `uuidv7.ts` in `packages/node/src/`; `telemetry.py` and
`main.py` are those of `examples/python/django/greetings/` and
`examples/python/fastapi/app/`.

## 1. The system

An application calls `capture()`; the SDK queues the event in memory and sends it,
in batches, to an ingest service over HTTP. A batch has an idempotency key, is
retried with the same key and body, and stays with the client until it is
acknowledged. There are three clients with the same purpose and three different
kinds of concurrency, plus the parts they share.

| Component | State | Operations | Hard because of |
|---|---|---|---|
| Synchronous Python client, `_client.py` | bounded queue, ids and count of unacknowledged events, the prepared batch, deadline, open drain and close cycles, `closing`/`closed`, worker thread | `capture`, `flush`, `close`, the worker loop, `on_error` | many threads and one `Condition`: the build of a request and the HTTP attempt run outside the lock, waiters of four kinds share one `notify_all` |
| Asynchronous Python client, `_async_client.py` | the same, with a worker task, a drain task and a close task | `capture`, `flush`, `aclose`, the worker loop | tasks that interleave at awaits; builds and normalization in threads; a close task that begins after its caller has returned to the loop; cancellation |
| Node client, `client.ts` | the same, with a timer, promises for drain, flush and close, and a scheduled microtask | `capture`, `flush`, `close`, the timer | order of microtasks, gzip between reading and splicing the queue, promises shared by callers |
| Observed catalog (Node), `observedCatalog.ts` | known pairs, which are sent, window and cooldown instants, timer, upload, `#force`, `#closed` | `observe`, `flush`, `close`, the timer | discoveries during an upload, partial failure of a chunked snapshot, wall clock against timer |
| UUIDv7 generators, `_uuidv7.py`, `uuidv7.ts` | last timestamp and last random value, lock | `uuid7()` / `uuidv7()` | clocks that stall or go back, exhaustion of the random part, clock read outside the lock, `fork` |
| Request preparation and response classification, `_base.py` with the `_send` loops, beside `client.ts` | the attempt in progress | options, normalization, halving, gzip, attempts and delays, the verdict on a response | size limits, an event that passes `capture()` and no build, `Retry-After` in header, body, past or future, two SDKs that should judge alike |
| Django example, `telemetry.py`, `views.py` | the process-wide client and who owns it | lazy creation, override by tests, close | the client is closed outside the lock that guards it |
| FastAPI example, `main.py` | SQLite connection behind a lock, SDK client, `application.state` | lifespan, request handler | worker threads outlive cancelled requests; every step of startup and shutdown may fail |
| Node examples, `examples/node/*/src/main.ts` | a shutdown flag | startup, shutdown | signals that repeat, a close that fails |
| Validation (Node), errors, types | none | pure checks | - |

How they interact. `capture()` appends under the lock (or between two awaits) and
wakes the worker, task or timer. `flush()`, `close()`, the worker and the timer all
want a *drain*; at most one runs, and the others join it. A drain alternates between
preparing a batch off the head of the queue and sending it, and ends on an empty
queue or the first failure. `close()` stops the worker or timer, waits for the drain
that runs, drains until nothing is pending, closes an HTTP client it owns and seals;
when any of that fails it reopens the client. The Node client also reports
(event, label) pairs to the catalog, which uploads them in a cycle of its own. Both
libraries take ids and idempotency keys from the UUIDv7 generator.

What makes each part correct:

* **A client** neither loses, duplicates nor reorders an event, whichever threads,
  tasks and callbacks meet; never exceeds its queue bound, in-flight batch included;
  resends a failed batch under the same key, so that the service counts each event
  once; reports truthfully what `flush()` and `close()` did; is silent once closed;
  has somebody who will send what is pending; and returns from every call.
* **The catalog** sends each pair once, keeps its cooldown and its window, forgets no
  discovery, and lets `close()` return.
* **The pipeline** sends the longest batch that fits, obeys every answer, however many
  attempts precede it, releases a batch only to its acknowledgement, and lets no event
  stop another for good.
* **The examples** lose no client with its queue, hand out no closed one, and close what
  they opened, once nobody uses it.
* **The generator** issues strictly increasing ids in a process, under every clock.

## 2. Modules

| Module | Models | Atomic step |
|---|---|---|
| `DeliveryQueue` | the abstract promise: a bounded FIFO log, delivered in order in batches, sealed only when empty | `Accept`, `Deliver`, `Seal` |
| `SyncClient` | `_client.py` | a `with self._condition` section, or what runs between two |
| `SyncClientInterrupt` | `SyncClient` and a `BaseException` (KeyboardInterrupt) in a draining thread | the same |
| `AsyncClient` | `_async_client.py` | code between two awaits that suspend |
| `NodeClient` | `client.ts` | code between two awaits |
| `ObservedCatalog` | `observedCatalog.ts` | code between two awaits |
| `UuidV7` | `_uuidv7.py`, and `uuidv7.ts` as the case of one thread | clock read, lock, critical section, fork |
| `RequestPipeline` | what both Python clients share (`_base.py` and `_send`), and the Node client's verdict | an event of the iterable, a round of a loop, an attempt |
| `DjangoTelemetry` | `telemetry.py`; an SDK client is new, open, closing or closed | a `with _lock` block, `client.close()` |
| `FastApiLifespan` | `main.py` with the worker threads of AnyIO | code between awaits; a query |
| `MC...` | symmetry sets, sizes, options and answers for TLC | |
| `SyncClientProofs` (of `SyncClientInterrupt`), `NodeClientProofs`, `AsyncClientProofs`, `RequestPipelineProofs`, `ObservedCatalogProofs`, `UuidV7Proofs`, `DjangoTelemetryProofs`, `FastApiLifespanProofs` | theorems | |

### State and actions

The three client modules use the code's names without underscores or `#`
(`queue`, `pendingIds`, `pendingCount`, `prepared`, `deadline`, `immediate`,
`closing`, `closed`, ...); each variable's comment names its field or local. History
variables observe and never steer: `captured` and `acked` (events in order), `server`
(requests the service has received), `mark` and `owed` (what a call found when it was
made), and `interrupted` of `SyncClientInterrupt`. Their only use in a guard is the bound `MaxCaptured`.

* *Threads* (`SyncClient`). `pc[t]` is where a thread is: `d_check`, `d_prepare`,
  `d_commit`, `d_send`, `d_ack`, `d_finish` inside a drain; `c_loop`, `c_client`,
  `c_seal`, `c_undo` inside a close; `w_loop`, `w_callback`, `w_exit` for the worker;
  `wait_drain`, `wait_close`. A thread in `Condition.wait()` is in `waitset` until a
  section notifies, or until its timeout if `timed`. `on_error` may call what the
  constant `CallbackCalls` holds.
* *Tasks* (`AsyncClient`). No `async with lock` section awaits anything, so taking
  the lock never suspends and is no step of its own. `drain`, `worker` and `closeAt`
  say what each task waits for. Ready tasks run in any order except where the event
  loop's queue decides: `Turn` lets a drain take at most one step between the creation
  of the close task and its first step, and only if that step was queued before. Public
  calls wait shielded for a task, so cancelling them changes nothing.
* *Callbacks* (`NodeClient`, `ObservedCatalog`). Continuations that are ready run in
  the order in which they became so (`micro`); everything else, timer, gzip, response,
  application call, comes between them in any order.
* *An attempt.* `Transmit(received)` sends `prepared`; the service may or may not have
  received it, whatever the client then sees. The outcomes are acknowledged
  (`SendOk`), to be tried again while `attempt < MaxRetries` (`SendRetry`), and failed
  (`SendFail`). Which response leads to which is a free choice of the clients' modules
  and the subject of `RequestPipeline`.
* *A batch* of the clients' modules. Its events are the longest that result from
  halving the head of the queue until it fits: at most `MaxBatch` events, at most `BodyRoom` in a body, none of them
  in `Oversize` (an event too large for any request fails the drain and stays).
* *The pipeline.* `phase` is where the one drain is (`build`, `send`, `judge`, `sleep`);
  captures interleave with it. `BuildsLongest` ties it to the batches of the clients'
  modules, and `SyncClientProofs!OneDrainAtATime` is why one drain is enough. Sizes are
  functions of the events (`Bytes`, `Packed`), an event has a kind of timestamp and of
  properties. A response is a status, a count, its body and its `Retry-After`. The last
  two are kept as each SDK reads them, since they read them differently: what Python
  (`body`) and Node (`nodeBody`) make of the JSON, and `header` as `float()`, Node's
  regular expression, `parsedate_to_datetime` and `Date.parse` take it (`{}`, or one number
  of half seconds, negative for a date that is past). A redirect is a status that Node's
  `fetch` rejects (`redirect: "error"`), so that `#send` takes it for a transport failure.
* *Examples.* `DjangoTelemetry` abstracts the SDK client to what `SyncClientProofs` and
  `sync_safety` establish of it: a close succeeds, for everybody who waits for it, or
  leaves it open. `FastApiLifespan` keeps a worker thread (`thread`) apart from the task
  that awaits it (`task`), because cancelling the task leaves the thread running.
* *Time.* A deadline is `none`, `armed` or `due`; instants of the catalog are `none`,
  `future` or `past`. `Tick` moves them. The generator has a numeric clock that
  `SetClock` puts anywhere, also beyond the 48-bit range, where the call raises.

A definition whose name begins with `Mut` is a plausible bug in the definition it is
named after; substituting it must break the property it is listed with in
`PROJECT.json`, and is how each property is known to depend on the code.

## 3. Runs

| Run | Question | Instance |
|---|---|---|
| `sync_safety` | Is the threaded client safe, and a `DeliveryQueue`, under every interleaving, with an `on_error` that calls `flush()`/`close()`, an interrupted thread, an event that never fits and an HTTP client whose close fails? | 2 callers and the worker, 3 ids (one oversize), batch 3, `BodyRoom` 2, queue 2, 1 retry, 3 events |
| `sync_liveness` | Does every call return and every event arrive, if the service answers, and does nobody deadlock? | 2 callers, 1 id, queue 2, 1 retry, 2 events |
| `node` | The same questions for the Node client | 3 ids (one oversize), batch 2, `BodyRoom` 2, queue 2, 1 retry, 4 events |
| `async` | The same for the asyncio client, with an HTTP client whose close may fail | as `node` |
| `catalog` | What is sent and when; is every pair registered; does `close()` return? | 3 pairs, 2 in a request |
| `uuid` | Are ids increasing, as pairs and as numbers, and does a call return, also in a forked child? | 2 threads, timestamps 0..2, 1+1 random bits, 3 ids, 1 fork |
| `pipeline` | Is every batch built, sent, judged and released as its size and the answers say? | 3 sizes of events, 5 kinds, 3 valid and 3 invalid option records, 20 responses, 3 events |
| `django` | Does the module keep exactly one owned client in reach, and clear a closed one? | 3 threads, 2 owned clients, 2 injected, 1 override deep |
| `fastapi` | Is the connection safe from worker threads, the end clean, and does a shutdown end? | 3 requests, 2 worker threads at a time |
| `sync_on_error_calls`, `sync_interrupt`, `pipeline_poison` | Does the code do what its documentation says? (no, section 5) | 1 caller; as `pipeline` |

What the properties say:

* `Conservation`, and as a conjunct of `Consistent` in the other clients: captured =
  acknowledged, then in hand, then queued, as sequences, at every moment, also between
  the splice of a batch and its keeping. `Consistent` adds exact counts, distinct and
  reserved ids, and that what a drain read before an await is still so afterwards, so
  that the code's own "inconsistent" exceptions are never raised.
* `ExactlyOnce`: two received requests that share a key or an event are the same
  request, and nothing is acknowledged that the service has not received.
* `QuietAfterClose`: nothing is sent from the moment the HTTP client is closed for good.
* `Attended`: whoever waits has somebody who will wake it. An open drain cycle has a leader
  that is inside `_drain` (`DrainLed`), where no step waits for a thread. An open close
  cycle has a leader that does not wait in a close itself, and what it does wait for comes:
  a drain that is led, or the end of a worker that is not the leader and can go on
  (`CloseLed`). A parked worker has no stop, no immediate flush and no events
  to see to but those of its timeout, and pending events of an open client have a live
  worker. The two states in which this is not so are excluded by name and are findings 1 and
  2 of section 5: `OnErrorWaits`, the worker waiting in `on_error` for the close that joins
  it, and `interrupted`, after which a cycle may be open with no leader.
* `CallsCover`, `FlushCovers`, `NoSilentFailure`: the results of `flush()` and `close()`
  speak for everything captured before the call, and no failed drain goes unobserved.
* `DeadlineKept`: a capture does not start a deadline again that is due. (That it does not
  move one that is armed cannot be seen in this model, where an armed deadline has no
  instant.)
* `ImplementsQueue`: refinement of `DeliveryQueue` with `log <- captured`,
  `delivered <- acked`, `sealed <- closed`; the queue bound and the prohibition of
  captures once closed are in the abstract module.
* `BuildsLongest`: the loop of `_prepare_queued_batch` computes what the clients' modules
  define, the longest halving of the queue's head that fits, and gives an event up only
  when it fits neither as it is nor compressed. `NoInternalError`: the retry loop never
  runs out and no id is pending twice. `AnswersObeyed`: the next attempt repeats the
  request, waits as long as was asked, at most 60 s, and an answer worth another attempt
  is raised only by the last; a batch is released only by an answer that acknowledges
  exactly it.
* `SameVerdict`: whenever the Python and the Node client make the same of a body, both
  release the batch or both keep it; and a response that is `Plain` is retried by both or by
  neither, and raises the same kind of error. `Plain` is the extent of the agreement: no
  redirect, a body both read alike, a `Retry-After` that is a plain decimal or a date still
  to come that both understand, or that neither does. The 20 responses also hold what is
  not plain; where the SDKs differ on those is item 11 of section 5.
* `NothingLost`, `ClosedClientCleared` (Django): at most one owned client is alive and
  the module still holds it, tests' clients are never closed, and a closed client does
  not stay current, except where an override hid it meanwhile.
* `LifespanSafe`, `ShutdownEnds` (FastAPI).
* `EventuallyDelivered`, `EventuallyRegistered`, `CallsReturn`, `CallsSettle`,
  `CloseReturns`: liveness, each with a limit. That calls return and settle is shown for
  boundedly many captures: captures without end can keep a drain, and whoever waits for it,
  going for ever. `EventuallyDelivered` of the pipeline is about events that can be encoded
  and gives up when a lone surrogate is queued (finding 3). `EventuallyRegistered` is
  checked for timers that are not early, so it says nothing of item 6 of section 5.
* `DeltasOnly`, `NoneStranded`, `CooldownKept`, `FlushSends`: the catalog registers a
  pair once, leaves no pending pair without a timer or upload, starts no request inside
  a cooldown, and a `flush()` returns only once what it found is registered or has
  failed.

**Bounds.** Two callers and the worker are what a race here needs: one leads, one
joins, and the worker competes for either part. A queue of 2 with 3 or 4 captures
makes the queue fill, empty and fill again, ids be used again, and a batch remain
while others queue behind it; one retry distinguishes first, middle and last attempts.
`BodyRoom` below `MaxBatch`, or an `Oversize` event behind one that fits, forces
halving; alone, it is a batch of one that fails. A `MaxBatch` above the queue bound in
`sync_safety` leaves the flush to the deadline, where `DeadlineKept` is at stake. Three
pairs by twos make a snapshot of two chunks with a discovery beside them. In `pipeline` a
batch of 3 halves to 1, sizes put a body below, between and above the two limits, plain
and compressed, and the delays asked for lie below, at the side of and above the maximum,
as numbers, dates and forms that only one SDK reads;
the retries are 0, 1 and 2. Three threads are what `telemetry.py` needs for a request, an
override and a close at once. Fewer worker threads than requests in `fastapi` make these and
the closing of the store compete for it. `MaxCaptured`, `MaxCapture`, `MaxIds`,
`MaxForks` and `MaxDepth` are the only bounds that are not in the code. Symmetry is used
only in `sync_safety`, which has no liveness property.

**Deadlock** is checked in `sync_liveness`, where it is a finding if every thread is
stuck: only a closed client (`Terminated`) may stop. It is checked in `uuid`, `node`
and `async` too, but says little there: an application can always call again, so a
task or promise that hangs is caught by `CallsSettle` instead. It is not checked where the
system stops by design (`catalog` and `fastapi` once closed, `pipeline` once everything is
sent, `django` once its bounded supply of clients is used up) nor in `sync_safety` and the violation runs, which include clients that hang.

**Fairness.** Threads that can run do (weak fairness of each thread's steps), ready
callbacks and tasks run, clocks advance, and an attempt ends because it has a timeout.
Nobody has to call anything. Delivery also needs a service that, asked again and again,
acknowledges in the end: strong fairness of `SendOk`/`ChunkOk`. In the Node, asyncio and
catalog modules that is a premise of the property (`ServiceAnswers => ...`), so that
the same runs show that calls return from a service that never answers.
`DjangoTelemetry` assumes that a close that has begun ends, in success or failure
(`CallsReturn` of `sync_liveness`); `FastApiLifespan` that threads run and that a lock or a
worker thread freed again and again is obtained in the end.
`UuidV7` has strong fairness of taking the lock: an OS lock that is freed again and
again is obtained in the end.

## 4. Theorems

Checked by TLAPS for every number of threads, events, pairs and clients and for every
limit. Every safety invariant and every action property of the passing runs has a
theorem, and so has each refinement of `DeliveryQueue`; the runs show the same on small
instances and are where a false invariant was found before anybody tried to prove it.

**Assumptions** are the named `ASSUME`s of each module: sizes are naturals, `MaxBatch` and
`MaxQueue` positive, names of threads and clients distinct. Two are about the service and
the constants of `_base.py`: a response asks for at most one delay in each place that is
read, and what Node's regular expression takes for a number is one for `float()` and not
negative (`AnswerAssumption`); and the longest jitter, 8 s, is no longer than the longest
delay obeyed, 60 s (`JitterAssumption`, true of the code's numbers). One theorem,
`CatalogNoneStranded`, has a hypothesis of its own, `~EarlyTimers` (section 5, item 6).

### `SyncClientProofs`

All but `OneDrainAtATime` are theorems of `InterruptSafety`, so they also hold when a
`KeyboardInterrupt` leaves a drain with nobody to finish it; `Safety` is the case without
one. Both imply `ClientSafety`, which has the steps of `InterruptSafety` without its history
variable, and the invariants are invariants of that.

| Theorem | Property |
|---|---|
| `TypeCorrect`, `OneDrainAtATime`, `DrainSectionsAgree` | `TypeOK`, `SingleFlight`, `BatchInStep` |
| `NothingLost`, `PendingIsExact`, `FailedBatchIsResent` | `Conservation`, `Accounting`, `SameBatchRetried` |
| `ReceivedOnce`, `ClosedIsDelivered`, `NobodyForgotten` | `ExactlyOnce`, `QuietAfterClose`, `Attended` |
| `CallsSpeakForTheirEvents`, `TimerNotPostponed` | `CallsCover`, `DeadlineKept` |
| `ClientIsAQueue` | `ImplementsQueue` |

* The first invariant, `IInv`, is
  `TypeOK /\ Leads /\ BatchInStep /\ CommitKeyed /\ Conservation /\ Accounting`.
  Conservation alone is not inductive: the section that commits a batch pops as many
  events as were read one section earlier, which is right only if the queue still begins
  with them (`BatchInStep`), which needs that no other thread drains. After an interrupt
  the cycle is open and nobody drains, so what is inductive is that whoever drains leads
  the open cycle (`Leads`), not `SingleFlight`. `CommitKeyed` tells a batch about to be
  committed from `NoBatch`; `Accounting` keeps the decrement after an acknowledgement in
  `Nat`.
* `SInv` adds three groups. *Delivery*: events are numbered as captured (`Numbered`), no
  received key is newer than the last generated (`KeysFresh`), and a received request is
  the batch in flight or consists of acknowledged events (`SentOnce`), so two different
  requests share neither a key nor an event. *Control*: where a thread can be in which call
  (`CallShape`), what the leader of a close may rely on (`CloseShape`: once the drain it
  found is over, the only drains are its own), and that a thread parks only while the cycle
  it waits for is open (`Parked`), as every section that ends a cycle notifies all. *Results*: what the leader of a flush or a close has still to acknowledge is
  what it owes (`MarksCovered`, `OwedCovered`).
* `NobodyForgotten` needs `LedInv` besides, which is no invariant of `ClientSafety`: until a
  drain is interrupted, the leader of an open drain cycle is in a step of `_drain`
  (`SingleFlight`; the interrupt is the only way out of there that leaves the cycle open), and
  the leader of an open close cycle is in a section of that close or in the drain it leads or
  joins (`Closer`). It cannot wait for a close, since that one
  would be its own, nor for an orphaned drain. What is left is the join of the worker, and
  the worker is then draining, joined to a drain that is led, on its way to its exit, or in
  `on_error`: the last may wait for this very close, which is `OnErrorWaits`.
* `ClientIsAQueue`: initial states map to initial states, a capture is an `Accept`, an
  acknowledgement a `Deliver`, the last section of `close()` a `Seal`, and every other step
  leaves `log`, `delivered` and `sealed` alone.

### `NodeClientProofs` and `AsyncClientProofs`

The same questions under the two cooperative schedulers.

| | `NodeClientProofs` | `AsyncClientProofs` |
|---|---|---|
| `Consistent` | `NodeIsConsistent` | `AsyncIsConsistent` |
| `ExactlyOnce` | `ReceivedOnce` | `ReceivedOnce` |
| results of calls | `CallsSpeakForTheirEvents` (`CallsCover`) | `FlushSpeaksForItsEvents` (`FlushCovers`) |
| failures | `FailuresAreHeard` (`NoSilentFailure`) | - |
| `ImplementsQueue` | `ClientIsAQueue` | `ClientIsAQueue` |

* *Node.* `MicroInStep` ties the queue of microtasks to what each function waits for: each
  has exactly one continuation there, so that a microtask that runs finds its function
  where it left it. `Heard` says that somebody observes every drain. `CloseCovered` is what
  makes `close()` report at least what it found pending: its subtle case is a drain that
  ended before the call but is settled after it, which must not be counted, and is not,
  because its `settle` is ahead of `close` in the microtask queue.
* *asyncio.* `DrainInStep` carries the snapshot: the queue still begins with the events
  the drain task read before a build suspended it, since captures only append.
  `MarkInPast` says that a `flush()` speaks only for events captured already. `CloseShape`
  ties the close task to `closing`, and says that it closes the HTTP client with nothing
  pending.

### `RequestPipelineProofs`

| Theorem | Property |
|---|---|
| `NeverUnexpected` | `NoInternalError` |
| `VerdictsAgree` | `SameVerdict` |
| `AnswersAreObeyed` | `AnswersObeyed` |
| `LongestIsBuilt` | `BuildsLongest` |

* The invariant is `Types /\ BuildInStep /\ SleepInStep /\ Distinct(Pending)`.
  `SleepInStep`: a sleep follows an attempt that was not the last, and is as long as its
  answer asked, within the maximum; it links the attempt to the one before it. An id is
  pending at most once because `capture()` tests against both what is pending and what it
  has taken from the same iterable.
* `BuildsLongest` needs `HalvingInStep`: a build is at a repeated half of what it began
  with, and every longer one was too large; that stays so whatever is captured behind.
  The largest fitting half is a `CHOOSE` over quotients by powers of two. Facts about powers
  would need induction; here `2^k` is the number of subsets of a set of `k`
  elements (`FS_SUBSET`), from which `PowerSum` and `PowerExceeds` follow without one.
* `VerdictsAgree` compares the two classifications case by case, for any status, count,
  attempt and delay. Its first half needs no `Plain`: only a success is ever acknowledged,
  and no success is a redirect or worth another attempt. The second half shows that `Plain`
  is enough for the two readings of `Retry-After` to be one (`SameRetryAfter`) and for the
  delays drawn from it to decide alike (`SameRetries`). It was attempted when the Python one was a `CASE` with overlapping guards, which
  has no defined value; `StatusError` now has the code's order of tests in its guards.

### The other components

* **`ObservedCatalogProofs`**: `CatalogTypeCorrect`, `CatalogSendsDeltasOnly`,
  `CatalogQuietOnceClosed`, `CatalogCooldownKept`, `CatalogFlushSends` (`FlushSends`), and
  `CatalogNoneStranded` under `~EarlyTimers`. The invariant adds `TimerInv` (no timer
  during an upload; a timer set in a cooldown waits for its end), `CooldownInv` and
  `CloseInv`. `OwedInv` is for `flush()`: the upload it has hastened keeps `#force` until
  nothing it found is unsent or a request fails.
* **`UuidV7Proofs`**: `UuidMonotonic`, whose invariant adds that the newest id is the
  remembered (timestamp, random) pair. It does not depend on the clock's values, which is
  why reading the clock before the lock is harmless. `FieldsFit`: no field outgrows its
  bits, exhaustion of the random part included. From both, `UuidValuesMonotonic`: the
  128-bit numbers increase too, at any width of the two random parts, though
  the fixed variant bits lie between them.
* **`DjangoTelemetryProofs`**: `NoClientLost` (`NothingLost`) for any threads, clients and
  nesting of overrides. `NothingLost` says where a living client is; inductive is that among
  the current client and those the overrides will put back exactly one is no test's
  (`OneBase`), and that a living owned client is that one (`AliveIsBase`). An override
  replaces the current client and saves it, so the base moves and is not doubled; only the
  creation of a client, when the current one is `None`, makes a new one. `ClosesItsOwn` says
  that what a thread is closing is owned, and closed when it clears it.
* **`FastApiLifespanProofs`**: `LifespanIsSafe`, for any number of requests and worker
  threads. The invariant says that tasks exist only while the lifespan serves, and that
  the connection is open until the step that ends it, which needs the lock.

### Only model-checked

Liveness rests on fairness and `ENABLED`, which the provers cannot reason about:
`EventuallyDelivered`, `CallsReturn`, `CallsSettle`, `EventuallyRegistered`, `CloseReturns`,
`ClosedClientCleared` and `ShutdownEnds`. So is the absence of deadlock. The three
violations of section 5 are counterexamples, which are found and not proved. The safety
parts those liveness properties build on are theorems: that a waiting thread has somebody to
wake it (`Attended`, with its two exceptions), that a failed drain is heard, that no pending pair is without a timer.

## 5. Where code and documentation differ

With a run in which TLC shows such a behaviour (of the two that are violations of
liveness it need not be the shortest):

1. `sync_on_error_calls`: `on_error` that calls `flush()` or `close()` in the worker
   while another thread is in `close()`: `close()` joins the worker, the worker waits
   for that close. Neither returns.
2. `sync_interrupt`: a `KeyboardInterrupt` during an attempt, or the sleep before the next
   one, leaves `_drain_cycle` set with nobody to finish it; nothing is sent any more. In the
   run closing the HTTP client does not fail, so that nothing else can stop the delivery: an
   event is captured while a `flush()` begins, the drain it leads prepares and sends it, the
   worker joins, the attempt is interrupted, and the worker and a second
   `flush()` wait for the cycle for ever, on a client that is open. (`sync_safety`: nothing
   is lost, duplicated or reordered either.)
3. `pipeline_poison`: `capture()` accepts a string with a lone surrogate, which
   `_prepare` cannot encode. Every drain that has the event in its batch raises
   `SerializationError`, so that the events ahead of it are not sent either.

Met while modelling, without a run of their own (a definition that does not hold is
named where there is one):

4. `flush()` "Drain all queued and in-flight events" (`_client.py:147`), but one that
   joins a drain whose leader has already seen an empty queue returns successfully with
   events still queued (`FlushCovers` of `SyncClient`). `LeaderFlushCovers` does hold.
5. An owned HTTP client whose `close()` or `aclose()` raises counts as closed, and the
   SDK client on top of it is open again and can send nothing (`OpenIsUsable`;
   `EventuallyDelivered` allows for it).
6. The catalog's timer runs on the monotonic clock, the retry instant on the wall clock.
   A timer that comes early by the wall clock does nothing and is not set again; pending
   pairs wait for the next discovery (`EventuallyRegistered` with `EarlyTimers`).
7. A drain that ends between the call of `aclose()` and the first step of the close task
   is missing from `accepted` (`CloseReports` of `AsyncClient`).
8. A `close()` that joins an upload whose loop has ended leaves pairs unsent that never
   failed (`CloseSends` of `ObservedCatalog`).
9. `httpx.DecodingError` is not an `httpx.TransportError` and leaves `_send` unwrapped and
   unretried (`DecodingFails`).
10. A 429, 409 or a delay above 60 s is raised at once, but the worker sends the same
    batch again after `flush_interval`, whatever `Retry-After` says.
11. The two SDKs do not treat every response alike (what `Plain` leaves out of
    `SameVerdict`). A redirect: Node asks for `redirect: "error"` (`client.ts:1055`), so
    `fetch` rejects, `#send` retries it like a failure of the transport and ends with
    `TrafficWarConnectionError`; Python does not follow it either and raises
    `ResponseError` at once. `Retry-After`: a date in the past is "now" for Node and no
    header for Python, which then looks into the body; a number with an exponent, a sign or
    an underscore is read only by `float()`, an ISO date only by `Date.parse`. The body:
    `"accepted": 2.0` acknowledges two events for Node and is malformed for Python, as are
    texts that only one of the two parsers accepts. And an error response whose `status` is
    a list or an object raises `TypeError` in Python, which hashes it (`_base.py:543`),
    although "All SDK exceptions derive from `TrafficWarError`"
    (`packages/python/README.md:378`); for Node it is a malformed response.
12. The Node client has no counterpart of "compress what is above the encoded limit": in
    `auto` with a high threshold it halves where Python compresses.
13. An override entered or left around `close_owned_trafficwar_client()` puts a closed
    client back, which every later request gets (`crossed` in `ClosedClientCleared`); and
    overlapping overrides of two threads are detected only by the one that leaves first.

## 6. Not modelled

Field types and ranges of an event, the grammar of timestamps, URLs, headers and the
wording of errors: pure functions with no state; what fails them never reaches the queue.
Node validation for the same reason. Cancellation of the client's own asyncio tasks when
their loop is torn down. User code that re-enters the Node client synchronously from a
custom `fetch`. The generator's fallback test of the process id on systems without fork
hooks. The joint close of client and catalog and the retries of `#registerCatalog`. The
Node examples, whose shutdown is a straight line behind a flag: a `close()` that fails
there is followed by the end of the process, and its events end with it. The SQL of the
FastAPI example and the settings of the Django one. Packaging and CI.

## 7. Plan

Done, in this order: `DeliveryQueue` and `SyncClient` with its first proofs (the core: all
the clients' promises, under the hardest concurrency), `ObservedCatalog` with its
proofs, `NodeClient`, `AsyncClient`, `UuidV7`, `RequestPipeline`, `DjangoTelemetry` and
`FastApiLifespan`; then the proofs of the remaining safety properties and refinements
of all of them.

Next, proving: what follows from `DeliveryQueue` alone (a sealed queue has delivered all it
accepted, in order), carried over to the three clients by `ClientIsAQueue`; that the batches
of the clients' modules are those `BuildsLongest` describes; the properties that are
named in section 5 beside the ones that fail (`CloseReports` for the drain the close task
does find).

Then, extending: client and catalog of Node composed, with the joint `close()` and
`#registerCatalog`; asyncio loop teardown.
