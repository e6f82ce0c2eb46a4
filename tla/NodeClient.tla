------------------------------- MODULE NodeClient -------------------------------
(***************************************************************************)
(* The Node client, packages/node/src/client.ts (class TrafficWar): a       *)
(* bounded in-memory event queue on one JavaScript thread, drained by one   *)
(* asynchronous function at a time for capture(), flush(), close() and a    *)
(* timer.                                                                   *)
(*                                                                          *)
(* An action is a stretch of code between two awaits, so any other callback *)
(* may run between two actions; the continuations that are ready run in the *)
(* order in which they became so, that of `micro`.  `drain` says where the  *)
(* asynchronous function behind #drainPromise is; flush() and close() each  *)
(* have at most one promise, which later callers share, and `flushing` and  *)
(* `closeAt` say what it waits for.  Catalog uploads, which end, are in     *)
(* ObservedCatalog.                                                         *)
(***************************************************************************)
EXTENDS Naturals, Sequences, Functions

CONSTANTS
  Ids,        \* event ids
  Oversize,   \* ids of events whose own request body is over the limits
  MaxBatch,   \* TRAFFICWAR_MAX_BATCH_SIZE
  BodyRoom,   \* how many events a request body has room for
  MaxQueue,   \* maxQueueSize
  MaxRetries, \* maxRetries
  MaxCapture, \* bound: events of one capture() call
  MaxCaptured \* bound: events captured in a behaviour

ASSUME NodeSizeAssumption ==
  /\ MaxBatch \in Nat \ {0} /\ MaxQueue \in Nat \ {0}
  /\ BodyRoom \in Nat /\ MaxRetries \in Nat
  /\ MaxCapture \in Nat /\ MaxCaptured \in Nat
  /\ Oversize \subseteq Ids

VARIABLES
  queue,        \* #queue
  pendingIds,   \* #pendingEventIds
  pendingCount, \* #pendingCount
  captured,     \* history: every event capture() took, in order
  prepared,     \* #preparedBatch, NoBatch for undefined
  drain,        \* where the function behind #drainPromise is, or "none"
  count,        \* its local `count` in #prepareNextBatch
  built,        \* its batch, spliced off the queue and not in #preparedBatch yet
  attempt,      \* its local `attempt` in #send
  accepted,     \* its local `accepted`
  outcome,      \* how #drain ended: "ok" or "err"
  watched,      \* it is #backgroundPromise
  micro,        \* the client's microtasks that are queued, first in first out
  timer,        \* #timer is set
  flushing,     \* what #flushPromise waits for, or "none"
  flushed,      \* the drain it waited for succeeded
  closeAt,      \* where the function behind #closePromise is, or "none"
  drained,      \* the drain it waited for succeeded
  tally,        \* its local `accepted`
  closing,      \* #closing
  closed,       \* #closed
  mark,         \* history: events captured when the flush began its drain
  owed,         \* history: events unacknowledged when the close began
  acked,        \* history: every acknowledged event, in order
  server,       \* history: the requests the ingest service has received
  nextKey       \* history: idempotency keys generated so far

pendingVars == <<queue, pendingIds, pendingCount, captured>>
drainVars == <<drain, count, accepted>>
flushVars == <<flushing, flushed, mark>>
closeVars == <<closeAt, drained, tally, closing, closed, owed>>
serviceVars == <<server, nextKey>>
vars == <<pendingVars, prepared, drainVars, built, attempt, outcome, watched, micro,
          timer, flushVars, closeVars, acked, serviceVars>>

Event == [id : Ids, n : Nat]
Batch == [key : Nat, events : Seq(Event)]
NoBatch == [key |-> 0, events |-> <<>>]

EventIds(events) == {events[i].id : i \in DOMAIN events}
Prefix(s, k) == SubSeq(s, 1, k)

Init ==
  /\ queue = <<>> /\ pendingIds = {} /\ pendingCount = 0 /\ captured = <<>>
  /\ prepared = NoBatch /\ built = NoBatch
  /\ drain = "none" /\ count = 0 /\ attempt = 0 /\ accepted = 0 /\ outcome = "ok"
  /\ watched = FALSE /\ micro = <<>> /\ timer = FALSE
  /\ flushing = "none" /\ flushed = FALSE /\ mark = 0
  /\ closeAt = "none" /\ drained = FALSE /\ tally = 0
  /\ closing = FALSE /\ closed = FALSE /\ owed = 0
  /\ acked = <<>> /\ server = {} /\ nextKey = 0

-------------------------------------------------------------------------------
(* The timer and the start of a drain                                       *)

Tasks == {"settle", "keep", "background", "close", "loop"}

(* The microtask that runs now.                                             *)
Ready(task) == micro # <<>> /\ Head(micro) = task

(* #startBackgroundDrain: its microtask, unless it is queued already        *)
(* (#backgroundScheduled).                                                  *)
WithBackground ==
  IF "background" \in Range(micro) THEN micro ELSE Append(micro, "background")

(* #ensureTimer, with these events pending.                                 *)
TimerAfter(pending, stopping) == timer \/ (pending > 0 /\ ~stopping)

(* A drain that begins and finds nothing to do is over at once.             *)
StartTask == IF drain = "none" /\ drain' = "settle" THEN <<"settle">> ELSE <<>>

BatchLimit(n) == IF n < MaxBatch THEN n ELSE MaxBatch

(* The head of the loop of #drain: stop, send the batch of an earlier drain *)
(* again, or prepare the next one.                                          *)
DrainLoop(pending, n) ==
  /\ drain' = IF pending = 0 THEN "settle" ELSE IF prepared' = NoBatch THEN "prepare" ELSE "send"
  /\ count' = IF pending > 0 /\ prepared' = NoBatch THEN BatchLimit(n) ELSE 0

(* #startDrain: the running drain, or a new one.                            *)
StartDrain ==
  /\ UNCHANGED prepared
  /\ IF drain = "none" THEN DrainLoop(pendingCount, Len(queue)) /\ accepted' = 0
     ELSE UNCHANGED drainVars

-------------------------------------------------------------------------------
(* capture()                                                                *)

Inputs == {ids \in UNION {[1..k -> Ids] : k \in 1..MaxCapture} :
             \A i, j \in DOMAIN ids : ids[i] = ids[j] => i = j}

NewEvents(ids) == [i \in 1..Len(ids) |-> [id |-> ids[i], n |-> Len(captured) + i]]

Open == ~closed /\ ~closing

(* Mutant: only the queue counts, not the batch in flight.                  *)
MutHasRoom(ids) == Len(ids) + Len(queue) <= MaxQueue

HasRoom(ids) == Len(ids) + pendingCount <= MaxQueue

Reserved(ids) == \E i \in DOMAIN ids : ids[i] \in pendingIds

(* A rejected call throws and changes nothing.                              *)
Capture(ids) ==
  /\ Len(captured) + Len(ids) <= MaxCaptured
  /\ Open /\ HasRoom(ids) /\ ~Reserved(ids)
  /\ queue' = queue \o NewEvents(ids)
  /\ captured' = captured \o NewEvents(ids)
  /\ pendingIds' = pendingIds \cup {ids[i] : i \in DOMAIN ids}
  /\ pendingCount' = pendingCount + Len(ids)
  /\ IF pendingCount' >= MaxBatch
     THEN timer' = FALSE /\ micro' = WithBackground
     ELSE timer' = TimerAfter(pendingCount', FALSE) /\ UNCHANGED micro
  /\ UNCHANGED <<prepared, drainVars, built, attempt, outcome, watched, flushVars,
                 closeVars, acked, serviceVars>>

(* The timer's callback: schedule a background drain.                       *)
Fire ==
  /\ timer
  /\ timer' = FALSE /\ micro' = WithBackground
  /\ UNCHANGED <<pendingVars, prepared, drainVars, built, attempt, outcome, watched,
                 flushVars, closeVars, acked, serviceVars>>

(* Mutant: errors of a drain begun in the background go unobserved.         *)
MutObserved == watched

(* #observeBackgroundDrain.                                                 *)
Observed == TRUE

(* The microtask of #startBackgroundDrain.                                  *)
Background ==
  /\ Ready("background")
  /\ IF ~closed /\ pendingCount > 0
     THEN StartDrain /\ watched' = Observed
     ELSE UNCHANGED <<drainVars, prepared, watched>>
  /\ micro' = Tail(micro) \o StartTask
  /\ UNCHANGED <<pendingVars, built, attempt, outcome, timer, flushVars, closeVars,
                 acked, serviceVars>>

-------------------------------------------------------------------------------
(* The drain                                                                *)

DrainUnchanged == UNCHANGED <<pendingIds, pendingCount, captured, watched, timer,
                              flushVars, closeVars>>

(* #drain throws.                                                           *)
Throw == /\ drain' = "settle" /\ outcome' = "err" /\ micro' = Append(micro, "settle")
         /\ UNCHANGED <<count, accepted>>

Halvings(n) == {k \in 1..n : \E i \in 0..n : k = n \div 2^i}

Fits(events) == Len(events) <= BodyRoom /\ EventIds(events) \cap Oversize = {}

(* The sizes that fit, of those #prepareNextBatch tries: the `count` it     *)
(* began with and its halves.                                               *)
BatchSizes == {k \in Halvings(count) : Fits(Prefix(queue, k))}

(* Mutant: what is spliced off is what the loop began with.                 *)
MutSpliced(k) == SubSeq(queue, count + 1, Len(queue))

Spliced(k) == SubSeq(queue, k + 1, Len(queue))

(* The request is built: take its events off the queue.                     *)
Prepare ==
  /\ drain = "prepare"
  /\ \E k \in BatchSizes :
       /\ \A j \in BatchSizes : j <= k
       /\ built' = [key |-> nextKey + 1, events |-> Prefix(queue, k)]
       /\ queue' = Spliced(k)
  /\ nextKey' = nextKey + 1
  /\ drain' = "built" /\ count' = 0 /\ micro' = Append(micro, "keep")
  /\ UNCHANGED <<prepared, attempt, accepted, outcome, acked, server>> /\ DrainUnchanged

(* A single event does not fit: a validation error, and the queue keeps it. *)
TooLarge ==
  /\ drain = "prepare" /\ BatchSizes = {}
  /\ Throw
  /\ UNCHANGED <<queue, prepared, built, attempt, acked, serviceVars>> /\ DrainUnchanged

(* Back in #drain: keep the batch until it is acknowledged, and send it.    *)
KeepBatch ==
  /\ Ready("keep") /\ micro' = Tail(micro)
  /\ prepared' = built /\ built' = NoBatch
  /\ drain' = "send"
  /\ UNCHANGED <<queue, count, attempt, accepted, outcome, acked, serviceVars>>
  /\ DrainUnchanged

(* Mutant: every attempt has its own idempotency key.                       *)
MutTransmit(received) ==
  server' = IF received THEN server \cup {[prepared EXCEPT !.key = @ + attempt]} ELSE server

(* An attempt, received or not: a timeout may race the answer.              *)
Transmit(received) == server' = IF received THEN server \cup {prepared} ELSE server

(* The ids still reserved when the batch is acknowledged.                   *)
Released == pendingIds \ EventIds(prepared.events)

Remaining == pendingCount - Len(prepared.events)

(* A well-formed success: forget the batch, and round the loop.             *)
SendOk ==
  /\ drain = "send"
  /\ Transmit(TRUE)
  /\ attempt' = 0
  /\ pendingIds' = Released
  /\ pendingCount' = Remaining
  /\ acked' = acked \o prepared.events
  /\ accepted' = accepted + Len(prepared.events)
  /\ prepared' = NoBatch
  /\ DrainLoop(pendingCount', Len(queue))
  /\ outcome' = "ok"
  /\ micro' = IF drain' = "settle" THEN Append(micro, "settle") ELSE micro
  /\ UNCHANGED <<queue, captured, built, watched, timer, flushVars, closeVars, nextKey>>

(* A transport error, a timeout or a retryable status, with attempts left.  *)
SendRetry ==
  /\ drain = "send" /\ attempt < MaxRetries
  /\ \E received \in BOOLEAN : Transmit(received)
  /\ attempt' = attempt + 1
  /\ UNCHANGED <<queue, prepared, built, drainVars, outcome, micro, acked, nextKey>>
  /\ DrainUnchanged

(* An error that is not retried, or the last attempt.                       *)
SendFail ==
  /\ drain = "send"
  /\ \E received \in BOOLEAN : Transmit(received)
  /\ attempt' = 0
  /\ Throw
  /\ UNCHANGED <<queue, prepared, built, acked, nextKey>> /\ DrainUnchanged

(* Mutant: close() does not count a drain that began in the background.     *)
MutTallied == IF watched THEN tally ELSE tally + accepted

(* What close() has drained, with the drain it waited for.                  *)
Tallied == tally + accepted

(* The finally of #startDrain, and those who wait for its promise.          *)
Settle ==
  /\ Ready("settle")
  /\ micro' = IF closeAt = "drain" THEN Append(Tail(micro), "loop") ELSE Tail(micro)
  /\ drain' = "none" /\ accepted' = 0 /\ outcome' = "ok" /\ watched' = FALSE
  /\ timer' = IF pendingCount = 0 THEN FALSE ELSE TimerAfter(pendingCount, closed \/ closing)
  /\ IF flushing = "drain" THEN flushing' = "catalog" /\ flushed' = (outcome = "ok")
     ELSE UNCHANGED <<flushing, flushed>>
  /\ IF closeAt = "drain"
     THEN /\ closeAt' = "drained" /\ drained' = (outcome = "ok")
          /\ tally' = IF outcome = "ok" THEN Tallied ELSE tally
     ELSE UNCHANGED <<closeAt, drained, tally>>
  /\ UNCHANGED <<pendingVars, prepared, count, built, attempt, mark, closing,
                 closed, owed, acked, serviceVars>>

-------------------------------------------------------------------------------
(* flush() and close()                                                      *)

(* flush(); one that finds a close or a flush under way returns its promise.*)
Flush ==
  /\ closeAt = "none" /\ flushing = "none"
  /\ timer' = FALSE
  /\ StartDrain
  /\ flushing' = "drain" /\ flushed' = FALSE
  /\ mark' = IF drain = "settle" THEN 0 ELSE Len(captured)
  /\ micro' = micro \o StartTask
  /\ UNCHANGED <<pendingVars, built, attempt, outcome, watched, closeVars, acked,
                 serviceVars>>

(* The catalog is uploaded too: the promise settles.                        *)
FlushReturn ==
  /\ flushing = "catalog"
  /\ flushing' = "none" /\ flushed' = FALSE /\ mark' = 0
  /\ UNCHANGED <<pendingVars, prepared, drainVars, built, attempt, outcome, watched,
                 micro, timer, closeVars, acked, serviceVars>>

CloseUnchanged == UNCHANGED <<pendingVars, built, attempt, outcome, watched, flushVars,
                              acked, serviceVars>>

Close ==
  /\ ~closed /\ closeAt = "none"
  /\ timer' = FALSE /\ closing' = TRUE
  /\ closeAt' = "start" /\ owed' = pendingCount /\ micro' = Append(micro, "close")
  /\ UNCHANGED <<prepared, drainVars, drained, tally, closed>> /\ CloseUnchanged

(* The microtask of close() begins its loop.                                *)
CloseStart ==
  /\ Ready("close")
  /\ StartDrain
  /\ micro' = Tail(micro) \o StartTask
  /\ closeAt' = "drain"
  /\ UNCHANGED <<timer, drained, tally, closing, closed, owed>> /\ CloseUnchanged

(* Mutant: close() tries again for as long as events are pending.           *)
MutGivesUp == FALSE

(* A drain that fails ends close().                                         *)
GivesUp == ~drained

(* The test of its loop, or its error.                                      *)
CloseLoop ==
  /\ Ready("loop") /\ micro' = Tail(micro)
  /\ IF ~GivesUp /\ pendingCount > 0 THEN StartDrain /\ closeAt' = "drain"
     ELSE /\ closeAt' = IF GivesUp THEN "undo" ELSE "catalog"
          /\ UNCHANGED <<drainVars, prepared>>
  /\ drained' = FALSE
  /\ UNCHANGED <<timer, tally, closing, closed, owed>> /\ CloseUnchanged

(* Leaving close(), closed or open again.                                   *)
CloseEnd ==
  /\ closeAt' = "none" /\ tally' = 0 /\ owed' = 0 /\ closing' = FALSE
  /\ UNCHANGED <<prepared, drainVars, drained, micro>> /\ CloseUnchanged

CloseSeal ==
  /\ closeAt = "catalog"
  /\ closed' = TRUE /\ timer' = FALSE
  /\ CloseEnd

(* Mutant: a failed close() leaves the timer off.                           *)
MutTimerAfterUndo == timer

TimerAfterUndo == TimerAfter(pendingCount, FALSE)

CloseUndo ==
  /\ closeAt = "undo"
  /\ timer' = TimerAfterUndo
  /\ UNCHANGED closed
  /\ CloseEnd

-------------------------------------------------------------------------------
DrainStep == Prepare \/ TooLarge \/ KeepBatch \/ SendOk \/ SendRetry \/ SendFail \/ Settle
CloseStep == CloseStart \/ CloseLoop \/ CloseSeal \/ CloseUndo

Next ==
  \/ \E ids \in Inputs : Capture(ids)
  \/ Fire \/ Background \/ Flush \/ FlushReturn \/ Close \/ DrainStep \/ CloseStep

(* Callbacks run, timers fire, and every attempt ends, at its timeout if    *)
(* not before.                                                              *)
Scheduling ==
  /\ WF_vars(Fire) /\ WF_vars(Background) /\ WF_vars(FlushReturn)
  /\ WF_vars(DrainStep) /\ WF_vars(CloseStep)

(* A service that is asked for ever acknowledges in the end.                *)
ServiceAnswers == SF_vars(SendOk)

Safety == Init /\ [][Next]_vars
Spec == Safety /\ Scheduling

-------------------------------------------------------------------------------
(* Properties                                                               *)

EventTypeOK ==
  /\ queue \in Seq(Event) /\ captured \in Seq(Event) /\ acked \in Seq(Event)
  /\ pendingIds \subseteq Ids /\ pendingCount \in Nat
  /\ prepared \in Batch /\ built \in Batch
  /\ server \subseteq Batch /\ nextKey \in Nat

ControlTypeOK ==
  /\ drain \in {"none", "prepare", "built", "send", "settle"} /\ outcome \in {"ok", "err"}
  /\ flushing \in {"none", "drain", "catalog"} /\ flushed \in BOOLEAN
  /\ closeAt \in {"none", "start", "drain", "drained", "catalog", "undo"}
  /\ drained \in BOOLEAN /\ closing \in BOOLEAN /\ closed \in BOOLEAN
  /\ watched \in BOOLEAN /\ timer \in BOOLEAN /\ micro \in Seq(Tasks)
  /\ count \in Nat /\ attempt \in Nat /\ accepted \in Nat /\ tally \in Nat
  /\ mark \in Nat /\ owed \in Nat

TypeOK == EventTypeOK /\ ControlTypeOK

Unacked == (built.events \o prepared.events) \o queue

(* No event is lost, duplicated or reordered, also in the moments when a    *)
(* batch is off the queue and not in #preparedBatch yet.                    *)
Conservation == captured = acked \o Unacked

(* #pendingCount and #pendingEventIds describe the unacknowledged events,   *)
(* which have distinct ids and are never more than maxQueueSize.            *)
Accounting ==
  /\ pendingCount = Len(Unacked) /\ pendingCount <= MaxQueue
  /\ pendingIds = EventIds(Unacked)
  /\ \A i, j \in DOMAIN Unacked : Unacked[i].id = Unacked[j].id => i = j

(* What the drain read before an await is still so after it: the events     *)
(* being built are there to be spliced off ("queue state is inconsistent"   *)
(* is never thrown), and a batch is made only when none is kept.            *)
DrainInStep ==
  /\ drain = "prepare" => prepared = NoBatch /\ count \in 1..Len(queue)
  /\ drain = "built" <=> built # NoBatch
  /\ drain = "built" => prepared = NoBatch
  /\ drain = "send" => prepared # NoBatch

(* What the others rest on: types, no event lost, exact books, and awaits    *)
(* across which nothing a drain has read goes stale.                        *)
Consistent == TypeOK /\ Conservation /\ Accounting /\ DrainInStep

(* Retries, timeouts that race their answer, and later drains and closes    *)
(* send the same key with the same events, so that at a service that drops  *)
(* repeated keys each event counts once.                                    *)
ExactlyOnce ==
  /\ \A a, b \in server :
       (a.key = b.key \/ Range(a.events) \cap Range(b.events) # {}) => a = b
  /\ \A i \in DOMAIN acked : \E a \in server : acked[i] \in Range(a.events)

(* close() reports at least the events it found unacknowledged, whichever   *)
(* drains sent them (README: "`accepted` is the number of events drained"). *)
CloseReports == closeAt = "catalog" => tally >= owed

(* A flush() that starts its drain returns after everything captured before *)
(* the call is acknowledged.  A flush() that finds one under way shares its *)
(* promise and does not.                                                    *)
FlushCovers == flushing = "catalog" /\ flushed => Len(acked) >= mark

(* A call that succeeds speaks for what was captured before it.             *)
CallsCover == CloseReports /\ FlushCovers

(* A drain that fails is never ignored: a flush() or a close() waits for    *)
(* it, or it is observed and given to onError.                              *)
NoSilentFailure ==
  [][drain = "settle" /\ outcome = "err" /\ drain' = "none"
     => watched \/ flushing = "drain" \/ closeAt = "drain"]_vars

(* If the service answers, every captured event is acknowledged in the end, *)
(* unless one that is too large for any request has reached the head of the *)
(* queue, where it stops everything behind it.                              *)
EventuallyDelivered ==
  ServiceAnswers => \A n \in 1..MaxCaptured :
    Len(captured) >= n ~> Len(acked) >= n \/ (queue # <<>> /\ queue[1].id \in Oversize)

(* flush() and close() settle, even if the service never answers: attempts  *)
(* time out and retries are bounded.                                        *)
CallsSettle == /\ flushing # "none" ~> flushing = "none"
               /\ closeAt # "none" ~> closeAt = "none"

(* The client implements the bounded FIFO queue of DeliveryQueue.           *)
Queue == INSTANCE DeliveryQueue
           WITH log <- captured, delivered <- acked, sealed <- closed

ImplementsQueue == Queue!Spec
===============================================================================
