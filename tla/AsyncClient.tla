------------------------------ MODULE AsyncClient ------------------------------
(***************************************************************************)
(* The asynchronous Python client, packages/python/src/trafficwar/          *)
(* _async_client.py (class AsyncTrafficWar): a bounded in-memory event      *)
(* queue on one asyncio loop, with a worker task that flushes               *)
(* automatically, at most one drain task, and at most one close task.       *)
(*                                                                          *)
(* No `async with lock` section awaits anything, so the lock is always free *)
(* and taking it never suspends: an action is a stretch of code between two *)
(* awaits that do suspend (a task, a thread, a request, a sleep, the wake   *)
(* event).  Tasks that are ready run in any order, but see Turn.  Callers   *)
(* of flush() and aclose() only wait, shielded, for the drain or the close  *)
(* task; cancelled or not, they have no state here.                         *)
(***************************************************************************)
EXTENDS Naturals, Sequences, Functions

CONSTANTS
  Ids,          \* event ids
  Oversize,     \* ids of events whose own request body is over the limits
  MaxBatch,     \* MAX_BATCH_EVENTS
  BodyRoom,     \* how many events a request body has room for
  MaxQueue,     \* max_queue_size
  MaxRetries,   \* max_retries
  OwnsClient,   \* the HTTP client was not given by the application
  CloseMayFail, \* closing the HTTP client may raise
  MaxCapture,   \* bound: events of one capture() call
  MaxCaptured   \* bound: events captured in a behaviour

ASSUME AsyncAssumption ==
  /\ MaxBatch \in Nat \ {0} /\ MaxQueue \in Nat \ {0}
  /\ BodyRoom \in Nat /\ MaxRetries \in Nat
  /\ MaxCapture \in Nat /\ MaxCaptured \in Nat
  /\ OwnsClient \in BOOLEAN /\ CloseMayFail \in BOOLEAN
  /\ Oversize \subseteq Ids

VARIABLES
  queue,        \* self._queue
  pendingIds,   \* self._pending_event_ids
  pendingCount, \* self._pending_count
  captured,     \* history: every event capture() took, in order
  prepared,     \* self._prepared, NoBatch for None
  deadline,     \* self._deadline: "none", "armed", or "due" once passed
  immediate,    \* self._immediate
  worker,       \* self._worker_task: "none", what it waits for, or "done"
  workerStop,   \* self._worker_stop
  drain,        \* where self._drain_task is, or "none"
  queued,       \* its local `queued` in _prepare_next_batch
  batch,        \* its local `prepared`
  attempt,      \* its local `attempt` in _send
  accepted,     \* its local `accepted`
  outcome,      \* result of the last drain task: "ok" or "err"
  closeAt,      \* where self._close_task is, or "none"
  closing,      \* self._closing
  closed,       \* self._closed
  tally,        \* the close task's local `accepted`
  ahead,        \* a step of the drain is queued before the first of the close task
  owed,         \* history: events unacknowledged when aclose() was called
  httpClosed,   \* self._client is closed
  mark,         \* history: events captured at the last flush() of this drain
  acked,        \* history: every acknowledged event, in order
  server,       \* history: the requests the ingest service has received
  nextKey       \* history: idempotency keys generated so far

pendingVars == <<queue, pendingIds, pendingCount, captured>>
timerVars == <<deadline, immediate>>
workerVars == <<worker, workerStop>>
drainVars == <<drain, queued, batch, attempt, accepted, outcome, mark>>
closeVars == <<closeAt, closing, closed, tally, ahead, owed, httpClosed>>
serviceVars == <<acked, server, nextKey>>
vars == <<pendingVars, prepared, timerVars, workerVars, drainVars, closeVars, serviceVars>>

Event == [id : Ids, n : Nat]
Batch == [key : Nat, events : Seq(Event)]
NoBatch == [key |-> 0, events |-> <<>>]

EventIds(events) == {events[i].id : i \in DOMAIN events}
Prefix(s, k) == SubSeq(s, 1, IF k < Len(s) THEN k ELSE Len(s))

Init ==
  /\ queue = <<>> /\ pendingIds = {} /\ pendingCount = 0 /\ captured = <<>>
  /\ prepared = NoBatch
  /\ deadline = "none" /\ immediate = FALSE
  /\ worker = "none" /\ workerStop = FALSE
  /\ drain = "none" /\ queued = <<>> /\ batch = NoBatch /\ attempt = 0
  /\ accepted = 0 /\ outcome = "ok" /\ mark = 0
  /\ closeAt = "none" /\ closing = FALSE /\ closed = FALSE
  /\ tally = 0 /\ ahead = FALSE /\ owed = 0 /\ httpClosed = FALSE
  /\ acked = <<>> /\ server = {} /\ nextKey = 0

Open == ~closed /\ ~closing

(* The worker w after wake.set().  The event itself carries no state: the   *)
(* worker is alone to wait for it, and clears it each time before it does.  *)
Woken(w) == IF w \in {"idle", "sleep"} THEN "loop" ELSE w

(* _ensure_runtime: the worker task, started by the first call.             *)
Runtime == IF worker = "none" \/ (Open /\ worker = "done") THEN "loop" ELSE worker

(* _start_drain_locked: the running drain task, or a new one.               *)
StartDrain == IF drain = "none" THEN "start" ELSE drain

-------------------------------------------------------------------------------
(* capture() and flush()                                                    *)

(* What _normalize_capture_input, run in a thread, lets through.            *)
Inputs == {ids \in UNION {[1..k -> Ids] : k \in 1..MaxCapture} :
             \A i, j \in DOMAIN ids : ids[i] = ids[j] => i = j}

NewEvents(ids) == [i \in 1..Len(ids) |-> [id |-> ids[i], n |-> Len(captured) + i]]

(* What was tested before the thread ran is tested again after it.          *)
StillOpen == Open

(* Mutant: only the queue counts, not the batch in flight.                  *)
MutHasRoom(ids) == Len(queue) + Len(ids) <= MaxQueue

HasRoom(ids) == pendingCount + Len(ids) <= MaxQueue

Reserved(ids) == \E i \in DOMAIN ids : ids[i] \in pendingIds

Capture(ids) ==
  /\ Len(captured) + Len(ids) <= MaxCaptured
  /\ StillOpen /\ HasRoom(ids) /\ ~Reserved(ids)
  /\ queue' = queue \o NewEvents(ids)
  /\ captured' = captured \o NewEvents(ids)
  /\ pendingIds' = pendingIds \cup {ids[i] : i \in DOMAIN ids}
  /\ pendingCount' = pendingCount + Len(ids)
  /\ IF pendingCount' >= MaxBatch THEN deadline' = "none" /\ immediate' = TRUE
     ELSE /\ deadline' = IF pendingCount = 0 /\ drain = "none" THEN "armed" ELSE deadline
          /\ UNCHANGED immediate
  /\ worker' = Woken(Runtime)
  /\ UNCHANGED <<prepared, workerStop, drainVars, closeVars, serviceVars>>

(* A call that is rejected has started the worker all the same.             *)
Rejected ==
  /\ ~closed
  /\ worker' = Runtime
  /\ UNCHANGED <<pendingVars, prepared, timerVars, workerStop, drainVars, closeVars,
                 serviceVars>>

(* flush() of an open client; during a close() it waits for that.           *)
Flush ==
  /\ Open
  /\ deadline' = "none" /\ immediate' = FALSE
  /\ drain' = StartDrain
  /\ mark' = Len(captured)
  /\ worker' = Woken(Runtime)
  /\ UNCHANGED <<pendingVars, prepared, workerStop, queued, batch, attempt, accepted,
                 outcome, closeVars, serviceVars>>

-------------------------------------------------------------------------------
(* The drain task                                                           *)

(* The finally of _run_drain, with this many events pending and acknowledged*)
(* in all: the task ends, and whoever awaits it is ready.                   *)
Finish(result, pending, total) ==
  /\ drain' = "none" /\ queued' = <<>> /\ batch' = NoBatch /\ accepted' = 0
  /\ outcome' = result /\ mark' = 0
  /\ immediate' = (result = "ok" /\ pending >= MaxBatch)
  /\ deadline' = IF pending = 0 \/ immediate' THEN "none"
                 ELSE IF Open /\ ~workerStop THEN "armed" ELSE deadline
  /\ worker' = IF worker = "join" THEN "loop" ELSE Woken(worker)
  /\ IF closeAt = "drain"
     THEN /\ closeAt' = "drained"
          /\ tally' = IF result = "ok" THEN tally + total ELSE tally
     ELSE UNCHANGED <<closeAt, tally>>

(* Mutant: the drain ends when the queue is empty.                          *)
MutDrained(pending) == queue = <<>>

Drained(pending) == pending = 0

(* The head of its loop: end, send what an earlier drain has prepared, or   *)
(* give a snapshot of the queue to a thread that builds the request.        *)
DrainLoop(pending, kept, total) ==
  IF Drained(pending) THEN Finish("ok", pending, total)
  ELSE /\ drain' = IF kept = NoBatch THEN "prepare" ELSE "send"
       /\ queued' = IF kept = NoBatch THEN Prefix(queue, MaxBatch) ELSE <<>>
       /\ batch' = kept /\ accepted' = total
       /\ UNCHANGED <<outcome, mark, timerVars, worker, closeAt, tally>>

(* The event loop runs what is queued first: before a close task begins, the *)
(* drain has a turn only if it was queued already, and only one.            *)
Turn ==
  /\ closeAt = "start" => ahead
  /\ ahead' = FALSE
  /\ UNCHANGED <<workerStop, closing, closed, owed, httpClosed, captured>>

DrainBegin ==
  /\ drain = "start"
  /\ DrainLoop(pendingCount, prepared, 0)
  /\ UNCHANGED <<queue, pendingIds, pendingCount, prepared, attempt, serviceVars>>
  /\ Turn

Halvings(n) == {k \in 1..n : \E i \in 0..n : k = n \div 2^i}

Fits(events) == Len(events) <= BodyRoom /\ EventIds(events) \cap Oversize = {}

BatchSizes == {k \in Halvings(Len(queued)) : Fits(Prefix(queued, k))}

(* Mutant: the whole snapshot is taken off the queue.                       *)
MutPopped(k) == SubSeq(queue, Len(queued) + 1, Len(queue))

Popped(k) == SubSeq(queue, k + 1, Len(queue))

(* The thread has built the request: take its events off the queue, unless  *)
(* they no longer head it.                                                  *)
Prepare ==
  /\ drain = "prepare"
  /\ \E k \in BatchSizes :
       /\ \A j \in BatchSizes : j <= k
       /\ nextKey' = nextKey + 1
       /\ IF Prefix(queue, k) = Prefix(queued, k)
          THEN /\ prepared' = [key |-> nextKey + 1, events |-> Prefix(queued, k)]
               /\ batch' = prepared' /\ queue' = Popped(k)
               /\ drain' = "send" /\ queued' = <<>>
               /\ UNCHANGED <<accepted, outcome, mark, timerVars, worker, closeAt, tally>>
          ELSE Finish("err", pendingCount, accepted) /\ UNCHANGED <<prepared, queue>>
  /\ UNCHANGED <<pendingIds, pendingCount, attempt, acked, server>> /\ Turn

(* A single event does not fit: a ValidationError, and the queue keeps it.  *)
TooLarge ==
  /\ drain = "prepare" /\ BatchSizes = {}
  /\ Finish("err", pendingCount, accepted)
  /\ UNCHANGED <<queue, pendingIds, pendingCount, prepared, attempt, serviceVars>>
  /\ Turn

(* Mutant: every attempt has its own idempotency key.                       *)
MutTransmit(received) ==
  server' = IF received THEN server \cup {[batch EXCEPT !.key = @ + attempt]} ELSE server

(* An attempt over an HTTP client that is open, received or not.            *)
Transmit(received) == server' = IF received THEN server \cup {batch} ELSE server

Remaining == pendingCount - Len(batch.events)

(* A well-formed 2xx response: forget the batch, and round the loop.        *)
SendOk ==
  /\ drain = "send" /\ ~httpClosed
  /\ Transmit(TRUE)
  /\ attempt' = 0
  /\ IF prepared = batch
     THEN /\ prepared' = NoBatch
          /\ pendingCount' = Remaining
          /\ pendingIds' = pendingIds \ EventIds(batch.events)
          /\ acked' = acked \o batch.events
          /\ DrainLoop(pendingCount', NoBatch, accepted + Len(batch.events))
     ELSE /\ Finish("err", pendingCount, accepted)
          /\ UNCHANGED <<prepared, pendingCount, pendingIds, acked>>
  /\ UNCHANGED <<queue, nextKey>> /\ Turn

(* A transport error or a retryable status, with attempts left.             *)
SendRetry ==
  /\ drain = "send" /\ ~httpClosed /\ attempt < MaxRetries
  /\ \E received \in BOOLEAN : Transmit(received)
  /\ attempt' = attempt + 1
  /\ UNCHANGED <<queue, pendingIds, pendingCount, prepared, drain, queued, batch, accepted,
                 outcome, mark, timerVars, worker, closeAt, tally, acked, nextKey>>
  /\ Turn

(* A failed batch stays where it is.                                        *)
Kept == UNCHANGED <<prepared, queue>>

(* An error that is not retried, or the last attempt.                       *)
SendFail ==
  /\ drain = "send"
  /\ \E received \in (IF httpClosed THEN {FALSE} ELSE BOOLEAN) : Transmit(received)
  /\ attempt' = 0
  /\ Kept
  /\ Finish("err", pendingCount, accepted)
  /\ UNCHANGED <<pendingIds, pendingCount, acked, nextKey>> /\ Turn

-------------------------------------------------------------------------------
(* The worker task                                                          *)

WorkerUnchanged == UNCHANGED <<pendingVars, prepared, workerStop, queued, batch, attempt,
                               accepted, outcome, mark, closeVars, serviceVars>>

WorkerStop ==
  /\ worker = "loop" /\ workerStop
  /\ worker' = "done"
  /\ UNCHANGED <<timerVars, drain>> /\ WorkerUnchanged

WorkerIdle ==
  /\ worker = "loop" /\ ~workerStop /\ pendingCount = 0
  /\ deadline' = "none" /\ immediate' = FALSE
  /\ worker' = "idle"
  /\ UNCHANGED drain /\ WorkerUnchanged

Due == immediate \/ deadline = "due"

(* Await the running drain, or one begun now that it is time.               *)
WorkerDrain ==
  /\ worker = "loop" /\ ~workerStop /\ pendingCount > 0
  /\ drain # "none" \/ Due
  /\ IF drain # "none" THEN UNCHANGED timerVars ELSE deadline' = "none" /\ immediate' = FALSE
  /\ drain' = StartDrain
  /\ worker' = "join"
  /\ WorkerUnchanged

WorkerSleep ==
  /\ worker = "loop" /\ ~workerStop /\ pendingCount > 0
  /\ drain = "none" /\ ~Due
  /\ deadline' = "armed" /\ UNCHANGED immediate
  /\ worker' = "sleep"
  /\ UNCHANGED drain /\ WorkerUnchanged

(* wait_for times out, perhaps a little early.                              *)
WorkerTimeout ==
  /\ worker = "sleep"
  /\ worker' = "loop"
  /\ UNCHANGED <<timerVars, drain>> /\ WorkerUnchanged

(* Time passes the deadline.                                                *)
Tick ==
  /\ deadline = "armed" /\ deadline' = "due"
  /\ UNCHANGED <<immediate, worker, drain>> /\ WorkerUnchanged

-------------------------------------------------------------------------------
(* aclose() and its task                                                    *)

(* aclose() of an open client; later calls wait for the same task.          *)
Close ==
  /\ Open
  /\ closing' = TRUE /\ workerStop' = TRUE /\ closeAt' = "start"
  /\ deadline' = "none" /\ immediate' = FALSE
  /\ owed' = pendingCount /\ ahead' \in {FALSE, drain # "none"}
  /\ worker' = Woken(Runtime)
  /\ UNCHANGED <<pendingVars, prepared, drainVars, closed, tally, httpClosed, serviceVars>>

CloseUnchanged == UNCHANGED <<pendingVars, prepared, queued, batch, attempt, accepted,
                              outcome, mark, serviceVars>>

(* Await the active drain, if there still is one, and then the worker.      *)
CloseStart ==
  /\ closeAt = "start"
  /\ closeAt' = IF drain # "none" THEN "drain" ELSE "worker"
  /\ UNCHANGED <<timerVars, workerVars, drain, closing, closed, tally, owed, httpClosed>>
  /\ ahead' = FALSE /\ CloseUnchanged

(* Mutant: close() tries again for as long as events are pending.           *)
MutGivesUp == FALSE

(* A drain that fails ends close().                                         *)
GivesUp == outcome = "err"

(* A drain that was awaited is over.  It is the last one that ran: nothing  *)
(* but the close task begins a drain meanwhile.                             *)
CloseDrained ==
  /\ closeAt = "drained"
  /\ closeAt' = IF GivesUp THEN "undo" ELSE "worker"
  /\ UNCHANGED <<timerVars, workerVars, drain, closing, closed, tally, ahead, owed, httpClosed>>
  /\ CloseUnchanged

(* The worker that close() awaits, also before it gives up.                 *)
WorkerDone == worker = "done"

(* Its loop: drain until nothing is pending.                                *)
CloseLoop ==
  /\ closeAt = "worker" /\ WorkerDone
  /\ IF pendingCount = 0 THEN closeAt' = "client" /\ UNCHANGED drain
     ELSE closeAt' = "drain" /\ drain' = StartDrain
  /\ UNCHANGED <<timerVars, workerVars, closing, closed, tally, ahead, owed, httpClosed>>
  /\ CloseUnchanged

CloseEnd ==
  /\ closeAt' = "none" /\ closing' = FALSE /\ tally' = 0 /\ owed' = 0
  /\ UNCHANGED <<immediate, drain, ahead>> /\ CloseUnchanged

(* Close the HTTP client if it is the client's own, and seal.               *)
CloseSeal ==
  /\ closeAt = "client"
  /\ httpClosed' = (httpClosed \/ OwnsClient)
  /\ closed' = TRUE /\ worker' = "none"
  /\ UNCHANGED <<deadline, workerStop>>
  /\ CloseEnd

(* httpx counts itself closed before it closes its transport, which may     *)
(* raise; a second close does nothing.                                      *)
CloseClientFails ==
  /\ closeAt = "client" /\ CloseMayFail /\ OwnsClient /\ ~httpClosed
  /\ httpClosed' = TRUE /\ closeAt' = "undo"
  /\ UNCHANGED <<timerVars, workerVars, drain, closing, closed, tally, ahead, owed>>
  /\ CloseUnchanged

(* Mutant: a failed close leaves the client without a worker.               *)
MutRestarted == worker

(* The worker task after a failed close.                                    *)
Restarted == "loop"

CloseUndo ==
  /\ closeAt = "undo" /\ WorkerDone
  /\ workerStop' = FALSE
  /\ deadline' = IF pendingCount > 0 THEN "armed" ELSE deadline
  /\ worker' = Restarted
  /\ UNCHANGED <<closed, httpClosed>>
  /\ CloseEnd

-------------------------------------------------------------------------------
DrainStep == DrainBegin \/ Prepare \/ TooLarge \/ SendOk \/ SendRetry \/ SendFail
WorkerStep == WorkerStop \/ WorkerIdle \/ WorkerDrain \/ WorkerSleep \/ WorkerTimeout
CloseStep == CloseStart \/ CloseDrained \/ CloseLoop \/ CloseSeal \/ CloseClientFails
             \/ CloseUndo

(* A closed client is left with nothing to do.                              *)
Terminated == closed /\ drain = "none" /\ worker = "none" /\ UNCHANGED vars

Next ==
  \/ \E ids \in Inputs : Capture(ids)
  \/ Rejected \/ Flush \/ Close
  \/ DrainStep \/ WorkerStep \/ CloseStep \/ Tick \/ Terminated

(* Tasks that are ready run, attempts and threads end, time passes.         *)
Scheduling ==
  WF_vars(DrainStep) /\ WF_vars(WorkerStep) /\ WF_vars(CloseStep) /\ WF_vars(Tick)

(* A service that is asked for ever acknowledges in the end.                *)
ServiceAnswers == SF_vars(SendOk)

Safety == Init /\ [][Next]_vars
Spec == Safety /\ Scheduling

-------------------------------------------------------------------------------
(* Properties                                                               *)

EventTypeOK ==
  /\ queue \in Seq(Event) /\ captured \in Seq(Event) /\ acked \in Seq(Event)
  /\ queued \in Seq(Event)
  /\ pendingIds \subseteq Ids /\ pendingCount \in Nat
  /\ prepared \in Batch /\ batch \in Batch
  /\ server \subseteq Batch /\ nextKey \in Nat

ControlTypeOK ==
  /\ deadline \in {"none", "armed", "due"} /\ immediate \in BOOLEAN
  /\ worker \in {"none", "loop", "idle", "sleep", "join", "done"} /\ workerStop \in BOOLEAN
  /\ drain \in {"none", "start", "prepare", "send"} /\ outcome \in {"ok", "err"}
  /\ closeAt \in {"none", "start", "drain", "drained", "worker", "client", "undo"}
  /\ closing \in BOOLEAN /\ closed \in BOOLEAN /\ ahead \in BOOLEAN /\ httpClosed \in BOOLEAN
  /\ attempt \in Nat /\ accepted \in Nat /\ tally \in Nat /\ owed \in Nat /\ mark \in Nat

TypeOK == EventTypeOK /\ ControlTypeOK

(* No event is lost, duplicated or reordered on its way from the queue      *)
(* through _prepared to the service.                                        *)
Conservation == captured = acked \o prepared.events \o queue

(* _pending_count and _pending_event_ids describe the unacknowledged events,*)
(* which have distinct ids and are never more than max_queue_size.          *)
Accounting ==
  LET unacked == prepared.events \o queue IN
  /\ pendingCount = Len(unacked) /\ pendingCount <= MaxQueue
  /\ pendingIds = EventIds(unacked)
  /\ \A i, j \in DOMAIN unacked : unacked[i].id = unacked[j].id => i = j

(* What a drain read before an await is still so after it: its snapshot     *)
(* still heads the queue when the thread is done, and what is on the wire is*)
(* _prepared, so that no "inconsistent" RuntimeError is ever raised.        *)
DrainInStep ==
  /\ drain = "prepare" => /\ prepared = NoBatch /\ queued # <<>>
                          /\ Prefix(queue, Len(queued)) = queued
  /\ drain = "send" => prepared = batch /\ prepared # NoBatch

(* What the others rest on: types, no event lost, exact books, and awaits    *)
(* across which nothing a drain has read goes stale.                        *)
Consistent == TypeOK /\ Conservation /\ Accounting /\ DrainInStep

(* Retries, later drains and closes send the same key with the same events, *)
(* so that at a service that drops repeated keys each event counts once.    *)
ExactlyOnce ==
  /\ \A a, b \in server :
       (a.key = b.key \/ Range(a.events) \cap Range(b.events) # {}) => a = b
  /\ \A i \in DOMAIN acked : \E a \in server : acked[i] \in Range(a.events)

(* flush(): "Drain all queued and in-flight events".  Unlike the threads of *)
(* the synchronous client, a drain task finds nothing pending and ends in   *)
(* one step, so that also a flush() that joined it has what it asked for.   *)
FlushCovers == [][drain # "none" /\ drain' = "none" /\ outcome' = "ok" => Len(acked') >= mark]_vars

(* README: "`accepted` is the number of events drained": aclose() reports   *)
(* at least the events that were unacknowledged when it was called.  It does*)
(* not, when a drain ends between the call and the close task's first step. *)
CloseReports == closeAt = "client" => tally >= owed

(* README: "Failed batches stay queued, and a later automatic attempt,      *)
(* `close`, or `aclose` retries them": an open client can still send.       *)
OpenIsUsable == Open => ~httpClosed

(* If the service answers, every captured event is acknowledged in the end, *)
(* unless one that is too large for any request has reached the head of the *)
(* queue, where it stops everything behind it, or a close() of the HTTP     *)
(* client that failed has left the client open without a usable one.        *)
EventuallyDelivered ==
  ServiceAnswers => \A n \in 1..MaxCaptured :
    Len(captured) >= n ~> \/ Len(acked) >= n
                          \/ queue # <<>> /\ queue[1].id \in Oversize
                          \/ ~OpenIsUsable

(* What flush() and aclose() wait for ends, even if the service never       *)
(* answers: attempts time out and retries are bounded.                      *)
CallsSettle == /\ drain # "none" ~> drain = "none"
               /\ closeAt # "none" ~> closeAt = "none"

(* The client implements the bounded FIFO queue of DeliveryQueue.           *)
Queue == INSTANCE DeliveryQueue
           WITH log <- captured, delivered <- acked, sealed <- closed

ImplementsQueue == Queue!Spec
===============================================================================
