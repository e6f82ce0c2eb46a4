------------------------------ MODULE SyncClient ------------------------------
(***************************************************************************)
(* The synchronous Python client, packages/python/src/trafficwar/_client.py *)
(* (class TrafficWar): a bounded in-memory event queue shared, under one    *)
(* threading.Condition, by the threads that call flush() and close(), by    *)
(* any number of threads that call capture(), and by one worker thread that *)
(* flushes automatically.                                                   *)
(*                                                                          *)
(* Every `with self._condition` section is one action, since no other       *)
(* thread sees the state inside it; what runs between two sections (the     *)
(* build of a request, an HTTP attempt) is an action too.  A thread that    *)
(* waits on the condition is in `waitset` until some section notifies.      *)
(***************************************************************************)
EXTENDS Naturals, Sequences, Functions

CONSTANTS
  Callers,       \* threads that call flush() and close()
  Worker,        \* the "trafficwar-flush" thread
  NoThread,      \* no drain (or close) cycle is open
  Ids,           \* event ids
  Oversize,      \* ids of events whose own request body is over the limits
  MaxBatch,      \* MAX_BATCH_EVENTS
  BodyRoom,      \* how many events a request body has room for
  MaxQueue,      \* max_queue_size
  MaxRetries,    \* max_retries
  OwnsClient,    \* the HTTP client was not given by the application
  CloseMayFail,  \* closing the HTTP client may raise
  CallbackCalls, \* what on_error may call: a subset of {"flush", "close"}
  MaxCapture,    \* bound: events of one capture() call
  MaxCaptured    \* bound: events captured in a behaviour

ASSUME ThreadAssumption ==
  /\ Worker \notin Callers
  /\ NoThread \notin Callers \cup {Worker}

ASSUME SizeAssumption ==
  /\ MaxBatch \in Nat \ {0}
  /\ BodyRoom \in Nat
  /\ MaxQueue \in Nat \ {0}
  /\ MaxRetries \in Nat
  /\ MaxCapture \in Nat
  /\ MaxCaptured \in Nat

ASSUME OptionAssumption ==
  /\ Oversize \subseteq Ids
  /\ OwnsClient \in BOOLEAN
  /\ CloseMayFail \in BOOLEAN
  /\ CallbackCalls \subseteq {"flush", "close"}

VARIABLES
  queue,        \* self._queue
  pendingIds,   \* self._pending_event_ids
  pendingCount, \* self._pending_count
  prepared,     \* self._prepared, NoBatch for None
  deadline,     \* self._deadline: "none", "armed", or "due" once passed
  immediate,    \* self._immediate
  drainCycle,   \* the thread that leads self._drain_cycle, or NoThread
  closeCycle,   \* the thread that leads self._close_cycle, or NoThread
  closing,      \* self._closing
  closed,       \* self._closed
  workerStop,   \* self._worker_stop
  httpClosed,   \* self._client is closed
  waitset,      \* threads inside self._condition.wait()
  timed,        \* the worker's wait has a timeout
  pc,           \* where each thread is
  call,         \* the method a thread is inside: "none", "flush", "close"
  cyc,          \* outcome of the cycle a thread leads or waits for
  batch,        \* local `prepared` of _drain and _send
  attempt,      \* local `attempt` of _send
  accepted,     \* local `accepted` of _drain
  tally,        \* local `accepted` of close(): what its FlushResult will report
  mark,         \* history: events captured when the call was made
  owed,         \* history: events unacknowledged when the call was made
  captured,     \* history: every event capture() took, in order
  acked,        \* history: every acknowledged event, in order
  server,       \* history: the requests the ingest service has received
  nextKey       \* history: idempotency keys generated so far

pendingVars == <<queue, pendingIds, pendingCount, captured>>
timerVars == <<deadline, immediate>>
closeVars == <<closeCycle, closing, closed, workerStop, httpClosed>>
waitVars == <<waitset, timed>>
localVars == <<batch, attempt, accepted>>
callVars == <<call, mark, owed>>
vars == <<pendingVars, prepared, timerVars, drainCycle, closeVars, waitVars, pc,
          callVars, cyc, tally, localVars, acked, server, nextKey>>

Threads == Callers \cup {Worker}
Event == [id : Ids, n : Nat]
Batch == [key : Nat, events : Seq(Event)]
NoBatch == [key |-> 0, events |-> <<>>]

EventIds(events) == {events[i].id : i \in DOMAIN events}
Prefix(s, k) == SubSeq(s, 1, k)

DrainPcs == {"d_check", "d_prepare", "d_commit", "d_send", "d_ack", "d_finish"}
ClosePcs == {"c_loop", "c_client", "c_seal", "c_undo"}
Pcs == {"idle", "wait_drain", "wait_close", "w_loop", "w_callback", "w_exit"}
       \cup DrainPcs \cup ClosePcs

(* Where a thread goes when a call returns: a caller to its own code, the   *)
(* worker (whose calls come from on_error) back to its loop.                *)
Home(t) == IF t = Worker THEN "w_loop" ELSE "idle"

Init ==
  /\ queue = <<>> /\ pendingIds = {} /\ pendingCount = 0 /\ captured = <<>>
  /\ prepared = NoBatch
  /\ deadline = "none" /\ immediate = FALSE
  /\ drainCycle = NoThread /\ closeCycle = NoThread
  /\ closing = FALSE /\ closed = FALSE /\ workerStop = FALSE /\ httpClosed = FALSE
  /\ waitset = {} /\ timed = FALSE
  /\ pc = [t \in Threads |-> Home(t)]
  /\ call = [t \in Threads |-> "none"]
  /\ cyc = [t \in Threads |-> "open"]
  /\ batch = [t \in Threads |-> NoBatch]
  /\ attempt = [t \in Threads |-> 0]
  /\ accepted = [t \in Threads |-> 0]
  /\ tally = [t \in Threads |-> 0]
  /\ mark = [t \in Threads |-> 0]
  /\ owed = [t \in Threads |-> 0]
  /\ acked = <<>> /\ server = {} /\ nextKey = 0

(* Mutant: notify() where notify_all() is needed.                           *)
MutNotifyOne == /\ waitset' = IF waitset = {} THEN {} ELSE waitset \ {CHOOSE u \in waitset : TRUE}
                /\ timed' = (timed /\ Worker \in waitset')

(* threading.Condition.notify_all: nobody is left waiting.                  *)
NotifyAll == waitset' = {} /\ timed' = FALSE

(* Leaving a public method resets what belongs to the call.                 *)
Return(t) ==
  /\ call' = [call EXCEPT ![t] = "none"]
  /\ mark' = [mark EXCEPT ![t] = 0]
  /\ owed' = [owed EXCEPT ![t] = 0]

Enter(t, op) ==
  /\ call' = [call EXCEPT ![t] = op]
  /\ mark' = [mark EXCEPT ![t] = Len(captured)]
  /\ owed' = [owed EXCEPT ![t] = pendingCount]

-------------------------------------------------------------------------------
(* capture()                                                                *)

(* What _normalize_capture_input lets through: a non-empty list of events   *)
(* with distinct ids.                                                       *)
Inputs == {ids \in UNION {[1..k -> Ids] : k \in 1..MaxCapture} :
             \A i, j \in DOMAIN ids : ids[i] = ids[j] => i = j}

NewEvents(ids) == [i \in 1..Len(ids) |-> [id |-> ids[i], n |-> Len(captured) + i]]

(* Mutant: a closing client still takes events.                             *)
MutOpen == ~closed

(* Neither closed nor closing.                                              *)
Open == ~closed /\ ~closing

(* Mutant: only the queue counts, not the batch in flight.                  *)
MutHasRoom(ids) == Len(queue) + Len(ids) <= MaxQueue

HasRoom(ids) == pendingCount + Len(ids) <= MaxQueue

Reserved(ids) == \E i \in DOMAIN ids : ids[i] \in pendingIds

(* Mutant: every capture starts the timer again.                            *)
MutDeadlineAfterCapture == IF drainCycle = NoThread THEN "armed" ELSE deadline

(* The first pending event starts the timer, unless a drain will see to it. *)
DeadlineAfterCapture == IF pendingCount = 0 /\ drainCycle = NoThread THEN "armed" ELSE deadline

(* A rejected call raises and changes nothing, so only the accepting path   *)
(* is an action.                                                            *)
Capture(ids) ==
  /\ Len(captured) + Len(ids) <= MaxCaptured
  /\ Open /\ HasRoom(ids) /\ ~Reserved(ids)
  /\ queue' = queue \o NewEvents(ids)
  /\ captured' = captured \o NewEvents(ids)
  /\ pendingIds' = pendingIds \cup {ids[i] : i \in DOMAIN ids}
  /\ pendingCount' = pendingCount + Len(ids)
  /\ IF pendingCount' >= MaxBatch
     THEN deadline' = "none" /\ immediate' = TRUE
     ELSE deadline' = DeadlineAfterCapture /\ UNCHANGED immediate
  /\ NotifyAll
  /\ UNCHANGED <<prepared, drainCycle, closeVars, pc, callVars, cyc, tally,
                 localVars, acked, server, nextKey>>

-------------------------------------------------------------------------------
(* The drain cycle: one leader, any number of threads waiting for it        *)

(* _begin_drain_locked: t leads a new cycle, or joins the open one.         *)
BeginDrain(t) ==
  /\ drainCycle' = IF drainCycle = NoThread THEN t ELSE drainCycle
  /\ pc' = [pc EXCEPT ![t] = IF drainCycle = NoThread THEN "d_check" ELSE "wait_drain"]
  /\ cyc' = [cyc EXCEPT ![t] = "open"]

Drained == pendingCount = 0

(* First section of the _drain loop.                                        *)
DrainCheck(t) ==
  /\ pc[t] = "d_check"
  /\ IF Drained
     THEN /\ pc' = [pc EXCEPT ![t] = "d_finish"]
          /\ cyc' = [cyc EXCEPT ![t] = "ok"]
          /\ UNCHANGED batch
     ELSE /\ pc' = [pc EXCEPT ![t] = IF prepared = NoBatch THEN "d_prepare" ELSE "d_send"]
          /\ batch' = [batch EXCEPT ![t] = prepared]
          /\ UNCHANGED cyc
  /\ UNCHANGED <<pendingVars, prepared, timerVars, drainCycle, closeVars, waitVars,
                 callVars, tally, attempt, accepted, acked, server, nextKey>>

(* The batch sizes _prepare_queued_batch tries for n queued events: n and   *)
(* its repeated halves.                                                     *)
Halvings(n) == {k \in 1..n : \E i \in 0..n : k = n \div 2^i}

Fits(events) == Len(events) <= BodyRoom /\ EventIds(events) \cap Oversize = {}

(* The build takes the first size that fits; a single event that does not   *)
(* fit is a ValidationError, and the queue keeps it.                        *)
BatchSizes == LET n == IF Len(queue) < MaxBatch THEN Len(queue) ELSE MaxBatch
              IN  {k \in Halvings(n) : Fits(Prefix(queue, k))}

(* _prepare_next_batch up to its second section: unless a batch is prepared *)
(* meanwhile, snapshot the queue and build with a fresh idempotency key.    *)
PrepareBatch(t) ==
  /\ pc[t] = "d_prepare"
  /\ \/ /\ prepared # NoBatch
        /\ batch' = [batch EXCEPT ![t] = prepared]
        /\ pc' = [pc EXCEPT ![t] = "d_send"]
        /\ UNCHANGED <<cyc, nextKey>>
     \/ \E k \in BatchSizes :
          /\ prepared = NoBatch
          /\ \A j \in BatchSizes : j <= k
          /\ nextKey' = nextKey + 1
          /\ batch' = [batch EXCEPT ![t] = [key |-> nextKey + 1, events |-> Prefix(queue, k)]]
          /\ pc' = [pc EXCEPT ![t] = "d_commit"]
          /\ UNCHANGED cyc
     \/ /\ prepared = NoBatch /\ BatchSizes = {}
        /\ pc' = [pc EXCEPT ![t] = "d_finish"]
        /\ cyc' = [cyc EXCEPT ![t] = "err"]
        /\ UNCHANGED <<batch, nextKey>>
  /\ UNCHANGED <<pendingVars, prepared, timerVars, drainCycle, closeVars, waitVars,
                 callVars, tally, attempt, accepted, acked, server>>

(* Mutant: a full batch is taken off the queue, whatever was built.         *)
MutPopped(n) == SubSeq(queue, MaxBatch + 1, Len(queue))

(* The queue without its first n events.                                    *)
Popped(n) == SubSeq(queue, n + 1, Len(queue))

(* The second section.  A batch another thread has prepared meanwhile wins; *)
(* otherwise the queue must still begin with the events that were built.    *)
CommitBatch(t) ==
  LET n == Len(batch[t].events)
      inOrder == n <= Len(queue) /\ Prefix(queue, n) = batch[t].events
  IN
  /\ pc[t] = "d_commit"
  /\ prepared' = IF prepared = NoBatch /\ inOrder THEN batch[t] ELSE prepared
  /\ queue' = IF prepared = NoBatch /\ inOrder THEN Popped(n) ELSE queue
  /\ batch' = [batch EXCEPT ![t] = IF prepared = NoBatch THEN batch[t] ELSE prepared]
  /\ IF prepared # NoBatch \/ inOrder
     THEN pc' = [pc EXCEPT ![t] = "d_send"] /\ UNCHANGED cyc
     ELSE pc' = [pc EXCEPT ![t] = "d_finish"] /\ cyc' = [cyc EXCEPT ![t] = "err"]
  /\ UNCHANGED <<pendingIds, pendingCount, captured, timerVars, drainCycle, closeVars,
                 waitVars, callVars, tally, attempt, accepted, acked, server, nextKey>>

(* Mutant: every attempt has its own idempotency key.                       *)
MutTransmit(t, received) ==
  server' = IF received THEN server \cup {[batch[t] EXCEPT !.key = @ + attempt[t]]} ELSE server

(* One attempt of _send.  Whatever the client sees, the service may or may  *)
(* not have received the request, except that it acknowledges only what it  *)
(* received.                                                                *)
Transmit(t, received) == server' = IF received THEN server \cup {batch[t]} ELSE server

SendUnchanged == UNCHANGED <<pendingVars, prepared, timerVars, drainCycle, closeVars,
                             waitVars, callVars, tally, batch, accepted, acked, nextKey>>

(* A well-formed 2xx response.                                              *)
SendOk(t) ==
  /\ pc[t] = "d_send" /\ ~httpClosed
  /\ Transmit(t, TRUE)
  /\ attempt' = [attempt EXCEPT ![t] = 0]
  /\ pc' = [pc EXCEPT ![t] = "d_ack"]
  /\ UNCHANGED cyc /\ SendUnchanged

(* A transport error or a retryable status, with attempts left: sleep and   *)
(* send the same request again.                                             *)
SendRetry(t) ==
  /\ pc[t] = "d_send" /\ ~httpClosed
  /\ attempt[t] < MaxRetries
  /\ \E received \in BOOLEAN : Transmit(t, received)
  /\ attempt' = [attempt EXCEPT ![t] = @ + 1]
  /\ UNCHANGED <<pc, cyc>> /\ SendUnchanged

(* An error that is not retried, or the last attempt: raise.  A closed HTTP *)
(* client raises without sending anything.                                  *)
SendFail(t) ==
  /\ pc[t] = "d_send"
  /\ \E received \in (IF httpClosed THEN {FALSE} ELSE BOOLEAN) : Transmit(t, received)
  /\ attempt' = [attempt EXCEPT ![t] = 0]
  /\ cyc' = [cyc EXCEPT ![t] = "err"]
  /\ pc' = [pc EXCEPT ![t] = "d_finish"]
  /\ SendUnchanged

Remaining(events) == pendingCount - Len(events)

(* Last section of the _drain loop: forget the acknowledged batch, or raise *)
(* if it is no longer the prepared one.                                     *)
Acknowledge(t) ==
  LET events == batch[t].events IN
  /\ pc[t] = "d_ack"
  /\ IF prepared = batch[t]
     THEN /\ prepared' = NoBatch
          /\ pendingCount' = Remaining(events)
          /\ pendingIds' = pendingIds \ EventIds(events)
          /\ acked' = acked \o events
          /\ accepted' = [accepted EXCEPT ![t] = @ + Len(events)]
          /\ NotifyAll
          /\ pc' = [pc EXCEPT ![t] = "d_check"]
          /\ UNCHANGED cyc
     ELSE /\ pc' = [pc EXCEPT ![t] = "d_finish"]
          /\ cyc' = [cyc EXCEPT ![t] = "err"]
          /\ UNCHANGED <<prepared, pendingCount, pendingIds, acked, accepted, waitVars>>
  /\ batch' = [batch EXCEPT ![t] = NoBatch]
  /\ UNCHANGED <<queue, captured, timerVars, drainCycle, closeVars, callVars, tally,
                 attempt, server, nextKey>>

(* Threads waiting for the open drain cycle.                                *)
Joined(u) == pc[u] = "wait_drain" /\ cyc[u] = "open"

(* Mutant: close() does not add up the drain it waited for.                 *)
MutReports(u, t) == call[u] = "close" /\ u = t

(* The call of u adds what t has drained to its FlushResult.                *)
Reports(u, t) == call[u] = "close" /\ (u = t \/ Joined(u))

(* Where the thread goes with the outcome of a drain cycle: flush() returns *)
(* or raises; close() goes on, or undoes itself; the worker loops, and      *)
(* reports an error only if it led the cycle.                               *)
AfterDrain(t, leader) ==
  CASE call[t] = "flush" -> Home(t)
    [] call[t] = "close" -> IF cyc[t] = "ok" THEN "c_loop" ELSE "c_undo"
    [] OTHER -> IF cyc[t] = "err" /\ leader THEN "w_callback" ELSE "w_loop"

(* What leaves a call's frame behind: its FlushResult is delivered.         *)
LeaveDrain(t) ==
  IF call[t] = "close" THEN UNCHANGED callVars ELSE Return(t)

(* _finish_drain, in the leader: the cycle is done for those who wait.      *)
FinishDrain(t) ==
  /\ pc[t] = "d_finish"
  /\ drainCycle' = IF drainCycle = t THEN NoThread ELSE drainCycle
  /\ immediate' = (cyc[t] = "ok" /\ pendingCount >= MaxBatch)
  /\ deadline' = IF pendingCount = 0 \/ immediate' THEN "none"
                 ELSE IF ~closed /\ ~closing /\ ~workerStop THEN "armed" ELSE deadline
  /\ cyc' = [u \in Threads |-> IF Joined(u) THEN cyc[t]
                               ELSE IF u = t THEN "open" ELSE cyc[u]]
  /\ tally' = [u \in Threads |-> IF Reports(u, t) THEN tally[u] + accepted[t] ELSE tally[u]]
  /\ accepted' = [accepted EXCEPT ![t] = 0]
  /\ batch' = [batch EXCEPT ![t] = NoBatch]
  /\ pc' = [pc EXCEPT ![t] = AfterDrain(t, TRUE)]
  /\ LeaveDrain(t)
  /\ NotifyAll
  /\ UNCHANGED <<pendingVars, prepared, closeVars, attempt, acked, server, nextKey>>

(* A thread that waits for somebody else's cycle: wait, wake, re-test.      *)
AwaitDrain(t) ==
  /\ pc[t] = "wait_drain" /\ t \notin waitset
  /\ IF cyc[t] = "open"
     THEN /\ waitset' = waitset \cup {t}
          /\ UNCHANGED <<timed, pc, cyc, callVars>>
     ELSE /\ pc' = [pc EXCEPT ![t] = AfterDrain(t, FALSE)]
          /\ cyc' = [cyc EXCEPT ![t] = "open"]
          /\ LeaveDrain(t)
          /\ UNCHANGED waitVars
  /\ UNCHANGED <<pendingVars, prepared, timerVars, drainCycle, closeVars, tally,
                 localVars, acked, server, nextKey>>

-------------------------------------------------------------------------------
(* flush() and close()                                                      *)

(* A thread that may call op now: an application thread outside the client, *)
(* or the worker inside on_error.                                           *)
MayCall(t, op) == \/ t \in Callers /\ pc[t] = "idle"
                  \/ t = Worker /\ pc[t] = "w_callback" /\ op \in CallbackCalls

(* flush() or close() during somebody's close(): wait for that close().     *)
JoinClose(t, op) ==
  /\ MayCall(t, op)
  /\ ~closed /\ closing
  /\ pc' = [pc EXCEPT ![t] = "wait_close"]
  /\ Enter(t, op)
  /\ UNCHANGED <<pendingVars, prepared, timerVars, drainCycle, closeVars, waitVars,
                 cyc, tally, localVars, acked, server, nextKey>>

(* On a closed client both return an empty result and change nothing.       *)
Flush(t) ==
  /\ MayCall(t, "flush") /\ Open
  /\ deadline' = "none" /\ immediate' = FALSE
  /\ BeginDrain(t)
  /\ Enter(t, "flush")
  /\ NotifyAll
  /\ UNCHANGED <<pendingVars, prepared, closeVars, tally, localVars, acked, server,
                 nextKey>>

(* close(), as the leader of a new close cycle: stop automatic work, then   *)
(* wait for the drain that is active, if any.                               *)
Close(t) ==
  /\ MayCall(t, "close") /\ Open
  /\ closeCycle' = t /\ closing' = TRUE /\ workerStop' = TRUE
  /\ deadline' = "none" /\ immediate' = FALSE
  /\ pc' = [pc EXCEPT ![t] = IF drainCycle = NoThread THEN "c_loop" ELSE "wait_drain"]
  /\ Enter(t, "close")
  /\ NotifyAll
  /\ UNCHANGED <<pendingVars, prepared, drainCycle, closed, httpClosed, cyc, tally,
                 localVars, acked, server, nextKey>>

(* Mutant: close() joins the worker even from the worker's own on_error.    *)
MutWorkerJoined(t) == pc[Worker] = "w_exit"

(* worker.join(), skipped when the worker itself is closing.                *)
WorkerJoined(t) == t = Worker \/ pc[Worker] = "w_exit"

(* The loop of close(): drain until nothing is pending.                     *)
CloseLoop(t) ==
  /\ pc[t] = "c_loop" /\ WorkerJoined(t)
  /\ IF Drained
     THEN pc' = [pc EXCEPT ![t] = "c_client"] /\ UNCHANGED <<cyc, drainCycle, timerVars>>
     ELSE /\ BeginDrain(t)
          /\ IF drainCycle = NoThread
             THEN deadline' = "none" /\ immediate' = FALSE
             ELSE UNCHANGED timerVars
  /\ UNCHANGED <<pendingVars, prepared, closeVars, waitVars, callVars, tally, localVars,
                 acked, server, nextKey>>

ClientUnchanged ==
  UNCHANGED <<pendingVars, prepared, timerVars, drainCycle, closeCycle, closing, closed,
              workerStop, waitVars, callVars, cyc, tally, localVars, acked, server, nextKey>>

(* Close the HTTP client the TrafficWar object owns.                        *)
CloseClient(t) ==
  /\ pc[t] = "c_client"
  /\ httpClosed' = (httpClosed \/ OwnsClient)
  /\ pc' = [pc EXCEPT ![t] = "c_seal"]
  /\ ClientUnchanged

(* httpx counts itself closed before it closes its transport, which may     *)
(* raise; a second close does nothing.                                      *)
CloseClientFails(t) ==
  /\ pc[t] = "c_client" /\ CloseMayFail /\ OwnsClient /\ ~httpClosed
  /\ httpClosed' = TRUE
  /\ pc' = [pc EXCEPT ![t] = "c_undo"]
  /\ ClientUnchanged

(* The close cycle is done, with this outcome, for those who wait for it.   *)
EndCloseCycle(t, outcome) ==
  /\ closing' = FALSE
  /\ closeCycle' = NoThread
  /\ cyc' = [u \in Threads |-> IF pc[u] = "wait_close" /\ cyc[u] = "open"
                               THEN outcome ELSE cyc[u]]
  /\ tally' = [tally EXCEPT ![t] = 0]
  /\ Return(t)
  /\ NotifyAll

(* Last section of a close() that succeeded.                                *)
CloseSeal(t) ==
  /\ pc[t] = "c_seal"
  /\ closed' = TRUE
  /\ EndCloseCycle(t, "ok")
  /\ pc' = [pc EXCEPT ![t] = Home(t)]
  /\ UNCHANGED <<pendingVars, prepared, timerVars, drainCycle, workerStop, httpClosed,
                 localVars, acked, server, nextKey>>

(* t is back in its own code, and a worker thread runs.                     *)
Resumed(t) == [pc EXCEPT ![t] = Home(t), ![Worker] = "w_loop"]

(* The except branch of close(): the client is open again, with a new       *)
(* worker thread unless the worker itself called close().                   *)
CloseUndo(t) ==
  /\ pc[t] = "c_undo" /\ WorkerJoined(t)
  /\ workerStop' = FALSE
  /\ deadline' = IF pendingCount > 0 THEN "armed" ELSE deadline
  /\ EndCloseCycle(t, "err")
  /\ pc' = Resumed(t)
  /\ UNCHANGED <<pendingVars, prepared, immediate, drainCycle, closed, httpClosed,
                 localVars, acked, server, nextKey>>

(* _wait_close_cycle.                                                       *)
AwaitClose(t) ==
  /\ pc[t] = "wait_close" /\ t \notin waitset
  /\ IF cyc[t] = "open"
     THEN waitset' = waitset \cup {t} /\ UNCHANGED <<timed, pc, cyc, callVars>>
     ELSE /\ pc' = [pc EXCEPT ![t] = Home(t)]
          /\ cyc' = [cyc EXCEPT ![t] = "open"]
          /\ Return(t)
          /\ UNCHANGED waitVars
  /\ UNCHANGED <<pendingVars, prepared, timerVars, drainCycle, closeVars, tally,
                 localVars, acked, server, nextKey>>

-------------------------------------------------------------------------------
(* The worker thread                                                        *)

WorkerUnchanged == UNCHANGED <<pendingVars, prepared, closeVars, callVars, tally,
                               localVars, acked, server, nextKey>>

WorkerAwake == pc[Worker] = "w_loop" /\ Worker \notin waitset

(* Mutant: the worker always waits to be notified.                          *)
MutWorkerWait(hasTimeout) ==
  /\ waitset' = waitset \cup {Worker}
  /\ timed' = FALSE
  /\ UNCHANGED <<pc, cyc, drainCycle>>

WorkerWait(hasTimeout) ==
  /\ waitset' = waitset \cup {Worker}
  /\ timed' = hasTimeout
  /\ UNCHANGED <<pc, cyc, drainCycle>>

Due == immediate \/ deadline = "due"

WorkerStop ==
  /\ WorkerAwake /\ workerStop
  /\ pc' = [pc EXCEPT ![Worker] = "w_exit"]
  /\ UNCHANGED <<timerVars, drainCycle, waitVars, cyc>> /\ WorkerUnchanged

WorkerIdle ==
  /\ WorkerAwake /\ ~workerStop /\ pendingCount = 0
  /\ deadline' = "none" /\ immediate' = FALSE
  /\ WorkerWait(FALSE) /\ WorkerUnchanged

(* Join the open cycle, or lead one when it is time.                        *)
WorkerDrain ==
  /\ WorkerAwake /\ ~workerStop /\ pendingCount > 0
  /\ drainCycle # NoThread \/ Due
  /\ IF drainCycle # NoThread THEN UNCHANGED timerVars
     ELSE deadline' = "none" /\ immediate' = FALSE
  /\ BeginDrain(Worker)
  /\ UNCHANGED waitVars /\ WorkerUnchanged

WorkerSleep ==
  /\ WorkerAwake /\ ~workerStop /\ pendingCount > 0
  /\ drainCycle = NoThread /\ ~Due
  /\ deadline' = "armed" /\ UNCHANGED immediate
  /\ WorkerWait(TRUE) /\ WorkerUnchanged

(* A timed wait ends on its own, at the deadline or at the 24 h cap.        *)
WorkerTimeout ==
  /\ Worker \in waitset /\ timed
  /\ waitset' = waitset \ {Worker} /\ timed' = FALSE
  /\ UNCHANGED <<timerVars, drainCycle, pc, cyc>> /\ WorkerUnchanged

(* on_error returns (or raises, which is suppressed).                       *)
WorkerCallback ==
  /\ pc[Worker] = "w_callback"
  /\ pc' = [pc EXCEPT ![Worker] = "w_loop"]
  /\ UNCHANGED <<timerVars, drainCycle, waitVars, cyc>> /\ WorkerUnchanged

(* Time passes the deadline.                                                *)
Tick ==
  /\ deadline = "armed" /\ deadline' = "due"
  /\ UNCHANGED <<immediate, drainCycle, waitVars, pc, cyc>> /\ WorkerUnchanged

-------------------------------------------------------------------------------
DrainStep(t) ==
  \/ DrainCheck(t) \/ PrepareBatch(t) \/ CommitBatch(t)
  \/ SendOk(t) \/ SendRetry(t) \/ SendFail(t)
  \/ Acknowledge(t) \/ FinishDrain(t) \/ AwaitDrain(t)

CloseStep(t) ==
  \/ CloseLoop(t) \/ CloseClient(t) \/ CloseClientFails(t) \/ CloseSeal(t) \/ CloseUndo(t)
  \/ AwaitClose(t)

WorkerStep ==
  \/ WorkerStop \/ WorkerIdle \/ WorkerDrain \/ WorkerSleep \/ WorkerTimeout
  \/ WorkerCallback

Call(t) == Flush(t) \/ Close(t) \/ \E op \in {"flush", "close"} : JoinClose(t, op)

(* A closed client with every thread at home has nothing left to do.        *)
Terminated ==
  /\ closed
  /\ \A t \in Callers : pc[t] = "idle"
  /\ pc[Worker] = "w_exit"
  /\ UNCHANGED vars

Next ==
  \/ \E ids \in Inputs : Capture(ids)
  \/ \E t \in Threads : Call(t) \/ DrainStep(t) \/ CloseStep(t)
  \/ WorkerStep
  \/ Tick
  \/ Terminated

(* Threads run, the clock advances, and a service that is asked for ever    *)
(* acknowledges in the end; nobody is obliged to call anything.             *)
Fairness ==
  /\ \A t \in Threads : WF_vars(DrainStep(t) \/ CloseStep(t)) /\ SF_vars(SendOk(t))
  /\ WF_vars(WorkerStep)
  /\ WF_vars(Tick)

Safety == Init /\ [][Next]_vars
Spec == Safety /\ Fairness

-------------------------------------------------------------------------------
(* Properties                                                               *)

(* The types of the variables: the events, the shared control state, where  *)
(* each thread is, and the counters of its calls.                           *)
EventTypeOK ==
  /\ queue \in Seq(Event) /\ captured \in Seq(Event) /\ acked \in Seq(Event)
  /\ pendingIds \subseteq Ids /\ pendingCount \in Nat
  /\ prepared \in Batch /\ batch \in [Threads -> Batch]
  /\ server \subseteq Batch /\ nextKey \in Nat

ControlTypeOK ==
  /\ deadline \in {"none", "armed", "due"} /\ immediate \in BOOLEAN
  /\ drainCycle \in Threads \cup {NoThread} /\ closeCycle \in Threads \cup {NoThread}
  /\ closing \in BOOLEAN /\ closed \in BOOLEAN
  /\ workerStop \in BOOLEAN /\ httpClosed \in BOOLEAN
  /\ waitset \subseteq Threads /\ timed \in BOOLEAN

ThreadTypeOK ==
  /\ pc \in [Threads -> Pcs]
  /\ call \in [Threads -> {"none", "flush", "close"}]
  /\ cyc \in [Threads -> {"open", "ok", "err"}]

CountTypeOK ==
  /\ attempt \in [Threads -> Nat] /\ accepted \in [Threads -> Nat]
  /\ tally \in [Threads -> Nat] /\ mark \in [Threads -> Nat] /\ owed \in [Threads -> Nat]

TypeOK == EventTypeOK /\ ControlTypeOK /\ ThreadTypeOK /\ CountTypeOK

(* No event is lost, duplicated or reordered: at every moment the captured  *)
(* events are the acknowledged ones, then the prepared batch, then the      *)
(* queue (_drain, _prepare_next_batch and _enqueue move them).              *)
Conservation == captured = acked \o prepared.events \o queue

(* _pending_count and _pending_event_ids, kept in three different sections, *)
(* describe exactly the events not acknowledged yet; these have distinct    *)
(* ids and never exceed max_queue_size, the batch in flight included.       *)
Accounting ==
  LET unacked == prepared.events \o queue IN
  /\ pendingCount = Len(unacked) /\ pendingCount <= MaxQueue
  /\ pendingIds = EventIds(unacked)
  /\ \A i, j \in DOMAIN unacked : unacked[i].id = unacked[j].id => i = j

(* One thread drains at a time, and _drain_cycle is open exactly as long.   *)
SingleFlight == \A t \in Threads : pc[t] \in DrainPcs <=> drainCycle = t

(* State read in one section of a drain is still true in the next one: a    *)
(* built batch still heads the queue when it is committed, and what is on   *)
(* the wire is _prepared, so neither RuntimeError of the drain is raised.   *)
BatchInStep ==
  \A t \in Threads :
    /\ pc[t] = "d_commit" => /\ prepared = NoBatch
                             /\ Len(batch[t].events) <= Len(queue)
                             /\ Prefix(queue, Len(batch[t].events)) = batch[t].events
    /\ pc[t] \in {"d_send", "d_ack"} => prepared = batch[t] /\ prepared # NoBatch

(* At a service that drops a repeated idempotency key every event counts    *)
(* once, and nothing is acknowledged that the service has not received:     *)
(* retries, failed drains and failed closes resend the same key and body.   *)
ExactlyOnce ==
  /\ \A a, b \in server :
       (a.key = b.key \/ Range(a.events) \cap Range(b.events) # {}) => a = b
  /\ \A i \in DOMAIN acked : \E a \in server : acked[i] \in Range(a.events)

(* Once close() has found the queue empty nothing is pending any more and   *)
(* nobody drains until it is over: the HTTP client is never closed under a  *)
(* request, and a closed client has delivered everything it ever took.      *)
QuietAfterClose ==
  (closed \/ \E t \in Threads : pc[t] \in {"c_client", "c_seal"})
    => /\ pendingCount = 0 /\ acked = captured
       /\ \A t \in Threads : pc[t] \notin DrainPcs

(* Nobody sleeps through the notification it needs: a thread is parked only *)
(* while its cycle is still open, and the worker only while no batch is     *)
(* full, it need not stop, and its timeout covers what is pending.          *)
NoLostWakeup ==
  \A t \in waitset :
    /\ cyc[t] = "open"
    /\ pc[t] = "wait_drain" => drainCycle # NoThread
    /\ pc[t] = "wait_close" => closing
    /\ pc[t] = "w_loop" => ~workerStop /\ ~immediate /\ (pendingCount = 0 \/ timed)

(* Pending events of an open client always have a live worker: it exits     *)
(* only for a close(), and a close() that fails brings it back.             *)
WorkerAlive == pendingCount > 0 /\ ~closing /\ ~closed => pc[Worker] # "w_exit"

(* The method a thread is in returns successfully.                          *)
Succeeds(t, op) == call[t] = op /\ call'[t] = "none" /\ cyc[t] = "ok"

(* flush(): "Drain all queued and in-flight events".                        *)
FlushCovers ==
  [][\A t \in Threads : Succeeds(t, "flush") => Len(acked) >= mark[t]]_vars

(* What holds of it: a flush() that leads its drain, or waits for a close(),*)
(* returns after everything captured before the call is acknowledged.       *)
LeaderFlushCovers(t) ==
  Succeeds(t, "flush") /\ pc[t] # "wait_drain" => Len(acked) >= mark[t]

(* close() reports at least every event it found queued or in flight: it    *)
(* adds the drain it waited for to the drains it led (README: `accepted` is *)
(* the number of events drained).                                           *)
CloseReports(t) == pc[t] = "c_seal" => tally[t] >= owed[t]

(* A call that succeeds speaks for what was captured before it.             *)
CallsCover == [][\A t \in Threads : LeaderFlushCovers(t) /\ CloseReports(t)]_vars

(* A prepared batch leaves _prepared only by being acknowledged as a whole: *)
(* after any failure the same key and events are sent again.                *)
SameBatchRetried ==
  [][prepared # NoBatch => \/ prepared' = prepared
                           \/ prepared' = NoBatch /\ acked' = acked \o prepared.events]_vars

(* The flush timer runs from the first pending event: captures that follow  *)
(* never postpone a flush that is due.                                      *)
DeadlineKept ==
  [][deadline = "due" /\ pendingCount' > pendingCount => deadline' = "due" \/ immediate']_vars

(* README: "Failed batches stay queued, and a later automatic attempt,      *)
(* `close`, or `aclose` retries them": an open client can still send.       *)
OpenIsUsable == Open => ~httpClosed

(* Every captured event is acknowledged in the end, whoever flushes, unless *)
(* a close() of the HTTP client that failed has left the client open        *)
(* without a usable one.                                                    *)
EventuallyDelivered ==
  \A n \in 1..MaxCaptured :
    Len(captured) >= n ~> Len(acked) >= n \/ ~OpenIsUsable

(* The client implements the bounded FIFO queue of DeliveryQueue.           *)
Queue == INSTANCE DeliveryQueue
           WITH log <- captured, delivered <- acked, sealed <- closed

ImplementsQueue == Queue!Spec

(* Every flush() and close() returns or raises.                             *)
CallsReturn == \A t \in Threads : call[t] # "none" ~> call[t] = "none"
===============================================================================
