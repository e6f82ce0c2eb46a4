---------------------------- MODULE RequestPipeline ----------------------------
(***************************************************************************)
(* The behaviour both Python clients share, packages/python/src/trafficwar/ *)
(* _base.py with the two _send loops: options, normalization of what the    *)
(* application hands to capture(), the build of a request from the queue,   *)
(* its attempts, and the verdict on each response.  The verdict of the Node *)
(* client (client.ts) on the same response is defined beside it.            *)
(*                                                                          *)
(* Captures and the one drain that runs at a time (SyncClientProofs,        *)
(* OneDrainAtATime) interleave.  Time is counted in half seconds.           *)
(***************************************************************************)
EXTENDS Integers, Sequences, FiniteSets, Functions

CONSTANTS
  Ids,           \* event ids
  Items,         \* events the application passes: [id, time, payload], with the
                 \* kind of `timestamp` and of `properties` ("surrogate": a
                 \* string with a lone surrogate)
  RawOptions,    \* option records the constructor is called with
  Bytes,         \* [Ids -> Nat]: the size of an event as JSON
  Packed,        \* [Ids -> Nat]: what it adds to a gzip body
  MaxBatch,      \* MAX_BATCH_EVENTS
  MaxDecoded,    \* MAX_DECODED_BODY_BYTES
  MaxEncoded,    \* MAX_ENCODED_BODY_BYTES
  MaxRetryAfter, \* MAX_RETRY_AFTER_SECONDS
  Answers,       \* the responses of the service
  MaxCaptured    \* bound: events captured in a behaviour

ASSUME ItemAssumption == \A item \in Items : item.id \in Ids

ASSUME SizeAssumption ==
  /\ Bytes \in [Ids -> Nat] /\ Packed \in [Ids -> Nat]
  /\ MaxBatch \in Nat \ {0} /\ MaxDecoded \in Nat /\ MaxEncoded \in Nat
  /\ MaxRetryAfter \in Nat /\ MaxCaptured \in Nat

AtMostOne(values) == values \subseteq Int /\ \A s, t \in values : s = t

(* A response is its status; its Retry-After as float() (number), Node's    *)
(* regular expression (decimal), parsedate_to_datetime (date) and           *)
(* Date.parse (jsDate) read it, {} for what they do not read or what is not *)
(* finite, a date as the time left until it; what Python (body) and Node    *)
(* (nodeBody) make of its JSON; and the `accepted` and `retry_after_secs`   *)
(* in it.  A body is "ok", "error" or "pending" when all fields of such a   *)
(* body are right, "mistyped" when its `status` is a list or an object,     *)
(* "other" any other object and "junk" no object.                           *)
ASSUME AnswerAssumption ==
  \A a \in Answers :
    /\ AtMostOne(a.header.number) /\ AtMostOne(a.header.date) /\ AtMostOne(a.header.jsDate)
    /\ a.header.decimal => a.header.number \subseteq Nat /\ a.header.date = {}
    /\ AtMostOne(a.retrySecs)
    /\ a.body \in {"ok", "error", "pending", "mistyped", "other", "junk"}
    /\ a.nodeBody \in {"ok", "error", "pending", "other", "junk"}

VARIABLES
  options,   \* what the constructor accepted, NoOptions before
  calling,   \* a capture() is consuming the application's iterable
  taken,     \* local `normalized` of _normalize_capture_input
  queue,     \* self._queue
  prepared,  \* self._prepared
  phase,     \* where the drain is
  queued,    \* local `queued` of _prepare_next_batch: its length
  count,     \* local `count` of _prepare_queued_batch
  attempt,   \* local `attempt` of _send
  answer,    \* the response to the last attempt of this _send
  wait,      \* how long _send slept before this attempt
  outcome,   \* how the last drain step ended: "none", "ok" or an error
  captured,  \* history: every event the queue took, in order
  acked      \* history: every acknowledged event, in order

captureVars == <<calling, taken>>
buildVars == <<queued, count>>
sendVars == <<attempt, answer, wait>>
vars == <<options, captureVars, queue, prepared, phase, buildVars, sendVars, outcome,
          captured, acked>>

NoOptions == [maxRetries |-> 0, compression |-> "none", threshold |-> 0, maxQueue |-> 0]
NoRequest == [events |-> <<>>, gzip |-> FALSE]
NoHeader == [number |-> {}, decimal |-> FALSE, date |-> {}, jsDate |-> {}]
NoAnswer == [status |-> 0, header |-> NoHeader, body |-> "junk", nodeBody |-> "junk",
             accepted |-> 0, retrySecs |-> {}]

Prefix(s, k) == SubSeq(s, 1, k)
Minimum(a, b) == IF a < b THEN a ELSE b

Init ==
  /\ options = NoOptions
  /\ calling = FALSE /\ taken = <<>>
  /\ queue = <<>> /\ prepared = NoRequest
  /\ phase = "new" /\ queued = 0 /\ count = 0
  /\ attempt = 0 /\ answer = NoAnswer /\ wait = 0
  /\ outcome = "none"
  /\ captured = <<>> /\ acked = <<>>

-------------------------------------------------------------------------------
(* Options                                                                  *)

(* What _validate_* let through; anything else is a ValidationError.        *)
ValidOptions(o) ==
  /\ o.maxRetries \in Nat
  /\ o.compression \in {"auto", "gzip", "none"}
  /\ o.threshold \in Nat
  /\ o.maxQueue \in Nat \ {0}

Construct ==
  /\ phase = "new"
  /\ \E o \in RawOptions : ValidOptions(o) /\ options' = o
  /\ phase' = "idle"
  /\ UNCHANGED <<captureVars, queue, prepared, buildVars, sendVars, outcome, captured, acked>>

-------------------------------------------------------------------------------
(* capture()                                                                *)

(* _normalize_timestamp: an aware datetime, a finite number or an RFC 3339  *)
(* string; a missing one is set to the current time.                        *)
ValidTime(t) == t \in {"absent", "aware", "number", "rfc3339"}

(* _normalize_event: the other fields have their types and ranges, and the  *)
(* event survives json.dumps and json.loads.  Both accept a string with a   *)
(* lone surrogate.                                                          *)
Normalizes(item) == ValidTime(item.time) /\ item.payload \in {"plain", "surrogate"}

EndCapture == calling' = FALSE /\ taken' = <<>>

CaptureBegin ==
  /\ phase # "new" /\ ~calling
  /\ Len(captured) < MaxCaptured
  /\ calling' = TRUE
  /\ UNCHANGED <<options, taken, queue, prepared, phase, buildVars, sendVars, outcome,
                 captured, acked>>

(* An event is taken, or the call raises: it would be one too many for the  *)
(* whole queue, or it is not valid.                                         *)
Taking(item) ==
  IF Len(taken) < options.maxQueue /\ Normalizes(item)
  THEN taken' = Append(taken, item) /\ UNCHANGED calling
  ELSE EndCapture

(* The iterable yields an event.  It may be endless.                        *)
Take ==
  /\ calling
  /\ \E item \in Items : Taking(item)
  /\ UNCHANGED <<options, queue, prepared, phase, buildVars, sendVars, outcome, captured, acked>>

EventIds(events) == {events[i].id : i \in DOMAIN events}
Pending == prepared.events \o queue

(* Mutant: one call may name an event twice.                                *)
MutEnqueues(events) ==
  /\ events # <<>>
  /\ Len(Pending) + Len(events) <= options.maxQueue
  /\ EventIds(events) \cap EventIds(Pending) = {}

(* The last tests of a call: its ids are distinct, there is room, and no id *)
(* is pending.                                                              *)
Enqueues(events) ==
  /\ events # <<>>
  /\ Cardinality(EventIds(events)) = Len(events)
  /\ Len(Pending) + Len(events) <= options.maxQueue
  /\ EventIds(events) \cap EventIds(Pending) = {}

(* The iterable has ended: all of it is queued, or none and the call raises.*)
CaptureEnd ==
  /\ calling /\ Len(captured) + Len(taken) <= MaxCaptured
  /\ IF Enqueues(taken)
     THEN queue' = queue \o taken /\ captured' = captured \o taken
     ELSE UNCHANGED <<queue, captured>>
  /\ EndCapture
  /\ UNCHANGED <<options, prepared, phase, buildVars, sendVars, outcome, acked>>

-------------------------------------------------------------------------------
(* The build of a request                                                   *)

Encodable(events) == \A i \in DOMAIN events : events[i].payload # "surrogate"

Total(size, events) == SumFunction([i \in DOMAIN events |-> size[events[i].id]])

(* Mutant: the threshold alone decides.                                     *)
MutUsesGzip(events) ==
  \/ options.compression = "gzip"
  \/ options.compression = "auto" /\ Total(Bytes, events) >= options.threshold

(* "auto" compresses from the threshold on, and whatever is too large to be *)
(* sent as it is.                                                           *)
UsesGzip(events) ==
  \/ options.compression = "gzip"
  \/ /\ options.compression = "auto"
     /\ Total(Bytes, events) >= options.threshold \/ Total(Bytes, events) > MaxEncoded

TooLarge(events) ==
  \/ Total(Bytes, events) > MaxDecoded
  \/ Total(IF UsesGzip(events) THEN Packed ELSE Bytes, events) > MaxEncoded

(* Mutant: every drain builds a request.                                    *)
MutResumes == FALSE

(* A request that was built and not acknowledged is sent again.             *)
Resumes == prepared # NoRequest

(* A flush(), close(), or the worker begins a drain, or its loop goes round.*)
Drain ==
  /\ phase = "idle" /\ Pending # <<>>
  /\ outcome' = "none"
  /\ phase' = IF Resumes THEN "send" ELSE "build"
  /\ queued' = Minimum(Len(queue), MaxBatch) /\ count' = queued'
  /\ UNCHANGED <<options, captureVars, queue, prepared, sendVars, captured, acked>>

(* The drain raises.                                                        *)
Raise(error) == phase' = "idle" /\ outcome' = error

Halved(n) == n \div 2

(* One round of _prepare_queued_batch.  The key is part of the request.      *)
Build ==
  LET events == Prefix(queue, count) IN
  /\ phase = "build"
  /\ \/ /\ ~Encodable(events)
        /\ Raise("SerializationError")
        /\ UNCHANGED <<queue, prepared, count>>
     \/ /\ Encodable(events) /\ TooLarge(events) /\ count > 1
        /\ count' = Halved(count)
        /\ UNCHANGED <<queue, prepared, phase, outcome>>
     \/ /\ Encodable(events) /\ TooLarge(events) /\ count = 1
        /\ Raise("ValidationError")
        /\ UNCHANGED <<queue, prepared, count>>
     \/ /\ Encodable(events) /\ ~TooLarge(events)
        /\ prepared' = [events |-> events, gzip |-> UsesGzip(events)]
        /\ queue' = SubSeq(queue, count + 1, Len(queue))
        /\ phase' = "send"
        /\ UNCHANGED <<count, outcome>>
  /\ UNCHANGED <<options, captureVars, queued, sendVars, captured, acked>>

-------------------------------------------------------------------------------
(* The verdict on a response                                                *)

NonNegative(values) == {s \in values : s >= 0}
IsObject(a) == a.body # "junk"

HeaderSeconds(a) == IF a.header.number # {} THEN a.header.number ELSE a.header.date

(* _response_retry_after: the header if it is usable, else the body.        *)
RetryAfter(a) ==
  IF NonNegative(HeaderSeconds(a)) # {} THEN NonNegative(HeaderSeconds(a))
  ELSE IF IsObject(a) THEN NonNegative(a.retrySecs) ELSE {}

Retryable == {408, 425, 500, 502, 503, 504}
Success(a) == a.status \in 200..299

(* Mutant: the service need not have accepted all of the batch.             *)
MutAcknowledges(a, events) == a.body = "ok" /\ a.accepted <= Len(events)

Acknowledges(a, events) == a.body = "ok" /\ a.accepted = Len(events)

StatusError(status) ==
  CASE status = 429 -> "RateLimitError"
    [] status = 409 -> "ConflictError"
    [] status \in {401, 403} -> "AuthenticationError"
    [] status >= 500 \/ status \in {408, 425} -> "ServerError"
    [] OTHER -> "APIError"

(* `response_status not in {"error", "pending"}` hashes the status first.   *)
ErrorFor(a) ==
  CASE a.body = "mistyped" -> "TypeError"
    [] a.body \in {"error", "pending"} -> StatusError(a.status)
    [] a.body \in {"ok", "other", "junk"} -> "ResponseError"

(* _result_or_error.                                                        *)
Verdict(a, events) ==
  IF ~Success(a) THEN ErrorFor(a)
  ELSE IF Acknowledges(a, events) THEN "ok" ELSE "ResponseError"

-------------------------------------------------------------------------------
(* The Node client's verdict on the same response                           *)

(* What fetch rejects, since #send asks for redirect: "error".              *)
Redirects == {301, 302, 303, 307, 308}

(* headerRetryAfterSeconds: a past date counts as now.                      *)
NodeHeaderSeconds(a) ==
  IF a.header.decimal THEN a.header.number
  ELSE {IF s > 0 THEN s ELSE 0 : s \in a.header.jsDate}

NodeRetryAfter(a) ==
  IF NodeHeaderSeconds(a) # {} THEN NodeHeaderSeconds(a)
  ELSE IF a.nodeBody # "junk" THEN NonNegative(a.retrySecs) ELSE {}

NodeAcknowledges(a, events) == a.nodeBody = "ok" /\ a.accepted = Len(events)

(* buildApiError.                                                           *)
NodeError(a) ==
  IF a.nodeBody \notin {"error", "pending"} THEN "ResponseError"
  ELSE IF a.status = 429 THEN "RateLimitError" ELSE "APIError"

(* Attempt number i of #send is followed by another one: a redirect counts  *)
(* as a failure of the transport.                                           *)
NodeRetries(a, i) ==
  /\ i < options.maxRetries
  /\ \/ a.status \in Redirects
     \/ a.status \in Retryable /\ \A s \in NodeRetryAfter(a) : s <= MaxRetryAfter

NodeVerdict(a, events, i) ==
  IF NodeRetries(a, i) THEN "retry"
  ELSE IF a.status \in Redirects THEN "ConnectionError"
  ELSE IF ~Success(a) THEN NodeError(a)
  ELSE IF NodeAcknowledges(a, events) THEN "ok" ELSE "ResponseError"

-------------------------------------------------------------------------------
(* _send                                                                    *)

JitterCap(i) == 2^Minimum(i, 4)

(* A delay of the client's own is none that it would refuse to sleep.       *)
ASSUME JitterAssumption == JitterCap(4) <= MaxRetryAfter

(* _retry_delay after attempt number i, when the service asked to wait.     *)
Delays(i, asked) == {CHOOSE d \in {jitter} \cup asked : \A e \in {jitter} \cup asked : d >= e :
                       jitter \in 0..JitterCap(i)}

AttemptsLeft == attempt < options.maxRetries

SendUnchanged == UNCHANGED <<options, captureVars, queue, buildVars, captured>>

(* The loop of _send is over: the next one begins with attempt 0.           *)
EndSend == attempt' = 0 /\ answer' = NoAnswer /\ wait' = 0

Sleep(delay) == phase' = "sleep" /\ wait' = delay

(* httpx.TransportError: no response, a timeout included.                   *)
TransportFails ==
  /\ phase = "send" /\ attempt <= options.maxRetries
  /\ \/ /\ AttemptsLeft
        /\ \E delay \in Delays(attempt, {}) : Sleep(delay)
        /\ answer' = NoAnswer
        /\ UNCHANGED <<attempt, outcome>>
     \/ ~AttemptsLeft /\ Raise("TransportError") /\ EndSend
  /\ UNCHANGED <<prepared, acked>> /\ SendUnchanged

(* A body that cannot be decoded is an httpx.DecodingError, which is not an *)
(* httpx.TransportError and passes through _send as it is.                  *)
DecodingFails ==
  /\ phase = "send" /\ attempt <= options.maxRetries
  /\ Raise("DecodingError") /\ EndSend
  /\ UNCHANGED <<prepared, acked>> /\ SendUnchanged

Respond ==
  /\ phase = "send" /\ attempt <= options.maxRetries
  /\ answer' \in Answers
  /\ phase' = "judge" /\ wait' = 0
  /\ UNCHANGED <<prepared, attempt, outcome, acked>> /\ SendUnchanged

(* Mutant: every server error is worth another attempt.                     *)
MutRetries(delay) == answer.status >= 500 /\ AttemptsLeft /\ delay <= MaxRetryAfter

Retries(delay) == answer.status \in Retryable /\ AttemptsLeft /\ delay <= MaxRetryAfter

(* A response is retried, acknowledges the batch, or is raised as an error. *)
Judge ==
  /\ phase = "judge"
  /\ \E delay \in Delays(attempt, RetryAfter(answer)) :
       \/ /\ Retries(delay)
          /\ Sleep(delay)
          /\ UNCHANGED <<prepared, attempt, answer, outcome, acked>>
       \/ /\ ~Retries(delay) /\ Verdict(answer, prepared.events) = "ok"
          /\ prepared' = NoRequest
          /\ acked' = acked \o prepared.events
          /\ phase' = "idle" /\ outcome' = "ok" /\ EndSend
       \/ /\ ~Retries(delay) /\ Verdict(answer, prepared.events) # "ok"
          /\ Raise(Verdict(answer, prepared.events)) /\ EndSend
          /\ UNCHANGED <<prepared, acked>>
  /\ SendUnchanged

(* time.sleep or asyncio.sleep is over.                                     *)
Wake ==
  /\ phase = "sleep"
  /\ phase' = "send" /\ attempt' = attempt + 1
  /\ UNCHANGED <<prepared, answer, wait, outcome, acked>> /\ SendUnchanged

-------------------------------------------------------------------------------
DrainStep == Drain \/ Build \/ TransportFails \/ DecodingFails \/ Respond \/ Judge \/ Wake

Next == Construct \/ CaptureBegin \/ Take \/ CaptureEnd \/ DrainStep

(* Something begins a drain of what is pending (the clients' modules), and  *)
(* the drain runs.                                                          *)
Scheduling == WF_vars(DrainStep)

Safety == Init /\ [][Next]_vars
Spec == Safety /\ Scheduling

-------------------------------------------------------------------------------
(* Properties                                                               *)

(* The service, asked again and again, acknowledges in the end.             *)
ServiceAnswers ==
  SF_vars(Respond /\ Success(answer') /\ Acknowledges(answer', prepared.events))

(* The loop of _send has an attempt left whenever it goes round, whatever   *)
(* options the constructor let through: "retry loop exited unexpectedly" is *)
(* never raised.  And no id is pending twice, across calls, within one, and *)
(* between the queue and the request taken from it.                         *)
NoInternalError ==
  /\ phase = "send" => attempt <= options.maxRetries
  /\ Cardinality(EventIds(Pending)) = Len(Pending)

(* The sizes a build may end with, by definition: n or a repeated half.     *)
Halvings(n) == {k \in 1..n : \E i \in 0..n : k = n \div 2^i}

(* How the clients' modules describe a build is what the loop computes: the *)
(* longest halving of the queue's head that fits; and an event is given up  *)
(* only when, alone, it fits neither as it is nor (in "auto") compressed.   *)
BuildsLongest ==
  [][phase = "build" /\ phase' # "build" /\ Encodable(Prefix(queue, count)) =>
       LET sizes == {k \in Halvings(queued) : ~TooLarge(Prefix(queue, k))}
           alone == Prefix(queue, 1)
       IN  \/ /\ phase' = "send"
              /\ prepared'.events = Prefix(queue, count)
              /\ count \in sizes /\ \A k \in sizes : k <= count
           \/ /\ outcome' = "ValidationError" /\ sizes = {}
              /\ \/ Total(Bytes, alone) > MaxDecoded
                 \/ Total(Packed, alone) > MaxEncoded
                 \/ options.compression = "none"]_vars

(* Another attempt of the same _send repeats the same request, no sooner    *)
(* than the service has asked for in the header or else in the body, and    *)
(* never if it asked for more than MAX_RETRY_AFTER_SECONDS.                 *)
AttemptAsAsked ==
  phase = "sleep" /\ phase' = "send" =>
    /\ attempt' <= options.maxRetries /\ prepared' = prepared
    /\ wait <= MaxRetryAfter
    /\ \A s \in HeaderSeconds(answer) : wait >= s
    /\ IsObject(answer) /\ NonNegative(HeaderSeconds(answer)) = {}
         => \A s \in answer.retrySecs : wait >= s
    /\ answer = NoAnswer \/ answer.status \in Retryable

(* A response worth another attempt is raised as an error only by the last  *)
(* attempt, or because of such a delay.                                     *)
RaisedAsLast ==
  phase = "judge" /\ phase' = "idle" /\ answer.status \in Retryable =>
    \/ attempt = options.maxRetries
    \/ \E s \in HeaderSeconds(answer) \cup answer.retrySecs : s > MaxRetryAfter

(* A batch leaves the client only when the service has acknowledged exactly *)
(* its events; every other end of an attempt keeps it, key and all.         *)
ReleasedByAck ==
  prepared # NoRequest /\ prepared' # prepared =>
    /\ prepared' = NoRequest /\ acked' = acked \o prepared.events
    /\ Success(answer) /\ answer.accepted = Len(prepared.events)

(* What follows an attempt is what its answer says, however many attempts   *)
(* came before it: the three formulas above.                                *)
AnswersObeyed == [][AttemptAsAsked /\ RaisedAsLast /\ ReleasedByAck]_vars

(* A response both SDKs read alike: not a redirect, JSON that both parsers  *)
(* and both type systems take for the same, and a Retry-After that is a     *)
(* plain decimal number, or a date to come that both read, or neither.      *)
Plain(a) ==
  /\ a.status \notin Redirects
  /\ a.body = a.nodeBody
  /\ ~a.header.decimal => /\ a.header.number = {} /\ a.header.date = a.header.jsDate
                          /\ NonNegative(a.header.date) = a.header.date

(* The two SDKs agree: whenever they make the same of its body, they release*)
(* the batch or both keep it; and a plain response is retried by both or by *)
(* neither, and is for both malformed, a rate limit or another error.       *)
SameVerdict ==
  LET python == Verdict(answer, prepared.events)
      node == NodeVerdict(answer, prepared.events, attempt)
      shared == {"ok", "ResponseError", "RateLimitError"}
  IN  phase = "judge" =>
        /\ answer.body = answer.nodeBody => (python = "ok" <=> node = "ok")
        /\ Plain(answer) =>
             IF \E delay \in Delays(attempt, RetryAfter(answer)) : Retries(delay)
             THEN node = "retry"
             ELSE node = IF python \in shared THEN python ELSE "APIError"

(* What capture() took can be serialized: "it validates, snapshots, and      *)
(* enqueues the input" (packages/python/README.md:48), so that no drain     *)
(* ends with SerializationError.                                            *)
ValidatedAtEnqueue == outcome # "SerializationError"

Sendable(event) == event.payload # "surrogate" /\ ~TooLarge(<<event>>)

(* An event that can be sent, behind events that can be sent, is            *)
(* acknowledged in the end, whatever is captured after it: unless that is an*)
(* event with a lone surrogate, which stops the events before it as well.   *)
EventuallyDelivered ==
  ServiceAnswers =>
    \A n \in 1..MaxCaptured :
      Len(captured) >= n /\ (\A i \in 1..n : Sendable(captured[i]))
        ~> Len(acked) >= n \/ ~Encodable(queue)
===============================================================================
