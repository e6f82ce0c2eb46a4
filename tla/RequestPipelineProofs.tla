------------------------- MODULE RequestPipelineProofs -------------------------
(***************************************************************************)
(* Theorems about the requests of the Python clients, for any events and    *)
(* sizes, any options the constructor lets through and any responses.       *)
(*                                                                          *)
(* The argument: a sleep follows an attempt that was not the last and obeys *)
(* its answer (SleepInStep); a build is at a repeated half of what it began *)
(* with, all longer ones being too large (HalvingInStep), and stays so as   *)
(* captures only append.  What is needed of powers of two is read off the   *)
(* sets of subsets, which have as many elements.                            *)
(***************************************************************************)
EXTENDS RequestPipeline, FiniteSetTheorems, TLAPS

-------------------------------------------------------------------------------
(* The delays                                                               *)

LEMMA JitterBound ==
  ASSUME NEW i \in Nat
  PROVE  JitterCap(i) \in 1..16 /\ JitterCap(i) <= MaxRetryAfter
<1>1. 2^0 = 1 /\ 2^1 = 2 /\ 2^2 = 4 /\ 2^3 = 8 /\ 2^4 = 16
  OBVIOUS
<1>2. Minimum(4, 4) = 4
  BY DEF Minimum
<1>3. 16 <= MaxRetryAfter
  BY <1>1, <1>2, JitterAssumption DEF JitterCap
<1>4. Minimum(i, 4) \in {0, 1, 2, 3, 4}
  BY DEF Minimum
<1>5. JitterCap(i) \in {2^0, 2^1, 2^2, 2^3, 2^4}
  BY <1>4, Zenon DEF JitterCap
<1> QED BY <1>1, <1>3, <1>5, SizeAssumption

Longest(S) == CHOOSE d \in S : \A e \in S : d >= e

LEMMA LongestOf ==
  ASSUME NEW j \in Nat, NEW S, AtMostOne(S)
  PROVE  /\ Longest({j} \cup S) \in {j} \cup S
         /\ \A e \in {j} \cup S : Longest({j} \cup S) >= e
<1>1. \E d \in {j} \cup S : \A e \in {j} \cup S : d >= e
  <2>1. CASE S = {}
    BY <2>1
  <2>2. CASE S # {}
    <3>1. PICK s \in S : TRUE
      BY <2>2
    <3>2. s \in Int /\ S = {s}
      BY <3>1 DEF AtMostOne
    <3>3. CASE s >= j
      BY <3>2, <3>3
    <3>4. CASE ~(s >= j)
      BY <3>2, <3>4
    <3> QED BY <3>3, <3>4
  <2> QED BY <2>1, <2>2
<1> QED BY <1>1 DEF Longest

(* The delay after a failed attempt is the longer of the jitter and what    *)
(* the service has asked for, and the jitter may be nothing.                *)
LEMMA DelayIs ==
  ASSUME NEW i \in Nat, NEW S, AtMostOne(S)
  PROVE  /\ \A d \in Delays(i, S) : \E j \in 0..JitterCap(i) :
              d \in {j} \cup S /\ \A e \in {j} \cup S : d >= e
         /\ \E d \in Delays(i, S) : d \in {0} \cup S /\ \A e \in {0} \cup S : d >= e
<1>1. JitterCap(i) \in Nat /\ 0 \in 0..JitterCap(i)
  BY JitterBound
<1>2. Delays(i, S) = {Longest({j} \cup S) : j \in 0..JitterCap(i)}
  BY Zenon DEF Delays, Longest
<1>3. ASSUME NEW d \in Delays(i, S)
      PROVE  \E j \in 0..JitterCap(i) : d \in {j} \cup S /\ \A e \in {j} \cup S : d >= e
  <2>1. PICK j \in 0..JitterCap(i) : d = Longest({j} \cup S)
    BY <1>2
  <2>2. j \in Nat
    BY <1>1
  <2> QED BY <2>1, <2>2, LongestOf
<1>4. Longest({0} \cup S) \in Delays(i, S)
  BY <1>1, <1>2
<1>5. /\ Longest({0} \cup S) \in {0} \cup S
      /\ \A e \in {0} \cup S : Longest({0} \cup S) >= e
  BY LongestOf
<1> QED BY <1>3, <1>4, <1>5

(* What is assumed of the responses of the service.                         *)
WellFormed(a) ==
  /\ AtMostOne(a.header.number) /\ AtMostOne(a.header.date) /\ AtMostOne(a.header.jsDate)
  /\ a.header.decimal => a.header.number \subseteq Nat /\ a.header.date = {}
  /\ AtMostOne(a.retrySecs)
  /\ a.body \in {"ok", "error", "pending", "mistyped", "other", "junk"}
  /\ a.nodeBody \in {"ok", "error", "pending", "other", "junk"}

LEMMA AskedOnce ==
  ASSUME NEW a, WellFormed(a)
  PROVE  /\ AtMostOne(HeaderSeconds(a)) /\ AtMostOne(a.retrySecs)
         /\ AtMostOne(RetryAfter(a)) /\ \A s \in RetryAfter(a) : s >= 0
<1>1. AtMostOne(HeaderSeconds(a)) /\ AtMostOne(a.retrySecs)
  BY Zenon DEF WellFormed, HeaderSeconds
<1> QED BY <1>1 DEF AtMostOne, RetryAfter, NonNegative

LEMMA AnswersWellFormed == WellFormed(NoAnswer) /\ \A a \in Answers : WellFormed(a)
<1>1. WellFormed(NoAnswer)
  BY DEF NoAnswer, NoHeader, WellFormed, AtMostOne
<1>2. \A a \in Answers : WellFormed(a)
  BY AnswerAssumption, Zenon DEF WellFormed
<1> QED BY <1>1, <1>2

-------------------------------------------------------------------------------
(* The verdicts                                                             *)

LEMMA StatusErrorIs ==
  ASSUME NEW status
  PROVE  /\ status = 429 => StatusError(status) = "RateLimitError"
         /\ status # 429 => StatusError(status) \notin {"ok", "ResponseError", "RateLimitError"}
         /\ StatusError(status) # "ok"
<1>1. CASE status = 429
  BY <1>1 DEF StatusError
<1>2. CASE status # 429
  BY <1>2 DEF StatusError
<1> QED BY <1>1, <1>2

LEMMA ErrorIs ==
  ASSUME NEW a, WellFormed(a)
  PROVE  /\ a.body = "mistyped" => ErrorFor(a) = "TypeError"
         /\ a.body \in {"error", "pending"} => ErrorFor(a) = StatusError(a.status)
         /\ a.body \in {"ok", "other", "junk"} => ErrorFor(a) = "ResponseError"
         /\ ErrorFor(a) # "ok"
<1>1. CASE a.body = "mistyped"
  BY <1>1 DEF ErrorFor
<1>2. CASE a.body \in {"error", "pending"}
  <2>1. ErrorFor(a) = StatusError(a.status)
    BY <1>2 DEF ErrorFor
  <2> QED BY <1>2, <2>1, StatusErrorIs
<1>3. CASE a.body \in {"ok", "other", "junk"}
  BY <1>3 DEF ErrorFor
<1> QED BY <1>1, <1>2, <1>3 DEF WellFormed

LEMMA VerdictIs ==
  ASSUME NEW a, WellFormed(a), NEW events
  PROVE  /\ Verdict(a, events) = "ok" <=> Success(a) /\ Acknowledges(a, events)
         /\ Success(a) /\ ~Acknowledges(a, events) => Verdict(a, events) = "ResponseError"
         /\ ~Success(a) => Verdict(a, events) = ErrorFor(a)
<1>1. ErrorFor(a) # "ok"
  BY ErrorIs
<1> QED BY <1>1 DEF Verdict

(* No success is worth another attempt.                                     *)
LEMMA SuccessIsFinal ==
  ASSUME NEW a, Success(a)
  PROVE  a.status \notin Retryable /\ a.status \notin Redirects
BY DEF Success, Retryable, Redirects

LEMMA NodeVerdictIs ==
  ASSUME NEW a, NEW events, NEW i
  PROVE  /\ NodeVerdict(a, events, i) = "ok" <=> Success(a) /\ NodeAcknowledges(a, events)
         /\ Success(a) /\ ~NodeAcknowledges(a, events) => NodeVerdict(a, events, i) = "ResponseError"
         /\ NodeRetries(a, i) => NodeVerdict(a, events, i) = "retry"
         /\ ~NodeRetries(a, i) /\ ~Success(a) /\ a.status \notin Redirects =>
              NodeVerdict(a, events, i) = NodeError(a)
<1>1. NodeError(a) # "ok"
  BY DEF NodeError
<1>2. Success(a) => ~NodeRetries(a, i) /\ a.status \notin Redirects
  BY SuccessIsFinal, Zenon DEF NodeRetries
<1>3. CASE NodeRetries(a, i)
  BY <1>2, <1>3, Zenon DEF NodeVerdict
<1>4. CASE ~NodeRetries(a, i) /\ a.status \in Redirects
  BY <1>2, <1>4, Zenon DEF NodeVerdict
<1>5. CASE ~NodeRetries(a, i) /\ a.status \notin Redirects /\ ~Success(a)
  BY <1>1, <1>5, Zenon DEF NodeVerdict
<1>6. CASE Success(a)
  BY <1>2, <1>6, Zenon DEF NodeVerdict
<1> QED BY <1>3, <1>4, <1>5, <1>6

(* From a plain response, the two SDKs read the same delay.                 *)
LEMMA SameRetryAfter ==
  ASSUME NEW a, WellFormed(a), Plain(a)
  PROVE  NodeRetryAfter(a) = RetryAfter(a)
<1>1. NodeHeaderSeconds(a) = NonNegative(HeaderSeconds(a))
  <2>1. CASE a.header.decimal
    <3>1. a.header.number \subseteq Nat /\ a.header.date = {}
      BY <2>1 DEF WellFormed
    <3>2. HeaderSeconds(a) = a.header.number
      BY <3>1, Zenon DEF HeaderSeconds
    <3>3. NonNegative(a.header.number) = a.header.number
      BY <3>1 DEF NonNegative
    <3> QED BY <2>1, <3>2, <3>3 DEF NodeHeaderSeconds
  <2>2. CASE ~a.header.decimal
    <3> DEFINE date == a.header.date
    <3>1. a.header.number = {} /\ a.header.jsDate = date /\ NonNegative(date) = date
      BY <2>2 DEF Plain
    <3>2. HeaderSeconds(a) = date
      BY <3>1, Zenon DEF HeaderSeconds
    <3>3. \A s \in date : s \in Int /\ s >= 0
      BY <3>1 DEF NonNegative, WellFormed, AtMostOne
    <3>4. NodeHeaderSeconds(a) = {IF s > 0 THEN s ELSE 0 : s \in date}
      BY <2>2, <3>1, Zenon DEF NodeHeaderSeconds
    <3> HIDE DEF date
    <3>5. {IF s > 0 THEN s ELSE 0 : s \in date} = date
      BY <3>3
    <3> QED BY <3>1, <3>2, <3>4, <3>5
  <2> QED BY <2>1, <2>2
<1>2. a.nodeBody # "junk" <=> IsObject(a)
  BY DEF Plain, IsObject
<1> QED BY <1>1, <1>2, Zenon DEF NodeRetryAfter, RetryAfter

(* Python has another attempt exactly when Node has.                        *)
LEMMA SameRetries ==
  ASSUME attempt \in Nat, WellFormed(answer), Plain(answer)
  PROVE  (\E delay \in Delays(attempt, RetryAfter(answer)) : Retries(delay))
           <=> NodeRetries(answer, attempt)
<1> DEFINE asked == RetryAfter(answer)
<1>1. AtMostOne(asked) /\ (\A s \in asked : s \in Int /\ s >= 0) /\ NodeRetryAfter(answer) = asked
  BY AskedOnce, SameRetryAfter DEF AtMostOne
<1> HIDE DEF asked
<1>2. /\ \A d \in Delays(attempt, asked) : \E j \in 0..JitterCap(attempt) :
            d \in {j} \cup asked /\ \A e \in {j} \cup asked : d >= e
      /\ \E d \in Delays(attempt, asked) : d \in {0} \cup asked /\ \A e \in {0} \cup asked : d >= e
  BY <1>1, DelayIs
<1>3. ASSUME NEW delay \in Delays(attempt, asked), Retries(delay)
      PROVE  NodeRetries(answer, attempt)
  <2>1. \A s \in asked : delay >= s
    BY <1>2
  <2>2. PICK j \in 0..JitterCap(attempt) : delay \in {j} \cup asked
    BY <1>2
  <2>3. delay \in Int
    BY <1>1, <2>2
  <2>4. delay <= MaxRetryAfter /\ answer.status \in Retryable /\ attempt < options.maxRetries
    BY <1>3 DEF Retries, AttemptsLeft
  <2>5. \A s \in asked : s <= MaxRetryAfter
    BY <1>1, <2>1, <2>3, <2>4, SizeAssumption
  <2> QED BY <1>1, <2>4, <2>5 DEF NodeRetries
<1>4. ASSUME NodeRetries(answer, attempt)
      PROVE  \E delay \in Delays(attempt, asked) : Retries(delay)
  <2>1. PICK d \in Delays(attempt, asked) : d \in {0} \cup asked
    BY <1>2
  <2>2. /\ answer.status \in Retryable /\ attempt < options.maxRetries
        /\ \A s \in asked : s <= MaxRetryAfter
    BY <1>1, <1>4 DEF NodeRetries, Plain
  <2>3. d <= MaxRetryAfter
    BY <2>1, <2>2, SizeAssumption
  <2> QED BY <2>2, <2>3 DEF Retries, AttemptsLeft
<1> QED BY <1>3, <1>4 DEF asked

LEMMA Agreement ==
  ASSUME attempt \in Nat, WellFormed(answer)
  PROVE  SameVerdict
<1> DEFINE retried == \E delay \in Delays(attempt, RetryAfter(answer)) : Retries(delay)
           python == Verdict(answer, prepared.events)
           node == NodeVerdict(answer, prepared.events, attempt)
           shared == {"ok", "ResponseError", "RateLimitError"}
<1>1. ASSUME answer.body = answer.nodeBody
      PROVE  /\ Acknowledges(answer, prepared.events) <=> NodeAcknowledges(answer, prepared.events)
             /\ python = "ok" <=> node = "ok"
  <2>1. Acknowledges(answer, prepared.events) <=> NodeAcknowledges(answer, prepared.events)
    BY <1>1 DEF Acknowledges, NodeAcknowledges
  <2> QED BY <2>1, VerdictIs, NodeVerdictIs
<1>2. ASSUME Plain(answer)
      PROVE  IF retried THEN node = "retry"
             ELSE node = IF python \in shared THEN python ELSE "APIError"
  <2>1. answer.status \notin Redirects /\ answer.body = answer.nodeBody
    BY <1>2 DEF Plain
  <2>2. retried <=> NodeRetries(answer, attempt)
    BY <1>2, SameRetries
  <2> HIDE DEF retried
  <2>3. CASE retried
    BY <2>2, <2>3, NodeVerdictIs
  <2>4. CASE ~retried /\ Success(answer)
    <3>1. node = python /\ python \in {"ok", "ResponseError"}
      BY <1>1, <2>1, <2>4, VerdictIs, NodeVerdictIs
    <3> QED BY <2>4, <3>1
  <2>5. CASE ~retried /\ ~Success(answer)
    <3>1. python = ErrorFor(answer) /\ node = NodeError(answer)
      BY <2>1, <2>2, <2>5, VerdictIs, NodeVerdictIs
    <3> HIDE DEF python, node
    <3>2. CASE answer.body \notin {"error", "pending"}
      <4>1. answer.body \in {"ok", "other", "junk"}
        BY <2>1, <3>2 DEF WellFormed
      <4>2. python = "ResponseError" /\ node = "ResponseError"
        BY <2>1, <3>1, <3>2, <4>1, ErrorIs DEF NodeError
      <4> QED BY <2>5, <4>2
    <3>3. CASE answer.body \in {"error", "pending"}
      <4>1. /\ python = StatusError(answer.status)
            /\ node = IF answer.status = 429 THEN "RateLimitError" ELSE "APIError"
        BY <2>1, <3>1, <3>3, ErrorIs DEF NodeError
      <4>2. CASE answer.status = 429
        BY <2>5, <4>1, <4>2, StatusErrorIs
      <4>3. CASE answer.status # 429
        <5>1. python \notin shared /\ node = "APIError"
          BY <4>1, <4>3, StatusErrorIs
        <5> QED BY <2>5, <5>1
      <4> QED BY <4>2, <4>3
    <3> QED BY <3>2, <3>3
  <2> QED BY <2>3, <2>4, <2>5
<1> HIDE DEF retried, python, node
<1>3. /\ answer.body = answer.nodeBody => (python = "ok" <=> node = "ok")
      /\ Plain(answer) =>
           IF retried THEN node = "retry"
           ELSE node = IF python \in shared THEN python ELSE "APIError"
  BY <1>1, <1>2
<1> QED BY <1>3, Zenon DEF SameVerdict, retried, python, node

-------------------------------------------------------------------------------
(* The ids of a list of events                                              *)

LEMMA EventAssoc ==
  ASSUME NEW a \in Seq(Items), NEW b \in Seq(Items), NEW c \in Seq(Items)
  PROVE  a \o (b \o c) = (a \o b) \o c
OBVIOUS

LEMMA IdsCard ==
  ASSUME NEW s \in Seq(Items)
  PROVE  /\ IsFiniteSet(EventIds(s)) /\ Cardinality(EventIds(s)) \in Nat
         /\ Cardinality(EventIds(s)) <= Len(s)
<1>1. Len(s) \in Nat /\ DOMAIN s = 1..Len(s)
  OBVIOUS
<1> DEFINE f == [i \in 1..Len(s) |-> s[i].id]
<1>2. IsFiniteSet(1..Len(s)) /\ Cardinality(1..Len(s)) = Len(s)
  BY <1>1, FS_Interval
<1>3. f \in Surjection(1..Len(s), EventIds(s))
  BY <1>1 DEF EventIds, Surjection
<1>4. IsFiniteSet(EventIds(s)) /\ Cardinality(EventIds(s)) <= Len(s)
  BY <1>2, <1>3, FS_Surjection
<1> QED BY <1>4, FS_CardinalityType

LEMMA IdsConcat ==
  ASSUME NEW s \in Seq(Items), NEW q \in Seq(Items)
  PROVE  EventIds(s \o q) = EventIds(s) \cup EventIds(q)
<1> DEFINE c == s \o q
<1>1. Len(s) \in Nat /\ Len(q) \in Nat /\ DOMAIN s = 1..Len(s) /\ DOMAIN q = 1..Len(q)
  OBVIOUS
<1>2. /\ DOMAIN c = 1..(Len(s) + Len(q))
      /\ \A i \in 1..Len(s) : c[i] = s[i]
      /\ \A i \in 1..Len(q) : c[Len(s) + i] = q[i]
  OBVIOUS
<1> HIDE DEF c
<1>3. ASSUME NEW i \in DOMAIN c PROVE c[i].id \in EventIds(s) \cup EventIds(q)
  <2>1. CASE i \in 1..Len(s)
    BY <1>1, <1>2, <2>1 DEF EventIds
  <2>2. CASE i \notin 1..Len(s)
    <3>1. i - Len(s) \in 1..Len(q) /\ c[i] = q[i - Len(s)]
      BY <1>1, <1>2, <2>2
    <3> QED BY <1>1, <3>1 DEF EventIds
  <2> QED BY <2>1, <2>2
<1>4. ASSUME NEW i \in 1..Len(s) PROVE s[i].id \in EventIds(c)
  <2>1. i \in DOMAIN c /\ c[i] = s[i]
    BY <1>1, <1>2
  <2> QED BY <2>1 DEF EventIds
<1>5. ASSUME NEW i \in 1..Len(q) PROVE q[i].id \in EventIds(c)
  <2>1. Len(s) + i \in DOMAIN c /\ c[Len(s) + i] = q[i]
    BY <1>1, <1>2
  <2> QED BY <2>1 DEF EventIds
<1> QED BY <1>1, <1>3, <1>4, <1>5 DEF EventIds, c

(* No id occurs twice in a list.                                            *)
Distinct(s) == Cardinality(EventIds(s)) = Len(s)

LEMMA DistinctConcat ==
  ASSUME NEW s \in Seq(Items), NEW q \in Seq(Items), Distinct(s), Distinct(q),
         EventIds(s) \cap EventIds(q) = {}
  PROVE  Distinct(s \o q)
<1>1. IsFiniteSet(EventIds(s)) /\ IsFiniteSet(EventIds(q))
  BY IdsCard
<1>2. Cardinality(EventIds(s) \cup EventIds(q)) =
        Cardinality(EventIds(s)) + Cardinality(EventIds(q)) - Cardinality(EventIds(s) \cap EventIds(q))
  BY <1>1, FS_Union
<1>3. Cardinality(EventIds(s) \cap EventIds(q)) = 0
  BY FS_EmptySet
<1>4. Len(s \o q) = Len(s) + Len(q) /\ Len(s) \in Nat /\ Len(q) \in Nat
  OBVIOUS
<1>5. Cardinality(EventIds(s)) = Len(s) /\ Cardinality(EventIds(q)) = Len(q)
  BY DEF Distinct
<1>6. Cardinality(EventIds(s) \cup EventIds(q)) = Len(s) + Len(q)
  BY <1>2, <1>3, <1>4, <1>5
<1>7. EventIds(s \o q) = EventIds(s) \cup EventIds(q)
  BY IdsConcat
<1>8. Cardinality(EventIds(s \o q)) = Len(s) + Len(q)
  BY <1>6, <1>7
<1> QED BY <1>4, <1>8 DEF Distinct

LEMMA DistinctTail ==
  ASSUME NEW s \in Seq(Items), NEW q \in Seq(Items), Distinct(s \o q)
  PROVE  Distinct(q)
<1> DEFINE S == EventIds(s)
           Q == EventIds(q)
<1>1. /\ IsFiniteSet(S) /\ Cardinality(S) \in Nat /\ Cardinality(S) <= Len(s)
      /\ IsFiniteSet(Q) /\ Cardinality(Q) \in Nat /\ Cardinality(Q) <= Len(q)
  BY IdsCard
<1>2. Cardinality(S \cup Q) = Cardinality(S) + Cardinality(Q) - Cardinality(S \cap Q)
  BY <1>1, FS_Union
<1>3. Cardinality(S \cap Q) \in Nat
  BY <1>1, FS_Intersection, FS_CardinalityType
<1>4. Len(s \o q) = Len(s) + Len(q) /\ Len(s) \in Nat /\ Len(q) \in Nat
  OBVIOUS
<1>5. Cardinality(S \cup Q) = Len(s \o q)
  BY IdsConcat DEF Distinct
<1> HIDE DEF S, Q
<1>6. Cardinality(Q) = Len(q)
  BY <1>1, <1>2, <1>3, <1>4, <1>5
<1> QED BY <1>6 DEF Q, Distinct

-------------------------------------------------------------------------------
(* The inductive invariant                                                  *)

Types ==
  /\ phase \in {"new", "idle", "build", "send", "judge", "sleep"}
  /\ taken \in Seq(Items) /\ queue \in Seq(Items) /\ prepared.events \in Seq(Items)
  /\ attempt \in Nat /\ WellFormed(answer)
  /\ phase # "new" => ValidOptions(options)

(* A build has no request to send again, and a part of the queue to pack.   *)
BuildInStep == phase = "build" => prepared = NoRequest /\ count \in 1..Len(queue)

(* A sleep obeys the answer before it, and another attempt follows it.      *)
SleepInStep ==
  /\ phase \in {"new", "idle", "build"} => attempt = 0
  /\ phase \in {"send", "judge"} => attempt <= options.maxRetries
  /\ phase = "sleep" =>
       /\ attempt < options.maxRetries
       /\ wait \in 0..MaxRetryAfter /\ \A s \in RetryAfter(answer) : wait >= s
       /\ answer = NoAnswer \/ answer.status \in Retryable

IInv == Types /\ BuildInStep /\ SleepInStep /\ Distinct(Pending)

LEMMA InitIInv == Init => IInv
<1> SUFFICES ASSUME Init PROVE IInv
  OBVIOUS
<1>1. /\ phase = "new" /\ taken = <<>> /\ queue = <<>> /\ prepared.events = <<>> /\ attempt = 0
      /\ answer = NoAnswer
  BY DEF Init, NoRequest
<1>2. Pending = <<>>
  BY <1>1 DEF Pending
<1>3. EventIds(<<>>) = {}
  BY DEF EventIds
<1>4. Distinct(Pending)
  BY <1>2, <1>3, FS_EmptySet DEF Distinct
<1>5. Types
  BY <1>1, AnswersWellFormed DEF Types
<1> QED BY <1>1, <1>4, <1>5 DEF IInv, BuildInStep, SleepInStep

-------------------------------------------------------------------------------
(* One lemma per action                                                     *)

LEMMA AsideSteps ==
  ASSUME IInv, Construct \/ CaptureBegin \/ Take
  PROVE  IInv'
<1> USE DEF IInv, Types, BuildInStep, SleepInStep
<1>1. UNCHANGED <<queue, prepared, attempt, answer, wait, count>>
  BY DEF Construct, CaptureBegin, Take, sendVars, buildVars
<1>2. Pending' = Pending
  BY <1>1 DEF Pending
<1>3. Distinct(Pending)'
  BY <1>2 DEF Distinct, EventIds
<1>4. CASE Construct
  BY <1>1, <1>3, <1>4 DEF Construct, captureVars
<1>5. CASE CaptureBegin
  BY <1>1, <1>3, <1>5 DEF CaptureBegin
<1>6. CASE Take
  <2>1. UNCHANGED <<options, phase>>
    BY <1>6 DEF Take
  <2>2. PICK item \in Items : Taking(item)
    BY <1>6 DEF Take
  <2>3. taken' \in Seq(Items)
    <3>1. CASE Len(taken) < options.maxQueue /\ Normalizes(item)
      BY <2>2, <3>1 DEF Taking
    <3>2. CASE ~(Len(taken) < options.maxQueue /\ Normalizes(item))
      <4>1. taken' = <<>>
        BY <2>2, <3>2 DEF Taking, EndCapture
      <4> QED BY <4>1
    <3> QED BY <3>1, <3>2
  <2> QED BY <1>1, <1>3, <2>1, <2>3
<1> QED BY <1>4, <1>5, <1>6

(* A call adds all of its events, which are distinct and none of them       *)
(* pending, or none.                                                        *)
LEMMA CaptureEndStep ==
  ASSUME IInv, CaptureEnd
  PROVE  IInv'
<1> USE DEF IInv, Types
<1>1. UNCHANGED <<options, prepared, phase, attempt, answer, wait, count>> /\ taken' = <<>>
  BY DEF CaptureEnd, EndCapture, sendVars, buildVars
<1>2. CASE Enqueues(taken)
  <2>1. queue' = queue \o taken
    BY <1>2 DEF CaptureEnd
  <2>2. queue' \in Seq(Items) /\ Len(queue') >= Len(queue) /\ Len(queue) \in Nat
    BY <2>1
  <2>3. Pending \in Seq(Items) /\ Pending' = Pending \o taken
    <3>1. prepared.events \o (queue \o taken) = (prepared.events \o queue) \o taken
      BY EventAssoc
    <3> QED BY <1>1, <2>1, <3>1 DEF Pending
  <2>4. Distinct(taken) /\ EventIds(Pending) \cap EventIds(taken) = {}
    BY <1>2 DEF Enqueues, Distinct
  <2>5. Distinct(Pending \o taken)
    BY <2>3, <2>4, DistinctConcat
  <2>6. Distinct(Pending)'
    BY <2>3, <2>5 DEF Distinct, EventIds
  <2>7. Types'
    BY <1>1, <2>2
  <2>8. BuildInStep' /\ SleepInStep'
    BY <1>1, <2>2 DEF BuildInStep, SleepInStep
  <2> QED BY <2>6, <2>7, <2>8
<1>3. CASE ~Enqueues(taken)
  <2>1. queue' = queue
    BY <1>3 DEF CaptureEnd
  <2>2. Distinct(Pending)'
    BY <1>1, <2>1 DEF Distinct, EventIds, Pending
  <2> QED BY <1>1, <2>1, <2>2 DEF BuildInStep, SleepInStep
<1> QED BY <1>2, <1>3

LEMMA DrainStepStep ==
  ASSUME IInv, Drain
  PROVE  IInv'
<1> USE DEF IInv, Types
<1>1. /\ UNCHANGED <<options, taken, queue, prepared, attempt, answer, wait>>
      /\ phase = "idle" /\ Pending # <<>>
      /\ phase' = IF Resumes THEN "send" ELSE "build"
      /\ count' = Minimum(Len(queue), MaxBatch)
  BY DEF Drain, captureVars, sendVars
<1>2. Distinct(Pending)'
  BY <1>1 DEF Distinct, EventIds, Pending
<1>3. BuildInStep'
  <2> SUFFICES ASSUME ~Resumes PROVE prepared = NoRequest /\ count' \in 1..Len(queue)
    BY <1>1 DEF BuildInStep
  <2>1. prepared = NoRequest
    BY DEF Resumes
  <2>2. prepared.events = <<>>
    BY <2>1 DEF NoRequest
  <2>3. queue # <<>>
    BY <1>1, <2>2 DEF Pending
  <2>4. Len(queue) \in Nat \ {0}
    BY <2>3
  <2> QED BY <1>1, <2>1, <2>4, SizeAssumption DEF Minimum
<1>4. SleepInStep'
  BY <1>1 DEF SleepInStep, ValidOptions
<1>5. Types'
  BY <1>1
<1> QED BY <1>2, <1>3, <1>4, <1>5

(* The events that are packed leave the queue's head for the request.       *)
LEMMA BuildStep ==
  ASSUME IInv, Build
  PROVE  IInv'
<1> USE DEF IInv, Types
<1> DEFINE head == Prefix(queue, count)
<1>1. /\ UNCHANGED <<options, taken, attempt, answer, wait>>
      /\ phase = "build" /\ prepared = NoRequest /\ prepared.events = <<>>
      /\ count \in 1..Len(queue) /\ attempt = 0
  BY DEF Build, captureVars, sendVars, BuildInStep, SleepInStep, NoRequest
<1>2. \/ UNCHANGED <<queue, prepared>> /\ phase' = "idle"
      \/ /\ UNCHANGED <<queue, prepared, phase>>
         /\ count > 1 /\ count' = Halved(count)
      \/ /\ prepared'.events = head /\ phase' = "send"
         /\ queue' = SubSeq(queue, count + 1, Len(queue))
  BY DEF Build, Raise
<1>3. CASE UNCHANGED <<queue, prepared>> /\ phase' = "idle"
  <2>1. Distinct(Pending)'
    BY <1>3 DEF Distinct, EventIds, Pending
  <2> QED BY <1>1, <1>3, <2>1 DEF BuildInStep, SleepInStep
<1>4. CASE UNCHANGED <<queue, prepared, phase>> /\ count > 1 /\ count' = Halved(count)
  <2>1. Distinct(Pending)'
    BY <1>4 DEF Distinct, EventIds, Pending
  <2>2. count' \in 1..Len(queue)
    BY <1>1, <1>4 DEF Halved
  <2> QED BY <1>1, <1>4, <2>1, <2>2 DEF BuildInStep, SleepInStep
<1>5. CASE /\ prepared'.events = head /\ phase' = "send"
           /\ queue' = SubSeq(queue, count + 1, Len(queue))
  <2>1. head \in Seq(Items) /\ queue' \in Seq(Items) /\ head \o queue' = queue
    BY <1>1, <1>5 DEF Prefix
  <2>2. Pending' = queue /\ Pending = queue
    BY <1>1, <1>5, <2>1 DEF Pending
  <2>3. Distinct(Pending)'
    BY <2>2 DEF Distinct, EventIds
  <2>4. Types'
    BY <1>1, <1>5, <2>1
  <2>5. BuildInStep' /\ SleepInStep'
    BY <1>1, <1>5 DEF BuildInStep, SleepInStep, ValidOptions
  <2> QED BY <2>3, <2>4, <2>5
<1> QED BY <1>2, <1>3, <1>4, <1>5

(* An attempt that gets no answer to judge.                                 *)
LEMMA FailStep ==
  ASSUME IInv, TransportFails \/ DecodingFails
  PROVE  IInv'
<1> USE DEF IInv, Types
<1>1. /\ UNCHANGED <<options, taken, queue, prepared>>
      /\ phase = "send" /\ attempt <= options.maxRetries
  BY DEF TransportFails, DecodingFails, SendUnchanged, captureVars
<1>2. \/ phase' = "idle" /\ attempt' = 0 /\ answer' = NoAnswer
      \/ /\ phase' = "sleep" /\ answer' = NoAnswer /\ attempt' = attempt
         /\ attempt < options.maxRetries /\ wait' \in Delays(attempt, {})
  BY DEF TransportFails, DecodingFails, Raise, EndSend, Sleep, AttemptsLeft
<1>3. Distinct(Pending)'
  BY <1>1 DEF Distinct, EventIds, Pending
<1>4. WellFormed(answer')
  BY <1>2, AnswersWellFormed
<1>5. Types' /\ BuildInStep'
  BY <1>1, <1>2, <1>4 DEF BuildInStep, ValidOptions
<1>6. CASE phase' = "idle" /\ attempt' = 0
  BY <1>3, <1>5, <1>6 DEF SleepInStep
<1>7. CASE /\ phase' = "sleep" /\ answer' = NoAnswer /\ attempt' = attempt
           /\ attempt < options.maxRetries /\ wait' \in Delays(attempt, {})
  <2>1. PICK j \in 0..JitterCap(attempt) : wait' \in {j} \cup {}
    BY <1>7, DelayIs DEF AtMostOne
  <2>2. wait' \in 0..MaxRetryAfter
    <3>1. JitterCap(attempt) \in 1..16 /\ JitterCap(attempt) <= MaxRetryAfter
      BY JitterBound, Zenon
    <3>2. wait' = j
      BY <2>1
    <3> QED BY <3>1, <3>2, SizeAssumption
  <2>3. RetryAfter(NoAnswer) = {}
    BY DEF RetryAfter, NonNegative, NoAnswer, NoHeader, HeaderSeconds, IsObject
  <2>4. SleepInStep'
    BY <1>1, <1>7, <2>2, <2>3 DEF SleepInStep
  <2> QED BY <1>3, <1>5, <2>4
<1> QED BY <1>2, <1>6, <1>7

LEMMA RespondStep ==
  ASSUME IInv, Respond
  PROVE  IInv'
<1> USE DEF IInv, Types
<1>1. /\ UNCHANGED <<options, taken, queue, prepared, attempt>>
      /\ phase = "send" /\ phase' = "judge" /\ attempt <= options.maxRetries
      /\ answer' \in Answers
  BY DEF Respond, SendUnchanged, captureVars
<1>2. Distinct(Pending)'
  BY <1>1 DEF Distinct, EventIds, Pending
<1> QED BY <1>1, <1>2, AnswersWellFormed DEF BuildInStep, SleepInStep

(* What Judge does, by the delay it has drawn.                              *)
LEMMA JudgeIs ==
  ASSUME IInv, Judge
  PROVE  /\ UNCHANGED <<options, taken, queue>> /\ phase = "judge"
         /\ attempt <= options.maxRetries
         /\ \E delay \in Delays(attempt, RetryAfter(answer)) :
              /\ \E j \in 0..JitterCap(attempt) : delay \in {j} \cup RetryAfter(answer)
              /\ delay \in Nat /\ \A s \in RetryAfter(answer) : delay >= s
              /\ \/ /\ Retries(delay) /\ phase' = "sleep" /\ wait' = delay
                    /\ UNCHANGED <<prepared, attempt, answer, acked>>
                 \/ /\ ~Retries(delay) /\ Verdict(answer, prepared.events) = "ok"
                    /\ prepared' = NoRequest /\ acked' = acked \o prepared.events
                    /\ phase' = "idle" /\ attempt' = 0 /\ answer' = NoAnswer
                 \/ /\ ~Retries(delay) /\ phase' = "idle" /\ attempt' = 0 /\ answer' = NoAnswer
                    /\ UNCHANGED <<prepared, acked>>
<1> USE DEF IInv, Types
<1> DEFINE asked == RetryAfter(answer)
<1>1. UNCHANGED <<options, taken, queue>> /\ phase = "judge" /\ attempt <= options.maxRetries
  BY DEF Judge, SendUnchanged, captureVars, SleepInStep
<1>2. PICK delay \in Delays(attempt, asked) :
        \/ /\ Retries(delay) /\ phase' = "sleep" /\ wait' = delay
           /\ UNCHANGED <<prepared, attempt, answer, acked>>
        \/ /\ ~Retries(delay) /\ Verdict(answer, prepared.events) = "ok"
           /\ prepared' = NoRequest /\ acked' = acked \o prepared.events
           /\ phase' = "idle" /\ attempt' = 0 /\ answer' = NoAnswer
        \/ /\ ~Retries(delay) /\ phase' = "idle" /\ attempt' = 0 /\ answer' = NoAnswer
           /\ UNCHANGED <<prepared, acked>>
  BY DEF Judge, Sleep, Raise, EndSend
<1>3. AtMostOne(asked) /\ \A s \in asked : s \in Int /\ s >= 0
  BY AskedOnce DEF AtMostOne
<1> HIDE DEF asked
<1>4. PICK j \in 0..JitterCap(attempt) :
        delay \in {j} \cup asked /\ \A e \in {j} \cup asked : delay >= e
  BY <1>3, DelayIs
<1>5. delay \in Nat /\ \A s \in asked : delay >= s
  BY <1>3, <1>4, JitterBound
<1> QED BY <1>1, <1>2, <1>4, <1>5 DEF asked

LEMMA JudgeStep ==
  ASSUME IInv, Judge
  PROVE  IInv'
<1> USE DEF IInv, Types
<1>1. UNCHANGED <<options, taken, queue>> /\ phase = "judge" /\ attempt <= options.maxRetries
  BY JudgeIs
<1>2. PICK delay \in Delays(attempt, RetryAfter(answer)) :
        /\ delay \in Nat /\ \A s \in RetryAfter(answer) : delay >= s
        /\ \/ /\ Retries(delay) /\ phase' = "sleep" /\ wait' = delay
              /\ UNCHANGED <<prepared, attempt, answer, acked>>
           \/ /\ prepared' = NoRequest
              /\ phase' = "idle" /\ attempt' = 0 /\ answer' = NoAnswer
           \/ /\ phase' = "idle" /\ attempt' = 0 /\ answer' = NoAnswer
              /\ prepared' = prepared
  BY JudgeIs
<1>3. CASE /\ Retries(delay) /\ phase' = "sleep" /\ wait' = delay
           /\ UNCHANGED <<prepared, attempt, answer, acked>>
  <2>1. Distinct(Pending)'
    BY <1>1, <1>3 DEF Distinct, EventIds, Pending
  <2>2. wait' \in 0..MaxRetryAfter
    BY <1>2, <1>3, SizeAssumption DEF Retries
  <2>3. SleepInStep'
    BY <1>1, <1>2, <1>3, <2>2 DEF SleepInStep, Retries, AttemptsLeft
  <2> QED BY <1>1, <1>3, <2>1, <2>3 DEF BuildInStep
<1>4. CASE prepared' = NoRequest /\ phase' = "idle" /\ attempt' = 0 /\ answer' = NoAnswer
  <2>1. Distinct(prepared.events \o queue)
    BY DEF Pending
  <2>2. Distinct(queue)
    BY <2>1, DistinctTail
  <2>3. prepared'.events = <<>>
    BY <1>4 DEF NoRequest
  <2>4. Pending' = queue
    BY <1>1, <2>3 DEF Pending
  <2>5. Distinct(Pending)'
    BY <2>2, <2>4 DEF Distinct, EventIds
  <2> QED BY <1>1, <1>4, <2>3, <2>5, AnswersWellFormed DEF BuildInStep, SleepInStep
<1>5. CASE prepared' = prepared /\ phase' = "idle" /\ attempt' = 0 /\ answer' = NoAnswer
  <2>1. Distinct(Pending)'
    BY <1>1, <1>5 DEF Distinct, EventIds, Pending
  <2> QED BY <1>1, <1>5, <2>1, AnswersWellFormed DEF BuildInStep, SleepInStep
<1> QED BY <1>2, <1>3, <1>4, <1>5

LEMMA WakeStep ==
  ASSUME IInv, Wake
  PROVE  IInv'
<1> USE DEF IInv, Types
<1>1. /\ UNCHANGED <<options, taken, queue, prepared, answer, wait>>
      /\ phase = "sleep" /\ phase' = "send" /\ attempt' = attempt + 1
  BY DEF Wake, SendUnchanged, captureVars
<1>2. Distinct(Pending)'
  BY <1>1 DEF Distinct, EventIds, Pending
<1>3. options.maxRetries \in Nat
  BY <1>1 DEF ValidOptions
<1> QED BY <1>1, <1>2, <1>3 DEF BuildInStep, SleepInStep

LEMMA NextIInv == IInv /\ [Next]_vars => IInv'
<1> SUFFICES ASSUME IInv, [Next]_vars PROVE IInv'
  OBVIOUS
<1>1. CASE UNCHANGED vars
  BY <1>1 DEF vars, captureVars, buildVars, sendVars, IInv, Types, BuildInStep, SleepInStep,
             Distinct, EventIds, Pending
<1> QED BY <1>1, AsideSteps, CaptureEndStep, DrainStepStep, BuildStep, FailStep, RespondStep,
           JudgeStep, WakeStep DEF Next, DrainStep

LEMMA Inductive == Safety => []IInv
<1> QED BY InitIInv, NextIInv, PTL DEF Safety

-------------------------------------------------------------------------------
(* The retry loop never goes round without an attempt left, and no id is    *)
(* pending twice (_send, _normalize_capture_input, _enqueue).               *)
THEOREM NeverUnexpected == Safety => []NoInternalError
<1>1. IInv => NoInternalError
  BY DEF IInv, SleepInStep, Distinct, NoInternalError
<1> QED BY <1>1, Inductive, PTL

(* For all events, options and attempts: whenever the Python and the Node   *)
(* client make the same of a body, both release the batch or both keep it;  *)
(* and both retry a plain response or neither does, and raise the same kind *)
(* of error for it.  It says nothing of how they treat a redirect, nor of   *)
(* the delays only one of them reads (_result_or_error, #send).             *)
THEOREM VerdictsAgree == Safety => []SameVerdict
<1>1. IInv => SameVerdict
  BY Agreement DEF IInv, Types
<1> QED BY <1>1, Inductive, PTL

LEMMA WakeAsAsked ==
  ASSUME IInv, Wake
  PROVE  AttemptAsAsked
<1> USE DEF IInv, Types
<1>1. /\ prepared' = prepared /\ attempt' = attempt + 1 /\ phase = "sleep"
      /\ UNCHANGED <<options, answer, wait>>
  BY DEF Wake, SendUnchanged
<1>2. /\ attempt < options.maxRetries /\ options.maxRetries \in Nat
      /\ wait \in 0..MaxRetryAfter /\ \A s \in RetryAfter(answer) : wait >= s
      /\ answer = NoAnswer \/ answer.status \in Retryable
  BY <1>1 DEF SleepInStep, ValidOptions
<1>3. attempt' <= options.maxRetries /\ wait <= MaxRetryAfter
  BY <1>1, <1>2, SizeAssumption
<1>4. ASSUME NEW s \in HeaderSeconds(answer) PROVE wait >= s
  <2>1. s \in Int
    BY AskedOnce DEF AtMostOne
  <2>2. CASE s >= 0
    <3>1. s \in RetryAfter(answer)
      BY <2>2 DEF RetryAfter, NonNegative
    <3> QED BY <1>2, <3>1
  <2>3. CASE ~(s >= 0)
    BY <1>2, <2>1, <2>3
  <2> QED BY <2>2, <2>3
<1>5. ASSUME IsObject(answer), NonNegative(HeaderSeconds(answer)) = {}, NEW s \in answer.retrySecs
      PROVE  wait >= s
  <2>1. s \in Int
    BY AskedOnce DEF AtMostOne
  <2>2. CASE s >= 0
    <3>1. s \in RetryAfter(answer)
      BY <1>5, <2>2 DEF RetryAfter, NonNegative
    <3> QED BY <1>2, <3>1
  <2>3. CASE ~(s >= 0)
    BY <1>2, <2>1, <2>3
  <2> QED BY <2>2, <2>3
<1> QED BY <1>1, <1>2, <1>3, <1>4, <1>5 DEF AttemptAsAsked

LEMMA JudgeAsLast ==
  ASSUME IInv, Judge
  PROVE  RaisedAsLast
<1> USE DEF IInv, Types
<1> SUFFICES ASSUME phase' = "idle", answer.status \in Retryable
             PROVE  \/ attempt = options.maxRetries
                    \/ \E s \in HeaderSeconds(answer) \cup answer.retrySecs : s > MaxRetryAfter
  BY DEF RaisedAsLast
<1>1. phase = "judge" /\ attempt <= options.maxRetries /\ options.maxRetries \in Nat
  BY JudgeIs DEF ValidOptions
<1>2. PICK delay \in Delays(attempt, RetryAfter(answer)) :
        /\ \E j \in 0..JitterCap(attempt) : delay \in {j} \cup RetryAfter(answer)
        /\ delay \in Nat /\ ~Retries(delay)
  BY JudgeIs
<1>3. attempt = options.maxRetries \/ delay > MaxRetryAfter
  BY <1>1, <1>2, SizeAssumption DEF Retries, AttemptsLeft
<1>4. ASSUME delay > MaxRetryAfter PROVE delay \in HeaderSeconds(answer) \cup answer.retrySecs
  <2>1. PICK j \in 0..JitterCap(attempt) : delay \in {j} \cup RetryAfter(answer)
    BY <1>2
  <2>2. JitterCap(attempt) \in Nat /\ JitterCap(attempt) <= MaxRetryAfter
    BY JitterBound
  <2>3. delay # j
    BY <1>4, <2>2, SizeAssumption
  <2>4. delay \in RetryAfter(answer)
    BY <2>1, <2>3
  <2> QED BY <2>4 DEF RetryAfter, NonNegative
<1> QED BY <1>3, <1>4

LEMMA ReleaseStep ==
  ASSUME IInv, [Next]_vars
  PROVE  ReleasedByAck
<1> USE DEF IInv, Types
<1> SUFFICES ASSUME prepared # NoRequest, prepared' # prepared
             PROVE  /\ prepared' = NoRequest /\ acked' = acked \o prepared.events
                    /\ Success(answer) /\ answer.accepted = Len(prepared.events)
  BY DEF ReleasedByAck
<1>1. ~Build
  BY DEF Build, BuildInStep
<1>2. Judge
  BY <1>1 DEF Next, DrainStep, vars, Construct, CaptureBegin, Take, CaptureEnd, Drain,
              TransportFails, DecodingFails, Respond, Wake
<1>3. /\ Verdict(answer, prepared.events) = "ok"
      /\ prepared' = NoRequest /\ acked' = acked \o prepared.events
  BY <1>2, JudgeIs
<1>4. Success(answer) /\ Acknowledges(answer, prepared.events)
  BY <1>3, VerdictIs
<1> QED BY <1>3, <1>4 DEF Acknowledges

(* Another attempt repeats the request, no sooner than the service asked;   *)
(* a retryable answer is raised as an error only at the last attempt or for *)
(* too long a delay; and only an exact acknowledgement releases a batch     *)
(* (_send, _retry_delay, _result_or_error).                                 *)
THEOREM AnswersAreObeyed == Safety => AnswersObeyed
<1>1. ASSUME IInv, [Next]_vars PROVE AttemptAsAsked
  <2>1. CASE Wake
    BY <1>1, <2>1, WakeAsAsked
  <2>2. CASE ~Wake
    BY <1>1, <2>2 DEF AttemptAsAsked, Next, DrainStep, vars, Construct, CaptureBegin, Take,
      CaptureEnd, Drain, Build, TransportFails, DecodingFails, Respond, Judge
  <2> QED BY <2>1, <2>2
<1>2. ASSUME IInv, [Next]_vars PROVE RaisedAsLast
  <2>1. CASE Judge
    BY <1>2, <2>1, JudgeAsLast
  <2>2. CASE ~Judge
    BY <1>2, <2>2 DEF RaisedAsLast, Next, DrainStep, vars, Construct, CaptureBegin, Take,
      CaptureEnd, Drain, Build, TransportFails, DecodingFails, Respond, Wake
  <2> QED BY <2>1, <2>2
<1>3. IInv /\ [Next]_vars => [AttemptAsAsked /\ RaisedAsLast /\ ReleasedByAck]_vars
  BY <1>1, <1>2, ReleaseStep
<1> QED BY <1>3, Inductive, PTL DEF Safety, AnswersObeyed

-------------------------------------------------------------------------------
(* Powers of two, which are the sizes of the sets of subsets.               *)

LEMMA PowerSet ==
  ASSUME NEW n \in Nat, NEW S, IsFiniteSet(S), Cardinality(S) = n
  PROVE  IsFiniteSet(SUBSET S) /\ Cardinality(SUBSET S) = 2^n /\ 2^n \in Nat \ {0}
<1>1. IsFiniteSet(SUBSET S) /\ Cardinality(SUBSET S) = 2^n
  BY FS_SUBSET
<1>2. Cardinality(SUBSET S) \in Nat /\ Cardinality(SUBSET S) # 0
  BY <1>1, FS_CardinalityType, FS_EmptySet, Zenon
<1> QED BY <1>1, <1>2

LEMMA PowerSum ==
  ASSUME NEW m \in Nat, NEW n \in Nat
  PROVE  /\ 2^m \in Nat \ {0} /\ 2^n \in Nat \ {0}
         /\ 2^(m + n) = 2^m * 2^n
<1> DEFINE A == 1..m
           B == (m + 1)..(m + n)
           f == [S \in SUBSET (A \cup B) |-> <<S \cap A, S \cap B>>]
<1>1. /\ IsFiniteSet(A) /\ Cardinality(A) = m /\ IsFiniteSet(B) /\ Cardinality(B) = n
      /\ IsFiniteSet(1..(m + n)) /\ Cardinality(1..(m + n)) = m + n
  <2>1. IsFiniteSet(1..m) /\ Cardinality(1..m) = m
    <3>1. Cardinality(1..m) = IF 1 > m THEN 0 ELSE m - 1 + 1
      BY FS_Interval
    <3> QED BY <3>1, FS_Interval
  <2>2. IsFiniteSet((m + 1)..(m + n)) /\ Cardinality((m + 1)..(m + n)) = n
    <3>1. m + 1 \in Int /\ m + n \in Int
      OBVIOUS
    <3>2. Cardinality((m + 1)..(m + n)) = IF m + 1 > m + n THEN 0 ELSE (m + n) - (m + 1) + 1
      BY <3>1, FS_Interval
    <3> QED BY <3>1, <3>2, FS_Interval
  <2>3. IsFiniteSet(1..(m + n)) /\ Cardinality(1..(m + n)) = m + n
    <3>1. m + n \in Nat
      OBVIOUS
    <3>2. Cardinality(1..(m + n)) = IF 1 > m + n THEN 0 ELSE (m + n) - 1 + 1
      BY <3>1, FS_Interval
    <3> QED BY <3>1, <3>2, FS_Interval
  <2> QED BY <2>1, <2>2, <2>3
<1>2. A \cup B = 1..(m + n) /\ A \cap B = {} /\ m + n \in Nat
  OBVIOUS
<1> HIDE DEF A, B
<1>3. f \in Bijection(SUBSET (A \cup B), (SUBSET A) \X (SUBSET B))
  <2>1. f \in [SUBSET (A \cup B) -> (SUBSET A) \X (SUBSET B)]
    OBVIOUS
  <2>2. ASSUME NEW S \in SUBSET (A \cup B), NEW T \in SUBSET (A \cup B), f[S] = f[T] PROVE S = T
    <3>1. S \cap A = T \cap A /\ S \cap B = T \cap B
      BY <2>2
    <3> QED BY <3>1
  <2>3. ASSUME NEW p \in (SUBSET A) \X (SUBSET B) PROVE \E S \in SUBSET (A \cup B) : f[S] = p
    <3>1. PICK S \in SUBSET A, T \in SUBSET B : p = <<S, T>>
      OBVIOUS
    <3>2. (S \cup T) \cap A = S /\ (S \cup T) \cap B = T /\ S \cup T \in SUBSET (A \cup B)
      BY <1>2
    <3>3. f[S \cup T] = p
      BY <3>1, <3>2
    <3> QED BY <3>2, <3>3
  <2> HIDE DEF f
  <2>4. f \in Injection(SUBSET (A \cup B), (SUBSET A) \X (SUBSET B))
    BY <2>1, <2>2 DEF Injection, IsInjective
  <2>5. f \in Surjection(SUBSET (A \cup B), (SUBSET A) \X (SUBSET B))
    BY <2>1, <2>3 DEF Surjection
  <2> QED BY <2>4, <2>5 DEF Bijection
<1>4. /\ IsFiniteSet(SUBSET A) /\ Cardinality(SUBSET A) = 2^m /\ 2^m \in Nat \ {0}
      /\ IsFiniteSet(SUBSET B) /\ Cardinality(SUBSET B) = 2^n /\ 2^n \in Nat \ {0}
      /\ IsFiniteSet(SUBSET (A \cup B)) /\ Cardinality(SUBSET (A \cup B)) = 2^(m + n)
  <2>1. IsFiniteSet(SUBSET A) /\ Cardinality(SUBSET A) = 2^m /\ 2^m \in Nat \ {0}
    BY <1>1, PowerSet
  <2>2. IsFiniteSet(SUBSET B) /\ Cardinality(SUBSET B) = 2^n /\ 2^n \in Nat \ {0}
    BY <1>1, PowerSet
  <2>3. IsFiniteSet(SUBSET (A \cup B)) /\ Cardinality(SUBSET (A \cup B)) = 2^(m + n)
    <3>1. IsFiniteSet(A \cup B) /\ Cardinality(A \cup B) = m + n
      BY <1>1, <1>2
    <3> QED BY <1>2, <3>1, PowerSet
  <2> QED BY <2>1, <2>2, <2>3
<1>5. Cardinality((SUBSET A) \X (SUBSET B)) = 2^m * 2^n
  BY <1>4, FS_Product
<1>6. Cardinality((SUBSET A) \X (SUBSET B)) = 2^(m + n)
  <2>1. ExistsBijection(SUBSET (A \cup B), (SUBSET A) \X (SUBSET B))
    BY <1>3, Zenon DEF ExistsBijection
  <2> QED BY <1>4, <2>1, FS_Bijection
<1> QED BY <1>4, <1>5, <1>6

LEMMA PowerExceeds ==
  ASSUME NEW i \in Nat
  PROVE  i < 2^i
<1> DEFINE S == 1..i
           f == [x \in S |-> {x}]
<1>1. IsFiniteSet(S) /\ Cardinality(S) = i
  <2>1. Cardinality(1..i) = IF 1 > i THEN 0 ELSE i - 1 + 1
    BY FS_Interval
  <2> QED BY <2>1, FS_Interval
<1> HIDE DEF S
<1>2. IsFiniteSet(SUBSET S) /\ Cardinality(SUBSET S) = 2^i /\ 2^i \in Nat
  BY <1>1, PowerSet
<1>3. f \in Injection(S, SUBSET S)
  BY DEF Injection, IsInjective
<1>4. f \notin Surjection(S, SUBSET S)
  <2>1. {} \in SUBSET S /\ \A x \in S : f[x] # {}
    OBVIOUS
  <2> QED BY <2>1 DEF Surjection
<1> HIDE DEF f
<1>5. Cardinality(S) <= Cardinality(SUBSET S) /\ Cardinality(S) # Cardinality(SUBSET S)
  BY <1>2, <1>3, <1>4, FS_Injection
<1> QED BY <1>1, <1>2, <1>5

LEMMA PowerGrows ==
  ASSUME NEW i \in Nat, NEW j \in Nat, i <= j
  PROVE  2^i <= 2^j /\ 2^i \in Nat \ {0} /\ 2^j \in Nat \ {0}
<1>1. PICK d \in Nat : j = i + d
  <2>1. j - i \in Nat /\ j = i + (j - i)
    OBVIOUS
  <2> QED BY <2>1
<1>2. 2^i \in Nat \ {0} /\ 2^d \in Nat \ {0} /\ 2^(i + d) = 2^i * 2^d
  BY PowerSum
<1>3. 2^i * 2^d >= 2^i /\ 2^i * 2^d \in Nat \ {0}
  <2> DEFINE a == 2^i
             b == 2^d
  <2>1. a \in Nat \ {0} /\ b \in Nat \ {0}
    BY <1>2
  <2> HIDE DEF a, b
  <2>2. a * b >= a /\ a * b \in Nat \ {0}
    BY <2>1
  <2> QED BY <2>2 DEF a, b
<1> QED BY <1>1, <1>2, <1>3

-------------------------------------------------------------------------------
(* Repeated halves                                                          *)

LEMMA Quotient ==
  ASSUME NEW n \in Nat, NEW D \in Nat \ {0}
  PROVE  /\ n \div D \in Nat /\ (n \div D) * D <= n /\ n < (n \div D) * D + D
         /\ \A u \in Nat : u * D <= n /\ n < u * D + D => u = n \div D
<1> DEFINE q == n \div D
<1>1. q \in Nat /\ n % D \in 0..(D - 1) /\ n = q * D + (n % D)
  OBVIOUS
<1> HIDE DEF q
<1>2. q * D <= n /\ n < q * D + D /\ q * D \in Nat
  BY <1>1
<1>3. ASSUME NEW u \in Nat, u * D <= n, n < u * D + D PROVE u = q
  <2>1. u * D \in Nat /\ (u + 1) * D = u * D + D /\ (q + 1) * D = q * D + D
    BY <1>1
  <2>2. ASSUME u + 1 <= q PROVE FALSE
    <3>1. (u + 1) * D <= q * D
      BY <1>1, <2>2
    <3> QED BY <1>2, <1>3, <2>1, <3>1
  <2>3. ASSUME q + 1 <= u PROVE FALSE
    <3>1. (q + 1) * D <= u * D
      BY <1>1, <2>3
    <3> QED BY <1>2, <1>3, <2>1, <3>1
  <2> QED BY <1>1, <2>2, <2>3
<1> QED BY <1>1, <1>2, <1>3 DEF q

LEMMA QuotientFalls ==
  ASSUME NEW n \in Nat, NEW D \in Nat \ {0}, NEW E \in Nat \ {0}, D <= E
  PROVE  n \div E <= n \div D
<1> DEFINE q == n \div D
           u == n \div E
<1>1. q \in Nat /\ n < q * D + D /\ u \in Nat /\ u * E <= n
  BY Quotient
<1> HIDE DEF q, u
<1>2. ASSUME q + 1 <= u PROVE FALSE
  <2>1. (q + 1) * D <= u * D /\ u * D <= u * E
    BY <1>1, <1>2
  <2>2. (q + 1) * D = q * D + D /\ q * D \in Nat /\ u * D \in Nat /\ u * E \in Nat
    BY <1>1
  <2> QED BY <1>1, <2>1, <2>2
<1>3. u <= q
  BY <1>1, <1>2
<1> QED BY <1>3 DEF q, u

LEMMA HalfOfQuotient ==
  ASSUME NEW n \in Nat, NEW D \in Nat \ {0}
  PROVE  (n \div D) \div 2 = n \div (2 * D)
<1> DEFINE q == n \div D
           u == q \div 2
<1>1. q \in Nat /\ q * D <= n /\ n < q * D + D
  BY Quotient
<1> HIDE DEF q
<1>2. u \in Nat /\ (q = 2 * u \/ q = 2 * u + 1)
  BY <1>1
<1> HIDE DEF u
<1>3. u * (2 * D) = 2 * (u * D) /\ u * D \in Nat /\ 2 * D \in Nat \ {0}
  BY <1>2
<1>4. CASE q = 2 * u
  <2>1. q * D = 2 * (u * D)
    BY <1>2, <1>4
  <2>2. u * (2 * D) <= n /\ n < u * (2 * D) + 2 * D
    BY <1>1, <1>3, <2>1
  <2>3. u = n \div (2 * D)
    BY <1>2, <1>3, <2>2, Quotient
  <2> QED BY <2>3 DEF u, q
<1>5. CASE q = 2 * u + 1
  <2>1. q * D = 2 * (u * D) + D
    BY <1>2, <1>5
  <2>2. u * (2 * D) <= n /\ n < u * (2 * D) + 2 * D
    BY <1>1, <1>3, <2>1
  <2>3. u = n \div (2 * D)
    BY <1>2, <1>3, <2>2, Quotient
  <2> QED BY <2>3 DEF u, q
<1> QED BY <1>2, <1>4, <1>5

(* The half of a repeated half is the next one: there is none between them. *)
LEMMA NextHalf ==
  ASSUME NEW n \in Nat, NEW c \in Halvings(n), c > 1
  PROVE  /\ Halved(c) \in Halvings(n)
         /\ \A k \in Halvings(n) : k > Halved(c) => k >= c
<1>1. PICK i \in 0..n : c = n \div 2^i
  BY DEF Halvings
<1>2. i \in Nat /\ i + 1 \in Nat /\ c \in 1..n
  BY DEF Halvings
<1>3. 2^i \in Nat \ {0} /\ 2^(i + 1) \in Nat \ {0} /\ 2^(i + 1) = 2 * 2^i
  <2>1. 2^1 = 2
    OBVIOUS
  <2>2. 2^i \in Nat \ {0} /\ 2^(i + 1) = 2^i * 2^1
    BY <1>2, PowerSum
  <2>3. 2^(i + 1) \in Nat \ {0}
    BY <1>2, PowerSum
  <2> QED BY <2>1, <2>2, <2>3
<1>4. Halved(c) = n \div 2^(i + 1)
  BY <1>1, <1>3, HalfOfQuotient DEF Halved
<1>5. Halved(c) \in 1..n
  BY <1>2 DEF Halved
<1>6. i + 1 \in 0..n
  <2>1. c * 2^i <= n
    BY <1>1, <1>3, Quotient
  <2>2. 2 * 2^i <= c * 2^i
    <3> DEFINE p == 2^i
    <3>1. p \in Nat
      BY <1>3
    <3> HIDE DEF p
    <3>2. 2 * p <= c * p
      BY <1>2, <3>1
    <3> QED BY <3>2 DEF p
  <2>3. c * 2^i \in Nat
    BY <1>2, <1>3
  <2>4. i + 1 < 2^(i + 1)
    BY <1>2, PowerExceeds
  <2> QED BY <1>2, <1>3, <2>1, <2>2, <2>3, <2>4
<1>7. Halved(c) \in Halvings(n)
  BY <1>4, <1>5, <1>6 DEF Halvings
<1>8. ASSUME NEW k \in Halvings(n), k > Halved(c) PROVE k >= c
  <2>1. PICK j \in 0..n : k = n \div 2^j
    BY DEF Halvings
  <2>2. j \in Nat /\ 2^j \in Nat \ {0} /\ k \in 1..n
    <3>1. j \in Nat
      OBVIOUS
    <3> QED BY <3>1, PowerSum DEF Halvings
  <2>3. CASE j <= i
    <3>1. 2^j <= 2^i
      BY <1>2, <2>2, <2>3, PowerGrows
    <3> QED BY <1>1, <1>2, <1>3, <2>1, <2>2, <3>1, QuotientFalls
  <2>4. CASE i + 1 <= j
    <3>1. 2^(i + 1) <= 2^j
      BY <1>2, <2>2, <2>4, PowerGrows
    <3>2. k <= Halved(c)
      BY <1>3, <1>4, <2>1, <2>2, <3>1, QuotientFalls
    <3> QED BY <1>5, <1>8, <2>2, <3>2
  <2> QED BY <1>2, <2>2, <2>3, <2>4
<1> QED BY <1>7, <1>8

(* The first of them is the number itself.                                  *)
LEMMA FirstHalf ==
  ASSUME NEW n \in Nat \ {0}
  PROVE  n \in Halvings(n)
<1>1. 2^0 = 1 /\ n \div 1 = n /\ 0 \in 0..n /\ n \in 1..n
  OBVIOUS
<1>2. n = n \div 2^0
  BY <1>1, Zenon
<1> QED BY <1>1, <1>2 DEF Halvings

-------------------------------------------------------------------------------
(* The build of a request                                                   *)

(* What is too large depends on the options alone.                          *)
Compresses(o, s) ==
  \/ o.compression = "gzip"
  \/ /\ o.compression = "auto"
     /\ Total(Bytes, s) >= o.threshold \/ Total(Bytes, s) > MaxEncoded

Big(o, s) ==
  \/ Total(Bytes, s) > MaxDecoded
  \/ Total(IF Compresses(o, s) THEN Packed ELSE Bytes, s) > MaxEncoded

LEMMA BigIs == \A s : TooLarge(s) <=> Big(options, s)
BY DEF TooLarge, Big, UsesGzip, Compresses

(* The build is at a repeated half of what it began with, and has found     *)
(* all longer ones too large: they still are, whatever is captured behind.  *)
HalvingInStep ==
  phase = "build" =>
    /\ queued \in 1..Len(queue) /\ count \in Halvings(queued)
    /\ \A k \in Halvings(queued) : k > count => Big(options, Prefix(queue, k))

BInv == IInv /\ HalvingInStep

LEMMA QueuePrefix ==
  ASSUME NEW s \in Seq(Items), NEW q \in Seq(Items), NEW k \in 1..Len(s)
  PROVE  Prefix(s \o q, k) = Prefix(s, k)
BY DEF Prefix

LEMMA HalvingStep == BInv /\ [Next]_vars => HalvingInStep'
<1> SUFFICES ASSUME BInv, [Next]_vars, phase' = "build" PROVE HalvingInStep'
  BY DEF HalvingInStep
<1> USE DEF BInv, IInv, Types
<1>1. CASE Drain
  <2>1. /\ UNCHANGED <<options, queue>> /\ phase = "idle" /\ Pending # <<>>
        /\ phase' = IF Resumes THEN "send" ELSE "build"
        /\ queued' = Minimum(Len(queue), MaxBatch) /\ count' = queued'
    BY <1>1 DEF Drain
  <2>2. prepared = NoRequest /\ prepared.events = <<>>
    BY <2>1 DEF Resumes, NoRequest
  <2>3. Len(queue) \in Nat \ {0}
    BY <2>1, <2>2 DEF Pending
  <2>4. queued' \in 1..Len(queue) /\ queued' \in Nat \ {0}
    BY <2>1, <2>3, SizeAssumption DEF Minimum
  <2>5. count' \in Halvings(queued')
    BY <2>1, <2>4, FirstHalf
  <2>6. \A k \in Halvings(queued') : ~(k > count')
    BY <2>1, <2>4 DEF Halvings
  <2> QED BY <2>1, <2>4, <2>5, <2>6 DEF HalvingInStep
<1>2. CASE Build
  <2>1. /\ UNCHANGED <<options, queue, queued>> /\ phase = "build"
        /\ TooLarge(Prefix(queue, count)) /\ count > 1 /\ count' = Halved(count)
    BY <1>2 DEF Build, Raise
  <2>2. /\ queued \in 1..Len(queue) /\ count \in Halvings(queued)
        /\ \A k \in Halvings(queued) : k > count => Big(options, Prefix(queue, k))
    BY <2>1 DEF HalvingInStep
  <2>3. Big(options, Prefix(queue, count))
    BY <2>1, BigIs
  <2>4. queued \in Nat /\ count \in Nat /\ \A k \in Halvings(queued) : k \in Nat
    BY <2>2 DEF Halvings
  <2>5. /\ count' \in Halvings(queued)
        /\ \A k \in Halvings(queued) : k > count' => k >= count
    BY <2>1, <2>2, <2>4, NextHalf
  <2>6. ASSUME NEW k \in Halvings(queued), k > count' PROVE Big(options, Prefix(queue, k))
    <3>1. k = count \/ k > count
      BY <2>4, <2>5, <2>6
    <3> QED BY <2>2, <2>3, <3>1
  <2> QED BY <2>1, <2>2, <2>5, <2>6 DEF HalvingInStep
<1>3. CASE CaptureEnd
  <2>1. UNCHANGED <<options, phase, queued, count>> /\ (queue' = queue \o taken \/ queue' = queue)
    BY <1>3 DEF CaptureEnd, buildVars
  <2>2. /\ queued \in 1..Len(queue) /\ count \in Halvings(queued)
        /\ \A k \in Halvings(queued) : k > count => Big(options, Prefix(queue, k))
    BY <2>1 DEF HalvingInStep
  <2>3. CASE queue' = queue
    BY <2>1, <2>2, <2>3 DEF HalvingInStep
  <2>4. CASE queue' = queue \o taken
    <3>1. queued \in 1..Len(queue')
      BY <2>2, <2>4
    <3>2. ASSUME NEW k \in Halvings(queued) PROVE Prefix(queue', k) = Prefix(queue, k)
      <4>1. k \in 1..Len(queue)
        BY <2>2 DEF Halvings
      <4> QED BY <2>4, <4>1, QueuePrefix
    <3> QED BY <2>1, <2>2, <3>1, <3>2 DEF HalvingInStep
  <2> QED BY <2>1, <2>3, <2>4
<1>4. CASE Take \/ CaptureBegin \/ UNCHANGED vars
  BY <1>4 DEF Take, CaptureBegin, HalvingInStep, vars, buildVars
<1>5. CASE Construct \/ TransportFails \/ DecodingFails \/ Respond \/ Judge \/ Wake
  BY <1>5 DEF Construct, TransportFails, DecodingFails, Respond, Judge, Wake, Raise, Sleep
<1> QED BY <1>1, <1>2, <1>3, <1>4, <1>5 DEF Next, DrainStep

LEMMA BuildInductive == Safety => []BInv
<1>1. Init => BInv
  BY InitIInv DEF BInv, HalvingInStep, Init
<1>2. BInv /\ [Next]_vars => BInv'
  BY NextIInv, HalvingStep DEF BInv
<1> QED BY <1>1, <1>2, PTL DEF Safety

(* A build takes the longest repeated half of the queue's head that fits,   *)
(* for every size of events and every batch size, and gives an event up     *)
(* only when it fits neither as it is nor compressed                        *)
(* (_prepare_queued_batch, _prepare).                                       *)
THEOREM LongestIsBuilt == Safety => BuildsLongest
<1> DEFINE sizes == {k \in Halvings(queued) : ~TooLarge(Prefix(queue, k))}
           alone == Prefix(queue, 1)
           chosen == \/ /\ phase' = "send"
                        /\ prepared'.events = Prefix(queue, count)
                        /\ count \in sizes /\ \A k \in sizes : k <= count
                     \/ /\ outcome' = "ValidationError" /\ sizes = {}
                        /\ \/ Total(Bytes, alone) > MaxDecoded
                           \/ Total(Packed, alone) > MaxEncoded
                           \/ options.compression = "none"
<1>1. ASSUME BInv, [Next]_vars, phase = "build", phase' # "build", Encodable(Prefix(queue, count))
      PROVE  chosen
  <2> USE DEF BInv, IInv, Types
  <2>1. Build
    BY <1>1 DEF Next, DrainStep, vars, Construct, CaptureBegin, Take, CaptureEnd, Drain,
                TransportFails, DecodingFails, Respond, Judge, Wake
  <2>2. /\ queued \in 1..Len(queue) /\ count \in Halvings(queued)
        /\ \A k \in Halvings(queued) : k > count => TooLarge(Prefix(queue, k))
    BY <1>1, BigIs DEF HalvingInStep
  <2>3. count \in Nat /\ \A k \in Halvings(queued) : k \in Nat \ {0}
    BY <2>2 DEF Halvings
  <2>4. \/ /\ ~TooLarge(Prefix(queue, count)) /\ phase' = "send"
           /\ prepared'.events = Prefix(queue, count)
        \/ /\ TooLarge(Prefix(queue, count)) /\ count = 1
           /\ outcome' = "ValidationError"
    BY <1>1, <2>1 DEF Build, Raise
  <2>5. CASE /\ ~TooLarge(Prefix(queue, count)) /\ phase' = "send"
             /\ prepared'.events = Prefix(queue, count)
    <3>1. count \in sizes
      BY <2>2, <2>5
    <3>2. \A k \in sizes : k <= count
      BY <2>2, <2>3
    <3> HIDE DEF sizes
    <3> QED BY <2>5, <3>1, <3>2
  <2>6. CASE TooLarge(Prefix(queue, count)) /\ count = 1 /\ outcome' = "ValidationError"
    <3>1. sizes = {}
      <4>1. ASSUME NEW k \in Halvings(queued) PROVE TooLarge(Prefix(queue, k))
        <5>1. k = count \/ k > count
          BY <2>3, <2>6
        <5> QED BY <2>2, <2>6, <5>1
      <4> QED BY <4>1
    <3>2. TooLarge(alone)
      BY <2>6
    <3> HIDE DEF alone
    <3>3. options.compression \in {"auto", "gzip", "none"}
      BY <1>1 DEF ValidOptions
    <3>4. \/ Total(Bytes, alone) > MaxDecoded
          \/ Total(Packed, alone) > MaxEncoded
          \/ options.compression = "none"
      BY <3>2, <3>3 DEF TooLarge, UsesGzip
    <3> HIDE DEF sizes
    <3> QED BY <2>6, <3>1, <3>4
  <2> QED BY <2>4, <2>5, <2>6
<1>2. BInv /\ [Next]_vars =>
        [phase = "build" /\ phase' # "build" /\ Encodable(Prefix(queue, count)) => chosen]_vars
  BY <1>1
<1> QED BY <1>2, BuildInductive, PTL DEF Safety, BuildsLongest

===============================================================================
