-------------------------- MODULE AsyncClientProofs ---------------------------
(***************************************************************************)
(* Theorems about the asynchronous Python client, for any events and any    *)
(* values of the limits, whether or not it owns its HTTP client.            *)
(***************************************************************************)
EXTENDS AsyncClient, TLAPS, SequenceTheorems

-------------------------------------------------------------------------------
(* Sequences                                                                *)

(* Prefixes within the sequence.                                            *)
LEMMA PrefixIsSubSeq ==
  ASSUME NEW S, NEW s \in Seq(S), NEW n \in 0..Len(s)
  PROVE  /\ Prefix(s, n) \in Seq(S) /\ Len(Prefix(s, n)) = n
         /\ \A i \in 1..n : Prefix(s, n)[i] = s[i]
<1>1. Len(s) \in Nat /\ Prefix(s, n) = SubSeq(s, 1, n)
  BY DEF Prefix
<1> QED BY <1>1

(* A sequence that is a prefix is no longer than the whole.                 *)
LEMMA PrefixFits ==
  ASSUME NEW S, NEW s \in Seq(S), NEW n \in Nat, Len(Prefix(s, n)) = n
  PROVE  n \in 0..Len(s)
<1> DEFINE m == IF n < Len(s) THEN n ELSE Len(s)
<1>1. Prefix(s, n) = Prefix(s, m) /\ m \in 0..Len(s)
  BY DEF Prefix
<1> HIDE DEF m
<1>2. n = m
  BY <1>1, PrefixIsSubSeq
<1> QED BY <1>1, <1>2

(* What the queue begins with stays when events are added at its end.       *)
LEMMA PrefixOfAppended ==
  ASSUME NEW S, NEW s \in Seq(S), NEW r \in Seq(S), NEW n \in 0..Len(s)
  PROVE  Prefix(s \o r, n) = Prefix(s, n)
<1>1. s \o r \in Seq(S) /\ n \in 0..Len(s \o r) /\ \A i \in 1..n : (s \o r)[i] = s[i]
  OBVIOUS
<1>2. /\ Prefix(s, n) \in Seq(S) /\ Len(Prefix(s, n)) = n
      /\ \A i \in 1..n : Prefix(s, n)[i] = s[i]
  BY PrefixIsSubSeq
<1>3. /\ Prefix(s \o r, n) \in Seq(S) /\ Len(Prefix(s \o r, n)) = n
      /\ \A i \in 1..n : Prefix(s \o r, n)[i] = (s \o r)[i]
  BY <1>1, PrefixIsSubSeq
<1> HIDE DEF Prefix
<1> QED BY <1>1, <1>2, <1>3, SeqEqual

(* A shorter prefix of a prefix.                                            *)
LEMMA PrefixOfPrefix ==
  ASSUME NEW S, NEW s \in Seq(S), NEW n \in 0..Len(s), NEW k \in 0..n
  PROVE  Prefix(Prefix(s, n), k) = Prefix(s, k)
<1> DEFINE p == Prefix(s, n)
<1>1. p \in Seq(S) /\ Len(p) = n /\ \A i \in 1..n : p[i] = s[i]
  BY PrefixIsSubSeq
<1> HIDE DEF p
<1>2. Prefix(p, k) \in Seq(S) /\ Len(Prefix(p, k)) = k /\ \A i \in 1..k : Prefix(p, k)[i] = p[i]
  BY <1>1, PrefixIsSubSeq
<1>3. Prefix(s, k) \in Seq(S) /\ Len(Prefix(s, k)) = k /\ \A i \in 1..k : Prefix(s, k)[i] = s[i]
  <2>1. k \in 0..Len(s)
    OBVIOUS
  <2> QED BY <2>1, PrefixIsSubSeq
<1>4. Prefix(p, k) = Prefix(s, k)
  BY <1>1, <1>2, <1>3, SeqEqual
<1> QED BY <1>4 DEF p

(* A sequence is one of its prefixes followed by what the prefix leaves.    *)
LEMMA SplitAtPrefix ==
  ASSUME NEW S, NEW s \in Seq(S), NEW n \in 0..Len(s)
  PROVE  /\ SubSeq(s, n + 1, Len(s)) \in Seq(S)
         /\ s = Prefix(s, n) \o SubSeq(s, n + 1, Len(s))
<1> DEFINE p == Prefix(s, n)
           q == SubSeq(s, n + 1, Len(s))
<1>1. p \in Seq(S) /\ Len(p) = n /\ \A i \in 1..n : p[i] = s[i]
  BY PrefixIsSubSeq
<1>2. q \in Seq(S) /\ Len(q) = Len(s) - n /\ \A i \in 1..Len(s) - n : q[i] = s[n + i]
  OBVIOUS
<1> HIDE DEF p, q
<1>3. p \o q \in Seq(S) /\ Len(p \o q) = Len(s)
  BY <1>1, <1>2
<1>4. ASSUME NEW i \in 1..Len(s) PROVE (p \o q)[i] = s[i]
  <2>1. CASE i <= n BY <2>1, <1>1, <1>2
  <2>2. CASE i > n
    <3>1. i - n \in 1..Len(s) - n /\ n + (i - n) = i BY <2>2
    <3>2. (p \o q)[i] = q[i - n] BY <2>2, <1>1, <1>2
    <3> QED BY <3>1, <3>2, <1>2
  <2>3. i <= n \/ i > n OBVIOUS
  <2> QED BY <2>1, <2>2, <2>3
<1>5. s = p \o q
  BY <1>3, <1>4, SeqEqual
<1> QED BY <1>2, <1>5 DEF p, q

(* Joining lists of events is associative.                                  *)
LEMMA EventAssoc ==
  \A s, r, q \in Seq(Event) : (s \o r) \o q = s \o (r \o q)
<1> SUFFICES ASSUME NEW s \in Seq(Event), NEW r \in Seq(Event), NEW q \in Seq(Event)
             PROVE  (s \o r) \o q = s \o (r \o q)
  OBVIOUS
<1> QED BY ConcatAssociative

(* Joining lists of events.                                                 *)
LEMMA EventConcat ==
  \A s, r, q \in Seq(Event) :
    /\ s \o r \in Seq(Event) /\ Len(s \o r) = Len(s) + Len(r)
    /\ (s \o r) \o q = s \o (r \o q)
    /\ <<>> \o s = s /\ s \o <<>> = s
<1> SUFFICES ASSUME NEW s \in Seq(Event), NEW r \in Seq(Event), NEW q \in Seq(Event)
             PROVE  /\ s \o r \in Seq(Event) /\ Len(s \o r) = Len(s) + Len(r)
                    /\ (s \o r) \o q = s \o (r \o q)
                    /\ <<>> \o s = s /\ s \o <<>> = s
  OBVIOUS
<1>1. (s \o r) \o q = s \o (r \o q)
  BY ConcatAssociative
<1>2. <<>> \o s = s /\ s \o <<>> = s
  BY ConcatEmptySeq
<1> QED BY <1>1, <1>2

(* The ids of two lists of events.                                          *)
LEMMA IdsOfConcat ==
  ASSUME NEW s \in Seq(Event), NEW r \in Seq(Event)
  PROVE  EventIds(s \o r) = EventIds(s) \cup EventIds(r)
<1>1. DOMAIN s = 1..Len(s) /\ DOMAIN r = 1..Len(r) /\ DOMAIN (s \o r) = 1..(Len(s) + Len(r))
  OBVIOUS
<1>2. \A i \in 1..Len(s) : (s \o r)[i] = s[i]
  OBVIOUS
<1>3. \A i \in 1..Len(r) : (s \o r)[Len(s) + i] = r[i]
  OBVIOUS
<1>4. EventIds(s \o r) \subseteq EventIds(s) \cup EventIds(r)
  <2> SUFFICES ASSUME NEW i \in 1..(Len(s) + Len(r))
               PROVE  (s \o r)[i].id \in EventIds(s) \cup EventIds(r)
    BY <1>1 DEF EventIds
  <2>1. CASE i <= Len(s) BY <2>1, <1>1, <1>2 DEF EventIds
  <2>2. CASE i > Len(s)
    <3>1. i - Len(s) \in 1..Len(r) /\ (s \o r)[i] = r[i - Len(s)]
      BY <2>2
    <3> QED BY <3>1, <1>1 DEF EventIds
  <2> QED BY <2>1, <2>2
<1>5. EventIds(s) \subseteq EventIds(s \o r)
  BY <1>1, <1>2 DEF EventIds
<1>6. EventIds(r) \subseteq EventIds(s \o r)
  <2> SUFFICES ASSUME NEW i \in 1..Len(r) PROVE r[i].id \in EventIds(s \o r)
    BY <1>1 DEF EventIds
  <2>1. Len(s) + i \in DOMAIN (s \o r) BY <1>1
  <2> QED BY <2>1, <1>3 DEF EventIds
<1> QED BY <1>4, <1>5, <1>6

(* No two events of the list have the same id.                              *)
Distinct(s) == \A i, j \in DOMAIN s : s[i].id = s[j].id => i = j

(* Lists of events with no id in common can be joined.                      *)
LEMMA DistinctConcat ==
  ASSUME NEW s \in Seq(Event), NEW r \in Seq(Event)
  PROVE  Distinct(s \o r) <=> /\ Distinct(s) /\ Distinct(r)
                              /\ EventIds(s) \cap EventIds(r) = {}
<1>1. DOMAIN s = 1..Len(s) /\ DOMAIN r = 1..Len(r) /\ DOMAIN (s \o r) = 1..(Len(s) + Len(r))
  OBVIOUS
<1>2. \A i \in 1..Len(s) : i \in DOMAIN (s \o r) /\ (s \o r)[i] = s[i]
  OBVIOUS
<1>3. \A i \in 1..Len(r) : Len(s) + i \in DOMAIN (s \o r) /\ (s \o r)[Len(s) + i] = r[i]
  OBVIOUS
<1>4. Len(s) \in Nat /\ Len(r) \in Nat
  OBVIOUS
<1>5. ASSUME NEW i \in DOMAIN (s \o r)
      PROVE  i \in DOMAIN s \/ \E k \in DOMAIN r : i = Len(s) + k
  <2>1. CASE i <= Len(s) BY <2>1, <1>1
  <2>2. CASE i > Len(s)
    <3>1. i - Len(s) \in 1..Len(r) /\ i = Len(s) + (i - Len(s)) BY <2>2, <1>1, <1>4
    <3> QED BY <3>1, <1>1
  <2>3. i <= Len(s) \/ i > Len(s) BY <1>1, <1>4
  <2> QED BY <2>1, <2>2, <2>3
<1>6. ASSUME Distinct(s \o r)
      PROVE  Distinct(s) /\ Distinct(r) /\ EventIds(s) \cap EventIds(r) = {}
  <2>1. Distinct(s)
    BY <1>1, <1>2, <1>6 DEF Distinct
  <2>2. Distinct(r)
    <3>1. SUFFICES ASSUME NEW i \in 1..Len(r), NEW j \in 1..Len(r), r[i].id = r[j].id
                   PROVE  i = j
      BY <1>1 DEF Distinct
    <3>2. Len(s) + i = Len(s) + j
      BY <1>3, <1>6, <3>1 DEF Distinct
    <3> QED BY <1>4, <3>2
  <2>3. ASSUME NEW i \in 1..Len(s), NEW j \in 1..Len(r), s[i].id = r[j].id PROVE FALSE
    <3>1. i = Len(s) + j
      BY <1>2, <1>3, <1>6, <2>3 DEF Distinct
    <3> QED BY <1>4, <3>1
  <2> QED BY <1>1, <2>1, <2>2, <2>3 DEF EventIds
<1>7. ASSUME Distinct(s), Distinct(r), EventIds(s) \cap EventIds(r) = {}
      PROVE  Distinct(s \o r)
  <2>1. SUFFICES ASSUME NEW i \in DOMAIN (s \o r), NEW j \in DOMAIN (s \o r),
                        (s \o r)[i].id = (s \o r)[j].id
                 PROVE  i = j
    BY DEF Distinct
  <2>2. \A k \in DOMAIN s, l \in DOMAIN r : s[k].id # r[l].id
    BY <1>7 DEF EventIds
  <2>3. CASE i \in DOMAIN s /\ j \in DOMAIN s
    BY <1>1, <1>2, <1>7, <2>1, <2>3 DEF Distinct
  <2>4. CASE i \in DOMAIN s /\ \E l \in DOMAIN r : j = Len(s) + l
    BY <1>1, <1>2, <1>3, <2>1, <2>2, <2>4
  <2>5. CASE j \in DOMAIN s /\ \E l \in DOMAIN r : i = Len(s) + l
    BY <1>1, <1>2, <1>3, <2>1, <2>2, <2>5
  <2>6. ASSUME NEW k \in DOMAIN r, NEW l \in DOMAIN r, i = Len(s) + k, j = Len(s) + l
        PROVE  i = j
    BY <1>1, <1>3, <1>7, <2>1, <2>6 DEF Distinct
  <2> QED BY <1>5, <2>3, <2>4, <2>5, <2>6
<1> QED BY <1>6, <1>7

(* What capture() appends.                                                  *)
LEMMA NewEventsType ==
  ASSUME NEW ids \in Inputs, captured \in Seq(Event)
  PROVE  /\ ids \in Seq(Ids) /\ Len(ids) \in Nat \ {0} /\ DOMAIN ids = 1..Len(ids)
         /\ NewEvents(ids) \in Seq(Event) /\ Len(NewEvents(ids)) = Len(ids)
         /\ \A i \in 1..Len(ids) : NewEvents(ids)[i].id = ids[i]
         /\ EventIds(NewEvents(ids)) = {ids[i] : i \in DOMAIN ids}
<1>1. PICK k \in 1..MaxCapture : ids \in [1..k -> Ids]
  BY DEF Inputs
<1>2. k \in Nat \ {0} BY AsyncAssumption
<1>3. ids \in Seq(Ids) /\ Len(ids) = k /\ DOMAIN ids = 1..k
  BY <1>1, <1>2
<1>4. NewEvents(ids) \in [1..k -> Event]
  BY <1>1, <1>2, <1>3 DEF NewEvents, Event
<1>5. NewEvents(ids) \in Seq(Event) /\ Len(NewEvents(ids)) = k
  BY <1>2, <1>4
<1>6. \A i \in 1..k : NewEvents(ids)[i].id = ids[i]
  BY <1>3 DEF NewEvents
<1>7. EventIds(NewEvents(ids)) = {ids[i] : i \in DOMAIN ids}
  BY <1>3, <1>4, <1>6 DEF EventIds
<1> QED BY <1>2, <1>3, <1>5, <1>6, <1>7

-------------------------------------------------------------------------------
(* The inductive invariant                                                  *)

(* The unacknowledged events.                                               *)
Unacked == prepared.events \o queue

(* A batch has at least one event and at most MaxBatch.                     *)
BatchSized ==
  /\ Len(queued) <= MaxBatch
  /\ prepared # NoBatch => Len(prepared.events) \in 1..MaxBatch

IInv == TypeOK /\ DrainInStep /\ BatchSized /\ Conservation /\ Accounting

(* Three actions touch the events: the others leave every variable that     *)
(* describes them alone.                                                    *)
LEMMA EventSteps ==
  ASSUME [Next]_vars
  PROVE  \/ \E ids \in Inputs : Capture(ids)
         \/ Prepare \/ SendOk
         \/ UNCHANGED <<pendingVars, prepared, acked>>
<1> USE DEF pendingVars, serviceVars
<1>1. CASE UNCHANGED vars
  BY <1>1 DEF vars
<1>2. CASE Rejected \/ Flush \/ Close
  BY <1>2 DEF Rejected, Flush, Close
<1>3. CASE DrainBegin \/ TooLarge \/ SendRetry \/ SendFail
  BY <1>3 DEF DrainBegin, TooLarge, SendRetry, SendFail, Turn, Kept
<1>4. CASE WorkerStep \/ Tick
  BY <1>4 DEF WorkerStep, WorkerStop, WorkerIdle, WorkerDrain, WorkerSleep, WorkerTimeout, Tick, WorkerUnchanged
<1>5. CASE CloseStep
  BY <1>5 DEF CloseStep, CloseStart, CloseDrained, CloseLoop, CloseSeal, CloseClientFails,
              CloseUndo, CloseEnd, CloseUnchanged
<1>6. CASE Terminated
  BY <1>1, <1>6 DEF Terminated
<1> QED BY <1>1, <1>2, <1>3, <1>4, <1>5, <1>6 DEF Next, DrainStep

(* The unacknowledged events, as Conservation and Accounting name them.     *)
LEMMA UnackedParts ==
  ASSUME TypeOK
  PROVE  /\ prepared.events \in Seq(Event) /\ queue \in Seq(Event) /\ acked \in Seq(Event)
         /\ captured \in Seq(Event) /\ Unacked \in Seq(Event)
         /\ Len(Unacked) = Len(prepared.events) + Len(queue)
         /\ prepared = NoBatch => Unacked = queue /\ Len(prepared.events) = 0
         /\ Conservation <=> captured = acked \o Unacked
         /\ Accounting <=> /\ pendingCount = Len(Unacked) /\ pendingCount <= MaxQueue
                           /\ pendingIds = EventIds(Unacked) /\ Distinct(Unacked)
<1>1. /\ prepared.events \in Seq(Event) /\ queue \in Seq(Event) /\ acked \in Seq(Event)
      /\ captured \in Seq(Event) /\ NoBatch.events = <<>>
  BY DEF TypeOK, EventTypeOK, Batch, NoBatch
<1>2. Unacked \in Seq(Event) /\ Len(Unacked) = Len(prepared.events) + Len(queue)
  BY <1>1, EventConcat DEF Unacked
<1>3. ASSUME prepared = NoBatch PROVE Unacked = queue /\ Len(prepared.events) = 0
  <2>1. prepared.events = <<>>
    BY <1>1, <1>3
  <2>2. <<>> \o queue = queue
    BY <1>1, EventConcat
  <2> QED BY <2>1, <2>2 DEF Unacked
<1>4. (acked \o prepared.events) \o queue = acked \o Unacked
  BY <1>1, EventAssoc DEF Unacked
<1> QED BY <1>1, <1>2, <1>3, <1>4 DEF Conservation, Accounting, Unacked, Distinct

(* The same in the next state.                                              *)
LEMMA UnackedPartsNext ==
  ASSUME TypeOK'
  PROVE  /\ acked' \in Seq(Event) /\ captured' \in Seq(Event) /\ Unacked' \in Seq(Event)
         /\ Conservation' <=> captured' = acked' \o Unacked'
         /\ Accounting' <=> /\ pendingCount' = Len(Unacked') /\ pendingCount' <= MaxQueue
                            /\ pendingIds' = EventIds(Unacked') /\ Distinct(Unacked')
<1>1. /\ prepared'.events \in Seq(Event) /\ queue' \in Seq(Event) /\ acked' \in Seq(Event)
      /\ captured' \in Seq(Event)
  BY DEF TypeOK, EventTypeOK, Batch
<1>2. Unacked' \in Seq(Event)
  BY <1>1, EventConcat DEF Unacked
<1>3. (acked' \o prepared'.events) \o queue' = acked' \o Unacked'
  BY <1>1, EventAssoc DEF Unacked
<1> QED BY <1>1, <1>2, <1>3 DEF Conservation, Accounting, Unacked, Distinct

-------------------------------------------------------------------------------
(* Type correctness                                                         *)

LEMMA InitTypeOK == Init => TypeOK
<1> SUFFICES ASSUME Init PROVE TypeOK
  OBVIOUS
<1>1. EventTypeOK
  BY DEF Init, EventTypeOK, NoBatch, Batch
<1>2. ControlTypeOK
  BY DEF Init, ControlTypeOK
<1> QED BY <1>1, <1>2 DEF TypeOK

(* What a step of the drain assigns besides the events.                     *)
TaskTypeOK ==
  /\ queued \in Seq(Event) /\ batch \in Batch
  /\ deadline \in {"none", "armed", "due"} /\ immediate \in BOOLEAN
  /\ worker \in {"none", "loop", "idle", "sleep", "join", "done"}
  /\ drain \in {"none", "start", "prepare", "send"} /\ outcome \in {"ok", "err"}
  /\ closeAt \in {"none", "start", "drain", "drained", "worker", "client", "undo"}
  /\ accepted \in Nat /\ tally \in Nat /\ mark \in Nat

LEMMA FinishStep ==
  ASSUME TypeOK, NEW result \in {"ok", "err"}, NEW pending, NEW total \in Nat,
         Finish(result, pending, total)
  PROVE  TaskTypeOK' /\ drain' = "none" /\ queued' = <<>> /\ outcome' = result /\ mark' = 0
<1> USE DEF TypeOK, ControlTypeOK, EventTypeOK
<1>1. drain' = "none" /\ queued' = <<>> /\ batch' = NoBatch /\ accepted' = 0 /\ outcome' = result /\ mark' = 0
  BY DEF Finish
<1>2. batch' \in Batch /\ queued' \in Seq(Event)
  BY <1>1 DEF NoBatch, Batch
<1>3. immediate' \in BOOLEAN
  BY DEF Finish
<1>4. deadline' \in {"none", "armed", "due"}
  BY DEF Finish
<1>5. worker' \in {"none", "loop", "idle", "sleep", "join", "done"}
  BY DEF Finish, Woken
<1>6. closeAt' \in {"none", "start", "drain", "drained", "worker", "client", "undo"}
  BY DEF Finish
<1>7. tally' \in Nat
  <2>1. tally' = tally + total \/ tally' = tally
    BY DEF Finish
  <2> QED BY <2>1
<1> QED BY <1>1, <1>2, <1>3, <1>4, <1>5, <1>6, <1>7 DEF TaskTypeOK

(* The head of the loop: at the end nothing is pending, and a snapshot is   *)
(* what the queue begins with.                                              *)
LEMMA DrainLoopStep ==
  ASSUME TypeOK, NEW pending \in Nat, NEW kept \in Batch, NEW total \in Nat,
         kept = NoBatch => pending = Len(queue), queue' = queue, prepared' = kept,
         DrainLoop(pending, kept, total)
  PROVE  /\ TaskTypeOK' /\ Len(queued') <= MaxBatch
         /\ drain' = "none" => pending = 0 /\ mark' = 0 /\ outcome' = "ok"
         /\ drain' # "none" => UNCHANGED <<closeAt, mark>>
         /\ DrainInStep'
<1>0. queue \in Seq(Event) /\ Len(queue) \in Nat /\ MaxBatch \in Nat \ {0}
  BY AsyncAssumption DEF TypeOK, EventTypeOK
<1>1. CASE pending = 0
  <2>1. Finish("ok", pending, total)
    BY <1>1 DEF DrainLoop, Drained
  <2>2. TaskTypeOK' /\ drain' = "none" /\ queued' = <<>> /\ outcome' = "ok" /\ mark' = 0
    BY <2>1, FinishStep
  <2>3. Len(queued') = 0
    BY <2>2
  <2> QED BY <1>0, <1>1, <2>2, <2>3 DEF DrainInStep
<1>2. CASE pending # 0 /\ kept # NoBatch
  <2>1. /\ drain' = "send" /\ queued' = <<>> /\ batch' = kept /\ accepted' = total
        /\ UNCHANGED <<outcome, mark, deadline, immediate, worker, closeAt, tally>>
    BY <1>2 DEF DrainLoop, Drained, timerVars
  <2>2. queued' \in Seq(Event) /\ Len(queued') = 0
    BY <2>1
  <2>3. TaskTypeOK'
    BY <2>1, <2>2 DEF TaskTypeOK, TypeOK, ControlTypeOK
  <2> QED BY <1>0, <1>2, <2>1, <2>2, <2>3 DEF DrainInStep
<1>3. CASE pending # 0 /\ kept = NoBatch
  <2> DEFINE m == IF MaxBatch < Len(queue) THEN MaxBatch ELSE Len(queue)
  <2>1. /\ drain' = "prepare" /\ queued' = Prefix(queue, MaxBatch) /\ batch' = kept /\ accepted' = total
        /\ UNCHANGED <<outcome, mark, deadline, immediate, worker, closeAt, tally>>
    BY <1>3 DEF DrainLoop, Drained, timerVars
  <2>2. m \in 1..Len(queue) /\ m <= MaxBatch
    BY <1>0, <1>3
  <2>3. queued' = Prefix(queue, m)
    BY <1>0, <2>1 DEF Prefix
  <2>4. queued' \in Seq(Event) /\ Len(queued') = m
    BY <1>0, <2>2, <2>3, PrefixIsSubSeq
  <2> HIDE DEF m
  <2>5. queued' # <<>> /\ Len(queued') <= MaxBatch
    BY <2>2, <2>4
  <2>6. Prefix(queue', Len(queued')) = queued'
    BY <2>3, <2>4
  <2>7. TaskTypeOK'
    BY <2>1, <2>4 DEF TaskTypeOK, TypeOK, ControlTypeOK
  <2> QED BY <1>3, <2>1, <2>5, <2>6, <2>7 DEF DrainInStep
<1> QED BY <1>1, <1>2, <1>3

(* The batch that the thread has built and the drain has kept: the queue    *)
(* still begins with the snapshot, so the "inconsistent" error is not raised.*)
LEMMA PrepareStep ==
  ASSUME TypeOK, DrainInStep, BatchSized, Prepare
  PROVE  /\ prepared = NoBatch /\ prepared' \in Batch /\ prepared'.key = nextKey + 1
         /\ nextKey' = nextKey + 1 /\ Len(prepared'.events) \in 1..MaxBatch
         /\ queue' \in Seq(Event) /\ queue = prepared'.events \o queue'
         /\ drain' = "send" /\ queued' = <<>> /\ batch' = prepared'
         /\ UNCHANGED <<acked, server, pendingIds, pendingCount, captured, attempt>>
         /\ UNCHANGED <<accepted, outcome, mark, timerVars, worker, closeAt, tally>>
<1> USE DEF TypeOK, EventTypeOK
<1>1. PICK k \in BatchSizes :
        IF Prefix(queue, k) = Prefix(queued, k)
        THEN /\ prepared' = [key |-> nextKey + 1, events |-> Prefix(queued, k)]
             /\ batch' = prepared' /\ queue' = Popped(k)
             /\ drain' = "send" /\ queued' = <<>>
             /\ UNCHANGED <<accepted, outcome, mark, timerVars, worker, closeAt, tally>>
        ELSE Finish("err", pendingCount, accepted) /\ UNCHANGED <<prepared, queue>>
  BY DEF Prepare
<1> DEFINE n == Len(queued)
<1>2. prepared = NoBatch /\ Prefix(queue, n) = queued /\ n <= MaxBatch
  BY DEF Prepare, DrainInStep, BatchSized
<1>3. n \in Nat /\ queued \in Seq(Event) /\ queue \in Seq(Event) /\ Len(queue) \in Nat
  OBVIOUS
<1>4. n <= Len(queue)
  BY <1>2, <1>3, PrefixFits
<1>5. k \in 1..n
  BY DEF BatchSizes, Halvings
<1>6. n \in 0..Len(queue) /\ k \in 0..n /\ k \in 0..Len(queue) /\ k \in 1..MaxBatch
  BY <1>2, <1>3, <1>4, <1>5, AsyncAssumption
<1> HIDE DEF n
<1>7. Prefix(queue, k) = Prefix(queued, k)
  BY <1>2, <1>3, <1>6, PrefixOfPrefix
<1>8. /\ Prefix(queue, k) \in Seq(Event) /\ Len(Prefix(queue, k)) = k
      /\ Popped(k) \in Seq(Event) /\ queue = Prefix(queue, k) \o Popped(k)
  BY <1>3, <1>6, PrefixIsSubSeq, SplitAtPrefix DEF Popped
<1>9. /\ prepared' = [key |-> nextKey + 1, events |-> Prefix(queue, k)]
      /\ batch' = prepared' /\ queue' = Popped(k)
      /\ drain' = "send" /\ queued' = <<>>
      /\ UNCHANGED <<accepted, outcome, mark, timerVars, worker, closeAt, tally>>
  BY <1>1, <1>7
<1>10. prepared'.key = nextKey + 1 /\ prepared'.events = Prefix(queue, k) /\ prepared' \in Batch
  BY <1>8, <1>9 DEF Batch
<1>11. /\ nextKey' = nextKey + 1
       /\ UNCHANGED <<acked, server, pendingIds, pendingCount, captured, attempt>>
  BY DEF Prepare, Turn
<1> QED BY <1>2, <1>6, <1>8, <1>9, <1>10, <1>11

(* An acknowledged batch leaves the queue before the drain.                 *)
LEMMA SendOkStep ==
  ASSUME TypeOK, DrainInStep, BatchSized, Accounting, SendOk
  PROVE  /\ prepared # NoBatch /\ prepared' = NoBatch /\ UNCHANGED <<queue, captured, nextKey>>
         /\ Unacked = prepared.events \o queue /\ Unacked' = queue
         /\ Len(prepared.events) \in 1..MaxBatch
         /\ acked' = acked \o prepared.events
         /\ pendingCount' = pendingCount - Len(prepared.events) /\ pendingCount' = Len(queue)
         /\ pendingIds' = pendingIds \ EventIds(prepared.events)
         /\ server' = server \cup {prepared}
         /\ TaskTypeOK' /\ DrainInStep' /\ Len(queued') <= MaxBatch
         /\ drain' = "none" => pendingCount' = 0 /\ mark' = 0 /\ outcome' = "ok"
         /\ drain' # "none" => UNCHANGED <<closeAt, mark>>
<1>1. prepared = batch /\ prepared # NoBatch /\ Len(prepared.events) \in 1..MaxBatch
  BY DEF SendOk, DrainInStep, BatchSized
<1>2. /\ prepared' = NoBatch /\ UNCHANGED <<queue, captured, nextKey>> /\ acked' = acked \o prepared.events
      /\ pendingCount' = pendingCount - Len(prepared.events)
      /\ pendingIds' = pendingIds \ EventIds(prepared.events)
      /\ server' = server \cup {prepared}
      /\ DrainLoop(pendingCount', NoBatch, accepted + Len(prepared.events))
  BY <1>1 DEF SendOk, Remaining, Transmit, Turn
<1>3. /\ pendingCount = Len(prepared.events) + Len(queue)
      /\ queue \in Seq(Event) /\ Len(queue) \in Nat /\ Len(prepared.events) \in Nat
  <2>1. /\ queue \in Seq(Event) /\ prepared.events \in Seq(Event)
        /\ pendingCount = Len(Unacked) /\ Len(Unacked) = Len(prepared.events) + Len(queue)
    BY UnackedParts
  <2> QED BY <2>1
<1>4. Unacked' = queue
  <2>1. NoBatch.events = <<>> /\ <<>> \o queue = queue
    BY <1>3, EventConcat DEF NoBatch
  <2> QED BY <1>2, <2>1 DEF Unacked
<1>5. pendingCount' = Len(queue)
  BY <1>2, <1>3
<1>6. /\ pendingCount' \in Nat /\ NoBatch \in Batch /\ accepted + Len(prepared.events) \in Nat
  BY <1>3, <1>5 DEF NoBatch, Batch, TypeOK, ControlTypeOK
<1>7. /\ TaskTypeOK' /\ DrainInStep' /\ Len(queued') <= MaxBatch
      /\ drain' = "none" => pendingCount' = 0 /\ mark' = 0 /\ outcome' = "ok"
      /\ drain' # "none" => UNCHANGED <<closeAt, mark>>
  BY <1>2, <1>5, <1>6, DrainLoopStep
<1> QED BY <1>1, <1>2, <1>4, <1>5, <1>7 DEF Unacked

(* A drain that begins.                                                     *)
LEMMA DrainBeginStep ==
  ASSUME TypeOK, Accounting, DrainBegin
  PROVE  /\ TaskTypeOK' /\ DrainInStep' /\ Len(queued') <= MaxBatch
         /\ drain' = "none" => pendingCount' = 0 /\ mark' = 0 /\ outcome' = "ok"
         /\ drain' # "none" => UNCHANGED <<closeAt, mark>>
         /\ UNCHANGED <<pendingVars, prepared, acked>>
<1>1. /\ DrainLoop(pendingCount, prepared, 0) /\ UNCHANGED <<pendingVars, prepared, acked>>
      /\ queue' = queue /\ pendingCount' = pendingCount
  BY DEF DrainBegin, Turn, pendingVars, serviceVars
<1>2. /\ pendingCount \in Nat /\ prepared \in Batch
      /\ prepared = NoBatch => pendingCount = Len(queue)
  BY UnackedParts DEF TypeOK, EventTypeOK
<1> QED BY <1>1, <1>2, DrainLoopStep

(* A drain that fails.                                                      *)
LEMMA FailStep ==
  ASSUME TypeOK, TooLarge \/ SendFail
  PROVE  /\ TaskTypeOK' /\ drain' = "none" /\ queued' = <<>> /\ outcome' = "err" /\ mark' = 0
         /\ UNCHANGED <<pendingVars, prepared, acked>>
<1>1. Finish("err", pendingCount, accepted) /\ UNCHANGED <<pendingVars, prepared, acked>>
  BY DEF TooLarge, SendFail, Kept, Turn, pendingVars, serviceVars
<1>2. accepted \in Nat
  BY DEF TypeOK, ControlTypeOK
<1> QED BY <1>1, <1>2, FinishStep

(* The types of the events, of what a drain changes, and of the rest.       *)
EventPart ==
  /\ queue \in Seq(Event) /\ captured \in Seq(Event) /\ acked \in Seq(Event)
  /\ pendingIds \subseteq Ids /\ pendingCount \in Nat
  /\ prepared \in Batch /\ server \subseteq Batch /\ nextKey \in Nat

RestTypeOK ==
  /\ workerStop \in BOOLEAN /\ closing \in BOOLEAN /\ closed \in BOOLEAN /\ ahead \in BOOLEAN
  /\ httpClosed \in BOOLEAN /\ attempt \in Nat /\ owed \in Nat

LEMMA TypeParts == /\ TypeOK <=> EventPart /\ TaskTypeOK /\ RestTypeOK
                   /\ EventPart' /\ TaskTypeOK' /\ RestTypeOK' => TypeOK'
BY DEF TypeOK, EventTypeOK, ControlTypeOK, EventPart, TaskTypeOK, RestTypeOK

LEMMA EventTypeStep ==
  ASSUME TypeOK, DrainInStep, BatchSized, Accounting, [Next]_vars
  PROVE  EventPart'
<1> USE DEF EventPart
<1>0. EventPart /\ NoBatch \in Batch /\ batch \in Batch /\ prepared.events \in Seq(Event)
  BY TypeParts DEF NoBatch, Batch, TaskTypeOK
<1>1. ASSUME NEW ids \in Inputs, Capture(ids) PROVE EventPart'
  <2>1. /\ queue \o NewEvents(ids) \in Seq(Event) /\ captured \o NewEvents(ids) \in Seq(Event)
        /\ pendingIds \cup {ids[i] : i \in DOMAIN ids} \subseteq Ids
        /\ pendingCount + Len(ids) \in Nat
    BY <1>0, NewEventsType
  <2> QED BY <1>0, <1>1, <2>1 DEF Capture, serviceVars
<1>2. CASE Prepare
  BY <1>0, <1>2, PrepareStep
<1>3. CASE SendOk
  <2>1. /\ prepared' = NoBatch /\ UNCHANGED <<queue, captured, nextKey>>
        /\ acked' = acked \o prepared.events /\ pendingCount' = Len(queue)
        /\ pendingIds' = pendingIds \ EventIds(prepared.events) /\ server' = server \cup {prepared}
    BY <1>3, SendOkStep
  <2>2. acked \o prepared.events \in Seq(Event)
    BY <1>0
  <2> QED BY <1>0, <2>1, <2>2
<1>4. CASE SendRetry \/ SendFail
  <2>1. \E received \in BOOLEAN : Transmit(received)
    BY <1>4 DEF SendRetry, SendFail
  <2>2. server' \subseteq Batch
    BY <1>0, <2>1 DEF Transmit
  <2> QED BY <1>0, <1>4, <2>2 DEF SendRetry, SendFail, Turn, Kept
<1>5. CASE UNCHANGED <<pendingVars, prepared, serviceVars>>
  BY <1>0, <1>5 DEF pendingVars, serviceVars
<1>6. CASE Rejected \/ Flush \/ Close
  BY <1>5, <1>6 DEF Rejected, Flush, Close
<1>7. CASE DrainBegin \/ TooLarge
  BY <1>5, <1>7 DEF DrainBegin, TooLarge, Turn, pendingVars
<1>8. CASE WorkerStep \/ Tick
  BY <1>5, <1>8 DEF WorkerStep, WorkerStop, WorkerIdle, WorkerDrain, WorkerSleep, WorkerTimeout, Tick,
                    WorkerUnchanged
<1>9. CASE CloseStep
  BY <1>5, <1>9 DEF CloseStep, CloseStart, CloseDrained, CloseLoop, CloseSeal, CloseClientFails,
                    CloseUndo, CloseEnd, CloseUnchanged
<1>10. CASE Terminated \/ UNCHANGED vars
  BY <1>5, <1>10 DEF Terminated, vars
<1> QED BY <1>1, <1>2, <1>3, <1>4, <1>6, <1>7, <1>8, <1>9, <1>10 DEF Next, DrainStep

LEMMA ControlTypeStep ==
  ASSUME TypeOK, DrainInStep, BatchSized, Accounting, [Next]_vars
  PROVE  TaskTypeOK' /\ RestTypeOK'
<1>0. TaskTypeOK /\ RestTypeOK /\ Len(captured) \in Nat /\ pendingCount \in Nat
  BY TypeParts DEF EventPart
<1> USE DEF TaskTypeOK, RestTypeOK, timerVars, workerVars, drainVars, closeVars
<1>1. ASSUME NEW ids \in Inputs, Capture(ids) PROVE TaskTypeOK' /\ RestTypeOK'
  <2>1. deadline' \in {"none", "armed", "due"} /\ immediate' \in BOOLEAN
    BY <1>0, <1>1 DEF Capture
  <2>2. worker' \in {"none", "loop", "idle", "sleep", "join", "done"}
    BY <1>0, <1>1 DEF Capture, Woken, Runtime
  <2> QED BY <1>0, <1>1, <2>1, <2>2 DEF Capture
<1>2. CASE Rejected
  BY <1>0, <1>2 DEF Rejected, Runtime
<1>3. CASE Flush
  <2>1. worker' \in {"none", "loop", "idle", "sleep", "join", "done"}
    BY <1>0, <1>3 DEF Flush, Woken, Runtime
  <2> QED BY <1>0, <1>3, <2>1 DEF Flush, StartDrain
<1>4. ASSUME Turn, UNCHANGED attempt \/ attempt' \in Nat PROVE RestTypeOK'
  BY <1>0, <1>4 DEF Turn
<1>5. CASE DrainBegin
  <2>1. Turn /\ UNCHANGED attempt
    BY <1>5 DEF DrainBegin
  <2>2. TaskTypeOK'
    BY <1>5, DrainBeginStep
  <2> QED BY <1>4, <2>1, <2>2
<1>6. CASE Prepare
  <2>1. Turn /\ UNCHANGED attempt
    BY <1>6 DEF Prepare
  <2>2. /\ prepared' \in Batch /\ drain' = "send" /\ queued' = <<>> /\ batch' = prepared'
        /\ UNCHANGED <<accepted, outcome, mark, timerVars, worker, closeAt, tally>>
    BY <1>6, PrepareStep
  <2>3. queued' \in Seq(Event)
    BY <2>2
  <2> QED BY <1>0, <1>4, <2>1, <2>2, <2>3
<1>7. CASE TooLarge \/ SendFail
  <2>1. Turn /\ (UNCHANGED attempt \/ attempt' = 0)
    BY <1>7 DEF TooLarge, SendFail
  <2>2. TaskTypeOK'
    BY <1>7, FailStep
  <2> QED BY <1>4, <2>1, <2>2
<1>8. CASE SendOk
  <2>1. Turn /\ attempt' = 0
    BY <1>8 DEF SendOk
  <2>2. TaskTypeOK'
    BY <1>8, SendOkStep
  <2> QED BY <1>4, <2>1, <2>2
<1>9. CASE SendRetry
  <2>1. Turn /\ attempt' = attempt + 1
    BY <1>9 DEF SendRetry
  <2>2. TaskTypeOK'
    BY <1>0, <1>9 DEF SendRetry
  <2> QED BY <1>0, <1>4, <2>1, <2>2
<1>10. CASE WorkerStep \/ Tick
  BY <1>0, <1>10 DEF WorkerStep, WorkerStop, WorkerIdle, WorkerDrain, WorkerSleep, WorkerTimeout, Tick,
                     WorkerUnchanged, StartDrain
<1>11. CASE Close
  <2>1. worker' \in {"none", "loop", "idle", "sleep", "join", "done"}
    BY <1>0, <1>11 DEF Close, Woken, Runtime
  <2>2. ahead' \in BOOLEAN
    BY <1>11 DEF Close
  <2> QED BY <1>0, <1>11, <2>1, <2>2 DEF Close
<1>12. CASE CloseStart \/ CloseDrained \/ CloseLoop \/ CloseClientFails
  BY <1>0, <1>12 DEF CloseStart, CloseDrained, CloseLoop, CloseClientFails, CloseUnchanged, StartDrain
<1>13. CASE CloseSeal
  <2>1. httpClosed' \in BOOLEAN
    BY <1>13 DEF CloseSeal
  <2> QED BY <1>0, <1>13, <2>1 DEF CloseSeal, CloseEnd, CloseUnchanged
<1>14. CASE CloseUndo
  BY <1>0, <1>14 DEF CloseUndo, CloseEnd, CloseUnchanged, Restarted
<1>15. CASE Terminated \/ UNCHANGED vars
  BY <1>0, <1>15 DEF Terminated, vars
<1> QED BY <1>1, <1>2, <1>3, <1>5, <1>6, <1>7, <1>8, <1>9, <1>10, <1>11, <1>12, <1>13, <1>14, <1>15
           DEF Next, DrainStep, CloseStep

-------------------------------------------------------------------------------
(* The drain and the queue                                                  *)

(* What a drain has read before an await is still so after it: others only  *)
(* append to the queue, and nobody else keeps or forgets a batch.           *)
LEMMA DrainInStepStep ==
  ASSUME TypeOK, DrainInStep, BatchSized, Accounting, [Next]_vars
  PROVE  DrainInStep' /\ BatchSized'
<1> USE DEF DrainInStep, BatchSized, drainVars, pendingVars
<1>0. queue \in Seq(Event) /\ queued \in Seq(Event) /\ MaxBatch \in Nat \ {0}
  BY AsyncAssumption DEF TypeOK, EventTypeOK
<1>1. CASE UNCHANGED <<queue, queued, prepared, batch>> /\ drain' \in {drain, "start"}
  BY <1>1
<1>2. ASSUME NEW ids \in Inputs, Capture(ids) PROVE DrainInStep' /\ BatchSized'
  <2>1. /\ NewEvents(ids) \in Seq(Event) /\ queue' = queue \o NewEvents(ids)
        /\ UNCHANGED <<queued, prepared, batch, drain>>
    BY <1>2, NewEventsType DEF Capture, TypeOK, EventTypeOK
  <2>2. ASSUME drain = "prepare" PROVE Prefix(queue', Len(queued)) = queued
    <3>1. Len(queued) \in Nat /\ Prefix(queue, Len(queued)) = queued
      BY <1>0, <2>2
    <3>2. Len(queued) \in 0..Len(queue)
      BY <1>0, <3>1, PrefixFits
    <3> QED BY <1>0, <2>1, <3>1, <3>2, PrefixOfAppended
  <2> QED BY <2>1, <2>2
<1>3. CASE Prepare
  <2>1. /\ drain' = "send" /\ batch' = prepared' /\ Len(prepared'.events) \in 1..MaxBatch
        /\ prepared'.key = nextKey + 1 /\ queued' = <<>> /\ nextKey \in Nat
    BY <1>3, PrepareStep DEF TypeOK, EventTypeOK
  <2>2. prepared' # NoBatch /\ Len(queued') = 0
    BY <2>1 DEF NoBatch
  <2> QED BY <1>0, <2>1, <2>2
<1>4. CASE SendOk
  BY <1>4, SendOkStep
<1>5. CASE DrainBegin
  BY <1>5, DrainBeginStep
<1>6. CASE TooLarge \/ SendFail
  <2>1. drain' = "none" /\ Len(queued') = 0 /\ prepared' = prepared
    BY <1>6, FailStep
  <2> QED BY <1>0, <2>1
<1>7. CASE SendRetry
  BY <1>1, <1>7 DEF SendRetry
<1>8. CASE Rejected \/ Flush \/ Close
  BY <1>1, <1>8 DEF Rejected, Flush, Close, StartDrain
<1>9. CASE WorkerStep \/ Tick
  BY <1>1, <1>9 DEF WorkerStep, WorkerStop, WorkerIdle, WorkerDrain, WorkerSleep, WorkerTimeout, Tick,
                    WorkerUnchanged, StartDrain
<1>10. CASE CloseStep
  BY <1>1, <1>10 DEF CloseStep, CloseStart, CloseDrained, CloseLoop, CloseSeal, CloseClientFails,
                     CloseUndo, CloseEnd, CloseUnchanged, StartDrain
<1>11. CASE Terminated \/ UNCHANGED vars
  BY <1>1, <1>11 DEF Terminated, vars
<1> QED BY <1>2, <1>3, <1>4, <1>5, <1>6, <1>7, <1>8, <1>9, <1>10, <1>11 DEF Next, DrainStep

LEMMA CaptureStep ==
  ASSUME TypeOK, NEW ids \in Inputs, Capture(ids)
  PROVE  /\ NewEvents(ids) \in Seq(Event)
         /\ Unacked' = Unacked \o NewEvents(ids) /\ captured' = captured \o NewEvents(ids)
         /\ UNCHANGED acked
<1>1. NewEvents(ids) \in Seq(Event) /\ queue \in Seq(Event) /\ prepared.events \in Seq(Event)
  BY NewEventsType, UnackedParts DEF TypeOK, EventTypeOK
<1>2. (prepared.events \o queue) \o NewEvents(ids) = prepared.events \o (queue \o NewEvents(ids))
  BY <1>1, EventAssoc
<1>3. Unacked' = prepared.events \o (queue \o NewEvents(ids))
  BY DEF Unacked, Capture
<1>4. captured' = captured \o NewEvents(ids) /\ UNCHANGED acked
  BY DEF Capture, serviceVars
<1> QED BY <1>1, <1>2, <1>3, <1>4 DEF Unacked

(* Building a batch leaves the unacknowledged events as they are.           *)
LEMMA PrepareKeeps ==
  ASSUME TypeOK, DrainInStep, BatchSized, Prepare
  PROVE  Unacked' = Unacked /\ UNCHANGED <<acked, captured, pendingIds, pendingCount>>
<1>1. /\ prepared = NoBatch /\ queue = prepared'.events \o queue'
      /\ UNCHANGED <<acked, captured, pendingIds, pendingCount>>
  BY PrepareStep
<1>2. Unacked = queue
  BY <1>1, UnackedParts
<1> QED BY <1>1, <1>2 DEF Unacked

(* No action loses, repeats or reorders an event.                           *)
LEMMA ConservationStep ==
  ASSUME TypeOK, TypeOK', DrainInStep, BatchSized, Accounting, Conservation, [Next]_vars
  PROVE  Conservation'
<1>1. /\ acked \in Seq(Event) /\ Unacked \in Seq(Event) /\ prepared.events \in Seq(Event)
      /\ queue \in Seq(Event) /\ captured = acked \o Unacked
  BY UnackedParts
<1>0. captured' = acked' \o Unacked' => Conservation'
  BY UnackedPartsNext
<1>2. ASSUME NEW ids \in Inputs, Capture(ids) PROVE Conservation'
  <2>1. /\ NewEvents(ids) \in Seq(Event) /\ Unacked' = Unacked \o NewEvents(ids)
        /\ captured' = captured \o NewEvents(ids) /\ acked' = acked
    BY <1>2, CaptureStep
  <2>2. (acked \o Unacked) \o NewEvents(ids) = acked \o (Unacked \o NewEvents(ids))
    BY <1>1, <2>1, EventAssoc
  <2> QED BY <1>0, <1>1, <2>1, <2>2
<1>3. CASE Prepare
  BY <1>0, <1>1, <1>3, PrepareKeeps
<1>4. CASE SendOk
  <2>1. /\ Unacked = prepared.events \o queue /\ Unacked' = queue
        /\ captured' = captured /\ acked' = acked \o prepared.events
    BY <1>4, SendOkStep
  <2>2. (acked \o prepared.events) \o queue = acked \o (prepared.events \o queue)
    BY <1>1, EventAssoc
  <2> QED BY <1>0, <1>1, <2>1, <2>2
<1>5. CASE UNCHANGED <<pendingVars, prepared, acked>>
  BY <1>5 DEF Conservation, pendingVars
<1> QED BY <1>2, <1>3, <1>4, <1>5, EventSteps

(* capture() counts and reserves what it appends, acknowledging releases    *)
(* the batch, and nothing else changes what is pending.                     *)
LEMMA AccountingStep ==
  ASSUME TypeOK, TypeOK', DrainInStep, BatchSized, Accounting, [Next]_vars
  PROVE  Accounting'
<1>1. /\ pendingCount = Len(Unacked) /\ pendingCount <= MaxQueue
      /\ pendingIds = EventIds(Unacked) /\ Distinct(Unacked)
  BY UnackedParts
<1>2. /\ pendingCount' = Len(Unacked') /\ pendingCount' <= MaxQueue
      /\ pendingIds' = EventIds(Unacked') /\ Distinct(Unacked')
      => Accounting'
  BY UnackedPartsNext
<1>3. Unacked \in Seq(Event) /\ prepared.events \in Seq(Event) /\ queue \in Seq(Event)
  BY UnackedParts
<1>4. ASSUME NEW ids \in Inputs, Capture(ids) PROVE Accounting'
  <2> DEFINE new == NewEvents(ids)
  <2>1. Unacked' = Unacked \o new
    BY <1>4, CaptureStep
  <2>2. /\ new \in Seq(Event) /\ Len(new) = Len(ids) /\ Len(ids) \in Nat
        /\ EventIds(new) = {ids[i] : i \in DOMAIN ids}
        /\ DOMAIN ids = 1..Len(ids) /\ \A i \in 1..Len(ids) : new[i].id = ids[i]
    BY NewEventsType DEF TypeOK, EventTypeOK
  <2> HIDE DEF new
  <2>3. /\ pendingCount' = pendingCount + Len(ids) /\ pendingCount + Len(ids) <= MaxQueue
        /\ pendingIds' = pendingIds \cup {ids[i] : i \in DOMAIN ids}
        /\ \A i \in DOMAIN ids : ids[i] \notin pendingIds
    BY <1>4 DEF Capture, HasRoom, Reserved
  <2>4. /\ Len(Unacked') = Len(Unacked) + Len(ids)
        /\ EventIds(Unacked') = EventIds(Unacked) \cup EventIds(new)
    <3>1. Len(Unacked \o new) = Len(Unacked) + Len(new)
      BY <1>3, <2>2, EventConcat
    <3>2. EventIds(Unacked \o new) = EventIds(Unacked) \cup EventIds(new)
      BY <1>3, <2>2, IdsOfConcat
    <3> QED BY <2>1, <2>2, <3>1, <3>2
  <2>5. Distinct(Unacked')
    <3>1. \A i, j \in DOMAIN ids : ids[i] = ids[j] => i = j
      BY DEF Inputs
    <3>2. DOMAIN new = DOMAIN ids
      BY <2>2
    <3>3. Distinct(new)
      BY <2>2, <3>1, <3>2 DEF Distinct
    <3>4. EventIds(Unacked) \cap EventIds(new) = {}
      BY <1>1, <2>2, <2>3
    <3> QED BY <1>1, <1>3, <2>1, <2>2, <3>3, <3>4, DistinctConcat
  <2>6. pendingCount \in Nat /\ MaxQueue \in Nat
    BY AsyncAssumption DEF TypeOK, EventTypeOK
  <2> QED BY <1>1, <1>2, <2>2, <2>3, <2>4, <2>5, <2>6
<1>5. CASE Prepare
  BY <1>1, <1>2, <1>5, PrepareKeeps
<1>6. CASE SendOk
  <2>1. /\ Unacked = prepared.events \o queue /\ Unacked' = queue
        /\ pendingCount' = pendingCount - Len(prepared.events) /\ pendingCount' = Len(queue)
        /\ pendingIds' = pendingIds \ EventIds(prepared.events)
    BY <1>6, SendOkStep
  <2>2. /\ Distinct(queue) /\ EventIds(prepared.events) \cap EventIds(queue) = {}
        /\ EventIds(Unacked) = EventIds(prepared.events) \cup EventIds(queue)
    BY <1>1, <1>3, <2>1, DistinctConcat, IdsOfConcat
  <2>3. pendingCount' <= MaxQueue
    <3>1. Len(prepared.events) \in Nat /\ pendingCount \in Nat /\ MaxQueue \in Nat
      BY <1>3, AsyncAssumption DEF TypeOK, EventTypeOK
    <3> QED BY <1>1, <2>1, <3>1
  <2>4. pendingIds' = EventIds(Unacked')
    BY <1>1, <2>1, <2>2
  <2> QED BY <1>2, <2>1, <2>2, <2>3, <2>4
<1>7. CASE UNCHANGED <<pendingVars, prepared, acked>>
  BY <1>7 DEF Accounting, pendingVars
<1> QED BY <1>4, <1>5, <1>6, <1>7, EventSteps

-------------------------------------------------------------------------------
(* The first group of theorems                                              *)

LEMMA InitIInv == Init => IInv
<1> SUFFICES ASSUME Init PROVE IInv
  OBVIOUS
<1>1. TypeOK
  BY InitTypeOK
<1>2. Len(queued) = 0 /\ DrainInStep
  BY DEF Init, DrainInStep
<1>3. BatchSized
  BY <1>2, AsyncAssumption DEF Init, BatchSized
<1>4. queue = <<>> /\ captured = <<>> /\ acked = <<>> /\ prepared = NoBatch
  BY DEF Init
<1>5. Unacked = <<>> /\ <<>> \o <<>> = <<>>
  BY <1>1, <1>4, UnackedParts
<1>6. Conservation
  BY <1>1, <1>4, <1>5, UnackedParts
<1>7. /\ pendingCount = 0 /\ pendingIds = {} /\ Len(Unacked) = 0
      /\ EventIds(Unacked) = {} /\ Distinct(Unacked)
  BY <1>5 DEF Init, EventIds, Distinct
<1>8. Accounting
  BY <1>1, <1>7, UnackedParts, AsyncAssumption
<1> QED BY <1>1, <1>2, <1>3, <1>6, <1>8 DEF IInv

LEMMA NextIInv == IInv /\ [Next]_vars => IInv'
<1> SUFFICES ASSUME IInv, [Next]_vars PROVE IInv'
  OBVIOUS
<1> USE DEF IInv
<1>1. TypeOK'
  BY EventTypeStep, ControlTypeStep, TypeParts
<1>2. DrainInStep' /\ BatchSized'
  BY DrainInStepStep
<1>3. Conservation' /\ Accounting'
  BY <1>1, ConservationStep, AccountingStep
<1> QED BY <1>1, <1>2, <1>3

LEMMA Inductive == Safety => []IInv
<1> QED BY InitIInv, NextIInv, PTL DEF Safety

(* No event is lost, duplicated or reordered between the queue and the      *)
(* prepared batch; _pending_count and _pending_event_ids are exact; and the *)
(* snapshot a thread has built a request from still heads the queue when it *)
(* is done, so that no RuntimeError is raised (capture, _run_drain,         *)
(* _prepare_next_batch).                                                    *)
THEOREM AsyncIsConsistent == Safety => []Consistent
<1>1. IInv => Consistent BY DEF IInv, Consistent
<1> QED BY <1>1, Inductive, PTL

-------------------------------------------------------------------------------
(* What the service receives                                                *)

(* A step that neither captures, keeps a batch, sends nor acknowledges.     *)
Aside == UNCHANGED <<captured, prepared, acked, server, nextKey>>

LEMMA DeliverySteps ==
  ASSUME [Next]_vars
  PROVE  \/ \E ids \in Inputs : Capture(ids)
         \/ Prepare \/ SendOk \/ SendRetry \/ SendFail
         \/ Aside
<1> USE DEF pendingVars, serviceVars, Aside
<1>1. CASE UNCHANGED vars
  BY <1>1 DEF vars
<1>2. CASE Rejected \/ Flush \/ Close
  BY <1>2 DEF Rejected, Flush, Close
<1>3. CASE DrainBegin \/ TooLarge
  BY <1>3 DEF DrainBegin, TooLarge, Turn
<1>4. CASE WorkerStep \/ Tick
  BY <1>4 DEF WorkerStep, WorkerStop, WorkerIdle, WorkerDrain, WorkerSleep, WorkerTimeout, Tick, WorkerUnchanged
<1>5. CASE CloseStep
  BY <1>5 DEF CloseStep, CloseStart, CloseDrained, CloseLoop, CloseSeal, CloseClientFails,
              CloseUndo, CloseEnd, CloseUnchanged
<1>6. CASE Terminated
  BY <1>1, <1>6 DEF Terminated
<1> QED BY <1>1, <1>2, <1>3, <1>4, <1>5, <1>6 DEF Next, DrainStep

(* An attempt that is not acknowledged may have sent the batch all the same.*)
LEMMA AttemptStep ==
  ASSUME DrainInStep, SendRetry \/ SendFail
  PROVE  /\ prepared # NoBatch
         /\ server' = server \/ server' = server \cup {prepared}
         /\ UNCHANGED <<captured, prepared, acked, nextKey>>
<1>1. prepared = batch /\ prepared # NoBatch
  BY DEF SendRetry, SendFail, DrainInStep
<1>2. \E received \in BOOLEAN : Transmit(received)
  BY DEF SendRetry, SendFail
<1>3. server' = server \/ server' = server \cup {prepared}
  BY <1>1, <1>2 DEF Transmit
<1> QED BY <1>1, <1>3 DEF SendRetry, SendFail, Turn, Kept

(* Events are numbered as they are captured.                                *)
Numbered == \A i \in DOMAIN captured : captured[i].n = i

LEMMA NumberedStep ==
  ASSUME TypeOK, Numbered, [Next]_vars
  PROVE  Numbered'
<1>1. ASSUME NEW ids \in Inputs, Capture(ids) PROVE Numbered'
  <2> DEFINE new == NewEvents(ids)
  <2>1. /\ captured \in Seq(Event) /\ new \in Seq(Event) /\ Len(new) = Len(ids) /\ Len(ids) \in Nat
        /\ captured' = captured \o new
    BY <1>1, NewEventsType DEF Capture, TypeOK, EventTypeOK
  <2>2. \A i \in 1..Len(ids) : new[i].n = Len(captured) + i
    BY DEF NewEvents
  <2> HIDE DEF new
  <2>3. SUFFICES ASSUME NEW i \in 1..(Len(captured) + Len(ids))
                 PROVE  captured'[i].n = i
    BY <2>1 DEF Numbered
  <2>4. CASE i <= Len(captured)
    BY <2>1, <2>4 DEF Numbered
  <2>5. CASE i > Len(captured)
    <3>1. i - Len(captured) \in 1..Len(ids) /\ captured'[i] = new[i - Len(captured)]
      BY <2>1, <2>5
    <3>2. new[i - Len(captured)].n = Len(captured) + (i - Len(captured))
      BY <2>2, <3>1
    <3>3. Len(captured) + (i - Len(captured)) = i
      BY <2>1
    <3> QED BY <3>1, <3>2, <3>3
  <2> QED BY <2>1, <2>4, <2>5
<1>2. captured' = captured => Numbered'
  BY DEF Numbered
<1>3. CASE Prepare \/ SendOk \/ SendRetry \/ SendFail
  BY <1>2, <1>3 DEF Prepare, SendOk, SendRetry, SendFail, Turn
<1> QED BY <1>1, <1>2, <1>3, DeliverySteps DEF Aside

(* So the acknowledged events, and those of the batch in flight, have the   *)
(* numbers of their places.                                                 *)
LEMMA NumbersInPlace ==
  ASSUME TypeOK, Conservation, Numbered
  PROVE  \A i \in 1..Len(prepared.events) : prepared.events[i].n = Len(acked) + i
<1> DEFINE b == prepared.events
<1>1. /\ acked \in Seq(Event) /\ b \in Seq(Event) /\ queue \in Seq(Event)
      /\ captured = acked \o (b \o queue)
  BY UnackedParts DEF Unacked
<1> HIDE DEF b
<1>2. /\ b \o queue \in Seq(Event) /\ Len(b \o queue) = Len(b) + Len(queue)
      /\ \A i \in 1..Len(b) : (b \o queue)[i] = b[i]
  BY <1>1
<1>3. Len(acked) \in Nat /\ Len(b) \in Nat /\ Len(queue) \in Nat
  BY <1>1
<1>4. ASSUME NEW i \in 1..Len(b) PROVE b[i].n = Len(acked) + i
  <2>1. i \in 1..Len(b \o queue)
    BY <1>2, <1>3
  <2>2. Len(acked) + i \in DOMAIN captured /\ captured[Len(acked) + i] = (b \o queue)[i]
    BY <1>1, <1>2, <1>3, <2>1
  <2> QED BY <1>2, <2>2 DEF Numbered
<1> QED BY <1>4 DEF b

(* An idempotency key is used for one batch: the service has seen no later  *)
(* key than the last one generated.                                         *)
KeysFresh ==
  /\ prepared # NoBatch => prepared.key \in 1..nextKey
  /\ \A a \in server : a.key \in 1..nextKey

LEMMA KeysFreshStep ==
  ASSUME TypeOK, DrainInStep, BatchSized, Accounting, KeysFresh, [Next]_vars
  PROVE  KeysFresh'
<1> USE DEF KeysFresh
<1>0. nextKey \in Nat
  BY DEF TypeOK, EventTypeOK
<1>1. CASE Aside
  BY <1>1 DEF Aside
<1>2. ASSUME NEW ids \in Inputs, Capture(ids) PROVE KeysFresh'
  BY <1>2 DEF Capture, serviceVars
<1>3. CASE Prepare
  <2>1. nextKey' = nextKey + 1 /\ prepared'.key = nextKey + 1 /\ UNCHANGED server
    BY <1>3, PrepareStep
  <2> QED BY <1>0, <2>1
<1>4. CASE SendOk
  <2>1. /\ prepared # NoBatch /\ prepared' = NoBatch /\ nextKey' = nextKey
        /\ server' = server \cup {prepared}
    BY <1>4, SendOkStep
  <2> QED BY <2>1
<1>5. CASE SendRetry \/ SendFail
  BY <1>5, AttemptStep
<1> QED BY <1>1, <1>2, <1>3, <1>4, <1>5, DeliverySteps

(* A request the service has is the batch in flight, or one acknowledged    *)
(* before with another key.                                                 *)
SentBefore(a) == a.key # prepared.key /\ \A i \in DOMAIN a.events : a.events[i].n <= Len(acked)

SentOnce == \A a \in server : a = prepared \/ SentBefore(a)

LEMMA SentOnceStep ==
  ASSUME TypeOK, DrainInStep, BatchSized, Accounting, Conservation, Numbered,
         KeysFresh, SentOnce, [Next]_vars
  PROVE  SentOnce'
<1>0. NoBatch.key = 0
  BY DEF NoBatch
<1>1. CASE Aside
  BY <1>1 DEF Aside, SentOnce, SentBefore
<1>2. ASSUME NEW ids \in Inputs, Capture(ids) PROVE SentOnce'
  BY <1>2 DEF Capture, serviceVars, SentOnce, SentBefore
<1>3. CASE Prepare
  <2>1. /\ prepared = NoBatch /\ prepared'.key = nextKey + 1 /\ UNCHANGED <<server, acked>>
        /\ nextKey \in Nat
    BY <1>3, PrepareStep DEF TypeOK, EventTypeOK
  <2>2. ASSUME NEW a \in server PROVE a # NoBatch /\ a.key # prepared'.key
    BY <1>0, <2>1 DEF KeysFresh
  <2> QED BY <2>1, <2>2 DEF SentOnce, SentBefore
<1>4. CASE SendOk
  <2>1. /\ prepared # NoBatch /\ prepared' = NoBatch /\ server' = server \cup {prepared}
        /\ acked' = acked \o prepared.events
    BY <1>4, SendOkStep
  <2>2. acked \in Seq(Event) /\ prepared.events \in Seq(Event)
    BY UnackedParts
  <2>3. /\ Len(acked') = Len(acked) + Len(prepared.events)
        /\ Len(acked) \in Nat /\ Len(prepared.events) \in Nat
        /\ DOMAIN prepared.events = 1..Len(prepared.events)
    BY <2>1, <2>2
  <2>4. ASSUME NEW a \in server \cup {prepared} PROVE SentBefore(a)'
    <3>1. a.key # 0 /\ a.events \in Seq(Event)
      BY <2>1, <2>2 DEF KeysFresh, TypeOK, EventTypeOK, Batch
    <3>2. ASSUME a = prepared, NEW i \in DOMAIN a.events PROVE a.events[i].n <= Len(acked')
      <4>1. i \in 1..Len(prepared.events)
        BY <2>3, <3>2
      <4>2. a.events[i].n = Len(acked) + i
        BY <2>1, <3>2, <4>1, NumbersInPlace
      <4> QED BY <2>3, <4>1, <4>2
    <3>3. ASSUME SentBefore(a), NEW i \in DOMAIN a.events PROVE a.events[i].n <= Len(acked')
      <4>1. a.events[i] \in Event
        BY <3>1, <3>3
      <4>2. a.events[i].n \in Nat /\ a.events[i].n <= Len(acked)
        BY <3>3, <4>1 DEF SentBefore, Event
      <4> QED BY <2>3, <4>2
    <3> QED BY <1>0, <2>1, <3>1, <3>2, <3>3 DEF SentOnce, SentBefore
  <2> QED BY <2>1, <2>4 DEF SentOnce
<1>5. CASE SendRetry \/ SendFail
  BY <1>5, AttemptStep DEF SentOnce, SentBefore
<1> QED BY <1>1, <1>2, <1>3, <1>4, <1>5, DeliverySteps

(* Every acknowledged event is in a request of the service.                 *)
AckedSent == \A i \in DOMAIN acked : \E a \in server : acked[i] \in Range(a.events)

LEMMA AckedSentStep ==
  ASSUME TypeOK, DrainInStep, BatchSized, Accounting, AckedSent, [Next]_vars
  PROVE  AckedSent'
<1>1. CASE acked' = acked /\ server \subseteq server'
  BY <1>1 DEF AckedSent
<1>2. CASE SendOk
  <2> DEFINE b == prepared.events
  <2>1. acked' = acked \o b /\ server' = server \cup {prepared}
    BY <1>2, SendOkStep
  <2>2. acked \in Seq(Event) /\ b \in Seq(Event)
    BY UnackedParts
  <2> HIDE DEF b
  <2>3. SUFFICES ASSUME NEW i \in 1..(Len(acked) + Len(b))
                 PROVE  \E a \in server' : acked'[i] \in Range(a.events)
    BY <2>1, <2>2 DEF AckedSent
  <2>4. CASE i <= Len(acked)
    <3>1. i \in DOMAIN acked /\ acked'[i] = acked[i]
      BY <2>1, <2>2, <2>4
    <3> QED BY <2>1, <3>1 DEF AckedSent
  <2>5. CASE i > Len(acked)
    <3>1. i - Len(acked) \in DOMAIN b /\ acked'[i] = b[i - Len(acked)]
      BY <2>1, <2>2, <2>5
    <3>2. acked'[i] \in Range(prepared.events)
      BY <3>1 DEF Range, b
    <3> QED BY <2>1, <3>2
  <2> QED BY <2>2, <2>4, <2>5
<1>3. ASSUME NEW ids \in Inputs, Capture(ids) PROVE AckedSent'
  BY <1>1, <1>3 DEF Capture, serviceVars
<1>4. CASE Prepare
  BY <1>1, <1>4, PrepareStep
<1>5. CASE SendRetry \/ SendFail
  BY <1>1, <1>5, AttemptStep
<1>6. CASE Aside
  BY <1>1, <1>6 DEF Aside
<1> QED BY <1>2, <1>3, <1>4, <1>5, <1>6, DeliverySteps

LEMMA ExactlyOnceStep ==
  ASSUME TypeOK, DrainInStep, BatchSized, Accounting, Conservation, Numbered,
         KeysFresh, SentOnce, ExactlyOnce, [Next]_vars
  PROVE  ExactlyOnce'
<1> DEFINE Same(a, b) == a.key = b.key \/ Range(a.events) \cap Range(b.events) # {}
<1>0. AckedSent /\ \A a, b \in server : Same(a, b) => a = b
  BY DEF ExactlyOnce, AckedSent
<1>1. AckedSent'
  BY <1>0, AckedSentStep
<1>2. \A a, b \in server' : Same(a, b) => a = b
  <2>1. CASE server' = server
    BY <1>0, <2>1
  <2>2. ASSUME server' = server \cup {prepared}
        PROVE  \A a, b \in server' : Same(a, b) => a = b
    <3>1. ASSUME NEW a \in server, a # prepared PROVE a.key # prepared.key
      BY <3>1 DEF SentOnce, SentBefore
    <3>2. ASSUME NEW a \in server, a # prepared,
                 NEW i \in DOMAIN a.events, NEW j \in DOMAIN prepared.events
          PROVE  a.events[i] # prepared.events[j]
      <4>1. Len(acked) \in Nat /\ j \in 1..Len(prepared.events)
        <5>1. acked \in Seq(Event) /\ prepared.events \in Seq(Event)
          BY UnackedParts
        <5> QED BY <5>1
      <4>2. prepared.events[j].n = Len(acked) + j
        BY <2>2, <4>1, NumbersInPlace
      <4>3. a.events[i].n <= Len(acked)
        BY <3>2 DEF SentOnce, SentBefore
      <4> QED BY <4>1, <4>2, <4>3
    <3>3. ASSUME NEW a \in server, a # prepared PROVE ~Same(a, prepared) /\ ~Same(prepared, a)
      <4>1. Range(a.events) \cap Range(prepared.events) = {}
        BY <3>2, <3>3 DEF Range
      <4> QED BY <3>1, <3>3, <4>1
    <3> HIDE DEF Same
    <3> QED BY <1>0, <2>2, <3>3
  <2>3. CASE SendOk
    BY <2>2, <2>3, SendOkStep
  <2>4. CASE SendRetry \/ SendFail
    BY <2>1, <2>2, <2>4, AttemptStep
  <2>5. ASSUME NEW ids \in Inputs, Capture(ids) PROVE server' = server
    BY <2>5 DEF Capture, serviceVars
  <2>6. CASE Prepare \/ Aside
    BY <2>1, <2>6, PrepareStep DEF Aside
  <2> HIDE DEF Same
  <2> QED BY <2>1, <2>3, <2>4, <2>5, <2>6, DeliverySteps
<1> QED BY <1>1, <1>2 DEF ExactlyOnce, AckedSent

-------------------------------------------------------------------------------
(* What flush() and aclose() speak for                                      *)

(* The acknowledged events come before the unacknowledged ones.             *)
LEMMA AckedFirst ==
  \A a, u \in Seq(Event) :
    /\ Len(a) \in Nat /\ Len(a \o u) \in Nat /\ Len(a) <= Len(a \o u)
    /\ Len(u) = 0 => a \o u = a
<1> SUFFICES ASSUME NEW a \in Seq(Event), NEW u \in Seq(Event)
             PROVE  /\ Len(a) \in Nat /\ Len(a \o u) \in Nat /\ Len(a) <= Len(a \o u)
                    /\ Len(u) = 0 => a \o u = a
  OBVIOUS
<1>1. Len(a \o u) = Len(a) + Len(u) /\ Len(a) \in Nat /\ Len(u) \in Nat
  OBVIOUS
<1>2. Len(u) = 0 => u = <<>>
  OBVIOUS
<1> QED BY <1>1, <1>2, EventConcat

(* With nothing pending, everything captured is acknowledged.               *)
LEMMA AckedCaptured ==
  /\ TypeOK /\ Conservation /\ Accounting =>
       /\ Len(captured) \in Nat
       /\ pendingCount = 0 => acked = captured
  /\ TypeOK' /\ Conservation' /\ Accounting' =>
       /\ Len(captured') \in Nat
       /\ pendingCount' = 0 => acked' = captured'
BY UnackedParts, UnackedPartsNext, AckedFirst

(* A flush() speaks for events captured already.                            *)
MarkInPast == mark <= Len(captured)

LEMMA MarkInPastStep ==
  ASSUME TypeOK, TypeOK', DrainInStep, BatchSized, Accounting, MarkInPast, [Next]_vars
  PROVE  MarkInPast'
<1> USE DEF MarkInPast, pendingVars, drainVars
<1>0. /\ mark \in Nat /\ Len(captured) \in Nat /\ Len(captured') \in Nat
      /\ mark' \in Nat
  BY DEF TypeOK, EventTypeOK, ControlTypeOK
<1>1. CASE captured' = captured /\ mark' \in {mark, 0, Len(captured)}
  BY <1>0, <1>1
<1>2. ASSUME NEW ids \in Inputs, Capture(ids) PROVE MarkInPast'
  <2>1. /\ NewEvents(ids) \in Seq(Event) /\ captured' = captured \o NewEvents(ids)
        /\ captured \in Seq(Event) /\ mark' = mark
    BY <1>2, CaptureStep DEF Capture, TypeOK, EventTypeOK
  <2>2. Len(captured) <= Len(captured')
    BY <2>1
  <2> QED BY <1>0, <2>1, <2>2
<1>3. CASE Rejected \/ Flush \/ Close
  BY <1>1, <1>3 DEF Rejected, Flush, Close
<1>4. CASE DrainBegin
  BY <1>1, <1>4, DrainBeginStep
<1>5. CASE SendOk
  BY <1>1, <1>5, SendOkStep
<1>6. CASE TooLarge \/ SendFail
  BY <1>1, <1>6, FailStep
<1>7. CASE Prepare
  BY <1>1, <1>7, PrepareStep
<1>8. CASE SendRetry
  BY <1>1, <1>8 DEF SendRetry, Turn
<1>9. CASE WorkerStep \/ Tick
  BY <1>1, <1>9 DEF WorkerStep, WorkerStop, WorkerIdle, WorkerDrain, WorkerSleep, WorkerTimeout, Tick, WorkerUnchanged
<1>10. CASE CloseStep
  BY <1>1, <1>10 DEF CloseStep, CloseStart, CloseDrained, CloseLoop, CloseSeal, CloseClientFails,
                     CloseUndo, CloseEnd, CloseUnchanged
<1>11. CASE Terminated \/ UNCHANGED vars
  BY <1>1, <1>11 DEF Terminated, vars
<1> QED BY <1>2, <1>3, <1>4, <1>5, <1>6, <1>7, <1>8, <1>9, <1>10, <1>11 DEF Next, DrainStep

(* The close task is there exactly while the client is closing, and when it *)
(* closes the HTTP client nothing is pending any more.                      *)
CloseShape ==
  /\ closing <=> closeAt # "none"
  /\ ~(closing /\ closed)
  /\ closeAt = "client" => pendingCount = 0

LEMMA CloseShapeStep ==
  ASSUME TypeOK, TypeOK', DrainInStep, BatchSized, Accounting, CloseShape, [Next]_vars
  PROVE  CloseShape'
<1> USE DEF CloseShape, pendingVars, closeVars
<1>0. pendingCount \in Nat /\ pendingCount' \in Nat
  BY DEF TypeOK, EventTypeOK
<1>1. CASE UNCHANGED <<closeAt, closing, closed, pendingCount>>
  BY <1>1
(* The end of a drain is what a close() waits for.                          *)
<1>2. ASSUME UNCHANGED <<closing, closed, pendingCount>>,
             closeAt' = closeAt \/ (closeAt = "drain" /\ closeAt' = "drained")
      PROVE  CloseShape'
  BY <1>2
<1>3. ASSUME NEW result, NEW pending, NEW total, Finish(result, pending, total)
      PROVE  closeAt' = closeAt \/ (closeAt = "drain" /\ closeAt' = "drained")
  BY <1>3 DEF Finish
<1>4. ASSUME NEW pending, NEW kept, NEW total, DrainLoop(pending, kept, total)
      PROVE  closeAt' = closeAt \/ (closeAt = "drain" /\ closeAt' = "drained")
  BY <1>3, <1>4 DEF DrainLoop
<1>5. ASSUME NEW ids \in Inputs, Capture(ids) PROVE CloseShape'
  BY <1>5 DEF Capture, StillOpen, Open
<1>6. CASE Rejected \/ Flush
  BY <1>1, <1>6 DEF Rejected, Flush
<1>7. CASE Close
  BY <1>7 DEF Close, Open
<1>8. CASE DrainBegin \/ TooLarge \/ SendFail
  <2>1. UNCHANGED <<closing, closed, pendingCount>>
    BY <1>8 DEF DrainBegin, TooLarge, SendFail, Turn
  <2> QED BY <1>2, <1>3, <1>4, <1>8, <2>1 DEF DrainBegin, TooLarge, SendFail
<1>9. CASE Prepare
  <2>1. UNCHANGED <<closing, closed>> /\ UNCHANGED <<closeAt, pendingCount>>
    BY <1>9, PrepareStep DEF Prepare, Turn
  <2> QED BY <1>1, <2>1
<1>10. CASE SendOk
  <2>1. UNCHANGED <<closing, closed>>
    BY <1>10 DEF SendOk, Turn
  <2>2. closeAt' = closeAt \/ (closeAt = "drain" /\ closeAt' = "drained")
    BY <1>3, <1>4, <1>10 DEF SendOk
  <2>3. /\ pendingCount' = pendingCount - Len(prepared.events)
        /\ Len(prepared.events) \in 1..MaxBatch /\ MaxBatch \in Nat
    BY <1>10, SendOkStep, AsyncAssumption
  <2>4. pendingCount # 0
    BY <1>0, <2>3
  <2> QED BY <2>1, <2>2, <2>4
<1>11. CASE SendRetry
  BY <1>1, <1>11 DEF SendRetry, Turn
<1>12. CASE WorkerStep \/ Tick
  BY <1>1, <1>12 DEF WorkerStep, WorkerStop, WorkerIdle, WorkerDrain, WorkerSleep, WorkerTimeout, Tick, WorkerUnchanged
<1>13. CASE CloseStart \/ CloseDrained \/ CloseLoop \/ CloseClientFails
  BY <1>13 DEF CloseStart, CloseDrained, CloseLoop, CloseClientFails, CloseUnchanged
<1>14. CASE CloseSeal \/ CloseUndo
  BY <1>14 DEF CloseSeal, CloseUndo, CloseEnd, CloseUnchanged
<1>15. CASE Terminated \/ UNCHANGED vars
  BY <1>1, <1>15 DEF Terminated, vars
<1> QED BY <1>5, <1>6, <1>7, <1>8, <1>9, <1>10, <1>11, <1>12, <1>13, <1>14, <1>15
           DEF Next, DrainStep, CloseStep

-------------------------------------------------------------------------------
(* The second group of theorems                                             *)

(* The whole invariant: each part is inductive given the parts before it.   *)
SInv ==
  /\ IInv
  /\ Numbered /\ KeysFresh /\ SentOnce /\ ExactlyOnce
  /\ MarkInPast /\ CloseShape

LEMMA InitSInv == Init => SInv
<1> SUFFICES ASSUME Init PROVE SInv
  OBVIOUS
<1>1. IInv
  BY InitIInv
<1>2. /\ captured = <<>> /\ acked = <<>> /\ server = {} /\ prepared = NoBatch
      /\ mark = 0 /\ closeAt = "none" /\ ~closing
  BY DEF Init
<1>3. Numbered /\ ExactlyOnce
  BY <1>2 DEF Numbered, ExactlyOnce
<1>4. KeysFresh /\ SentOnce
  BY <1>2 DEF KeysFresh, SentOnce
<1>5. MarkInPast /\ CloseShape
  BY <1>2 DEF MarkInPast, CloseShape
<1> QED BY <1>1, <1>3, <1>4, <1>5 DEF SInv

LEMMA NextSInv == SInv /\ [Next]_vars => SInv'
<1> SUFFICES ASSUME SInv, [Next]_vars PROVE SInv'
  OBVIOUS
<1>1. IInv' /\ TypeOK'
  BY NextIInv DEF SInv, IInv
<1> USE DEF SInv, IInv
<1>2. Numbered' /\ KeysFresh'
  BY NumberedStep, KeysFreshStep
<1>3. SentOnce' /\ ExactlyOnce'
  BY SentOnceStep, ExactlyOnceStep
<1>4. MarkInPast' /\ CloseShape'
  BY <1>1, MarkInPastStep, CloseShapeStep
<1> QED BY <1>1, <1>2, <1>3, <1>4

LEMMA StrongInductive == Safety => []SInv
<1> QED BY InitSInv, NextSInv, PTL DEF Safety

(* At a service that drops repeated idempotency keys every event counts     *)
(* once, whatever is retried or fails, and no event is acknowledged that    *)
(* the service does not have (_send, _run_drain).                           *)
THEOREM ReceivedOnce == Safety => []ExactlyOnce
<1>1. SInv => ExactlyOnce BY DEF SInv
<1> QED BY <1>1, StrongInductive, PTL

(* When a drain task ends well, everything captured before the last flush() *)
(* that waits for it is acknowledged, also if that call came while it ran   *)
(* (flush, _run_drain).                                                     *)
THEOREM FlushSpeaksForItsEvents == Safety => FlushCovers
<1>1. SInv /\ SInv' /\ [Next]_vars
      => [drain # "none" /\ drain' = "none" /\ outcome' = "ok" => Len(acked') >= mark]_vars
  <2> SUFFICES ASSUME SInv, SInv', [Next]_vars, drain # "none", drain' = "none", outcome' = "ok"
               PROVE  Len(acked') >= mark
    OBVIOUS
  <2> USE DEF SInv, IInv, pendingVars, drainVars
  <2>1. ASSUME pendingCount' = 0, captured' = captured PROVE Len(acked') >= mark
    <3>1. acked' = captured' /\ Len(captured) \in Nat /\ mark <= Len(captured) /\ mark \in Nat
      BY <2>1, AckedCaptured DEF MarkInPast, TypeOK, ControlTypeOK
    <3> QED BY <2>1, <3>1
  <2>2. CASE DrainBegin
    BY <2>1, <2>2, DrainBeginStep
  <2>3. CASE SendOk
    BY <2>1, <2>3, SendOkStep
  <2>4. CASE TooLarge \/ SendFail
    BY <2>4, FailStep
  <2>5. CASE Prepare
    BY <2>5, PrepareStep
  <2>6. CASE SendRetry
    BY <2>6 DEF SendRetry
  <2>7. ASSUME NEW ids \in Inputs, Capture(ids) PROVE FALSE
    BY <2>7 DEF Capture
  <2>8. CASE Rejected \/ Flush \/ Close
    BY <2>8 DEF Rejected, Flush, Close, StartDrain
  <2>9. CASE WorkerStep \/ Tick
    BY <2>9 DEF WorkerStep, WorkerStop, WorkerIdle, WorkerDrain, WorkerSleep, WorkerTimeout, Tick,
                WorkerUnchanged, StartDrain
  <2>10. CASE CloseStep
    BY <2>10 DEF CloseStep, CloseStart, CloseDrained, CloseLoop, CloseSeal, CloseClientFails,
                 CloseUndo, CloseEnd, CloseUnchanged, StartDrain
  <2>11. CASE Terminated \/ UNCHANGED vars
    BY <2>11 DEF Terminated, vars
  <2> QED BY <2>2, <2>3, <2>4, <2>5, <2>6, <2>7, <2>8, <2>9, <2>10, <2>11 DEF Next, DrainStep
<1> QED BY <1>1, StrongInductive, PTL DEF Safety, FlushCovers

-------------------------------------------------------------------------------
(* The client implements DeliveryQueue                                      *)

(* A sequence is a prefix of what is appended to it.                        *)
LEMMA PrefixOfExtended ==
  \A s, r \in Seq(Event) :
    Queue!IsPrefix(s, s \o r) /\ Len(s \o r) = Len(s) + Len(r) /\ Len(s) \in Nat /\ Len(r) \in Nat
<1> SUFFICES ASSUME NEW s \in Seq(Event), NEW r \in Seq(Event)
             PROVE  /\ Queue!IsPrefix(s, s \o r)
                    /\ Len(s \o r) = Len(s) + Len(r) /\ Len(s) \in Nat /\ Len(r) \in Nat
  OBVIOUS
<1> DEFINE p == SubSeq(s \o r, 1, Len(s))
<1>1. s \o r \in Seq(Event) /\ Len(s \o r) = Len(s) + Len(r) /\ Len(s) \in Nat /\ Len(r) \in Nat
  OBVIOUS
<1>2. p \in Seq(Event) /\ Len(p) = Len(s)
  BY <1>1
<1>3. ASSUME NEW i \in 1..Len(s) PROVE p[i] = s[i]
  BY <1>1
<1>4. p = s
  BY <1>2, <1>3, SeqEqual
<1> QED BY <1>1, <1>4 DEF Queue!IsPrefix

LEMMA CaptureAccepts ==
  ASSUME SInv, SInv', NEW ids \in Inputs, Capture(ids)
  PROVE  Queue!Accept
<1> USE DEF SInv, IInv, TypeOK, EventTypeOK
<1>1. /\ captured \in Seq(Event) /\ NewEvents(ids) \in Seq(Event) /\ acked \in Seq(Event)
      /\ captured' = captured \o NewEvents(ids) /\ acked' = acked
  BY CaptureStep
<1>2. Len(NewEvents(ids)) \in Nat \ {0}
  BY NewEventsType
<1>3. Len(captured') > Len(captured) /\ Queue!IsPrefix(captured, captured')
  BY <1>1, <1>2, PrefixOfExtended
<1>4. Len(captured') - Len(acked) <= MaxQueue
  <2>1. Unacked' \in Seq(Event)
    BY UnackedPartsNext
  <2>2. captured' = acked \o Unacked' /\ Len(Unacked') <= MaxQueue
    BY <1>1, UnackedPartsNext
  <2>3. Len(captured') = Len(acked) + Len(Unacked') /\ Len(acked) \in Nat /\ Len(Unacked') \in Nat
    BY <1>1, <2>1, <2>2, PrefixOfExtended
  <2> QED BY <2>2, <2>3, AsyncAssumption
<1>5. ~closed /\ UNCHANGED closed
  BY DEF Capture, StillOpen, Open, closeVars
<1> QED BY <1>1, <1>3, <1>4, <1>5 DEF Queue!Accept

LEMMA SendOkDelivers ==
  ASSUME SInv, SendOk
  PROVE  Queue!Deliver
<1> USE DEF SInv, IInv
<1>1. /\ prepared.events \in Seq(Event) /\ queue \in Seq(Event) /\ acked \in Seq(Event)
      /\ acked' = acked \o prepared.events /\ UNCHANGED captured
      /\ Unacked = prepared.events \o queue /\ Len(prepared.events) \in 1..MaxBatch
  BY UnackedParts, SendOkStep
<1>2. acked' \in Seq(Event)
  BY <1>1, EventConcat
<1>3. captured = acked' \o queue
  BY <1>1 DEF Conservation
<1>4. Queue!IsPrefix(acked, acked') /\ Queue!IsPrefix(acked', captured)
  BY <1>1, <1>2, <1>3, PrefixOfExtended
<1>5. Len(acked') \in Len(acked) + 1 .. Len(acked) + MaxBatch
  <2>1. Len(acked') = Len(acked) + Len(prepared.events) /\ Len(acked) \in Nat
    BY <1>1, PrefixOfExtended
  <2> QED BY <1>1, <2>1, AsyncAssumption
<1>6. UNCHANGED closed
  BY DEF SendOk, Turn
<1> QED BY <1>1, <1>4, <1>5, <1>6 DEF Queue!Deliver

LEMMA SealSeals ==
  ASSUME SInv, CloseSeal
  PROVE  Queue!Seal
<1> USE DEF SInv, IInv
<1>1. ~closed /\ pendingCount = 0
  BY DEF CloseSeal, CloseShape
<1>2. acked = captured
  BY <1>1, AckedCaptured
<1> QED BY <1>1, <1>2 DEF CloseSeal, CloseEnd, CloseUnchanged, pendingVars, serviceVars, Queue!Seal

(* No other step changes what is accepted, delivered or sealed.             *)
LEMMA QueueStep ==
  ASSUME SInv, SInv', [Next]_vars
  PROVE  [Queue!Next]_(Queue!vars)
<1> USE DEF pendingVars, closeVars, serviceVars, Queue!vars
<1>1. CASE UNCHANGED <<captured, acked, closed>>
  BY <1>1
<1>2. ASSUME NEW ids \in Inputs, Capture(ids) PROVE Queue!Next
  BY <1>2, CaptureAccepts DEF Queue!Next
<1>3. CASE SendOk
  BY <1>3, SendOkDelivers DEF Queue!Next
<1>4. CASE CloseSeal
  BY <1>4, SealSeals DEF Queue!Next
<1>5. CASE Rejected \/ Flush \/ Close
  BY <1>1, <1>5 DEF Rejected, Flush, Close
<1>6. CASE DrainBegin \/ Prepare \/ TooLarge \/ SendRetry \/ SendFail
  BY <1>1, <1>6 DEF DrainBegin, Prepare, TooLarge, SendRetry, SendFail, Turn
<1>7. CASE WorkerStep \/ Tick
  BY <1>1, <1>7 DEF WorkerStep, WorkerStop, WorkerIdle, WorkerDrain, WorkerSleep, WorkerTimeout, Tick, WorkerUnchanged
<1>8. CASE CloseStart \/ CloseDrained \/ CloseLoop \/ CloseClientFails \/ CloseUndo
  BY <1>1, <1>8 DEF CloseStart, CloseDrained, CloseLoop, CloseClientFails, CloseUndo, CloseEnd, CloseUnchanged
<1>9. CASE Terminated \/ UNCHANGED vars
  BY <1>1, <1>9 DEF Terminated, vars
<1> QED
  BY <1>2, <1>3, <1>4, <1>5, <1>6, <1>7, <1>8, <1>9 DEF Next, DrainStep, CloseStep

(* Whatever the order of the tasks, threads, batches and retries, the       *)
(* client only ever does what the bounded FIFO queue of DeliveryQueue does: *)
(* events are accepted up to max_queue_size, delivered in order and at most *)
(* MAX_BATCH_EVENTS at once, and nothing is sealed before it is empty.      *)
THEOREM ClientIsAQueue == Safety => ImplementsQueue
<1>1. Init => Queue!Init
  BY DEF Init, Queue!Init
<1>2. SInv /\ SInv' /\ [Next]_vars => [Queue!Next]_(Queue!vars)
  BY QueueStep
<1> QED BY <1>1, <1>2, StrongInductive, PTL DEF Safety, ImplementsQueue, Queue!Spec

===============================================================================
