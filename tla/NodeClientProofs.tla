--------------------------- MODULE NodeClientProofs ---------------------------
(***************************************************************************)
(* Theorems about the Node client, for any events and any values of the     *)
(* limits.                                                                  *)
(***************************************************************************)
EXTENDS NodeClient, TLAPS, SequenceTheorems

-------------------------------------------------------------------------------
(* Sequences                                                                *)

(* A sequence is one of its prefixes followed by what the prefix leaves.    *)
LEMMA SplitAtPrefix ==
  ASSUME NEW S, NEW s \in Seq(S), NEW n \in 0..Len(s)
  PROVE  /\ Prefix(s, n) \in Seq(S) /\ Len(Prefix(s, n)) = n
         /\ SubSeq(s, n + 1, Len(s)) \in Seq(S)
         /\ s = Prefix(s, n) \o SubSeq(s, n + 1, Len(s))
<1> DEFINE p == Prefix(s, n)
           q == SubSeq(s, n + 1, Len(s))
<1>1. p \in Seq(S) /\ Len(p) = n /\ \A i \in 1..n : p[i] = s[i]
  BY DEF Prefix
<1>2. q \in Seq(S) /\ Len(q) = Len(s) - n /\ \A i \in 1..Len(s) - n : q[i] = s[n + i]
  OBVIOUS
<1>3. p \o q \in Seq(S) /\ Len(p \o q) = Len(s)
  BY <1>1, <1>2
<1>4. ASSUME NEW i \in 1..Len(s) PROVE (p \o q)[i] = s[i]
  <2>1. CASE i <= n BY <2>1, <1>1, <1>2
  <2>2. CASE i > n
    <3>1. i - n \in 1..Len(s) - n /\ n + (i - n) = i BY <2>2
    <3>2. (p \o q)[i] = q[i - n] BY <2>2, <1>1, <1>2
    <3> QED BY <3>1, <3>2, <1>2
  <2>3. i <= n \/ i > n OBVIOUS
  <2> QED BY <2>1, <2>2, <2>3
<1>5. s = p \o q
  BY <1>3, <1>4, SeqEqual
<1> QED BY <1>1, <1>2, <1>5

(* Joining lists of events is associative.                                  *)
LEMMA EventAssoc ==
  \A s, r, q \in Seq(Event) : (s \o r) \o q = s \o (r \o q)
<1> SUFFICES ASSUME NEW s \in Seq(Event), NEW r \in Seq(Event), NEW q \in Seq(Event)
             PROVE  (s \o r) \o q = s \o (r \o q)
  OBVIOUS
<1> QED BY ConcatAssociative

(* Joining lists of events.                                                 *)
LEMMA EventConcat ==
  \A s, r, q \in Seq(Event) :
    /\ s \o r \in Seq(Event) /\ Len(s \o r) = Len(s) + Len(r)
    /\ (s \o r) \o q = s \o (r \o q)
    /\ <<>> \o s = s /\ s \o <<>> = s
<1> SUFFICES ASSUME NEW s \in Seq(Event), NEW r \in Seq(Event), NEW q \in Seq(Event)
             PROVE  /\ s \o r \in Seq(Event) /\ Len(s \o r) = Len(s) + Len(r)
                    /\ (s \o r) \o q = s \o (r \o q)
                    /\ <<>> \o s = s /\ s \o <<>> = s
  OBVIOUS
<1>1. (s \o r) \o q = s \o (r \o q)
  BY ConcatAssociative
<1>2. <<>> \o s = s /\ s \o <<>> = s
  BY ConcatEmptySeq
<1> QED BY <1>1, <1>2

(* The ids of two lists of events.                                          *)
LEMMA IdsOfConcat ==
  ASSUME NEW s \in Seq(Event), NEW r \in Seq(Event)
  PROVE  EventIds(s \o r) = EventIds(s) \cup EventIds(r)
<1>1. DOMAIN s = 1..Len(s) /\ DOMAIN r = 1..Len(r) /\ DOMAIN (s \o r) = 1..(Len(s) + Len(r))
  OBVIOUS
<1>2. \A i \in 1..Len(s) : (s \o r)[i] = s[i]
  OBVIOUS
<1>3. \A i \in 1..Len(r) : (s \o r)[Len(s) + i] = r[i]
  OBVIOUS
<1>4. EventIds(s \o r) \subseteq EventIds(s) \cup EventIds(r)
  <2> SUFFICES ASSUME NEW i \in 1..(Len(s) + Len(r))
               PROVE  (s \o r)[i].id \in EventIds(s) \cup EventIds(r)
    BY <1>1 DEF EventIds
  <2>1. CASE i <= Len(s) BY <2>1, <1>1, <1>2 DEF EventIds
  <2>2. CASE i > Len(s)
    <3>1. i - Len(s) \in 1..Len(r) /\ (s \o r)[i] = r[i - Len(s)]
      BY <2>2
    <3> QED BY <3>1, <1>1 DEF EventIds
  <2> QED BY <2>1, <2>2
<1>5. EventIds(s) \subseteq EventIds(s \o r)
  BY <1>1, <1>2 DEF EventIds
<1>6. EventIds(r) \subseteq EventIds(s \o r)
  <2> SUFFICES ASSUME NEW i \in 1..Len(r) PROVE r[i].id \in EventIds(s \o r)
    BY <1>1 DEF EventIds
  <2>1. Len(s) + i \in DOMAIN (s \o r) BY <1>1
  <2> QED BY <2>1, <1>3 DEF EventIds
<1> QED BY <1>4, <1>5, <1>6

(* No two events of the list have the same id.                              *)
Distinct(s) == \A i, j \in DOMAIN s : s[i].id = s[j].id => i = j

(* Lists of events with no id in common can be joined.                      *)
LEMMA DistinctConcat ==
  ASSUME NEW s \in Seq(Event), NEW r \in Seq(Event)
  PROVE  Distinct(s \o r) <=> /\ Distinct(s) /\ Distinct(r)
                              /\ EventIds(s) \cap EventIds(r) = {}
<1>1. DOMAIN s = 1..Len(s) /\ DOMAIN r = 1..Len(r) /\ DOMAIN (s \o r) = 1..(Len(s) + Len(r))
  OBVIOUS
<1>2. \A i \in 1..Len(s) : i \in DOMAIN (s \o r) /\ (s \o r)[i] = s[i]
  OBVIOUS
<1>3. \A i \in 1..Len(r) : Len(s) + i \in DOMAIN (s \o r) /\ (s \o r)[Len(s) + i] = r[i]
  OBVIOUS
<1>4. Len(s) \in Nat /\ Len(r) \in Nat
  OBVIOUS
<1>5. ASSUME NEW i \in DOMAIN (s \o r)
      PROVE  i \in DOMAIN s \/ \E k \in DOMAIN r : i = Len(s) + k
  <2>1. CASE i <= Len(s) BY <2>1, <1>1
  <2>2. CASE i > Len(s)
    <3>1. i - Len(s) \in 1..Len(r) /\ i = Len(s) + (i - Len(s)) BY <2>2, <1>1, <1>4
    <3> QED BY <3>1, <1>1
  <2>3. i <= Len(s) \/ i > Len(s) BY <1>1, <1>4
  <2> QED BY <2>1, <2>2, <2>3
<1>6. ASSUME Distinct(s \o r)
      PROVE  Distinct(s) /\ Distinct(r) /\ EventIds(s) \cap EventIds(r) = {}
  <2>1. Distinct(s)
    BY <1>1, <1>2, <1>6 DEF Distinct
  <2>2. Distinct(r)
    <3>1. SUFFICES ASSUME NEW i \in 1..Len(r), NEW j \in 1..Len(r), r[i].id = r[j].id
                   PROVE  i = j
      BY <1>1 DEF Distinct
    <3>2. Len(s) + i = Len(s) + j
      BY <1>3, <1>6, <3>1 DEF Distinct
    <3> QED BY <1>4, <3>2
  <2>3. ASSUME NEW i \in 1..Len(s), NEW j \in 1..Len(r), s[i].id = r[j].id PROVE FALSE
    <3>1. i = Len(s) + j
      BY <1>2, <1>3, <1>6, <2>3 DEF Distinct
    <3> QED BY <1>4, <3>1
  <2> QED BY <1>1, <2>1, <2>2, <2>3 DEF EventIds
<1>7. ASSUME Distinct(s), Distinct(r), EventIds(s) \cap EventIds(r) = {}
      PROVE  Distinct(s \o r)
  <2>1. SUFFICES ASSUME NEW i \in DOMAIN (s \o r), NEW j \in DOMAIN (s \o r),
                        (s \o r)[i].id = (s \o r)[j].id
                 PROVE  i = j
    BY DEF Distinct
  <2>2. \A k \in DOMAIN s, l \in DOMAIN r : s[k].id # r[l].id
    BY <1>7 DEF EventIds
  <2>3. CASE i \in DOMAIN s /\ j \in DOMAIN s
    BY <1>1, <1>2, <1>7, <2>1, <2>3 DEF Distinct
  <2>4. CASE i \in DOMAIN s /\ \E l \in DOMAIN r : j = Len(s) + l
    BY <1>1, <1>2, <1>3, <2>1, <2>2, <2>4
  <2>5. CASE j \in DOMAIN s /\ \E l \in DOMAIN r : i = Len(s) + l
    BY <1>1, <1>2, <1>3, <2>1, <2>2, <2>5
  <2>6. ASSUME NEW k \in DOMAIN r, NEW l \in DOMAIN r, i = Len(s) + k, j = Len(s) + l
        PROVE  i = j
    BY <1>1, <1>3, <1>7, <2>1, <2>6 DEF Distinct
  <2> QED BY <1>5, <2>3, <2>4, <2>5, <2>6
<1> QED BY <1>6, <1>7

(* What capture() appends.                                                  *)
LEMMA NewEventsType ==
  ASSUME NEW ids \in Inputs, captured \in Seq(Event)
  PROVE  /\ ids \in Seq(Ids) /\ Len(ids) \in Nat \ {0} /\ DOMAIN ids = 1..Len(ids)
         /\ NewEvents(ids) \in Seq(Event) /\ Len(NewEvents(ids)) = Len(ids)
         /\ \A i \in 1..Len(ids) : NewEvents(ids)[i].id = ids[i]
         /\ EventIds(NewEvents(ids)) = {ids[i] : i \in DOMAIN ids}
<1>1. PICK k \in 1..MaxCapture : ids \in [1..k -> Ids]
  BY DEF Inputs
<1>2. k \in Nat \ {0} BY NodeSizeAssumption
<1>3. ids \in Seq(Ids) /\ Len(ids) = k /\ DOMAIN ids = 1..k
  BY <1>1, <1>2
<1>4. NewEvents(ids) \in [1..k -> Event]
  BY <1>1, <1>2, <1>3 DEF NewEvents, Event
<1>5. NewEvents(ids) \in Seq(Event) /\ Len(NewEvents(ids)) = k
  BY <1>2, <1>4
<1>6. \A i \in 1..k : NewEvents(ids)[i].id = ids[i]
  BY <1>3 DEF NewEvents
<1>7. EventIds(NewEvents(ids)) = {ids[i] : i \in DOMAIN ids}
  BY <1>3, <1>4, <1>6 DEF EventIds
<1> QED BY <1>2, <1>3, <1>5, <1>6, <1>7

-------------------------------------------------------------------------------
(* The microtasks                                                           *)

(* A task is queued once, and one before another.                           *)
Unique(s) == \A i, j \in DOMAIN s : s[i] = s[j] => i = j
Ahead(s, a, b) == \E i, j \in DOMAIN s : i < j /\ s[i] = a /\ s[j] = b

(* Queueing a task.                                                         *)
LEMMA AppendTask ==
  ASSUME NEW s \in Seq(Tasks), NEW x \in Tasks
  PROVE  /\ Append(s, x) \in Seq(Tasks) /\ s \o <<x>> = Append(s, x)
         /\ Range(Append(s, x)) = Range(s) \cup {x}
         /\ Unique(s) /\ x \notin Range(s) => Unique(Append(s, x))
         /\ \A a, b : Ahead(Append(s, x), a, b) <=> Ahead(s, a, b) \/ (a \in Range(s) /\ b = x)
<1> DEFINE r == Append(s, x)
<1>1. /\ r \in Seq(Tasks) /\ s \o <<x>> = r /\ Len(s) \in Nat
      /\ DOMAIN r = 1..(Len(s) + 1) /\ DOMAIN s = 1..Len(s)
      /\ \A i \in 1..Len(s) : r[i] = s[i]
      /\ r[Len(s) + 1] = x
  OBVIOUS
<1> HIDE DEF r
<1>2. Range(r) = Range(s) \cup {x}
  BY <1>1 DEF Range
<1>3. Unique(s) /\ x \notin Range(s) => Unique(r)
  BY <1>1 DEF Range, Unique
<1>4. ASSUME NEW a, NEW b PROVE Ahead(r, a, b) <=> Ahead(s, a, b) \/ (a \in Range(s) /\ b = x)
  BY <1>1 DEF Range, Ahead
<1> QED BY <1>1, <1>2, <1>3, <1>4 DEF r

(* Running the first one.                                                   *)
LEMMA TakeTask ==
  ASSUME NEW s \in Seq(Tasks), s # <<>>, Unique(s)
  PROVE  /\ Tail(s) \in Seq(Tasks) /\ Unique(Tail(s))
         /\ Head(s) \in Range(s) /\ Range(Tail(s)) = Range(s) \ {Head(s)}
         /\ \A a, b : Ahead(Tail(s), a, b) <=> Ahead(s, a, b) /\ a # Head(s)
         /\ \A a : ~Ahead(s, a, Head(s))
         /\ \A b \in Range(s) \ {Head(s)} : Ahead(s, Head(s), b)
<1> DEFINE r == Tail(s)
           h == Head(s)
<1>1. /\ r \in Seq(Tasks) /\ Len(s) \in Nat \ {0} /\ Len(r) = Len(s) - 1
      /\ DOMAIN r = 1..(Len(s) - 1) /\ DOMAIN s = 1..Len(s)
      /\ \A i \in 1..(Len(s) - 1) : r[i] = s[i + 1]
      /\ h = s[1]
  OBVIOUS
<1> HIDE DEF r, h
<1>2. \A i \in DOMAIN s : i = 1 \/ (i - 1 \in DOMAIN r /\ r[i - 1] = s[i])
  <2> TAKE i \in DOMAIN s
  <2>1. CASE i # 1
    <3>1. i - 1 \in 1..(Len(s) - 1) /\ (i - 1) + 1 = i
      BY <1>1, <2>1
    <3> QED BY <1>1, <3>1
  <2> QED BY <2>1
<1>3. \A i \in DOMAIN r : i + 1 \in DOMAIN s /\ s[i + 1] = r[i] /\ i + 1 # 1
  BY <1>1
<1>4. 1 \in DOMAIN s /\ h \in Range(s)
  BY <1>1 DEF Range
<1>5. Unique(r)
  <2>1. SUFFICES ASSUME NEW i \in DOMAIN r, NEW j \in DOMAIN r, r[i] = r[j] PROVE i = j
    BY DEF Unique
  <2>2. i + 1 = j + 1
    BY <1>3, <2>1 DEF Unique
  <2> QED BY <1>1, <2>2
<1>6. \A i \in DOMAIN r : r[i] # h
  BY <1>1, <1>3, <1>4 DEF Unique
<1>7. Range(r) = Range(s) \ {h}
  <2>1. \A i \in DOMAIN s : s[i] # h => s[i] \in Range(r)
    BY <1>1, <1>2 DEF Range
  <2>2. \A i \in DOMAIN r : r[i] \in Range(s)
    BY <1>3 DEF Range
  <2> QED BY <1>6, <2>1, <2>2 DEF Range
<1>8. ASSUME NEW a, NEW b PROVE Ahead(r, a, b) <=> Ahead(s, a, b) /\ a # h
  <2>1. ASSUME NEW i \in DOMAIN r, NEW j \in DOMAIN r, i < j, r[i] = a, r[j] = b
        PROVE  Ahead(s, a, b) /\ a # h
    <3>1. i + 1 < j + 1
      BY <1>1, <2>1
    <3> QED BY <1>3, <1>6, <2>1, <3>1 DEF Ahead
  <2>2. ASSUME NEW i \in DOMAIN s, NEW j \in DOMAIN s, i < j, s[i] = a, s[j] = b, a # h
        PROVE  Ahead(r, a, b)
    <3>1. i # 1 /\ j # 1 /\ i - 1 < j - 1
      BY <1>1, <2>2
    <3> QED BY <1>2, <2>2, <3>1 DEF Ahead
  <2> QED BY <2>1, <2>2 DEF Ahead
<1>9. ASSUME NEW a PROVE ~Ahead(s, a, h)
  <2>1. \A j \in DOMAIN s : s[j] = h => j = 1
    BY <1>1, <1>4 DEF Unique
  <2> QED BY <1>1, <2>1 DEF Ahead
<1>10. ASSUME NEW b \in Range(s) \ {h} PROVE Ahead(s, h, b)
  <2>1. PICK j \in DOMAIN s : s[j] = b
    BY <1>10 DEF Range
  <2>2. 1 < j
    BY <1>1, <1>10, <2>1
  <2> QED BY <1>1, <1>4, <2>1, <2>2 DEF Ahead
<1> QED BY <1>1, <1>4, <1>5, <1>7, <1>8, <1>9, <1>10 DEF r, h

-------------------------------------------------------------------------------
(* The inductive invariant                                                  *)

(* Each function that waits for its microtask has exactly one in the queue. *)
MicroInStep ==
  /\ Unique(micro)
  /\ "keep" \in Range(micro) <=> drain = "built"
  /\ "settle" \in Range(micro) <=> drain = "settle"
  /\ "close" \in Range(micro) <=> closeAt = "start"
  /\ "loop" \in Range(micro) <=> closeAt = "drained"

(* A batch has at least one event and at most MaxBatch.                     *)
BatchSized ==
  /\ drain = "prepare" => count <= MaxBatch
  /\ built # NoBatch => Len(built.events) \in 1..MaxBatch
  /\ prepared # NoBatch => Len(prepared.events) \in 1..MaxBatch

IInv == TypeOK /\ MicroInStep /\ DrainInStep /\ BatchSized /\ Conservation /\ Accounting

(* Four actions touch the events: the others leave every variable that      *)
(* describes them alone.                                                    *)
LEMMA EventSteps ==
  ASSUME [Next]_vars
  PROVE  \/ \E ids \in Inputs : Capture(ids)
         \/ Prepare \/ KeepBatch \/ SendOk
         \/ UNCHANGED <<pendingVars, prepared, built, acked>>
<1> USE DEF pendingVars
<1>1. CASE UNCHANGED vars
  BY <1>1 DEF vars
<1>2. CASE Fire \/ Background \/ Flush \/ FlushReturn \/ Close
  BY <1>2 DEF Fire, Background, StartDrain, Flush, FlushReturn, Close, CloseUnchanged
<1>3. CASE TooLarge \/ SendRetry \/ SendFail \/ Settle
  BY <1>3 DEF TooLarge, SendRetry, SendFail, Settle, DrainUnchanged
<1>4. CASE CloseStep
  BY <1>4 DEF CloseStep, CloseStart, CloseLoop, CloseSeal, CloseUndo, CloseEnd, StartDrain, CloseUnchanged
<1> QED BY <1>1, <1>2, <1>3, <1>4 DEF Next, DrainStep

-------------------------------------------------------------------------------
(* Type correctness                                                         *)

LEMMA InitTypeOK == Init => TypeOK
<1> SUFFICES ASSUME Init PROVE TypeOK
  OBVIOUS
<1>1. EventTypeOK
  BY DEF Init, EventTypeOK, NoBatch, Batch
<1>2. micro \in Seq(Tasks)
  BY DEF Init
<1>3. ControlTypeOK
  BY <1>2 DEF Init, ControlTypeOK
<1> QED BY <1>1, <1>3 DEF TypeOK

(* A drain that begins or goes on.                                          *)
LEMMA DrainLoopType ==
  ASSUME NEW pending \in Nat, NEW n \in Nat, DrainLoop(pending, n)
  PROVE  /\ drain' \in {"settle", "prepare", "send"} /\ count' \in Nat
         /\ drain' = "settle" <=> pending = 0
         /\ drain' = "send" => prepared' # NoBatch
         /\ drain' = "prepare" => prepared' = NoBatch /\ pending # 0
         /\ drain' = "prepare" /\ n # 0 => count' \in 1..n /\ count' <= MaxBatch
<1> QED BY NodeSizeAssumption DEF DrainLoop, BatchLimit

LEMMA MicroType ==
  ASSUME TypeOK, [Next]_vars
  PROVE  micro' \in Seq(Tasks)
<1>1. micro \in Seq(Tasks) /\ (micro # <<>> => Tail(micro) \in Seq(Tasks))
  BY DEF TypeOK, ControlTypeOK
<1>2. \A s \in Seq(Tasks), t \in Tasks : /\ Append(s, t) \in Seq(Tasks) /\ s \o <<t>> \in Seq(Tasks)
                                        /\ s \o <<>> \in Seq(Tasks)
  OBVIOUS
<1>3. /\ WithBackground \in Seq(Tasks)
      /\ \A s \in Seq(Tasks) : s \o StartTask \in Seq(Tasks)
  BY <1>1, <1>2 DEF WithBackground, StartTask, Tasks
<1>4. CASE UNCHANGED micro
  BY <1>1, <1>4
<1>5. ASSUME NEW ids \in Inputs, Capture(ids) PROVE micro' \in Seq(Tasks)
  BY <1>1, <1>3, <1>5 DEF Capture
<1>6. CASE Fire \/ Background \/ Flush \/ FlushReturn \/ Close
  BY <1>1, <1>2, <1>3, <1>6 DEF Fire, Background, Flush, FlushReturn, Close, Ready, Tasks
<1>7. CASE DrainStep
  BY <1>1, <1>2, <1>7 DEF DrainStep, Prepare, TooLarge, KeepBatch, SendOk, SendRetry, SendFail, Settle, Throw,
                          Ready, Tasks
<1>8. CASE CloseStep
  BY <1>1, <1>3, <1>8 DEF CloseStep, CloseStart, CloseLoop, CloseSeal, CloseUndo, CloseEnd, Ready
<1> QED BY <1>4, <1>5, <1>6, <1>7, <1>8 DEF Next, vars

LEMMA ControlTypeStep ==
  ASSUME TypeOK, [Next]_vars
  PROVE  ControlTypeOK'
<1> USE DEF TypeOK, EventTypeOK, ControlTypeOK, drainVars, flushVars, closeVars
<1>0. /\ micro' \in Seq(Tasks)
      /\ Len(queue) \in Nat /\ Len(captured) \in Nat /\ Len(prepared.events) \in Nat
  BY MicroType DEF Batch
<1>01. StartDrain => /\ drain' \in {"none", "prepare", "built", "send", "settle"}
                     /\ count' \in Nat /\ accepted' \in Nat
  BY <1>0, DrainLoopType DEF StartDrain
<1>1. CASE UNCHANGED vars
  BY <1>0, <1>1 DEF vars
<1>2. ASSUME NEW ids \in Inputs, Capture(ids) PROVE ControlTypeOK'
  BY <1>0, <1>2 DEF Capture, TimerAfter
<1>3. CASE Fire
  BY <1>0, <1>3 DEF Fire
<1>4. CASE FlushReturn
  BY <1>0, <1>4 DEF FlushReturn
<1>5. CASE Close
  BY <1>0, <1>5 DEF Close, CloseUnchanged
<1>6. CASE Background
  <2>1. watched' \in BOOLEAN
    BY <1>6 DEF Background, Observed
  <2>2. /\ drain' \in {"none", "prepare", "built", "send", "settle"}
        /\ count' \in Nat /\ accepted' \in Nat
    BY <1>01, <1>6 DEF Background
  <2> QED BY <1>0, <1>6, <2>1, <2>2 DEF Background
<1>7. CASE Flush
  BY <1>0, <1>01, <1>7 DEF Flush
<1>8. CASE Prepare
  BY <1>0, <1>8 DEF Prepare, DrainUnchanged
<1>9. CASE TooLarge
  BY <1>0, <1>9 DEF TooLarge, Throw, DrainUnchanged
<1>10. CASE KeepBatch
  BY <1>0, <1>10 DEF KeepBatch, DrainUnchanged
<1>11. CASE SendOk
  <2>1. drain' \in {"settle", "prepare", "send"} /\ count' \in Nat
    BY <1>0, <1>11, NodeSizeAssumption DEF SendOk, DrainLoop, BatchLimit
  <2> QED BY <1>0, <1>11, <2>1 DEF SendOk
<1>12. CASE SendRetry
  BY <1>0, <1>12 DEF SendRetry, DrainUnchanged
<1>13. CASE SendFail
  BY <1>0, <1>13 DEF SendFail, Throw, DrainUnchanged
<1>14. CASE Settle
  <2>1. timer' \in BOOLEAN
    BY <1>14 DEF Settle, TimerAfter
  <2>2. /\ flushing' \in {"none", "drain", "catalog"}
        /\ closeAt' \in {"none", "start", "drain", "drained", "catalog", "undo"}
        /\ tally' \in Nat
    BY <1>14 DEF Settle, Tallied
  <2>3. flushed' \in BOOLEAN
    BY <1>14 DEF Settle
  <2>4. drained' \in BOOLEAN
    BY <1>14 DEF Settle
  <2> QED BY <1>0, <1>14, <2>1, <2>2, <2>3, <2>4 DEF Settle
<1>15. CASE CloseStart
  BY <1>0, <1>01, <1>15 DEF CloseStart, CloseUnchanged
<1>16. CASE CloseLoop
  BY <1>0, <1>01, <1>16 DEF CloseLoop, CloseUnchanged
<1>17. CASE CloseSeal
  BY <1>0, <1>17 DEF CloseSeal, CloseEnd, CloseUnchanged
<1>18. CASE CloseUndo
  <2>1. timer' \in BOOLEAN
    BY <1>18 DEF CloseUndo, TimerAfterUndo, TimerAfter
  <2> QED BY <1>0, <1>18, <2>1 DEF CloseUndo, CloseEnd, CloseUnchanged
<1> QED
  BY <1>1, <1>2, <1>3, <1>4, <1>5, <1>6, <1>7, <1>8, <1>9, <1>10, <1>11, <1>12, <1>13, <1>14, <1>15,
     <1>16, <1>17, <1>18 DEF Next, DrainStep, CloseStep

(* The batch that #prepareNextBatch has built in this step.                 *)
LEMMA PrepareStep ==
  ASSUME TypeOK, DrainInStep, BatchSized, Prepare
  PROVE  /\ built' \in Batch /\ built'.key = nextKey + 1 /\ nextKey' = nextKey + 1
         /\ Len(built'.events) \in 1..MaxBatch
         /\ queue' \in Seq(Event) /\ queue = built'.events \o queue'
         /\ built = NoBatch /\ prepared = NoBatch /\ drain' = "built"
         /\ UNCHANGED <<prepared, acked, server, pendingIds, pendingCount, captured>>
<1> USE DEF TypeOK, EventTypeOK
<1>1. PICK k \in BatchSizes : built' = [key |-> nextKey + 1, events |-> Prefix(queue, k)]
                              /\ queue' = Spliced(k)
  BY DEF Prepare
<1>2. drain = "prepare" /\ prepared = NoBatch /\ built = NoBatch /\ count \in 1..Len(queue)
      /\ count <= MaxBatch
  BY DEF Prepare, DrainInStep, BatchSized
<1>3. k \in 1..count
  BY DEF BatchSizes, Halvings
<1>4. k \in 1..MaxBatch /\ k \in 0..Len(queue) /\ queue \in Seq(Event)
  BY <1>2, <1>3, NodeSizeAssumption
<1>5. /\ Prefix(queue, k) \in Seq(Event) /\ Len(Prefix(queue, k)) = k
      /\ Spliced(k) \in Seq(Event) /\ queue = Prefix(queue, k) \o Spliced(k)
  BY <1>4, SplitAtPrefix DEF Spliced
<1>6. built'.key = nextKey + 1 /\ built'.events = Prefix(queue, k) /\ built' \in Batch
  BY <1>1, <1>5 DEF Batch
<1> QED BY <1>1, <1>2, <1>4, <1>5, <1>6 DEF Prepare, DrainUnchanged

LEMMA EventTypeStep ==
  ASSUME TypeOK, MicroInStep, DrainInStep, BatchSized, Accounting, [Next]_vars
  PROVE  EventTypeOK'
<1> USE DEF TypeOK, EventTypeOK
<1>0. NoBatch \in Batch /\ prepared.events \in Seq(Event) /\ built.events \in Seq(Event)
  BY DEF NoBatch, Batch
<1>1. CASE UNCHANGED vars
  BY <1>1 DEF vars, pendingVars, serviceVars
<1>2. ASSUME NEW ids \in Inputs, Capture(ids) PROVE EventTypeOK'
  <2>1. /\ queue \o NewEvents(ids) \in Seq(Event) /\ captured \o NewEvents(ids) \in Seq(Event)
        /\ pendingIds \cup {ids[i] : i \in DOMAIN ids} \subseteq Ids
        /\ pendingCount + Len(ids) \in Nat
    BY NewEventsType
  <2> QED BY <1>2, <2>1 DEF Capture, serviceVars
<1>3. CASE Prepare
  BY <1>3, PrepareStep
<1>4. CASE SendOk
  <2>1. Remaining \in Nat
    <3>1. drain = "send" /\ built = NoBatch
      BY <1>4 DEF SendOk, DrainInStep
    <3>2. built.events = <<>>
      BY <3>1 DEF NoBatch
    <3>3. pendingCount = Len(prepared.events) + Len(queue)
      BY <1>0, <3>2, EventConcat DEF Accounting, Unacked
    <3> QED BY <1>0, <3>3 DEF Remaining
  <2>2. acked \o prepared.events \in Seq(Event)
    BY <1>0
  <2> QED BY <1>0, <1>4, <2>1, <2>2 DEF SendOk, Released, Transmit
<1>5. CASE SendRetry \/ SendFail
  <2>1. \E received \in BOOLEAN : Transmit(received)
    BY <1>5 DEF SendRetry, SendFail
  <2>2. server' \subseteq Batch
    BY <2>1 DEF Transmit
  <2> QED BY <1>5, <2>2 DEF SendRetry, SendFail, DrainUnchanged
<1>6. CASE KeepBatch
  BY <1>0, <1>6 DEF KeepBatch, serviceVars, DrainUnchanged
<1>7. CASE TooLarge \/ Settle
  BY <1>7 DEF TooLarge, Settle, serviceVars, DrainUnchanged, pendingVars
<1>8. CASE Fire \/ Background \/ Flush \/ FlushReturn \/ Close
  BY <1>8 DEF Fire, Background, StartDrain, Flush, FlushReturn, Close, CloseUnchanged, pendingVars, serviceVars
<1>9. CASE CloseStep
  BY <1>9 DEF CloseStep, CloseStart, CloseLoop, CloseSeal, CloseUndo, CloseEnd, StartDrain, CloseUnchanged,
              pendingVars, serviceVars
<1> QED BY <1>1, <1>2, <1>3, <1>4, <1>5, <1>6, <1>7, <1>8, <1>9 DEF Next, DrainStep

-------------------------------------------------------------------------------
(* The microtasks and the drain                                             *)

LEMMA MicroInStepStep ==
  ASSUME TypeOK, MicroInStep, [Next]_vars
  PROVE  MicroInStep'
<1> DEFINE W == Range(micro)
<1>0. /\ micro \in Seq(Tasks) /\ Unique(micro)
      /\ "keep" \in W <=> drain = "built"
      /\ "settle" \in W <=> drain = "settle"
      /\ "close" \in W <=> closeAt = "start"
      /\ "loop" \in W <=> closeAt = "drained"
  BY DEF TypeOK, ControlTypeOK, MicroInStep
<1>01. \A t : Ready(t) => /\ Head(micro) = t /\ t \in W
                          /\ Tail(micro) \in Seq(Tasks) /\ Unique(Tail(micro))
                          /\ Range(Tail(micro)) = W \ {t}
  BY <1>0, TakeTask DEF Ready
<1>02. /\ \A s \in Seq(Tasks), x \in Tasks :
            /\ s \o <<x>> = Append(s, x) /\ s \o <<>> = s
            /\ Range(Append(s, x)) = Range(s) \cup {x}
            /\ Unique(s) /\ x \notin Range(s) => Unique(Append(s, x))
       /\ {"settle", "keep", "background", "close", "loop"} = Tasks
  BY AppendTask DEF Tasks
<1> HIDE DEF W
<1>1. CASE UNCHANGED <<micro, drain, closeAt>>
  BY <1>1 DEF MicroInStep
<1>03. Range(micro) = W
  BY DEF W
(* A background drain is scheduled.                                         *)
<1>2. ASSUME micro' = WithBackground, UNCHANGED <<drain, closeAt>> PROVE MicroInStep'
  <2>1. Unique(micro') /\ Range(micro') = W \cup {"background"}
    BY <1>0, <1>02, <1>03, <1>2 DEF WithBackground
  <2> QED BY <1>0, <1>2, <2>1 DEF MicroInStep
(* A drain may begin, and be over at once.                                  *)
<1>3. ASSUME StartDrain, NEW s \in Seq(Tasks), Unique(s), Range(s) \subseteq W,
             "settle" \in Range(s) <=> drain = "settle",
             micro' = s \o StartTask
      PROVE  /\ Unique(micro')
             /\ "settle" \in Range(micro') <=> drain' = "settle"
             /\ \A t \in {"keep", "background", "close", "loop"} :
                  t \in Range(micro') <=> t \in Range(s)
             /\ drain' = "built" <=> drain = "built"
  <2>1. CASE drain = "none" /\ drain' = "settle"
    <3>1. micro' = Append(s, "settle")
      BY <1>02, <1>3, <2>1 DEF StartTask
    <3> QED BY <1>02, <1>3, <2>1, <3>1
  <2>2. CASE ~(drain = "none" /\ drain' = "settle")
    <3>1. micro' = s
      BY <1>02, <1>3, <2>2 DEF StartTask
    <3>2. drain' = drain \/ (drain = "none" /\ drain' \in {"prepare", "send"})
      BY <1>3, <2>2 DEF StartDrain, DrainLoop, drainVars
    <3> QED BY <1>3, <3>1, <3>2
  <2> QED BY <2>1, <2>2
<1>4. ASSUME NEW ids \in Inputs, Capture(ids) PROVE MicroInStep'
  <2>1. UNCHANGED <<drain, closeAt>> /\ (micro' = WithBackground \/ micro' = micro)
    BY <1>4 DEF Capture, drainVars, closeVars
  <2> QED BY <1>1, <1>2, <2>1
<1>5. CASE Fire
  BY <1>2, <1>5 DEF Fire, drainVars, closeVars
<1>6. CASE Background
  <2>1. UNCHANGED closeAt /\ Ready("background") /\ micro' = Tail(micro) \o StartTask
    BY <1>6 DEF Background, closeVars
  <2>2. CASE StartDrain
    BY <1>0, <1>01, <1>3, <2>1, <2>2 DEF MicroInStep
  <2>3. CASE ~StartDrain
    <3>1. drain' = drain
      BY <1>6, <2>3 DEF Background, drainVars
    <3>2. micro' = Tail(micro)
      BY <1>01, <1>02, <2>1, <3>1 DEF StartTask
    <3> QED BY <1>0, <1>01, <2>1, <3>1, <3>2 DEF MicroInStep
  <2> QED BY <2>2, <2>3
<1>7. CASE Flush
  <2>1. UNCHANGED closeAt /\ StartDrain /\ micro' = micro \o StartTask
    BY <1>7 DEF Flush, closeVars
  <2> QED BY <1>0, <1>03, <1>3, <2>1 DEF MicroInStep
<1>8. CASE FlushReturn \/ SendRetry
  BY <1>1, <1>8 DEF FlushReturn, SendRetry, drainVars, closeVars, DrainUnchanged
<1>9. CASE Close
  <2>1. /\ drain' = drain /\ closeAt = "none" /\ closeAt' = "start"
        /\ micro' = Append(micro, "close")
    BY <1>9 DEF Close, drainVars
  <2> QED BY <1>0, <1>02, <1>03, <2>1 DEF MicroInStep
<1>10. CASE Prepare
  <2>1. drain = "prepare" /\ drain' = "built" /\ micro' = Append(micro, "keep") /\ closeAt' = closeAt
    BY <1>10 DEF Prepare, DrainUnchanged, closeVars
  <2> QED BY <1>0, <1>02, <1>03, <2>1 DEF MicroInStep
<1>11. CASE TooLarge \/ SendFail
  <2>1. /\ drain \in {"prepare", "send"} /\ drain' = "settle" /\ micro' = Append(micro, "settle")
        /\ closeAt' = closeAt
    BY <1>11 DEF TooLarge, SendFail, Throw, DrainUnchanged, closeVars
  <2> QED BY <1>0, <1>02, <1>03, <2>1 DEF MicroInStep
<1>12. CASE KeepBatch
  <2>1. Ready("keep") /\ micro' = Tail(micro) /\ drain' = "send" /\ closeAt' = closeAt
    BY <1>12 DEF KeepBatch, DrainUnchanged, closeVars
  <2>2. drain = "built"
    BY <1>0, <1>01, <2>1
  <2> QED BY <1>0, <1>01, <2>1, <2>2 DEF MicroInStep
<1>13. CASE SendOk
  <2>1. /\ drain = "send" /\ drain' \in {"settle", "prepare", "send"} /\ closeAt' = closeAt
        /\ micro' = IF drain' = "settle" THEN Append(micro, "settle") ELSE micro
    BY <1>13 DEF SendOk, DrainLoop, closeVars
  <2> QED BY <1>0, <1>02, <1>03, <2>1 DEF MicroInStep
<1>14. CASE Settle
  <2>1. Ready("settle") /\ drain' = "none" /\ drain = "settle"
    BY <1>0, <1>01, <1>14 DEF Settle
  <2>2. CASE closeAt = "drain"
    <3>1. closeAt' = "drained" /\ micro' = Append(Tail(micro), "loop")
      BY <1>14, <2>2 DEF Settle
    <3>2. "loop" \notin W \ {"settle"}
      BY <1>0, <2>2 DEF W
    <3>4. Tail(micro) \in Seq(Tasks) /\ Unique(Tail(micro)) /\ Range(Tail(micro)) = W \ {"settle"}
      BY <1>01, <2>1
    <3>3. Unique(micro') /\ Range(micro') = (W \ {"settle"}) \cup {"loop"}
      BY <1>02, <3>1, <3>2, <3>4
    <3> QED BY <1>0, <2>1, <2>2, <3>1, <3>3 DEF MicroInStep
  <2>3. CASE closeAt # "drain"
    <3>1. closeAt' = closeAt /\ micro' = Tail(micro)
      BY <1>14, <2>3 DEF Settle
    <3> QED BY <1>0, <1>01, <2>1, <3>1 DEF MicroInStep
  <2> QED BY <2>2, <2>3
<1>15. CASE CloseStart
  <2>1. StartDrain /\ Ready("close") /\ micro' = Tail(micro) \o StartTask /\ closeAt' = "drain"
    BY <1>15 DEF CloseStart
  <2> QED BY <1>0, <1>01, <1>3, <2>1 DEF MicroInStep
<1>16. CASE CloseLoop
  <2>1. Ready("loop") /\ micro' = Tail(micro) /\ closeAt' \in {"drain", "undo", "catalog"}
    BY <1>16 DEF CloseLoop
  <2>2. drain' = drain \/ (drain = "none" /\ drain' \in {"prepare", "send"})
    BY <1>16 DEF CloseLoop, StartDrain, DrainLoop, drainVars
  <2> QED BY <1>0, <1>01, <2>1, <2>2 DEF MicroInStep
<1>17. CASE CloseSeal \/ CloseUndo
  <2>1. UNCHANGED <<micro, drain>> /\ closeAt \in {"catalog", "undo"} /\ closeAt' = "none"
    BY <1>17 DEF CloseSeal, CloseUndo, CloseEnd, drainVars
  <2> QED BY <1>0, <1>03, <2>1 DEF MicroInStep
<1>18. CASE UNCHANGED vars
  BY <1>1, <1>18 DEF vars, drainVars, closeVars
<1> QED
  BY <1>4, <1>5, <1>6, <1>7, <1>8, <1>9, <1>10, <1>11, <1>12, <1>13, <1>14, <1>15, <1>16, <1>17, <1>18
     DEF Next, DrainStep, CloseStep

(* What there is before the batch in flight is known to be built or sent.   *)
LEMMA UnackedParts ==
  ASSUME TypeOK, DrainInStep
  PROVE  /\ built.events \in Seq(Event) /\ prepared.events \in Seq(Event) /\ queue \in Seq(Event)
         /\ acked \in Seq(Event) /\ captured \in Seq(Event)
         /\ Unacked \in Seq(Event)
         /\ drain # "built" => built.events = <<>> /\ Unacked = prepared.events \o queue
         /\ prepared = NoBatch => prepared.events = <<>> /\ Unacked = built.events \o queue
         /\ Len(Unacked) = Len(built.events) + Len(prepared.events) + Len(queue)
<1>1. /\ built.events \in Seq(Event) /\ prepared.events \in Seq(Event) /\ queue \in Seq(Event)
      /\ acked \in Seq(Event) /\ captured \in Seq(Event) /\ NoBatch.events = <<>>
  BY DEF TypeOK, EventTypeOK, Batch, NoBatch
<1>2. built.events \o prepared.events \in Seq(Event)
      /\ Len(built.events \o prepared.events) = Len(built.events) + Len(prepared.events)
  BY <1>1, EventConcat
<1>3. Unacked \in Seq(Event) /\ Len(Unacked) = Len(built.events) + Len(prepared.events) + Len(queue)
  BY <1>1, <1>2, EventConcat DEF Unacked
<1>4. ASSUME drain # "built" PROVE built.events = <<>> /\ Unacked = prepared.events \o queue
  <2>1. built.events = <<>>
    BY <1>1, <1>4 DEF DrainInStep
  <2>2. built.events \o prepared.events = prepared.events
    BY <1>1, <2>1, EventConcat
  <2> QED BY <2>1, <2>2 DEF Unacked
<1>5. prepared = NoBatch => prepared.events = <<>> /\ Unacked = built.events \o queue
  BY <1>1, EventConcat DEF Unacked
<1> QED BY <1>1, <1>3, <1>4, <1>5

(* A drain that begins has the queue before it, unless a batch is kept.     *)
LEMMA StartDrainStep ==
  ASSUME TypeOK, DrainInStep, Accounting, StartDrain
  PROVE  /\ prepared' = prepared
         /\ \/ UNCHANGED drainVars /\ drain # "none"
            \/ /\ drain = "none" /\ drain' \in {"settle", "prepare", "send"} /\ accepted' = 0
               /\ drain' = "settle" <=> pendingCount = 0
               /\ drain' = "send" => prepared # NoBatch
               /\ drain' = "prepare" => /\ prepared = NoBatch /\ count' \in 1..Len(queue)
                                        /\ count' <= MaxBatch
<1>1. Len(queue) \in Nat /\ pendingCount = Len(built.events) + Len(prepared.events) + Len(queue)
      /\ pendingCount \in Nat
  <2>1. queue \in Seq(Event) /\ Len(Unacked) = Len(built.events) + Len(prepared.events) + Len(queue)
    BY UnackedParts
  <2>2. pendingCount = Len(Unacked)
    BY DEF Accounting
  <2>3. pendingCount \in Nat
    BY DEF TypeOK, EventTypeOK
  <2>4. Len(queue) \in Nat
    BY <2>1
  <2>5. pendingCount = Len(built.events) + Len(prepared.events) + Len(queue)
    BY <2>1, <2>2
  <2> QED BY <2>3, <2>4, <2>5
<1>2. CASE drain = "none"
  <2>1. DrainLoop(pendingCount, Len(queue)) /\ accepted' = 0 /\ prepared' = prepared
    BY <1>2 DEF StartDrain
  <2>2. drain' = "prepare" => prepared = NoBatch /\ Len(queue) # 0
    <3>1. built.events = <<>>
      BY <1>2, UnackedParts
    <3>2. prepared = NoBatch => pendingCount = Len(queue)
      BY <1>1, <3>1, UnackedParts
    <3> QED BY <1>1, <2>1, <3>2, DrainLoopType
  <2> QED BY <1>1, <1>2, <2>1, <2>2, DrainLoopType
<1>3. CASE drain # "none"
  BY <1>3 DEF StartDrain
<1> QED BY <1>2, <1>3

(* An acknowledged batch leaves the queue before the drain.                 *)
LEMMA SendOkStep ==
  ASSUME TypeOK, DrainInStep, BatchSized, Accounting, SendOk
  PROVE  /\ built = NoBatch /\ prepared # NoBatch /\ prepared' = NoBatch /\ UNCHANGED <<built, queue, captured>>
         /\ Unacked = prepared.events \o queue /\ Unacked' = queue
         /\ Len(prepared.events) \in 1..MaxBatch
         /\ acked' = acked \o prepared.events
         /\ pendingCount' = pendingCount - Len(prepared.events) /\ pendingCount' = Len(queue)
         /\ pendingIds' = pendingIds \ EventIds(prepared.events)
         /\ server' = server \cup {prepared}
         /\ drain' \in {"settle", "prepare"}
         /\ drain' = "settle" <=> pendingCount' = 0
         /\ drain' = "prepare" => count' \in 1..Len(queue) /\ count' <= MaxBatch
<1>1. drain = "send" /\ built = NoBatch /\ prepared # NoBatch /\ Len(prepared.events) \in 1..MaxBatch
  BY DEF SendOk, DrainInStep, BatchSized
<1>2. /\ prepared' = NoBatch /\ UNCHANGED <<built, queue, captured>> /\ acked' = acked \o prepared.events
      /\ pendingCount' = pendingCount - Len(prepared.events)
      /\ pendingIds' = pendingIds \ EventIds(prepared.events)
      /\ server' = server \cup {prepared} /\ DrainLoop(pendingCount', Len(queue))
  BY DEF SendOk, Remaining, Released, Transmit
<1>3. /\ Unacked = prepared.events \o queue
      /\ pendingCount = Len(prepared.events) + Len(queue)
      /\ queue \in Seq(Event) /\ Len(queue) \in Nat /\ Len(prepared.events) \in Nat
  <2>1. /\ built.events = <<>> /\ Unacked = prepared.events \o queue
        /\ Len(Unacked) = Len(built.events) + Len(prepared.events) + Len(queue)
        /\ queue \in Seq(Event) /\ prepared.events \in Seq(Event)
    BY <1>1, UnackedParts
  <2>2. Len(queue) \in Nat /\ Len(prepared.events) \in Nat /\ Len(built.events) = 0
    BY <2>1
  <2> QED BY <2>1, <2>2 DEF Accounting
<1>4. Unacked' = queue
  <2>1. NoBatch.events = <<>>
    BY DEF NoBatch
  <2>2. Unacked' = (NoBatch.events \o NoBatch.events) \o queue
    BY <1>1, <1>2 DEF Unacked
  <2> QED BY <1>3, <2>1, <2>2
<1>5. pendingCount' = Len(queue)
  BY <1>2, <1>3
<1>6. /\ drain' \in {"settle", "prepare"}
      /\ drain' = "settle" <=> pendingCount' = 0
      /\ drain' = "prepare" => count' \in 1..Len(queue) /\ count' <= MaxBatch
  BY <1>2, <1>3, <1>5, DrainLoopType
<1> QED BY <1>1, <1>2, <1>3, <1>4, <1>5, <1>6

(* What the drain read before an await is still so after it: nobody else    *)
(* takes events off the queue or keeps a batch.                             *)
LEMMA DrainInStepStep ==
  ASSUME TypeOK, MicroInStep, DrainInStep, BatchSized, Accounting, [Next]_vars
  PROVE  DrainInStep' /\ BatchSized'
<1> USE DEF DrainInStep, BatchSized
<1>1. CASE UNCHANGED <<queue, prepared, built, drain, count>>
  BY <1>1
<1>2. CASE StartDrain /\ UNCHANGED <<queue, built>>
  BY <1>2, StartDrainStep DEF drainVars
<1>3. ASSUME drain' \in {"none", "settle"}, drain # "built", UNCHANGED <<queue, prepared, built>>
      PROVE  DrainInStep' /\ BatchSized'
  BY <1>3
<1>4. ASSUME NEW ids \in Inputs, Capture(ids) PROVE DrainInStep' /\ BatchSized'
  <2>1. /\ UNCHANGED <<prepared, built, drain, count>> /\ queue' = queue \o NewEvents(ids)
        /\ queue \in Seq(Event) /\ NewEvents(ids) \in Seq(Event)
    BY <1>4, NewEventsType DEF Capture, drainVars, TypeOK, EventTypeOK
  <2>2. Len(queue') = Len(queue) + Len(NewEvents(ids)) /\ Len(queue) \in Nat /\ Len(NewEvents(ids)) \in Nat
    BY <2>1
  <2> QED BY <2>1, <2>2 DEF TypeOK, ControlTypeOK
<1>5. CASE Fire \/ FlushReturn \/ Close \/ SendRetry
  BY <1>1, <1>5 DEF Fire, FlushReturn, Close, SendRetry, CloseUnchanged, pendingVars, drainVars
<1>6. CASE Background
  <2>1. UNCHANGED <<queue, built>> /\ (StartDrain \/ UNCHANGED <<drain, count, prepared>>)
    BY <1>6 DEF Background, pendingVars, drainVars
  <2> QED BY <1>1, <1>2, <2>1
<1>7. CASE Flush \/ CloseStart
  BY <1>2, <1>7 DEF Flush, CloseStart, CloseUnchanged, pendingVars
<1>8. CASE Prepare
  BY <1>8, PrepareStep, NodeSizeAssumption DEF NoBatch, TypeOK, EventTypeOK
<1>9. CASE TooLarge \/ SendFail
  BY <1>3, <1>9 DEF TooLarge, SendFail, Throw
<1>10. CASE KeepBatch
  <2>1. drain = "built"
    <3>1. "keep" \in Range(micro)
      BY <1>10, TakeTask DEF KeepBatch, Ready, MicroInStep, TypeOK, ControlTypeOK
    <3> QED BY <3>1 DEF MicroInStep
  <2> QED BY <1>10, <2>1 DEF KeepBatch
<1>11. CASE SendOk
  <2>1. /\ prepared' = NoBatch /\ built' = NoBatch /\ queue' = queue /\ drain' \in {"settle", "prepare"}
        /\ drain' = "prepare" => count' \in 1..Len(queue) /\ count' <= MaxBatch
    BY <1>11, SendOkStep
  <2> QED BY <2>1
<1>12. CASE Settle
  <2>1. drain = "settle"
    <3>1. "settle" \in Range(micro)
      BY <1>12, TakeTask DEF Settle, Ready, MicroInStep, TypeOK, ControlTypeOK
    <3> QED BY <3>1 DEF MicroInStep
  <2> QED BY <1>3, <1>12, <2>1 DEF Settle, pendingVars
<1>13. CASE CloseLoop
  <2>1. UNCHANGED <<queue, built>> /\ (StartDrain \/ UNCHANGED <<drain, count, prepared>>)
    BY <1>13 DEF CloseLoop, CloseUnchanged, pendingVars, drainVars
  <2> QED BY <1>1, <1>2, <2>1
<1>14. CASE CloseSeal \/ CloseUndo
  BY <1>1, <1>14 DEF CloseSeal, CloseUndo, CloseEnd, CloseUnchanged, pendingVars, drainVars
<1>15. CASE UNCHANGED vars
  BY <1>1, <1>15 DEF vars, pendingVars, drainVars
<1> QED
  BY <1>4, <1>5, <1>6, <1>7, <1>8, <1>9, <1>10, <1>11, <1>12, <1>13, <1>14, <1>15
     DEF Next, DrainStep, CloseStep

-------------------------------------------------------------------------------
(* The events                                                               *)

(* Keeping a batch only moves it from `built` to #preparedBatch.            *)
LEMMA KeepBatchStep ==
  ASSUME TypeOK, MicroInStep, DrainInStep, KeepBatch
  PROVE  /\ drain = "built" /\ built # NoBatch /\ prepared = NoBatch /\ drain' = "send"
         /\ prepared' = built /\ built' = NoBatch /\ Unacked' = Unacked
         /\ UNCHANGED <<pendingVars, acked, server, nextKey>>
<1>1. "keep" \in Range(micro)
  BY TakeTask DEF KeepBatch, Ready, MicroInStep, TypeOK, ControlTypeOK
<1>2. drain = "built" /\ built # NoBatch /\ prepared = NoBatch
  BY <1>1 DEF MicroInStep, DrainInStep
<1>3. prepared' = built /\ built' = NoBatch /\ drain' = "send" /\ UNCHANGED <<pendingVars, acked, server, nextKey>>
  BY DEF KeepBatch, DrainUnchanged, pendingVars, serviceVars
<1>4. built.events \in Seq(Event) /\ queue \in Seq(Event) /\ Unacked = built.events \o queue
  BY <1>2, UnackedParts
<1>5. Unacked' = (NoBatch.events \o built.events) \o queue
  BY <1>3 DEF Unacked, pendingVars
<1>6. NoBatch.events = <<>> /\ <<>> \o built.events = built.events
  BY <1>4, EventConcat DEF NoBatch
<1> QED BY <1>2, <1>3, <1>4, <1>5, <1>6

(* Building a batch only moves it from the queue to `built`.                *)
LEMMA PrepareKeeps ==
  ASSUME TypeOK, DrainInStep, BatchSized, Prepare
  PROVE  Unacked' = Unacked /\ UNCHANGED <<pendingIds, pendingCount, captured, acked>>
<1>1. /\ built' \in Batch /\ queue' \in Seq(Event) /\ queue = built'.events \o queue'
      /\ built = NoBatch /\ prepared = NoBatch /\ UNCHANGED prepared
      /\ UNCHANGED <<pendingIds, pendingCount, captured, acked>>
  BY PrepareStep
<1>2. built'.events \in Seq(Event) /\ NoBatch.events = <<>> /\ queue \in Seq(Event)
  BY <1>1 DEF Batch, NoBatch, TypeOK, EventTypeOK
<1>3. Unacked = (<<>> \o <<>>) \o queue /\ Unacked' = (built'.events \o <<>>) \o queue'
  BY <1>1, <1>2 DEF Unacked
<1>4. <<>> \o <<>> = <<>> /\ <<>> \o queue = queue /\ built'.events \o <<>> = built'.events
  BY <1>2, EventConcat
<1> QED BY <1>1, <1>3, <1>4

(* Capturing appends.                                                       *)
LEMMA CaptureStep ==
  ASSUME TypeOK, NEW ids \in Inputs, Capture(ids)
  PROVE  /\ NewEvents(ids) \in Seq(Event)
         /\ Unacked' = Unacked \o NewEvents(ids) /\ captured' = captured \o NewEvents(ids)
         /\ UNCHANGED acked
<1> DEFINE p == built.events \o prepared.events
<1>1. NewEvents(ids) \in Seq(Event)
  BY NewEventsType DEF TypeOK, EventTypeOK
<1>2. queue \in Seq(Event) /\ p \in Seq(Event)
  BY EventConcat DEF TypeOK, EventTypeOK, Batch
<1>3. (p \o queue) \o NewEvents(ids) = p \o (queue \o NewEvents(ids))
  BY <1>1, <1>2, EventAssoc
<1>4. Unacked' = p \o (queue \o NewEvents(ids))
  BY DEF Unacked, Capture
<1>5. Unacked \o NewEvents(ids) = (p \o queue) \o NewEvents(ids)
  BY DEF Unacked
<1>6. captured' = captured \o NewEvents(ids) /\ UNCHANGED acked
  BY DEF Capture
<1> QED BY <1>1, <1>3, <1>4, <1>5, <1>6

(* No action loses, repeats or reorders an event.                           *)
LEMMA ConservationStep ==
  ASSUME TypeOK, MicroInStep, DrainInStep, BatchSized, Accounting, Conservation, [Next]_vars
  PROVE  Conservation'
<1>1. /\ acked \in Seq(Event) /\ Unacked \in Seq(Event) /\ prepared.events \in Seq(Event)
      /\ queue \in Seq(Event) /\ captured = acked \o Unacked
  BY UnackedParts DEF Conservation
<1>2. ASSUME NEW ids \in Inputs, Capture(ids) PROVE Conservation'
  <2>1. /\ NewEvents(ids) \in Seq(Event) /\ Unacked' = Unacked \o NewEvents(ids)
        /\ captured' = captured \o NewEvents(ids) /\ acked' = acked
    BY <1>2, CaptureStep
  <2>2. (acked \o Unacked) \o NewEvents(ids) = acked \o (Unacked \o NewEvents(ids))
    BY <1>1, <2>1, EventConcat
  <2> QED BY <1>1, <2>1, <2>2 DEF Conservation
<1>3. CASE Prepare
  BY <1>1, <1>3, PrepareKeeps DEF Conservation
<1>4. CASE KeepBatch
  BY <1>1, <1>4, KeepBatchStep DEF Conservation, pendingVars
<1>5. CASE SendOk
  <2>1. /\ Unacked = prepared.events \o queue /\ Unacked' = queue
        /\ captured' = captured /\ acked' = acked \o prepared.events
    BY <1>5, SendOkStep
  <2>2. (acked \o prepared.events) \o queue = acked \o (prepared.events \o queue)
    BY <1>1, EventAssoc
  <2> QED BY <1>1, <2>1, <2>2 DEF Conservation
<1>6. CASE UNCHANGED <<pendingVars, prepared, built, acked>>
  BY <1>6 DEF Conservation, Unacked, pendingVars
<1> QED BY <1>2, <1>3, <1>4, <1>5, <1>6, EventSteps

(* capture() counts and reserves what it appends, acknowledging releases    *)
(* the batch, and nothing else changes what is pending.                     *)
LEMMA AccountingStep ==
  ASSUME TypeOK, MicroInStep, DrainInStep, BatchSized, Accounting, [Next]_vars
  PROVE  Accounting'
<1>1. /\ pendingCount = Len(Unacked) /\ pendingCount <= MaxQueue
      /\ pendingIds = EventIds(Unacked) /\ Distinct(Unacked)
  BY DEF Accounting, Distinct
<1>2. /\ pendingCount' = Len(Unacked') /\ pendingCount' <= MaxQueue
      /\ pendingIds' = EventIds(Unacked') /\ Distinct(Unacked')
      => Accounting'
  BY DEF Accounting, Distinct
<1>3. Unacked \in Seq(Event) /\ prepared.events \in Seq(Event) /\ queue \in Seq(Event)
  BY UnackedParts
<1>4. ASSUME NEW ids \in Inputs, Capture(ids) PROVE Accounting'
  <2> DEFINE new == NewEvents(ids)
  <2>1. Unacked' = Unacked \o new
    BY <1>4, CaptureStep
  <2>2. /\ new \in Seq(Event) /\ Len(new) = Len(ids) /\ Len(ids) \in Nat
        /\ EventIds(new) = {ids[i] : i \in DOMAIN ids}
        /\ DOMAIN ids = 1..Len(ids) /\ \A i \in 1..Len(ids) : new[i].id = ids[i]
    BY NewEventsType DEF TypeOK, EventTypeOK
  <2> HIDE DEF new
  <2>3. /\ pendingCount' = pendingCount + Len(ids) /\ Len(ids) + pendingCount <= MaxQueue
        /\ pendingIds' = pendingIds \cup {ids[i] : i \in DOMAIN ids}
        /\ \A i \in DOMAIN ids : ids[i] \notin pendingIds
    BY <1>4 DEF Capture, HasRoom, Reserved
  <2>4. /\ Len(Unacked') = Len(Unacked) + Len(ids)
        /\ EventIds(Unacked') = EventIds(Unacked) \cup EventIds(new)
    <3>1. Len(Unacked \o new) = Len(Unacked) + Len(new)
      BY <1>3, <2>2, EventConcat
    <3>2. EventIds(Unacked \o new) = EventIds(Unacked) \cup EventIds(new)
      BY <1>3, <2>2, IdsOfConcat
    <3> QED BY <2>1, <2>2, <3>1, <3>2
  <2>5. Distinct(Unacked')
    <3>1. \A i, j \in DOMAIN ids : ids[i] = ids[j] => i = j
      BY DEF Inputs
    <3>2. DOMAIN new = DOMAIN ids
      BY <2>2
    <3>3. Distinct(new)
      BY <2>2, <3>1, <3>2 DEF Distinct
    <3>4. EventIds(Unacked) \cap EventIds(new) = {}
      BY <1>1, <2>2, <2>3
    <3> QED BY <1>1, <1>3, <2>1, <2>2, <3>3, <3>4, DistinctConcat
  <2>6. pendingCount \in Nat /\ MaxQueue \in Nat
    BY NodeSizeAssumption DEF TypeOK, EventTypeOK
  <2> QED BY <1>1, <1>2, <2>2, <2>3, <2>4, <2>5, <2>6
<1>5. CASE Prepare
  BY <1>1, <1>2, <1>5, PrepareKeeps
<1>6. CASE KeepBatch
  BY <1>1, <1>2, <1>6, KeepBatchStep DEF pendingVars
<1>7. CASE SendOk
  <2>1. /\ Unacked = prepared.events \o queue /\ Unacked' = queue
        /\ pendingCount' = pendingCount - Len(prepared.events) /\ pendingCount' = Len(queue)
        /\ pendingIds' = pendingIds \ EventIds(prepared.events)
    BY <1>7, SendOkStep
  <2>2. /\ Distinct(queue) /\ EventIds(prepared.events) \cap EventIds(queue) = {}
        /\ EventIds(Unacked) = EventIds(prepared.events) \cup EventIds(queue)
    BY <1>1, <1>3, <2>1, DistinctConcat, IdsOfConcat
  <2>3. pendingCount' <= MaxQueue
    <3>1. Len(prepared.events) \in Nat /\ pendingCount \in Nat /\ MaxQueue \in Nat
      BY <1>3, NodeSizeAssumption DEF TypeOK, EventTypeOK
    <3> QED BY <1>1, <2>1, <3>1
  <2>4. pendingIds' = EventIds(Unacked')
    BY <1>1, <2>1, <2>2
  <2> QED BY <1>2, <2>1, <2>2, <2>3, <2>4
<1>8. CASE UNCHANGED <<pendingVars, prepared, built, acked>>
  BY <1>8 DEF Accounting, Unacked, pendingVars
<1> QED BY <1>4, <1>5, <1>6, <1>7, <1>8, EventSteps

-------------------------------------------------------------------------------
(* The first group of theorems                                              *)

LEMMA InitIInv == Init => IInv
<1> SUFFICES ASSUME Init PROVE IInv
  OBVIOUS
<1>1. TypeOK
  BY InitTypeOK
<1>2. MicroInStep /\ DrainInStep /\ BatchSized
  BY DEF Init, MicroInStep, Unique, Range, DrainInStep, BatchSized
<1>3. queue = <<>> /\ captured = <<>> /\ acked = <<>> /\ prepared.events = <<>> /\ built.events = <<>>
  BY DEF Init, NoBatch
<1>4. Unacked = <<>>
  BY <1>3 DEF Unacked
<1>5. Conservation
  BY <1>3, <1>4 DEF Conservation
<1>6. pendingCount = 0 /\ pendingIds = {} /\ DOMAIN Unacked = {} /\ Len(Unacked) = 0
  BY <1>4 DEF Init
<1>7. Accounting
  BY <1>6, NodeSizeAssumption DEF Accounting, EventIds
<1> QED BY <1>1, <1>2, <1>5, <1>7 DEF IInv

LEMMA NextIInv == IInv /\ [Next]_vars => IInv'
<1> SUFFICES ASSUME IInv, [Next]_vars PROVE IInv'
  OBVIOUS
<1> USE DEF IInv
<1>1. TypeOK'
  BY EventTypeStep, ControlTypeStep DEF TypeOK
<1>2. MicroInStep' /\ DrainInStep' /\ BatchSized'
  BY MicroInStepStep, DrainInStepStep
<1>3. Conservation' /\ Accounting'
  BY ConservationStep, AccountingStep
<1> QED BY <1>1, <1>2, <1>3

LEMMA Inductive == Safety => []IInv
<1> QED BY InitIInv, NextIInv, PTL DEF Safety

(* No event is lost, duplicated or reordered between the queue, the batch   *)
(* being built and the batch in flight; #pendingCount and #pendingEventIds  *)
(* are exact, and what a drain has read before an await still holds after   *)
(* it (capture, #prepareNextBatch, #drain, #send).                          *)
THEOREM NodeIsConsistent == Safety => []Consistent
<1>1. IInv => Consistent BY DEF IInv, Consistent
<1> QED BY <1>1, Inductive, PTL

-------------------------------------------------------------------------------
(* What the service receives                                                *)

(* A step that neither captures, builds, keeps, sends nor acknowledges.     *)
Aside == UNCHANGED <<captured, prepared, built, acked, server, nextKey>>

LEMMA DeliverySteps ==
  ASSUME [Next]_vars
  PROVE  \/ \E ids \in Inputs : Capture(ids)
         \/ Prepare \/ KeepBatch \/ SendOk \/ SendRetry \/ SendFail
         \/ Aside
<1> USE DEF pendingVars, serviceVars, Aside
<1>1. CASE UNCHANGED vars
  BY <1>1 DEF vars
<1>2. CASE Fire \/ Background \/ Flush \/ FlushReturn \/ Close
  BY <1>2 DEF Fire, Background, StartDrain, Flush, FlushReturn, Close, CloseUnchanged
<1>3. CASE TooLarge \/ Settle
  BY <1>3 DEF TooLarge, Settle, DrainUnchanged
<1>4. CASE CloseStep
  BY <1>4 DEF CloseStep, CloseStart, CloseLoop, CloseSeal, CloseUndo, CloseEnd, StartDrain, CloseUnchanged
<1> QED BY <1>1, <1>2, <1>3, <1>4 DEF Next, DrainStep

(* An attempt that is not acknowledged may have sent the batch all the same.*)
LEMMA AttemptStep ==
  ASSUME DrainInStep, SendRetry \/ SendFail
  PROVE  /\ built = NoBatch /\ prepared # NoBatch
         /\ server' = server \/ server' = server \cup {prepared}
         /\ UNCHANGED <<captured, prepared, built, acked, nextKey>>
<1>1. drain = "send" /\ built = NoBatch /\ prepared # NoBatch
  BY DEF SendRetry, SendFail, DrainInStep
<1>2. \E received \in BOOLEAN : Transmit(received)
  BY DEF SendRetry, SendFail
<1>3. server' = server \/ server' = server \cup {prepared}
  BY <1>2 DEF Transmit
<1> QED BY <1>1, <1>3 DEF SendRetry, SendFail, DrainUnchanged

(* Events are numbered as they are captured.                                *)
Numbered == \A i \in DOMAIN captured : captured[i].n = i

LEMMA NumberedStep ==
  ASSUME TypeOK, Numbered, [Next]_vars
  PROVE  Numbered'
<1>1. ASSUME NEW ids \in Inputs, Capture(ids) PROVE Numbered'
  <2> DEFINE new == NewEvents(ids)
  <2>1. /\ captured \in Seq(Event) /\ new \in Seq(Event) /\ Len(new) = Len(ids) /\ Len(ids) \in Nat
        /\ captured' = captured \o new
    BY <1>1, NewEventsType DEF Capture, TypeOK, EventTypeOK
  <2>2. \A i \in 1..Len(ids) : new[i].n = Len(captured) + i
    BY DEF NewEvents
  <2> HIDE DEF new
  <2>3. SUFFICES ASSUME NEW i \in 1..(Len(captured) + Len(ids))
                 PROVE  captured'[i].n = i
    BY <2>1 DEF Numbered
  <2>4. CASE i <= Len(captured)
    BY <2>1, <2>4 DEF Numbered
  <2>5. CASE i > Len(captured)
    <3>1. i - Len(captured) \in 1..Len(ids) /\ captured'[i] = new[i - Len(captured)]
      BY <2>1, <2>5
    <3>2. new[i - Len(captured)].n = Len(captured) + (i - Len(captured))
      BY <2>2, <3>1
    <3>3. Len(captured) + (i - Len(captured)) = i
      BY <2>1
    <3> QED BY <3>1, <3>2, <3>3
  <2> QED BY <2>1, <2>4, <2>5
<1>2. captured' = captured => Numbered'
  BY DEF Numbered
<1>3. CASE Prepare \/ KeepBatch \/ SendOk \/ SendRetry \/ SendFail
  BY <1>2, <1>3 DEF Prepare, KeepBatch, SendOk, SendRetry, SendFail, DrainUnchanged
<1> QED BY <1>1, <1>2, <1>3, DeliverySteps DEF Aside

(* So the acknowledged events, and those of the batch in flight, have the   *)
(* numbers of their places.                                                 *)
LEMMA NumbersInPlace ==
  ASSUME TypeOK, DrainInStep, Conservation, Numbered, drain # "built"
  PROVE  \A i \in 1..Len(prepared.events) : prepared.events[i].n = Len(acked) + i
<1> DEFINE b == prepared.events
<1>1. /\ acked \in Seq(Event) /\ b \in Seq(Event) /\ queue \in Seq(Event)
      /\ captured = acked \o (b \o queue)
  BY UnackedParts DEF Conservation
<1> HIDE DEF b
<1>2. /\ b \o queue \in Seq(Event) /\ Len(b \o queue) = Len(b) + Len(queue)
      /\ \A i \in 1..Len(b) : (b \o queue)[i] = b[i]
  BY <1>1
<1>3. Len(acked) \in Nat /\ Len(b) \in Nat /\ Len(queue) \in Nat
  BY <1>1
<1>4. ASSUME NEW i \in 1..Len(b) PROVE b[i].n = Len(acked) + i
  <2>1. i \in 1..Len(b \o queue)
    BY <1>2, <1>3
  <2>2. Len(acked) + i \in DOMAIN captured /\ captured[Len(acked) + i] = (b \o queue)[i]
    BY <1>1, <1>2, <1>3, <2>1
  <2> QED BY <1>2, <2>2 DEF Numbered
<1> QED BY <1>4 DEF b

(* An idempotency key is used for one batch: the service has seen no later  *)
(* key than the last one generated, nor that of a batch just built.         *)
KeysFresh ==
  /\ prepared # NoBatch => prepared.key \in 1..nextKey
  /\ built # NoBatch => built.key \in 1..nextKey /\ \A a \in server : a.key # built.key
  /\ \A a \in server : a.key \in 1..nextKey

LEMMA KeysFreshStep ==
  ASSUME TypeOK, MicroInStep, DrainInStep, BatchSized, Accounting, KeysFresh, [Next]_vars
  PROVE  KeysFresh'
<1> USE DEF KeysFresh
<1>0. nextKey \in Nat
  BY DEF TypeOK, EventTypeOK
<1>1. CASE Aside
  BY <1>1 DEF Aside
<1>2. ASSUME NEW ids \in Inputs, Capture(ids) PROVE KeysFresh'
  BY <1>2 DEF Capture, serviceVars
<1>3. CASE Prepare
  <2>1. /\ nextKey' = nextKey + 1 /\ built'.key = nextKey + 1 /\ prepared = NoBatch
        /\ UNCHANGED <<prepared, server>>
    BY <1>3, PrepareStep
  <2> QED BY <1>0, <2>1
<1>4. CASE KeepBatch
  BY <1>4, KeepBatchStep
<1>5. CASE SendOk
  <2>1. /\ prepared # NoBatch /\ prepared' = NoBatch /\ built' = NoBatch
        /\ server' = server \cup {prepared}
    BY <1>5, SendOkStep
  <2>2. nextKey' = nextKey
    BY <1>5 DEF SendOk
  <2> QED BY <2>1, <2>2
<1>6. CASE SendRetry \/ SendFail
  BY <1>6, AttemptStep
<1> QED BY <1>1, <1>2, <1>3, <1>4, <1>5, <1>6, DeliverySteps

(* A request the service has is the batch in flight, or one acknowledged    *)
(* before with another key.                                                 *)
SentBefore(a) == a.key # prepared.key /\ \A i \in DOMAIN a.events : a.events[i].n <= Len(acked)

SentOnce == \A a \in server : a = prepared \/ SentBefore(a)

LEMMA SentOnceStep ==
  ASSUME TypeOK, MicroInStep, DrainInStep, BatchSized, Accounting, Conservation, Numbered,
         KeysFresh, SentOnce, [Next]_vars
  PROVE  SentOnce'
<1>0. NoBatch.key = 0
  BY DEF NoBatch
<1>1. CASE Aside
  BY <1>1 DEF Aside, SentOnce, SentBefore
<1>2. ASSUME NEW ids \in Inputs, Capture(ids) PROVE SentOnce'
  BY <1>2 DEF Capture, serviceVars, SentOnce, SentBefore
<1>3. CASE Prepare
  <2>1. UNCHANGED <<prepared, server, acked>>
    BY <1>3, PrepareStep
  <2> QED BY <2>1 DEF SentOnce, SentBefore
<1>4. CASE KeepBatch
  <2>1. /\ built # NoBatch /\ prepared = NoBatch /\ prepared' = built /\ UNCHANGED <<server, acked>>
    BY <1>4, KeepBatchStep
  <2>2. \A a \in server : a.key # built.key /\ a # NoBatch
    BY <1>0, <2>1 DEF KeysFresh
  <2> QED BY <2>1, <2>2 DEF SentOnce, SentBefore
<1>5. CASE SendOk
  <2>1. /\ prepared # NoBatch /\ prepared' = NoBatch /\ server' = server \cup {prepared}
        /\ acked' = acked \o prepared.events /\ drain # "built"
    BY <1>5, SendOkStep DEF DrainInStep
  <2>2. acked \in Seq(Event) /\ prepared.events \in Seq(Event)
    BY UnackedParts
  <2>3. /\ Len(acked') = Len(acked) + Len(prepared.events)
        /\ Len(acked) \in Nat /\ Len(prepared.events) \in Nat
        /\ DOMAIN prepared.events = 1..Len(prepared.events)
    BY <2>1, <2>2
  <2>4. ASSUME NEW a \in server \cup {prepared} PROVE SentBefore(a)'
    <3>1. a.key # 0 /\ a.events \in Seq(Event)
      BY <2>1, <2>2 DEF KeysFresh, TypeOK, EventTypeOK, Batch
    <3>2. ASSUME a = prepared, NEW i \in DOMAIN a.events PROVE a.events[i].n <= Len(acked')
      <4>1. i \in 1..Len(prepared.events)
        BY <2>3, <3>2
      <4>2. a.events[i].n = Len(acked) + i
        BY <2>1, <3>2, <4>1, NumbersInPlace
      <4> QED BY <2>3, <4>1, <4>2
    <3>3. ASSUME SentBefore(a), NEW i \in DOMAIN a.events PROVE a.events[i].n <= Len(acked')
      <4>1. a.events[i] \in Event
        BY <3>1, <3>3
      <4>2. a.events[i].n \in Nat /\ a.events[i].n <= Len(acked)
        BY <3>3, <4>1 DEF SentBefore, Event
      <4> QED BY <2>3, <4>2
    <3> QED BY <1>0, <2>1, <3>1, <3>2, <3>3 DEF SentOnce, SentBefore
  <2> QED BY <2>1, <2>4 DEF SentOnce
<1>6. CASE SendRetry \/ SendFail
  BY <1>6, AttemptStep DEF SentOnce, SentBefore
<1> QED BY <1>1, <1>2, <1>3, <1>4, <1>5, <1>6, DeliverySteps

(* Every acknowledged event is in a request of the service.                 *)
AckedSent == \A i \in DOMAIN acked : \E a \in server : acked[i] \in Range(a.events)

LEMMA AckedSentStep ==
  ASSUME TypeOK, MicroInStep, DrainInStep, BatchSized, Accounting, AckedSent, [Next]_vars
  PROVE  AckedSent'
<1>1. CASE acked' = acked /\ server \subseteq server'
  BY <1>1 DEF AckedSent
<1>2. CASE SendOk
  <2> DEFINE b == prepared.events
  <2>1. acked' = acked \o b /\ server' = server \cup {prepared}
    BY <1>2, SendOkStep
  <2>2. acked \in Seq(Event) /\ b \in Seq(Event)
    BY UnackedParts
  <2> HIDE DEF b
  <2>3. SUFFICES ASSUME NEW i \in 1..(Len(acked) + Len(b))
                 PROVE  \E a \in server' : acked'[i] \in Range(a.events)
    BY <2>1, <2>2 DEF AckedSent
  <2>4. CASE i <= Len(acked)
    <3>1. i \in DOMAIN acked /\ acked'[i] = acked[i]
      BY <2>1, <2>2, <2>4
    <3> QED BY <2>1, <3>1 DEF AckedSent
  <2>5. CASE i > Len(acked)
    <3>1. i - Len(acked) \in DOMAIN b /\ acked'[i] = b[i - Len(acked)]
      BY <2>1, <2>2, <2>5
    <3>2. acked'[i] \in Range(prepared.events)
      BY <3>1 DEF Range, b
    <3> QED BY <2>1, <3>2
  <2> QED BY <2>2, <2>4, <2>5
<1>3. ASSUME NEW ids \in Inputs, Capture(ids) PROVE AckedSent'
  BY <1>1, <1>3 DEF Capture, serviceVars
<1>4. CASE Prepare \/ KeepBatch
  BY <1>1, <1>4 DEF Prepare, KeepBatch, serviceVars
<1>5. CASE SendRetry \/ SendFail
  BY <1>1, <1>5, AttemptStep
<1>6. CASE Aside
  BY <1>1, <1>6 DEF Aside
<1> QED BY <1>2, <1>3, <1>4, <1>5, <1>6, DeliverySteps

LEMMA ExactlyOnceStep ==
  ASSUME TypeOK, MicroInStep, DrainInStep, BatchSized, Accounting, Conservation, Numbered,
         KeysFresh, SentOnce, ExactlyOnce, [Next]_vars
  PROVE  ExactlyOnce'
<1> DEFINE Same(a, b) == a.key = b.key \/ Range(a.events) \cap Range(b.events) # {}
<1>0. AckedSent /\ \A a, b \in server : Same(a, b) => a = b
  BY DEF ExactlyOnce, AckedSent
<1>1. AckedSent'
  BY <1>0, AckedSentStep
<1>2. \A a, b \in server' : Same(a, b) => a = b
  <2>1. CASE server' = server
    BY <1>0, <2>1
  <2>2. ASSUME server' = server \cup {prepared}, drain # "built"
        PROVE  \A a, b \in server' : Same(a, b) => a = b
    <3>1. ASSUME NEW a \in server, a # prepared PROVE a.key # prepared.key
      BY <3>1 DEF SentOnce, SentBefore
    <3>2. ASSUME NEW a \in server, a # prepared,
                 NEW i \in DOMAIN a.events, NEW j \in DOMAIN prepared.events
          PROVE  a.events[i] # prepared.events[j]
      <4>1. Len(acked) \in Nat /\ j \in 1..Len(prepared.events)
        <5>1. acked \in Seq(Event) /\ prepared.events \in Seq(Event)
          BY UnackedParts
        <5> QED BY <5>1
      <4>2. prepared.events[j].n = Len(acked) + j
        BY <2>2, <4>1, NumbersInPlace
      <4>3. a.events[i].n <= Len(acked)
        BY <3>2 DEF SentOnce, SentBefore
      <4> QED BY <4>1, <4>2, <4>3
    <3>3. ASSUME NEW a \in server, a # prepared PROVE ~Same(a, prepared) /\ ~Same(prepared, a)
      <4>1. Range(a.events) \cap Range(prepared.events) = {}
        BY <3>2, <3>3 DEF Range
      <4> QED BY <3>1, <3>3, <4>1
    <3> HIDE DEF Same
    <3> QED BY <1>0, <2>2, <3>3
  <2>3. CASE SendOk
    BY <2>2, <2>3, SendOkStep DEF SendOk
  <2>4. CASE SendRetry \/ SendFail
    BY <2>1, <2>2, <2>4, AttemptStep DEF DrainInStep
  <2>5. ASSUME NEW ids \in Inputs, Capture(ids) PROVE server' = server
    BY <2>5 DEF Capture, serviceVars
  <2>6. CASE Prepare \/ KeepBatch \/ Aside
    BY <2>1, <2>6 DEF Prepare, KeepBatch, Aside, serviceVars
  <2> HIDE DEF Same
  <2> QED BY <2>1, <2>3, <2>4, <2>5, <2>6, DeliverySteps
<1> QED BY <1>1, <1>2 DEF ExactlyOnce, AckedSent

-------------------------------------------------------------------------------
(* What flush() and close() speak for                                       *)

(* The acknowledged events come before the unacknowledged ones.             *)
LEMMA AckedFirst ==
  \A a, u \in Seq(Event) :
    /\ Len(a) \in Nat /\ Len(a \o u) \in Nat /\ Len(a) <= Len(a \o u)
    /\ Len(u) = 0 => a \o u = a
<1> SUFFICES ASSUME NEW a \in Seq(Event), NEW u \in Seq(Event)
             PROVE  /\ Len(a) \in Nat /\ Len(a \o u) \in Nat /\ Len(a) <= Len(a \o u)
                    /\ Len(u) = 0 => a \o u = a
  OBVIOUS
<1>1. Len(a \o u) = Len(a) + Len(u) /\ Len(a) \in Nat /\ Len(u) \in Nat
  OBVIOUS
<1>2. Len(u) = 0 => u = <<>>
  OBVIOUS
<1> QED BY <1>1, <1>2, EventConcat

(* With nothing pending, everything captured is acknowledged.               *)
LEMMA AckedCaptured ==
  ASSUME TypeOK, DrainInStep, Conservation, Accounting
  PROVE  /\ Len(acked) \in Nat /\ Len(captured) \in Nat /\ Len(acked) <= Len(captured)
         /\ pendingCount = 0 => acked = captured
<1>1. acked \in Seq(Event) /\ Unacked \in Seq(Event)
  BY UnackedParts
<1>2. captured = acked \o Unacked /\ pendingCount = Len(Unacked)
  BY DEF Conservation, Accounting
<1> QED BY <1>1, <1>2, AckedFirst

(* The same in the next state.                                              *)
LEMMA AckedCapturedNext ==
  ASSUME TypeOK', Conservation', Accounting'
  PROVE  /\ Len(acked') \in Nat /\ Len(captured') \in Nat /\ Len(acked') <= Len(captured')
         /\ pendingCount' = 0 => acked' = captured'
<1>1. /\ acked' \in Seq(Event) /\ queue' \in Seq(Event)
      /\ built'.events \in Seq(Event) /\ prepared'.events \in Seq(Event)
  BY DEF TypeOK, EventTypeOK, Batch
<1>2. built'.events \o prepared'.events \in Seq(Event)
  BY <1>1, EventConcat
<1>3. (built'.events \o prepared'.events) \o queue' \in Seq(Event)
  BY <1>1, <1>2, EventConcat
<1>4. Unacked' \in Seq(Event)
  BY <1>3 DEF Unacked
<1>5. captured' = acked' \o Unacked' /\ pendingCount' = Len(Unacked')
  BY DEF Conservation, Accounting
<1> QED BY <1>1, <1>4, <1>5, AckedFirst

(* The microtask of a function runs when it waits for it.                   *)
LEMMA ReadyStep ==
  ASSUME TypeOK, MicroInStep
  PROVE  /\ Ready("settle") => drain = "settle"
         /\ Ready("close") => closeAt = "start"
         /\ Ready("loop") => closeAt = "drained"
<1>1. micro # <<>> => Head(micro) \in Range(micro)
  BY TakeTask DEF MicroInStep, TypeOK, ControlTypeOK
<1> QED BY <1>1 DEF Ready, MicroInStep

(* A drain whose end is not settled yet has acknowledged what was captured  *)
(* before the flush() that waits for it, if it has succeeded.               *)
MarksCovered ==
  /\ mark <= Len(captured)
  /\ flushing = "drain" /\ drain = "settle" /\ outcome = "ok" => mark <= Len(acked)
  /\ flushing = "catalog" /\ flushed => mark <= Len(acked)

LEMMA MarksCoveredStep ==
  ASSUME TypeOK, MicroInStep, DrainInStep, BatchSized, Conservation, Accounting,
         TypeOK', Conservation', Accounting', MarksCovered, [Next]_vars
  PROVE  MarksCovered'
<1> USE DEF MarksCovered, flushVars
<1>0. /\ Len(acked) \in Nat /\ Len(captured) \in Nat /\ Len(acked) <= Len(captured) /\ mark \in Nat
      /\ Len(acked') \in Nat /\ Len(captured') \in Nat /\ Len(acked') <= Len(captured') /\ mark' \in Nat
  BY AckedCaptured, AckedCapturedNext DEF TypeOK, ControlTypeOK
<1>1. CASE UNCHANGED <<flushVars, captured, acked, drain, outcome>>
  BY <1>1
(* A drain that goes on, fails, or succeeds with nothing left pending.      *)
<1>2. ASSUME UNCHANGED flushVars, Len(acked) <= Len(acked'), Len(captured) <= Len(captured'),
             drain' = "settle" /\ outcome' = "ok" =>
               (drain = "settle" /\ outcome = "ok") \/ pendingCount' = 0
      PROVE  MarksCovered'
  <2>1. pendingCount' = 0 => acked' = captured'
    BY AckedCapturedNext
  <2> QED BY <1>0, <1>2, <2>1
<1>3. StartDrain => /\ drain' = drain \/ (drain = "none" /\ (drain' = "settle" <=> pendingCount = 0))
  BY StartDrainStep DEF drainVars
<1>4. ASSUME NEW ids \in Inputs, Capture(ids) PROVE MarksCovered'
  <2>1. /\ captured \in Seq(Event) /\ NewEvents(ids) \in Seq(Event)
        /\ captured' = captured \o NewEvents(ids) /\ acked' = acked
        /\ UNCHANGED <<flushVars, drain, outcome>>
    BY <1>4, CaptureStep DEF Capture, drainVars, TypeOK, EventTypeOK
  <2>2. Len(captured) <= Len(captured')
    BY <2>1
  <2> QED BY <1>0, <1>2, <2>1, <2>2
<1>5. CASE Fire \/ Close \/ SendRetry
  BY <1>1, <1>5 DEF Fire, Close, SendRetry, CloseUnchanged, DrainUnchanged, pendingVars, drainVars
<1>6. CASE Background \/ CloseStart \/ CloseLoop
  <2>1. /\ UNCHANGED <<flushVars, captured, acked, pendingCount, outcome>>
        /\ StartDrain \/ drain' = drain
    BY <1>6 DEF Background, CloseStart, CloseLoop, CloseUnchanged, pendingVars, drainVars
  <2> QED BY <1>0, <1>2, <1>3, <2>1
<1>7. CASE Flush
  <2>1. /\ UNCHANGED <<captured, acked, pendingCount, outcome>> /\ StartDrain
        /\ flushing' = "drain" /\ mark' = IF drain = "settle" THEN 0 ELSE Len(captured)
    BY <1>7 DEF Flush, pendingVars
  <2>2. pendingCount = 0 => acked = captured
    BY AckedCaptured
  <2> QED BY <1>0, <1>3, <2>1, <2>2
<1>8. CASE FlushReturn
  BY <1>0, <1>8 DEF FlushReturn
<1>9. CASE Prepare
  <2>1. UNCHANGED <<flushVars, captured, acked>> /\ drain' = "built"
    BY <1>9 DEF Prepare, DrainUnchanged
  <2> QED BY <1>0, <1>2, <2>1
<1>10. CASE TooLarge \/ SendFail
  <2>1. UNCHANGED <<flushVars, captured, acked>> /\ outcome' = "err"
    BY <1>10 DEF TooLarge, SendFail, Throw, DrainUnchanged
  <2> QED BY <1>0, <1>2, <2>1
<1>11. CASE KeepBatch
  <2>1. UNCHANGED <<flushVars, captured, acked>> /\ drain' = "send"
    BY <1>11 DEF KeepBatch, DrainUnchanged
  <2> QED BY <1>0, <1>2, <2>1
<1>12. CASE SendOk
  <2>1. /\ UNCHANGED <<flushVars, captured>> /\ acked' = acked \o prepared.events
        /\ drain' = "settle" => pendingCount' = 0
    BY <1>12, SendOkStep DEF SendOk
  <2>2. acked \in Seq(Event) /\ prepared.events \in Seq(Event)
    BY UnackedParts
  <2>3. Len(acked) <= Len(acked')
    BY <2>1, <2>2
  <2> QED BY <1>0, <1>2, <2>1, <2>3
<1>13. CASE Settle
  <2>1. drain = "settle" /\ drain' = "none" /\ UNCHANGED <<captured, acked, mark>>
    BY <1>13, ReadyStep DEF Settle, pendingVars
  <2>2. CASE flushing = "drain"
    <3>1. flushing' = "catalog" /\ flushed' = (outcome = "ok")
      BY <1>13, <2>2 DEF Settle
    <3>2. flushed' => outcome = "ok"
      BY <3>1
    <3>3. flushed' => mark' <= Len(acked')
      BY <2>1, <2>2, <3>2
    <3> QED BY <2>1, <3>1, <3>3
  <2>3. CASE flushing # "drain"
    <3>1. UNCHANGED <<flushing, flushed>>
      BY <1>13, <2>3 DEF Settle
    <3> QED BY <2>1, <2>3, <3>1
  <2> QED BY <2>2, <2>3
<1>14. CASE CloseSeal \/ CloseUndo
  BY <1>1, <1>14 DEF CloseSeal, CloseUndo, CloseEnd, CloseUnchanged, pendingVars, drainVars
<1>15. CASE UNCHANGED vars
  BY <1>1, <1>15 DEF vars, pendingVars, drainVars
<1> QED
  BY <1>4, <1>5, <1>6, <1>7, <1>8, <1>9, <1>10, <1>11, <1>12, <1>13, <1>14, <1>15
     DEF Next, DrainStep, CloseStep

(* Somebody hears how every drain ends.                                     *)
Heard == drain # "none" => watched \/ flushing = "drain" \/ closeAt = "drain"

LEMMA HeardStep ==
  ASSUME TypeOK, MicroInStep, DrainInStep, Heard, [Next]_vars
  PROVE  Heard'
<1> USE DEF Heard, flushVars, closeVars, drainVars
<1>1. CASE UNCHANGED <<drain, watched, flushing, closeAt>>
  BY <1>1
<1>2. ASSUME drain # "none", UNCHANGED <<watched, flushing, closeAt>> PROVE Heard'
  BY <1>2
<1>3. ASSUME NEW ids \in Inputs, Capture(ids) PROVE Heard'
  BY <1>1, <1>3 DEF Capture
<1>4. CASE Fire \/ UNCHANGED vars
  BY <1>1, <1>4 DEF Fire, vars
<1>5. CASE Background
  BY <1>5 DEF Background, Observed
<1>6. CASE Flush \/ CloseStart
  BY <1>6 DEF Flush, CloseStart
<1>7. CASE FlushReturn
  BY <1>7 DEF FlushReturn
<1>8. CASE Close
  BY <1>8 DEF Close, CloseUnchanged
<1>9. CASE Prepare \/ TooLarge \/ SendOk \/ SendRetry \/ SendFail
  BY <1>2, <1>9 DEF Prepare, TooLarge, SendOk, SendRetry, SendFail, DrainUnchanged
<1>10. CASE KeepBatch
  <2>1. drain = "built"
    BY <1>10, KeepBatchStep
  <2> QED BY <1>2, <1>10, <2>1 DEF KeepBatch, DrainUnchanged
<1>11. CASE Settle
  BY <1>11 DEF Settle
<1>12. CASE CloseLoop
  <2>1. closeAt = "drained"
    BY <1>12, ReadyStep DEF CloseLoop
  <2>2. UNCHANGED <<watched, flushing>> /\ (closeAt' = "drain" \/ drain' = drain)
    BY <1>12 DEF CloseLoop, CloseUnchanged
  <2> QED BY <2>1, <2>2
<1>13. CASE CloseSeal \/ CloseUndo
  BY <1>13 DEF CloseSeal, CloseUndo, CloseEnd, CloseUnchanged
<1> QED
  BY <1>3, <1>4, <1>5, <1>6, <1>7, <1>8, <1>9, <1>10, <1>11, <1>12, <1>13 DEF Next, DrainStep, CloseStep

(* What a close() has drained so far, with the drain it waits for, and what *)
(* is pending still, is at least what it found.  A drain that ended before  *)
(* the call does not count, and is settled before the close begins its own. *)
CloseCovered ==
  /\ closing <=> closeAt # "none"
  /\ ~(closing /\ closed)
  /\ drain = "none" => accepted = 0
  /\ closeAt \in {"start", "drain"} => owed <= tally + pendingCount + accepted
  /\ closeAt = "start" /\ Ahead(micro, "settle", "close") => owed <= tally + pendingCount
  /\ closeAt \in {"start", "drain"} /\ drain = "settle" /\ outcome = "ok" =>
       pendingCount = 0 \/ (closeAt = "start" /\ Ahead(micro, "settle", "close"))
  /\ (closeAt = "drained" /\ drained) \/ closeAt = "catalog" => owed <= tally /\ pendingCount = 0

LEMMA CloseCoveredStep ==
  ASSUME TypeOK, MicroInStep, DrainInStep, BatchSized, Accounting, TypeOK', MicroInStep',
         CloseCovered, [Next]_vars
  PROVE  CloseCovered'
<1> USE DEF CloseCovered
<1> DEFINE Started == Ahead(micro, "settle", "close")
<1>0. /\ {owed, tally, pendingCount, accepted} \subseteq Nat
      /\ {owed', tally', pendingCount', accepted'} \subseteq Nat
  BY DEF TypeOK, EventTypeOK, ControlTypeOK
<1>01. StartDrain => \/ UNCHANGED <<drain, accepted>> /\ drain # "none"
                     \/ /\ drain = "none" /\ accepted' = 0
                        /\ drain' = "settle" <=> pendingCount = 0
  BY StartDrainStep DEF drainVars
<1>02. /\ micro \in Seq(Tasks) /\ Unique(micro) /\ Tasks = {"settle", "keep", "background", "close", "loop"}
       /\ "settle" \in Range(micro) <=> drain = "settle"
       /\ "close" \in Range(micro) <=> closeAt = "start"
  BY DEF TypeOK, ControlTypeOK, MicroInStep, Tasks
(* Only a close() that begins comes after another task.                     *)
<1>03. \A s \in Seq(Tasks), x \in Tasks \ {"close"} :
         Ahead(Append(s, x), "settle", "close") <=> Ahead(s, "settle", "close")
  BY AppendTask
<1>04. \A t : Ready(t) => /\ Tail(micro) \in Seq(Tasks)
                          /\ Ahead(Tail(micro), "settle", "close") <=> Started /\ t # "settle"
                          /\ t = "settle" /\ closeAt = "start" => Started
                          /\ t = "close" => ~Started
  <2> SUFFICES ASSUME NEW t, Ready(t)
               PROVE  /\ Tail(micro) \in Seq(Tasks)
                      /\ Ahead(Tail(micro), "settle", "close") <=> Started /\ t # "settle"
                      /\ t = "settle" /\ closeAt = "start" => Started
                      /\ t = "close" => ~Started
    OBVIOUS
  <2>1. micro # <<>> /\ t = Head(micro)
    BY DEF Ready
  <2>2. Tail(micro) \in Seq(Tasks)
    BY <1>02, <2>1, TakeTask
  <2>3. Ahead(Tail(micro), "settle", "close") <=> Started /\ "settle" # Head(micro)
    BY <1>02, <2>1, TakeTask
  <2>4. "close" \in Range(micro) \ {"settle"} /\ Head(micro) = "settle" => Started
    BY <1>02, <2>1, TakeTask
  <2>5. Head(micro) = "close" => ~Started
    <3>1. ~Ahead(micro, "settle", Head(micro))
      BY <1>02, <2>1, TakeTask
    <3> QED BY <3>1
  <2> QED BY <1>02, <2>1, <2>2, <2>3, <2>4, <2>5
<1>05. \A s \in Seq(Tasks) : /\ s \o <<>> = s
                             /\ \A x \in Tasks : s \o <<x>> = Append(s, x)
  BY AppendTask
<1>06. Started => "settle" \in Range(micro) /\ "close" \in Range(micro)
  BY DEF Ahead, Range
<1>07. Started' <=> Ahead(micro', "settle", "close")
  BY DEF Started
<1> HIDE DEF Started
<1> USE DEF closeVars
<1>09. CloseCovered' <=>
         /\ closing' <=> closeAt' # "none"
         /\ ~(closing' /\ closed')
         /\ drain' = "none" => accepted' = 0
         /\ closeAt' \in {"start", "drain"} => owed' <= tally' + pendingCount' + accepted'
         /\ closeAt' = "start" /\ Started' => owed' <= tally' + pendingCount'
         /\ closeAt' \in {"start", "drain"} /\ drain' = "settle" /\ outcome' = "ok" =>
              pendingCount' = 0 \/ (closeAt' = "start" /\ Started')
         /\ (closeAt' = "drained" /\ drained') \/ closeAt' = "catalog" => owed' <= tally' /\ pendingCount' = 0
  BY DEF Started
(* Nothing is acknowledged, and no drain succeeds.                          *)
<1>1. ASSUME UNCHANGED <<closing, closed, closeAt, owed, tally, drained, pendingCount, accepted>>,
             Started' <=> Started,
             drain' = "none" => drain = "none",
             drain' = "settle" /\ outcome' = "ok" => (drain = "settle" /\ outcome = "ok") \/ pendingCount = 0
      PROVE  CloseCovered'
  BY <1>1, <1>09 DEF Started
<1>2. ASSUME NEW ids \in Inputs, Capture(ids) PROVE CloseCovered'
  <2>1. /\ closeAt = "none" /\ ~closed /\ UNCHANGED <<closing, closed, closeAt, drain, accepted>>
    BY <1>2 DEF Capture, Open, drainVars
  <2> QED BY <2>1
<1>3. CASE Fire
  <2>1. Started' <=> Started
    BY <1>02, <1>03, <1>07, <1>3 DEF Fire, WithBackground, Started
  <2> QED BY <1>1, <1>3, <2>1 DEF Fire, pendingVars, drainVars
<1>4. CASE Background
  <2>1. UNCHANGED <<closing, closed, closeAt, owed, tally, drained, pendingCount, outcome>>
    BY <1>4 DEF Background, pendingVars
  <2>2. Started' <=> Started
    <3>1. Ready("background") /\ micro' = Tail(micro) \o StartTask
      BY <1>4 DEF Background
    <3>2. micro' = Tail(micro) \/ micro' = Append(Tail(micro), "settle")
      BY <1>02, <1>04, <1>05, <3>1 DEF StartTask
    <3>3. /\ Tail(micro) \in Seq(Tasks)
          /\ Ahead(Tail(micro), "settle", "close") <=> Started
      BY <1>04, <3>1
    <3>4. Ahead(Append(Tail(micro), "settle"), "settle", "close") <=> Ahead(Tail(micro), "settle", "close")
      BY <1>02, <1>03, <3>3
    <3> QED BY <1>07, <3>2, <3>3, <3>4
  <2>3. StartDrain \/ UNCHANGED <<drain, accepted>>
    BY <1>4 DEF Background, drainVars
  <2> QED BY <1>01, <1>1, <2>1, <2>2, <2>3
<1>5. CASE Flush
  <2>1. closeAt = "none" /\ UNCHANGED <<closing, closed, closeAt>> /\ StartDrain
    BY <1>5 DEF Flush
  <2>2. drain' = "none" => accepted' = 0
    BY <1>01, <2>1
  <2> QED BY <2>1, <2>2
<1>6. CASE FlushReturn \/ SendRetry \/ UNCHANGED vars
  <2>1. /\ UNCHANGED <<closing, closed, closeAt, owed, tally, drained, pendingCount, accepted>>
        /\ UNCHANGED <<drain, outcome, micro>>
    BY <1>6 DEF FlushReturn, SendRetry, vars, pendingVars, drainVars, DrainUnchanged
  <2> QED BY <1>1, <2>1 DEF Started
<1>7. CASE Close
  <2>1. /\ closeAt = "none" /\ closeAt' = "start" /\ closing' = TRUE /\ ~closed /\ owed' = pendingCount
        /\ UNCHANGED <<closed, tally, drained, pendingCount, accepted, drain, outcome>>
        /\ micro' = Append(micro, "close")
    BY <1>7 DEF Close, CloseUnchanged, pendingVars, drainVars
  <2>2. "settle" \in Range(micro) => Started'
    BY <1>02, <1>07, <2>1, AppendTask
  <2>3. pendingCount <= tally + pendingCount /\ pendingCount <= tally + pendingCount + accepted
    BY <1>0
  <2> QED BY <1>02, <1>09, <2>1, <2>2, <2>3
<1>8. CASE Prepare \/ TooLarge \/ SendFail
  <2>1. UNCHANGED <<closing, closed, closeAt, owed, tally, drained, pendingCount, accepted>>
    BY <1>8 DEF Prepare, TooLarge, SendFail, Throw, DrainUnchanged
  <2>2. /\ micro' = Append(micro, "keep") \/ micro' = Append(micro, "settle")
        /\ drain' = "built" \/ (drain' = "settle" /\ outcome' = "err")
    BY <1>8 DEF Prepare, TooLarge, SendFail, Throw
  <2>3. Started' <=> Started
    BY <1>02, <1>03, <1>07, <2>2 DEF Started
  <2> QED BY <1>1, <2>1, <2>2, <2>3
<1>9. CASE KeepBatch
  <2>1. /\ UNCHANGED <<closing, closed, closeAt, owed, tally, drained, pendingCount, accepted>>
        /\ drain' = "send" /\ Ready("keep") /\ micro' = Tail(micro)
    BY <1>9 DEF KeepBatch, DrainUnchanged
  <2>2. Started' <=> Started
    BY <1>04, <1>07, <2>1
  <2> QED BY <1>1, <2>1, <2>2
<1>10. CASE SendOk
  <2> DEFINE n == Len(prepared.events)
  <2>1. /\ n \in 1..MaxBatch /\ pendingCount' = pendingCount - n
        /\ drain' \in {"settle", "prepare"}
        /\ drain' = "settle" <=> pendingCount' = 0
    BY <1>10, SendOkStep
  <2>2. /\ UNCHANGED <<closing, closed, closeAt, owed, tally, drained>> /\ accepted' = accepted + n
        /\ drain = "send"
    BY <1>10 DEF SendOk
  <2> HIDE DEF n
  <2>3. n \in Nat \ {0}
    BY <2>1, NodeSizeAssumption
  <2>4. ~Started
    BY <1>02, <1>06, <2>2
  <2>5. micro' = micro \/ micro' = Append(micro, "settle")
    BY <1>10 DEF SendOk
  <2>6. ~Started'
    BY <1>02, <1>03, <1>07, <2>4, <2>5 DEF Started
  <2>7. pendingCount # 0 /\ tally + pendingCount' + accepted' = tally + pendingCount + accepted
    BY <1>0, <2>1, <2>2, <2>3
  <2> QED BY <1>09, <2>1, <2>2, <2>6, <2>7
<1>11. CASE Settle
  <2>1. /\ drain = "settle" /\ drain' = "none" /\ accepted' = 0
        /\ UNCHANGED <<closing, closed, owed, pendingCount>>
    BY <1>11, ReadyStep DEF Settle, pendingVars
  <2>2. closeAt = "start" => owed <= tally + pendingCount
    BY <1>04, <1>11 DEF Settle, Started
  <2>3. CASE closeAt = "drain"
    <3>1. /\ closeAt' = "drained" /\ drained' = (outcome = "ok")
          /\ outcome = "ok" => tally' = tally + accepted
      BY <1>11, <2>3 DEF Settle, Tallied
    <3>2. outcome = "ok" => pendingCount = 0 /\ owed <= tally + accepted
      BY <1>0, <2>1, <2>3
    <3> QED BY <1>09, <2>1, <2>3, <3>1, <3>2
  <2>4. CASE closeAt # "drain"
    <3>1. UNCHANGED <<closeAt, drained, tally>>
      BY <1>11, <2>4 DEF Settle
    <3>2. tally + pendingCount = tally + pendingCount + 0
      BY <1>0
    <3> QED BY <1>09, <2>1, <2>2, <2>4, <3>1, <3>2
  <2> QED BY <2>3, <2>4
<1>12. CASE CloseStart
  <2>1. /\ closeAt = "start" /\ closeAt' = "drain" /\ StartDrain
        /\ UNCHANGED <<closing, closed, owed, tally, drained, pendingCount, outcome>>
    BY <1>12, ReadyStep DEF CloseStart, CloseUnchanged, pendingVars
  <2>2. ~Started
    BY <1>04, <1>12 DEF CloseStart
  <2>3. accepted' = accepted \/ (drain = "none" /\ accepted' = 0)
    BY <1>01, <2>1
  <2>4. accepted' = accepted
    BY <2>3
  <2>5. drain' = "settle" /\ outcome = "ok" => pendingCount = 0
    BY <1>01, <2>1, <2>2 DEF Started
  <2>6. drain' = "none" => accepted' = 0
    BY <1>01, <2>1, <2>4
  <2> QED BY <1>09, <2>1, <2>4, <2>5, <2>6
<1>13. CASE CloseLoop
  <2>1. /\ closeAt = "drained"
        /\ UNCHANGED <<closing, closed, owed, tally, pendingCount>>
    BY <1>13, ReadyStep DEF CloseLoop, CloseUnchanged, pendingVars
  <2>2. drained => pendingCount = 0 /\ owed <= tally
    BY <2>1
  <2>3. /\ closeAt' \in {"undo", "catalog"}
        /\ closeAt' = "catalog" => drained
        /\ UNCHANGED <<drain, accepted>>
    <3>1. ~(~GivesUp /\ pendingCount > 0)
      BY <1>0, <2>2 DEF GivesUp
    <3> QED BY <1>13, <3>1 DEF CloseLoop, GivesUp, drainVars
  <2> QED BY <1>09, <2>1, <2>2, <2>3
<1>14. CASE CloseSeal \/ CloseUndo
  <2>1. closeAt' = "none" /\ closing' = FALSE /\ UNCHANGED <<drain, accepted>>
    BY <1>14 DEF CloseSeal, CloseUndo, CloseEnd, drainVars
  <2> QED BY <1>09, <2>1
<1> QED
  BY <1>2, <1>3, <1>4, <1>5, <1>6, <1>7, <1>8, <1>9, <1>10, <1>11, <1>12, <1>13, <1>14
     DEF Next, DrainStep, CloseStep

-------------------------------------------------------------------------------
(* The second group of theorems                                             *)

(* The whole invariant: each part is inductive given the parts before it.   *)
SInv ==
  /\ IInv
  /\ Numbered /\ KeysFresh /\ SentOnce /\ ExactlyOnce
  /\ MarksCovered /\ Heard /\ CloseCovered

LEMMA InitSInv == Init => SInv
<1> SUFFICES ASSUME Init PROVE SInv
  OBVIOUS
<1>1. IInv
  BY InitIInv
<1>2. /\ captured = <<>> /\ acked = <<>> /\ server = {} /\ prepared = NoBatch /\ built = NoBatch
      /\ drain = "none" /\ flushing = "none" /\ closeAt = "none" /\ ~closing /\ accepted = 0 /\ mark = 0
  BY DEF Init
<1>3. Numbered /\ ExactlyOnce
  BY <1>2 DEF Numbered, ExactlyOnce
<1>4. KeysFresh /\ SentOnce /\ Heard
  BY <1>2 DEF KeysFresh, SentOnce, Heard
<1>5. MarksCovered
  BY <1>2 DEF MarksCovered
<1>6. CloseCovered
  BY <1>2 DEF CloseCovered
<1> QED BY <1>1, <1>3, <1>4, <1>5, <1>6 DEF SInv

LEMMA NextSInv == SInv /\ [Next]_vars => SInv'
<1> SUFFICES ASSUME SInv, [Next]_vars PROVE SInv'
  OBVIOUS
<1>1. IInv' /\ TypeOK' /\ MicroInStep' /\ Conservation' /\ Accounting'
  BY NextIInv DEF SInv, IInv
<1> USE DEF SInv, IInv
<1>2. Numbered' /\ KeysFresh'
  BY NumberedStep, KeysFreshStep
<1>3. SentOnce' /\ ExactlyOnce'
  BY SentOnceStep, ExactlyOnceStep
<1>4. MarksCovered' /\ Heard' /\ CloseCovered'
  BY <1>1, MarksCoveredStep, HeardStep, CloseCoveredStep
<1> QED BY <1>1, <1>2, <1>3, <1>4

LEMMA StrongInductive == Safety => []SInv
<1> QED BY InitSInv, NextSInv, PTL DEF Safety

(* At a service that drops repeated idempotency keys every event counts     *)
(* once, whatever is retried or fails, and no event is acknowledged that    *)
(* the service does not have (#send, #drain).                               *)
THEOREM ReceivedOnce == Safety => []ExactlyOnce
<1>1. SInv => ExactlyOnce BY DEF SInv
<1> QED BY <1>1, StrongInductive, PTL

(* A close() reports at least what it found pending, and a flush() that     *)
(* begins its drain returns after all that was captured before it is        *)
(* acknowledged (flush, close).                                             *)
THEOREM CallsSpeakForTheirEvents == Safety => []CallsCover
<1>1. SInv => CallsCover
  <2> SUFFICES ASSUME SInv PROVE CloseReports /\ FlushCovers
    BY DEF CallsCover
  <2>1. owed \in Nat /\ tally \in Nat /\ mark \in Nat /\ Len(acked) \in Nat
    BY DEF SInv, IInv, TypeOK, EventTypeOK, ControlTypeOK
  <2>2. CloseReports
    BY <2>1 DEF SInv, CloseCovered, CloseReports
  <2>3. FlushCovers
    BY <2>1 DEF SInv, MarksCovered, FlushCovers
  <2> QED BY <2>2, <2>3
<1> QED BY <1>1, StrongInductive, PTL

(* Whichever way a drain fails, a flush(), a close() or onError hears of it *)
(* (#startDrain, #observeBackgroundDrain).                                  *)
THEOREM FailuresAreHeard == Safety => NoSilentFailure
<1>1. SInv => [drain = "settle" /\ outcome = "err" /\ drain' = "none"
               => watched \/ flushing = "drain" \/ closeAt = "drain"]_vars
  BY DEF SInv, Heard
<1> QED BY <1>1, StrongInductive, PTL DEF NoSilentFailure

-------------------------------------------------------------------------------
(* The client implements DeliveryQueue                                      *)

(* A sequence is a prefix of what is appended to it.                        *)
LEMMA PrefixOfExtended ==
  \A s, r \in Seq(Event) :
    Queue!IsPrefix(s, s \o r) /\ Len(s \o r) = Len(s) + Len(r) /\ Len(s) \in Nat /\ Len(r) \in Nat
<1> SUFFICES ASSUME NEW s \in Seq(Event), NEW r \in Seq(Event)
             PROVE  /\ Queue!IsPrefix(s, s \o r)
                    /\ Len(s \o r) = Len(s) + Len(r) /\ Len(s) \in Nat /\ Len(r) \in Nat
  OBVIOUS
<1> DEFINE p == SubSeq(s \o r, 1, Len(s))
<1>1. s \o r \in Seq(Event) /\ Len(s \o r) = Len(s) + Len(r) /\ Len(s) \in Nat /\ Len(r) \in Nat
  OBVIOUS
<1>2. p \in Seq(Event) /\ Len(p) = Len(s)
  BY <1>1
<1>3. ASSUME NEW i \in 1..Len(s) PROVE p[i] = s[i]
  BY <1>1
<1>4. p = s
  BY <1>2, <1>3, SeqEqual
<1> QED BY <1>1, <1>4 DEF Queue!IsPrefix

LEMMA CaptureAccepts ==
  ASSUME SInv, SInv', NEW ids \in Inputs, Capture(ids)
  PROVE  Queue!Accept
<1> USE DEF SInv, IInv, TypeOK, EventTypeOK
<1>1. /\ captured \in Seq(Event) /\ NewEvents(ids) \in Seq(Event) /\ acked \in Seq(Event)
      /\ captured' = captured \o NewEvents(ids) /\ acked' = acked
  BY CaptureStep
<1>2. Len(NewEvents(ids)) \in Nat \ {0}
  BY NewEventsType
<1>3. Len(captured') > Len(captured) /\ Queue!IsPrefix(captured, captured')
  BY <1>1, <1>2, PrefixOfExtended
<1>4. Len(captured') - Len(acked) <= MaxQueue
  <2>1. Unacked' \in Seq(Event)
    <3>1. Unacked \in Seq(Event) /\ Unacked' = Unacked \o NewEvents(ids)
      BY UnackedParts, CaptureStep
    <3> QED BY <1>1, <3>1, EventConcat
  <2>2. captured' = acked \o Unacked' /\ Len(Unacked') <= MaxQueue
    BY <1>1 DEF Conservation, Accounting
  <2>3. Len(captured') = Len(acked) + Len(Unacked') /\ Len(acked) \in Nat /\ Len(Unacked') \in Nat
    BY <1>1, <2>1, <2>2, PrefixOfExtended
  <2> QED BY <2>2, <2>3, NodeSizeAssumption
<1>5. ~closed /\ UNCHANGED closed
  BY DEF Capture, Open, closeVars
<1> QED BY <1>1, <1>3, <1>4, <1>5 DEF Queue!Accept

LEMMA SendOkDelivers ==
  ASSUME SInv, SendOk
  PROVE  Queue!Deliver
<1> USE DEF SInv, IInv
<1>1. /\ prepared.events \in Seq(Event) /\ queue \in Seq(Event) /\ acked \in Seq(Event)
      /\ acked' = acked \o prepared.events /\ UNCHANGED captured
      /\ Unacked = prepared.events \o queue /\ Len(prepared.events) \in 1..MaxBatch
  BY UnackedParts, SendOkStep
<1>2. acked' \in Seq(Event)
  BY <1>1, EventConcat
<1>3. captured = acked' \o queue
  BY <1>1, EventAssoc DEF Conservation
<1>4. Queue!IsPrefix(acked, acked') /\ Queue!IsPrefix(acked', captured)
  BY <1>1, <1>2, <1>3, PrefixOfExtended
<1>5. Len(acked') \in Len(acked) + 1 .. Len(acked) + MaxBatch
  <2>1. Len(acked') = Len(acked) + Len(prepared.events) /\ Len(acked) \in Nat
    BY <1>1, PrefixOfExtended
  <2> QED BY <1>1, <2>1, NodeSizeAssumption
<1>6. UNCHANGED closed
  BY DEF SendOk, closeVars
<1> QED BY <1>1, <1>4, <1>5, <1>6 DEF Queue!Deliver

LEMMA SealSeals ==
  ASSUME SInv, CloseSeal
  PROVE  Queue!Seal
<1> USE DEF SInv, IInv
<1>1. ~closed /\ pendingCount = 0
  BY DEF CloseSeal, CloseCovered
<1>2. acked = captured
  BY <1>1, AckedCaptured
<1> QED BY <1>1, <1>2 DEF CloseSeal, CloseEnd, CloseUnchanged, pendingVars, Queue!Seal

(* No other step changes what is accepted, delivered or sealed.             *)
LEMMA QueueStep ==
  ASSUME SInv, SInv', [Next]_vars
  PROVE  [Queue!Next]_(Queue!vars)
<1> USE DEF pendingVars, closeVars, Queue!vars
<1>1. CASE UNCHANGED <<captured, acked, closed>>
  BY <1>1
<1>2. ASSUME NEW ids \in Inputs, Capture(ids) PROVE Queue!Next
  BY <1>2, CaptureAccepts DEF Queue!Next
<1>3. CASE SendOk
  BY <1>3, SendOkDelivers DEF Queue!Next
<1>4. CASE CloseSeal
  BY <1>4, SealSeals DEF Queue!Next
<1>5. CASE Fire \/ Background \/ Flush \/ FlushReturn \/ Close
  BY <1>1, <1>5 DEF Fire, Background, Flush, FlushReturn, Close, CloseUnchanged
<1>6. CASE Prepare \/ TooLarge \/ KeepBatch \/ SendRetry \/ SendFail \/ Settle
  BY <1>1, <1>6 DEF Prepare, TooLarge, KeepBatch, SendRetry, SendFail, Settle, DrainUnchanged
<1>7. CASE CloseStart \/ CloseLoop \/ CloseUndo
  BY <1>1, <1>7 DEF CloseStart, CloseLoop, CloseUndo, CloseEnd, CloseUnchanged
<1>8. CASE UNCHANGED vars
  BY <1>1, <1>8 DEF vars
<1> QED
  BY <1>2, <1>3, <1>4, <1>5, <1>6, <1>7, <1>8 DEF Next, DrainStep, CloseStep

(* Whatever the order of the callbacks, microtasks, batches and retries,    *)
(* the client only ever does what the bounded FIFO queue of DeliveryQueue   *)
(* does: events are accepted up to maxQueueSize, delivered in order and at  *)
(* most MaxBatch at once, and nothing is sealed before it is empty.         *)
THEOREM ClientIsAQueue == Safety => ImplementsQueue
<1>1. Init => Queue!Init
  BY DEF Init, Queue!Init
<1>2. SInv /\ SInv' /\ [Next]_vars => [Queue!Next]_(Queue!vars)
  BY QueueStep
<1> QED BY <1>1, <1>2, StrongInductive, PTL DEF Safety, ImplementsQueue, Queue!Spec

===============================================================================
