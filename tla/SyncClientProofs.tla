--------------------------- MODULE SyncClientProofs ---------------------------
(***************************************************************************)
(* Theorems about the synchronous client, for any number of threads and     *)
(* events and any values of the limits, also when callers are interrupted.  *)
(***************************************************************************)
EXTENDS SyncClientInterrupt, TLAPS, SequenceTheorems

-------------------------------------------------------------------------------
(* Sequences                                                                *)

(* A prefix of a sequence is still a prefix after something is appended.    *)
LEMMA PrefixOfAppended ==
  ASSUME NEW S, NEW s \in Seq(S), NEW r \in Seq(S), NEW n \in 0..Len(s)
  PROVE  Prefix(s \o r, n) = Prefix(s, n)
<1>1. Prefix(s, n) \in Seq(S) /\ Len(Prefix(s, n)) = n
  BY DEF Prefix
<1>2. s \o r \in Seq(S) /\ Len(s \o r) = Len(s) + Len(r)
  OBVIOUS
<1>3. Prefix(s \o r, n) \in Seq(S) /\ Len(Prefix(s \o r, n)) = n
  BY <1>2 DEF Prefix
<1>4. ASSUME NEW i \in 1..n PROVE Prefix(s \o r, n)[i] = Prefix(s, n)[i]
  BY <1>2 DEF Prefix
<1> QED BY <1>1, <1>3, <1>4, SeqEqual

(* A sequence is one of its prefixes followed by what the prefix leaves.    *)
LEMMA SplitAtPrefix ==
  ASSUME NEW S, NEW s \in Seq(S), NEW n \in 0..Len(s)
  PROVE  /\ Prefix(s, n) \in Seq(S) /\ Len(Prefix(s, n)) = n
         /\ SubSeq(s, n + 1, Len(s)) \in Seq(S)
         /\ s = Prefix(s, n) \o SubSeq(s, n + 1, Len(s))
<1> DEFINE p == Prefix(s, n)
           q == SubSeq(s, n + 1, Len(s))
<1>1. p \in Seq(S) /\ Len(p) = n /\ \A i \in 1..n : p[i] = s[i]
  BY DEF Prefix
<1>2. q \in Seq(S) /\ Len(q) = Len(s) - n /\ \A i \in 1..Len(s) - n : q[i] = s[n + i]
  OBVIOUS
<1>3. p \o q \in Seq(S) /\ Len(p \o q) = Len(s)
  BY <1>1, <1>2
<1>4. ASSUME NEW i \in 1..Len(s) PROVE (p \o q)[i] = s[i]
  <2>1. CASE i <= n BY <2>1, <1>1, <1>2
  <2>2. CASE i > n
    <3>1. i - n \in 1..Len(s) - n /\ n + (i - n) = i BY <2>2
    <3>2. (p \o q)[i] = q[i - n] BY <2>2, <1>1, <1>2
    <3> QED BY <3>1, <3>2, <1>2
  <2>3. i <= n \/ i > n OBVIOUS
  <2> QED BY <2>1, <2>2, <2>3
<1>5. s = p \o q
  BY <1>3, <1>4, SeqEqual
<1> QED BY <1>1, <1>2, <1>5

(* Joining lists of events is associative.                                  *)
LEMMA EventAssoc ==
  \A s, r, q \in Seq(Event) : (s \o r) \o q = s \o (r \o q)
<1> SUFFICES ASSUME NEW s \in Seq(Event), NEW r \in Seq(Event), NEW q \in Seq(Event)
             PROVE  (s \o r) \o q = s \o (r \o q)
  OBVIOUS
<1> QED BY ConcatAssociative

(* Joining lists of events.                                                 *)
LEMMA EventConcat ==
  \A s, r, q \in Seq(Event) :
    /\ s \o r \in Seq(Event) /\ Len(s \o r) = Len(s) + Len(r)
    /\ (s \o r) \o q = s \o (r \o q)
    /\ <<>> \o s = s /\ s \o <<>> = s
<1> SUFFICES ASSUME NEW s \in Seq(Event), NEW r \in Seq(Event), NEW q \in Seq(Event)
             PROVE  /\ s \o r \in Seq(Event) /\ Len(s \o r) = Len(s) + Len(r)
                    /\ (s \o r) \o q = s \o (r \o q)
                    /\ <<>> \o s = s /\ s \o <<>> = s
  OBVIOUS
<1>1. (s \o r) \o q = s \o (r \o q)
  BY ConcatAssociative
<1>2. <<>> \o s = s /\ s \o <<>> = s
  BY ConcatEmptySeq
<1> QED BY <1>1, <1>2

(* The ids of two lists of events.                                          *)
LEMMA IdsOfConcat ==
  ASSUME NEW s \in Seq(Event), NEW r \in Seq(Event)
  PROVE  EventIds(s \o r) = EventIds(s) \cup EventIds(r)
<1>1. DOMAIN s = 1..Len(s) /\ DOMAIN r = 1..Len(r) /\ DOMAIN (s \o r) = 1..(Len(s) + Len(r))
  OBVIOUS
<1>2. \A i \in 1..Len(s) : (s \o r)[i] = s[i]
  OBVIOUS
<1>3. \A i \in 1..Len(r) : (s \o r)[Len(s) + i] = r[i]
  OBVIOUS
<1>4. EventIds(s \o r) \subseteq EventIds(s) \cup EventIds(r)
  <2> SUFFICES ASSUME NEW i \in 1..(Len(s) + Len(r))
               PROVE  (s \o r)[i].id \in EventIds(s) \cup EventIds(r)
    BY <1>1 DEF EventIds
  <2>1. CASE i <= Len(s) BY <2>1, <1>1, <1>2 DEF EventIds
  <2>2. CASE i > Len(s)
    <3>1. i - Len(s) \in 1..Len(r) /\ (s \o r)[i] = r[i - Len(s)]
      BY <2>2
    <3> QED BY <3>1, <1>1 DEF EventIds
  <2> QED BY <2>1, <2>2
<1>5. EventIds(s) \subseteq EventIds(s \o r)
  BY <1>1, <1>2 DEF EventIds
<1>6. EventIds(r) \subseteq EventIds(s \o r)
  <2> SUFFICES ASSUME NEW i \in 1..Len(r) PROVE r[i].id \in EventIds(s \o r)
    BY <1>1 DEF EventIds
  <2>1. Len(s) + i \in DOMAIN (s \o r) BY <1>1
  <2> QED BY <2>1, <1>3 DEF EventIds
<1> QED BY <1>4, <1>5, <1>6

-------------------------------------------------------------------------------
(* The inductive invariant                                                  *)

(* A batch that is built has a key, so committing it is never mistaken for  *)
(* having no batch.                                                         *)
CommitKeyed == \A t \in Threads : pc[t] = "d_commit" => batch[t].key # 0

(* A thread that drains leads the open cycle.  After an interrupt the cycle *)
(* is open and nobody drains, so SingleFlight asks too much.                *)
Leads == \A t \in Threads : pc[t] \in DrainPcs => drainCycle = t

IInv == TypeOK /\ Leads /\ BatchInStep /\ CommitKeyed /\ Conservation /\ Accounting

(* The steps of both specifications, with and without interrupts, as far as *)
(* the client's own variables go.                                           *)
ClientNext == Next \/ \E t \in Interruptible : Interrupt(t)
ClientSafety == Init /\ [][ClientNext]_vars

(* Only three actions touch the events: the others leave every variable     *)
(* that describes them alone.                                               *)
LEMMA EventSteps ==
  ASSUME [Next]_vars
  PROVE  \/ \E ids \in Inputs : Capture(ids)
         \/ \E t \in Threads : CommitBatch(t) \/ Acknowledge(t)
         \/ UNCHANGED <<queue, prepared, pendingIds, pendingCount, captured, acked>>
<1> USE DEF pendingVars
<1>1. CASE UNCHANGED vars
  BY <1>1 DEF vars
<1>2. CASE \E t \in Threads : Call(t)
  BY <1>2 DEF Call, Flush, Close, JoinClose
<1>3. CASE \E t \in Threads : DrainStep(t)
  BY <1>3 DEF DrainStep, DrainCheck, PrepareBatch, SendOk, SendRetry, SendFail,
              SendUnchanged, FinishDrain, AwaitDrain
<1>4. CASE \E t \in Threads : CloseStep(t)
  BY <1>4 DEF CloseStep, CloseLoop, CloseClient, CloseClientFails,
              ClientUnchanged, CloseSeal, CloseUndo, AwaitClose
<1>5. CASE WorkerStep \/ Tick
  BY <1>5 DEF WorkerStep, WorkerStop, WorkerIdle, WorkerDrain, WorkerSleep, WorkerTimeout,
              WorkerCallback, WorkerUnchanged, Tick
<1>6. CASE Terminated
  BY <1>6 DEF Terminated, vars
<1> QED BY <1>1, <1>2, <1>3, <1>4, <1>5, <1>6 DEF Next

(* What capture() appends.                                                  *)
LEMMA NewEventsType ==
  ASSUME NEW ids \in Inputs, captured \in Seq(Event)
  PROVE  /\ ids \in Seq(Ids) /\ Len(ids) \in Nat \ {0} /\ DOMAIN ids = 1..Len(ids)
         /\ NewEvents(ids) \in Seq(Event) /\ Len(NewEvents(ids)) = Len(ids)
         /\ \A i \in 1..Len(ids) : NewEvents(ids)[i].id = ids[i]
         /\ EventIds(NewEvents(ids)) = {ids[i] : i \in DOMAIN ids}
<1>1. PICK k \in 1..MaxCapture : ids \in [1..k -> Ids]
  BY DEF Inputs
<1>2. k \in Nat \ {0} BY SizeAssumption
<1>3. ids \in Seq(Ids) /\ Len(ids) = k /\ DOMAIN ids = 1..k
  BY <1>1, <1>2
<1>4. NewEvents(ids) \in [1..k -> Event]
  BY <1>1, <1>2, <1>3 DEF NewEvents, Event
<1>5. NewEvents(ids) \in Seq(Event) /\ Len(NewEvents(ids)) = k
  BY <1>2, <1>4
<1>6. \A i \in 1..k : NewEvents(ids)[i].id = ids[i]
  BY <1>3 DEF NewEvents
<1>7. EventIds(NewEvents(ids)) = {ids[i] : i \in DOMAIN ids}
  BY <1>3, <1>4, <1>6 DEF EventIds
<1> QED BY <1>2, <1>3, <1>5, <1>6, <1>7

-------------------------------------------------------------------------------
(* Type correctness                                                         *)

LEMMA InitTypeOK == Init => TypeOK
<1> SUFFICES ASSUME Init PROVE TypeOK
  OBVIOUS
<1> USE DEF Init
<1>1. EventTypeOK
  BY DEF EventTypeOK, NoBatch, Batch
<1>2. ControlTypeOK
  BY DEF ControlTypeOK
<1>3. ThreadTypeOK
  BY DEF ThreadTypeOK, Home, Pcs
<1>4. CountTypeOK
  BY DEF CountTypeOK
<1> QED BY <1>1, <1>2, <1>3, <1>4 DEF TypeOK

LEMMA ControlTypeStep ==
  ASSUME TypeOK, [Next]_vars
  PROVE  ControlTypeOK'
<1> USE DEF TypeOK, ControlTypeOK, timerVars, closeVars, waitVars, NotifyAll
<1>1. CASE UNCHANGED vars
  BY <1>1 DEF vars
<1>2. ASSUME NEW ids \in Inputs, Capture(ids) PROVE ControlTypeOK'
  BY <1>2 DEF Capture, DeadlineAfterCapture
<1>3. ASSUME NEW t \in Threads, Call(t) PROVE ControlTypeOK'
  BY <1>3 DEF Call, Flush, BeginDrain, Close, JoinClose
<1>4. ASSUME NEW t \in Threads, DrainCheck(t) \/ PrepareBatch(t) \/ CommitBatch(t) \/ Acknowledge(t)
      PROVE  ControlTypeOK'
  BY <1>4 DEF DrainCheck, PrepareBatch, CommitBatch, Acknowledge
<1>5. ASSUME NEW t \in Threads, SendOk(t) \/ SendRetry(t) \/ SendFail(t) PROVE ControlTypeOK'
  BY <1>5 DEF SendOk, SendRetry, SendFail, SendUnchanged
<1>6. ASSUME NEW t \in Threads, FinishDrain(t) \/ AwaitDrain(t) PROVE ControlTypeOK'
  BY <1>6 DEF FinishDrain, AwaitDrain
<1>7. ASSUME NEW t \in Threads, CloseStep(t) PROVE ControlTypeOK'
  BY <1>7, OptionAssumption DEF CloseStep, CloseLoop, BeginDrain, CloseClient, CloseClientFails,
                     ClientUnchanged, CloseSeal, CloseUndo,
                                EndCloseCycle, AwaitClose
<1>8. CASE WorkerStep \/ Tick
  BY <1>8 DEF WorkerStep, WorkerStop, WorkerIdle, WorkerDrain, WorkerSleep, WorkerTimeout, WorkerWait,
              WorkerCallback, WorkerUnchanged, BeginDrain, Tick, Threads
<1> QED
  BY <1>1, <1>2, <1>3, <1>4, <1>5, <1>6, <1>7, <1>8 DEF Next, DrainStep, Terminated

LEMMA AfterDrainType == ASSUME NEW t, NEW leader PROVE AfterDrain(t, leader) \in Pcs \ DrainPcs
  BY DEF AfterDrain, Home, Pcs, ClosePcs, DrainPcs

LEMMA ThreadTypeStep ==
  ASSUME TypeOK, [Next]_vars
  PROVE  ThreadTypeOK'
<1> USE DEF TypeOK, ThreadTypeOK
<1>1. CASE UNCHANGED vars
  BY <1>1 DEF vars, callVars
<1>2. ASSUME NEW ids \in Inputs, Capture(ids) PROVE ThreadTypeOK'
  BY <1>2 DEF Capture, callVars
<1>3. ASSUME NEW t \in Threads, Call(t) PROVE ThreadTypeOK'
  BY <1>3 DEF Call, Flush, BeginDrain, Close, JoinClose, Enter, Pcs, DrainPcs, ClosePcs
<1>4. ASSUME NEW t \in Threads, DrainCheck(t) \/ PrepareBatch(t) \/ CommitBatch(t) \/ Acknowledge(t)
      PROVE  ThreadTypeOK'
  BY <1>4 DEF DrainCheck, PrepareBatch, CommitBatch, Acknowledge, callVars, Pcs, DrainPcs
<1>5. ASSUME NEW t \in Threads, SendOk(t) \/ SendRetry(t) \/ SendFail(t) PROVE ThreadTypeOK'
  BY <1>5 DEF SendOk, SendRetry, SendFail, SendUnchanged, callVars, Pcs, DrainPcs
<1>6. ASSUME NEW t \in Threads, FinishDrain(t) PROVE ThreadTypeOK'
  <2>1. pc' \in [Threads -> Pcs]
    BY <1>6, AfterDrainType DEF FinishDrain
  <2>2. call' \in [Threads -> {"none", "flush", "close"}]
    BY <1>6 DEF FinishDrain, LeaveDrain, Return, callVars
  <2>3. cyc' \in [Threads -> {"open", "ok", "err"}]
    BY <1>6 DEF FinishDrain
  <2> QED BY <2>1, <2>2, <2>3
<1>10. ASSUME NEW t \in Threads, AwaitDrain(t) PROVE ThreadTypeOK'
  <2>1. pc' \in [Threads -> Pcs]
    <3>1. AfterDrain(t, FALSE) \in Pcs
      BY AfterDrainType
    <3> QED BY <1>10, <3>1 DEF AwaitDrain
  <2>2. call' \in [Threads -> {"none", "flush", "close"}]
    BY <1>10 DEF AwaitDrain, LeaveDrain, Return, callVars
  <2>3. cyc' \in [Threads -> {"open", "ok", "err"}]
    BY <1>10 DEF AwaitDrain
  <2> QED BY <2>1, <2>2, <2>3
<1>7. ASSUME NEW t \in Threads, CloseLoop(t) \/ CloseClient(t) \/ CloseClientFails(t)
                              \/ AwaitClose(t) PROVE ThreadTypeOK'
  BY <1>7 DEF CloseLoop, BeginDrain, CloseClient, CloseClientFails, ClientUnchanged,
              AwaitClose, Return, Home, callVars, Pcs, DrainPcs, ClosePcs
<1>8. ASSUME NEW t \in Threads, CloseSeal(t) \/ CloseUndo(t) PROVE ThreadTypeOK'
  BY <1>8 DEF CloseSeal, CloseUndo, Resumed, EndCloseCycle, Return, Home, Pcs
<1>9. CASE WorkerStep \/ Tick
  BY <1>9 DEF WorkerStep, WorkerStop, WorkerIdle, WorkerDrain, WorkerSleep, WorkerTimeout, WorkerWait,
              WorkerCallback, WorkerUnchanged, BeginDrain, Tick, Threads, callVars, Pcs, DrainPcs
<1> QED
  BY <1>1, <1>2, <1>3, <1>4, <1>5, <1>6, <1>7, <1>8, <1>9, <1>10
     DEF Next, DrainStep, CloseStep, Terminated

LEMMA CountTypeStep ==
  ASSUME TypeOK, [Next]_vars
  PROVE  CountTypeOK'
<1> USE DEF TypeOK, CountTypeOK
<1>1. CASE UNCHANGED vars
  BY <1>1 DEF vars, callVars, localVars
<1>2. ASSUME NEW ids \in Inputs, Capture(ids) PROVE CountTypeOK'
  BY <1>2 DEF Capture, callVars, localVars
<1>3. ASSUME NEW t \in Threads, Call(t) PROVE CountTypeOK'
  <2>1. Len(captured) \in Nat /\ pendingCount \in Nat
    BY DEF EventTypeOK
  <2> QED BY <1>3, <2>1 DEF Call, Flush, BeginDrain, Close, JoinClose, Enter, localVars
<1>4. ASSUME NEW t \in Threads, DrainCheck(t) \/ PrepareBatch(t) \/ CommitBatch(t)
      PROVE  CountTypeOK'
  BY <1>4 DEF DrainCheck, PrepareBatch, CommitBatch, callVars
<1>5. ASSUME NEW t \in Threads, SendOk(t) \/ SendRetry(t) \/ SendFail(t) PROVE CountTypeOK'
  <2>1. attempt' \in [Threads -> Nat]
    <3>1. 0 \in Nat /\ attempt[t] + 1 \in Nat
      OBVIOUS
    <3>2. attempt' = [attempt EXCEPT ![t] = 0] \/ attempt' = [attempt EXCEPT ![t] = attempt[t] + 1]
      BY <1>5 DEF SendOk, SendRetry, SendFail
    <3> QED BY <3>1, <3>2
  <2> QED BY <1>5, <2>1 DEF SendOk, SendRetry, SendFail, SendUnchanged, callVars
<1>6. ASSUME NEW t \in Threads, Acknowledge(t) PROVE CountTypeOK'
  <2>1. Len(batch[t].events) \in Nat
    BY DEF EventTypeOK, Batch
  <2>2. accepted' \in [Threads -> Nat]
    <3>1. accepted[t] + Len(batch[t].events) \in Nat
      BY <2>1
    <3>2. \/ accepted' = [accepted EXCEPT ![t] = accepted[t] + Len(batch[t].events)]
          \/ accepted' = accepted
      BY <1>6 DEF Acknowledge
    <3> QED BY <3>1, <3>2
  <2> QED BY <1>6, <2>2 DEF Acknowledge, callVars
<1>7. ASSUME NEW t \in Threads, FinishDrain(t) PROVE CountTypeOK'
  <2>1. accepted' \in [Threads -> Nat] /\ tally' \in [Threads -> Nat]
    BY <1>7 DEF FinishDrain
  <2>2. mark' \in [Threads -> Nat] /\ owed' \in [Threads -> Nat] /\ attempt' = attempt
    BY <1>7 DEF FinishDrain, LeaveDrain, Return, callVars
  <2> QED BY <2>1, <2>2
<1>8. ASSUME NEW t \in Threads, AwaitDrain(t) \/ AwaitClose(t) PROVE CountTypeOK'
  <2>1. /\ mark' = [mark EXCEPT ![t] = 0] \/ mark' = mark
        /\ owed' = [owed EXCEPT ![t] = 0] \/ owed' = owed
    BY <1>8 DEF AwaitDrain, AwaitClose, LeaveDrain, Return, callVars
  <2>2. UNCHANGED <<attempt, accepted, tally>>
    BY <1>8 DEF AwaitDrain, AwaitClose, localVars
  <2> QED BY <2>1, <2>2
<1>9. ASSUME NEW t \in Threads, CloseLoop(t) \/ CloseClient(t) \/ CloseClientFails(t) PROVE CountTypeOK'
  BY <1>9 DEF CloseLoop, BeginDrain, CloseClient, CloseClientFails, ClientUnchanged, callVars, localVars
<1>10. ASSUME NEW t \in Threads, CloseSeal(t) \/ CloseUndo(t) PROVE CountTypeOK'
  BY <1>10 DEF CloseSeal, CloseUndo, EndCloseCycle, Return, localVars
<1>11. CASE WorkerStep \/ Tick
  BY <1>11 DEF WorkerStep, WorkerStop, WorkerIdle, WorkerDrain, WorkerSleep, WorkerTimeout,
               WorkerCallback, WorkerUnchanged, Tick, callVars, localVars
<1> QED
  BY <1>1, <1>2, <1>3, <1>4, <1>5, <1>6, <1>7, <1>8, <1>9, <1>10, <1>11
     DEF Next, DrainStep, CloseStep, Terminated

LEMMA EventTypeStep ==
  ASSUME TypeOK, BatchInStep, Accounting, [Next]_vars
  PROVE  EventTypeOK'
<1> USE DEF TypeOK, EventTypeOK, pendingVars
<1>0. NoBatch \in Batch /\ \A t \in Threads : batch[t].events \in Seq(Event)
  BY DEF NoBatch, Batch
<1>1. CASE UNCHANGED vars
  BY <1>1 DEF vars, localVars
<1>2. ASSUME NEW ids \in Inputs, Capture(ids) PROVE EventTypeOK'
  <2>1. /\ queue \o NewEvents(ids) \in Seq(Event) /\ captured \o NewEvents(ids) \in Seq(Event)
        /\ pendingIds \cup {ids[i] : i \in DOMAIN ids} \subseteq Ids
        /\ pendingCount + Len(ids) \in Nat
    BY NewEventsType
  <2> QED BY <1>2, <2>1 DEF Capture, localVars
<1>3. ASSUME NEW t \in Threads, Call(t) PROVE EventTypeOK'
  BY <1>3 DEF Call, Flush, Close, JoinClose, localVars
<1>4. ASSUME NEW t \in Threads, DrainCheck(t) PROVE EventTypeOK'
  BY <1>4 DEF DrainCheck
<1>5. ASSUME NEW t \in Threads, PrepareBatch(t) PROVE EventTypeOK'
  <2>1. ASSUME NEW k \in BatchSizes
        PROVE  [key |-> nextKey + 1, events |-> Prefix(queue, k)] \in Batch
    <3>1. k \in 0..Len(queue)
      BY SizeAssumption DEF BatchSizes, Halvings
    <3> QED BY <3>1, SplitAtPrefix DEF Batch
  <2> QED BY <1>5, <2>1 DEF PrepareBatch
<1>6. ASSUME NEW t \in Threads, CommitBatch(t) PROVE EventTypeOK'
  <2>1. Len(batch[t].events) <= Len(queue) => Popped(Len(batch[t].events)) \in Seq(Event)
    BY <1>0, SplitAtPrefix DEF Popped
  <2> QED BY <1>6, <2>1 DEF CommitBatch
<1>7. ASSUME NEW t \in Threads, SendOk(t) \/ SendRetry(t) \/ SendFail(t) PROVE EventTypeOK'
  <2>1. \E received \in BOOLEAN : Transmit(t, received)
    BY <1>7 DEF SendOk, SendRetry, SendFail
  <2>2. server' \subseteq Batch
    BY <2>1 DEF Transmit
  <2> QED BY <1>7, <2>2 DEF SendOk, SendRetry, SendFail, SendUnchanged
<1>8. ASSUME NEW t \in Threads, Acknowledge(t) PROVE EventTypeOK'
  <2>1. Remaining(batch[t].events) \in Nat
    BY <1>0, <1>8 DEF Acknowledge, Accounting, Remaining, BatchInStep
  <2>2. acked \o batch[t].events \in Seq(Event)
    BY <1>0
  <2> QED BY <1>0, <1>8, <2>1, <2>2 DEF Acknowledge
<1>9. ASSUME NEW t \in Threads, FinishDrain(t) \/ AwaitDrain(t) PROVE EventTypeOK'
  BY <1>0, <1>9 DEF FinishDrain, AwaitDrain, localVars
<1>10. ASSUME NEW t \in Threads, CloseStep(t) PROVE EventTypeOK'
  BY <1>10 DEF CloseStep, CloseLoop, CloseClient, CloseClientFails,
              ClientUnchanged, CloseSeal, CloseUndo, AwaitClose, localVars
<1>11. CASE WorkerStep \/ Tick
  BY <1>11 DEF WorkerStep, WorkerStop, WorkerIdle, WorkerDrain, WorkerSleep, WorkerTimeout,
               WorkerCallback, WorkerUnchanged, Tick, localVars
<1> QED
  BY <1>1, <1>2, <1>3, <1>4, <1>5, <1>6, <1>7, <1>8, <1>9, <1>10, <1>11
     DEF Next, DrainStep, Terminated

-------------------------------------------------------------------------------
(* The drain cycle                                                          *)

(* A step moves at most its own thread, the worker on CloseUndo apart.      *)
LEMMA SingleFlightStep ==
  ASSUME TypeOK, SingleFlight, [Next]_vars
  PROVE  SingleFlight'
<1> USE DEF TypeOK, ThreadTypeOK, SingleFlight, DrainPcs, Pcs
<1>0. NoThread \notin Threads /\ Worker \in Threads
  BY ThreadAssumption DEF Threads
<1>1. CASE UNCHANGED vars
  BY <1>1 DEF vars
<1>2. ASSUME NEW ids \in Inputs, Capture(ids) PROVE SingleFlight'
  BY <1>2 DEF Capture
<1>3. ASSUME NEW t \in Threads, Call(t) PROVE SingleFlight'
  BY <1>0, <1>3 DEF Call, Flush, BeginDrain, Close, JoinClose, MayCall, ClosePcs
<1>4. ASSUME NEW t \in Threads, DrainCheck(t) \/ PrepareBatch(t) \/ CommitBatch(t) \/ Acknowledge(t)
      PROVE  SingleFlight'
  BY <1>4 DEF DrainCheck, PrepareBatch, CommitBatch, Acknowledge
<1>5. ASSUME NEW t \in Threads, SendOk(t) \/ SendRetry(t) \/ SendFail(t) PROVE SingleFlight'
  BY <1>5 DEF SendOk, SendRetry, SendFail, SendUnchanged
<1>6. ASSUME NEW t \in Threads, FinishDrain(t) PROVE SingleFlight'
  BY <1>0, <1>6, AfterDrainType DEF FinishDrain
<1>7. ASSUME NEW t \in Threads, AwaitDrain(t) PROVE SingleFlight'
  <2>1. AfterDrain(t, FALSE) \in Pcs \ DrainPcs
    BY AfterDrainType
  <2> QED BY <1>7, <2>1 DEF AwaitDrain
<1>8. ASSUME NEW t \in Threads, CloseLoop(t) \/ CloseClient(t) \/ CloseClientFails(t)
                              \/ AwaitClose(t) PROVE SingleFlight'
  BY <1>0, <1>8 DEF CloseLoop, BeginDrain, CloseClient, CloseClientFails, ClientUnchanged,
              AwaitClose, Home
<1>9. ASSUME NEW t \in Threads, CloseSeal(t) \/ CloseUndo(t) PROVE SingleFlight'
  BY <1>0, <1>9 DEF CloseSeal, CloseUndo, Resumed, WorkerJoined, EndCloseCycle, Home
<1>10. CASE WorkerStep \/ Tick
  BY <1>0, <1>10 DEF WorkerStep, WorkerStop, WorkerIdle, WorkerDrain, WorkerSleep, WorkerTimeout,
      WorkerWait, WorkerCallback, WorkerUnchanged, WorkerAwake, BeginDrain, Tick
<1> QED
  BY <1>1, <1>2, <1>3, <1>4, <1>5, <1>6, <1>7, <1>8, <1>9, <1>10
     DEF Next, DrainStep, CloseStep, Terminated

(* The same without the converse, which an interrupt breaks.                *)
LEMMA LeadsStep ==
  ASSUME TypeOK, Leads, [Next]_vars
  PROVE  Leads'
<1> USE DEF TypeOK, ThreadTypeOK, Leads, DrainPcs, Pcs
<1>0. NoThread \notin Threads /\ Worker \in Threads
  BY ThreadAssumption DEF Threads
<1>1. CASE UNCHANGED vars
  BY <1>1 DEF vars
<1>2. ASSUME NEW ids \in Inputs, Capture(ids) PROVE Leads'
  BY <1>2 DEF Capture
<1>3. ASSUME NEW t \in Threads, Call(t) PROVE Leads'
  BY <1>0, <1>3 DEF Call, Flush, BeginDrain, Close, JoinClose, MayCall, ClosePcs
<1>4. ASSUME NEW t \in Threads, DrainCheck(t) \/ PrepareBatch(t) \/ CommitBatch(t) \/ Acknowledge(t)
      PROVE  Leads'
  BY <1>4 DEF DrainCheck, PrepareBatch, CommitBatch, Acknowledge
<1>5. ASSUME NEW t \in Threads, SendOk(t) \/ SendRetry(t) \/ SendFail(t) PROVE Leads'
  BY <1>5 DEF SendOk, SendRetry, SendFail, SendUnchanged
<1>6. ASSUME NEW t \in Threads, FinishDrain(t) PROVE Leads'
  BY <1>0, <1>6, AfterDrainType DEF FinishDrain
<1>7. ASSUME NEW t \in Threads, AwaitDrain(t) PROVE Leads'
  <2>1. AfterDrain(t, FALSE) \in Pcs \ DrainPcs
    BY AfterDrainType
  <2> QED BY <1>7, <2>1 DEF AwaitDrain
<1>8. ASSUME NEW t \in Threads, CloseLoop(t) \/ CloseClient(t) \/ CloseClientFails(t)
                              \/ AwaitClose(t) PROVE Leads'
  BY <1>0, <1>8 DEF CloseLoop, BeginDrain, CloseClient, CloseClientFails, ClientUnchanged,
              AwaitClose, Home
<1>9. ASSUME NEW t \in Threads, CloseSeal(t) \/ CloseUndo(t) PROVE Leads'
  BY <1>0, <1>9 DEF CloseSeal, CloseUndo, Resumed, WorkerJoined, EndCloseCycle, Home
<1>10. CASE WorkerStep \/ Tick
  BY <1>0, <1>10 DEF WorkerStep, WorkerStop, WorkerIdle, WorkerDrain, WorkerSleep, WorkerTimeout,
      WorkerWait, WorkerCallback, WorkerUnchanged, WorkerAwake, BeginDrain, Tick
<1> QED
  BY <1>1, <1>2, <1>3, <1>4, <1>5, <1>6, <1>7, <1>8, <1>9, <1>10
     DEF Next, DrainStep, CloseStep, Terminated

(* What one section of a drain has read is still true in the next: only the *)
(* leader takes events off the queue, and capture() only appends.           *)
LEMMA BatchInStepStep ==
  ASSUME TypeOK, Leads, BatchInStep, CommitKeyed, [Next]_vars
  PROVE  BatchInStep' /\ CommitKeyed'
<1> USE DEF TypeOK, EventTypeOK, ThreadTypeOK, BatchInStep, CommitKeyed, pendingVars
<1>0. /\ \A u, v \in Threads : pc[u] \in DrainPcs /\ pc[v] \in DrainPcs => u = v
      /\ NoThread \notin Threads /\ Worker \in Threads
      /\ NoBatch.events = <<>> /\ NoBatch.key = 0
      /\ \A u \in Threads : batch[u].events \in Seq(Event)
  BY ThreadAssumption DEF Leads, Threads, NoBatch, Batch
<1>1. CASE UNCHANGED vars
  BY <1>1 DEF vars, localVars
<1>2. ASSUME NEW ids \in Inputs, Capture(ids) PROVE BatchInStep' /\ CommitKeyed'
  <2>1. NewEvents(ids) \in Seq(Event)
    BY NewEventsType
  <2>2. UNCHANGED <<pc, batch, prepared>> /\ queue' = queue \o NewEvents(ids)
    BY <1>2 DEF Capture, localVars
  <2>3. ASSUME NEW u \in Threads, pc[u] = "d_commit"
        PROVE  /\ Len(batch[u].events) <= Len(queue')
               /\ Prefix(queue', Len(batch[u].events)) = batch[u].events
    <3>1. Len(batch[u].events) \in 0..Len(queue)
      BY <1>0, <2>3
    <3>2. Len(queue') = Len(queue) + Len(NewEvents(ids))
      BY <2>1, <2>2
    <3>3. Prefix(queue', Len(batch[u].events)) = Prefix(queue, Len(batch[u].events))
      BY <2>1, <2>2, <3>1, PrefixOfAppended
    <3> QED BY <2>1, <2>3, <3>1, <3>2, <3>3
  <2> QED BY <2>2, <2>3
<1>3. ASSUME NEW t \in Threads, Call(t) PROVE BatchInStep' /\ CommitKeyed'
  BY <1>3 DEF Call, Flush, BeginDrain, Close, JoinClose, localVars
<1>4. ASSUME NEW t \in Threads, DrainCheck(t) PROVE BatchInStep' /\ CommitKeyed'
  BY <1>0, <1>4 DEF DrainCheck, DrainPcs
<1>5. ASSUME NEW t \in Threads, PrepareBatch(t) PROVE BatchInStep' /\ CommitKeyed'
  <2>1. \A u \in Threads \ {t} : pc[u] \notin DrainPcs
    BY <1>0, <1>5 DEF PrepareBatch, DrainPcs
  <2>2. ASSUME NEW k \in BatchSizes
        PROVE  Len(Prefix(queue, k)) <= Len(queue) /\ Prefix(queue, Len(Prefix(queue, k))) = Prefix(queue, k)
    <3>1. k \in 0..Len(queue)
      BY SizeAssumption DEF BatchSizes, Halvings
    <3>2. Len(Prefix(queue, k)) = k
      BY <3>1, SplitAtPrefix
    <3> QED BY <3>1, <3>2
  <2>3. /\ UNCHANGED <<queue, prepared>>
        /\ \A u \in Threads \ {t} : pc'[u] = pc[u] /\ batch'[u] = batch[u]
    BY <1>5 DEF PrepareBatch
  <2>4. \/ prepared # NoBatch /\ batch'[t] = prepared /\ pc'[t] = "d_send"
        \/ pc'[t] = "d_finish"
        \/ \E k \in BatchSizes : /\ prepared = NoBatch /\ pc'[t] = "d_commit"
                                 /\ batch'[t] = [key |-> nextKey + 1, events |-> Prefix(queue, k)]
    BY <1>5 DEF PrepareBatch
  <2>5. CASE prepared # NoBatch /\ batch'[t] = prepared /\ pc'[t] = "d_send"
    BY <2>1, <2>3, <2>5 DEF DrainPcs
  <2>6. CASE pc'[t] = "d_finish"
    BY <2>1, <2>3, <2>6 DEF DrainPcs
  <2>7. ASSUME NEW k \in BatchSizes, prepared = NoBatch, pc'[t] = "d_commit",
               batch'[t] = [key |-> nextKey + 1, events |-> Prefix(queue, k)]
        PROVE  BatchInStep' /\ CommitKeyed'
    <3>1. /\ batch'[t].events = Prefix(queue, k) /\ batch'[t].key # 0
      BY <2>7
    <3>2. /\ Len(batch'[t].events) <= Len(queue')
          /\ Prefix(queue', Len(batch'[t].events)) = batch'[t].events
      BY <2>2, <2>3, <3>1
    <3> QED BY <2>1, <2>3, <2>7, <3>1, <3>2 DEF DrainPcs
  <2> QED BY <2>4, <2>5, <2>6, <2>7
<1>6. ASSUME NEW t \in Threads, CommitBatch(t) PROVE BatchInStep' /\ CommitKeyed'
  <2>1. \A u \in Threads \ {t} : pc[u] \notin DrainPcs
    BY <1>0, <1>6 DEF CommitBatch, DrainPcs
  <2>2. prepared' = batch[t] /\ batch'[t] = batch[t] /\ pc'[t] = "d_send" /\ batch[t] # NoBatch
    BY <1>0, <1>6 DEF CommitBatch
  <2>3. \A u \in Threads \ {t} : pc'[u] = pc[u]
    BY <1>6 DEF CommitBatch
  <2> QED BY <2>1, <2>2, <2>3 DEF DrainPcs
<1>7. ASSUME NEW t \in Threads, SendOk(t) \/ SendRetry(t) \/ SendFail(t) PROVE BatchInStep' /\ CommitKeyed'
  BY <1>7 DEF SendOk, SendRetry, SendFail, SendUnchanged
<1>8. ASSUME NEW t \in Threads, Acknowledge(t) PROVE BatchInStep' /\ CommitKeyed'
  BY <1>0, <1>8 DEF Acknowledge, DrainPcs
<1>9. ASSUME NEW t \in Threads, FinishDrain(t) PROVE BatchInStep' /\ CommitKeyed'
  BY <1>9, AfterDrainType DEF FinishDrain, DrainPcs
<1>10. ASSUME NEW t \in Threads, AwaitDrain(t) PROVE BatchInStep' /\ CommitKeyed'
  <2>1. AfterDrain(t, FALSE) \in Pcs \ DrainPcs
    BY AfterDrainType
  <2> QED BY <1>10, <2>1 DEF AwaitDrain, DrainPcs, localVars
<1>11. ASSUME NEW t \in Threads, CloseStep(t) PROVE BatchInStep' /\ CommitKeyed'
  BY <1>0, <1>11 DEF CloseStep, CloseLoop, BeginDrain, CloseClient, CloseClientFails,
                     ClientUnchanged, CloseSeal, CloseUndo, Resumed,
                     AwaitClose, Home, localVars
<1>12. CASE WorkerStep \/ Tick
  BY <1>0, <1>12 DEF WorkerStep, WorkerStop, WorkerIdle, WorkerDrain, WorkerSleep, WorkerTimeout,
      WorkerWait, WorkerCallback, WorkerUnchanged, BeginDrain, Tick, localVars
<1> QED
  BY <1>1, <1>2, <1>3, <1>4, <1>5, <1>6, <1>7, <1>8, <1>9, <1>10, <1>11, <1>12
     DEF Next, DrainStep, Terminated

-------------------------------------------------------------------------------
(* The events                                                               *)

Unacked == prepared.events \o queue

(* The lists of events are lists of events.                                 *)
LEMMA EventLists ==
  ASSUME EventTypeOK
  PROVE  /\ acked \in Seq(Event) /\ prepared.events \in Seq(Event) /\ queue \in Seq(Event)
         /\ Unacked \in Seq(Event) /\ Len(Unacked) = Len(prepared.events) + Len(queue)
         /\ (acked \o prepared.events) \o queue = acked \o Unacked
<1>1. acked \in Seq(Event) /\ prepared.events \in Seq(Event) /\ queue \in Seq(Event)
  BY DEF EventTypeOK, Batch
<1>2. (acked \o prepared.events) \o queue = acked \o (prepared.events \o queue)
  BY <1>1, EventAssoc
<1>3. /\ prepared.events \o queue \in Seq(Event)
      /\ Len(prepared.events \o queue) = Len(prepared.events) + Len(queue)
  BY <1>1, EventConcat
<1> QED BY <1>1, <1>2, <1>3 DEF Unacked

(* The same in the next state.                                              *)
LEMMA EventListsNext ==
  ASSUME EventTypeOK'
  PROVE  /\ prepared'.events \in Seq(Event) /\ queue' \in Seq(Event)
         /\ (acked' \o prepared'.events) \o queue' = acked' \o Unacked'
<1>1. acked' \in Seq(Event) /\ prepared'.events \in Seq(Event) /\ queue' \in Seq(Event)
  BY DEF EventTypeOK, Batch
<1>2. (acked' \o prepared'.events) \o queue' = acked' \o (prepared'.events \o queue')
  BY <1>1, EventAssoc
<1> QED BY <1>1, <1>2 DEF Unacked

(* Committing a batch moves events from the queue to _prepared.             *)
LEMMA CommitStep ==
  ASSUME TypeOK, BatchInStep, NEW t \in Threads, CommitBatch(t)
  PROVE  Unacked' = Unacked /\ UNCHANGED <<pendingIds, pendingCount, captured, acked>>
<1> DEFINE b == batch[t].events
<1>1. b \in Seq(Event) /\ queue \in Seq(Event) /\ Len(b) \in 0..Len(queue)
  BY DEF TypeOK, EventTypeOK, BatchInStep, Batch, CommitBatch
<1>2. prepared = NoBatch /\ prepared.events = <<>> /\ Prefix(queue, Len(b)) = b
  BY DEF BatchInStep, CommitBatch, NoBatch
<1>3. prepared' = batch[t] /\ queue' = Popped(Len(b))
  BY <1>1, <1>2 DEF CommitBatch
<1>4. queue = b \o Popped(Len(b))
  BY <1>1, <1>2, SplitAtPrefix DEF Popped
<1>5. Unacked = queue
  BY <1>1, <1>2 DEF Unacked
<1> QED BY <1>3, <1>4, <1>5 DEF Unacked, CommitBatch

(* Acknowledging removes the prepared batch, the oldest unacknowledged      *)
(* events.                                                                  *)
LEMMA AckStep ==
  ASSUME TypeOK, BatchInStep, NEW t \in Threads, Acknowledge(t)
  PROVE  /\ prepared.events \in Seq(Event) /\ queue \in Seq(Event)
         /\ Unacked' = queue /\ UNCHANGED <<queue, captured>>
         /\ acked' = acked \o prepared.events
         /\ pendingCount' = pendingCount - Len(prepared.events)
         /\ pendingIds' = pendingIds \ EventIds(prepared.events)
<1>1. prepared = batch[t]
  BY DEF BatchInStep, Acknowledge
<1>2. prepared' = NoBatch /\ queue' = queue /\ NoBatch.events = <<>>
  BY <1>1 DEF Acknowledge, NoBatch
<1>3. queue \in Seq(Event) /\ prepared.events \in Seq(Event)
  BY DEF TypeOK, EventTypeOK, Batch
<1>4. Unacked' = queue
  BY <1>2, <1>3 DEF Unacked
<1> QED BY <1>1, <1>3, <1>4 DEF Acknowledge, Remaining

(* Capturing appends.                                                       *)
LEMMA CaptureStep ==
  ASSUME TypeOK, NEW ids \in Inputs, Capture(ids)
  PROVE  /\ NewEvents(ids) \in Seq(Event)
         /\ Unacked' = Unacked \o NewEvents(ids) /\ captured' = captured \o NewEvents(ids)
         /\ UNCHANGED acked
<1>1. NewEvents(ids) \in Seq(Event)
  BY NewEventsType DEF TypeOK, EventTypeOK
<1>2. queue \in Seq(Event) /\ prepared.events \in Seq(Event)
  BY EventLists DEF TypeOK
<1>3. (prepared.events \o queue) \o NewEvents(ids) = prepared.events \o (queue \o NewEvents(ids))
  BY <1>1, <1>2, EventAssoc
<1>4. Unacked' = prepared.events \o (queue \o NewEvents(ids))
  BY DEF Unacked, Capture
<1>5. Unacked \o NewEvents(ids) = (prepared.events \o queue) \o NewEvents(ids)
  BY DEF Unacked
<1>6. captured' = captured \o NewEvents(ids) /\ UNCHANGED acked
  BY DEF Capture
<1> QED BY <1>1, <1>3, <1>4, <1>5, <1>6

(* No action loses, repeats or reorders an event.                           *)
LEMMA ConservationStep ==
  ASSUME TypeOK, TypeOK', BatchInStep, Conservation, [Next]_vars
  PROVE  Conservation'
<1> USE DEF TypeOK
<1>1. /\ acked \in Seq(Event) /\ prepared.events \in Seq(Event) /\ queue \in Seq(Event)
      /\ Unacked \in Seq(Event) /\ captured = acked \o Unacked
  BY EventLists DEF Conservation
<1>2. captured' = acked' \o Unacked' => Conservation'
  BY EventListsNext DEF Conservation
<1>3. ASSUME NEW ids \in Inputs, Capture(ids) PROVE Conservation'
  <2>1. /\ NewEvents(ids) \in Seq(Event) /\ Unacked' = Unacked \o NewEvents(ids)
        /\ captured' = captured \o NewEvents(ids) /\ acked' = acked
    BY <1>3, CaptureStep
  <2>2. (acked \o Unacked) \o NewEvents(ids) = acked \o (Unacked \o NewEvents(ids))
    BY <1>1, <2>1, EventConcat
  <2> QED BY <1>1, <1>2, <2>1, <2>2
<1>4. ASSUME NEW t \in Threads, CommitBatch(t) PROVE Conservation'
  BY <1>1, <1>2, <1>4, CommitStep
<1>5. ASSUME NEW t \in Threads, Acknowledge(t) PROVE Conservation'
  <2>1. captured' = captured /\ acked' = acked \o prepared.events /\ Unacked' = queue
    BY <1>5, AckStep
  <2>2. acked \o Unacked = (acked \o prepared.events) \o queue
    BY EventLists
  <2> QED BY <1>1, <1>2, <2>1, <2>2
<1>6. CASE UNCHANGED <<queue, prepared, captured, acked>>
  BY <1>6 DEF Conservation
<1> QED BY <1>3, <1>4, <1>5, <1>6, EventSteps

-------------------------------------------------------------------------------
(* What the client keeps about the pending events                           *)

Distinct(s) == \A i, j \in DOMAIN s : s[i].id = s[j].id => i = j

(* Lists of events with no id in common can be joined.                      *)
LEMMA DistinctConcat ==
  ASSUME NEW s \in Seq(Event), NEW r \in Seq(Event)
  PROVE  Distinct(s \o r) <=> /\ Distinct(s) /\ Distinct(r)
                              /\ EventIds(s) \cap EventIds(r) = {}
<1>1. DOMAIN s = 1..Len(s) /\ DOMAIN r = 1..Len(r) /\ DOMAIN (s \o r) = 1..(Len(s) + Len(r))
  OBVIOUS
<1>2. \A i \in 1..Len(s) : i \in DOMAIN (s \o r) /\ (s \o r)[i] = s[i]
  OBVIOUS
<1>3. \A i \in 1..Len(r) : Len(s) + i \in DOMAIN (s \o r) /\ (s \o r)[Len(s) + i] = r[i]
  OBVIOUS
<1>4. Len(s) \in Nat /\ Len(r) \in Nat
  OBVIOUS
<1>5. ASSUME NEW i \in DOMAIN (s \o r)
      PROVE  i \in DOMAIN s \/ \E k \in DOMAIN r : i = Len(s) + k
  <2>1. CASE i <= Len(s) BY <2>1, <1>1
  <2>2. CASE i > Len(s)
    <3>1. i - Len(s) \in 1..Len(r) /\ i = Len(s) + (i - Len(s)) BY <2>2, <1>1, <1>4
    <3> QED BY <3>1, <1>1
  <2>3. i <= Len(s) \/ i > Len(s) BY <1>1, <1>4
  <2> QED BY <2>1, <2>2, <2>3
<1>6. ASSUME Distinct(s \o r)
      PROVE  Distinct(s) /\ Distinct(r) /\ EventIds(s) \cap EventIds(r) = {}
  <2>1. Distinct(s)
    BY <1>1, <1>2, <1>6 DEF Distinct
  <2>2. Distinct(r)
    <3>1. SUFFICES ASSUME NEW i \in 1..Len(r), NEW j \in 1..Len(r), r[i].id = r[j].id
                   PROVE  i = j
      BY <1>1 DEF Distinct
    <3>2. Len(s) + i = Len(s) + j
      BY <1>3, <1>6, <3>1 DEF Distinct
    <3> QED BY <1>4, <3>2
  <2>3. ASSUME NEW i \in 1..Len(s), NEW j \in 1..Len(r), s[i].id = r[j].id PROVE FALSE
    <3>1. i = Len(s) + j
      BY <1>2, <1>3, <1>6, <2>3 DEF Distinct
    <3> QED BY <1>4, <3>1
  <2> QED BY <1>1, <2>1, <2>2, <2>3 DEF EventIds
<1>7. ASSUME Distinct(s), Distinct(r), EventIds(s) \cap EventIds(r) = {}
      PROVE  Distinct(s \o r)
  <2>1. SUFFICES ASSUME NEW i \in DOMAIN (s \o r), NEW j \in DOMAIN (s \o r),
                        (s \o r)[i].id = (s \o r)[j].id
                 PROVE  i = j
    BY DEF Distinct
  <2>2. \A k \in DOMAIN s, l \in DOMAIN r : s[k].id # r[l].id
    BY <1>7 DEF EventIds
  <2>3. CASE i \in DOMAIN s /\ j \in DOMAIN s
    BY <1>1, <1>2, <1>7, <2>1, <2>3 DEF Distinct
  <2>4. CASE i \in DOMAIN s /\ \E l \in DOMAIN r : j = Len(s) + l
    BY <1>1, <1>2, <1>3, <2>1, <2>2, <2>4
  <2>5. CASE j \in DOMAIN s /\ \E l \in DOMAIN r : i = Len(s) + l
    BY <1>1, <1>2, <1>3, <2>1, <2>2, <2>5
  <2>6. ASSUME NEW k \in DOMAIN r, NEW l \in DOMAIN r, i = Len(s) + k, j = Len(s) + l
        PROVE  i = j
    BY <1>1, <1>3, <1>7, <2>1, <2>6 DEF Distinct
  <2> QED BY <1>5, <2>3, <2>4, <2>5, <2>6
<1> QED BY <1>6, <1>7

(* capture() counts and reserves what it appends, acknowledging releases    *)
(* the prepared batch, and nothing else changes what is pending.            *)
LEMMA AccountingStep ==
  ASSUME TypeOK, BatchInStep, Accounting, [Next]_vars
  PROVE  Accounting'
<1>1. /\ pendingCount = Len(Unacked) /\ pendingCount <= MaxQueue
      /\ pendingIds = EventIds(Unacked) /\ Distinct(Unacked)
  BY DEF Accounting, Unacked, Distinct
<1>2. /\ pendingCount' = Len(Unacked') /\ pendingCount' <= MaxQueue
      /\ pendingIds' = EventIds(Unacked') /\ Distinct(Unacked')
      => Accounting'
  BY DEF Accounting, Unacked, Distinct
<1>3. Unacked \in Seq(Event) /\ prepared.events \in Seq(Event) /\ queue \in Seq(Event)
  BY EventLists DEF TypeOK
<1>4. ASSUME NEW ids \in Inputs, Capture(ids) PROVE Accounting'
  <2> DEFINE new == NewEvents(ids)
  <2>1. Unacked' = Unacked \o new
    BY <1>4, CaptureStep
  <2>2. /\ new \in Seq(Event) /\ Len(new) = Len(ids) /\ Len(ids) \in Nat
        /\ EventIds(new) = {ids[i] : i \in DOMAIN ids}
        /\ DOMAIN ids = 1..Len(ids) /\ \A i \in 1..Len(ids) : new[i].id = ids[i]
    BY NewEventsType DEF TypeOK, EventTypeOK
  <2> HIDE DEF new
  <2>3. /\ pendingCount' = pendingCount + Len(ids) /\ pendingCount + Len(ids) <= MaxQueue
        /\ pendingIds' = pendingIds \cup {ids[i] : i \in DOMAIN ids}
        /\ \A i \in DOMAIN ids : ids[i] \notin pendingIds
    BY <1>4 DEF Capture, HasRoom, Reserved
  <2>4. /\ Len(Unacked') = Len(Unacked) + Len(ids)
        /\ EventIds(Unacked') = EventIds(Unacked) \cup EventIds(new)
    <3>1. Len(Unacked \o new) = Len(Unacked) + Len(new)
      BY <1>3, <2>2, EventConcat
    <3>2. EventIds(Unacked \o new) = EventIds(Unacked) \cup EventIds(new)
      BY <1>3, <2>2, IdsOfConcat
    <3> QED BY <2>1, <2>2, <3>1, <3>2
  <2>5. Distinct(Unacked')
    <3>1. \A i, j \in DOMAIN ids : ids[i] = ids[j] => i = j
      BY DEF Inputs
    <3>2. DOMAIN new = DOMAIN ids
      BY <2>2
    <3>3. Distinct(new)
      BY <2>2, <3>1, <3>2 DEF Distinct
    <3>4. EventIds(Unacked) \cap EventIds(new) = {}
      BY <1>1, <2>2, <2>3
    <3> QED BY <1>1, <1>3, <2>1, <2>2, <3>3, <3>4, DistinctConcat
  <2> QED BY <1>1, <1>2, <2>2, <2>3, <2>4, <2>5
<1>5. ASSUME NEW t \in Threads, CommitBatch(t) PROVE Accounting'
  BY <1>1, <1>2, <1>5, CommitStep
<1>6. ASSUME NEW t \in Threads, Acknowledge(t) PROVE Accounting'
  <2>1. /\ Unacked' = queue /\ pendingCount' = pendingCount - Len(prepared.events)
        /\ pendingIds' = pendingIds \ EventIds(prepared.events)
    BY <1>6, AckStep
  <2>2. Unacked = prepared.events \o queue
    BY DEF Unacked
  <2>3. /\ Distinct(queue) /\ EventIds(prepared.events) \cap EventIds(queue) = {}
        /\ EventIds(Unacked) = EventIds(prepared.events) \cup EventIds(queue)
    BY <1>1, <1>3, <2>2, DistinctConcat, IdsOfConcat
  <2>4. Len(Unacked) = Len(prepared.events) + Len(queue)
    BY EventLists DEF TypeOK
  <2>5. Len(queue) \in Nat /\ Len(prepared.events) \in Nat /\ MaxQueue \in Nat
    BY <1>3, SizeAssumption
  <2>6. pendingCount = Len(prepared.events) + Len(queue) /\ pendingCount' = Len(queue)
    BY <1>1, <2>1, <2>4, <2>5
  <2>7. pendingCount' = Len(Unacked') /\ pendingCount' <= MaxQueue
    BY <1>1, <2>1, <2>5, <2>6
  <2>8. pendingIds' = EventIds(Unacked')
    BY <1>1, <2>1, <2>3
  <2> QED BY <1>2, <2>1, <2>3, <2>7, <2>8
<1>7. CASE UNCHANGED <<queue, prepared, pendingIds, pendingCount, captured, acked>>
  BY <1>7 DEF Accounting
<1> QED BY <1>4, <1>5, <1>6, <1>7, EventSteps

-------------------------------------------------------------------------------
(* The theorems                                                             *)

LEMMA InitIInv == Init => IInv
<1> SUFFICES ASSUME Init PROVE IInv
  OBVIOUS
<1>1. TypeOK
  BY InitTypeOK
<1>2. Leads /\ BatchInStep /\ CommitKeyed
  BY ThreadAssumption DEF Init, Home, Leads, BatchInStep, CommitKeyed, DrainPcs, Threads
<1>3. queue = <<>> /\ captured = <<>> /\ acked = <<>> /\ prepared.events = <<>>
  BY DEF Init, NoBatch
<1>4. prepared.events \o queue = <<>> /\ (acked \o prepared.events) \o queue = <<>>
  BY <1>3
<1>5. Conservation
  BY <1>3, <1>4 DEF Conservation
<1>6. pendingCount = 0 /\ pendingIds = {} /\ DOMAIN (prepared.events \o queue) = {}
      /\ Len(prepared.events \o queue) = 0
  BY <1>4 DEF Init
<1>7. Accounting
  BY <1>6, SizeAssumption DEF Accounting, EventIds
<1> QED BY <1>1, <1>2, <1>5, <1>7 DEF IInv

(* An interrupted thread is no longer in its drain, and nothing else that   *)
(* the invariant speaks of changes.                                         *)
LEMMA InterruptIInv ==
  ASSUME IInv, NEW t \in Threads, Interrupt(t)
  PROVE  IInv'
<1> USE DEF IInv, TypeOK
<1>1. /\ UNCHANGED <<queue, pendingIds, pendingCount, captured, prepared, acked, nextKey>>
      /\ UNCHANGED <<deadline, immediate, drainCycle, closeCycle, closing, closed, workerStop,
                     httpClosed, waitset, timed, cyc>>
  BY DEF Interrupt, pendingVars, timerVars, closeVars, waitVars
<1>2. Home(t) \in Pcs \ DrainPcs
  BY DEF Home, Pcs, DrainPcs, ClosePcs
<1>3. pc' = [pc EXCEPT ![t] = Home(t)] /\ batch' = [batch EXCEPT ![t] = NoBatch]
  BY DEF Interrupt
<1>4. NoBatch \in Batch
  BY DEF NoBatch, Batch
<1>5. server' \subseteq Batch
  <2>1. \E received \in BOOLEAN : Transmit(t, received)
    BY DEF Interrupt
  <2> QED BY <2>1 DEF Transmit, EventTypeOK
<1>6. EventTypeOK'
  BY <1>1, <1>3, <1>4, <1>5 DEF EventTypeOK
<1>7. ControlTypeOK'
  BY <1>1 DEF ControlTypeOK
<1>8. ThreadTypeOK'
  BY <1>1, <1>2, <1>3 DEF ThreadTypeOK, Interrupt, Return
<1>9. CountTypeOK'
  BY DEF CountTypeOK, Interrupt, Return
<1>10. Leads' /\ CommitKeyed'
  BY <1>1, <1>2, <1>3 DEF Leads, CommitKeyed, ThreadTypeOK, DrainPcs
<1>11. BatchInStep'
  BY <1>1, <1>2, <1>3 DEF BatchInStep, ThreadTypeOK, DrainPcs
<1>12. Conservation' /\ Accounting'
  BY <1>1 DEF Conservation, Accounting
<1> QED BY <1>6, <1>7, <1>8, <1>9, <1>10, <1>11, <1>12

LEMMA NextIInv == IInv /\ [ClientNext]_vars => IInv'
<1>1. ASSUME IInv, [Next]_vars PROVE IInv'
  <2> USE <1>1 DEF IInv
  <2>1. EventTypeOK'
    BY EventTypeStep
  <2>2. ControlTypeOK' /\ ThreadTypeOK' /\ CountTypeOK'
    BY ControlTypeStep, ThreadTypeStep, CountTypeStep
  <2>3. TypeOK'
    BY <2>1, <2>2 DEF TypeOK
  <2>4. Leads' /\ BatchInStep' /\ CommitKeyed' /\ Accounting'
    BY LeadsStep, BatchInStepStep, AccountingStep
  <2>5. Conservation'
    BY <2>3, ConservationStep
  <2> QED BY <2>3, <2>4, <2>5
<1>2. ASSUME IInv, NEW t \in Interruptible, Interrupt(t) PROVE IInv'
  BY <1>2, InterruptIInv, InterruptAssumption DEF Threads
<1> QED BY <1>1, <1>2 DEF ClientNext

LEMMA Inductive == ClientSafety => []IInv
<1> QED BY InitIInv, NextIInv, PTL DEF ClientSafety

(* The client is one of these when nobody interrupts it, and when somebody  *)
(* does.                                                                    *)
LEMMA Uninterrupted == Safety => ClientSafety
<1>1. [Next]_vars => [ClientNext]_vars
  BY DEF ClientNext
<1> QED BY <1>1, PTL DEF Safety, ClientSafety

LEMMA Interrupted == InterruptSafety => ClientSafety
<1>1. InterruptInit => Init
  BY DEF InterruptInit
<1>2. [InterruptNext]_<<vars, interrupted>> => [ClientNext]_vars
  BY DEF InterruptNext, ClientNext
<1> QED BY <1>1, <1>2, PTL DEF InterruptSafety, ClientSafety

(* Every variable of the client keeps its type, whatever the interleaving   *)
(* of capture(), flush(), close() and the worker (_client.py).              *)
THEOREM TypeCorrect == InterruptSafety => []TypeOK
<1>1. IInv => TypeOK BY DEF IInv
<1> QED BY <1>1, Inductive, Interrupted, PTL

(* At most one thread is inside _drain, the leader of _drain_cycle.         *)
THEOREM OneDrainAtATime == Safety => []SingleFlight
<1>1. Init => SingleFlight
  BY ThreadAssumption DEF Init, Home, SingleFlight, DrainPcs, Threads
<1>2. IInv /\ SingleFlight /\ [Next]_vars => SingleFlight'
  BY SingleFlightStep DEF IInv
<1> QED BY <1>1, <1>2, Inductive, Uninterrupted, PTL DEF Safety

(* What _drain reads in one section still holds in the next, so neither     *)
(* RuntimeError of the drain is ever raised.                                *)
THEOREM DrainSectionsAgree == InterruptSafety => []BatchInStep
<1>1. IInv => BatchInStep BY DEF IInv
<1> QED BY <1>1, Inductive, Interrupted, PTL

(* No captured event is lost, duplicated or reordered between _queue,       *)
(* _prepared and the service's acknowledgements.                            *)
THEOREM NothingLost == InterruptSafety => []Conservation
<1>1. IInv => Conservation BY DEF IInv
<1> QED BY <1>1, Inductive, Interrupted, PTL

(* _pending_count and _pending_event_ids describe exactly the events that   *)
(* are not acknowledged, at most max_queue_size of them.                    *)
THEOREM PendingIsExact == InterruptSafety => []Accounting
<1>1. IInv => Accounting BY DEF IInv
<1> QED BY <1>1, Inductive, Interrupted, PTL

(* A prepared batch leaves _prepared only when it is acknowledged as a      *)
(* whole: after a failure the same key and body are sent again.             *)
THEOREM FailedBatchIsResent == InterruptSafety => SameBatchRetried
<1>1. IInv /\ [ClientNext]_vars
      => [prepared # NoBatch => \/ prepared' = prepared
                                \/ prepared' = NoBatch /\ acked' = acked \o prepared.events]_vars
  <2> SUFFICES ASSUME IInv, [ClientNext]_vars, prepared # NoBatch
               PROVE  \/ prepared' = prepared
                      \/ prepared' = NoBatch /\ acked' = acked \o prepared.events
    OBVIOUS
  <2>1. ASSUME NEW ids \in Inputs, Capture(ids) PROVE prepared' = prepared
    BY <2>1 DEF Capture
  <2>2. ASSUME NEW t \in Threads, CommitBatch(t) PROVE FALSE
    BY <2>2 DEF CommitBatch, IInv, BatchInStep
  <2>3. ASSUME NEW t \in Threads, Acknowledge(t)
        PROVE  prepared' = NoBatch /\ acked' = acked \o prepared.events
    BY <2>3 DEF Acknowledge, IInv, BatchInStep
  <2>4. ASSUME NEW t \in Interruptible, Interrupt(t) PROVE prepared' = prepared
    BY <2>4 DEF Interrupt
  <2> QED BY <2>1, <2>2, <2>3, <2>4, EventSteps DEF ClientNext
<1> QED BY <1>1, Inductive, Interrupted, PTL DEF ClientSafety, SameBatchRetried

-------------------------------------------------------------------------------
(* The calls of the threads                                                 *)

(* Where a thread can be in each call, when the outcome of its cycle is     *)
(* known, and where it may be parked.                                       *)
CallShape ==
  \A t \in Threads :
    /\ pc[t] \in {"w_loop", "w_callback", "w_exit"} => t = Worker
    /\ pc[t] = "idle" => t # Worker
    /\ pc[t] \in {"idle", "w_loop", "w_callback", "w_exit"} => call[t] = "none"
    /\ pc[t] \in DrainPcs \cup {"wait_drain"} /\ call[t] = "none" => t = Worker
    /\ pc[t] \in ClosePcs => call[t] = "close"
    /\ cyc[t] # "open" => pc[t] \in {"d_finish", "wait_drain", "wait_close"}
    /\ pc[t] = "d_finish" => cyc[t] # "open"
    /\ t \in waitset => pc[t] \in {"wait_drain", "wait_close", "w_loop"}

LEMMA CallShapeStep ==
  ASSUME TypeOK, BatchInStep, CommitKeyed, CallShape, [ClientNext]_vars
  PROVE  CallShape'
<1> USE DEF TypeOK, ThreadTypeOK, ControlTypeOK, CallShape, DrainPcs, ClosePcs, Pcs
<1>0. Worker \in Threads /\ Worker \notin Callers
  BY ThreadAssumption DEF Threads
<1>1. CASE UNCHANGED vars
  BY <1>1 DEF vars, callVars, waitVars
<1>2. ASSUME NEW ids \in Inputs, Capture(ids) PROVE CallShape'
  BY <1>2 DEF Capture, callVars, NotifyAll
<1>3. ASSUME NEW t \in Threads, Call(t) PROVE CallShape'
  BY <1>0, <1>3 DEF Call, Flush, BeginDrain, Close, JoinClose, MayCall, Enter, NotifyAll, waitVars
<1>4. ASSUME NEW t \in Threads, DrainCheck(t) \/ PrepareBatch(t) \/ CommitBatch(t) PROVE CallShape'
  <2>1. UNCHANGED <<call, waitset>> /\ pc[t] \in DrainPcs \ {"d_finish"}
    BY <1>4 DEF DrainCheck, PrepareBatch, CommitBatch, callVars, waitVars
  <2>2. \/ /\ pc' = [pc EXCEPT ![t] = "d_finish"]
           /\ \E outcome \in {"ok", "err"} : cyc' = [cyc EXCEPT ![t] = outcome]
        \/ /\ \E p \in {"d_prepare", "d_commit", "d_send"} : pc' = [pc EXCEPT ![t] = p]
           /\ cyc' = cyc
    BY <1>4 DEF DrainCheck, PrepareBatch, CommitBatch
  <2> QED BY <2>1, <2>2
<1>5. ASSUME NEW t \in Threads, SendOk(t) \/ SendRetry(t) \/ SendFail(t) PROVE CallShape'
  <2>1. UNCHANGED <<call, waitset>> /\ pc[t] = "d_send"
    BY <1>5 DEF SendOk, SendRetry, SendFail, SendUnchanged, callVars, waitVars
  <2>2. \/ /\ pc' = [pc EXCEPT ![t] = "d_finish"] /\ cyc' = [cyc EXCEPT ![t] = "err"]
        \/ pc' = [pc EXCEPT ![t] = "d_ack"] /\ cyc' = cyc
        \/ pc' = pc /\ cyc' = cyc
    BY <1>5 DEF SendOk, SendRetry, SendFail
  <2> QED BY <2>1, <2>2
<1>6. ASSUME NEW t \in Threads, Acknowledge(t) PROVE CallShape'
  BY <1>6 DEF Acknowledge, callVars, waitVars, NotifyAll
<1>7. ASSUME NEW t \in Threads, FinishDrain(t) PROVE CallShape'
  BY <1>0, <1>7 DEF FinishDrain, AfterDrain, LeaveDrain, Return, Joined, Home, callVars, NotifyAll
<1>8. ASSUME NEW t \in Threads, AwaitDrain(t) PROVE CallShape'
  BY <1>0, <1>8 DEF AwaitDrain, AfterDrain, LeaveDrain, Return, Home, callVars, waitVars
<1>9. ASSUME NEW t \in Threads, CloseLoop(t) \/ CloseClient(t) \/ CloseClientFails(t) PROVE CallShape'
  BY <1>9 DEF CloseLoop, BeginDrain, CloseClient, CloseClientFails, ClientUnchanged, callVars, waitVars
<1>10. ASSUME NEW t \in Threads, CloseSeal(t) \/ CloseUndo(t) PROVE CallShape'
  BY <1>0, <1>10 DEF CloseSeal, CloseUndo, Resumed, WorkerJoined, EndCloseCycle, Return, Home, NotifyAll
<1>11. ASSUME NEW t \in Threads, AwaitClose(t) PROVE CallShape'
  BY <1>0, <1>11 DEF AwaitClose, Return, Home, callVars, waitVars
<1>12. CASE WorkerStep \/ Tick
  BY <1>0, <1>12 DEF WorkerStep, WorkerStop, WorkerIdle, WorkerDrain, WorkerSleep, WorkerTimeout,
      WorkerWait, WorkerCallback, WorkerUnchanged, WorkerAwake, BeginDrain, Tick, callVars, waitVars
<1>13. ASSUME NEW t \in Threads, Interrupt(t) PROVE CallShape'
  BY <1>0, <1>13 DEF Interrupt, Return, Home, waitVars
<1> QED
  BY <1>1, <1>2, <1>3, <1>4, <1>5, <1>6, <1>7, <1>8, <1>9, <1>10, <1>11, <1>12, <1>13,
     InterruptAssumption DEF Next, ClientNext, DrainStep, CloseStep, Terminated, Threads

(* The thread leads the open close cycle.                                   *)
LeadsClose(t) == call[t] = "close" /\ pc[t] # "wait_close"

(* What each thread of a close() may rely on.  An automatic flush is off    *)
(* from its first section on, so once the drain it found is over the only   *)
(* drains are its own.                                                      *)
CloseShape ==
  /\ workerStop <=> closing \/ closed
  /\ ~(closing /\ closed)
  /\ pc[Worker] = "w_exit" => workerStop
  /\ closed => pendingCount = 0 /\ drainCycle = NoThread
  /\ \A t \in Threads :
       /\ LeadsClose(t) => closing /\ closeCycle = t
       /\ pc[t] \in ClosePcs => drainCycle = NoThread
       /\ LeadsClose(t) /\ pc[t] = "wait_drain" /\ cyc[t] # "open" => drainCycle = NoThread
       /\ pc[t] \in {"c_client", "c_seal"} => pendingCount = 0
       /\ pc[t] = "wait_drain" /\ cyc[t] = "open" => drainCycle # NoThread
       /\ pc[t] = "wait_close" /\ cyc[t] = "open" => closing

LEMMA CloseShapeStep ==
  ASSUME TypeOK, Leads, BatchInStep, Accounting, Accounting', CallShape, CloseShape,
         [ClientNext]_vars
  PROVE  CloseShape'
<1> USE DEF TypeOK, ThreadTypeOK, ControlTypeOK, CloseShape, LeadsClose
<1>0. /\ Worker \in Threads /\ Worker \notin Callers /\ NoThread \notin Threads
      /\ pendingCount \in Nat /\ CallShape
  BY ThreadAssumption DEF Threads, EventTypeOK
<1>1. CASE UNCHANGED vars
  BY <1>1 DEF vars, callVars, closeVars, pendingVars
<1>2. ASSUME NEW ids \in Inputs, Capture(ids) PROVE CloseShape'
  <2>1. Open /\ UNCHANGED <<drainCycle, closing, closed, closeCycle, workerStop, pc, call, cyc>>
    BY <1>2 DEF Capture, callVars, closeVars
  <2> QED BY <2>1 DEF Open, CallShape, ClosePcs
<1>3. ASSUME NEW t \in Threads, Flush(t) PROVE CloseShape'
  BY <1>0, <1>3 DEF Flush, BeginDrain, MayCall, Enter, Open, closeVars, pendingVars, CallShape, ClosePcs
<1>4. ASSUME NEW t \in Threads, Close(t) PROVE CloseShape'
  BY <1>0, <1>4 DEF Close, MayCall, Enter, Open, pendingVars, CallShape, ClosePcs
<1>5. ASSUME NEW t \in Threads, NEW op \in {"flush", "close"}, JoinClose(t, op) PROVE CloseShape'
  BY <1>0, <1>5 DEF JoinClose, MayCall, Enter, closeVars, pendingVars, CallShape, ClosePcs
<1>6. ASSUME NEW t \in Threads, DrainCheck(t) \/ PrepareBatch(t) \/ CommitBatch(t) PROVE CloseShape'
  <2>1. /\ UNCHANGED <<call, closing, closed, closeCycle, workerStop, drainCycle, pendingCount>>
        /\ pc[t] \in DrainPcs
    BY <1>6 DEF DrainCheck, PrepareBatch, CommitBatch, callVars, closeVars, pendingVars, DrainPcs
  <2>2. \E p \in DrainPcs : pc' = [pc EXCEPT ![t] = p]
    BY <1>6 DEF DrainCheck, PrepareBatch, CommitBatch, DrainPcs
  <2>3. \A u \in Threads \ {t} : cyc'[u] = cyc[u]
    BY <1>6 DEF DrainCheck, PrepareBatch, CommitBatch
  <2> QED BY <1>0, <2>1, <2>2, <2>3 DEF DrainPcs, ClosePcs
<1>7. ASSUME NEW t \in Threads, SendOk(t) \/ SendRetry(t) \/ SendFail(t) PROVE CloseShape'
  <2>1. /\ UNCHANGED <<call, closing, closed, closeCycle, workerStop, drainCycle, pendingCount>>
        /\ pc[t] \in DrainPcs
    BY <1>7 DEF SendOk, SendRetry, SendFail, SendUnchanged, callVars, closeVars, pendingVars, DrainPcs
  <2>2. \E p \in DrainPcs : pc' = [pc EXCEPT ![t] = p]
    BY <1>7 DEF SendOk, SendRetry, SendFail, DrainPcs
  <2>3. \A u \in Threads \ {t} : cyc'[u] = cyc[u]
    BY <1>7 DEF SendOk, SendRetry, SendFail
  <2> QED BY <1>0, <2>1, <2>2, <2>3 DEF DrainPcs, ClosePcs
<1>8. ASSUME NEW t \in Threads, Acknowledge(t) PROVE CloseShape'
  <2>1. /\ UNCHANGED <<call, closing, closed, closeCycle, workerStop, drainCycle>>
        /\ drainCycle = t /\ drainCycle # NoThread
    BY <1>0, <1>8 DEF Acknowledge, callVars, closeVars, Leads, DrainPcs
  <2>2. \E p \in DrainPcs : pc' = [pc EXCEPT ![t] = p]
    BY <1>8 DEF Acknowledge, DrainPcs
  <2>3. \A u \in Threads \ {t} : cyc'[u] = cyc[u]
    BY <1>8 DEF Acknowledge
  <2> QED BY <1>0, <1>8, <2>1, <2>2, <2>3 DEF DrainPcs, ClosePcs, Acknowledge
<1>9. ASSUME NEW t \in Threads, FinishDrain(t) PROVE CloseShape'
  <2>1. /\ UNCHANGED <<closing, closed, closeCycle, workerStop, pendingCount>>
        /\ drainCycle = t /\ drainCycle' = NoThread /\ cyc[t] # "open"
    BY <1>0, <1>9 DEF FinishDrain, closeVars, pendingVars, Leads, DrainPcs, CallShape
  <2>2. /\ pc' = [pc EXCEPT ![t] = AfterDrain(t, TRUE)] /\ pc[t] = "d_finish"
        /\ cyc' = [u \in Threads |-> IF Joined(u) THEN cyc[t] ELSE IF u = t THEN "open" ELSE cyc[u]]
    BY <1>9 DEF FinishDrain
  <2>3. /\ \A u \in Threads \ {t} : call'[u] = call[u]
        /\ call[t] = "close" => call' = call
        /\ call[t] # "close" => call'[t] = "none"
    BY <1>9 DEF FinishDrain, LeaveDrain, Return, callVars
  <2>4. call[t] # "close" => AfterDrain(t, TRUE) \in {"idle", "w_loop", "w_callback"}
    BY DEF AfterDrain, Home
  <2>5. AfterDrain(t, TRUE) \notin {"c_client", "c_seal", "w_exit", "wait_drain", "wait_close"}
    BY DEF AfterDrain, Home
  <2>6. ~closed
    BY <1>0, <2>1
  <2> QED BY <1>0, <2>1, <2>2, <2>3, <2>4, <2>5, <2>6 DEF Joined, CallShape, ClosePcs
<1>10. ASSUME NEW t \in Threads, AwaitDrain(t) PROVE CloseShape'
  <2>1. UNCHANGED <<closing, closed, closeCycle, workerStop, pendingCount, drainCycle>>
    BY <1>10 DEF AwaitDrain, closeVars, pendingVars
  <2>2. CASE cyc[t] = "open"
    BY <1>10, <2>1, <2>2 DEF AwaitDrain, callVars
  <2>3. CASE cyc[t] # "open"
    <3>1. /\ pc[t] = "wait_drain" /\ pc' = [pc EXCEPT ![t] = AfterDrain(t, FALSE)]
          /\ cyc' = [cyc EXCEPT ![t] = "open"]
      BY <1>10, <2>3 DEF AwaitDrain
    <3>2. /\ \A u \in Threads \ {t} : call'[u] = call[u]
          /\ call[t] = "close" => call' = call
          /\ call[t] # "close" => call'[t] = "none"
      BY <1>10, <2>3 DEF AwaitDrain, LeaveDrain, Return, callVars
    <3>3. call[t] # "close" => AfterDrain(t, FALSE) \in {"idle", "w_loop", "w_callback"}
      BY DEF AfterDrain, Home
    <3>4. AfterDrain(t, FALSE) \notin {"c_client", "c_seal", "w_exit", "wait_drain", "wait_close"}
      BY DEF AfterDrain, Home
    <3>5. /\ pc'[t] \notin {"c_client", "c_seal", "w_exit", "wait_drain", "wait_close"}
          /\ call[t] # "close" => pc'[t] \in {"idle", "w_loop", "w_callback"}
          /\ \A u \in Threads \ {t} : pc'[u] = pc[u] /\ cyc'[u] = cyc[u]
      BY <3>1, <3>3, <3>4
    <3> HIDE DEF LeadsClose
    <3>6. \A u \in Threads \ {t} : LeadsClose(u)' <=> LeadsClose(u)
      BY <3>2, <3>5 DEF LeadsClose
    <3>7. LeadsClose(t)' => LeadsClose(t)
      BY <3>1, <3>2 DEF LeadsClose
    <3>8. pc'[t] \in ClosePcs => drainCycle = NoThread
      BY <2>3, <3>1, <3>5 DEF ClosePcs, LeadsClose
    <3> QED BY <1>0, <2>1, <3>5, <3>6, <3>7, <3>8
  <2> QED BY <2>2, <2>3
<1>11. ASSUME NEW t \in Threads, CloseLoop(t) PROVE CloseShape'
  BY <1>0, <1>11 DEF CloseLoop, BeginDrain, Drained, closeVars, callVars, pendingVars, CallShape, ClosePcs
<1>12. ASSUME NEW t \in Threads, CloseClient(t) \/ CloseClientFails(t) PROVE CloseShape'
  BY <1>0, <1>12 DEF CloseClient, CloseClientFails, ClientUnchanged, callVars, pendingVars, CallShape,
                     ClosePcs
<1>13. ASSUME NEW t \in Threads, CloseSeal(t) PROVE CloseShape'
  BY <1>0, <1>13 DEF CloseSeal, EndCloseCycle, Return, Home, pendingVars, CallShape, ClosePcs
<1>14. ASSUME NEW t \in Threads, CloseUndo(t) PROVE CloseShape'
  BY <1>0, <1>14 DEF CloseUndo, WorkerJoined, Resumed, EndCloseCycle, Return, Home, pendingVars,
                     CallShape, ClosePcs
<1>15. ASSUME NEW t \in Threads, AwaitClose(t) PROVE CloseShape'
  BY <1>0, <1>15 DEF AwaitClose, Return, Home, callVars, closeVars, pendingVars, CallShape, ClosePcs
<1>16. CASE WorkerStep \/ Tick
  BY <1>0, <1>16 DEF WorkerStep, WorkerStop, WorkerIdle, WorkerDrain, WorkerSleep, WorkerTimeout,
      WorkerWait, WorkerCallback, WorkerUnchanged, WorkerAwake, BeginDrain, Tick, callVars, closeVars,
      pendingVars, CallShape, ClosePcs
<1>17. ASSUME NEW t \in Threads, Interrupt(t) PROVE CloseShape'
  BY <1>0, <1>17 DEF Interrupt, Return, Home, pendingVars, closeVars, CallShape, ClosePcs
<1> QED
  BY <1>1, <1>2, <1>3, <1>4, <1>5, <1>6, <1>7, <1>8, <1>9, <1>10, <1>11, <1>12, <1>13,
     <1>14, <1>15, <1>16, <1>17, InterruptAssumption
     DEF Next, ClientNext, Call, DrainStep, CloseStep, Terminated, Threads

(* A thread is parked only while its cycle is open, and the worker only     *)
(* while there is nothing to do before its timeout.                         *)
Parked ==
  \A t \in waitset :
    /\ cyc[t] = "open"
    /\ pc[t] = "w_loop" => ~workerStop /\ ~immediate /\ (pendingCount = 0 \/ timed)

LEMMA ParkedStep ==
  ASSUME TypeOK, BatchInStep, Accounting, CallShape, CloseShape, Parked, [ClientNext]_vars
  PROVE  Parked'
<1> USE DEF TypeOK, ThreadTypeOK, ControlTypeOK, Parked
<1>0. /\ Worker \in Threads /\ Worker \notin Callers
      /\ \A t \in Threads : t \in waitset => pc[t] \in {"wait_drain", "wait_close", "w_loop"}
      /\ \A t \in Threads : pc[t] = "w_loop" => t = Worker
  BY ThreadAssumption DEF Threads, CallShape
<1>1. CASE UNCHANGED vars
  BY <1>1 DEF vars, closeVars, timerVars, pendingVars, waitVars
<1>2. CASE waitset' = {}
  BY <1>2
<1>3. ASSUME NEW t \in Threads, t \notin waitset, immediate' => immediate,
             UNCHANGED <<waitset, timed, workerStop, pendingCount>>,
             \A u \in Threads \ {t} : pc'[u] = pc[u] /\ cyc'[u] = cyc[u]
      PROVE  Parked'
  BY <1>3
<1>4. ASSUME NEW ids \in Inputs, Capture(ids) PROVE Parked'
  BY <1>2, <1>4 DEF Capture, NotifyAll
<1>5. ASSUME NEW t \in Threads, Flush(t) \/ Close(t) PROVE Parked'
  BY <1>2, <1>5 DEF Flush, Close, NotifyAll
<1>6. ASSUME NEW t \in Threads, NEW op \in {"flush", "close"}, JoinClose(t, op) PROVE Parked'
  <2>1. t \notin waitset
    BY <1>0, <1>6 DEF JoinClose, MayCall
  <2> QED BY <1>3, <1>6, <2>1 DEF JoinClose, closeVars, timerVars, pendingVars, waitVars
<1>7. ASSUME NEW t \in Threads, DrainCheck(t) \/ PrepareBatch(t) \/ CommitBatch(t) PROVE Parked'
  <2>1. t \notin waitset
    BY <1>0, <1>7 DEF DrainCheck, PrepareBatch, CommitBatch
  <2>2. UNCHANGED <<waitset, timed, workerStop, pendingCount>> /\ (immediate' => immediate)
    BY <1>7 DEF DrainCheck, PrepareBatch, CommitBatch, closeVars, timerVars, pendingVars, waitVars
  <2>3. \A u \in Threads \ {t} : pc'[u] = pc[u] /\ cyc'[u] = cyc[u]
    BY <1>7 DEF DrainCheck, PrepareBatch, CommitBatch
  <2> QED BY <1>3, <2>1, <2>2, <2>3
<1>8. ASSUME NEW t \in Threads, SendOk(t) \/ SendRetry(t) \/ SendFail(t) PROVE Parked'
  <2>1. t \notin waitset
    BY <1>0, <1>8 DEF SendOk, SendRetry, SendFail
  <2>2. UNCHANGED <<waitset, timed, workerStop, immediate, pendingCount>>
    BY <1>8 DEF SendOk, SendRetry, SendFail, SendUnchanged, closeVars, timerVars, pendingVars, waitVars
  <2>3. \A u \in Threads \ {t} : pc'[u] = pc[u] /\ cyc'[u] = cyc[u]
    BY <1>8 DEF SendOk, SendRetry, SendFail
  <2> QED BY <1>3, <2>1, <2>2, <2>3
<1>9. ASSUME NEW t \in Threads, Acknowledge(t) PROVE Parked'
  <2>1. prepared = batch[t]
    BY <1>9 DEF Acknowledge, BatchInStep
  <2> QED BY <1>2, <1>9, <2>1 DEF Acknowledge, NotifyAll
<1>10. ASSUME NEW t \in Threads, FinishDrain(t) PROVE Parked'
  BY <1>2, <1>10 DEF FinishDrain, NotifyAll
<1>11. ASSUME NEW t \in Threads, AwaitDrain(t) \/ AwaitClose(t) PROVE Parked'
  <2>1. CASE cyc[t] = "open"
    BY <1>11, <2>1 DEF AwaitDrain, AwaitClose, closeVars, timerVars, pendingVars
  <2>2. CASE cyc[t] # "open"
    <3>1. t \notin waitset /\ UNCHANGED <<waitset, timed, workerStop, immediate, pendingCount>>
      BY <1>11, <2>2 DEF AwaitDrain, AwaitClose, closeVars, timerVars, pendingVars, waitVars
    <3>2. \A u \in Threads \ {t} : pc'[u] = pc[u] /\ cyc'[u] = cyc[u]
      BY <1>11, <2>2 DEF AwaitDrain, AwaitClose
    <3> QED BY <1>3, <3>1, <3>2
  <2> QED BY <2>1, <2>2
<1>12. ASSUME NEW t \in Threads, CloseLoop(t) \/ CloseClient(t) \/ CloseClientFails(t) PROVE Parked'
  <2>1. t \notin waitset
    BY <1>0, <1>12 DEF CloseLoop, CloseClient, CloseClientFails
  <2>2. UNCHANGED <<waitset, timed, workerStop, pendingCount>> /\ (immediate' => immediate)
    BY <1>12 DEF CloseLoop, CloseClient, CloseClientFails, ClientUnchanged, closeVars, timerVars,
                 pendingVars, waitVars
  <2>3. \A u \in Threads \ {t} : pc'[u] = pc[u] /\ cyc'[u] = cyc[u]
    BY <1>12 DEF CloseLoop, BeginDrain, CloseClient, CloseClientFails, ClientUnchanged
  <2> QED BY <1>3, <2>1, <2>2, <2>3
<1>13. ASSUME NEW t \in Threads, CloseSeal(t) \/ CloseUndo(t) PROVE Parked'
  BY <1>2, <1>13 DEF CloseSeal, CloseUndo, EndCloseCycle, NotifyAll
<1>14. CASE WorkerStop \/ WorkerDrain \/ WorkerCallback
  <2>1. Worker \notin waitset
    BY <1>0, <1>14 DEF WorkerStop, WorkerDrain, WorkerCallback, WorkerAwake
  <2>2. UNCHANGED <<waitset, timed, workerStop, pendingCount>> /\ (immediate' => immediate)
    BY <1>14 DEF WorkerStop, WorkerDrain, WorkerCallback, WorkerUnchanged, closeVars, timerVars,
                 pendingVars, waitVars
  <2>3. \A u \in Threads \ {Worker} : pc'[u] = pc[u] /\ cyc'[u] = cyc[u]
    BY <1>14 DEF WorkerStop, WorkerDrain, WorkerCallback, BeginDrain
  <2> QED BY <1>0, <1>3, <2>1, <2>2, <2>3
<1>15. CASE WorkerIdle \/ WorkerSleep
  <2>1. cyc[Worker] = "open"
    BY <1>0, <1>15 DEF WorkerIdle, WorkerSleep, WorkerAwake, CallShape
  <2> QED BY <1>0, <1>15, <2>1 DEF WorkerIdle, WorkerSleep, WorkerAwake, Due, WorkerWait, WorkerUnchanged,
                                   closeVars, timerVars, pendingVars
<1>16. CASE WorkerTimeout \/ Tick
  BY <1>0, <1>16 DEF WorkerTimeout, Tick, WorkerUnchanged, closeVars, timerVars, pendingVars, waitVars
<1>17. ASSUME NEW t \in Threads, Interrupt(t) PROVE Parked'
  <2>1. t \notin waitset
    BY <1>0, <1>17 DEF Interrupt
  <2> QED BY <1>3, <1>17, <2>1 DEF Interrupt, closeVars, timerVars, pendingVars, waitVars
<1> QED
  BY <1>1, <1>4, <1>5, <1>6, <1>7, <1>8, <1>9, <1>10, <1>11, <1>12, <1>13, <1>14, <1>15, <1>16, <1>17,
     InterruptAssumption
     DEF Next, ClientNext, Call, DrainStep, CloseStep, WorkerStep, Terminated, Threads

(* The timer runs only for pending events or during a drain.                *)
TimerForPending == deadline # "none" => pendingCount > 0 \/ drainCycle # NoThread

LEMMA TimerForPendingStep ==
  ASSUME TypeOK, TypeOK', Leads, TimerForPending, [ClientNext]_vars
  PROVE  TimerForPending'
<1> USE DEF TimerForPending, timerVars, pendingVars
<1>0. /\ NoThread \notin Threads /\ pendingCount \in Nat /\ pendingCount' \in Nat
      /\ Worker \in Threads
  BY ThreadAssumption DEF Threads, TypeOK, EventTypeOK
<1>1. CASE UNCHANGED <<deadline, pendingCount, drainCycle>>
  BY <1>1
<1>2. ASSUME NEW ids \in Inputs, Capture(ids) PROVE TimerForPending'
  <2>1. Len(ids) \in Nat \ {0}
    BY NewEventsType DEF TypeOK, EventTypeOK
  <2> QED BY <1>0, <1>2, <2>1 DEF Capture
<1>3. ASSUME NEW t \in Threads, Flush(t) \/ Close(t) PROVE TimerForPending'
  BY <1>3 DEF Flush, Close
<1>4. ASSUME NEW t \in Threads, Acknowledge(t) PROVE TimerForPending'
  BY <1>0, <1>4 DEF Acknowledge, Leads, DrainPcs
<1>5. ASSUME NEW t \in Threads, FinishDrain(t) PROVE TimerForPending'
  BY <1>0, <1>5 DEF FinishDrain
<1>6. ASSUME NEW t \in Threads, CloseLoop(t) PROVE TimerForPending'
  BY <1>0, <1>6 DEF CloseLoop, BeginDrain
<1>7. ASSUME NEW t \in Threads, CloseUndo(t) PROVE TimerForPending'
  BY <1>0, <1>7 DEF CloseUndo
<1>8. CASE WorkerStep \/ Tick
  BY <1>0, <1>8 DEF WorkerStep, WorkerStop, WorkerIdle, WorkerDrain, WorkerSleep, WorkerTimeout,
                    WorkerCallback, WorkerUnchanged, BeginDrain, WorkerWait, Tick
<1>9. ASSUME NEW t \in Threads,
             \/ DrainCheck(t) \/ PrepareBatch(t) \/ CommitBatch(t)
             \/ SendOk(t) \/ SendRetry(t) \/ SendFail(t) \/ AwaitDrain(t)
      PROVE  UNCHANGED <<deadline, pendingCount, drainCycle>>
  BY <1>9 DEF DrainCheck, PrepareBatch, CommitBatch, SendOk, SendRetry, SendFail, SendUnchanged, AwaitDrain
<1>10. ASSUME NEW t \in Threads, CloseClient(t) \/ CloseClientFails(t) \/ CloseSeal(t) \/ AwaitClose(t)
       PROVE  UNCHANGED <<deadline, pendingCount, drainCycle>>
  BY <1>10 DEF CloseClient, CloseClientFails, ClientUnchanged, CloseSeal, AwaitClose
<1>11. ASSUME NEW t \in Threads, NEW op \in {"flush", "close"}, JoinClose(t, op) PROVE TimerForPending'
  BY <1>1, <1>11 DEF JoinClose
<1>12. ASSUME NEW t \in Interruptible, Interrupt(t) PROVE TimerForPending'
  BY <1>1, <1>12 DEF Interrupt
<1>13. CASE UNCHANGED vars
  BY <1>1, <1>13 DEF vars
<1> QED
  BY <1>1, <1>2, <1>3, <1>4, <1>5, <1>6, <1>7, <1>8, <1>9, <1>10, <1>11, <1>12, <1>13
     DEF Next, ClientNext, Call, DrainStep, CloseStep, Terminated

-------------------------------------------------------------------------------
(* What the service receives                                                *)

(* A step that neither captures, builds, commits, sends nor acknowledges.   *)
Aside ==
  /\ UNCHANGED <<queue, prepared, captured, acked, server, nextKey>>
  /\ \A t \in Threads :
       pc'[t] \in {"d_commit", "d_ack"} => pc'[t] = pc[t] /\ batch'[t] = batch[t]

LEMMA DeliverySteps ==
  ASSUME TypeOK, [ClientNext]_vars
  PROVE  \/ \E ids \in Inputs : Capture(ids)
         \/ \E t \in Threads : \/ PrepareBatch(t) \/ CommitBatch(t) \/ Acknowledge(t)
                               \/ SendOk(t) \/ SendRetry(t) \/ SendFail(t) \/ Interrupt(t)
         \/ Aside
<1> USE DEF TypeOK, ThreadTypeOK, pendingVars, localVars
<1>0. Worker \in Threads
  BY DEF Threads
<1>1. CASE UNCHANGED vars
  BY <1>1 DEF vars, Aside
<1>2. ASSUME NEW t \in Threads, Call(t) PROVE Aside
  BY <1>2 DEF Call, Flush, Close, JoinClose, BeginDrain, Aside
<1>3. ASSUME NEW t \in Threads, DrainCheck(t) PROVE Aside
  <2>1. \E p \in {"d_finish", "d_prepare", "d_send"} : pc' = [pc EXCEPT ![t] = p]
    BY <1>3 DEF DrainCheck
  <2>2. \A u \in Threads \ {t} : batch'[u] = batch[u]
    BY <1>3 DEF DrainCheck, EventTypeOK
  <2>3. UNCHANGED <<queue, prepared, captured, acked, server, nextKey>>
    BY <1>3 DEF DrainCheck
  <2> QED BY <2>1, <2>2, <2>3 DEF Aside
<1>4. ASSUME NEW t \in Threads, FinishDrain(t) PROVE Aside
  <2>1. pc' = [pc EXCEPT ![t] = AfterDrain(t, TRUE)] /\ AfterDrain(t, TRUE) \notin DrainPcs
    BY <1>4, AfterDrainType DEF FinishDrain
  <2>2. batch' = [batch EXCEPT ![t] = NoBatch]
    BY <1>4 DEF FinishDrain
  <2>3. UNCHANGED <<queue, prepared, captured, acked, server, nextKey>>
    BY <1>4 DEF FinishDrain
  <2> QED BY <2>1, <2>2, <2>3 DEF Aside, DrainPcs, EventTypeOK
<1>5. ASSUME NEW t \in Threads, AwaitDrain(t) PROVE Aside
  <2>1. AfterDrain(t, FALSE) \notin DrainPcs
    BY AfterDrainType
  <2> QED BY <1>5, <2>1 DEF AwaitDrain, Aside, DrainPcs
<1>6. ASSUME NEW t \in Threads, CloseStep(t) PROVE Aside
  BY <1>0, <1>6 DEF CloseStep, CloseLoop, BeginDrain, CloseClient, CloseClientFails, ClientUnchanged,
                    CloseSeal, CloseUndo, Resumed, AwaitClose, Home, Aside
<1>7. CASE WorkerStep \/ Tick
  <2>1. Aside
    BY <1>0, <1>7 DEF WorkerStep, WorkerStop, WorkerIdle, WorkerDrain, WorkerSleep, WorkerTimeout,
        WorkerWait, WorkerCallback, WorkerUnchanged, BeginDrain, Tick, Aside
  <2> QED BY <2>1
<1> QED
  BY <1>1, <1>2, <1>3, <1>4, <1>5, <1>6, <1>7, InterruptAssumption
     DEF Next, ClientNext, DrainStep, Terminated, Threads

(* The attempts of a drain, interrupted or not, send what is prepared.      *)
LEMMA AttemptStep ==
  ASSUME TypeOK, BatchInStep, NEW t \in Threads,
         SendOk(t) \/ SendRetry(t) \/ SendFail(t) \/ Interrupt(t)
  PROVE  /\ prepared = batch[t] /\ prepared # NoBatch
         /\ server' = server \/ server' = server \cup {prepared}
         /\ UNCHANGED <<queue, prepared, captured, acked, nextKey>>
         /\ \A u \in Threads \ {t} : pc'[u] = pc[u] /\ batch'[u] = batch[u]
         /\ pc'[t] # "d_commit"
         /\ pc'[t] = "d_ack" => batch'[t] = batch[t] /\ server' = server \cup {prepared}
<1> USE DEF TypeOK, ThreadTypeOK, pendingVars
<1>1. pc[t] = "d_send" /\ prepared = batch[t] /\ prepared # NoBatch
  BY DEF SendOk, SendRetry, SendFail, Interrupt, BatchInStep
<1>2. \E received \in BOOLEAN : Transmit(t, received)
  BY DEF SendOk, SendRetry, SendFail, Interrupt
<1>3. server' = server \/ server' = server \cup {prepared}
  BY <1>1, <1>2 DEF Transmit
<1>4. UNCHANGED <<queue, prepared, captured, acked, nextKey>>
  BY DEF SendOk, SendRetry, SendFail, SendUnchanged, Interrupt
<1>5. /\ \A u \in Threads \ {t} : pc'[u] = pc[u]
      /\ pc'[t] # "d_commit"
  BY <1>1 DEF SendOk, SendRetry, SendFail, Interrupt, Home
<1>6. \A u \in Threads \ {t} : batch'[u] = batch[u]
  BY DEF SendOk, SendRetry, SendFail, SendUnchanged, Interrupt, EventTypeOK
<1>7. pc'[t] = "d_ack" => SendOk(t)
  BY <1>1 DEF SendRetry, SendFail, Interrupt, Home
<1>8. SendOk(t) => batch'[t] = batch[t] /\ server' = server \cup {prepared}
  BY <1>1 DEF SendOk, SendUnchanged, Transmit
<1> QED BY <1>1, <1>3, <1>4, <1>5, <1>6, <1>7, <1>8

(* Events are numbered as they are captured.                                *)
Numbered == \A i \in DOMAIN captured : captured[i].n = i

LEMMA NumberedStep ==
  ASSUME TypeOK, Numbered, [ClientNext]_vars
  PROVE  Numbered'
<1>1. ASSUME NEW ids \in Inputs, Capture(ids) PROVE Numbered'
  <2> DEFINE new == NewEvents(ids)
  <2>1. /\ captured \in Seq(Event) /\ new \in Seq(Event) /\ Len(new) = Len(ids) /\ Len(ids) \in Nat
        /\ captured' = captured \o new
    BY <1>1, NewEventsType DEF Capture, TypeOK, EventTypeOK
  <2>2. \A i \in 1..Len(ids) : new[i].n = Len(captured) + i
    BY DEF NewEvents
  <2> HIDE DEF new
  <2>3. SUFFICES ASSUME NEW i \in 1..(Len(captured) + Len(ids))
                 PROVE  captured'[i].n = i
    BY <2>1 DEF Numbered
  <2>4. CASE i <= Len(captured)
    BY <2>1, <2>4 DEF Numbered
  <2>5. CASE i > Len(captured)
    <3>1. i - Len(captured) \in 1..Len(ids) /\ captured'[i] = new[i - Len(captured)]
      BY <2>1, <2>5
    <3>2. new[i - Len(captured)].n = Len(captured) + (i - Len(captured))
      BY <2>2, <3>1
    <3>3. Len(captured) + (i - Len(captured)) = i
      BY <2>1
    <3> QED BY <3>1, <3>2, <3>3
  <2> QED BY <2>1, <2>4, <2>5
<1>2. captured' = captured => Numbered'
  BY DEF Numbered
<1>3. ASSUME NEW t \in Threads,
             \/ PrepareBatch(t) \/ CommitBatch(t) \/ Acknowledge(t)
             \/ SendOk(t) \/ SendRetry(t) \/ SendFail(t) \/ Interrupt(t)
      PROVE  captured' = captured
  BY <1>3 DEF PrepareBatch, CommitBatch, Acknowledge, SendOk, SendRetry, SendFail, SendUnchanged,
              Interrupt, pendingVars
<1> QED BY <1>1, <1>2, <1>3, DeliverySteps DEF Aside

(* So the acknowledged events, and those of the prepared batch, have the    *)
(* numbers of their places.                                                 *)
LEMMA NumbersInPlace ==
  ASSUME TypeOK, Conservation, Numbered
  PROVE  /\ \A i \in 1..Len(acked) : acked[i].n = i
         /\ \A i \in 1..Len(prepared.events) : prepared.events[i].n = Len(acked) + i
<1> DEFINE b == prepared.events
<1>1. /\ acked \in Seq(Event) /\ b \in Seq(Event) /\ queue \in Seq(Event)
      /\ captured = (acked \o b) \o queue
  BY EventLists DEF TypeOK, Conservation
<1> HIDE DEF b
<1>2. /\ acked \o b \in Seq(Event) /\ Len(acked \o b) = Len(acked) + Len(b)
      /\ \A i \in 1..Len(acked) : (acked \o b)[i] = acked[i]
      /\ \A i \in 1..Len(b) : (acked \o b)[Len(acked) + i] = b[i]
  BY <1>1
<1>3. \A i \in 1..Len(acked \o b) : i \in DOMAIN captured /\ captured[i] = (acked \o b)[i]
  BY <1>1, <1>2
<1>4. \A i \in 1..Len(acked \o b) : (acked \o b)[i].n = i
  BY <1>3 DEF Numbered
<1>5. Len(acked) \in Nat /\ Len(b) \in Nat
  BY <1>1
<1>6. \A i \in 1..Len(acked) : acked[i].n = i
  BY <1>2, <1>4, <1>5
<1>7. ASSUME NEW i \in 1..Len(b) PROVE b[i].n = Len(acked) + i
  <2>1. Len(acked) + i \in 1..Len(acked \o b)
    BY <1>2, <1>5
  <2> QED BY <1>2, <1>4, <2>1
<1> QED BY <1>6, <1>7 DEF b

(* A batch has at least one event and at most MAX_BATCH_EVENTS.             *)
BatchSized ==
  /\ prepared # NoBatch => Len(prepared.events) \in 1..MaxBatch
  /\ \A t \in Threads : pc[t] = "d_commit" => Len(batch[t].events) \in 1..MaxBatch

(* The batch that _prepare_queued_batch has built in this step.             *)
LEMMA PrepareStep ==
  ASSUME TypeOK, NEW t \in Threads, PrepareBatch(t)
  PROVE  /\ UNCHANGED <<queue, prepared, captured, acked, server>>
         /\ nextKey' \in {nextKey, nextKey + 1}
         /\ \A u \in Threads \ {t} : pc'[u] = pc[u] /\ batch'[u] = batch[u]
         /\ pc'[t] # "d_ack"
         /\ pc'[t] = "d_commit" => /\ nextKey' = nextKey + 1 /\ batch'[t].key = nextKey'
                                   /\ Len(batch'[t].events) \in 1..MaxBatch
<1> USE DEF TypeOK, ThreadTypeOK
<1>1. UNCHANGED <<queue, prepared, captured, acked, server>>
  BY DEF PrepareBatch, pendingVars
<1>2. nextKey' \in {nextKey, nextKey + 1} /\ pc'[t] # "d_ack"
  BY DEF PrepareBatch
<1>3. \A u \in Threads \ {t} : pc'[u] = pc[u] /\ batch'[u] = batch[u]
  BY DEF PrepareBatch, EventTypeOK
<1>4. ASSUME pc'[t] = "d_commit"
      PROVE  \E k \in BatchSizes : /\ nextKey' = nextKey + 1
                                   /\ batch'[t] = [key |-> nextKey + 1, events |-> Prefix(queue, k)]
  BY <1>4 DEF PrepareBatch, EventTypeOK
<1>5. ASSUME NEW k \in BatchSizes PROVE Len(Prefix(queue, k)) \in 1..MaxBatch
  <2>1. queue \in Seq(Event) /\ Len(queue) \in Nat /\ MaxBatch \in Nat
    BY SizeAssumption DEF EventTypeOK
  <2>2. k \in 0..Len(queue) /\ k \in 1..MaxBatch
    BY <2>1 DEF BatchSizes, Halvings
  <2> QED BY <2>1, <2>2, SplitAtPrefix
<1>6. ASSUME pc'[t] = "d_commit"
      PROVE  /\ nextKey' = nextKey + 1 /\ batch'[t].key = nextKey'
             /\ Len(batch'[t].events) \in 1..MaxBatch
  <2>1. PICK k \in BatchSizes : /\ nextKey' = nextKey + 1
                                /\ batch'[t] = [key |-> nextKey + 1, events |-> Prefix(queue, k)]
    BY <1>4, <1>6
  <2>2. batch'[t].events = Prefix(queue, k) /\ batch'[t].key = nextKey + 1
    BY <2>1
  <2> QED BY <1>5, <2>1, <2>2
<1> QED BY <1>1, <1>2, <1>3, <1>6

LEMMA BatchSizedStep ==
  ASSUME TypeOK, BatchInStep, CommitKeyed, BatchSized, [ClientNext]_vars
  PROVE  BatchSized'
<1> USE DEF BatchSized
<1>1. ASSUME NEW ids \in Inputs, Capture(ids) PROVE BatchSized'
  BY <1>1 DEF Capture, localVars
<1>2. ASSUME NEW t \in Threads, PrepareBatch(t) PROVE BatchSized'
  BY <1>2, PrepareStep
<1>3. ASSUME NEW t \in Threads, CommitBatch(t) PROVE BatchSized'
  BY <1>3 DEF CommitBatch, TypeOK, EventTypeOK, ThreadTypeOK
<1>4. ASSUME NEW t \in Threads, Acknowledge(t) PROVE BatchSized'
  <2>1. prepared' = NoBatch
    BY <1>4 DEF Acknowledge, BatchInStep
  <2>2. \A u \in Threads : pc'[u] = "d_commit" => pc[u] = "d_commit" /\ batch'[u] = batch[u]
    BY <1>4 DEF Acknowledge, TypeOK, EventTypeOK, ThreadTypeOK
  <2> QED BY <2>1, <2>2
<1>5. ASSUME NEW t \in Threads, SendOk(t) \/ SendRetry(t) \/ SendFail(t) \/ Interrupt(t)
      PROVE  BatchSized'
  BY <1>5, AttemptStep
<1>6. CASE Aside
  BY <1>6 DEF Aside
<1> QED BY <1>1, <1>2, <1>3, <1>4, <1>5, <1>6, DeliverySteps

(* An idempotency key is used for one batch: the service has seen no later  *)
(* key than the last one generated, nor that of a batch being committed.    *)
KeysFresh ==
  /\ prepared # NoBatch => prepared.key \in 1..nextKey
  /\ \A a \in server : a.key \in 1..nextKey
  /\ \A t \in Threads : pc[t] = "d_commit" => /\ batch[t].key \in 1..nextKey
                                              /\ \A a \in server : a.key # batch[t].key

LEMMA KeysFreshStep ==
  ASSUME TypeOK, Leads, BatchInStep, CommitKeyed, KeysFresh, [ClientNext]_vars
  PROVE  KeysFresh'
<1> USE DEF KeysFresh
<1>0. /\ nextKey \in Nat /\ NoBatch.key = 0 /\ prepared.key \in Nat
      /\ \A u, v \in Threads : pc[u] \in DrainPcs /\ pc[v] \in DrainPcs => u = v
  BY DEF TypeOK, EventTypeOK, Batch, NoBatch, Leads
<1>1. ASSUME NEW ids \in Inputs, Capture(ids) PROVE KeysFresh'
  BY <1>1 DEF Capture, localVars
<1>2. ASSUME NEW t \in Threads, PrepareBatch(t) PROVE KeysFresh'
  <2>1. pc[t] \in DrainPcs
    BY <1>2 DEF PrepareBatch, DrainPcs
  <2>2. \A u \in Threads \ {t} : pc[u] # "d_commit"
    BY <1>0, <2>1 DEF DrainPcs
  <2> QED BY <1>0, <1>2, <2>2, PrepareStep
<1>3. ASSUME NEW t \in Threads, CommitBatch(t) PROVE KeysFresh'
  <2>1. UNCHANGED <<server, nextKey>> /\ prepared' = batch[t]
    BY <1>3 DEF CommitBatch, BatchInStep
  <2>2. \A u \in Threads : pc'[u] = "d_commit" => pc[u] = "d_commit" /\ batch'[u] = batch[u]
    BY <1>3 DEF CommitBatch, TypeOK, EventTypeOK, ThreadTypeOK
  <2>3. batch[t].key \in 1..nextKey
    BY <1>3 DEF CommitBatch
  <2> QED BY <1>0, <2>1, <2>2, <2>3
<1>4. ASSUME NEW t \in Threads, Acknowledge(t) PROVE KeysFresh'
  <2>1. prepared' = NoBatch /\ UNCHANGED <<server, nextKey>>
    BY <1>4 DEF Acknowledge, BatchInStep
  <2>2. \A u \in Threads : pc'[u] = "d_commit" => pc[u] = "d_commit" /\ batch'[u] = batch[u]
    BY <1>4 DEF Acknowledge, TypeOK, EventTypeOK, ThreadTypeOK
  <2> QED BY <1>0, <2>1, <2>2
<1>5. ASSUME NEW t \in Threads, SendOk(t) \/ SendRetry(t) \/ SendFail(t) \/ Interrupt(t)
      PROVE  KeysFresh'
  <2>1. pc[t] = "d_send"
    BY <1>5 DEF SendOk, SendRetry, SendFail, Interrupt
  <2>2. \A u \in Threads : pc'[u] # "d_commit"
    BY <1>0, <1>5, <2>1, AttemptStep DEF DrainPcs
  <2>3. prepared.key \in 1..nextKey
    BY <1>5, AttemptStep
  <2> QED BY <1>5, <2>2, <2>3, AttemptStep
<1>6. CASE Aside
  BY <1>6 DEF Aside
<1> QED BY <1>1, <1>2, <1>3, <1>4, <1>5, <1>6, DeliverySteps

(* A request the service has is the prepared batch, or one acknowledged     *)
(* before with another key; what is about to be acknowledged is there.      *)
SentBefore(a) == a.key # prepared.key /\ \A i \in DOMAIN a.events : a.events[i].n <= Len(acked)

SentOnce ==
  /\ \A a \in server : a = prepared \/ SentBefore(a)
  /\ \A t \in Threads : pc[t] = "d_ack" => batch[t] \in server

(* Acknowledging leaves no request that is not acknowledged.                *)
LEMMA SentOnceAck ==
  ASSUME TypeOK, Leads, BatchInStep, Conservation, Numbered, KeysFresh, SentOnce,
         NEW t \in Threads, Acknowledge(t)
  PROVE  SentOnce'
<1>1. /\ prepared' = NoBatch /\ NoBatch.key = 0 /\ UNCHANGED server
      /\ acked' = acked \o prepared.events
  BY DEF Acknowledge, BatchInStep, NoBatch
<1>2. acked \in Seq(Event) /\ prepared.events \in Seq(Event)
  BY EventLists DEF TypeOK
<1>3. /\ Len(acked') = Len(acked) + Len(prepared.events)
      /\ Len(acked) \in Nat /\ Len(prepared.events) \in Nat
      /\ DOMAIN prepared.events = 1..Len(prepared.events)
  BY <1>1, <1>2
<1>4. ASSUME NEW a \in server PROVE SentBefore(a)'
  <2>1. a.key # 0 /\ a \in Batch
    BY DEF KeysFresh, TypeOK, EventTypeOK
  <2>2. ASSUME a = prepared, NEW i \in DOMAIN a.events
        PROVE  a.events[i].n <= Len(acked')
    <3>1. a.events[i].n = Len(acked) + i
      BY <1>3, <2>2, NumbersInPlace
    <3>2. i \in 1..Len(prepared.events)
      BY <1>3, <2>2
    <3> QED BY <1>3, <3>1, <3>2
  <2>3. ASSUME SentBefore(a), NEW i \in DOMAIN a.events PROVE a.events[i].n <= Len(acked')
    <3>1. a.events \in Seq(Event)
      BY <2>1 DEF Batch
    <3>2. a.events[i] \in Event
      BY <2>3, <3>1
    <3>3. a.events[i].n \in Nat /\ a.events[i].n <= Len(acked)
      BY <2>3, <3>2 DEF SentBefore, Event
    <3> QED BY <1>3, <3>3
  <2> QED BY <1>1, <2>1, <2>2, <2>3 DEF SentOnce, SentBefore
<1>5. ASSUME NEW u \in Threads PROVE pc'[u] # "d_ack"
  BY DEF Leads, DrainPcs, Acknowledge, BatchInStep, TypeOK, ThreadTypeOK
<1> QED BY <1>1, <1>4, <1>5 DEF SentOnce

LEMMA SentOnceStep ==
  ASSUME TypeOK, Leads, BatchInStep, CommitKeyed, Conservation, Numbered, KeysFresh, SentOnce,
         [ClientNext]_vars
  PROVE  SentOnce'
<1>1. ASSUME NEW ids \in Inputs, Capture(ids) PROVE SentOnce'
  BY <1>1 DEF Capture, localVars, SentOnce, SentBefore
<1>2. ASSUME NEW t \in Threads, PrepareBatch(t) PROVE SentOnce'
  BY <1>2, PrepareStep DEF SentOnce, SentBefore
<1>3. ASSUME NEW t \in Threads, CommitBatch(t) PROVE SentOnce'
  <2>1. UNCHANGED <<server, acked>> /\ prepared = NoBatch /\ prepared' = batch[t] /\ NoBatch.key = 0
    BY <1>3 DEF CommitBatch, BatchInStep, NoBatch
  <2>2. \A u \in Threads : pc'[u] = "d_ack" => pc[u] = "d_ack" /\ batch'[u] = batch[u]
    BY <1>3 DEF CommitBatch, TypeOK, EventTypeOK, ThreadTypeOK
  <2>3. \A a \in server : a.key # batch[t].key /\ a.key # 0
    BY <1>3 DEF CommitBatch, KeysFresh
  <2> QED BY <2>1, <2>2, <2>3 DEF SentOnce, SentBefore
<1>4. ASSUME NEW t \in Threads, Acknowledge(t) PROVE SentOnce'
  BY <1>4, SentOnceAck
<1>5. ASSUME NEW t \in Threads, SendOk(t) \/ SendRetry(t) \/ SendFail(t) \/ Interrupt(t)
      PROVE  SentOnce'
  BY <1>5, AttemptStep DEF SentOnce, SentBefore
<1>6. CASE Aside
  BY <1>6 DEF Aside, SentOnce, SentBefore
<1> QED BY <1>1, <1>2, <1>3, <1>4, <1>5, <1>6, DeliverySteps

(* Every acknowledged event is in a request of the service.                 *)
AckedSent == \A i \in DOMAIN acked : \E a \in server : acked[i] \in Range(a.events)

LEMMA AckedSentStep ==
  ASSUME TypeOK, BatchInStep, SentOnce, AckedSent, [ClientNext]_vars
  PROVE  AckedSent'
<1>1. CASE acked' = acked /\ server \subseteq server'
  BY <1>1 DEF AckedSent
<1>2. ASSUME NEW t \in Threads, Acknowledge(t) PROVE AckedSent'
  <2> DEFINE b == prepared.events
  <2>1. acked' = acked \o b /\ prepared \in server /\ server' = server
    BY <1>2 DEF Acknowledge, BatchInStep, SentOnce
  <2>2. acked \in Seq(Event) /\ b \in Seq(Event)
    BY EventLists DEF TypeOK
  <2> HIDE DEF b
  <2>3. SUFFICES ASSUME NEW i \in 1..(Len(acked) + Len(b))
                 PROVE  \E a \in server : acked'[i] \in Range(a.events)
    BY <2>1, <2>2 DEF AckedSent
  <2>4. CASE i <= Len(acked)
    <3>1. i \in DOMAIN acked /\ acked'[i] = acked[i]
      BY <2>1, <2>2, <2>4
    <3> QED BY <3>1 DEF AckedSent
  <2>5. CASE i > Len(acked)
    <3>1. i - Len(acked) \in DOMAIN b /\ acked'[i] = b[i - Len(acked)]
      BY <2>1, <2>2, <2>5
    <3>2. acked'[i] \in Range(prepared.events)
      BY <3>1 DEF Range, b
    <3> QED BY <2>1, <3>2
  <2> QED BY <2>2, <2>4, <2>5
<1>3. ASSUME NEW ids \in Inputs, Capture(ids) PROVE AckedSent'
  BY <1>1, <1>3 DEF Capture
<1>4. ASSUME NEW t \in Threads, PrepareBatch(t) \/ CommitBatch(t) PROVE AckedSent'
  BY <1>1, <1>4 DEF PrepareBatch, CommitBatch
<1>5. ASSUME NEW t \in Threads, SendOk(t) \/ SendRetry(t) \/ SendFail(t) \/ Interrupt(t)
      PROVE  AckedSent'
  BY <1>1, <1>5, AttemptStep
<1>6. CASE Aside
  BY <1>1, <1>6 DEF Aside
<1> QED BY <1>2, <1>3, <1>4, <1>5, <1>6, DeliverySteps

LEMMA ExactlyOnceStep ==
  ASSUME TypeOK, BatchInStep, Conservation, Numbered, KeysFresh, SentOnce, ExactlyOnce,
         [ClientNext]_vars
  PROVE  ExactlyOnce'
<1> DEFINE Same(a, b) == a.key = b.key \/ Range(a.events) \cap Range(b.events) # {}
<1>0. AckedSent /\ \A a, b \in server : Same(a, b) => a = b
  BY DEF ExactlyOnce, AckedSent
<1>1. AckedSent'
  BY <1>0, AckedSentStep
<1>2. \A a, b \in server' : Same(a, b) => a = b
  <2>1. CASE server' = server
    BY <1>0, <2>1
  <2>2. ASSUME NEW t \in Threads, SendOk(t) \/ SendRetry(t) \/ SendFail(t) \/ Interrupt(t)
        PROVE  \A a, b \in server' : Same(a, b) => a = b
    <3>1. server' \subseteq server \cup {prepared}
      BY <2>2, AttemptStep
    <3>2. ASSUME NEW a \in server, a # prepared PROVE a.key # prepared.key
      BY <3>2 DEF SentOnce, SentBefore
    <3>3. ASSUME NEW a \in server, a # prepared,
                 NEW i \in DOMAIN a.events, NEW j \in DOMAIN prepared.events
          PROVE  a.events[i] # prepared.events[j]
      <4>1. Len(acked) \in Nat /\ j \in 1..Len(prepared.events)
        <5>1. acked \in Seq(Event) /\ prepared.events \in Seq(Event)
          BY EventLists DEF TypeOK
        <5> QED BY <5>1
      <4>2. prepared.events[j].n = Len(acked) + j
        BY <4>1, NumbersInPlace
      <4>3. a.events[i].n <= Len(acked)
        BY <3>3 DEF SentOnce, SentBefore
      <4> QED BY <4>1, <4>2, <4>3
    <3>4. ASSUME NEW a \in server, a # prepared PROVE ~Same(a, prepared) /\ ~Same(prepared, a)
      <4>1. Range(a.events) \cap Range(prepared.events) = {}
        BY <3>3, <3>4 DEF Range
      <4> QED BY <3>2, <3>4, <4>1
    <3> HIDE DEF Same
    <3> QED BY <1>0, <3>1, <3>4
  <2>3. ASSUME NEW ids \in Inputs, Capture(ids) PROVE server' = server
    BY <2>3 DEF Capture
  <2>4. ASSUME NEW t \in Threads, PrepareBatch(t) \/ CommitBatch(t) \/ Acknowledge(t)
        PROVE  server' = server
    BY <2>4 DEF PrepareBatch, CommitBatch, Acknowledge
  <2>5. CASE Aside
    BY <2>1, <2>5 DEF Aside
  <2> HIDE DEF Same
  <2> QED BY <2>1, <2>2, <2>3, <2>4, <2>5, DeliverySteps
<1> QED BY <1>1, <1>2 DEF ExactlyOnce, AckedSent

-------------------------------------------------------------------------------
(* What a call that returns speaks for                                      *)

(* The open cycle is led.                                                   *)
CycleLed == drainCycle # NoThread => pc[drainCycle] \in DrainPcs

(* What close() owes is reported, or still pending, or acknowledged in the  *)
(* drain that it leads or waits for.                                        *)
Covered(t) ==
  owed[t] <= tally[t] + pendingCount + (IF drainCycle = NoThread THEN 0 ELSE accepted[drainCycle])

Marked(t) ==
  /\ mark[t] <= Len(captured)
  /\ pc[t] \in {"d_finish", "wait_close"} /\ cyc[t] = "ok" => mark[t] <= Len(acked)

MarksCovered == \A t \in Threads : Marked(t)
OwedCovered == \A t \in Threads : LeadsClose(t) /\ CycleLed => Covered(t)

(* With nothing pending everything captured is acknowledged.                *)
LEMMA DrainedAcked ==
  ASSUME TypeOK, Conservation, Accounting, pendingCount = 0
  PROVE  acked = captured
<1>1. /\ acked \in Seq(Event) /\ prepared.events \in Seq(Event) /\ queue \in Seq(Event)
      /\ (acked \o prepared.events) \o queue = acked \o Unacked /\ Unacked \in Seq(Event)
  BY EventLists DEF TypeOK
<1>2. Len(Unacked) = 0
  BY DEF Accounting, Unacked
<1>3. Unacked = <<>>
  BY <1>1, <1>2, EmptySeq
<1>4. acked \o Unacked = acked
  BY <1>1, <1>3, EventConcat
<1> QED BY <1>1, <1>4 DEF Conservation

(* The histories only grow.                                                 *)
LEMMA HistoriesGrow ==
  ASSUME TypeOK, BatchInStep, [ClientNext]_vars
  PROVE  /\ Len(captured) \in Nat /\ Len(captured') \in Nat /\ Len(captured) <= Len(captured')
         /\ Len(acked) \in Nat /\ Len(acked') \in Nat /\ Len(acked) <= Len(acked')
<1>1. captured \in Seq(Event) /\ acked \in Seq(Event)
  BY DEF TypeOK, EventTypeOK
<1>2. CASE captured' = captured /\ acked' = acked
  BY <1>1, <1>2
<1>3. ASSUME NEW ids \in Inputs, Capture(ids)
      PROVE  NewEvents(ids) \in Seq(Event) /\ captured' = captured \o NewEvents(ids) /\ acked' = acked
  BY <1>3, CaptureStep
<1>4. ASSUME NEW t \in Threads, Acknowledge(t)
      PROVE  prepared.events \in Seq(Event) /\ acked' = acked \o prepared.events /\ captured' = captured
  BY <1>4, AckStep
<1>5. ASSUME NEW t \in Threads, PrepareBatch(t) \/ CommitBatch(t)
      PROVE  captured' = captured /\ acked' = acked
  BY <1>5 DEF PrepareBatch, CommitBatch, pendingVars
<1>6. ASSUME NEW t \in Threads, SendOk(t) \/ SendRetry(t) \/ SendFail(t) \/ Interrupt(t)
      PROVE  captured' = captured /\ acked' = acked
  BY <1>6, AttemptStep
<1>7. ASSUME NEW s \in Seq(Event) PROVE Len(captured) <= Len(captured \o s) /\ Len(acked) <= Len(acked \o s)
                                        /\ Len(captured \o s) \in Nat /\ Len(acked \o s) \in Nat
  BY <1>1
<1>8. CASE \E ids \in Inputs : Capture(ids)
  BY <1>1, <1>3, <1>7, <1>8
<1>9. CASE \E t \in Threads : Acknowledge(t)
  BY <1>1, <1>4, <1>7, <1>9
<1> QED BY <1>2, <1>5, <1>6, <1>8, <1>9, DeliverySteps DEF Aside

LEMMA MarksCoveredStep ==
  ASSUME TypeOK, BatchInStep, Conservation, Accounting, CallShape, CloseShape, MarksCovered,
         [ClientNext]_vars
  PROVE  MarksCovered'
<1> USE DEF TypeOK, ThreadTypeOK, CountTypeOK, MarksCovered, Marked
<1> DEFINE Covers(u) == pc[u] \in {"d_finish", "wait_close"} /\ cyc[u] = "ok"
<1>0. /\ Worker \in Threads
      /\ Len(captured) \in Nat /\ Len(captured') \in Nat /\ Len(captured) <= Len(captured')
      /\ Len(acked) \in Nat /\ Len(acked') \in Nat /\ Len(acked) <= Len(acked')
      /\ \A u \in Threads : cyc[u] # "open" => pc[u] \in {"d_finish", "wait_drain", "wait_close"}
  BY HistoriesGrow DEF Threads, CallShape
(* Three reasons why the marks stay covered: nothing that matters changes,  *)
(* a call begins, or nothing is pending.                                    *)
<1>1. ASSUME \A u \in Threads : /\ mark'[u] \in {mark[u], 0}
                                /\ Covers(u)' => Covers(u)
      PROVE  MarksCovered'
  <2> SUFFICES ASSUME NEW u \in Threads PROVE Marked(u)'
    OBVIOUS
  <2>1. Marked(u) /\ mark[u] \in Nat /\ mark'[u] \in {mark[u], 0} /\ (Covers(u)' => Covers(u))
    BY <1>1
  <2>2. mark'[u] <= Len(captured')
    BY <1>0, <2>1
  <2>3. Covers(u) => mark'[u] <= Len(acked')
    BY <1>0, <2>1
  <2> QED BY <2>1, <2>2, <2>3
<1>2. ASSUME NEW t \in Threads, mark' = [mark EXCEPT ![t] = Len(captured)], ~Covers(t)',
             \A u \in Threads \ {t} : Covers(u)' => Covers(u)
      PROVE  MarksCovered'
  BY <1>0, <1>2
<1>3. ASSUME pendingCount = 0, acked' = acked, captured' = captured,
             \A u \in Threads : mark'[u] \in {mark[u], 0}
      PROVE  MarksCovered'
  <2>1. acked = captured
    BY <1>3, DrainedAcked
  <2> SUFFICES ASSUME NEW u \in Threads PROVE Marked(u)'
    OBVIOUS
  <2>2. mark[u] \in Nat /\ mark[u] <= Len(captured) /\ mark'[u] \in {mark[u], 0}
    BY <1>3
  <2> QED BY <1>0, <1>3, <2>1, <2>2
<1>4. CASE UNCHANGED vars
  BY <1>1, <1>4 DEF vars, callVars
<1>5. ASSUME NEW ids \in Inputs, Capture(ids) PROVE MarksCovered'
  BY <1>1, <1>5 DEF Capture, callVars
<1>6. ASSUME NEW t \in Threads, Call(t) PROVE MarksCovered'
  <2>1. mark' = [mark EXCEPT ![t] = Len(captured)] /\ cyc[t] = "open"
    BY <1>0, <1>6 DEF Call, Flush, Close, JoinClose, MayCall, Enter
  <2>2. cyc'[t] = "open" /\ \A u \in Threads \ {t} : pc'[u] = pc[u] /\ cyc'[u] = cyc[u]
    BY <1>6, <2>1 DEF Call, Flush, Close, JoinClose, BeginDrain
  <2> QED BY <1>2, <2>1, <2>2
<1>7. ASSUME NEW t \in Threads, DrainCheck(t) PROVE MarksCovered'
  <2>1. UNCHANGED <<mark, captured, acked>>
    BY <1>7 DEF DrainCheck, callVars, pendingVars
  <2>2. CASE pendingCount = 0
    BY <1>3, <2>1, <2>2
  <2>3. CASE pendingCount # 0
    <3>1. \A u \in Threads : Covers(u)' => Covers(u)
      BY <1>7, <2>3 DEF DrainCheck, Drained
    <3> QED BY <1>1, <2>1, <3>1
  <2> QED BY <2>2, <2>3
<1>8. ASSUME NEW t \in Threads, PrepareBatch(t) \/ CommitBatch(t) \/ Acknowledge(t) PROVE MarksCovered'
  <2>1. mark' = mark
    BY <1>8 DEF PrepareBatch, CommitBatch, Acknowledge, callVars
  <2>2. /\ \A u \in Threads \ {t} : pc'[u] = pc[u] /\ cyc'[u] = cyc[u]
        /\ cyc'[t] \in {cyc[t], "err"} /\ cyc[t] = "open"
    BY <1>0, <1>8 DEF PrepareBatch, CommitBatch, Acknowledge
  <2> QED BY <1>1, <2>1, <2>2
<1>9. ASSUME NEW t \in Threads, SendOk(t) \/ SendRetry(t) \/ SendFail(t) PROVE MarksCovered'
  <2>1. mark' = mark
    BY <1>9 DEF SendOk, SendRetry, SendFail, SendUnchanged, callVars
  <2>2. /\ \A u \in Threads \ {t} : pc'[u] = pc[u] /\ cyc'[u] = cyc[u]
        /\ cyc'[t] \in {cyc[t], "err"} /\ cyc[t] = "open"
    BY <1>0, <1>9 DEF SendOk, SendRetry, SendFail
  <2> QED BY <1>1, <2>1, <2>2
<1>10. ASSUME NEW t \in Threads, FinishDrain(t) PROVE MarksCovered'
  <2>1. \A u \in Threads : mark'[u] \in {mark[u], 0}
    BY <1>10 DEF FinishDrain, LeaveDrain, Return, callVars
  <2>2. \A u \in Threads \ {t} : pc'[u] = pc[u] /\ (pc[u] # "wait_drain" => cyc'[u] = cyc[u])
    BY <1>10 DEF FinishDrain, Joined
  <2>3. cyc'[t] = "open"
    BY <1>10 DEF FinishDrain, Joined
  <2> QED BY <1>1, <2>1, <2>2, <2>3
<1>11. ASSUME NEW t \in Threads, AwaitDrain(t) \/ AwaitClose(t) PROVE MarksCovered'
  <2>1. \A u \in Threads : mark'[u] \in {mark[u], 0}
    BY <1>11 DEF AwaitDrain, AwaitClose, LeaveDrain, Return, callVars
  <2>2. \A u \in Threads : Covers(u)' => Covers(u)
    BY <1>11 DEF AwaitDrain, AwaitClose
  <2> QED BY <1>1, <2>1, <2>2
<1>12. ASSUME NEW t \in Threads, CloseLoop(t) \/ CloseClient(t) \/ CloseClientFails(t) PROVE MarksCovered'
  <2>1. mark' = mark
    BY <1>12 DEF CloseLoop, CloseClient, CloseClientFails, ClientUnchanged, callVars
  <2>2. \A u \in Threads : Covers(u)' => Covers(u)
    BY <1>12 DEF CloseLoop, BeginDrain, CloseClient, CloseClientFails, ClientUnchanged
  <2> QED BY <1>1, <2>1, <2>2
<1>13. ASSUME NEW t \in Threads, CloseSeal(t) PROVE MarksCovered'
  <2>1. pendingCount = 0
    BY <1>13 DEF CloseSeal, CloseShape
  <2> QED BY <1>3, <1>13, <2>1 DEF CloseSeal, EndCloseCycle, Return, pendingVars
<1>14. ASSUME NEW t \in Threads, CloseUndo(t) PROVE MarksCovered'
  <2>1. \A u \in Threads : mark'[u] \in {mark[u], 0}
    BY <1>14 DEF CloseUndo, EndCloseCycle, Return
  <2>2. \A u \in Threads : Covers(u)' => Covers(u)
    BY <1>0, <1>14 DEF CloseUndo, EndCloseCycle, Resumed, Home
  <2> QED BY <1>1, <2>1, <2>2
<1>15. CASE WorkerStep \/ Tick
  <2>1. mark' = mark
    BY <1>15 DEF WorkerStep, WorkerStop, WorkerIdle, WorkerDrain, WorkerSleep, WorkerTimeout,
        WorkerCallback, WorkerUnchanged, Tick, callVars
  <2>2. \A u \in Threads : Covers(u)' => Covers(u)
    BY <1>0, <1>15 DEF WorkerStep, WorkerStop, WorkerIdle, WorkerDrain, WorkerSleep, WorkerTimeout,
        WorkerWait, WorkerCallback, BeginDrain, Tick
  <2> QED BY <1>1, <2>1, <2>2
<1>16. ASSUME NEW t \in Threads, Interrupt(t) PROVE MarksCovered'
  BY <1>1, <1>16 DEF Interrupt, Return, Home
<1> QED
  BY <1>4, <1>5, <1>6, <1>7, <1>8, <1>9, <1>10, <1>11, <1>12, <1>13, <1>14, <1>15, <1>16,
     InterruptAssumption DEF Next, ClientNext, DrainStep, CloseStep, Terminated, Threads

LEMMA OwedCoveredStep ==
  ASSUME TypeOK, TypeOK', Leads, BatchInStep, Accounting, CallShape, CloseShape, OwedCovered,
         [ClientNext]_vars
  PROVE  OwedCovered'
<1> USE DEF TypeOK, ThreadTypeOK, CountTypeOK, OwedCovered
<1> DEFINE inCycle == IF drainCycle = NoThread THEN 0 ELSE accepted[drainCycle]
<1>0. /\ Worker \in Threads /\ NoThread \notin Threads
      /\ pendingCount \in Nat /\ drainCycle \in Threads \cup {NoThread}
      /\ pendingCount' \in Nat /\ drainCycle' \in Threads \cup {NoThread}
      /\ \A u \in Threads : cyc[u] # "open" => pc[u] \in {"d_finish", "wait_drain", "wait_close"}
      /\ \A u \in Threads : pc[u] \in {"idle", "w_loop", "w_callback", "w_exit"} => call[u] = "none"
      /\ \A u, v \in Threads : LeadsClose(u) /\ LeadsClose(v) => u = v
  <2>1. /\ Worker \in Threads /\ NoThread \notin Threads
        /\ pendingCount \in Nat /\ drainCycle \in Threads \cup {NoThread}
        /\ pendingCount' \in Nat /\ drainCycle' \in Threads \cup {NoThread}
    BY ThreadAssumption DEF Threads, EventTypeOK, ControlTypeOK
  <2>2. \A u \in Threads : cyc[u] # "open" => pc[u] \in {"d_finish", "wait_drain", "wait_close"}
    BY DEF CallShape
  <2>3. \A u \in Threads : pc[u] \in {"idle", "w_loop", "w_callback", "w_exit"} => call[u] = "none"
    BY DEF CallShape
  <2>4. \A u, v \in Threads : LeadsClose(u) /\ LeadsClose(v) => u = v
    BY DEF CloseShape
  <2> QED BY <2>1, <2>2, <2>3, <2>4
<1>00. inCycle \in Nat /\ inCycle' \in Nat
  BY <1>0
<1>01. /\ \A u \in Threads : Covered(u) <=> owed[u] <= tally[u] + pendingCount + inCycle
       /\ \A u \in Threads : Covered(u)' <=> owed'[u] <= tally'[u] + pendingCount' + inCycle'
  BY DEF Covered
<1>02. ASSUME UNCHANGED drainCycle, NEW t \in Threads, pc'[t] = pc[t] \/ pc'[t] \notin DrainPcs,
              \A u \in Threads \ {t} : pc'[u] = pc[u]
       PROVE  CycleLed' => CycleLed
  <2>1. CASE drainCycle \in Threads \ {t} \/ drainCycle = NoThread
    BY <1>02, <2>1 DEF CycleLed
  <2>2. CASE drainCycle = t
    BY <1>02, <2>2 DEF CycleLed
  <2> QED BY <1>0, <2>1, <2>2
(* Nothing of it changes, or a close that was led is led no more.           *)
<1>1. ASSUME UNCHANGED <<pendingCount, accepted, owed, tally, drainCycle>>, CycleLed' => CycleLed,
             \A u \in Threads : LeadsClose(u)' => LeadsClose(u)
      PROVE  OwedCovered'
  BY <1>1 DEF Covered
<1>2. CASE UNCHANGED vars
  BY <1>1, <1>2 DEF vars, callVars, localVars, pendingVars, CycleLed, LeadsClose
<1>3. ASSUME NEW ids \in Inputs, Capture(ids) PROVE OwedCovered'
  <2>1. /\ UNCHANGED <<accepted, owed, tally, drainCycle, pc, call>>
        /\ pendingCount' = pendingCount + Len(ids) /\ Len(ids) \in Nat
    BY <1>3, NewEventsType DEF Capture, callVars, localVars, EventTypeOK
  <2>2. CycleLed' => CycleLed
    BY <2>1 DEF CycleLed
  <2>3. ASSUME NEW u \in Threads, LeadsClose(u)', CycleLed' PROVE Covered(u)'
    <3>1. Covered(u)
      BY <2>1, <2>2, <2>3 DEF LeadsClose
    <3>2. owed[u] \in Nat /\ tally[u] \in Nat /\ inCycle' = inCycle
      BY <2>1
    <3> HIDE DEF inCycle
    <3>3. owed[u] <= tally[u] + pendingCount + inCycle
      BY <1>01, <3>1
    <3>4. owed[u] <= tally[u] + pendingCount' + inCycle'
      <4>1. \A o, l, p, n, c \in Nat : o <= l + p + c => o <= l + (p + n) + c
        OBVIOUS
      <4>2. pendingCount' = pendingCount + Len(ids) /\ Len(ids) \in Nat /\ inCycle' = inCycle
        BY <2>1, <3>2
      <4>3. owed[u] <= tally[u] + (pendingCount + Len(ids)) + inCycle
        BY <1>0, <1>00, <3>2, <3>3, <4>1, <4>2
      <4> QED BY <4>2, <4>3
    <3> QED BY <1>01, <2>1, <3>4
  <2> QED BY <2>3
<1>4. ASSUME NEW t \in Threads, Flush(t) PROVE OwedCovered'
  <2>1. \A u \in Threads : ~LeadsClose(u)
    BY <1>4 DEF Flush, Open, CloseShape
  <2>2. \A u \in Threads : ~LeadsClose(u)'
    BY <1>4, <2>1 DEF Flush, BeginDrain, Enter, LeadsClose
  <2> QED BY <2>2
<1>5. ASSUME NEW t \in Threads, Close(t) PROVE OwedCovered'
  <2>1. \A u \in Threads : ~LeadsClose(u)
    BY <1>5 DEF Close, Open, CloseShape
  <2>2. \A u \in Threads : LeadsClose(u)' => u = t
    BY <1>5, <2>1 DEF Close, Enter, LeadsClose
  <2>3. owed'[t] = pendingCount /\ tally'[t] \in Nat /\ pendingCount' = pendingCount
    BY <1>5 DEF Close, Enter, pendingVars
  <2>4. Covered(t)'
    BY <1>0, <1>00, <2>3 DEF Covered
  <2> QED BY <2>2, <2>4
<1>6. ASSUME NEW t \in Threads, NEW op \in {"flush", "close"}, JoinClose(t, op) PROVE OwedCovered'
  <2>1. UNCHANGED <<pendingCount, accepted, tally, drainCycle>>
    BY <1>6 DEF JoinClose, pendingVars, localVars
  <2>2. pc[t] \in {"idle", "w_callback"}
    BY <1>6 DEF JoinClose, MayCall
  <2>3. /\ ~LeadsClose(t)'
        /\ \A u \in Threads \ {t} : (LeadsClose(u)' => LeadsClose(u)) /\ owed'[u] = owed[u]
    BY <1>6 DEF JoinClose, Enter, LeadsClose
  <2>4. CycleLed' => CycleLed
    BY <1>6, <2>1 DEF JoinClose, CycleLed, DrainPcs
  <2> QED BY <2>1, <2>3, <2>4 DEF Covered
<1>7. ASSUME NEW t \in Threads, DrainCheck(t) \/ PrepareBatch(t) \/ CommitBatch(t) PROVE OwedCovered'
  <2>1. UNCHANGED <<pendingCount, accepted, owed, tally, drainCycle, call>>
    BY <1>7 DEF DrainCheck, PrepareBatch, CommitBatch, callVars, localVars, pendingVars
  <2>2. drainCycle = t /\ pc[t] \in DrainPcs /\ \A u \in Threads \ {t} : pc'[u] = pc[u]
    BY <1>7 DEF DrainCheck, PrepareBatch, CommitBatch, Leads, DrainPcs
  <2>3. CycleLed /\ \A u \in Threads : LeadsClose(u)' => LeadsClose(u)
    BY <2>1, <2>2 DEF CycleLed, LeadsClose, DrainPcs
  <2> QED BY <1>1, <2>1, <2>3
<1>8. ASSUME NEW t \in Threads, SendOk(t) \/ SendRetry(t) \/ SendFail(t) PROVE OwedCovered'
  <2>1. UNCHANGED <<pendingCount, accepted, owed, tally, drainCycle, call>>
    BY <1>8 DEF SendOk, SendRetry, SendFail, SendUnchanged, callVars, pendingVars
  <2>2. drainCycle = t /\ pc[t] \in DrainPcs /\ \A u \in Threads \ {t} : pc'[u] = pc[u]
    BY <1>8 DEF SendOk, SendRetry, SendFail, Leads, DrainPcs
  <2>3. CycleLed /\ \A u \in Threads : LeadsClose(u)' => LeadsClose(u)
    BY <2>1, <2>2 DEF CycleLed, LeadsClose, DrainPcs
  <2> QED BY <1>1, <2>1, <2>3
<1>9. ASSUME NEW t \in Threads, Acknowledge(t) PROVE OwedCovered'
  <2>1. UNCHANGED <<owed, tally, drainCycle, call>>
    BY <1>9 DEF Acknowledge, callVars
  <2>2. drainCycle = t /\ pc[t] \in DrainPcs /\ \A u \in Threads \ {t} : pc'[u] = pc[u]
    BY <1>9 DEF Acknowledge, Leads, DrainPcs
  <2>3. CycleLed /\ \A u \in Threads : LeadsClose(u)' => LeadsClose(u)
    BY <2>1, <2>2 DEF CycleLed, LeadsClose, DrainPcs
  <2>4. /\ prepared = batch[t] /\ Len(batch[t].events) \in Nat
        /\ pendingCount' = pendingCount - Len(batch[t].events)
        /\ accepted'[t] = accepted[t] + Len(batch[t].events)
    <3>1. prepared = batch[t] /\ batch[t].events \in Seq(Event)
      BY <1>9 DEF Acknowledge, BatchInStep, EventTypeOK, Batch
    <3> QED BY <1>9, <3>1 DEF Acknowledge, Remaining
  <2>5. inCycle = accepted[t] /\ inCycle' = accepted'[t]
    BY <1>0, <2>1, <2>2
  <2>6. pendingCount' + inCycle' = pendingCount + inCycle
    <3> HIDE DEF inCycle
    <3>1. \A p, n, a \in Nat : (p - n) + (a + n) = p + a
      OBVIOUS
    <3>2. accepted[t] \in Nat
      OBVIOUS
    <3>3. /\ inCycle = accepted[t] /\ inCycle' = accepted[t] + Len(batch[t].events)
          /\ pendingCount' = pendingCount - Len(batch[t].events)
      BY <2>4, <2>5
    <3>4. pendingCount \in Nat /\ Len(batch[t].events) \in Nat
      BY <1>0, <2>4
    <3>5. (pendingCount - Len(batch[t].events)) + (accepted[t] + Len(batch[t].events))
          = pendingCount + accepted[t]
      BY <3>1, <3>2, <3>4
    <3> QED BY <3>3, <3>5
  <2>7. ASSUME NEW u \in Threads, LeadsClose(u)' PROVE Covered(u)'
    <3>1. Covered(u) /\ owed[u] \in Nat /\ tally[u] \in Nat
      BY <2>3, <2>7
    <3> HIDE DEF inCycle
    <3>2. owed[u] <= tally[u] + (pendingCount + inCycle)
      BY <1>0, <1>00, <1>01, <3>1
    <3>3. owed[u] <= tally[u] + (pendingCount' + inCycle')
      BY <2>6, <3>2
    <3>4. owed[u] <= tally[u] + pendingCount' + inCycle'
      BY <1>0, <1>00, <3>1, <3>3
    <3> QED BY <1>01, <2>1, <3>4
  <2> QED BY <2>7
<1>10. ASSUME NEW t \in Threads, FinishDrain(t) PROVE OwedCovered'
  <2>1. drainCycle = t /\ pc[t] = "d_finish" /\ CycleLed /\ drainCycle' = NoThread
    BY <1>10 DEF FinishDrain, Leads, CycleLed, DrainPcs
  <2>2. /\ pendingCount' = pendingCount
        /\ tally' = [u \in Threads |-> IF Reports(u, t) THEN tally[u] + accepted[t] ELSE tally[u]]
    BY <1>10 DEF FinishDrain, pendingVars
  <2>3. \A u \in Threads : LeadsClose(u)' => LeadsClose(u) /\ owed'[u] = owed[u]
    <3>1. \A u \in Threads \ {t} : pc'[u] = pc[u] /\ call'[u] = call[u] /\ owed'[u] = owed[u]
      BY <1>10 DEF FinishDrain, LeaveDrain, Return, callVars
    <3>2. /\ call[t] = "close" => call' = call /\ owed' = owed
          /\ call[t] # "close" => call'[t] = "none"
      BY <1>10 DEF FinishDrain, LeaveDrain, Return, callVars
    <3> QED BY <2>1, <3>1, <3>2 DEF LeadsClose
  <2>4. ASSUME NEW u \in Threads, LeadsClose(u) PROVE Reports(u, t)
    <3>1. pc[u] \in DrainPcs \cup {"wait_drain"}
      BY <1>0, <2>1, <2>4 DEF CloseShape, LeadsClose, Pcs
    <3>2. pc[u] \in DrainPcs => u = t
      BY <2>1 DEF Leads
    <3>3. pc[u] = "wait_drain" => cyc[u] = "open"
      BY <1>0, <2>1, <2>4 DEF CloseShape
    <3> QED BY <2>4, <3>1, <3>2, <3>3 DEF Reports, Joined, LeadsClose
  <2>5. ASSUME NEW u \in Threads, LeadsClose(u)' PROVE Covered(u)'
    <3>1. owed[u] <= tally[u] + pendingCount + accepted[t]
      BY <1>0, <2>1, <2>3, <2>5 DEF Covered
    <3>2. tally'[u] = tally[u] + accepted[t] /\ owed'[u] = owed[u]
      BY <2>2, <2>3, <2>4, <2>5
    <3>3. tally[u] \in Nat /\ accepted[t] \in Nat /\ owed[u] \in Nat
      OBVIOUS
    <3> QED BY <1>0, <2>1, <2>2, <3>1, <3>2, <3>3 DEF Covered
  <2> QED BY <2>5
<1>11. ASSUME NEW t \in Threads, AwaitDrain(t) PROVE OwedCovered'
  <2>1. UNCHANGED <<pendingCount, accepted, tally, drainCycle>>
    BY <1>11 DEF AwaitDrain, localVars, pendingVars
  <2>2. /\ pc[t] = "wait_drain"
        /\ \A u \in Threads \ {t} : pc'[u] = pc[u] /\ call'[u] = call[u] /\ owed'[u] = owed[u]
        /\ call[t] = "close" => call' = call /\ owed' = owed
        /\ call[t] # "close" => call'[t] # "close"
    <3>1. CASE cyc[t] = "open"
      BY <1>11, <3>1 DEF AwaitDrain, callVars
    <3>2. CASE cyc[t] # "open"
      BY <1>11, <3>2 DEF AwaitDrain, LeaveDrain, Return, callVars
    <3> QED BY <3>1, <3>2
  <2>3. AfterDrain(t, FALSE) \notin DrainPcs
    BY AfterDrainType
  <2>4. CycleLed' => CycleLed
    <3>1. pc'[t] = pc[t] \/ pc'[t] \notin DrainPcs
      BY <1>11, <2>3 DEF AwaitDrain
    <3> QED BY <1>02, <2>1, <2>2, <3>1
  <2>5. \A u \in Threads : LeadsClose(u)' => LeadsClose(u) /\ owed'[u] = owed[u]
    BY <2>2 DEF LeadsClose
  <2> QED BY <2>1, <2>4, <2>5 DEF Covered
<1>12. ASSUME NEW t \in Threads, CloseLoop(t) PROVE OwedCovered'
  <2>1. /\ drainCycle = NoThread /\ pc[t] = "c_loop" /\ LeadsClose(t) /\ CycleLed
        /\ UNCHANGED <<pendingCount, accepted, owed, tally, call>>
    BY <1>12 DEF CloseLoop, CloseShape, CallShape, ClosePcs, LeadsClose, CycleLed, callVars, localVars,
                 pendingVars
  <2>2. \A u \in Threads : LeadsClose(u)' => u = t
    BY <1>0, <1>12, <2>1 DEF CloseLoop, BeginDrain, LeadsClose
  <2>3. owed[t] <= tally[t] + pendingCount + 0
    BY <2>1 DEF Covered
  <2>4. owed[t] \in Nat /\ tally[t] \in Nat
    OBVIOUS
  <2>5. Covered(t)'
    BY <1>0, <1>00, <2>1, <2>3, <2>4 DEF Covered
  <2> QED BY <2>2, <2>5
<1>13. ASSUME NEW t \in Threads, CloseClient(t) \/ CloseClientFails(t) PROVE OwedCovered'
  <2>1. /\ UNCHANGED <<pendingCount, accepted, owed, tally, drainCycle, call>>
        /\ pc[t] = "c_client" /\ drainCycle = NoThread
    BY <1>13 DEF CloseClient, CloseClientFails, ClientUnchanged, callVars, localVars, pendingVars,
                 CloseShape, ClosePcs
  <2>2. CycleLed /\ \A u \in Threads : LeadsClose(u)' => LeadsClose(u)
    BY <1>13, <2>1 DEF CloseClient, CloseClientFails, LeadsClose, CycleLed
  <2> QED BY <1>1, <2>1, <2>2
<1>14. ASSUME NEW t \in Threads, CloseSeal(t) \/ CloseUndo(t) PROVE OwedCovered'
  <2>1. LeadsClose(t)
    BY <1>14 DEF CloseSeal, CloseUndo, CallShape, ClosePcs, LeadsClose
  <2>2. call' = [call EXCEPT ![t] = "none"]
    BY <1>14 DEF CloseSeal, CloseUndo, EndCloseCycle, Return
  <2>3. \A u \in Threads : pc'[u] # "wait_close" => pc[u] # "wait_close" \/ u = t \/ call[u] # "close"
    BY <1>0, <1>14 DEF CloseSeal, CloseUndo, Resumed, WorkerJoined
  <2> QED BY <1>0, <2>1, <2>2, <2>3 DEF LeadsClose
<1>15. ASSUME NEW t \in Threads, AwaitClose(t) PROVE OwedCovered'
  <2>1. UNCHANGED <<pendingCount, accepted, tally, drainCycle>>
    BY <1>15 DEF AwaitClose, localVars, pendingVars
  <2>2. /\ pc[t] = "wait_close"
        /\ \A u \in Threads \ {t} : pc'[u] = pc[u] /\ call'[u] = call[u] /\ owed'[u] = owed[u]
        /\ pc'[t] = pc[t] \/ call'[t] = "none"
    BY <1>15 DEF AwaitClose, Return, callVars
  <2>3. CycleLed' => CycleLed
    <3>1. pc'[t] = pc[t] \/ pc'[t] \notin DrainPcs
      BY <1>15 DEF AwaitClose, DrainPcs, Home
    <3> QED BY <1>02, <2>1, <2>2, <3>1
  <2>4. ~LeadsClose(t)' /\ \A u \in Threads \ {t} : LeadsClose(u)' => LeadsClose(u) /\ owed'[u] = owed[u]
    BY <2>2 DEF LeadsClose
  <2> QED BY <2>1, <2>3, <2>4 DEF Covered
<1>16. CASE WorkerDrain
  <2>1. \A u \in Threads : ~LeadsClose(u)
    BY <1>16 DEF WorkerDrain, CloseShape
  <2>2. \A u \in Threads : ~LeadsClose(u)'
    BY <1>0, <1>16, <2>1 DEF WorkerDrain, WorkerAwake, WorkerUnchanged, callVars, BeginDrain, LeadsClose
  <2> QED BY <2>2
<1>17. CASE WorkerStop \/ WorkerCallback
  <2>1. UNCHANGED <<pendingCount, accepted, owed, tally, drainCycle, call>>
    BY <1>17 DEF WorkerStop, WorkerCallback, WorkerUnchanged, callVars, localVars, pendingVars
  <2>2. /\ pc[Worker] \in {"w_loop", "w_callback"} /\ pc'[Worker] \in {"w_exit", "w_loop"}
        /\ \A u \in Threads \ {Worker} : pc'[u] = pc[u]
    BY <1>0, <1>17 DEF WorkerStop, WorkerCallback, WorkerAwake
  <2>3. \A u \in Threads : LeadsClose(u)' => LeadsClose(u)
    BY <2>1, <2>2 DEF LeadsClose
  <2>4. CycleLed' => CycleLed
    BY <1>0, <1>02, <2>1, <2>2 DEF DrainPcs
  <2> QED BY <1>1, <2>1, <2>3, <2>4
<1>18. CASE WorkerIdle \/ WorkerSleep \/ WorkerTimeout \/ Tick
  <2>1. UNCHANGED <<pendingCount, accepted, owed, tally, drainCycle, call, pc>>
    BY <1>18 DEF WorkerIdle, WorkerSleep, WorkerTimeout, Tick, WorkerWait, WorkerUnchanged, callVars,
                 localVars, pendingVars
  <2> QED BY <1>1, <2>1 DEF LeadsClose, CycleLed
<1>19. ASSUME NEW t \in Threads, Interrupt(t) PROVE OwedCovered'
  <2>1. drainCycle = t /\ drainCycle' = t /\ pc'[t] \notin DrainPcs
    BY <1>19 DEF Interrupt, Home, Leads, DrainPcs
  <2> QED BY <1>0, <2>1 DEF CycleLed
<1> QED
  BY <1>2, <1>3, <1>4, <1>5, <1>6, <1>7, <1>8, <1>9, <1>10, <1>11, <1>12, <1>13, <1>14, <1>15, <1>16,
     <1>17, <1>18, <1>19, InterruptAssumption
     DEF Next, ClientNext, Call, DrainStep, CloseStep, WorkerStep, Terminated, Threads

-------------------------------------------------------------------------------
(* The second group of theorems                                             *)

(* The whole invariant: each part is inductive given the parts before it.   *)
SInv ==
  /\ IInv
  /\ CallShape /\ CloseShape /\ Parked /\ TimerForPending
  /\ Numbered /\ BatchSized /\ KeysFresh /\ SentOnce /\ ExactlyOnce
  /\ MarksCovered /\ OwedCovered

LEMMA InitSInv == Init => SInv
<1> SUFFICES ASSUME Init PROVE SInv
  OBVIOUS
<1>0. IInv
  BY InitIInv
<1>1. /\ queue = <<>> /\ captured = <<>> /\ acked = <<>> /\ server = {} /\ prepared = NoBatch
      /\ waitset = {} /\ deadline = "none" /\ pendingCount = 0
  BY DEF Init
<1>2. \A t \in Threads : /\ pc[t] = Home(t) /\ Home(t) \in {"idle", "w_loop"} /\ call[t] = "none"
                         /\ cyc[t] = "open" /\ mark[t] = 0
  BY DEF Init, Home
<1>3. CallShape
  BY <1>1, <1>2 DEF CallShape, DrainPcs, ClosePcs, Home
<1>4. CloseShape
  BY <1>2, ThreadAssumption DEF CloseShape, LeadsClose, ClosePcs, Init, Home, Threads
<1>5. Parked /\ TimerForPending
  BY <1>1 DEF Parked, TimerForPending
<1>6. Numbered /\ ExactlyOnce
  BY <1>1 DEF Numbered, ExactlyOnce
<1>7. BatchSized /\ KeysFresh /\ SentOnce
  BY <1>1, <1>2 DEF BatchSized, KeysFresh, SentOnce
<1>8. MarksCovered
  BY <1>1, <1>2 DEF MarksCovered, Marked
<1>9. OwedCovered
  BY <1>2 DEF OwedCovered, LeadsClose
<1> QED BY <1>0, <1>3, <1>4, <1>5, <1>6, <1>7, <1>8, <1>9 DEF SInv

LEMMA NextSInv == SInv /\ [ClientNext]_vars => SInv'
<1> SUFFICES ASSUME SInv, [ClientNext]_vars PROVE SInv'
  OBVIOUS
<1>0. IInv' /\ TypeOK' /\ Accounting'
  BY NextIInv DEF SInv, IInv
<1> USE DEF SInv, IInv
<1>1. CallShape' /\ CloseShape' /\ Parked'
  BY <1>0, CallShapeStep, CloseShapeStep, ParkedStep
<1>2. TimerForPending' /\ Numbered' /\ BatchSized' /\ KeysFresh'
  BY <1>0, TimerForPendingStep, NumberedStep, BatchSizedStep, KeysFreshStep
<1>3. SentOnce' /\ ExactlyOnce'
  BY SentOnceStep, ExactlyOnceStep
<1>4. MarksCovered' /\ OwedCovered'
  BY <1>0, MarksCoveredStep, OwedCoveredStep
<1> QED BY <1>0, <1>1, <1>2, <1>3, <1>4

LEMMA StrongInductive == ClientSafety => []SInv
<1> QED BY InitSInv, NextSInv, PTL DEF ClientSafety

(* At a service that drops repeated idempotency keys every event counts     *)
(* once, whatever is retried, fails or is interrupted, and no event is      *)
(* acknowledged that the service does not have (_send, _drain).             *)
THEOREM ReceivedOnce == InterruptSafety => []ExactlyOnce
<1>1. SInv => ExactlyOnce BY DEF SInv
<1> QED BY <1>1, StrongInductive, Interrupted, PTL

(* From the moment close() finds nothing pending no thread drains, and      *)
(* everything ever captured is acknowledged (close).                        *)
THEOREM ClosedIsDelivered == InterruptSafety => []QuietAfterClose
<1>1. SInv => QuietAfterClose
  <2> SUFFICES ASSUME SInv, closed \/ \E t \in Threads : pc[t] \in {"c_client", "c_seal"}
               PROVE  /\ pendingCount = 0 /\ acked = captured
                      /\ \A t \in Threads : pc[t] \notin DrainPcs
    BY DEF QuietAfterClose
  <2>1. pendingCount = 0 /\ drainCycle = NoThread
    BY DEF SInv, CloseShape, ClosePcs
  <2>2. acked = captured
    BY <2>1, DrainedAcked DEF SInv, IInv
  <2>3. NoThread \notin Threads
    BY ThreadAssumption DEF Threads
  <2> QED BY <2>1, <2>2, <2>3 DEF SInv, IInv, Leads
<1> QED BY <1>1, StrongInductive, Interrupted, PTL

(* The leader of an open close cycle is inside close() until it ends the    *)
(* cycle.                                                                   *)
Closer == closing => closeCycle \in Threads /\ LeadsClose(closeCycle)

LEMMA CloserStep ==
  ASSUME TypeOK, CallShape, Closer, [Next]_vars
  PROVE  Closer'
<1> USE DEF TypeOK, ThreadTypeOK, ControlTypeOK, Closer, LeadsClose
<1>0. ASSUME NEW t \in Threads, pc[t] \in {"idle", "w_loop", "w_callback", "w_exit", "wait_close"},
             UNCHANGED <<closing, closeCycle>>,
             \A u \in Threads \ {t} : pc'[u] = pc[u] /\ call'[u] = call[u]
      PROVE  Closer'
  <2>1. closing => closeCycle # t
    BY <1>0 DEF CallShape
  <2> QED BY <1>0, <2>1
<1>1. CASE UNCHANGED <<pc, call, closing, closeCycle>>
  BY <1>1
<1>2. ASSUME NEW ids \in Inputs, Capture(ids) PROVE Closer'
  BY <1>1, <1>2 DEF Capture, callVars, closeVars
<1>3. ASSUME NEW t \in Threads, Flush(t) PROVE Closer'
  BY <1>3 DEF Flush, Open, closeVars
<1>4. ASSUME NEW t \in Threads, Close(t) PROVE Closer'
  <2>1. pc'[t] # "wait_close" /\ call'[t] = "close" /\ closeCycle' = t
    BY <1>4 DEF Close, Enter
  <2> QED BY <2>1
<1>5. ASSUME NEW t \in Threads, NEW op \in {"flush", "close"}, JoinClose(t, op) PROVE Closer'
  BY <1>0, <1>5 DEF JoinClose, MayCall, Enter, closeVars
<1>0a. ASSUME NEW t \in Threads, NEW p \in {"d_check", "d_prepare", "d_commit", "d_send", "d_ack", "d_finish"},
              pc' = [pc EXCEPT ![t] = p], UNCHANGED <<call, closing, closeCycle>>
       PROVE  Closer'
  BY <1>0a
<1>6. ASSUME NEW t \in Threads, DrainCheck(t) \/ PrepareBatch(t) \/ CommitBatch(t) \/ Acknowledge(t)
      PROVE  Closer'
  <2>1. CASE DrainCheck(t)
    BY <1>0a, <2>1 DEF DrainCheck, callVars, closeVars
  <2>2. CASE PrepareBatch(t)
    BY <1>0a, <2>2 DEF PrepareBatch, callVars, closeVars
  <2>3. CASE CommitBatch(t)
    BY <1>0a, <2>3 DEF CommitBatch, callVars, closeVars
  <2>4. CASE Acknowledge(t)
    BY <1>0a, <2>4 DEF Acknowledge, callVars, closeVars
  <2> QED BY <1>6, <2>1, <2>2, <2>3, <2>4
<1>7. ASSUME NEW t \in Threads, SendOk(t) \/ SendRetry(t) \/ SendFail(t) PROVE Closer'
  <2>1. CASE SendOk(t)
    BY <1>0a, <2>1 DEF SendOk, SendUnchanged, callVars, closeVars
  <2>2. CASE SendRetry(t)
    BY <1>1, <2>2 DEF SendRetry, SendUnchanged, callVars, closeVars
  <2>3. CASE SendFail(t)
    BY <1>0a, <2>3 DEF SendFail, SendUnchanged, callVars, closeVars
  <2> QED BY <1>7, <2>1, <2>2, <2>3
<1>8. ASSUME NEW t \in Threads, FinishDrain(t) PROVE Closer'
  BY <1>8 DEF FinishDrain, AfterDrain, LeaveDrain, Return, callVars, closeVars
<1>9. ASSUME NEW t \in Threads, AwaitDrain(t) PROVE Closer'
  BY <1>9 DEF AwaitDrain, AfterDrain, LeaveDrain, Return, callVars, closeVars
<1>10. ASSUME NEW t \in Threads, CloseLoop(t) PROVE Closer'
  BY <1>10 DEF CloseLoop, BeginDrain, callVars, closeVars
<1>11. ASSUME NEW t \in Threads, CloseClient(t) \/ CloseClientFails(t) PROVE Closer'
  BY <1>11 DEF CloseClient, CloseClientFails, ClientUnchanged, callVars
<1>12. ASSUME NEW t \in Threads, CloseSeal(t) \/ CloseUndo(t) PROVE Closer'
  BY <1>12 DEF CloseSeal, CloseUndo, EndCloseCycle
<1>13. ASSUME NEW t \in Threads, AwaitClose(t) PROVE Closer'
  BY <1>0, <1>13 DEF AwaitClose, Return, callVars, closeVars
<1>14. CASE WorkerStop \/ WorkerDrain \/ WorkerCallback
  <2>1. Worker \in Threads
    BY DEF Threads
  <2>2. pc[Worker] \in {"w_loop", "w_callback"} /\ UNCHANGED <<call, closing, closeCycle>>
    BY <1>14 DEF WorkerStop, WorkerDrain, WorkerCallback, WorkerAwake, WorkerUnchanged, callVars,
                 closeVars
  <2>3. \A u \in Threads \ {Worker} : pc'[u] = pc[u]
    BY <1>14 DEF WorkerStop, WorkerDrain, WorkerCallback, BeginDrain
  <2> QED BY <1>0, <2>1, <2>2, <2>3
<1>15. CASE WorkerIdle \/ WorkerSleep \/ WorkerTimeout \/ Tick
  BY <1>1, <1>15 DEF WorkerIdle, WorkerSleep, WorkerTimeout, WorkerWait, WorkerUnchanged, Tick, callVars,
                     closeVars
<1>16. CASE UNCHANGED vars
  BY <1>1, <1>16 DEF vars, callVars, closeVars
<1> QED
  BY <1>2, <1>3, <1>4, <1>5, <1>6, <1>7, <1>8, <1>9, <1>10, <1>11, <1>12, <1>13, <1>14, <1>15, <1>16
     DEF Next, Call, DrainStep, CloseStep, WorkerStep, Terminated

(* As long as nobody is interrupted, both cycles have a leader.             *)
LedInv == ~interrupted => SingleFlight /\ Closer

LEMMA LedInductive == InterruptSafety => []LedInv
<1>1. InterruptInit => LedInv
  BY ThreadAssumption DEF InterruptInit, Init, LedInv, SingleFlight, Closer, Home, DrainPcs, Threads
<1>2. SInv /\ LedInv /\ [InterruptNext]_<<vars, interrupted>> => LedInv'
  <2> SUFFICES ASSUME SInv, LedInv, [InterruptNext]_<<vars, interrupted>> PROVE LedInv'
    OBVIOUS
  <2>1. CASE \E t \in Interruptible : Interrupt(t)
    BY <2>1 DEF Interrupt, LedInv
  <2>2. CASE [Next]_vars /\ UNCHANGED interrupted
    BY <2>2, SingleFlightStep, CloserStep DEF SInv, IInv, LedInv
  <2> QED BY <2>1, <2>2 DEF InterruptNext
<1> QED BY <1>1, <1>2, StrongInductive, Interrupted, PTL DEF InterruptSafety

(* A thread inside a call that is not parked behind a close moves: a drain  *)
(* it has joined is led.                                                    *)
LEMMA NotParked ==
  ASSUME SInv, SingleFlight, NEW t \in Threads, pc[t] \notin {"idle", "w_exit", "wait_close"},
         t \in waitset => pc[t] # "w_loop"
  PROVE  Moves(t)
<1> USE DEF SInv, IInv, TypeOK, ControlTypeOK, ThreadTypeOK
<1>1. CASE Joined(t)
  <2>1. drainCycle \in Threads
    BY <1>1 DEF Joined, CloseShape
  <2>2. pc[drainCycle] \in DrainPcs
    BY <2>1 DEF SingleFlight
  <2> QED BY <1>1, <2>1, <2>2 DEF Moves, DrainLed
<1>2. CASE ~Joined(t)
  <2>1. t \in waitset => pc[t] = "wait_drain" /\ cyc[t] = "open"
    BY DEF CallShape, Parked
  <2> QED BY <1>2, <2>1 DEF Moves, Joined
<1> QED BY <1>1, <1>2

(* A thread that waits has somebody who will wake it: an open drain has a   *)
(* leader inside _drain, an open close() one that goes on, a parked worker  *)
(* nothing to do before its timeout, and pending events have a worker; only *)
(* an interrupt and a call of on_error during a close() are excepted        *)
(* (_run_or_wait_drain, _wait_close_cycle, _worker_loop, close).            *)
THEOREM NobodyForgotten == InterruptSafety => []Attended
<1>1. SInv /\ LedInv => Attended
  <2> SUFFICES ASSUME SInv, LedInv PROVE Attended
    OBVIOUS
  <2>1. waitset \subseteq Threads /\ Worker \in Threads
    BY DEF SInv, IInv, TypeOK, ControlTypeOK, Threads
  <2>2. NoLostWakeup
    BY <2>1 DEF SInv, NoLostWakeup, Parked, CloseShape
  <2>3. WorkerAlive
    BY DEF SInv, WorkerAlive, CloseShape
  <2>4. ASSUME ~interrupted, drainCycle # NoThread PROVE DrainLed
    BY <2>4 DEF SInv, IInv, TypeOK, ControlTypeOK, LedInv, SingleFlight, DrainLed
  <2>5. ASSUME ~interrupted, closing PROVE CloseLed
    <3> DEFINE c == closeCycle
    <3>1. /\ c \in Threads /\ call[c] = "close" /\ pc[c] # "wait_close"
          /\ SingleFlight /\ workerStop
      BY <2>5 DEF LedInv, Closer, LeadsClose, SInv, CloseShape
    <3>2. pc[c] \notin {"idle", "w_loop", "w_exit"}
      BY <3>1 DEF SInv, CallShape
    <3>3. Moves(c)
      BY <3>1, <3>2, NotParked
    <3>4. ASSUME ~WorkerJoined(c), ~OnErrorWaits PROVE c # Worker /\ Moves(Worker)
      <4>1. c # Worker /\ pc[Worker] \notin {"idle", "w_exit"}
        BY <2>1, <3>4 DEF WorkerJoined, SInv, CallShape
      <4>2. Worker \in waitset => pc[Worker] # "w_loop"
        BY <3>1 DEF SInv, Parked
      <4>3. CASE pc[Worker] = "wait_close"
        <5>1. cyc[Worker] # "open" /\ Worker \notin waitset
          BY <3>4, <4>3 DEF OnErrorWaits, SInv, Parked
        <5> QED BY <4>1, <4>3, <5>1 DEF Moves, Joined
      <4>4. CASE pc[Worker] # "wait_close"
        BY <2>1, <3>1, <4>1, <4>2, <4>4, NotParked
      <4> QED BY <4>1, <4>3, <4>4
    <3> QED BY <3>1, <3>3, <3>4 DEF CloseLed
  <2> QED BY <2>2, <2>3, <2>4, <2>5 DEF Attended
<1> QED BY <1>1, LedInductive, StrongInductive, Interrupted, PTL

(* A flush() that succeeds as the leader of its drain, or after waiting for *)
(* a close(), comes after everything captured before it is acknowledged,    *)
(* and a close() reports at least what it found pending (flush, close).     *)
THEOREM CallsSpeakForTheirEvents == InterruptSafety => CallsCover
<1>1. SInv => \A t \in Threads : LeaderFlushCovers(t) /\ CloseReports(t)
  <2> SUFFICES ASSUME SInv, NEW t \in Threads PROVE LeaderFlushCovers(t) /\ CloseReports(t)
    OBVIOUS
  <2> USE DEF SInv, IInv, TypeOK, CountTypeOK, EventTypeOK
  <2>1. mark[t] \in Nat /\ owed[t] \in Nat /\ tally[t] \in Nat
    OBVIOUS
  <2>2. LeaderFlushCovers(t)
    <3>1. SUFFICES ASSUME Succeeds(t, "flush"), pc[t] # "wait_drain" PROVE Len(acked) >= mark[t]
      BY DEF LeaderFlushCovers
    <3>2. cyc[t] = "ok" /\ pc[t] \in {"d_finish", "wait_close"}
      BY <3>1 DEF Succeeds, CallShape
    <3>3. mark[t] <= Len(acked) /\ Len(acked) \in Nat
      BY <3>2 DEF MarksCovered, Marked
    <3> QED BY <2>1, <3>3
  <2>3. CloseReports(t)
    <3>1. SUFFICES ASSUME pc[t] = "c_seal" PROVE tally[t] >= owed[t]
      BY DEF CloseReports
    <3>2. drainCycle = NoThread /\ pendingCount = 0 /\ LeadsClose(t)
      BY <3>1 DEF CloseShape, CallShape, ClosePcs, LeadsClose
    <3>3. owed[t] <= tally[t] + 0 + 0
      BY <3>2 DEF OwedCovered, Covered, CycleLed
    <3> QED BY <2>1, <3>3
  <2> QED BY <2>2, <2>3
<1> QED BY <1>1, StrongInductive, Interrupted, PTL DEF CallsCover

(* capture() never starts a timer again that is due (_enqueue).             *)
THEOREM TimerNotPostponed == InterruptSafety => DeadlineKept
<1>1. SInv /\ [ClientNext]_vars
      => [deadline = "due" /\ pendingCount' > pendingCount => deadline' = "due" \/ immediate']_vars
  <2> SUFFICES ASSUME SInv, [ClientNext]_vars, deadline = "due", pendingCount' > pendingCount
               PROVE  deadline' = "due" \/ immediate'
    OBVIOUS
  <2>0. pendingCount \in Nat
    BY DEF SInv, IInv, TypeOK, EventTypeOK
  <2>1. ASSUME NEW ids \in Inputs, Capture(ids) PROVE deadline' = "due" \/ immediate'
    <3>1. pendingCount # 0 \/ drainCycle # NoThread
      BY <2>0 DEF SInv, TimerForPending
    <3> QED BY <2>1, <3>1 DEF Capture, DeadlineAfterCapture
  <2>2. ASSUME NEW t \in Threads, Acknowledge(t) PROVE FALSE
    <3>1. pendingCount' = pendingCount - Len(prepared.events) /\ prepared.events \in Seq(Event)
      BY <2>2, AckStep DEF SInv, IInv
    <3> QED BY <2>0, <3>1
  <2>3. ASSUME NEW t \in Threads, CommitBatch(t) PROVE FALSE
    BY <2>0, <2>3, CommitStep DEF SInv, IInv
  <2>4. ASSUME NEW t \in Interruptible, Interrupt(t) PROVE FALSE
    BY <2>0, <2>4 DEF Interrupt, pendingVars
  <2>5. CASE [Next]_vars
    BY <2>0, <2>1, <2>2, <2>3, <2>5, EventSteps
  <2> QED BY <2>4, <2>5 DEF ClientNext
<1> QED BY <1>1, StrongInductive, Interrupted, PTL DEF ClientSafety, DeadlineKept

-------------------------------------------------------------------------------
(* The client implements DeliveryQueue                                      *)

(* A sequence is a prefix of what is appended to it.                        *)
LEMMA PrefixOfExtended ==
  ASSUME NEW s \in Seq(Event), NEW r \in Seq(Event)
  PROVE  Queue!IsPrefix(s, s \o r) /\ Len(s \o r) = Len(s) + Len(r) /\ Len(s) \in Nat /\ Len(r) \in Nat
<1>1. s \o r \in Seq(Event) /\ Len(s \o r) = Len(s) + Len(r) /\ Len(s) \in Nat /\ Len(r) \in Nat
  OBVIOUS
<1>2. SubSeq(s \o r, 1, Len(s)) = SubSeq(s, 1, Len(s))
  BY <1>1, PrefixOfAppended DEF Prefix
<1>3. SubSeq(s, 1, Len(s)) = s
  OBVIOUS
<1> QED BY <1>1, <1>2, <1>3 DEF Queue!IsPrefix

LEMMA CaptureAccepts ==
  ASSUME SInv, SInv', NEW ids \in Inputs, Capture(ids)
  PROVE  Queue!Accept
<1> USE DEF SInv, IInv, TypeOK
<1>1. /\ captured \in Seq(Event) /\ NewEvents(ids) \in Seq(Event)
      /\ captured' = captured \o NewEvents(ids) /\ acked' = acked
  BY CaptureStep DEF EventTypeOK
<1>2. Len(NewEvents(ids)) \in Nat \ {0}
  BY NewEventsType DEF EventTypeOK
<1>3. Len(captured') > Len(captured) /\ Queue!IsPrefix(captured, captured')
  BY <1>1, <1>2, PrefixOfExtended
<1>4. Len(captured') - Len(acked) <= MaxQueue
  <2>1. captured' = acked' \o Unacked' /\ Unacked' \in Seq(Event) /\ acked' \in Seq(Event)
    <3>1. /\ acked' \in Seq(Event) /\ prepared'.events \in Seq(Event) /\ queue' \in Seq(Event)
          /\ (acked' \o prepared'.events) \o queue' = acked' \o Unacked'
      BY EventListsNext DEF EventTypeOK
    <3> QED BY <3>1, EventConcat DEF Conservation, Unacked
  <2>2. Len(Unacked') <= MaxQueue
    BY DEF Accounting, Unacked
  <2>3. Len(captured') = Len(acked') + Len(Unacked') /\ Len(acked') \in Nat /\ Len(Unacked') \in Nat
    BY <2>1, EventConcat
  <2> QED BY <1>1, <2>2, <2>3, SizeAssumption
<1>5. ~closed /\ UNCHANGED closed
  BY DEF Capture, Open, closeVars
<1> QED BY <1>1, <1>3, <1>4, <1>5 DEF Queue!Accept

LEMMA AcknowledgeDelivers ==
  ASSUME SInv, NEW t \in Threads, Acknowledge(t)
  PROVE  Queue!Deliver
<1> USE DEF SInv, IInv, TypeOK
<1>1. /\ prepared.events \in Seq(Event) /\ queue \in Seq(Event) /\ acked \in Seq(Event)
      /\ acked' = acked \o prepared.events /\ UNCHANGED captured
  BY AckStep DEF EventTypeOK
<1>2. Len(prepared.events) \in 1..MaxBatch
  BY DEF Acknowledge, BatchInStep, BatchSized
<1>3. acked' \in Seq(Event) /\ captured = acked' \o queue
  BY <1>1, EventConcat DEF Conservation
<1>4. Queue!IsPrefix(acked, acked') /\ Queue!IsPrefix(acked', captured)
  BY <1>1, <1>3, PrefixOfExtended
<1>5. Len(acked') \in Len(acked) + 1 .. Len(acked) + MaxBatch
  <2>1. Len(acked') = Len(acked) + Len(prepared.events) /\ Len(acked) \in Nat
    BY <1>1, PrefixOfExtended
  <2> QED BY <1>2, <2>1, SizeAssumption
<1>6. UNCHANGED closed
  BY DEF Acknowledge, closeVars
<1> QED BY <1>1, <1>4, <1>5, <1>6 DEF Queue!Deliver

LEMMA SealSeals ==
  ASSUME SInv, NEW t \in Threads, CloseSeal(t)
  PROVE  Queue!Seal
<1> USE DEF SInv, IInv
<1>1. ~closed /\ pendingCount = 0
  BY DEF CloseSeal, CloseShape, CallShape, ClosePcs, LeadsClose
<1>2. acked = captured
  BY <1>1, DrainedAcked
<1> QED BY <1>1, <1>2 DEF CloseSeal, pendingVars, Queue!Seal

(* No other step changes what is accepted, delivered or sealed.             *)
LEMMA QueueStep ==
  ASSUME SInv, SInv', [ClientNext]_vars
  PROVE  [Queue!Next]_(Queue!vars)
<1> USE DEF pendingVars, closeVars, Queue!vars
<1>1. CASE UNCHANGED <<captured, acked, closed>>
  BY <1>1
<1>2. ASSUME NEW ids \in Inputs, Capture(ids) PROVE Queue!Next
  BY <1>2, CaptureAccepts DEF Queue!Next
<1>3. ASSUME NEW t \in Threads, Acknowledge(t) PROVE Queue!Next
  BY <1>3, AcknowledgeDelivers DEF Queue!Next
<1>4. ASSUME NEW t \in Threads, CloseSeal(t) PROVE Queue!Next
  BY <1>4, SealSeals DEF Queue!Next
<1>5. ASSUME NEW t \in Threads, Call(t) PROVE UNCHANGED <<captured, acked, closed>>
  BY <1>5 DEF Call, Flush, Close, JoinClose
<1>6. ASSUME NEW t \in Threads,
             \/ DrainCheck(t) \/ PrepareBatch(t) \/ CommitBatch(t) \/ SendOk(t) \/ SendRetry(t)
             \/ SendFail(t) \/ FinishDrain(t) \/ AwaitDrain(t)
      PROVE  UNCHANGED <<captured, acked, closed>>
  BY <1>6 DEF DrainCheck, PrepareBatch, CommitBatch, SendOk, SendRetry, SendFail, SendUnchanged,
              FinishDrain, AwaitDrain
<1>7. ASSUME NEW t \in Threads,
             CloseLoop(t) \/ CloseClient(t) \/ CloseClientFails(t) \/ CloseUndo(t) \/ AwaitClose(t)
      PROVE  UNCHANGED <<captured, acked, closed>>
  BY <1>7 DEF CloseLoop, CloseClient, CloseClientFails, ClientUnchanged, CloseUndo, AwaitClose
<1>8. ASSUME WorkerStep \/ Tick PROVE UNCHANGED <<captured, acked, closed>>
  BY <1>8 DEF WorkerStep, WorkerStop, WorkerIdle, WorkerDrain, WorkerSleep, WorkerTimeout,
              WorkerCallback, WorkerUnchanged, Tick
<1>9. ASSUME NEW t \in Interruptible, Interrupt(t) PROVE UNCHANGED <<captured, acked, closed>>
  BY <1>9 DEF Interrupt
<1>10. CASE UNCHANGED vars
  BY <1>1, <1>10 DEF vars
<1> QED
  BY <1>1, <1>2, <1>3, <1>4, <1>5, <1>6, <1>7, <1>8, <1>9, <1>10
     DEF Next, ClientNext, DrainStep, CloseStep, Terminated

(* The threads, the batches, the retries and the timers of the client only  *)
(* ever do what the bounded FIFO queue of DeliveryQueue does: events are    *)
(* accepted up to max_queue_size, delivered in order and at most            *)
(* MAX_BATCH_EVENTS at once, and nothing is sealed before it is empty.      *)
THEOREM ClientIsAQueue == InterruptSafety => ImplementsQueue
<1>1. Init => Queue!Init
  BY DEF Init, Queue!Init
<1>2. SInv /\ SInv' /\ [ClientNext]_vars => [Queue!Next]_(Queue!vars)
  BY QueueStep
<1> QED BY <1>1, <1>2, StrongInductive, Interrupted, PTL DEF ClientSafety, ImplementsQueue, Queue!Spec

===============================================================================
