------------------------- MODULE ObservedCatalogProofs -------------------------
(***************************************************************************)
(* Theorems about ObservedCatalog, for any set of pairs and any chunk size. *)
(***************************************************************************)
EXTENDS ObservedCatalog, TLAPS

(* An upload runs with the timer cleared, and a timer set during a cooldown *)
(* waits for its end: so when the timer fires there is something to upload, *)
(* and it may be uploaded.                                                  *)
TimerInv ==
  /\ phase # "none" => ~timer
  /\ timer /\ retry = "future" => "retry" \in waits

(* A cooldown starts only when a request fails, which ends its upload.      *)
CooldownInv == phase = "entered" => retry # "future"

(* A close() that has returned has waited for the upload it found.          *)
CloseInv == /\ closeCall # "none" => closed /\ ~timer
            /\ closeCall = "done" => phase = "none"
            /\ closed => closeCall # "none"

IInv == TypeOK /\ DeltasOnly /\ TimerInv /\ CooldownInv /\ CloseInv

LEMMA InitIInv == Init => IInv
<1> QED BY DEF Init, IInv, TypeOK, Instants, DeltasOnly, TimerInv, CooldownInv, CloseInv

LEMMA Types == TypeOK /\ DeltasOnly /\ CooldownInv /\ [Next]_vars => TypeOK' /\ DeltasOnly' /\ CooldownInv'
<1> SUFFICES ASSUME TypeOK, DeltasOnly, CooldownInv, [Next]_vars
             PROVE  TypeOK' /\ DeltasOnly' /\ CooldownInv'
  OBVIOUS
<1> USE DEF TypeOK, Instants, DeltasOnly, CooldownInv, Unsent
<1>1. CASE UNCHANGED vars
  BY <1>1 DEF vars
<1>2. ASSUME NEW p \in Pairs, Observe(p) PROVE TypeOK' /\ DeltasOnly' /\ CooldownInv'
  BY <1>2 DEF Observe, WindowAfter, Schedule, Ahead
<1>3. CASE Flush
  BY <1>3 DEF Flush, Upload, MayUpload, ClearIfEntered
<1>4. CASE Close
  BY <1>4 DEF Close, Upload, MayUpload
<1>5. CASE Fire
  BY <1>5 DEF Fire, Upload, MayUpload
<1>6. CASE Begin
  BY <1>6 DEF Begin, Round
<1>7. CASE ChunkOk
  <2>1. PICK c \in Requests :
          /\ sent' = sent \cup c /\ registered' = registered \cup c
          /\ IF snapshot = c THEN Round(sent')
             ELSE snapshot' = snapshot \ c /\ UNCHANGED <<phase, window>>
    BY <1>7 DEF ChunkOk, Marked
  <2>2. /\ phase = "send" /\ retry' = "none"
        /\ UNCHANGED <<seen, force, timer, waits, closed, closeCall, flushCall, owed, late>>
    BY <1>7 DEF ChunkOk
  <2>3. c \subseteq snapshot
    BY DEF Requests
  <2>4. CASE snapshot = c
    BY <2>1, <2>2, <2>3, <2>4 DEF Round
  <2>5. CASE snapshot # c
    BY <2>1, <2>2, <2>3, <2>5
  <2> QED BY <2>4, <2>5
<1>8. CASE ChunkFail
  BY <1>8 DEF ChunkFail
<1>9. CASE Leave
  BY <1>9 DEF Leave, Reschedule, Schedule, Ahead
<1>10. CASE Tick
  BY <1>10 DEF Tick
<1> QED BY <1>1, <1>2, <1>3, <1>4, <1>5, <1>6, <1>7, <1>8, <1>9, <1>10 DEF Next

LEMMA Timers == TypeOK /\ TimerInv /\ CloseInv /\ [Next]_vars => TimerInv' /\ CloseInv'
<1> SUFFICES ASSUME TypeOK, TimerInv, CloseInv, [Next]_vars
             PROVE  TimerInv' /\ CloseInv'
  OBVIOUS
<1> USE DEF TypeOK, Instants, TimerInv, CloseInv
<1>1. CASE UNCHANGED vars
  BY <1>1 DEF vars
<1>2. ASSUME NEW p \in Pairs, Observe(p) PROVE TimerInv' /\ CloseInv'
  BY <1>2 DEF Observe, Schedule, Ahead
<1>3. CASE Flush
  BY <1>3 DEF Flush, Upload, MayUpload, ClearIfEntered
<1>4. CASE Close
  BY <1>4 DEF Close, Upload, MayUpload
<1>5. CASE Fire
  BY <1>5 DEF Fire, Upload, MayUpload
<1>6. CASE Begin
  BY <1>6 DEF Begin, Round
<1>7. CASE ChunkOk
  BY <1>7 DEF ChunkOk, Round
<1>8. CASE ChunkFail
  BY <1>8 DEF ChunkFail
<1>9. CASE Leave
  BY <1>9 DEF Leave, Reschedule, Schedule, Ahead
<1>10. CASE Tick
  BY <1>10 DEF Tick
<1> QED BY <1>1, <1>2, <1>3, <1>4, <1>5, <1>6, <1>7, <1>8, <1>9, <1>10 DEF Next

LEMMA Inductive == Safety => []IInv
<1>1. IInv /\ [Next]_vars => IInv'
  BY Types, Timers DEF IInv
<1> QED BY <1>1, InitIInv, PTL DEF Safety

(* Every variable of ObservedCatalog keeps its type.                        *)
THEOREM CatalogTypeCorrect == Safety => []TypeOK
<1>1. IInv => TypeOK BY DEF IInv
<1> QED BY <1>1, Inductive, PTL

(* No pair is registered twice and no failed upload is taken for a success, *)
(* however chunks, failures, flushes and discoveries interleave.            *)
THEOREM CatalogSendsDeltasOnly == Safety => []DeltasOnly
<1>1. IInv => DeltasOnly BY DEF IInv
<1> QED BY <1>1, Inductive, PTL

(* close() leaves neither a timer nor an upload behind.                     *)
THEOREM CatalogQuietOnceClosed == Safety => []QuietOnceClosed
<1>1. IInv => QuietOnceClosed BY DEF IInv, CloseInv, QuietOnceClosed
<1> QED BY <1>1, Inductive, PTL

(* An upload never begins during the cooldown, whoever asks for it.         *)
THEOREM CatalogCooldownKept == Safety => CooldownKept
<1>1. IInv => [phase = "entered" /\ phase' = "send" => retry # "future"]_vars
  BY DEF IInv, CooldownInv
<1> QED BY <1>1, Inductive, PTL DEF CooldownKept

(* When no timer fires early, a pair that is not sent always has a timer or *)
(* an upload that will send it.                                             *)
THEOREM CatalogNoneStranded == ASSUME ~EarlyTimers PROVE Safety => []NoneStranded
<1>1. Init => NoneStranded
  BY DEF Init, NoneStranded, Unsent
<1>2. IInv /\ NoneStranded /\ [Next]_vars => NoneStranded'
  <2> SUFFICES ASSUME TypeOK, TimerInv, NoneStranded, [Next]_vars, Unsent' # {}, ~closed'
               PROVE  timer' \/ phase' # "none"
    BY DEF IInv, NoneStranded
  <2> USE DEF TypeOK, Instants, TimerInv, NoneStranded, Unsent
  <2>1. CASE UNCHANGED vars
    BY <2>1 DEF vars
  <2>2. ASSUME NEW p \in Pairs, Observe(p) PROVE timer' \/ phase' # "none"
    BY <2>2 DEF Observe, Schedule
  <2>3. CASE Flush
    BY <2>3 DEF Flush, Upload, MayUpload, ClearIfEntered
  <2>4. CASE Close
    BY <2>4 DEF Close
  <2>5. CASE Fire
    BY <2>5 DEF Fire, Upload, MayUpload
  <2>6. CASE Begin
    BY <2>6 DEF Begin, Round
  <2>7. CASE ChunkOk
    BY <2>7 DEF ChunkOk, Round
  <2>8. CASE ChunkFail
    BY <2>8 DEF ChunkFail
  <2>9. CASE Leave
    BY <2>9 DEF Leave, Reschedule, Schedule
  <2>10. CASE Tick
    BY <2>10 DEF Tick
  <2> QED BY <2>1, <2>2, <2>3, <2>4, <2>5, <2>6, <2>7, <2>8, <2>9, <2>10 DEF Next
<1> QED BY <1>1, <1>2, Inductive, PTL DEF Safety

-------------------------------------------------------------------------------
(* What a flush() waits for                                                 *)

(* The upload it has hastened goes on until nothing it found is unsent, or  *)
(* a request fails.                                                         *)
OwedInv ==
  /\ ~flushCall => owed = {}
  /\ flushCall => phase # "none"
  /\ owed \subseteq seen
  /\ owed # {} /\ phase \in {"entered", "send"} => force
  /\ phase = "leave" => owed \subseteq registered \/ retry # "none"

LEMMA OwedStep == IInv /\ OwedInv /\ [Next]_vars => OwedInv'
<1> SUFFICES ASSUME TypeOK, DeltasOnly, OwedInv, [Next]_vars
             PROVE  OwedInv'
  BY DEF IInv
<1> USE DEF TypeOK, Instants, DeltasOnly, OwedInv, Unsent
<1>1. CASE UNCHANGED vars
  BY <1>1 DEF vars
<1>2. ASSUME NEW p \in Pairs, Observe(p) PROVE OwedInv'
  BY <1>2 DEF Observe
<1>3. CASE Flush
  <2>1. \/ phase' = "none"
        \/ phase' = "entered" /\ force'
        \/ phase' = phase /\ phase # "none" /\ force'
    BY <1>3 DEF Flush, Upload
  <2>2. UNCHANGED <<seen, sent, registered, retry>> /\ (phase = "leave" => phase' = "leave")
    BY <1>3 DEF Flush, Upload
  <2>3. /\ flushCall' <=> phase' # "none"
        /\ owed' = IF flushCall' /\ phase # "leave" THEN seen \ sent ELSE {}
    BY <1>3 DEF Flush
  <2>4. phase' = "leave" => owed' = {}
    BY <2>1, <2>3
  <2> QED BY <2>1, <2>2, <2>3, <2>4
<1>4. CASE Close
  BY <1>4 DEF Close, Upload
<1>5. CASE Fire
  BY <1>5 DEF Fire, Upload
<1>6. CASE Begin
  BY <1>6 DEF Begin, Round
<1>7. CASE ChunkOk
  <2>1. PICK c \in Requests :
          /\ sent' = sent \cup c /\ registered' = registered \cup c
          /\ IF snapshot = c THEN Round(sent')
             ELSE snapshot' = snapshot \ c /\ UNCHANGED <<phase, window>>
    BY <1>7 DEF ChunkOk, Marked
  <2>2. phase = "send" /\ UNCHANGED <<seen, force, flushCall, owed>>
    BY <1>7 DEF ChunkOk
  <2>3. CASE snapshot = c
    BY <2>1, <2>2, <2>3 DEF Round
  <2>4. CASE snapshot # c
    BY <2>1, <2>2, <2>4
  <2> QED BY <2>3, <2>4
<1>8. CASE ChunkFail
  BY <1>8 DEF ChunkFail
<1>9. CASE Leave
  BY <1>9 DEF Leave
<1>10. CASE Tick
  BY <1>10 DEF Tick
<1> QED BY <1>1, <1>2, <1>3, <1>4, <1>5, <1>6, <1>7, <1>8, <1>9, <1>10 DEF Next

(* flush() returns when all it found unsent is registered, or a request has *)
(* failed, whichever upload it has begun or joined and however timers,      *)
(* discoveries and close() come between.                                    *)
THEOREM CatalogFlushSends == Safety => FlushSends
<1>1. Init => OwedInv
  BY DEF Init, OwedInv
<1>2. IInv /\ OwedInv /\ [Next]_vars
        => [flushCall /\ ~flushCall' => owed \subseteq registered \/ retry # "none"]_vars
  <2> SUFFICES ASSUME OwedInv, [Next]_vars, flushCall, ~flushCall'
               PROVE  owed \subseteq registered \/ retry # "none"
    OBVIOUS
  <2>1. Leave
    BY DEF Next, vars, Observe, Flush, Close, Fire, Begin, ChunkOk, ChunkFail, Tick
  <2> QED BY <2>1 DEF Leave, OwedInv
<1> QED BY <1>1, <1>2, OwedStep, Inductive, PTL DEF Safety, FlushSends

===============================================================================
