---------------------------- MODULE ObservedCatalog ----------------------------
(***************************************************************************)
(* The catalog of (event, label) pairs a Node client has observed and       *)
(* registers with the service, packages/node/src/observedCatalog.ts.        *)
(*                                                                          *)
(* JavaScript runs one callback at a time, so an action is a stretch of     *)
(* code between two awaits.  The promise of an upload is published before   *)
(* its first callback runs and withdrawn in a last one: `phase` goes        *)
(* "none" -> "entered" -> "send" ... -> "leave" -> "none".                  *)
(***************************************************************************)
EXTENDS Naturals, FiniteSets

CONSTANTS
  Pairs,      \* valid (event, label) identities
  Chunk,      \* pairs of one request (4000)
  EarlyTimers \* a timer may fire before Date.now() reaches what it waits for

ASSUME CatalogAssumption == Chunk \in Nat \ {0} /\ EarlyTimers \in BOOLEAN

VARIABLES
  seen,       \* keys of #pairs
  sent,       \* those whose entry is marked sent
  registered, \* history: pairs of every acknowledged request
  phase,      \* #upload and how far it is
  snapshot,   \* unsent part of the upload's snapshot
  force,      \* #force
  window,     \* #windowAt: "none" for 0, "future", or "past"
  retry,      \* #retryAt: the same
  timer,      \* #timer is set
  waits,      \* the instants that timer was set for
  closed,     \* #closed
  closeCall,  \* the close() of the client: "none", "waiting", "done"
  flushCall,  \* a flush() is waiting for the upload
  owed,       \* history: the pairs it found unsent, if the loop still runs
  late        \* a pair was observed while the upload was leaving

vars == <<seen, sent, registered, phase, snapshot, force, window, retry, timer, waits,
          closed, closeCall, flushCall, owed, late>>

Instants == {"none", "future", "past"}

Init ==
  /\ seen = {} /\ sent = {} /\ registered = {}
  /\ phase = "none" /\ snapshot = {} /\ force = FALSE
  /\ window = "none" /\ retry = "none"
  /\ timer = FALSE /\ waits = {}
  /\ closed = FALSE /\ closeCall = "none"
  /\ flushCall = FALSE /\ owed = {} /\ late = FALSE

Unsent == seen \ sent

(* What a timer set now waits for.                                          *)
Ahead(w, r) == {x \in {"window", "retry"} : (IF x = "window" THEN w ELSE r) = "future"}

(* #schedule, when no upload is running, for these instants.                *)
Schedule(w, r) ==
  IF closed \/ timer THEN UNCHANGED <<timer, waits>>
  ELSE timer' = TRUE /\ waits' = Ahead(w, r)

(* The window runs from its first discovery.                                *)
WindowAfter == IF window = "none" THEN "future" ELSE window

(* observe() of a pair that is not known yet.  The client that calls it     *)
(* rejects captures before it closes the catalog.                           *)
Observe(p) ==
  /\ ~closed /\ p \notin seen
  /\ seen' = seen \cup {p}
  /\ window' = WindowAfter
  /\ IF phase = "none" THEN Schedule(window', retry) ELSE UNCHANGED <<timer, waits>>
  /\ late' = (phase = "leave")
  /\ UNCHANGED <<sent, registered, phase, snapshot, force, retry, closed, closeCall,
                 flushCall, owed>>

(* Mutant: a flush is made whatever the cooldown.                           *)
MutMayUpload == Unsent # {}

MayUpload == Unsent # {} /\ retry # "future"

(* Mutant: a flush that joins an upload does not hasten it.                 *)
MutUpload(forced) ==
  /\ phase' = IF phase = "none" /\ MayUpload THEN "entered" ELSE phase
  /\ force' = IF phase = "none" /\ MayUpload THEN forced ELSE force

(* #flush: join the upload, or enter one.                                   *)
Upload(forced) ==
  IF phase # "none"
  THEN /\ force' = (force \/ forced)
       /\ UNCHANGED phase
  ELSE IF MayUpload
       THEN phase' = "entered" /\ force' = forced
       ELSE UNCHANGED <<phase, force>>

(* #clearTimer of an upload that begins.                                    *)
ClearIfEntered ==
  IF phase = "none" /\ MayUpload THEN timer' = FALSE /\ waits' = {}
  ELSE UNCHANGED <<timer, waits>>

(* flush(): what it returns is settled at once, or with the upload.         *)
Flush ==
  /\ ~closed /\ ~flushCall
  /\ Upload(TRUE) /\ ClearIfEntered
  /\ flushCall' = (phase' # "none")
  /\ owed' = IF flushCall' /\ phase # "leave" THEN Unsent ELSE {}
  /\ UNCHANGED <<seen, sent, registered, snapshot, window, retry, closed, closeCall, late>>

(* close(), which the client calls once it has delivered the events of      *)
(* every pair: that takes a request, so not in the very callbacks between   *)
(* which the pair was observed.                                             *)
Close ==
  /\ ~closed /\ ~late
  /\ closed' = TRUE
  /\ timer' = FALSE /\ waits' = {}
  /\ Upload(TRUE)
  /\ closeCall' = IF phase' = "none" THEN "done" ELSE "waiting"
  /\ UNCHANGED <<seen, sent, registered, snapshot, window, retry, flushCall, owed,
                 late>>

(* The callback of the timer.                                               *)
Fire ==
  /\ timer
  /\ \/ EarlyTimers
     \/ /\ "window" \in waits => window # "future"
        /\ "retry" \in waits => retry # "future"
  /\ timer' = FALSE /\ waits' = {}
  /\ Upload(FALSE)
  /\ UNCHANGED <<seen, sent, registered, snapshot, window, retry, closed, closeCall,
                 flushCall, owed, late>>

(* The test of the upload's loop, once these pairs are sent: take a         *)
(* snapshot of what is unsent, or leave.                                    *)
Round(done) ==
  IF seen \ done # {} /\ (force \/ window # "future")
  THEN snapshot' = seen \ done /\ window' = "none" /\ phase' = "send"
  ELSE snapshot' = {} /\ phase' = "leave" /\ UNCHANGED window

Begin ==
  /\ phase = "entered"
  /\ Round(sent)
  /\ UNCHANGED <<seen, sent, registered, force, retry, timer, waits, closed, closeCall,
                 flushCall, owed, late>>

(* The next request of the snapshot.                                        *)
Requests == {c \in SUBSET snapshot :
               Cardinality(c) = IF Cardinality(snapshot) < Chunk THEN Cardinality(snapshot)
                                ELSE Chunk}

(* Mutant: pairs are marked when the whole snapshot is uploaded.            *)
MutMarked(c) == IF snapshot = c THEN Unsent ELSE {}

(* The entries an acknowledged request marks sent.                          *)
Marked(c) == c

(* A request is acknowledged: mark its pairs, and go on.                    *)
ChunkOk ==
  /\ phase = "send"
  /\ \E c \in Requests :
       /\ sent' = sent \cup Marked(c)
       /\ registered' = registered \cup c
       /\ IF snapshot = c THEN Round(sent')
          ELSE snapshot' = snapshot \ c /\ UNCHANGED <<phase, window>>
  /\ retry' = "none"
  /\ UNCHANGED <<seen, force, timer, waits, closed, closeCall, flushCall, owed, late>>

(* Mutant: a failure does not end the loop.                                 *)
MutChunkFail ==
  /\ phase = "send"
  /\ Round(sent)
  /\ retry' = "future"
  /\ UNCHANGED <<seen, sent, registered, force, timer, waits, closed, closeCall,
                 flushCall, owed, late>>

(* It failed for good: cool down, from 1 s up to 30 s, and leave the loop.  *)
ChunkFail ==
  /\ phase = "send"
  /\ snapshot' = {} /\ phase' = "leave"
  /\ retry' = "future"
  /\ UNCHANGED <<seen, sent, registered, force, window, timer, waits, closed, closeCall,
                 flushCall, owed, late>>

(* Mutant: the last callback forgets what is pending.                       *)
MutReschedule == UNCHANGED <<timer, waits>>

(* What is still pending is sent by the next cycle.                         *)
Reschedule ==
  IF Unsent # {} THEN Schedule(window, retry) ELSE UNCHANGED <<timer, waits>>

(* The last callback of an upload, after which flush() and close() return.  *)
Leave ==
  /\ phase = "leave"
  /\ phase' = "none" /\ force' = FALSE
  /\ Reschedule
  /\ closeCall' = IF closeCall = "waiting" THEN "done" ELSE closeCall
  /\ flushCall' = FALSE /\ owed' = {} /\ late' = FALSE
  /\ UNCHANGED <<seen, sent, registered, snapshot, window, retry, closed>>

(* Time passes the end of the window, or of the cooldown.                   *)
Tick ==
  /\ \/ window = "future" /\ window' = "past" /\ UNCHANGED retry
     \/ retry = "future" /\ retry' = "past" /\ UNCHANGED window
  /\ UNCHANGED <<seen, sent, registered, phase, snapshot, force, timer, waits, closed,
                 closeCall, flushCall, owed, late>>

Next ==
  \/ \E p \in Pairs : Observe(p)
  \/ Flush \/ Close \/ Fire \/ Begin \/ ChunkOk \/ ChunkFail \/ Leave \/ Tick

(* Callbacks run, timers fire, and every request is settled.                *)
Scheduling ==
  /\ WF_vars(Fire) /\ WF_vars(Begin) /\ WF_vars(Leave) /\ WF_vars(Tick)
  /\ WF_vars(ChunkOk \/ ChunkFail)

(* A service that is asked for ever acknowledges in the end.                *)
ServiceAnswers == SF_vars(ChunkOk)

Safety == Init /\ [][Next]_vars
Spec == Safety /\ Scheduling

-------------------------------------------------------------------------------
(* Properties                                                               *)

(* The types; an upload that sends has something to send, and nobody else   *)
(* has.                                                                     *)
TypeOK ==
  /\ phase = "send" <=> snapshot # {}
  /\ seen \subseteq Pairs /\ sent \subseteq Pairs /\ registered \subseteq Pairs
  /\ phase \in {"none", "entered", "send", "leave"}
  /\ snapshot \subseteq Pairs /\ owed \subseteq Pairs
  /\ window \in Instants /\ retry \in Instants /\ waits \subseteq {"window", "retry"}
  /\ force \in BOOLEAN /\ timer \in BOOLEAN /\ closed \in BOOLEAN /\ flushCall \in BOOLEAN
  /\ late \in BOOLEAN
  /\ closeCall \in {"none", "waiting", "done"}

(* A pair is registered once: a request holds only pairs that no earlier    *)
(* request has registered, also when a later chunk of a snapshot failed and *)
(* pairs arrived meanwhile; and a failed upload never becomes a sent pair.  *)
DeltasOnly == sent = registered /\ snapshot \subseteq seen \ registered

(* A pair that waits has something that will send it: while the catalog is  *)
(* open there is a timer or an upload (#schedule is skipped in an upload,   *)
(* which must then set the timer itself).                                   *)
NoneStranded == Unsent # {} /\ ~closed => timer \/ phase # "none"

(* close() stops the timers: once it has returned no request is made.       *)
QuietOnceClosed == closeCall = "done" => ~timer /\ phase = "none"

(* README: "Captures and repeated flushes cannot bypass the cooldown."  A   *)
(* failure and the next request have the cooldown between them.             *)
CooldownKept == [][phase = "entered" /\ phase' = "send" => retry # "future"]_vars

(* flush() "sends eligible pending deltas, bypassing the initial window": it*)
(* returns when everything it found is registered, or an upload has failed. *)
(* This is not so of a flush() that joins an upload whose loop has ended.   *)
FlushSends == [][flushCall /\ ~flushCall' => owed \subseteq registered \/ retry # "none"]_vars

(* Every observed pair is registered, if the service answers and unless the *)
(* catalog is closed.                                                       *)
EventuallyRegistered ==
  ServiceAnswers => \A p \in Pairs : p \in seen ~> p \in registered \/ closed

(* close() returns even if the service never acknowledges anything: there   *)
(* is "no ... unbounded shutdown retry" (README).                           *)
CloseReturns == closed ~> closeCall = "done"

(* README: "`flush()` awaits catalog uploads and sends eligible pending     *)
(* deltas, bypassing the initial window, but not a failure cooldown.        *)
(* `close()` also awaits work": what close() leaves unsent has failed.  This*)
(* is not so of a close() that joins an upload whose loop has ended.        *)
CloseSends == closeCall = "done" => Unsent = {} \/ retry # "none"
===============================================================================
