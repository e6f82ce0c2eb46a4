---------------------------- MODULE DeliveryQueue -----------------------------
(***************************************************************************)
(* What every TrafficWar client promises its application, whatever threads, *)
(* tasks, timers and batches it uses: a bounded first-in first-out queue    *)
(* whose events are delivered in order, in batches, and that is sealed only *)
(* when it is empty.                                                        *)
(***************************************************************************)
EXTENDS Naturals, Sequences

CONSTANTS
  MaxQueue, \* events accepted and not delivered
  MaxBatch  \* events delivered in one step

VARIABLES
  log,       \* every event accepted, in order
  delivered, \* every event delivered, in order
  sealed     \* the client is closed

vars == <<log, delivered, sealed>>

IsPrefix(s, t) == Len(s) <= Len(t) /\ s = SubSeq(t, 1, Len(s))

Init == log = <<>> /\ delivered = <<>> /\ sealed = FALSE

(* capture() takes one or more events, all or none.                         *)
Accept ==
  /\ ~sealed
  /\ Len(log') > Len(log) /\ IsPrefix(log, log')
  /\ Len(log') - Len(delivered) <= MaxQueue
  /\ UNCHANGED <<delivered, sealed>>

(* One acknowledged request: the oldest undelivered events.                 *)
Deliver ==
  /\ Len(delivered') \in Len(delivered) + 1 .. Len(delivered) + MaxBatch
  /\ IsPrefix(delivered, delivered') /\ IsPrefix(delivered', log)
  /\ UNCHANGED <<log, sealed>>

(* close() succeeds.                                                        *)
Seal ==
  /\ ~sealed /\ delivered = log
  /\ sealed' = TRUE
  /\ UNCHANGED <<log, delivered>>

Next == Accept \/ Deliver \/ Seal

Spec == Init /\ [][Next]_vars
===============================================================================
