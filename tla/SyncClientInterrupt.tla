-------------------------- MODULE SyncClientInterrupt --------------------------
(***************************************************************************)
(* The synchronous client when a thread that drains is stopped by an        *)
(* exception that is not an Exception: KeyboardInterrupt in the main        *)
(* thread, or SystemExit raised by a signal handler.  _run_or_wait_drain    *)
(* and close() catch only Exception, so neither cycle is finished.          *)
(***************************************************************************)
EXTENDS SyncClient

CONSTANT Interruptible \* callers that may be interrupted: the main thread

ASSUME InterruptAssumption == Interruptible \subseteq Callers

VARIABLE interrupted \* history: a drain has been interrupted

(* The exception arrives during an HTTP attempt or the sleep before the     *)
(* next one; the service may have received the request.  flush() or close() *)
(* unwinds past every handler.                                              *)
Interrupt(t) ==
  /\ pc[t] = "d_send"
  /\ \E received \in (IF httpClosed THEN {FALSE} ELSE BOOLEAN) : Transmit(t, received)
  /\ pc' = [pc EXCEPT ![t] = Home(t)]
  /\ batch' = [batch EXCEPT ![t] = NoBatch]
  /\ attempt' = [attempt EXCEPT ![t] = 0]
  /\ accepted' = [accepted EXCEPT ![t] = 0]
  /\ tally' = [tally EXCEPT ![t] = 0]
  /\ Return(t)
  /\ interrupted' = TRUE
  /\ UNCHANGED <<pendingVars, prepared, timerVars, drainCycle, closeVars, waitVars,
                 cyc, acked, nextKey>>

InterruptInit == Init /\ interrupted = FALSE

InterruptNext ==
  \/ Next /\ UNCHANGED interrupted
  \/ \E t \in Interruptible : Interrupt(t)

InterruptSafety == InterruptInit /\ [][InterruptNext]_<<vars, interrupted>>
InterruptSpec == InterruptSafety /\ Fairness

-------------------------------------------------------------------------------
(* Properties                                                               *)

(* The leader of the open drain cycle is inside _drain, whose steps wait    *)
(* for no other thread: the cycle will be finished.                         *)
DrainLed == drainCycle \in Threads /\ pc[drainCycle] \in DrainPcs

(* t is inside the client and has a next step, or will have one when the    *)
(* drain it waits for is over.                                              *)
Moves(t) ==
  /\ pc[t] \notin {"idle", "w_exit"}
  /\ IF Joined(t) THEN DrainLed
     ELSE t \notin waitset /\ ~(pc[t] = "wait_close" /\ cyc[t] = "open")

(* on_error has called flush() or close() during somebody's close(), which  *)
(* joins the worker: the two wait for each other (run sync_on_error_calls). *)
OnErrorWaits == pc[Worker] = "wait_close" /\ cyc[Worker] = "open"

(* The leader of the open close cycle goes on: what it waits for is a drain *)
(* that is led, or the end of a worker that moves and is not itself.        *)
CloseLed ==
  /\ closeCycle \in Threads /\ call[closeCycle] = "close"
  /\ pc[closeCycle] # "wait_close" /\ Moves(closeCycle)
  /\ pc[closeCycle] \in {"c_loop", "c_undo"}
       => \/ WorkerJoined(closeCycle)
          \/ closeCycle # Worker /\ Moves(Worker)
          \/ OnErrorWaits

(* Whoever waits has somebody who will wake it: an open drain has a leader  *)
(* that is draining, an open close() one that neither waits for itself nor  *)
(* for a thread that waits for it, and a parked worker has nothing to do    *)
(* that its timeout does not see to; pending events have a worker.  The two *)
(* known exceptions are named: after an interrupt a cycle is open without a *)
(* leader (run sync_interrupt), and OnErrorWaits is a deadlock.             *)
Attended ==
  /\ NoLostWakeup /\ WorkerAlive
  /\ ~interrupted /\ drainCycle # NoThread => DrainLed
  /\ ~interrupted /\ closing => CloseLed
===============================================================================
