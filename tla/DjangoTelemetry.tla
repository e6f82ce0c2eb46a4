---------------------------- MODULE DjangoTelemetry ----------------------------
(***************************************************************************)
(* The process-wide client of the Django example,                           *)
(* examples/python/django/greetings/telemetry.py, used by request threads   *)
(* (views.py), by tests that inject a client of their own, and by           *)
(* close_owned_trafficwar_client, which atexit runs and anyone may call.    *)
(* Each `with _lock` block is one step.  What a client promises is proved   *)
(* in SyncClientProofs; here it is open, closing or closed.                 *)
(***************************************************************************)
EXTENDS Naturals, Sequences, FiniteSets

CONSTANTS
  Threads,   \* request threads, tests and callers of close_owned
  Owned,     \* clients the application creates
  Injected,  \* clients a test owns
  None,      \* no client
  MaxDepth   \* bound: overrides one thread has entered

ASSUME ClientAssumption ==
  /\ None \notin Owned \cup Injected /\ Owned \cap Injected = {}
  /\ IsFiniteSet(Owned) /\ IsFiniteSet(Injected) /\ MaxDepth \in Nat

VARIABLES
  client,    \* _client
  owns,      \* _owns_client
  state,     \* of each client: "new", "open", "closing" or "closed"
  pc,        \* where each thread is
  held,      \* local `client` of each thread
  saved,     \* the overrides each thread is in: [injected, previous]
  raised,    \* history: an override has ended with RuntimeError
  crossed    \* history: clients not cleared because an override hid them

vars == <<client, owns, state, pc, held, saved, raised, crossed>>

Clients == Owned \cup Injected

Init ==
  /\ client = None /\ owns = FALSE
  /\ state = [c \in Clients |-> IF c \in Owned THEN "new" ELSE "open"]
  /\ pc = [t \in Threads |-> "idle"] /\ held = [t \in Threads |-> None]
  /\ saved = [t \in Threads |-> <<>>]
  /\ raised = FALSE /\ crossed = {}

Go(t, label, c) == pc' = [pc EXCEPT ![t] = label] /\ held' = [held EXCEPT ![t] = c]

Overrides == UNION {{saved[t][i] : i \in DOMAIN saved[t]} : t \in Threads}
Hidden(c) == \E o \in Overrides : o.previous = <<c, TRUE>>

-------------------------------------------------------------------------------
MustCreate == client = None

(* get_trafficwar_client().  A missing setting or a failing constructor     *)
(* raises and changes nothing.                                              *)
GetClient(t) ==
  /\ pc[t] = "idle"
  /\ \/ /\ MustCreate
        /\ \E c \in Owned : /\ state[c] = "new"
                            /\ state' = [state EXCEPT ![c] = "open"]
                            /\ client' = c /\ owns' = TRUE
     \/ ~MustCreate /\ UNCHANGED <<client, owns, state>>
  /\ Go(t, "capturing", client')
  /\ UNCHANGED <<saved, raised, crossed>>

(* capture() queues the event, or raises because the client is closing or   *)
(* closed.  Either way the request is over.                                 *)
Capture(t) ==
  /\ pc[t] = "capturing"
  /\ Go(t, "idle", None)
  /\ UNCHANGED <<client, owns, state, saved, raised, crossed>>

-------------------------------------------------------------------------------
(* override_trafficwar_client                                               *)

EnterOverride(t, c) ==
  /\ pc[t] = "idle" /\ Len(saved[t]) < MaxDepth
  /\ saved' = [saved EXCEPT ![t] = Append(@, [injected |-> c, previous |-> <<client, owns>>])]
  /\ client' = c /\ owns' = FALSE
  /\ UNCHANGED <<state, pc, held, raised, crossed>>

(* Mutant: the client is put back and its ownership is not.                 *)
MutRestores(previous) == client' = previous[1] /\ owns' = FALSE

Restores(previous) == client' = previous[1] /\ owns' = previous[2]

UnchangedIn(override) == client = override.injected

ExitOverride(t) ==
  /\ pc[t] = "idle" /\ saved[t] # <<>>
  /\ LET override == saved[t][Len(saved[t])] IN
     \/ UnchangedIn(override) /\ Restores(override.previous) /\ UNCHANGED raised
     \/ ~UnchangedIn(override) /\ raised' = TRUE /\ UNCHANGED <<client, owns>>
  /\ saved' = [saved EXCEPT ![t] = SubSeq(@, 1, Len(@) - 1)]
  /\ UNCHANGED <<state, pc, held, crossed>>

-------------------------------------------------------------------------------
(* close_owned_trafficwar_client                                            *)

MayClose == client # None /\ owns

CloseReads(t) ==
  /\ pc[t] = "idle" /\ MayClose
  /\ Go(t, "read", client)
  /\ UNCHANGED <<client, owns, state, saved, raised, crossed>>

(* client.close() is called outside the lock: it leads a close, joins one,  *)
(* or finds the client closed and returns.                                  *)
CloseCalls(t) ==
  /\ pc[t] = "read"
  /\ state' = [state EXCEPT ![held[t]] = IF @ = "open" THEN "closing" ELSE @]
  /\ Go(t, IF state[held[t]] = "closed" THEN "clearing" ELSE "closing", held[t])
  /\ UNCHANGED <<client, owns, saved, raised, crossed>>

Closers(c) == {t \in Threads : pc[t] = "closing" /\ held[t] = c}

(* The leader of a close tells those who joined it how it ended.  After a   *)
(* failure the client is open again and they all raise.                     *)
CloseEnds(c, closed) ==
  /\ state[c] = "closing"
  /\ state' = [state EXCEPT ![c] = IF closed THEN "closed" ELSE "open"]
  /\ pc' = [t \in Threads |-> IF t \notin Closers(c) THEN pc[t]
                              ELSE IF closed THEN "clearing" ELSE "idle"]
  /\ held' = [t \in Threads |-> IF t \in Closers(c) /\ ~closed THEN None ELSE held[t]]
  /\ UNCHANGED <<client, owns, saved, raised, crossed>>

(* Mutant: the client is forgotten without another look at who is current.  *)
MutStillCurrent(c) == TRUE

StillCurrent(c) == client = c /\ owns

CloseClears(t) ==
  /\ pc[t] = "clearing"
  /\ IF StillCurrent(held[t]) THEN client' = None /\ owns' = FALSE
     ELSE UNCHANGED <<client, owns>>
  /\ crossed' = IF Hidden(held[t]) THEN crossed \cup {held[t]} ELSE crossed
  /\ Go(t, "idle", None)
  /\ UNCHANGED <<state, saved, raised>>

-------------------------------------------------------------------------------
Next ==
  \/ \E t \in Threads :
       \/ GetClient(t) \/ Capture(t)
       \/ \E c \in Injected : EnterOverride(t, c)
       \/ ExitOverride(t)
       \/ CloseReads(t) \/ CloseCalls(t) \/ CloseClears(t)
  \/ \E c \in Clients : CloseEnds(c, TRUE) \/ CloseEnds(c, FALSE)

(* A close that has begun ends and is followed by the rest of its caller.   *)
Scheduling ==
  /\ \A t \in Threads : WF_vars(CloseCalls(t)) /\ WF_vars(CloseClears(t))
  /\ \A c \in Clients : WF_vars(CloseEnds(c, TRUE) \/ CloseEnds(c, FALSE))

Spec == Init /\ [][Next]_vars /\ Scheduling

-------------------------------------------------------------------------------
(* Properties                                                               *)

(* At most one app-owned client is alive, with its worker and its queue,    *)
(* and the module can still close it: it is current and owned, or hidden by *)
(* an override that will put it back.  Only overlapping overrides of two    *)
(* threads can lose it, and then one of them has raised.  A test's client   *)
(* is never closed for it.                                                  *)
NothingLost ==
  /\ LET alive == {c \in Owned : state[c] \in {"open", "closing"}} IN
     ~raised => /\ Cardinality(alive) <= 1
                /\ \A c \in alive : (client = c /\ owns) \/ Hidden(c)
  /\ \A c \in Injected : state[c] = "open"

(* A request is handed a closed client only while the one who closed it has *)
(* not yet cleared it, or because an override hid it from him then and has  *)
(* put it back: until the next close_owned_trafficwar_client() every        *)
(* request fails.                                                           *)
ClosedClientCleared ==
  (client \in Clients /\ state[client] = "closed") ~>
    (client = None \/ state[client] # "closed" \/ client \in crossed)
===============================================================================
