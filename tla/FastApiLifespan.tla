---------------------------- MODULE FastApiLifespan ----------------------------
(***************************************************************************)
(* The lifespan and the request handler of the FastAPI example,             *)
(* examples/python/fastapi/app/main.py: one SQLite connection behind a lock,*)
(* used from AnyIO's worker threads, and an SDK client that the application *)
(* owns or was given.  The server (external) waits for its requests before  *)
(* it ends the lifespan, or cancels them; a worker thread outlives the      *)
(* request that was cancelled.                                              *)
(***************************************************************************)
EXTENDS Naturals, FiniteSets

CONSTANTS
  Requests,  \* requests in flight
  Tokens     \* worker threads AnyIO grants at a time

ASSUME TokensAssumption == Tokens \in Nat \ {0} /\ IsFiniteSet(Requests)

VARIABLES
  injected,    \* create_app() was given a client
  phase,       \* where lifespan() is
  connection,  \* GreetingStore._connection: "none", "open" or "closed"
  sdk,         \* the client: "none", "open", "closing" or "closed"
  published,   \* application.state holds the store and the client
  task,        \* of each request: "idle", "lookup" or "capture"
  thread,      \* its worker thread: "none", "waiting" for _lock or "running"
  acloseRaised \* history: aclose() has raised

vars == <<injected, phase, connection, sdk, published, task, thread, acloseRaised>>
lifespanVars == <<injected, phase, connection, sdk, published, acloseRaised>>

Init ==
  /\ injected \in BOOLEAN
  /\ phase = "opening" /\ connection = "none"
  /\ sdk = IF injected THEN "open" ELSE "none"
  /\ published = FALSE /\ acloseRaised = FALSE
  /\ task = [r \in Requests |-> "idle"] /\ thread = [r \in Requests |-> "none"]

OwnsSdk == ~injected /\ sdk # "none"

-------------------------------------------------------------------------------
(* Startup                                                                  *)

(* GreetingStore.open; when it raises it closes its connection and the      *)
(* lifespan is over.                                                        *)
OpenStore ==
  /\ phase = "opening"
  /\ \/ connection' = "open" /\ phase' = "starting"
     \/ connection' = "closed" /\ phase' = "ended"
  /\ UNCHANGED <<injected, sdk, published, acloseRaised, task, thread>>

(* _new_trafficwar_client raises without a key, or for a setting that is    *)
(* not a number.  The handlers of `finally` run.                            *)
Start ==
  /\ phase = "starting"
  /\ \/ phase' = "serving" /\ sdk' = "open" /\ published' = TRUE
     \/ ~injected /\ phase' = "closing" /\ UNCHANGED <<sdk, published>>
  /\ UNCHANGED <<injected, connection, acloseRaised, task, thread>>

-------------------------------------------------------------------------------
(* hello()                                                                  *)

TokensHeld == Cardinality({r \in Requests : task[r] = "lookup"})
LockFree == \A r \in Requests : thread[r] # "running"

Request(r) ==
  /\ phase = "serving" /\ task[r] = "idle" /\ thread[r] = "none"
  /\ TokensHeld < Tokens
  /\ task' = [task EXCEPT ![r] = "lookup"] /\ thread' = [thread EXCEPT ![r] = "waiting"]
  /\ UNCHANGED lifespanVars

LookupBegins(r) ==
  /\ thread[r] = "waiting" /\ LockFree
  /\ thread' = [thread EXCEPT ![r] = IF connection = "open" THEN "running" ELSE "none"]
  /\ UNCHANGED <<lifespanVars, task>>

(* Mutant: a lookup nobody waits for any more keeps the lock.               *)
MutReleases(r) == task[r] = "lookup"

(* The query is over and the lock released, whoever waits for the row.      *)
Releases(r) == TRUE

LookupEnds(r) ==
  /\ thread[r] = "running" /\ Releases(r)
  /\ thread' = [thread EXCEPT ![r] = "none"]
  /\ task' = [task EXCEPT ![r] = IF @ = "lookup" THEN "capture" ELSE @]
  /\ UNCHANGED lifespanVars

(* telemetry.capture() queues the event, and the response is sent.          *)
Capture(r) ==
  /\ task[r] = "capture"
  /\ task' = [task EXCEPT ![r] = "idle"]
  /\ UNCHANGED <<lifespanVars, thread>>

-------------------------------------------------------------------------------
(* Shutdown                                                                 *)

(* The server ends the lifespan once every request is done, or cancels them.*)
Shutdown ==
  /\ phase = "serving"
  /\ task' = [r \in Requests |-> "idle"]
  /\ phase' = IF OwnsSdk THEN "aclosing" ELSE "closing"
  /\ sdk' = IF OwnsSdk THEN "closing" ELSE sdk
  /\ UNCHANGED <<injected, connection, published, acloseRaised, thread>>

AfterAclose(closed) == "closing"

(* aclose() has delivered everything and closed the client, or has raised   *)
(* and left it open with its events.                                        *)
AcloseEnds(closed) ==
  /\ phase = "aclosing"
  /\ sdk' = IF closed THEN "closed" ELSE "open"
  /\ acloseRaised' = ~closed
  /\ phase' = AfterAclose(closed)
  /\ UNCHANGED <<injected, connection, published, task, thread>>

(* Mutant: GreetingStore.close does not take the lock.                      *)
MutMayCloseStore == TRUE

MayCloseStore == LockFree

(* store.close in a worker thread, then the fields of application.state.    *)
CloseStore ==
  /\ phase = "closing" /\ TokensHeld < Tokens /\ MayCloseStore
  /\ connection' = "closed" /\ published' = FALSE
  /\ phase' = "ended"
  /\ UNCHANGED <<injected, sdk, acloseRaised, task, thread>>

-------------------------------------------------------------------------------
Aclose == AcloseEnds(TRUE) \/ AcloseEnds(FALSE)
Lookup(r) == LookupBegins(r) \/ LookupEnds(r)

Next ==
  \/ OpenStore \/ Start \/ Shutdown \/ Aclose \/ CloseStore
  \/ \E r \in Requests : Request(r) \/ Lookup(r) \/ Capture(r)

(* Threads run; a lock or a token that is free again and again is granted.  *)
Scheduling ==
  /\ WF_vars(OpenStore) /\ WF_vars(Start) /\ WF_vars(Aclose) /\ SF_vars(CloseStore)
  /\ \A r \in Requests :
       SF_vars(LookupBegins(r)) /\ WF_vars(LookupEnds(r)) /\ WF_vars(Capture(r))

Spec == Init /\ [][Next]_vars /\ Scheduling

-------------------------------------------------------------------------------
(* Properties                                                               *)

(* A connection in use by a worker thread is not closed under it, also when *)
(* its request was cancelled and the lifespan is over; and a request that   *)
(* was not cancelled has an open connection and a client that accepts.      *)
ConnectionHeld ==
  \A r \in Requests :
    /\ thread[r] = "running" => connection = "open"
    /\ task[r] # "idle" => connection = "open" /\ sdk = "open" /\ published

(* However the lifespan ends (the store or the client fails to start,       *)
(* aclose() raises), nothing it opened stays open, except a client whose    *)
(* aclose() raised; and a client it was given is left open.                 *)
CleanEnd ==
  phase = "ended" =>
    /\ connection = "closed" /\ ~published
    /\ injected => sdk = "open"
    /\ ~injected => sdk \in {"none", "closed"} \/ acloseRaised

LifespanSafe == ConnectionHeld /\ CleanEnd

(* A shutdown ends, also behind lookups whose requests were cancelled.      *)
ShutdownEnds == phase \in {"aclosing", "closing"} ~> phase = "ended"
===============================================================================
