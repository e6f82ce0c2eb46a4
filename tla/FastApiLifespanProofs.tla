------------------------- MODULE FastApiLifespanProofs -------------------------
(* Safety of the FastAPI example's lifespan, for any number of requests and *)
(* of worker threads.                                                       *)
EXTENDS FastApiLifespan, TLAPS

TypeOK ==
  /\ injected \in BOOLEAN /\ published \in BOOLEAN /\ acloseRaised \in BOOLEAN
  /\ phase \in {"opening", "starting", "serving", "aclosing", "closing", "ended"}
  /\ connection \in {"none", "open", "closed"}
  /\ sdk \in {"none", "open", "closing", "closed"}
  /\ task \in [Requests -> {"idle", "lookup", "capture"}]
  /\ thread \in [Requests -> {"none", "waiting", "running"}]

(* Requests exist while the lifespan serves, their threads also after it.   *)
RequestsServed ==
  /\ phase # "serving" => \A r \in Requests : task[r] = "idle"
  /\ phase = "serving" => sdk = "open" /\ published
  /\ connection = "open" <=> phase \in {"starting", "serving", "aclosing", "closing"}

(* What each phase still has to close.                                      *)
Owed ==
  /\ injected => sdk = "open" /\ phase # "aclosing"
  /\ ~injected /\ phase = "opening" => sdk = "none"
  /\ ~injected /\ phase = "starting" => sdk = "none"
  /\ ~injected /\ phase \in {"closing", "ended"} =>
       sdk \in {"none", "closed"} \/ acloseRaised
  /\ phase \in {"opening", "starting"} => ~published
  /\ phase = "ended" => connection = "closed" /\ ~published

IInv == TypeOK /\ RequestsServed /\ Owed /\ ConnectionHeld

LEMMA InitIInv == Init => IInv
BY DEF Init, IInv, TypeOK, RequestsServed, Owed, ConnectionHeld

LEMMA StepIInv == IInv /\ [Next]_vars => IInv'
<1> SUFFICES ASSUME IInv, [Next]_vars PROVE IInv'
  OBVIOUS
<1> USE DEF IInv, TypeOK, RequestsServed, Owed, ConnectionHeld
<1>1. CASE OpenStore
  BY <1>1 DEF OpenStore
<1>2. CASE Start
  BY <1>2 DEF Start
<1>3. CASE Shutdown
  <2>1. CASE OwnsSdk
    BY <1>3, <2>1 DEF Shutdown, OwnsSdk
  <2>2. CASE ~OwnsSdk
    <3>1. injected = TRUE /\ phase' = "closing" /\ sdk' = "open"
      BY <1>3, <2>2 DEF Shutdown, OwnsSdk
    <3>2. UNCHANGED <<injected, connection, published, acloseRaised, thread>>
      BY <1>3 DEF Shutdown
    <3>3. task' = [r \in Requests |-> "idle"] /\ phase = "serving"
      BY <1>3 DEF Shutdown
    <3>4. TypeOK'
      BY <3>1, <3>2, <3>3
    <3>5. RequestsServed' /\ Owed'
      BY <3>1, <3>2, <3>3
    <3>6. ConnectionHeld'
      BY <3>1, <3>2, <3>3
    <3>7. QED
      BY <3>4, <3>5, <3>6
  <2>3. QED
    BY <2>1, <2>2
<1>4. CASE Aclose
  <2>1. phase = "aclosing" /\ phase' = "closing"
    BY <1>4 DEF Aclose, AcloseEnds, AfterAclose
  <2>2. UNCHANGED <<injected, connection, published, task, thread>>
    BY <1>4 DEF Aclose, AcloseEnds
  <2>3. \/ sdk' = "closed" /\ acloseRaised' = FALSE
        \/ sdk' = "open" /\ acloseRaised' = TRUE
    BY <1>4 DEF Aclose, AcloseEnds
  <2>4. QED
    BY <2>1, <2>2, <2>3
<1>5. CASE CloseStore
  BY <1>5 DEF CloseStore, MayCloseStore, LockFree
<1>6. ASSUME NEW r \in Requests, Request(r) PROVE IInv'
  BY <1>6 DEF Request, lifespanVars
<1>7. ASSUME NEW r \in Requests, LookupBegins(r) PROVE IInv'
  BY <1>7 DEF LookupBegins, lifespanVars
<1>8. ASSUME NEW r \in Requests, LookupEnds(r) PROVE IInv'
  BY <1>8 DEF LookupEnds, lifespanVars
<1>9. ASSUME NEW r \in Requests, Capture(r) PROVE IInv'
  BY <1>9 DEF Capture, lifespanVars
<1>10. CASE UNCHANGED vars
  BY <1>10 DEF vars
<1>11. QED
  BY <1>1, <1>2, <1>3, <1>4, <1>5, <1>6, <1>7, <1>8, <1>9, <1>10 DEF Next, Lookup

(* For any number of requests and worker threads, the lock keeps the        *)
(* connection open under every thread that uses it (GreetingStore), and     *)
(* however lifespan() of main.py ends it leaves nothing of its own open but *)
(* a client whose aclose() raised, and an injected client as it was.        *)
THEOREM LifespanIsSafe == Spec => []LifespanSafe
<1>1. IInv => LifespanSafe
  BY DEF IInv, TypeOK, RequestsServed, Owed, CleanEnd, LifespanSafe
<1>2. QED
  BY InitIInv, StepIInv, <1>1, PTL DEF Spec
===============================================================================
