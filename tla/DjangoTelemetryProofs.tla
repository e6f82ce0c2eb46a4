------------------------- MODULE DjangoTelemetryProofs -------------------------
(***************************************************************************)
(* A theorem about the Django example's process-wide client, for any        *)
(* threads, clients and nesting of overrides.                               *)
(*                                                                          *)
(* The argument: of all the clients the module refers to, the current one   *)
(* and those its overrides will put back, exactly one is not a test's own:  *)
(* the base.  get_trafficwar_client() replaces it when it is None, an       *)
(* override hides it and puts it back, and close_owned_trafficwar_client()  *)
(* drops it when it is closed.  An app-owned client that is alive is the    *)
(* base.                                                                    *)
(***************************************************************************)
EXTENDS DjangoTelemetry, FiniteSetTheorems, TLAPS

Record == [injected : Injected, previous : (Clients \cup {None}) \X BOOLEAN]

TypeOK ==
  /\ client \in Clients \cup {None} /\ owns \in BOOLEAN
  /\ state \in [Clients -> {"new", "open", "closing", "closed"}]
  /\ pc \in [Threads -> {"idle", "capturing", "read", "closing", "clearing"}]
  /\ held \in [Threads -> Clients \cup {None}]
  /\ saved \in [Threads -> Seq(Record)]

(* The application owns the clients it has created and no others.           *)
OwnsItsOwn ==
  /\ owns <=> client \in Owned
  /\ \A t \in Threads : \A i \in DOMAIN saved[t] :
       saved[t][i].previous[2] <=> saved[t][i].previous[1] \in Owned

(* The client that this override will put back is no test's.                *)
Base(t, i) == saved[t][i].previous[1] \notin Injected

OneBase ==
  ~raised =>
    /\ \A t, u \in Threads : \A i \in DOMAIN saved[t], j \in DOMAIN saved[u] :
         Base(t, i) /\ Base(u, j) => t = u /\ i = j
    /\ client \notin Injected => \A t \in Threads : \A i \in DOMAIN saved[t] : ~Base(t, i)

Alive(c) == state[c] \in {"open", "closing"}
PutBack(c) == \E t \in Threads : \E i \in DOMAIN saved[t] : saved[t][i].previous[1] = c

AliveIsBase == ~raised => \A c \in Owned : Alive(c) => client = c \/ PutBack(c)

(* Only the application's clients are closed, and forgotten once they are.  *)
ClosesItsOwn ==
  /\ \A t \in Threads : /\ pc[t] \in {"read", "closing", "clearing"} => held[t] \in Owned
                        /\ pc[t] = "clearing" => state[held[t]] = "closed"
  /\ \A c \in Injected : state[c] = "open"

IInv == TypeOK /\ OwnsItsOwn /\ OneBase /\ AliveIsBase /\ ClosesItsOwn

LEMMA InitIInv == Init => IInv
<1> SUFFICES ASSUME Init PROVE IInv
  OBVIOUS
<1>1. /\ client = None /\ owns = FALSE /\ \A t \in Threads : saved[t] = <<>> /\ pc[t] = "idle"
      /\ \A c \in Clients : state[c] = IF c \in Owned THEN "new" ELSE "open"
  BY DEF Init
<1>2. Injected \subseteq Clients /\ Owned \subseteq Clients /\ None \notin Clients /\ Owned \cap Injected = {}
  BY ClientAssumption DEF Clients
<1>3. TypeOK
  <2>1. <<>> \in Seq(Record)
    OBVIOUS
  <2>2. state \in [Clients -> {"new", "open", "closing", "closed"}]
    BY DEF Init
  <2> QED BY <2>1, <2>2 DEF Init, TypeOK
<1>4. OwnsItsOwn /\ OneBase
  BY <1>1, <1>2 DEF OwnsItsOwn, OneBase
<1>5. AliveIsBase
  BY <1>1, <1>2 DEF AliveIsBase, Alive
<1>6. ClosesItsOwn
  BY <1>1, <1>2 DEF ClosesItsOwn
<1> QED BY <1>3, <1>4, <1>5, <1>6 DEF IInv

-------------------------------------------------------------------------------
(* The steps that change an override's stack                                *)

(* Entering one: everything saved before stays where it is.                 *)
LEMMA PushStep ==
  ASSUME TypeOK, NEW t \in Threads, NEW r \in Record,
         saved' = [saved EXCEPT ![t] = Append(@, r)]
  PROVE  /\ saved' \in [Threads -> Seq(Record)]
         /\ \A u \in Threads : \A i \in DOMAIN saved[u] :
              i \in DOMAIN saved'[u] /\ saved'[u][i] = saved[u][i]
         /\ \E k : /\ k \in DOMAIN saved'[t] /\ saved'[t][k] = r
                   /\ \A u \in Threads : \A i \in DOMAIN saved'[u] :
                        \/ i \in DOMAIN saved[u] /\ saved'[u][i] = saved[u][i]
                        \/ u = t /\ i = k
<1> DEFINE s == saved[t]
           k == Len(s) + 1
<1>1. s \in Seq(Record) /\ Len(s) \in Nat /\ DOMAIN s = 1..Len(s)
  BY DEF TypeOK
<1>2. /\ saved'[t] = Append(s, r)
      /\ \A u \in Threads \ {t} : saved'[u] = saved[u]
  BY DEF TypeOK
<1> HIDE DEF s
<1>3. /\ Append(s, r) \in Seq(Record) /\ DOMAIN Append(s, r) = 1..k
      /\ \A i \in 1..Len(s) : Append(s, r)[i] = s[i]
      /\ Append(s, r)[k] = r
  BY <1>1
<1>4. saved' \in [Threads -> Seq(Record)]
  BY <1>1, <1>3 DEF TypeOK, s
<1>5. k \in 1..k /\ \A i \in 1..k : i \in 1..Len(s) \/ i = k
  BY <1>1
<1>6. 1..Len(s) \subseteq 1..k
  BY <1>1
<1> HIDE DEF k
<1>7. ASSUME NEW u \in Threads, NEW i \in DOMAIN saved[u]
      PROVE  i \in DOMAIN saved'[u] /\ saved'[u][i] = saved[u][i]
  BY <1>1, <1>2, <1>3, <1>6 DEF s
<1>8. ASSUME NEW u \in Threads, NEW i \in DOMAIN saved'[u]
      PROVE  \/ i \in DOMAIN saved[u] /\ saved'[u][i] = saved[u][i]
             \/ u = t /\ i = k
  BY <1>1, <1>2, <1>3, <1>5 DEF s
<1>9. k \in DOMAIN saved'[t] /\ saved'[t][k] = r
  BY <1>2, <1>3, <1>5
<1> QED BY <1>4, <1>7, <1>8, <1>9

(* Leaving one: only the last record of the thread goes.                    *)
LEMMA PopStep ==
  ASSUME TypeOK, NEW t \in Threads, saved[t] # <<>>,
         saved' = [saved EXCEPT ![t] = SubSeq(@, 1, Len(@) - 1)]
  PROVE  /\ saved' \in [Threads -> Seq(Record)]
         /\ Len(saved[t]) \in DOMAIN saved[t]
         /\ \A u \in Threads : \A i \in DOMAIN saved'[u] :
              /\ i \in DOMAIN saved[u] /\ saved'[u][i] = saved[u][i]
              /\ ~(u = t /\ i = Len(saved[t]))
         /\ \A u \in Threads : \A i \in DOMAIN saved[u] :
              \/ i \in DOMAIN saved'[u] /\ saved'[u][i] = saved[u][i]
              \/ u = t /\ i = Len(saved[t])
<1> DEFINE s == saved[t]
           n == Len(s)
           q == SubSeq(s, 1, n - 1)
<1>1. s \in Seq(Record) /\ n \in Nat \ {0} /\ DOMAIN s = 1..n
  BY DEF TypeOK
<1>2. /\ saved'[t] = q
      /\ \A u \in Threads \ {t} : saved'[u] = saved[u]
  BY DEF TypeOK
<1> HIDE DEF s
<1>3. q \in Seq(Record) /\ DOMAIN q = 1..(n - 1) /\ \A i \in 1..(n - 1) : q[i] = s[i]
  BY <1>1
<1>4. saved' \in [Threads -> Seq(Record)]
  BY <1>3 DEF TypeOK, s
<1> HIDE DEF n, q
<1>5. n \in 1..n /\ \A i \in 1..n : i \in 1..(n - 1) \/ i = n
  BY <1>1
<1>6. \A i \in 1..(n - 1) : i \in 1..n /\ i # n
  BY <1>1
<1>7. ASSUME NEW u \in Threads, NEW i \in DOMAIN saved'[u]
      PROVE  /\ i \in DOMAIN saved[u] /\ saved'[u][i] = saved[u][i]
             /\ ~(u = t /\ i = n)
  BY <1>1, <1>2, <1>3, <1>6 DEF s
<1>8. ASSUME NEW u \in Threads, NEW i \in DOMAIN saved[u]
      PROVE  \/ i \in DOMAIN saved'[u] /\ saved'[u][i] = saved[u][i]
             \/ u = t /\ i = n
  BY <1>1, <1>2, <1>3, <1>5 DEF s
<1> QED BY <1>1, <1>4, <1>5, <1>7, <1>8 DEF n, s

-------------------------------------------------------------------------------
(* One lemma per action                                                     *)

(* A client that is created replaces None, which was the base.              *)
LEMMA GetClientStep ==
  ASSUME IInv, NEW t \in Threads, GetClient(t)
  PROVE  IInv'
<1> USE DEF IInv, TypeOK, Go
<1>0. Owned \subseteq Clients /\ Injected \subseteq Clients /\ None \notin Clients /\ Owned \cap Injected = {}
  BY ClientAssumption DEF Clients
<1>1. /\ saved' = saved /\ raised' = raised
      /\ pc' = [pc EXCEPT ![t] = "capturing"] /\ held' = [held EXCEPT ![t] = client']
  BY DEF GetClient
<1>2. CASE MustCreate
  <2>1. PICK c \in Owned : /\ state[c] = "new" /\ state' = [state EXCEPT ![c] = "open"]
                           /\ client' = c /\ owns' = TRUE
    BY <1>2 DEF GetClient
  <2>2. client = None
    BY <1>2 DEF MustCreate
  <2>3. TypeOK'
    BY <1>0, <1>1, <2>1
  <2>4. OwnsItsOwn'
    BY <1>1, <2>1 DEF OwnsItsOwn
  <2>5. ~raised => \A u \in Threads : \A i \in DOMAIN saved[u] : saved[u][i].previous[1] \in Injected
    BY <1>0, <2>2 DEF OneBase, Base
  <2>6. OneBase'
    BY <1>1, <2>5 DEF OneBase, Base
  <2>7. ASSUME ~raised, NEW d \in Owned, Alive(d)' PROVE client' = d
    <3>1. ASSUME d # c PROVE Alive(d)
      BY <1>0, <2>1, <2>7, <3>1 DEF Alive
    <3>2. ~Alive(d)
      BY <1>0, <2>2, <2>5, <2>7 DEF AliveIsBase, PutBack
    <3> QED BY <2>1, <3>1, <3>2
  <2>8. AliveIsBase'
    BY <1>1, <2>7 DEF AliveIsBase
  <2>9. ClosesItsOwn'
    BY <1>0, <1>1, <2>1 DEF ClosesItsOwn
  <2> QED BY <2>3, <2>4, <2>6, <2>8, <2>9
<1>3. CASE ~MustCreate
  <2>1. UNCHANGED <<client, owns, state>>
    BY <1>3 DEF GetClient
  <2>2. TypeOK'
    BY <1>1, <2>1
  <2>3. OwnsItsOwn' /\ OneBase' /\ AliveIsBase'
    BY <1>1, <2>1 DEF OwnsItsOwn, OneBase, Base, AliveIsBase, Alive, PutBack
  <2>4. ClosesItsOwn'
    BY <1>1, <2>1 DEF ClosesItsOwn
  <2> QED BY <2>2, <2>3, <2>4
<1> QED BY <1>2, <1>3

(* An override hides the base, if it is current, and will put it back.      *)
LEMMA EnterOverrideStep ==
  ASSUME IInv, NEW t \in Threads, NEW c \in Injected, EnterOverride(t, c)
  PROVE  IInv'
<1> USE DEF IInv, TypeOK
<1> DEFINE r == [injected |-> c, previous |-> <<client, owns>>]
<1>0. Owned \subseteq Clients /\ Injected \subseteq Clients /\ Owned \cap Injected = {}
  BY ClientAssumption DEF Clients
<1>1. /\ client' = c /\ owns' = FALSE /\ UNCHANGED <<state, pc, held, raised>>
      /\ saved' = [saved EXCEPT ![t] = Append(@, r)]
  BY DEF EnterOverride
<1>2. r \in Record /\ r.previous[1] = client /\ r.previous[2] = owns
  BY DEF Record
<1> HIDE DEF r
<1>3. saved' \in [Threads -> Seq(Record)]
  BY <1>1, <1>2, PushStep
<1>4. \A u \in Threads : \A i \in DOMAIN saved[u] :
        i \in DOMAIN saved'[u] /\ saved'[u][i] = saved[u][i]
  BY <1>1, <1>2, PushStep
<1>5. PICK k : /\ k \in DOMAIN saved'[t] /\ saved'[t][k] = r
               /\ \A u \in Threads : \A i \in DOMAIN saved'[u] :
                    \/ i \in DOMAIN saved[u] /\ saved'[u][i] = saved[u][i]
                    \/ u = t /\ i = k
  BY <1>1, <1>2, PushStep
<1>6. TypeOK'
  BY <1>0, <1>1, <1>3
<1>7. OwnsItsOwn'
  <2>1. owns' <=> client' \in Owned
    BY <1>0, <1>1
  <2>2. ASSUME NEW u \in Threads, NEW i \in DOMAIN saved'[u]
        PROVE  saved'[u][i].previous[2] <=> saved'[u][i].previous[1] \in Owned
    BY <1>2, <1>5 DEF OwnsItsOwn
  <2> QED BY <2>1, <2>2 DEF OwnsItsOwn
<1>8. OneBase'
  <2>1. SUFFICES ASSUME ~raised, NEW u \in Threads, NEW v \in Threads,
                        NEW i \in DOMAIN saved'[u], NEW j \in DOMAIN saved'[v],
                        saved'[u][i].previous[1] \notin Injected, saved'[v][j].previous[1] \notin Injected
                 PROVE  u = v /\ i = j
    BY <1>1 DEF OneBase, Base
  <2>2. CASE client \in Injected
    <3>1. /\ i \in DOMAIN saved[u] /\ saved'[u][i] = saved[u][i]
          /\ j \in DOMAIN saved[v] /\ saved'[v][j] = saved[v][j]
      BY <1>2, <1>5, <2>1, <2>2
    <3> QED BY <2>1, <3>1 DEF OneBase, Base
  <2>3. CASE client \notin Injected
    <3>1. u = t /\ i = k /\ v = t /\ j = k
      BY <1>5, <2>1, <2>3 DEF OneBase, Base
    <3> QED BY <3>1
  <2> QED BY <2>2, <2>3
<1>9. AliveIsBase'
  <2>1. SUFFICES ASSUME ~raised, NEW d \in Owned, Alive(d)' PROVE PutBack(d)'
    BY <1>1 DEF AliveIsBase
  <2>2. client = d \/ PutBack(d)
    BY <1>1, <2>1 DEF AliveIsBase, Alive
  <2>3. CASE client = d
    BY <1>2, <1>5, <2>3 DEF PutBack
  <2>4. CASE PutBack(d)
    BY <1>4, <2>4 DEF PutBack
  <2> QED BY <2>2, <2>3, <2>4
<1>10. ClosesItsOwn'
  BY <1>1 DEF ClosesItsOwn
<1> QED BY <1>6, <1>7, <1>8, <1>9, <1>10

(* Leaving an override that is current puts back what it hid.               *)
LEMMA ExitOverrideStep ==
  ASSUME IInv, NEW t \in Threads, ExitOverride(t)
  PROVE  IInv'
<1> USE DEF IInv, TypeOK
<1> DEFINE n == Len(saved[t])
           r == saved[t][n]
<1>0. Owned \subseteq Clients /\ Injected \subseteq Clients /\ Owned \cap Injected = {}
  BY ClientAssumption DEF Clients
<1>1. /\ UNCHANGED <<state, pc, held>> /\ saved[t] # <<>>
      /\ saved' = [saved EXCEPT ![t] = SubSeq(@, 1, Len(@) - 1)]
      /\ \/ /\ client = r.injected /\ client' = r.previous[1] /\ owns' = r.previous[2]
            /\ UNCHANGED raised
         \/ raised' = TRUE /\ UNCHANGED <<client, owns>>
  BY DEF ExitOverride, UnchangedIn, Restores
<1>2. /\ saved' \in [Threads -> Seq(Record)] /\ n \in DOMAIN saved[t]
      /\ \A u \in Threads : \A i \in DOMAIN saved'[u] :
           /\ i \in DOMAIN saved[u] /\ saved'[u][i] = saved[u][i]
           /\ ~(u = t /\ i = n)
  BY <1>1, PopStep
<1>3. \A u \in Threads : \A i \in DOMAIN saved[u] :
        \/ i \in DOMAIN saved'[u] /\ saved'[u][i] = saved[u][i]
        \/ u = t /\ i = n
  BY <1>1, PopStep
<1>4. r \in Record
  BY <1>2
<1>5. /\ r.injected \in Injected /\ r.previous[1] \in Clients \cup {None} /\ r.previous[2] \in BOOLEAN
      /\ r.previous[2] <=> r.previous[1] \in Owned
  BY <1>2, <1>4 DEF Record, OwnsItsOwn
<1> HIDE DEF n, r
<1>6. TypeOK'
  BY <1>1, <1>2, <1>5
<1>7. OwnsItsOwn'
  BY <1>1, <1>2, <1>5 DEF OwnsItsOwn
<1>8. ClosesItsOwn'
  BY <1>1 DEF ClosesItsOwn
<1>9. CASE raised'
  BY <1>6, <1>7, <1>8, <1>9 DEF OneBase, AliveIsBase
<1>10. CASE ~raised'
  <2>1. ~raised /\ client \in Injected /\ client' = r.previous[1]
    BY <1>1, <1>5, <1>10
  <2>2. \A u, v \in Threads : \A i \in DOMAIN saved'[u], j \in DOMAIN saved'[v] :
          Base(u, i)' /\ Base(v, j)' => u = v /\ i = j
    BY <1>2, <2>1 DEF OneBase, Base
  <2>3. ASSUME client' \notin Injected, NEW u \in Threads, NEW i \in DOMAIN saved'[u]
        PROVE  ~Base(u, i)'
    <3>1. Base(t, n)
      BY <2>1, <2>3 DEF Base, r
    <3> QED BY <1>2, <2>1, <3>1 DEF OneBase, Base
  <2>4. ASSUME NEW d \in Owned, Alive(d)' PROVE client' = d \/ PutBack(d)'
    <3>1. PutBack(d)
      BY <1>0, <1>1, <2>1, <2>4 DEF AliveIsBase, Alive
    <3>2. PICK u \in Threads : \E i \in DOMAIN saved[u] : saved[u][i].previous[1] = d
      BY <3>1 DEF PutBack
    <3> QED BY <1>3, <2>1, <3>2 DEF PutBack, r
  <2> QED BY <1>6, <1>7, <1>8, <2>2, <2>3, <2>4 DEF OneBase, AliveIsBase
<1> QED BY <1>9, <1>10

(* A client that is forgotten is closed.                                    *)
LEMMA CloseClearsStep ==
  ASSUME IInv, NEW t \in Threads, CloseClears(t)
  PROVE  IInv'
<1> USE DEF IInv, TypeOK, Go
<1>0. Owned \subseteq Clients /\ Injected \subseteq Clients /\ None \notin Clients /\ Owned \cap Injected = {}
  BY ClientAssumption DEF Clients
<1>1. /\ UNCHANGED <<state, saved, raised>> /\ pc[t] = "clearing"
      /\ pc' = [pc EXCEPT ![t] = "idle"] /\ held' = [held EXCEPT ![t] = None]
      /\ \/ client = held[t] /\ client' = None /\ owns' = FALSE
         \/ UNCHANGED <<client, owns>>
  BY DEF CloseClears, StillCurrent
<1>2. held[t] \in Owned /\ ~Alive(held[t])
  BY <1>1 DEF ClosesItsOwn, Alive
<1>3. TypeOK'
  BY <1>1
<1>4. OwnsItsOwn'
  BY <1>0, <1>1 DEF OwnsItsOwn
<1>5. OneBase'
  BY <1>0, <1>1, <1>2 DEF OneBase, Base
<1>6. AliveIsBase'
  BY <1>1, <1>2 DEF AliveIsBase, Alive, PutBack
<1>7. ClosesItsOwn'
  BY <1>1 DEF ClosesItsOwn
<1> QED BY <1>3, <1>4, <1>5, <1>6, <1>7

(* close() of an owned client begins, or finds it closing or closed.        *)
LEMMA CloseCallsStep ==
  ASSUME IInv, NEW t \in Threads, CloseCalls(t)
  PROVE  IInv'
<1> USE DEF IInv, TypeOK, Go
<1> DEFINE h == held[t]
<1>0. Owned \subseteq Clients /\ Injected \subseteq Clients /\ Owned \cap Injected = {}
  BY ClientAssumption DEF Clients
<1>1. /\ UNCHANGED <<client, owns, saved, raised>> /\ pc[t] = "read"
      /\ state' = [state EXCEPT ![h] = IF @ = "open" THEN "closing" ELSE @]
      /\ pc' = [pc EXCEPT ![t] = IF state[h] = "closed" THEN "clearing" ELSE "closing"]
      /\ held' = [held EXCEPT ![t] = h]
  BY DEF CloseCalls
<1>2. h \in Owned /\ h \in Clients
  BY <1>0, <1>1 DEF ClosesItsOwn
<1> HIDE DEF h
<1>3. /\ state'[h] = IF state[h] = "open" THEN "closing" ELSE state[h]
      /\ \A d \in Clients \ {h} : state'[d] = state[d]
      /\ held' = held
  BY <1>1, <1>2 DEF h
<1>4. TypeOK'
  BY <1>1, <1>3
<1>5. OwnsItsOwn' /\ OneBase'
  BY <1>1 DEF OwnsItsOwn, OneBase, Base
<1>6. \A d \in Owned : Alive(d)' => Alive(d)
  BY <1>0, <1>3 DEF Alive
<1>7. AliveIsBase'
  BY <1>1, <1>6 DEF AliveIsBase, PutBack
<1>8. ASSUME NEW d \in Clients, state[d] = "closed" PROVE state'[d] = "closed"
  BY <1>2, <1>3, <1>8
<1>9. \A u \in Threads \ {t} : pc'[u] = pc[u]
  BY <1>1
<1>10. pc'[t] \in {"closing", "clearing"} /\ (pc'[t] = "clearing" => state[h] = "closed") /\ held[t] = h
  BY <1>1 DEF h
<1>11. ClosesItsOwn'
  <2>1. ASSUME NEW u \in Threads
        PROVE  /\ pc'[u] \in {"read", "closing", "clearing"} => held'[u] \in Owned
               /\ pc'[u] = "clearing" => state'[held'[u]] = "closed"
    BY <1>0, <1>2, <1>3, <1>8, <1>9, <1>10 DEF ClosesItsOwn
  <2>2. \A d \in Injected : state'[d] = "open"
    BY <1>0, <1>2, <1>3 DEF ClosesItsOwn
  <2> QED BY <2>1, <2>2 DEF ClosesItsOwn
<1> QED BY <1>4, <1>5, <1>7, <1>11

(* close() ends, for everybody who waits for it.                            *)
LEMMA CloseEndsStep ==
  ASSUME IInv, NEW c \in Clients, NEW ok \in BOOLEAN, CloseEnds(c, ok)
  PROVE  IInv'
<1> USE DEF IInv, TypeOK
<1>0. Owned \subseteq Clients /\ Injected \subseteq Clients /\ Clients = Owned \cup Injected
  BY DEF Clients
<1>1. /\ UNCHANGED <<client, owns, saved, raised>> /\ state[c] = "closing"
      /\ state' = [state EXCEPT ![c] = IF ok THEN "closed" ELSE "open"]
      /\ pc' = [u \in Threads |-> IF u \notin Closers(c) THEN pc[u] ELSE IF ok THEN "clearing" ELSE "idle"]
      /\ held' = [u \in Threads |-> IF u \in Closers(c) /\ ~ok THEN None ELSE held[u]]
  BY DEF CloseEnds
<1>2. c \in Owned /\ c \notin Injected
  BY <1>0, <1>1 DEF ClosesItsOwn
<1>3. state'[c] = (IF ok THEN "closed" ELSE "open") /\ \A d \in Clients \ {c} : state'[d] = state[d]
  BY <1>1
<1>4. TypeOK'
  BY <1>1
<1>5. OwnsItsOwn' /\ OneBase'
  BY <1>1 DEF OwnsItsOwn, OneBase, Base
<1>6. \A d \in Owned : Alive(d)' => Alive(d)
  BY <1>0, <1>1, <1>3 DEF Alive
<1>7. AliveIsBase'
  BY <1>1, <1>6 DEF AliveIsBase, PutBack
<1>8. ClosesItsOwn'
  <2>1. ASSUME NEW u \in Threads
        PROVE  /\ pc'[u] \in {"read", "closing", "clearing"} => held'[u] \in Owned
               /\ pc'[u] = "clearing" => state'[held'[u]] = "closed"
    <3>1. CASE u \in Closers(c)
      <4>1. pc[u] = "closing" /\ held[u] = c
        BY <3>1 DEF Closers
      <4>2. pc'[u] = (IF ok THEN "clearing" ELSE "idle") /\ (ok => held'[u] = c)
        BY <1>1, <3>1, <4>1
      <4> QED BY <1>2, <1>3, <4>2
    <3>2. CASE u \notin Closers(c)
      <4>1. pc'[u] = pc[u] /\ held'[u] = held[u]
        BY <1>1, <3>2
      <4>2. pc[u] = "clearing" => held[u] # c /\ held[u] \in Clients
        BY <1>0, <1>1 DEF ClosesItsOwn
      <4> QED BY <1>3, <4>1, <4>2 DEF ClosesItsOwn
    <3> QED BY <3>1, <3>2
  <2>2. \A d \in Injected : state'[d] = "open"
    BY <1>0, <1>2, <1>3 DEF ClosesItsOwn
  <2> QED BY <2>1, <2>2 DEF ClosesItsOwn
<1> QED BY <1>4, <1>5, <1>7, <1>8

LEMMA NextIInv == IInv /\ [Next]_vars => IInv'
<1> SUFFICES ASSUME IInv, [Next]_vars PROVE IInv'
  OBVIOUS
<1> USE DEF IInv, TypeOK, OwnsItsOwn, OneBase, Base, AliveIsBase, Alive, PutBack, ClosesItsOwn, Go
<1>1. ASSUME NEW t \in Threads, Capture(t) PROVE IInv'
  BY <1>1 DEF Capture
<1>2. ASSUME NEW t \in Threads, CloseReads(t) PROVE IInv'
  <2>1. client \in Owned /\ client \in Clients
    BY <1>2 DEF CloseReads, MayClose, Clients
  <2> QED BY <1>2, <2>1 DEF CloseReads
<1>3. CASE UNCHANGED vars
  BY <1>3 DEF vars
<1> QED
  BY <1>1, <1>2, <1>3, GetClientStep, EnterOverrideStep, ExitOverrideStep, CloseCallsStep,
     CloseClearsStep, CloseEndsStep DEF Next

-------------------------------------------------------------------------------
(* At most one app-owned client is alive and the module can still close it, *)
(* unless overlapping overrides have raised; tests' clients are never       *)
(* closed (get_trafficwar_client, override_trafficwar_client,               *)
(* close_owned_trafficwar_client).                                          *)
THEOREM NoClientLost == Spec => []NothingLost
<1>1. IInv => NothingLost
  <2> SUFFICES ASSUME IInv PROVE NothingLost
    OBVIOUS
  <2> USE DEF IInv
  <2> DEFINE alive == {c \in Owned : state[c] \in {"open", "closing"}}
  <2>0. Owned \cap Injected = {}
    BY ClientAssumption
  <2>1. ASSUME ~raised, NEW c \in alive PROVE (client = c /\ owns) \/ Hidden(c)
    <3>1. client = c \/ PutBack(c)
      BY <2>1 DEF AliveIsBase, Alive
    <3>2. CASE client = c
      BY <3>2 DEF OwnsItsOwn
    <3>3. CASE PutBack(c)
      <4>1. PICK t \in Threads : \E i \in DOMAIN saved[t] : saved[t][i].previous[1] = c
        BY <3>3 DEF PutBack
      <4>2. PICK i \in DOMAIN saved[t] : saved[t][i].previous[1] = c
        BY <4>1
      <4>3. saved[t][i] \in Record
        BY <4>2 DEF TypeOK
      <4>4. saved[t][i].previous = <<saved[t][i].previous[1], saved[t][i].previous[2]>>
        BY <4>3 DEF Record
      <4>5. saved[t][i].previous[2] = TRUE
        BY <4>2, <4>3 DEF OwnsItsOwn, Record
      <4>6. saved[t][i] \in Overrides
        BY DEF Overrides
      <4> QED BY <4>2, <4>4, <4>5, <4>6 DEF Hidden
    <3> QED BY <3>1, <3>2, <3>3
  <2>2. ASSUME ~raised, NEW c \in alive, NEW d \in alive PROVE c = d
    <3>1. /\ client = c \/ \E t \in Threads : \E i \in DOMAIN saved[t] : saved[t][i].previous[1] = c
          /\ client = d \/ \E t \in Threads : \E i \in DOMAIN saved[t] : saved[t][i].previous[1] = d
      BY <2>2 DEF AliveIsBase, Alive, PutBack
    <3>2. c \notin Injected /\ d \notin Injected
      BY <2>0
    <3> QED BY <2>2, <3>1, <3>2 DEF OneBase, Base
  <2>3. ASSUME ~raised PROVE Cardinality(alive) <= 1
    <3>1. CASE alive = {}
      BY <3>1, FS_EmptySet
    <3>2. CASE alive # {}
      <4>1. PICK c \in alive : TRUE
        BY <3>2
      <4>2. alive = {c}
        BY <2>2, <2>3, <4>1
      <4> HIDE DEF alive
      <4>3. IsFiniteSet(alive) /\ Cardinality(alive) = 1
        BY <4>2, FS_Singleton
      <4> QED BY <4>3
    <3> QED BY <3>1, <3>2
  <2>4. \A c \in Injected : state[c] = "open"
    BY DEF ClosesItsOwn
  <2> QED BY <2>1, <2>3, <2>4 DEF NothingLost
<1> QED BY <1>1, InitIInv, NextIInv, PTL DEF Spec

===============================================================================
