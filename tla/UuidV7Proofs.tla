----------------------------- MODULE UuidV7Proofs -----------------------------
(***************************************************************************)
(* The ids of a process are strictly increasing, as fields and as numbers,  *)
(* for every number of threads, every clock, and every width of the fields. *)
(*                                                                          *)
(* The argument: the newest id is what the generator remembers, whatever the*)
(* clock says, so the fields increase; no field outgrows its bits, so the   *)
(* numbers have the order of the fields.  What is needed of powers of two is*)
(* read off the sets of subsets, which have as many elements.               *)
(***************************************************************************)
EXTENDS UuidV7, FiniteSetTheorems, TLAPS

(* What the order of the ids rests on: they are pairs of integers, and the  *)
(* last one issued is what the generator remembers.                         *)
IntFields == [timestamp : Int, random : Int]

Integral ==
  /\ lastTimestamp \in Int /\ lastRandom \in Int
  /\ clock \in Int /\ now \in [Threads -> Int]
  /\ ids \in Seq(IntFields)

Newest ==
  ids # <<>> => ids[Len(ids)] = [timestamp |-> lastTimestamp, random |-> lastRandom]

IInv == Integral /\ Newest /\ Monotonic

LEMMA InitIInv == Init => IInv
BY UuidAssumption DEF Init, IInv, Integral, Newest, Monotonic, IntFields

(* Before is transitive, so that an id after the newest is after them all.  *)
LEMMA AppendMonotonic ==
  ASSUME NEW s \in Seq(IntFields), NEW f \in IntFields,
         \A i, j \in DOMAIN s : i < j => Before(s[i], s[j]),
         s # <<>> => Before(s[Len(s)], f)
  PROVE  \A i, j \in DOMAIN Append(s, f) : i < j => Before(Append(s, f)[i], Append(s, f)[j])
<1> DEFINE q == Append(s, f)
<1>1. Len(q) = Len(s) + 1 /\ DOMAIN q = 1..Len(q) /\ DOMAIN s = 1..Len(s) /\ Len(s) \in Nat
  OBVIOUS
<1>2. \A i \in 1..Len(s) : q[i] = s[i] /\ s[i] \in IntFields
  OBVIOUS
<1>3. q[Len(s) + 1] = f
  OBVIOUS
<1>4. ASSUME NEW i \in 1..Len(s) PROVE Before(s[i], f)
  <2>1. s # <<>> /\ Len(s) \in 1..Len(s)
    BY <1>1
  <2>2. s[i] \in IntFields /\ s[Len(s)] \in IntFields
    BY <1>2, <2>1
  <2>3. CASE i = Len(s)
    BY <2>1, <2>3
  <2>4. CASE i < Len(s)
    <3>1. Before(s[i], s[Len(s)]) /\ Before(s[Len(s)], f)
      BY <1>1, <2>1, <2>4
    <3> QED
      BY <2>2, <3>1 DEF Before, IntFields
  <2>5. Len(s) \in Int /\ i \in Int /\ i <= Len(s)
    OBVIOUS
  <2> QED
    <3>1. i = Len(s) \/ i < Len(s)
      BY <2>5
    <3> QED
      BY <2>3, <2>4, <3>1
<1>5. ASSUME NEW i \in DOMAIN q, NEW j \in DOMAIN q, i < j PROVE Before(q[i], q[j])
  <2>1. CASE j \in 1..Len(s)
    <3>1. i \in 1..Len(s) /\ q[i] = s[i] /\ q[j] = s[j]
      BY <1>1, <1>2, <1>5, <2>1
    <3> QED
      BY <1>1, <1>5, <2>1, <3>1
  <2>2. CASE j = Len(s) + 1
    <3>1. i \in 1..Len(s) /\ q[i] = s[i] /\ q[j] = f
      BY <1>1, <1>2, <1>3, <1>5, <2>2
    <3> QED
      BY <1>4, <3>1
  <2> QED
    BY <1>1, <2>1, <2>2
<1> QED
  BY <1>5

(* Only Generate and Fork touch what the invariant speaks of.               *)
LEMMA GenerateIInv ==
  ASSUME IInv, NEW t \in Threads, Generate(t)
  PROVE  IInv'
<1> DEFINE f == [timestamp |-> lastTimestamp', random |-> lastRandom']
<1> USE DEF IInv, Integral
<1>1. CASE Exhausted(t)
  BY <1>1 DEF Generate, Newest, Monotonic
<1>2. CASE ~Exhausted(t)
  <2>1. ids' = Append(ids, f) /\ now' = now /\ clock' = clock
    BY <1>2 DEF Generate
  <2>2. lastTimestamp' \in Int /\ lastRandom' \in Int
    <3>1. now[t] \in Int
      OBVIOUS
    <3>2. CASE Continues(t)
      BY <1>2, <3>2 DEF Generate
    <3>3. CASE ~Continues(t)
      <4>1. lastTimestamp' = Advance(t) /\ lastRandom' \in 0..MaxRandom
        BY <1>2, <3>3 DEF Generate
      <4> QED
        BY <3>1, <4>1 DEF Advance
    <3> QED
      BY <3>2, <3>3
  <2>3. f \in IntFields
    BY <2>2 DEF IntFields
  <2>4. ids # <<>> => Before(ids[Len(ids)], f)
    <3>1. now[t] \in Int
      OBVIOUS
    <3>2. \/ lastTimestamp' = lastTimestamp /\ lastRandom' = lastRandom + 1
          \/ lastTimestamp' > lastTimestamp
      BY <1>2, <3>1 DEF Generate, Advance
    <3> QED
      BY <2>2, <3>2 DEF Newest, Before
  <2>5. Monotonic'
    BY <2>1, <2>3, <2>4, AppendMonotonic DEF Monotonic
  <2>6. Newest'
    BY <2>1, <2>3 DEF Newest
  <2> QED
    BY <2>1, <2>2, <2>3, <2>5, <2>6
<1> QED
  BY <1>1, <1>2

LEMMA NextIInv == IInv /\ [Next]_vars => IInv'
<1> SUFFICES ASSUME IInv, [Next]_vars PROVE IInv'
  OBVIOUS
<1> USE DEF IInv, Integral
<1>1. CASE SetClock \/ Bounded \/ UNCHANGED vars
  BY <1>1, UuidAssumption DEF SetClock, Bounded, vars, Newest, Monotonic
<1>2. ASSUME NEW t \in Threads, ReadClock(t) PROVE IInv'
  BY <1>2 DEF ReadClock, Newest, Monotonic
<1>3. ASSUME NEW t \in Threads, Acquire(t) PROVE IInv'
  BY <1>3 DEF Acquire, Newest, Monotonic
<1>4. ASSUME NEW t \in Threads, Generate(t) PROVE IInv'
  BY <1>4, GenerateIInv
<1>5. ASSUME NEW t \in Threads, Fork(t) PROVE IInv'
  BY <1>5 DEF Fork, Newest, Monotonic, IntFields
<1> QED
  BY <1>1, <1>2, <1>3, <1>4, <1>5 DEF Next

(* "Ordered after earlier calls in this process", the README's              *)
(* "process-monotonic": in the order of the lock every id is after all      *)
(* those before it, whichever thread read the clock first and wherever the  *)
(* clock was set meanwhile.                                                 *)
THEOREM UuidMonotonic == Safety => []Monotonic
<1>1. Init => IInv
  BY InitIInv
<1>2. IInv /\ [Next]_vars => IInv'
  BY NextIInv
<1>3. IInv => Monotonic
  BY DEF IInv
<1> QED
  BY <1>1, <1>2, <1>3, PTL DEF Safety

-------------------------------------------------------------------------------
(* Powers of two, which are the sizes of the sets of subsets.               *)

LEMMA PowerSet ==
  ASSUME NEW n \in Nat, NEW S, IsFiniteSet(S), Cardinality(S) = n
  PROVE  IsFiniteSet(SUBSET S) /\ Cardinality(SUBSET S) = 2^n /\ 2^n \in Nat \ {0}
<1>1. IsFiniteSet(SUBSET S) /\ Cardinality(SUBSET S) = 2^n
  BY FS_SUBSET
<1>2. Cardinality(SUBSET S) \in Nat /\ Cardinality(SUBSET S) # 0
  BY <1>1, FS_CardinalityType, FS_EmptySet, Zenon
<1> QED BY <1>1, <1>2

LEMMA PowerSum ==
  ASSUME NEW m \in Nat, NEW n \in Nat
  PROVE  /\ 2^m \in Nat \ {0} /\ 2^n \in Nat \ {0}
         /\ 2^(m + n) = 2^m * 2^n
<1> DEFINE A == 1..m
           B == (m + 1)..(m + n)
           f == [S \in SUBSET (A \cup B) |-> <<S \cap A, S \cap B>>]
<1>1. /\ IsFiniteSet(A) /\ Cardinality(A) = m /\ IsFiniteSet(B) /\ Cardinality(B) = n
      /\ IsFiniteSet(1..(m + n)) /\ Cardinality(1..(m + n)) = m + n
  <2>1. IsFiniteSet(1..m) /\ Cardinality(1..m) = m
    <3>1. Cardinality(1..m) = IF 1 > m THEN 0 ELSE m - 1 + 1
      BY FS_Interval
    <3> QED BY <3>1, FS_Interval
  <2>2. IsFiniteSet((m + 1)..(m + n)) /\ Cardinality((m + 1)..(m + n)) = n
    <3>1. m + 1 \in Int /\ m + n \in Int
      OBVIOUS
    <3>2. Cardinality((m + 1)..(m + n)) = IF m + 1 > m + n THEN 0 ELSE (m + n) - (m + 1) + 1
      BY <3>1, FS_Interval
    <3> QED BY <3>1, <3>2, FS_Interval
  <2>3. IsFiniteSet(1..(m + n)) /\ Cardinality(1..(m + n)) = m + n
    <3>1. m + n \in Nat
      OBVIOUS
    <3>2. Cardinality(1..(m + n)) = IF 1 > m + n THEN 0 ELSE (m + n) - 1 + 1
      BY <3>1, FS_Interval
    <3> QED BY <3>1, <3>2, FS_Interval
  <2> QED BY <2>1, <2>2, <2>3
<1>2. A \cup B = 1..(m + n) /\ A \cap B = {} /\ m + n \in Nat
  OBVIOUS
<1> HIDE DEF A, B
<1>3. f \in Bijection(SUBSET (A \cup B), (SUBSET A) \X (SUBSET B))
  <2>1. f \in [SUBSET (A \cup B) -> (SUBSET A) \X (SUBSET B)]
    OBVIOUS
  <2>2. ASSUME NEW S \in SUBSET (A \cup B), NEW T \in SUBSET (A \cup B), f[S] = f[T] PROVE S = T
    <3>1. S \cap A = T \cap A /\ S \cap B = T \cap B
      BY <2>2
    <3> QED BY <3>1
  <2>3. ASSUME NEW p \in (SUBSET A) \X (SUBSET B) PROVE \E S \in SUBSET (A \cup B) : f[S] = p
    <3>1. PICK S \in SUBSET A, T \in SUBSET B : p = <<S, T>>
      OBVIOUS
    <3>2. (S \cup T) \cap A = S /\ (S \cup T) \cap B = T /\ S \cup T \in SUBSET (A \cup B)
      BY <1>2
    <3>3. f[S \cup T] = p
      BY <3>1, <3>2
    <3> QED BY <3>2, <3>3
  <2> HIDE DEF f
  <2>4. f \in Injection(SUBSET (A \cup B), (SUBSET A) \X (SUBSET B))
    BY <2>1, <2>2 DEF Injection, IsInjective
  <2>5. f \in Surjection(SUBSET (A \cup B), (SUBSET A) \X (SUBSET B))
    BY <2>1, <2>3 DEF Surjection
  <2> QED BY <2>4, <2>5 DEF Bijection
<1>4. /\ IsFiniteSet(SUBSET A) /\ Cardinality(SUBSET A) = 2^m /\ 2^m \in Nat \ {0}
      /\ IsFiniteSet(SUBSET B) /\ Cardinality(SUBSET B) = 2^n /\ 2^n \in Nat \ {0}
      /\ IsFiniteSet(SUBSET (A \cup B)) /\ Cardinality(SUBSET (A \cup B)) = 2^(m + n)
  <2>1. IsFiniteSet(SUBSET A) /\ Cardinality(SUBSET A) = 2^m /\ 2^m \in Nat \ {0}
    BY <1>1, PowerSet
  <2>2. IsFiniteSet(SUBSET B) /\ Cardinality(SUBSET B) = 2^n /\ 2^n \in Nat \ {0}
    BY <1>1, PowerSet
  <2>3. IsFiniteSet(SUBSET (A \cup B)) /\ Cardinality(SUBSET (A \cup B)) = 2^(m + n)
    <3>1. IsFiniteSet(A \cup B) /\ Cardinality(A \cup B) = m + n
      BY <1>1, <1>2
    <3> QED BY <1>2, <3>1, PowerSet
  <2> QED BY <2>1, <2>2, <2>3
<1>5. Cardinality((SUBSET A) \X (SUBSET B)) = 2^m * 2^n
  BY <1>4, FS_Product
<1>6. Cardinality((SUBSET A) \X (SUBSET B)) = 2^(m + n)
  <2>1. ExistsBijection(SUBSET (A \cup B), (SUBSET A) \X (SUBSET B))
    BY <1>3, Zenon DEF ExistsBijection
  <2> QED BY <1>4, <2>1, FS_Bijection
<1> QED BY <1>4, <1>5, <1>6


-------------------------------------------------------------------------------
(* The fields fit their bits                                                *)

LEMMA Widths ==
  /\ 2^ABits \in Nat \ {0} /\ 2^BBits \in Nat \ {0} /\ 2^ABits * 2^BBits \in Nat \ {0}
  /\ MaxRandom = 2^ABits * 2^BBits - 1
<1>1. /\ 2^ABits \in Nat \ {0} /\ 2^BBits \in Nat \ {0}
      /\ 2^(ABits + BBits) = 2^ABits * 2^BBits
  BY UuidAssumption, PowerSum
<1>2. ABits + BBits \in Nat
  BY UuidAssumption
<1>3. 2^(ABits + BBits) \in Nat \ {0}
  BY <1>2, PowerSum
<1> QED BY <1>1, <1>3 DEF MaxRandom

LEMMA GenerateType ==
  ASSUME TypeOK, NEW t \in Threads, Generate(t)
  PROVE  TypeOK'
<1> DEFINE f == [timestamp |-> lastTimestamp', random |-> lastRandom']
<1> USE DEF TypeOK
<1>1. /\ UNCHANGED <<clock, now, forks>> /\ lock' = NoThread
      /\ pc' = [pc EXCEPT ![t] = "idle"]
  BY DEF Generate
<1>2. CASE Exhausted(t)
  BY <1>1, <1>2 DEF Generate
<1>3. CASE ~Exhausted(t)
  <2>1. ids' = Append(ids, f)
    BY <1>3 DEF Generate
  <2>2. /\ now[t] \in 0..MaxTime /\ MaxRandom \in Nat /\ MaxTime \in Nat
        /\ lastTimestamp \in -1..MaxTime /\ lastRandom \in 0..MaxRandom
    BY Widths, UuidAssumption
  <2>3. lastTimestamp' \in 0..MaxTime /\ lastRandom' \in 0..MaxRandom
    <3>1. CASE Continues(t)
      <4>1. lastRandom' = lastRandom + 1 /\ lastTimestamp' = lastTimestamp
        BY <1>3, <3>1 DEF Generate
      <4> QED BY <2>2, <3>1, <4>1 DEF Continues
    <3>2. CASE ~Continues(t)
      <4>1. lastRandom' \in 0..MaxRandom /\ lastTimestamp' = Advance(t)
        BY <1>3, <3>2 DEF Generate
      <4>2. Advance(t) \in 0..MaxTime
        BY <1>3, <2>2, <3>2 DEF Advance, Continues, Exhausted
      <4> QED BY <4>1, <4>2
    <3> QED BY <3>1, <3>2
  <2>4. f \in Fields
    BY <2>3 DEF Fields
  <2>5. ids' \in Seq(Fields)
    BY <2>1, <2>4
  <2> QED BY <1>1, <2>3, <2>5
<1> QED BY <1>2, <1>3

LEMMA InitType == Init => TypeOK
BY Widths, UuidAssumption DEF Init, TypeOK

LEMMA NextType == TypeOK /\ [Next]_vars => TypeOK'
<1> SUFFICES ASSUME TypeOK, [Next]_vars PROVE TypeOK'
  OBVIOUS
<1>1. CASE SetClock \/ Bounded \/ UNCHANGED vars
  BY <1>1, UuidAssumption DEF SetClock, Bounded, vars, TypeOK
<1>2. ASSUME NEW t \in Threads, ReadClock(t) PROVE TypeOK'
  BY <1>2, UuidAssumption DEF ReadClock, TypeOK
<1>3. ASSUME NEW t \in Threads, Acquire(t) PROVE TypeOK'
  BY <1>3 DEF Acquire, TypeOK
<1>4. ASSUME NEW t \in Threads, Fork(t) PROVE TypeOK'
  BY <1>4, Widths, UuidAssumption DEF Fork, FreshLock, TypeOK
<1> QED BY <1>1, <1>2, <1>3, <1>4, GenerateType DEF Next

(* Timestamps and random values stay within their bits: a run of random     *)
(* values ends before rand_a overflows, and nothing is generated after the  *)
(* last timestamp.                                                          *)
THEOREM FieldsFit == Safety => []TypeOK
<1> QED BY InitType, NextType, PTL DEF Safety

-------------------------------------------------------------------------------
(* The numbers have the order of the fields                                 *)

(* Both halves of the random value, as the bits carry them.                 *)
LEMMA Halves ==
  ASSUME NEW r \in Nat, NEW s \in Nat, NEW B \in Nat \ {0}, r < s
  PROVE  (r \div B) * (4 * B) + (r % B) < (s \div B) * (4 * B) + (s % B)
<1> DEFINE q == r \div B
           u == s \div B
           x == r % B
           y == s % B
<1>1. /\ q \in Nat /\ u \in Nat /\ x \in 0..(B - 1) /\ y \in 0..(B - 1)
      /\ r = q * B + x /\ s = u * B + y
  OBVIOUS
<1> HIDE DEF q, u, x, y
<1>2. q * B \in Nat /\ u * B \in Nat /\ q * (4 * B) = 4 * (q * B) /\ u * (4 * B) = 4 * (u * B)
  BY <1>1
<1>3. q <= u
  <2>1. SUFFICES ASSUME u + 1 <= q PROVE FALSE
    BY <1>1
  <2>2. (u + 1) * B <= q * B
    BY <1>1, <2>1
  <2>3. (u + 1) * B = u * B + B
    BY <1>1
  <2> QED BY <1>1, <1>2, <2>2, <2>3
<1>4. ASSUME q = u PROVE q * (4 * B) + x < u * (4 * B) + y
  BY <1>1, <1>2, <1>4
<1>5. ASSUME q + 1 <= u PROVE q * (4 * B) + x < u * (4 * B) + y
  <2>1. (q + 1) * B <= u * B
    BY <1>1, <1>5
  <2>2. (q + 1) * B = q * B + B
    BY <1>1
  <2> QED BY <1>1, <1>2, <2>1, <2>2
<1>6. q = u \/ q + 1 <= u
  BY <1>1, <1>3
<1>7. q * (4 * B) + x < u * (4 * B) + y
  BY <1>4, <1>5, <1>6
<1> QED BY <1>7 DEF q, u, x, y

(* What precedes the timestamp's bits fits below them.                      *)
LEMMA LowBits ==
  ASSUME NEW r \in Nat, NEW A \in Nat \ {0}, NEW B \in Nat \ {0}, r < A * B
  PROVE  (r \div B) * (4 * B) + (r % B) \in 0..(4 * (A * B) - 1)
<1> DEFINE q == r \div B
           x == r % B
<1>1. q \in Nat /\ x \in 0..(B - 1) /\ r = q * B + x
  OBVIOUS
<1> HIDE DEF q, x
<1>2. q * B \in Nat /\ q * (4 * B) = 4 * (q * B) /\ A * B \in Nat
  BY <1>1
<1>3. q * (4 * B) + x \in 0..(4 * (A * B) - 1)
  BY <1>1, <1>2
<1> QED BY <1>3 DEF q, x

LEMMA BitsAre ==
  ASSUME NEW f \in Fields
  PROVE  LET P == 2^ABits * 2^BBits
             B == 2^BBits
         IN  Value(f) = f.timestamp * (64 * P) + 28 * P + (f.random \div B) * (4 * B) + 2 * B
                        + (f.random % B)
<1> DEFINE A == 2^ABits
           B == 2^BBits
           P == A * B
<1>1. A \in Nat \ {0} /\ B \in Nat \ {0} /\ P \in Nat \ {0}
  BY Widths
<1>2. 2^2 = 4 /\ 2^4 = 16
  OBVIOUS
<1>3. 2^(2 + BBits) = 4 * B
  <2>1. 2^(2 + BBits) = 2^2 * 2^BBits
    BY UuidAssumption, PowerSum
  <2> QED BY <1>2, <2>1
<1>4. 2^(ABits + 2 + BBits) = 4 * P
  <2>1. 2 + BBits \in Nat /\ ABits + 2 + BBits = ABits + (2 + BBits)
    BY UuidAssumption
  <2>2. 2^(ABits + (2 + BBits)) = 2^ABits * 2^(2 + BBits)
    BY <2>1, UuidAssumption, PowerSum
  <2>3. A * (4 * B) = 4 * P
    BY <1>1
  <2> QED BY <1>3, <2>1, <2>2, <2>3
<1>5. 2^(4 + ABits + 2 + BBits) = 64 * P
  <2>1. ABits + 2 + BBits \in Nat /\ 4 + ABits + 2 + BBits = 4 + (ABits + 2 + BBits)
    BY UuidAssumption
  <2>2. 2^(4 + (ABits + 2 + BBits)) = 2^4 * 2^(ABits + 2 + BBits)
    BY <2>1, PowerSum
  <2>3. 16 * (4 * P) = 64 * P
    BY <1>1
  <2> QED BY <1>2, <1>4, <2>1, <2>2, <2>3
<1> DEFINE a == f.random \div B
           b == f.random % B
<1>6. Value(f) = (f.timestamp * (64 * P)) + (7 * (4 * P)) + (a * (4 * B)) + (2 * B) + b
  BY <1>3, <1>4, <1>5, Zenon DEF Value, Bits
<1>7. f.timestamp \in Int /\ f.random \in Nat
  BY Widths DEF Fields
<1>8. a \in Nat /\ b \in Nat
  BY <1>1, <1>7
<1>9. a * (4 * B) \in Nat /\ f.timestamp * (64 * P) \in Int
  BY <1>1, <1>7, <1>8
<1> HIDE DEF P, a, b
<1>10. Value(f) = f.timestamp * (64 * P) + 28 * P + a * (4 * B) + 2 * B + b
  BY <1>1, <1>6, <1>8, <1>9
<1> QED BY <1>10 DEF P, a, b

LEMMA ValueOrder ==
  ASSUME NEW f \in Fields, NEW g \in Fields, Before(f, g)
  PROVE  Value(f) < Value(g)
<1> DEFINE A == 2^ABits
           B == 2^BBits
           P == A * B
           low(h) == (h.random \div B) * (4 * B) + (h.random % B)
<1>1. A \in Nat \ {0} /\ B \in Nat \ {0} /\ P \in Nat \ {0} /\ MaxRandom = P - 1
  BY Widths
<1>2. /\ f.timestamp \in Nat /\ f.random \in Nat /\ f.random < P
      /\ g.timestamp \in Nat /\ g.random \in Nat /\ g.random < P
  BY <1>1, UuidAssumption DEF Fields
<1>3. low(f) \in 0..(4 * P - 1) /\ low(g) \in 0..(4 * P - 1)
  BY <1>1, <1>2, LowBits
<1>4. f.random < g.random => low(f) < low(g)
  BY <1>1, <1>2, Halves
<1>5. /\ f.random \div B \in Int /\ f.random % B \in Int
      /\ g.random \div B \in Int /\ g.random % B \in Int
  BY <1>1, <1>2
<1>6. /\ (f.random \div B) * (4 * B) \in Int /\ (g.random \div B) * (4 * B) \in Int
      /\ f.timestamp * (64 * P) \in Int /\ g.timestamp * (64 * P) \in Int
  BY <1>1, <1>2, <1>5
<1>7. /\ Value(f) = f.timestamp * (64 * P) + 28 * P + (f.random \div B) * (4 * B) + 2 * B
                    + (f.random % B)
      /\ Value(g) = g.timestamp * (64 * P) + 28 * P + (g.random \div B) * (4 * B) + 2 * B
                    + (g.random % B)
  BY BitsAre
<1>8. /\ Value(f) = f.timestamp * (64 * P) + 28 * P + 2 * B + low(f)
      /\ Value(g) = g.timestamp * (64 * P) + 28 * P + 2 * B + low(g)
  BY <1>1, <1>5, <1>6, <1>7
<1>9. ASSUME f.timestamp + 1 <= g.timestamp PROVE f.timestamp * (64 * P) + 64 * P <= g.timestamp * (64 * P)
  <2>1. (f.timestamp + 1) * (64 * P) <= g.timestamp * (64 * P)
    BY <1>1, <1>2, <1>9
  <2>2. (f.timestamp + 1) * (64 * P) = f.timestamp * (64 * P) + 64 * P
    BY <1>1, <1>2
  <2> QED BY <2>1, <2>2
<1> HIDE DEF B, P, low
<1>10. CASE f.timestamp < g.timestamp
  BY <1>1, <1>2, <1>3, <1>6, <1>8, <1>9, <1>10
<1>11. CASE f.timestamp = g.timestamp /\ f.random < g.random
  BY <1>1, <1>2, <1>3, <1>4, <1>6, <1>8, <1>11
<1> QED BY <1>10, <1>11 DEF Before

(* The identifiers, as numbers, have the order of their fields: at every    *)
(* width of rand_a and rand_b, the 128 bits of a later id are the larger    *)
(* number.                                                                  *)
THEOREM UuidValuesMonotonic == Safety => []ValuesMonotonic
<1>1. TypeOK /\ Monotonic => ValuesMonotonic
  <2> SUFFICES ASSUME TypeOK, Monotonic, NEW i \in DOMAIN ids, NEW j \in DOMAIN ids, i < j
               PROVE  Value(ids[i]) < Value(ids[j])
    BY DEF ValuesMonotonic
  <2>1. ids[i] \in Fields /\ ids[j] \in Fields
    BY DEF TypeOK
  <2>2. Before(ids[i], ids[j])
    BY DEF Monotonic
  <2> QED BY <2>1, <2>2, ValueOrder
<1> QED BY <1>1, UuidMonotonic, FieldsFit, PTL

===============================================================================
