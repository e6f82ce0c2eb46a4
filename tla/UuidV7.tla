-------------------------------- MODULE UuidV7 --------------------------------
(***************************************************************************)
(* The process-monotonic UUIDv7 generator behind event ids and idempotency  *)
(* keys: packages/python/src/trafficwar/_uuidv7.py, whose threads read the  *)
(* clock before they take a lock, and packages/node/src/uuidv7.ts, which is *)
(* the same algorithm with one thread that nothing interrupts.              *)
(*                                                                          *)
(* A process may fork: the child has the forking thread alone, a copy of    *)
(* the memory, and the reset that os.register_at_fork runs.                 *)
(***************************************************************************)
EXTENDS Integers, Sequences

CONSTANTS
  Threads,   \* threads that generate
  NoThread,  \* nobody holds the lock
  MaxTime,   \* _MAX_TIMESTAMP, 2^48 - 1
  ABits,     \* bits of rand_a: 12
  BBits,     \* bits of rand_b: 62
  MaxIds,    \* bound: ids generated in a process
  MaxForks   \* bound: forks in a behaviour

ASSUME UuidAssumption ==
  /\ NoThread \notin Threads
  /\ MaxTime \in Nat /\ ABits \in Nat /\ BBits \in Nat
  /\ MaxIds \in Nat /\ MaxForks \in Nat

VARIABLES
  clock,         \* the wall clock, in milliseconds
  pc,            \* where each thread is; "gone" is a thread the fork left behind
  now,           \* its local `now`
  lock,          \* the thread that holds _lock, or NoThread
  lastTimestamp, \* _last_timestamp
  lastRandom,    \* _last_random
  ids,           \* history: the fields of the ids of this process, in order
  forks          \* history: forks so far

vars == <<clock, pc, now, lock, lastTimestamp, lastRandom, ids, forks>>

(* _RANDOM_MASK.                                                            *)
MaxRandom == 2^(ABits + BBits) - 1

Fields == [timestamp : 0..MaxTime, random : 0..MaxRandom]

Init ==
  /\ clock \in 0..MaxTime
  /\ pc = [t \in Threads |-> "idle"]
  /\ now = [t \in Threads |-> 0]
  /\ lock = NoThread
  /\ lastTimestamp = -1 /\ lastRandom = 0
  /\ ids = <<>> /\ forks = 0

(* The wall clock stalls, advances, or is set back or beyond the range.     *)
SetClock ==
  /\ clock' \in 0..MaxTime + 1
  /\ UNCHANGED <<pc, now, lock, lastTimestamp, lastRandom, ids, forks>>

(* A call that finds the clock beyond the range raises.                     *)
ReadClock(t) ==
  /\ pc[t] = "idle" /\ clock <= MaxTime
  /\ now' = [now EXCEPT ![t] = clock]
  /\ pc' = [pc EXCEPT ![t] = "read"]
  /\ UNCHANGED <<clock, lock, lastTimestamp, lastRandom, ids, forks>>

Acquire(t) ==
  /\ pc[t] = "read" /\ lock = NoThread
  /\ lock' = t
  /\ pc' = [pc EXCEPT ![t] = "locked"]
  /\ UNCHANGED <<clock, now, lastTimestamp, lastRandom, ids, forks>>

(* Mutant: the timestamp is that of the clock, whatever came before.        *)
MutAdvance(t) == now[t]

(* The timestamp of an id that begins a run of random values: the clock's   *)
(* if it has advanced, and otherwise the next, for the run is used up.      *)
Advance(t) == IF now[t] > lastTimestamp THEN now[t] ELSE lastTimestamp + 1

(* A run goes on: the clock has not advanced, and there is a next value.    *)
Continues(t) == now[t] <= lastTimestamp /\ lastRandom < MaxRandom

(* The timestamps are exhausted.                                            *)
Exhausted(t) == now[t] <= lastTimestamp /\ lastRandom >= MaxRandom /\ lastTimestamp >= MaxTime

(* The critical section, which ends by leaving the lock, also if it raises. *)
Generate(t) ==
  /\ pc[t] = "locked" /\ (Exhausted(t) \/ Len(ids) < MaxIds)
  /\ IF Exhausted(t) THEN UNCHANGED <<lastTimestamp, lastRandom, ids>>
     ELSE /\ IF Continues(t)
             THEN lastRandom' = lastRandom + 1 /\ UNCHANGED lastTimestamp
             ELSE lastRandom' \in 0..MaxRandom /\ lastTimestamp' = Advance(t)
          /\ ids' = Append(ids, [timestamp |-> lastTimestamp', random |-> lastRandom'])
  /\ lock' = NoThread
  /\ pc' = [pc EXCEPT ![t] = "idle"]
  /\ UNCHANGED <<clock, now, forks>>

(* Mutant: the child inherits a lock that nobody will release.              *)
MutFreshLock == lock

(* The lock of the child.                                                   *)
FreshLock == NoThread

(* A thread forks, and the model follows the child.                         *)
Fork(t) ==
  /\ pc[t] = "idle" /\ forks < MaxForks
  /\ pc' = [u \in Threads |-> IF u = t THEN "idle" ELSE "gone"]
  /\ lock' = FreshLock
  /\ lastTimestamp' = -1 /\ lastRandom' = 0
  /\ ids' = <<>> /\ forks' = forks + 1
  /\ UNCHANGED <<clock, now>>

(* The bound on ids is reached: nobody generates any more.                  *)
Bounded ==
  /\ Len(ids) = MaxIds /\ UNCHANGED vars

Next ==
  \/ SetClock \/ Bounded
  \/ \E t \in Threads : ReadClock(t) \/ Acquire(t) \/ Generate(t) \/ Fork(t)

(* A thread that is in a call runs.                                         *)
Fairness ==
  \A t \in Threads : SF_vars(Acquire(t)) /\ WF_vars(Generate(t))

Safety == Init /\ [][Next]_vars
Spec == Safety /\ Fairness

(* The 128 bits: timestamp, version 7, the high bits of random (rand_a),    *)
(* variant 2, and the low ones (rand_b).                                    *)
Bits(f, a, b) ==
  (f.timestamp * 2^(4 + ABits + 2 + BBits)) + (7 * 2^(ABits + 2 + BBits))
  + (a * 2^(2 + BBits)) + (2 * 2^BBits) + b

(* Mutant: rand_a has the low bits.                                         *)
MutValue(f) == Bits(f, f.random % 2^ABits, f.random \div 2^ABits)

Value(f) == Bits(f, f.random \div 2^BBits, f.random % 2^BBits)

-------------------------------------------------------------------------------
(* Properties                                                               *)

TypeOK ==
  /\ clock \in 0..MaxTime + 1
  /\ pc \in [Threads -> {"idle", "read", "locked", "gone"}]
  /\ now \in [Threads -> 0..MaxTime]
  /\ lock \in Threads \cup {NoThread}
  /\ lastTimestamp \in -1..MaxTime /\ lastRandom \in 0..MaxRandom
  /\ ids \in Seq(Fields) /\ forks \in Nat

(* The order of the fields.                                                 *)
Before(a, b) ==
  \/ a.timestamp < b.timestamp
  \/ a.timestamp = b.timestamp /\ a.random < b.random

(* README: a "process-monotonic" generator: "ordered after earlier calls in *)
(* this process", whatever the clock does and whoever read it first.        *)
Monotonic == \A i, j \in DOMAIN ids : i < j => Before(ids[i], ids[j])

(* The identifiers themselves, as numbers and so as strings of fixed width, *)
(* have the order of the fields.                                            *)
ValuesMonotonic == \A i, j \in DOMAIN ids : i < j => Value(ids[i]) < Value(ids[j])

(* A call returns, also in a child forked while another thread was in the   *)
(* critical section, and as long as there are ids to generate.              *)
CallsReturn ==
  \A t \in Threads : pc[t] # "idle" ~> pc[t] \in {"idle", "gone"} \/ Len(ids) = MaxIds
===============================================================================
