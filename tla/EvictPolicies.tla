---------------------------- MODULE EvictPolicies ----------------------------
(***************************************************************************)
(* evict/*.go: the five eviction policies, as operators on the policy's    *)
(* map.  A policy's map is a function `meter` from keys to naturals, 0     *)
(* standing for "no entry" (the zero time.Time of LRU, the zero count of   *)
(* LFU): for allkeys-lru it ranks the entries by access time, 1 being the  *)
(* oldest; for allkeys-lfu it counts the accesses.  The other policies     *)
(* keep nothing.                                                           *)
(*                                                                         *)
(* Evict receives its candidates in Go's random map order, so it is        *)
(* modelled by the set of keys it can return.  Module EvictLoops checks    *)
(* these sets, and the ranks, against the code's loops and timestamps.     *)
(***************************************************************************)
EXTENDS Integers, FiniteSets

CONSTANTS
  Keys,
  EmptyKey, \* the string "", which Evict also returns for "no victim";
            \* it may be one of the Keys
  None      \* "not in the map", "no key"

ASSUME KeysAssumption == IsFiniteSet(Keys) /\ None \notin Int

Meters == [Keys -> Nat]

PolicyNames ==
  {"none", "allkeys-lru", "allkeys-lfu", "allkeys-random", "volatile-ttl"}

Recorded(meter, S) == {k \in S : meter[k] > 0}

(* The entries with the smallest meter, and the keys that have no entry: *)
(* a first candidate without one starts at zero, which nothing is below. *)
LeastVictims(meter, cands) ==
  {k \in cands : \/ meter[k] = 0
                 \/ \A j \in Recorded(meter, cands) : meter[k] <= meter[j]}

-----------------------------------------------------------------------------

(* Mutant: the younger entries keep their ranks. *)
LRUDeleteNoShift(meter, k) == [meter EXCEPT ![k] = 0]

LRUDelete(meter, k) ==
  [j \in Keys |-> CASE j = k -> 0
                    [] j # k /\ 0 < meter[k] /\ meter[k] < meter[j] -> meter[j] - 1
                    [] OTHER -> meter[j]]

LRURecord(meter, k) ==
  LET rest == LRUDelete(meter, k)
  IN  [rest EXCEPT ![k] = Cardinality(Recorded(rest, Keys)) + 1]

(* Mutant: After for Before. *)
LRUEvictNewest(meter, cands) == {k \in cands : \A j \in cands : meter[k] >= meter[j]}

LRUEvict(meter, cands) == LeastVictims(meter, cands)

LFURecord(meter, k) == [meter EXCEPT ![k] = @ + 1]

LFUDelete(meter, k) == [meter EXCEPT ![k] = 0]

LFUEvict(meter, cands) == LeastVictims(meter, cands)

RandomEvict(cands) == cands

(* A first candidate that has lost its deadline counts as having no time   *)
(* left: only a deadline that is already over is nearer than that.         *)
TTLEvict(cands, expireAt, now) ==
  LET timed == {k \in cands : expireAt[k] # None}
  IN  {k \in timed : \A j \in timed : expireAt[k] <= expireAt[j]}
      \cup {k \in cands \ timed : \A j \in timed : expireAt[j] >= now}

-----------------------------------------------------------------------------

PolicyRecord(policy, meter, k) ==
  CASE policy = "allkeys-lru" -> LRURecord(meter, k)
    [] policy = "allkeys-lfu" -> LFURecord(meter, k)
    [] OTHER -> meter

PolicyDelete(policy, meter, k) ==
  CASE policy = "allkeys-lru" -> LRUDelete(meter, k)
    [] policy = "allkeys-lfu" -> LFUDelete(meter, k)
    [] OTHER -> meter

(* The keys Evict can return; cands is not empty. *)
PolicyEvict(policy, meter, cands, expireAt, now) ==
  CASE policy = "allkeys-lru" -> LRUEvict(meter, cands)
    [] policy = "allkeys-lfu" -> LFUEvict(meter, cands)
    [] policy = "allkeys-random" -> RandomEvict(cands)
    [] policy = "volatile-ttl" -> TTLEvict(cands, expireAt, now)
    [] OTHER -> {EmptyKey}
=============================================================================
