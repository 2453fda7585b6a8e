----------------------------- MODULE EvictLoops -----------------------------
(***************************************************************************)
(* The loops of evict/*.go run on the maps the policies really keep:       *)
(* timestamps for LRU, counts for LFU, t.expireAt for the TTL policy.      *)
(* This module checks the operators of EvictPolicies, which TTLStore uses, *)
(* against them: the ranks against the timestamps, and the sets of victims *)
(* against the loop's result for every order of the candidates.            *)
(***************************************************************************)
EXTENDS EvictPolicies, Sequences, Functions

CONSTANTS
  MaxClock, \* bound on the clock, which every access advances
  MaxFreq,  \* bound on an LFU count
  MaxTTL    \* deadlines lie between 0 and MaxTTL

ASSUME LoopAssumption == {MaxClock, MaxFreq, MaxTTL} \subseteq Nat

VARIABLES
  clock,    \* time.Now()
  access,   \* LRUPolicy.access, 0 for no entry
  rank,     \* what TTLStore keeps instead of access
  freq,     \* LFUPolicy.freq, 0 for no entry
  deadline  \* TTLStore.expireAt

loopVars == <<clock, access, rank, freq, deadline>>

LoopInit ==
  /\ clock = 0
  /\ access = [k \in Keys |-> 0]
  /\ rank = [k \in Keys |-> 0]
  /\ freq = [k \in Keys |-> 0]
  /\ deadline = [k \in Keys |-> None]

RecordKey(k) ==
  /\ clock < MaxClock
  /\ freq[k] < MaxFreq
  /\ clock' = clock + 1
  /\ access' = [access EXCEPT ![k] = clock']
  /\ rank' = LRURecord(rank, k)
  /\ freq' = LFURecord(freq, k)
  /\ UNCHANGED deadline

DeleteKey(k) ==
  /\ access' = [access EXCEPT ![k] = 0]
  /\ rank' = LRUDelete(rank, k)
  /\ freq' = LFUDelete(freq, k)
  /\ UNCHANGED <<clock, deadline>>

SetDeadline(k, d) ==
  /\ deadline' = [deadline EXCEPT ![k] = d]
  /\ UNCHANGED <<clock, access, rank, freq>>

LoopNext ==
  \E k \in Keys :
    \/ RecordKey(k)
    \/ DeleteKey(k)
    \/ \E d \in (0 .. MaxTTL) \cup {None} : SetDeadline(k, d)

LoopSpec == LoopInit /\ [][LoopNext]_loopVars

-----------------------------------------------------------------------------
(* The loops.                                                              *)

(* LRUPolicy.Evict: oldest after the first i candidates, in order s. *)
LRULoop(s) ==
  LET oldest[i \in 1 .. Len(s)] ==
        IF i = 1 THEN s[1]
        ELSE LET best == oldest[i - 1]
             IN  IF access[s[i]] # 0 /\ access[s[i]] < access[best] THEN s[i] ELSE best
  IN  oldest[Len(s)]

(* Mutant: a key without an entry counts as used zero times. *)
LFULoopAbsentIsZero(s) ==
  LET lowest[i \in 1 .. Len(s)] ==
        IF i = 1 THEN s[1]
        ELSE LET best == lowest[i - 1] IN IF freq[s[i]] < freq[best] THEN s[i] ELSE best
  IN  lowest[Len(s)]

LFULoop(s) ==
  LET lowest[i \in 1 .. Len(s)] ==
        IF i = 1 THEN s[1]
        ELSE LET best == lowest[i - 1]
             IN  IF freq[s[i]] # 0 /\ freq[s[i]] < freq[best] THEN s[i] ELSE best
  IN  lowest[Len(s)]

(* TTLPolicy.Evict at a given time; the first candidate may have lost its  *)
(* deadline since the candidates were read.                                *)
TTLLoop(s, now) ==
  LET ttl(k) == IF deadline[k] = None THEN 0 ELSE deadline[k] - now
      nearest[i \in 1 .. Len(s)] ==
        IF i = 1 THEN s[1]
        ELSE LET best == nearest[i - 1]
             IN  IF deadline[s[i]] # None /\ ttl(s[i]) < ttl(best) THEN s[i] ELSE best
  IN  nearest[Len(s)]

(* Go iterates over a map in any order. *)
Orders(S) == Bijection(1 .. Cardinality(S), S)

CandidateSets == (SUBSET Keys) \ {{}}

-----------------------------------------------------------------------------

(* The ranks order the keys as the timestamps of LRUPolicy.access do, and  *)
(* have an entry for the same keys, whatever Record and Delete calls came. *)
RanksOrderAccess ==
  \A j, k \in Keys :
    /\ rank[j] = 0 <=> access[j] = 0
    /\ rank[j] < rank[k] <=> access[j] < access[k]

(* Each Evict returns, over all orders of its candidates, exactly the keys *)
(* of the set TTLStore chooses the victim from.                            *)
VictimsAreLoopResults ==
  \A S \in CandidateSets :
    /\ {LRULoop(s) : s \in Orders(S)} = LRUEvict(rank, S)
    /\ {LFULoop(s) : s \in Orders(S)} = LFUEvict(freq, S)
    /\ \A now \in 0 .. MaxTTL : {TTLLoop(s, now) : s \in Orders(S)} = TTLEvict(S, deadline, now)
=============================================================================
