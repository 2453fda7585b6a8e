--------------------------- MODULE TTLStoreProofs ---------------------------
(***************************************************************************)
(* Proofs about TTLStore, for any keys and values, any policy, limit and   *)
(* set of durations, and any number of clients or, in the last part, one;  *)
(* and about the eviction policies by themselves, for any Record and       *)
(* Delete calls: the operators of EvictPolicies say what the code's maps   *)
(* and loops do.                                                           *)
(***************************************************************************)
EXTENDS TTLStore, EvictLoops, FiniteSetTheorems, TLAPS

-----------------------------------------------------------------------------
(* The policies' maps.                                                     *)

(* Policy.Record keeps a map of counters or ranks, and gives the key an    *)
(* entry under LRU and LFU without taking any other key's entry away.      *)
LEMMA RecordMeter ==
  ASSUME NEW m \in Meters, NEW k \in Keys
  PROVE  /\ PolicyRecord(Policy, m, k) \in Meters
         /\ \A j \in Keys : m[j] > 0 => PolicyRecord(Policy, m, k)[j] > 0
         /\ Policy \in {"allkeys-lru", "allkeys-lfu"} => PolicyRecord(Policy, m, k)[k] > 0
<1>1. /\ LRUDelete(m, k) \in Meters
      /\ \A j \in Keys \ {k} : m[j] > 0 => LRUDelete(m, k)[j] > 0
  BY DEF LRUDelete, Meters
<1>2. Cardinality(Recorded(LRUDelete(m, k), Keys)) \in Nat
  <2>1. Recorded(LRUDelete(m, k), Keys) \subseteq Keys
    BY Zenon DEF Recorded
  <2> QED BY Zenon, <2>1, KeysAssumption, FS_Subset, FS_CardinalityType
<1>3. /\ LRURecord(m, k) \in Meters
      /\ \A j \in Keys : j = k \/ m[j] > 0 => LRURecord(m, k)[j] > 0
  BY <1>1, <1>2 DEF LRURecord, Meters
<1>4. /\ LFURecord(m, k) \in Meters
      /\ \A j \in Keys : j = k \/ m[j] > 0 => LFURecord(m, k)[j] > 0
  BY DEF LFURecord, Meters
<1> QED BY Zenon, <1>3, <1>4, TTLAssumption DEF PolicyRecord, PolicyNames

(* Policy.Delete takes away no other key's entry. *)
LEMMA DeleteMeter ==
  ASSUME NEW m \in Meters, NEW k \in Keys
  PROVE  /\ PolicyDelete(Policy, m, k) \in Meters
         /\ \A j \in Keys \ {k} : m[j] > 0 => PolicyDelete(Policy, m, k)[j] > 0
<1>1. /\ LRUDelete(m, k) \in Meters
      /\ \A j \in Keys \ {k} : m[j] > 0 => LRUDelete(m, k)[j] > 0
  BY DEF LRUDelete, Meters
<1>2. /\ LFUDelete(m, k) \in Meters
      /\ \A j \in Keys \ {k} : m[j] > 0 => LFUDelete(m, k)[j] > 0
  BY Zenon DEF LFUDelete, Meters
<1> QED BY Zenon, <1>1, <1>2, TTLAssumption DEF PolicyDelete, PolicyNames

(* A victim other than "" is one of the candidates. *)
LEMMA VictimIsCandidate ==
  ASSUME NEW m, NEW S, NEW e, NEW t, NEW k \in PolicyEvict(Policy, m, S, e, t), k # EmptyKey
  PROVE  k \in S
BY Zenon, TTLAssumption
   DEF PolicyEvict, PolicyNames, LRUEvict, LFUEvict, LeastVictims,
       RandomEvict, TTLEvict

-----------------------------------------------------------------------------
(* Type correctness.                                                       *)

(* The program starts in a well-typed state. *)
LEMMA TypeInit == Init => TypeOK
BY TTLAssumption
   DEF Init, TypeOK, ClientTypeOK, Inner!Init, Inner!StoreTypeOK, Inner!Slot, Inner!EmptyHash, Labels, Calls,
       NoCall, Deadlines, Replies, Nothing

(* Returning from a call keeps the types of the clients' variables. *)
LEMMA ReturnType ==
  ASSUME ClientTypeOK, NEW c \in Clients, NEW r \in Replies, UNCHANGED call, Return(c, r)
  PROVE  ClientTypeOK'
BY Zenon DEF ClientTypeOK, Return, Labels, Deadlines

(* So does a call that returns in its first step. *)
LEMMA CallReturnType ==
  ASSUME ClientTypeOK, NEW c \in Clients, NEW m \in Calls, NEW r \in Replies,
         call' = [call EXCEPT ![c] = m], Return(c, r)
  PROVE  ClientTypeOK'
BY Zenon DEF ClientTypeOK, Return, Labels, Deadlines

(* So does the start of a call that goes on at a step whose arguments it has. *)
LEMMA CallType ==
  ASSUME ClientTypeOK, NEW c \in Clients, NEW m \in Calls, NEW l \in {"set", "arm"},
         m.key \in Keys, l = "set" => m.val \in Values, l = "arm" => m.ttl \in TTLs,
         m.op # "HGet", call' = [call EXCEPT ![c] = m], Goto(c, l),
         UNCHANGED <<exp, cands, target>>
  PROVE  ClientTypeOK'
BY Zenon DEF ClientTypeOK, Goto, Labels, Replies, Nothing

(* The first step of each method keeps the types. *)
LEMMA TypeBegin ==
  ASSUME TypeOK, NEW c \in Clients, Begin(c)
  PROVE  TypeOK'
<1> USE TTLAssumption
    DEF TypeOK, Inner!StoreTypeOK, Inner!Slot, Inner!EmptyHash, Deadlines, innerVars, metaVars, sweepVars, Call
<1>0. PICK k \in Keys :
    \/ \E v \in Values : Set(c, k, v)
    \/ \E v \in Values, d \in TTLs : SetWithTTL(c, k, v, d)
    \/ \E f \in Fields, v \in Values : HSet(c, k, f, v)
    \/ \E op \in {"Get", "HGetAll"} : Read(c, op, k, None)
    \/ \E f \in Fields : Read(c, "HGet", k, f)
    \/ Del(c, k)
    \/ \E d \in TTLs : Expire(c, k, d)
    \/ TTL(c, k)
  BY Zenon DEF Begin
<1>1. ASSUME NEW v \in Values, Set(c, k, v) PROVE TypeOK'
  BY SMTT(30), <1>1 DEF Set, Inner!Set, ClientTypeOK, Labels, Methods, Calls, Replies, Nothing, Goto, Return
<1>2. ASSUME NEW v \in Values, NEW d \in TTLs, SetWithTTL(c, k, v, d) PROVE TypeOK'
  <2>1. now + d \in Deadlines
    OBVIOUS
  <2>2. expireAt' \in [Keys -> Deadlines]
    BY Zenon, <1>2, <2>1 DEF SetWithTTL
  <2>3. ClientTypeOK'
    <3> DEFINE m == [op |-> "SetWithTTL", key |-> k, field |-> None, val |-> v, ttl |-> d]
    <3>1. ClientTypeOK /\ call' = [call EXCEPT ![c] = m] /\ Goto(c, "set") /\ UNCHANGED <<exp, cands, target>>
      BY Zenon, <1>2 DEF SetWithTTL
    <3>2. m \in Calls /\ m.key = k /\ m.val = v /\ m.op # "HGet"
      BY ONLY Zenon, v \in Values, d \in TTLs, k \in Keys DEF Calls, Methods
    <3> HIDE DEF m
    <3> QED BY ONLY Zenon, <3>1, <3>2, v \in Values, k \in Keys, c \in Clients, CallType
  <2> QED BY Zenon, <1>2, <2>2, <2>3 DEF SetWithTTL, TypeOK, Inner!StoreTypeOK, innerVars, sweepVars
<1>3. ASSUME NEW f \in Fields, NEW v \in Values, HSet(c, k, f, v) PROVE TypeOK'
  BY SMTT(30), <1>3 DEF HSet, Inner!HSet, ClientTypeOK, Labels, Methods, Calls, Replies, Nothing, Goto, Return
<1>4. ASSUME NEW op \in {"Get", "HGetAll"}, Read(c, op, k, None) PROVE TypeOK'
  BY SMTT(30), <1>4 DEF Read, ClientTypeOK, Labels, Methods, Calls, Replies, Nothing, Goto, Return
<1>5. ASSUME NEW f \in Fields, Read(c, "HGet", k, f) PROVE TypeOK'
  BY SMTT(30), <1>5 DEF Read, ClientTypeOK, Labels, Methods, Calls, Replies, Nothing, Goto, Return
<1>6. CASE Del(c, k)
  BY SMTT(30), <1>6 DEF Del, UntrackKey, ClientTypeOK, Labels, Methods, Calls, Replies, Nothing, Goto, Return
<1>7. ASSUME NEW d \in TTLs, Expire(c, k, d) PROVE TypeOK'
  <2> DEFINE m == [op |-> "Expire", key |-> k, field |-> None, val |-> None, ttl |-> d]
  <2>1. ClientTypeOK /\ call' = [call EXCEPT ![c] = m]
    BY Zenon, <1>7 DEF Expire
  <2>2. m \in Calls /\ m.key = k /\ m.ttl = d /\ m.op # "HGet"
    BY ONLY Zenon, d \in TTLs, k \in Keys DEF Calls, Methods
  <2>3. [num |-> 0] \in Replies
    BY ONLY TRUE DEF Replies
  <2> HIDE DEF m
  <2>4. CASE Goto(c, "arm") /\ UNCHANGED <<exp, cands, target>>
    <3>1. ClientTypeOK'
      BY ONLY Zenon, <2>1, <2>2, <2>4, d \in TTLs, k \in Keys, c \in Clients, CallType
    <3> QED BY Zenon, <1>7, <3>1 DEF Expire
  <2>5. CASE Return(c, [num |-> 0])
    <3>1. ClientTypeOK'
      BY ONLY Zenon, <2>1, <2>2, <2>3, <2>5, c \in Clients, CallReturnType
    <3> QED BY Zenon, <1>7, <3>1 DEF Expire
  <2> QED BY Zenon, <1>7, <2>4, <2>5 DEF Expire
<1>8. CASE TTL(c, k)
  BY SMTT(30), <1>8 DEF TTL, ClientTypeOK, Labels, Methods, Calls, Replies, Nothing, Goto, Return
<1> QED BY ONLY ZenonT(40), <1>0, <1>1, <1>2, <1>3, <1>4, <1>5, <1>6, <1>7, <1>8

(* Moving on to a step that needs no argument but the key keeps the types. *)
LEMMA GotoType ==
  ASSUME ClientTypeOK, NEW c \in Clients, pc[c] # "idle",
         NEW l \in Labels \ {"idle", "set", "arm", "untrack", "forget", "remove"},
         UNCHANGED <<call, exp, target>>, cands' \in [Clients -> SUBSET Keys], Goto(c, l)
  PROVE  ClientTypeOK'
BY Zenon DEF ClientTypeOK, Goto, Replies, Nothing

(* So does turning to the removal of a key, the victim or an expired one. *)
LEMMA UntrackType ==
  ASSUME ClientTypeOK, NEW c \in Clients, pc[c] # "idle", NEW k \in Keys,
         target' = [target EXCEPT ![c] = k], UNCHANGED <<call, exp, cands>>, Goto(c, "untrack")
  PROVE  ClientTypeOK'
BY Zenon DEF ClientTypeOK, Goto, Labels, Replies, Nothing

(* The later steps of each method keep the types. *)
LEMMA TypeContinue ==
  ASSUME TypeOK, NEW c \in Clients, Continue(c)
  PROVE  TypeOK'
<1> USE TTLAssumption DEF TypeOK, At, innerVars, metaVars, sweepVars
<1>t. /\ call[c] \in Calls /\ pc[c] \in Labels
      /\ pc[c] # "idle" => call[c].key \in Keys
  BY Zenon DEF ClientTypeOK
<1>n. Nothing \in Replies
  BY Zenon DEF Nothing, Replies
<1>1. CASE SetAfterDeadline(c)
  <2>1. ClientTypeOK'
    BY Zenon, <1>1, <1>t, GotoType DEF SetAfterDeadline, ClientTypeOK, Labels
  <2>2. Inner!StoreTypeOK'
    BY Zenon, <1>1, <1>t DEF SetAfterDeadline, ClientTypeOK, Inner!Set, Inner!StoreTypeOK, Inner!Slot
  <2> QED BY Zenon, <1>1, <2>1, <2>2 DEF SetAfterDeadline
<1>2. CASE Track(c)
  <2>1. ClientTypeOK'
    BY Zenon, <1>2, <1>t, GotoType DEF Track, ClientTypeOK, Labels
  <2> QED BY Zenon, <1>2, <1>t, <2>1 DEF Track, Inner!StoreTypeOK
<1>3. CASE TrackRecord(c)
  <2>1. ClientTypeOK'
    BY Zenon, <1>3, <1>t, GotoType DEF TrackRecord, ClientTypeOK, Labels
  <2>2. meter' \in [Keys -> Nat]
    BY Zenon, <1>3, <1>t, RecordMeter DEF TrackRecord, Meters
  <2> QED BY Zenon, <1>3, <2>1, <2>2 DEF TrackRecord, Inner!StoreTypeOK
<1>4. CASE CheckLimit(c)
  <2>1. ClientTypeOK'
    <3>1. CASE Goto(c, "candidates") /\ UNCHANGED <<call, exp, cands, target>> /\ pc[c] # "idle"
      BY ONLY Zenon, ClientTypeOK, <3>1, GotoType, c \in Clients DEF ClientTypeOK, Labels
    <3>2. CASE Return(c, Nothing) /\ UNCHANGED call
      BY ONLY Zenon, ClientTypeOK, <3>2, <1>n, ReturnType, c \in Clients
    <3> QED BY Zenon, <1>4, <3>1, <3>2 DEF CheckLimit
  <2> QED BY Zenon, <1>4, <2>1 DEF CheckLimit, Inner!StoreTypeOK
<1>5. CASE Candidates(c)
  <2>1. CandidateKeys \subseteq Keys
    BY Zenon DEF CandidateKeys
  <2>2. ASSUME cands' = [cands EXCEPT ![c] = CandidateKeys], Goto(c, "evict"),
               UNCHANGED <<exp, target>>
        PROVE  ClientTypeOK'
    <3>1. cands' \in [Clients -> SUBSET Keys]
      BY Zenon, <2>1, <2>2 DEF ClientTypeOK
    <3> QED BY Zenon, <1>5, <2>2, <3>1, <1>t, GotoType DEF Candidates, Labels
  <2>3. ASSUME Return(c, Nothing) PROVE ClientTypeOK'
    BY Zenon, <1>5, <2>3, <1>n, ReturnType DEF Candidates
  <2> QED BY Zenon, <1>5, <2>2, <2>3 DEF Candidates, Inner!StoreTypeOK
<1>6. CASE ChooseVictim(c)
  <2>1. PICK k \in PolicyEvict(Policy, meter, cands[c], expireAt, now) :
          \/ /\ k # EmptyKey
             /\ target' = [target EXCEPT ![c] = k]
             /\ Goto(c, "untrack")
             /\ UNCHANGED <<exp, cands>>
          \/ k = EmptyKey /\ Return(c, Nothing)
    BY Zenon, <1>6 DEF ChooseVictim
  <2>2. CASE k # EmptyKey
    <3>1. k \in Keys
      BY Zenon, <2>2, VictimIsCandidate DEF ClientTypeOK
    <3> QED BY Zenon, <1>6, <2>1, <2>2, <3>1, <1>t, UntrackType DEF ChooseVictim, Inner!StoreTypeOK
  <2>3. CASE k = EmptyKey
    BY Zenon, <1>6, <2>1, <2>3, <1>n, ReturnType DEF ChooseVictim, Inner!StoreTypeOK
  <2> QED BY Zenon, <2>2, <2>3
<1>7. CASE Untrack(c)
  <2>1. ClientTypeOK' /\ target[c] \in Keys
    BY Zenon, <1>7, <1>t DEF Untrack, ClientTypeOK, Goto, Labels, Replies, Nothing
  <2> QED BY Zenon, <1>7, <2>1 DEF Untrack, UntrackKey, Inner!StoreTypeOK, Deadlines
<1>8. CASE UntrackForget(c)
  <2>1. ClientTypeOK' /\ target[c] \in Keys
    BY Zenon, <1>8, <1>t DEF UntrackForget, ClientTypeOK, Goto, Labels, Replies, Nothing
  <2>2. meter' \in [Keys -> Nat]
    BY Zenon, <1>8, <2>1, DeleteMeter DEF UntrackForget, Meters
  <2> QED BY Zenon, <1>8, <2>1, <2>2 DEF UntrackForget, Inner!StoreTypeOK
<1>9. CASE Remove(c)
  <2>1. ClientTypeOK'
    BY Zenon, <1>9, <1>n, ReturnType DEF Remove
  <2>2. Inner!StoreTypeOK'
    BY Zenon, <1>9 DEF Remove, Inner!Del, Inner!StoreTypeOK, Inner!Slot, Inner!EmptyHash
  <2> QED BY Zenon, <1>9, <2>1, <2>2 DEF Remove
<1>10. CASE CheckExpired(c)
  <2>1. CASE Overdue(exp[c])
    BY Zenon, <1>10, <2>1, <1>t, UntrackType DEF CheckExpired, Inner!StoreTypeOK
  <2>2. CASE ~Overdue(exp[c])
    <3>1. ClientTypeOK'
      <4>1. UNCHANGED <<call, exp, cands, target>> /\ Goto(c, "touch") /\ pc[c] # "idle"
        BY Zenon, <1>10, <2>2 DEF CheckExpired
      <4> QED BY ONLY Zenon, ClientTypeOK, <4>1, GotoType, c \in Clients DEF ClientTypeOK, Labels
    <3> QED BY Zenon, <1>10, <3>1 DEF CheckExpired, Inner!StoreTypeOK
  <2> QED BY Zenon, <2>1, <2>2
<1>11. CASE Touch(c)
  <2>1. ClientTypeOK'
    <3>1. UNCHANGED <<call, exp, cands, target>> /\ Goto(c, "read") /\ pc[c] # "idle"
      BY Zenon, <1>11 DEF Touch
    <3> QED BY ONLY Zenon, ClientTypeOK, <3>1, GotoType, c \in Clients DEF ClientTypeOK, Labels
  <2>2. meter' \in [Keys -> Nat]
    BY Zenon, <1>11, <1>t, RecordMeter DEF Touch, Meters
  <2> QED BY Zenon, <1>11, <2>1, <2>2 DEF Touch, Inner!StoreTypeOK
<1>12. CASE ReadInner(c)
  <2>1. PICK r : Return(c, r) /\ r \in Replies
    BY SMTT(30), <1>12, <1>t
    DEF ReadInner, ClientTypeOK, Inner!Get, Inner!HGet, Inner!HGetAll, Inner!StoreTypeOK,
        Inner!Slot, Replies
  <2>2. ClientTypeOK'
    BY Zenon, <1>12, <2>1, ReturnType DEF ReadInner
  <2> QED BY Zenon, <1>12, <2>2 DEF ReadInner, Inner!StoreTypeOK
<1>13. CASE Arm(c)
  <2>1. ClientTypeOK' /\ call[c].ttl \in TTLs
    <3>1. [num |-> 1] \in Replies
      BY DEF Replies
    <3> QED BY Zenon, <1>13, <3>1, ReturnType DEF Arm, ClientTypeOK
  <2>2. now + call[c].ttl \in Deadlines
    <3>1. now \in Int
      OBVIOUS
    <3>2. call[c].ttl \in Int
      BY ONLY Zenon, <2>1, TTLAssumption
    <3>3. now + call[c].ttl \in Int
      BY ONLY <3>1, <3>2
    <3> QED BY Zenon, <3>3 DEF Deadlines
  <2>3. expireAt' \in [Keys -> Deadlines]
    BY Zenon, <1>13, <2>2 DEF Arm
  <2> QED BY Zenon, <1>13, <2>1, <2>3 DEF Arm, Inner!StoreTypeOK
<1>14. CASE Remaining(c)
  <2>1. [num |-> IF exp[c] = None \/ exp[c] <= now THEN NoTTL ELSE exp[c] - now] \in Replies
    BY DEF Replies, NoTTL, ClientTypeOK, Deadlines
  <2>2. ClientTypeOK'
    BY Zenon, <1>14, <2>1, ReturnType DEF Remaining
  <2> QED BY Zenon, <1>14, <2>2 DEF Remaining, Inner!StoreTypeOK
<1> QED BY Zenon, <1>1, <1>2, <1>3, <1>4, <1>5, <1>6, <1>7, <1>8, <1>9, <1>10, <1>11, <1>12, <1>13, <1>14
    DEF Continue

(* The sweeper, Close and the clock keep the types. *)
LEMMA TypeBackground ==
  ASSUME TypeOK, SweepStep \/ Close \/ SweepExit \/ Tick \/ UNCHANGED vars
  PROVE  TypeOK'
<1> USE TTLAssumption
    DEF TypeOK, ClientTypeOK, Inner!StoreTypeOK, Inner!Slot, Inner!EmptyHash, Deadlines, Replies,
        innerVars, metaVars, clientVars, sweepVars
<1>1. CASE Sweep
  BY Zenon, <1>1 DEF Sweep
<1>2. ASSUME NEW k \in Keys, SweepForget(k) PROVE TypeOK'
  <2>1. meter' \in [Keys -> Nat]
    BY Zenon, <1>2, DeleteMeter DEF SweepForget, Meters
  <2> QED BY Zenon, <1>2, <2>1 DEF SweepForget
<1>3. CASE SweepRemove
  BY Zenon, <1>3 DEF SweepRemove, Inner!Del
<1>4. CASE Close \/ SweepExit
  BY Zenon, <1>4 DEF Close, SweepExit
<1>5. CASE Tick
  BY <1>5 DEF Tick
<1>6. CASE UNCHANGED vars
  BY Zenon, <1>6 DEF vars
<1> QED BY ZenonT(40), <1>1, <1>2, <1>3, <1>4, <1>5, <1>6 DEF SweepStep

(* Type correctness of the store, its clients and its sweeper. *)
THEOREM TypeCorrect == Spec => []TypeOK
<1>1. TypeOK /\ [Next]_vars => TypeOK'
  BY Zenon, TypeBegin, TypeContinue, TypeBackground DEF Next
<1> QED BY TypeInit, <1>1, PTL DEF Spec

-----------------------------------------------------------------------------
(* Stored data is tracked and recorded.  Between the critical sections of  *)
(* a method this is not so; the invariants below say which goroutine will  *)
(* restore it: one that has written the key and will track (or record) it, *)
(* or one that has untracked (or forgotten) it and will delete it.         *)

WillTrack(k) == \E c \in Clients : pc[c] = "track" /\ call[c].key = k

WillRecord(k) == \E c \in Clients : pc[c] \in {"track", "record"} /\ call[c].key = k

WillRemove(k) ==
  \/ k \in pending
  \/ \E c \in Clients : pc[c] \in {"forget", "remove"} /\ target[c] = k

RemovesNext(k) ==
  \/ k = sweeping
  \/ \E c \in Clients : pc[c] = "remove" /\ target[c] = k

TrackInv ==
  \A k \in Keys : Inner!Present(k) => k \in allKeys \/ WillTrack(k) \/ WillRemove(k)

RecordInv ==
  Policy \in {"allkeys-lru", "allkeys-lfu"} =>
    \A k \in Keys : Inner!Present(k) => meter[k] > 0 \/ WillRecord(k) \/ RemovesNext(k)

SafetyInv == TypeOK /\ TrackInv /\ RecordInv

(* A step of one client leaves the local state of the others alone. *)
OthersStay(c) ==
  \A d \in Clients \ {c} :
    pc'[d] = pc[d] /\ call'[d].key = call[d].key /\ target'[d] = target[d]

(* Every step of a method changes only its own goroutine's local state. *)
LEMMA OneClientMoves ==
  ASSUME TypeOK, NEW c \in Clients, Begin(c) \/ Continue(c)
  PROVE  OthersStay(c)
<1>t. /\ pc \in [Clients -> Labels] /\ call \in [Clients -> Calls]
      /\ target \in [Clients -> Keys \cup {None}]
  BY Zenon DEF TypeOK, ClientTypeOK
<1> USE <1>t DEF OthersStay, Call, At, Goto, Return
<1>1. ASSUME Begin(c) PROVE OthersStay(c)
  <2> PICK k \in Keys :
      \/ \E v \in Values : Set(c, k, v)
      \/ \E v \in Values, d \in TTLs : SetWithTTL(c, k, v, d)
      \/ \E f \in Fields, v \in Values : HSet(c, k, f, v)
      \/ \E op \in {"Get", "HGetAll"} : Read(c, op, k, None)
      \/ \E f \in Fields : Read(c, "HGet", k, f)
      \/ Del(c, k)
      \/ \E d \in TTLs : Expire(c, k, d)
      \/ TTL(c, k)
    BY Zenon, <1>1 DEF Begin
  <2>1. CASE \/ \E v \in Values : Set(c, k, v)
             \/ \E v \in Values, d \in TTLs : SetWithTTL(c, k, v, d)
             \/ \E f \in Fields, v \in Values : HSet(c, k, f, v)
    BY ZenonT(60), <2>1 DEF Set, SetWithTTL, HSet
  <2>2. CASE \/ \E op \in {"Get", "HGetAll"} : Read(c, op, k, None)
             \/ \E f \in Fields : Read(c, "HGet", k, f)
    BY Zenon, <2>2 DEF Read
  <2>3. CASE Del(c, k) \/ (\E d \in TTLs : Expire(c, k, d)) \/ TTL(c, k)
    BY ZenonT(60), <2>3 DEF Del, Expire, TTL
  <2> QED BY Zenon, <2>1, <2>2, <2>3
<1>2. CASE Continue(c)
  BY ZenonT(40), <1>2 DEF Continue, SetAfterDeadline, Track, TrackRecord, CheckLimit, Candidates, ChooseVictim,
              Untrack, UntrackForget, Remove, CheckExpired, Touch, ReadInner, Arm, Remaining
<1> QED BY Zenon, <1>1, <1>2

(* A client writes the key k, as the last thing before it tracks it. *)
Writes(c, k) ==
  /\ pc[c] \in {"idle", "set"} /\ pc'[c] = "track" /\ call'[c].key = k
  /\ \A j \in Keys \ {k} : Inner!Present(j)' => Inner!Present(j)
  /\ UNCHANGED <<allKeys, meter, pending, sweeping>>

(* A client deletes the data of the key k. *)
Removes(c, k) ==
  /\ pc[c] = "remove" /\ target[c] = k
  /\ ~Inner!Present(k)'
  /\ \A j \in Keys \ {k} : Inner!Present(j)' => Inner!Present(j)
  /\ UNCHANGED <<allKeys, meter, pending, sweeping>>

(* The writes of Set, HSet and SetWithTTL come just before track. *)
LEMMA WriteStep ==
  ASSUME TypeOK, NEW c \in Clients, NEW k \in Keys,
         \/ \E v \in Values : Set(c, k, v)
         \/ \E f \in Fields, v \in Values : HSet(c, k, f, v)
         \/ SetAfterDeadline(c) /\ k = call[c].key
  PROVE  Writes(c, k)
<1>t. pc \in [Clients -> Labels] /\ call \in [Clients -> Calls]
  BY Zenon DEF TypeOK, ClientTypeOK
<1>1. /\ pc[c] \in {"idle", "set"} /\ pc'[c] = "track" /\ call'[c].key = k
      /\ UNCHANGED <<allKeys, meter, pending, sweeping>>
  <2> USE <1>t DEF Goto, metaVars, sweepVars
  <2>1. ASSUME NEW v \in Values, Set(c, k, v)
        PROVE  /\ pc[c] = "idle" /\ pc'[c] = "track" /\ call'[c].key = k
               /\ UNCHANGED <<allKeys, meter, pending, sweeping>>
    BY Zenon, <2>1 DEF Set, Call
  <2>2. ASSUME NEW f \in Fields, NEW v \in Values, HSet(c, k, f, v)
        PROVE  /\ pc[c] = "idle" /\ pc'[c] = "track" /\ call'[c].key = k
               /\ UNCHANGED <<allKeys, meter, pending, sweeping>>
    BY Zenon, <2>2 DEF HSet, Call
  <2>3. ASSUME SetAfterDeadline(c), k = call[c].key
        PROVE  /\ pc[c] = "set" /\ pc'[c] = "track" /\ call'[c].key = k
               /\ UNCHANGED <<allKeys, meter, pending, sweeping>>
    BY Zenon, <2>3 DEF SetAfterDeadline, At
  <2> QED BY Zenon, <2>1, <2>2, <2>3
<1>2. \A j \in Keys \ {k} : strings'[j] = strings[j] /\ hashes'[j] = hashes[j]
  BY Zenon DEF TypeOK, Inner!StoreTypeOK, Set, HSet, SetAfterDeadline, Inner!Set, Inner!HSet
<1> QED BY Zenon, <1>1, <1>2 DEF Writes, Inner!Present, Inner!EmptyHash

(* inner.Del drops all the data of the key that untrack has removed. *)
LEMMA RemoveStep ==
  ASSUME TypeOK, NEW c \in Clients, Remove(c), NEW k \in Keys, k = target[c]
  PROVE  Removes(c, k)
<1>1. strings'[k] = None /\ hashes'[k] = Inner!EmptyHash
  BY Zenon DEF TypeOK, Inner!StoreTypeOK, Remove, Inner!Del
<1>2. \A j \in Keys \ {k} : strings'[j] = strings[j] /\ hashes'[j] = hashes[j]
  BY Zenon DEF TypeOK, Inner!StoreTypeOK, Remove, Inner!Del
<1>3. pc[c] = "remove" /\ UNCHANGED <<allKeys, meter, pending, sweeping>>
  BY Zenon DEF Remove, At, metaVars, sweepVars
<1> QED BY Zenon, <1>1, <1>2, <1>3 DEF Removes, Inner!Present, Inner!EmptyHash

(* The steps of a client that neither write nor delete data, untrack or   *)
(* forget: the key set and the policy's map only grow.                     *)
Keeps(c) ==
  /\ UNCHANGED <<strings, hashes, pending, sweeping>>
  /\ allKeys \subseteq allKeys'
  /\ \A j \in Keys : meter[j] > 0 => meter'[j] > 0
  /\ pc[c] # "remove" /\ (pc[c] = "forget" => pc'[c] = "remove" /\ target'[c] = target[c])
  /\ pc[c] = "track" => call[c].key \in allKeys' /\ pc'[c] = "record" /\ call'[c].key = call[c].key
  /\ pc[c] = "record" => meter'[call[c].key] > 0 \/ Policy \notin {"allkeys-lru", "allkeys-lfu"}

(* All other steps of the methods keep the data, and the entries of the   *)
(* other keys; track and policy.Record add theirs.                         *)
LEMMA KeepStep ==
  ASSUME TypeOK, NEW c \in Clients, Begin(c) \/ Continue(c),
         ~Remove(c), ~UntrackForget(c), ~Untrack(c), ~SetAfterDeadline(c),
         \A k \in Keys : /\ ~Del(c, k)
                         /\ \A v \in Values : ~Set(c, k, v)
                         /\ \A f \in Fields, v \in Values : ~HSet(c, k, f, v)
  PROVE  Keeps(c)
<1>t. /\ pc \in [Clients -> Labels] /\ call \in [Clients -> Calls]
      /\ meter \in [Keys -> Nat]
      /\ pc[c] # "idle" => call[c].key \in Keys
  BY Zenon DEF TypeOK, ClientTypeOK
<1> USE <1>t DEF Keeps, Call, At, Goto, Return, innerVars, metaVars, sweepVars
<1>1. ASSUME Begin(c) PROVE Keeps(c)
  BY ZenonT(60), <1>1 DEF Begin, SetWithTTL, Read, Expire, TTL
<1>2. CASE Track(c)
  BY Zenon, <1>2 DEF Track
<1>3. CASE TrackRecord(c) \/ Touch(c)
  <2> DEFINE k == call[c].key
  <2>1. k \in Keys
    BY Zenon, <1>3 DEF TrackRecord, Touch
  <2>2. meter' = PolicyRecord(Policy, meter, k)
    BY ONLY Zenon, <1>3 DEF TrackRecord, Touch
  <2>3. /\ \A j \in Keys : meter[j] > 0 => meter'[j] > 0
        /\ Policy \in {"allkeys-lru", "allkeys-lfu"} => meter'[k] > 0
    BY ONLY Zenon, <1>t, <2>1, <2>2, RecordMeter DEF Meters
  <2> QED BY Zenon, <1>3, <2>3 DEF TrackRecord, Touch
<1>4. CASE \/ CheckLimit(c) \/ Candidates(c) \/ ChooseVictim(c) \/ CheckExpired(c)
           \/ ReadInner(c) \/ Arm(c) \/ Remaining(c)
  BY Zenon, <1>4 DEF CheckLimit, Candidates, ChooseVictim, CheckExpired, ReadInner, Arm, Remaining
<1> QED BY ZenonT(40), <1>1, <1>2, <1>3, <1>4 DEF Continue

(* A client untracks the key k, as Del, delExpired and eviction do, and    *)
(* then takes its entry out of the policy's map.                           *)
Untracks(c, k) ==
  /\ pc[c] \notin {"track", "record", "forget", "remove"}
  /\ pc'[c] = "forget" /\ target'[c] = k
  /\ \A j \in Keys \ {k} : j \in allKeys => j \in allKeys'
  /\ UNCHANGED <<strings, hashes, meter, pending, sweeping>>

Forgets(c, k) ==
  /\ pc[c] = "forget" /\ target[c] = k
  /\ pc'[c] = "remove" /\ target'[c] = k
  /\ \A j \in Keys \ {k} : meter[j] > 0 => meter'[j] > 0
  /\ UNCHANGED <<strings, hashes, allKeys, pending, sweeping>>

(* untrack, of Del, delExpired and eviction, is followed by policy.Delete. *)
LEMMA UntrackStep ==
  ASSUME TypeOK, NEW c \in Clients, NEW k \in Keys,
         Del(c, k) \/ (Untrack(c) /\ k = target[c])
  PROVE  Untracks(c, k)
BY Zenon DEF TypeOK, ClientTypeOK, Untracks, Del, Untrack, UntrackKey, Call, At, Goto, innerVars, sweepVars

(* policy.Delete in untrack is followed by inner.Del of the same key. *)
LEMMA ForgetStep ==
  ASSUME TypeOK, NEW c \in Clients, NEW k \in Keys, UntrackForget(c), k = target[c]
  PROVE  Forgets(c, k)
<1>1. \A j \in Keys \ {k} : meter[j] > 0 => meter'[j] > 0
  BY Zenon, DeleteMeter DEF TypeOK, Meters, UntrackForget
<1> QED BY Zenon, <1>1 DEF TypeOK, ClientTypeOK, Forgets, UntrackForget, At, Goto, innerVars, sweepVars

(* Every client step is one of these five. *)
LEMMA ClientStep ==
  ASSUME TypeOK, NEW c \in Clients, Begin(c) \/ Continue(c)
  PROVE  Keeps(c) \/ \E k \in Keys : Writes(c, k) \/ Untracks(c, k) \/ Forgets(c, k) \/ Removes(c, k)
<1>t. /\ pc[c] \in {"untrack", "forget", "remove"} => target[c] \in Keys
      /\ pc[c] # "idle" => call[c].key \in Keys
  BY Zenon DEF TypeOK, ClientTypeOK
<1>1. CASE \E k \in Keys : \/ \E v \in Values : Set(c, k, v)
                           \/ \E f \in Fields, v \in Values : HSet(c, k, f, v)
  BY Zenon, <1>1, WriteStep
<1>2. CASE SetAfterDeadline(c)
  BY Zenon, <1>2, <1>t, WriteStep DEF SetAfterDeadline, At
<1>3. CASE \E k \in Keys : Del(c, k)
  BY Zenon, <1>3, UntrackStep
<1>4. CASE Untrack(c)
  BY Zenon, <1>4, <1>t, UntrackStep DEF Untrack, At
<1>5. CASE UntrackForget(c)
  BY Zenon, <1>5, <1>t, ForgetStep DEF UntrackForget, At
<1>6. CASE Remove(c)
  BY Zenon, <1>6, <1>t, RemoveStep DEF Remove, At
<1> QED BY Zenon, <1>1, <1>2, <1>3, <1>4, <1>5, <1>6, KeepStep

(* The methods keep stored data tracked, or about to be tracked or deleted. *)
LEMMA TrackInvClient ==
  ASSUME TypeOK, TrackInv, NEW c \in Clients, Begin(c) \/ Continue(c)
  PROVE  TrackInv'
<1> SUFFICES ASSUME NEW k \in Keys, Inner!Present(k)'
             PROVE  k \in allKeys' \/ WillTrack(k)' \/ WillRemove(k)'
  BY Zenon DEF TrackInv
<1> USE DEF WillTrack, WillRemove
<1>o. OthersStay(c)
  BY Zenon, OneClientMoves
<1>h. Inner!Present(k) => k \in allKeys \/ WillTrack(k) \/ WillRemove(k)
  BY Zenon DEF TrackInv
<1>1. CASE Keeps(c)
  <2>1. Inner!Present(k)
    BY Zenon, <1>1 DEF Keeps, Inner!Present, Inner!EmptyHash
  <2> QED BY Zenon, <1>1, <1>o, <1>h, <2>1 DEF Keeps, OthersStay
<1>2. ASSUME NEW j \in Keys, Writes(c, j) PROVE k \in allKeys' \/ WillTrack(k)' \/ WillRemove(k)'
  BY Zenon, <1>2, <1>o, <1>h DEF Writes, OthersStay
<1>3. ASSUME NEW j \in Keys, Untracks(c, j) \/ Forgets(c, j)
      PROVE  k \in allKeys' \/ WillTrack(k)' \/ WillRemove(k)'
  <2>1. Inner!Present(k)
    BY Zenon, <1>3 DEF Untracks, Forgets, Inner!Present, Inner!EmptyHash
  <2> QED BY Zenon, <1>3, <1>o, <1>h, <2>1 DEF Untracks, Forgets, OthersStay
<1>4. ASSUME NEW j \in Keys, Removes(c, j) PROVE k \in allKeys' \/ WillTrack(k)' \/ WillRemove(k)'
  BY Zenon, <1>4, <1>o, <1>h DEF Removes, OthersStay
<1> QED BY Zenon, <1>1, <1>2, <1>3, <1>4, ClientStep

(* The methods keep stored data recorded by the policy, or about to be      *)
(* recorded or deleted.                                                    *)
LEMMA RecordInvClient ==
  ASSUME TypeOK, RecordInv, NEW c \in Clients, Begin(c) \/ Continue(c)
  PROVE  RecordInv'
<1> SUFFICES ASSUME Policy \in {"allkeys-lru", "allkeys-lfu"}, NEW k \in Keys, Inner!Present(k)'
             PROVE  meter'[k] > 0 \/ WillRecord(k)' \/ RemovesNext(k)'
  BY Zenon DEF RecordInv
<1> USE DEF WillRecord, RemovesNext
<1>o. OthersStay(c)
  BY Zenon, OneClientMoves
<1>h. Inner!Present(k) => meter[k] > 0 \/ WillRecord(k) \/ RemovesNext(k)
  BY Zenon DEF RecordInv
<1>1. CASE Keeps(c)
  <2>1. Inner!Present(k)
    BY Zenon, <1>1 DEF Keeps, Inner!Present, Inner!EmptyHash
  <2> QED BY SMTT(30), <1>1, <1>o, <1>h, <2>1 DEF Keeps, OthersStay
<1>2. ASSUME NEW j \in Keys, Writes(c, j) PROVE meter'[k] > 0 \/ WillRecord(k)' \/ RemovesNext(k)'
  BY Zenon, <1>2, <1>o, <1>h DEF Writes, OthersStay
<1>3. ASSUME NEW j \in Keys, Untracks(c, j) \/ Forgets(c, j)
      PROVE  meter'[k] > 0 \/ WillRecord(k)' \/ RemovesNext(k)'
  <2>1. Inner!Present(k)
    BY Zenon, <1>3 DEF Untracks, Forgets, Inner!Present, Inner!EmptyHash
  <2> QED BY Zenon, <1>3, <1>o, <1>h, <2>1 DEF Untracks, Forgets, OthersStay
<1>4. ASSUME NEW j \in Keys, Removes(c, j) PROVE meter'[k] > 0 \/ WillRecord(k)' \/ RemovesNext(k)'
  BY Zenon, <1>4, <1>o, <1>h DEF Removes, OthersStay
<1> QED BY Zenon, <1>1, <1>2, <1>3, <1>4, ClientStep

(* The sweeper untracks into its batch, and leaves the batch by deleting.  *)
LEMMA SafetyBackground ==
  ASSUME SafetyInv, SweepStep \/ Close \/ SweepExit \/ Tick \/ UNCHANGED vars
  PROVE  TrackInv' /\ RecordInv'
<1> USE DEF SafetyInv, TrackInv, RecordInv, WillTrack, WillRecord, WillRemove, RemovesNext,
            innerVars, metaVars, clientVars, sweepVars
<1>1. CASE Sweep
  <2>1. /\ UNCHANGED <<strings, hashes, meter, clientVars, sweeping>>
        /\ pending = {}
        /\ \A k \in allKeys : k \in allKeys' \/ k \in pending'
    BY ZenonT(40), <1>1 DEF Sweep
  <2> QED BY ZenonT(40), <2>1 DEF Inner!Present, Inner!EmptyHash
<1>2. ASSUME NEW k \in Keys, SweepForget(k) PROVE TrackInv' /\ RecordInv'
  <2>1. \A j \in Keys \ {k} : meter[j] > 0 => meter'[j] > 0
    <3>1. meter \in Meters /\ meter' = PolicyDelete(Policy, meter, k)
      BY Zenon, <1>2 DEF TypeOK, Meters, SweepForget
    <3> QED BY ONLY Zenon, <3>1, k \in Keys, DeleteMeter
  <2>2. /\ UNCHANGED <<strings, hashes, allKeys, clientVars, pending>>
        /\ sweeping = None /\ sweeping' = k
    BY Zenon, <1>2 DEF SweepForget
  <2>3. None \notin Keys
    BY Zenon, TTLAssumption
  <2> QED BY ZenonT(60), <2>1, <2>2, <2>3 DEF Inner!Present, Inner!EmptyHash
<1>3. CASE SweepRemove
  <2>1. PICK k \in Keys : k = sweeping
    BY Zenon, <1>3 DEF TypeOK, SweepRemove
  <2>2. ~Inner!Present(k)'
    BY Zenon, <1>3, <2>1 DEF SweepRemove, Inner!Del, TypeOK, Inner!StoreTypeOK, Inner!Present, Inner!EmptyHash
  <2>3. \A j \in Keys \ {k} : Inner!Present(j)' => Inner!Present(j)
    BY Zenon, <1>3, <2>1 DEF SweepRemove, Inner!Del, TypeOK, Inner!StoreTypeOK, Inner!Present, Inner!EmptyHash
  <2>4. UNCHANGED <<allKeys, meter, clientVars>> /\ pending' = pending \ {k}
    BY Zenon, <1>3, <2>1 DEF SweepRemove
  <2> QED BY Zenon, <2>1, <2>2, <2>3, <2>4
<1>4. CASE Close \/ SweepExit \/ Tick \/ UNCHANGED vars
  <2>1. UNCHANGED <<strings, hashes, allKeys, meter, clientVars, pending, sweeping>>
    BY Zenon, <1>4 DEF Close, SweepExit, Tick, vars
  <2> QED BY ZenonT(40), <2>1 DEF Inner!Present, Inner!EmptyHash
<1> QED BY Zenon, <1>1, <1>2, <1>3, <1>4 DEF SweepStep

(* SafetyInv is inductive. *)
THEOREM SafetyInvariant == Spec => []SafetyInv
<1>1. Init => SafetyInv
  <2>1. ASSUME Init, NEW k \in Keys PROVE ~Inner!Present(k)
    BY Zenon, <2>1 DEF Init, Inner!Init, Inner!Present
  <2> QED BY Zenon, <2>1, TypeInit DEF SafetyInv, TrackInv, RecordInv
<1>2. SafetyInv /\ [Next]_vars => SafetyInv'
  BY Zenon, TypeBegin, TypeContinue, TypeBackground, TrackInvClient, RecordInvClient, SafetyBackground
  DEF Next, SafetyInv
<1> QED BY <1>1, <1>2, PTL DEF Spec

(* Whatever the clients and the sweeper do concurrently, data of a key     *)
(* that no goroutine is working on is tracked in allKeys.                  *)
THEOREM StoredIsTracked == Spec => []NoUntrackedValue
<1>1. SafetyInv => NoUntrackedValue
  BY Zenon DEF SafetyInv, TrackInv, WillTrack, WillRemove, NoUntrackedValue, Busy
<1> QED BY <1>1, SafetyInvariant, PTL

(* Under LRU and LFU it also has an entry in the policy's map. *)
THEOREM StoredIsRecorded == Spec => []NoUnrecordedValue
<1>1. SafetyInv => NoUnrecordedValue
  BY TTLAssumption
  DEF SafetyInv, TypeOK, RecordInv, WillRecord, RemovesNext, NoUnrecordedValue, Busy
<1> QED BY <1>1, SafetyInvariant, PTL

-----------------------------------------------------------------------------
(* The ranks that stand for the timestamps of LRU.                         *)

(* The ranks of LRU: different for different entries, and no greater than  *)
(* their number, so that the next entry's rank is above all of them.       *)
Ranked(m) ==
  /\ \A k \in Keys : m[k] <= Cardinality(Recorded(m, Keys))
  /\ \A j, k \in Keys : m[j] > 0 /\ m[j] = m[k] => j = k

(* LRU's Delete closes the gap that the entry leaves. *)
LEMMA DeleteRanks ==
  ASSUME NEW m \in Meters, NEW k \in Keys, Ranked(m)
  PROVE  Ranked(LRUDelete(m, k)) /\ LRUDelete(m, k) \in Meters /\ LRUDelete(m, k)[k] = 0
<1> DEFINE d == LRUDelete(m, k)
           n == Cardinality(Recorded(m, Keys))
<1>1. /\ d \in Meters /\ d[k] = 0
      /\ \A j \in Keys \ {k} : d[j] = IF 0 < m[k] /\ m[k] < m[j] THEN m[j] - 1 ELSE m[j]
  BY DEF LRUDelete, Meters
<1>2. Recorded(d, Keys) = Recorded(m, Keys) \ {k}
  BY <1>1 DEF Recorded, Meters
<1>3. IsFiniteSet(Recorded(m, Keys)) /\ n \in Nat
  <2>1. Recorded(m, Keys) \subseteq Keys
    BY Zenon DEF Recorded
  <2> QED BY Zenon, <2>1, KeysAssumption, FS_Subset, FS_CardinalityType
<1>4. Cardinality(Recorded(d, Keys)) = IF m[k] > 0 THEN n - 1 ELSE n
  <2>1. CASE m[k] > 0
    <3>1. k \in Recorded(m, Keys)
      BY Zenon, <2>1 DEF Recorded
    <3> QED BY ZenonT(60), <1>2, <1>3, <2>1, <3>1, FS_RemoveElement
  <2>2. CASE ~(m[k] > 0)
    <3>1. Recorded(d, Keys) = Recorded(m, Keys)
      BY Zenon, <1>2, <2>2 DEF Recorded
    <3> QED BY Zenon, <2>2, <3>1
  <2> QED BY Zenon, <2>1, <2>2
<1>5. /\ \A j \in Keys : m[j] \in Nat /\ m[j] <= n
      /\ \A i, j \in Keys : m[i] > 0 /\ m[i] = m[j] => i = j
  BY Zenon DEF Ranked, Meters
<1> HIDE DEF d, n
<1>6. \A j \in Keys : d[j] <= Cardinality(Recorded(d, Keys))
  BY <1>1, <1>3, <1>4, <1>5
<1>7. \A i, j \in Keys : d[i] > 0 /\ d[i] = d[j] => i = j
  BY <1>1, <1>5
<1> QED BY Zenon, <1>1, <1>6, <1>7 DEF Ranked, d

(* LRU's Record makes the key the newest: its rank is above all others. *)
LEMMA RecordRanks ==
  ASSUME NEW m \in Meters, NEW k \in Keys, Ranked(m)
  PROVE  /\ Ranked(LRURecord(m, k))
         /\ \A j \in Keys \ {k} : LRURecord(m, k)[j] < LRURecord(m, k)[k]
<1> DEFINE d == LRUDelete(m, k)
           r == LRURecord(m, k)
           n == Cardinality(Recorded(d, Keys))
<1>1. d \in Meters /\ d[k] = 0 /\ Ranked(d)
  BY Zenon, DeleteRanks
<1>2. IsFiniteSet(Recorded(d, Keys)) /\ n \in Nat
  <2>1. Recorded(d, Keys) \subseteq Keys
    BY Zenon DEF Recorded
  <2> QED BY Zenon, <2>1, KeysAssumption, FS_Subset, FS_CardinalityType
<1>3. r[k] = n + 1 /\ \A j \in Keys \ {k} : r[j] = d[j]
  BY Zenon, <1>1 DEF LRURecord, Meters
<1>4. Recorded(r, Keys) = Recorded(d, Keys) \cup {k} /\ k \notin Recorded(d, Keys)
  BY <1>1, <1>2, <1>3 DEF Recorded
<1>5. Cardinality(Recorded(r, Keys)) = n + 1
  BY Zenon, <1>2, <1>4, FS_AddElement
<1>6. \A j \in Keys : d[j] \in Nat /\ d[j] <= n
  BY Zenon, <1>1 DEF Ranked, Meters
<1>7. \A i, j \in Keys : d[i] > 0 /\ d[i] = d[j] => i = j
  BY Zenon, <1>1 DEF Ranked
<1> HIDE DEF d, r, n
<1>8. \A j \in Keys \ {k} : r[j] < r[k]
  BY <1>2, <1>3, <1>6
<1>9. \A j \in Keys : r[j] <= Cardinality(Recorded(r, Keys))
  BY <1>2, <1>3, <1>5, <1>6
<1>10. \A i, j \in Keys : r[i] > 0 /\ r[i] = r[j] => i = j
  BY <1>2, <1>3, <1>6, <1>7
<1> QED BY Zenon, <1>8, <1>9, <1>10 DEF Ranked, r

(* Delete keeps the order of the other entries, and which keys have one. *)
LEMMA DeleteKeepsOrder ==
  ASSUME NEW m \in Meters, NEW k \in Keys, Ranked(m), NEW i \in Keys \ {k}, NEW j \in Keys \ {k}
  PROVE  /\ LRUDelete(m, k)[j] = 0 <=> m[j] = 0
         /\ LRUDelete(m, k)[i] < LRUDelete(m, k)[j] <=> m[i] < m[j]
<1> DEFINE d == LRUDelete(m, k)
<1>1. \A l \in {i, j} : d[l] = IF 0 < m[k] /\ m[k] < m[l] THEN m[l] - 1 ELSE m[l]
  BY Zenon DEF LRUDelete, Meters
<1>2. /\ m[i] \in Nat /\ m[j] \in Nat /\ m[k] \in Nat
      /\ m[k] > 0 => m[i] # m[k] /\ m[j] # m[k]
  BY Zenon DEF Ranked, Meters
<1> HIDE DEF d
<1>3. /\ d[j] = 0 <=> m[j] = 0
      /\ d[i] < d[j] <=> m[i] < m[j]
  BY <1>1, <1>2
<1> QED BY Zenon, <1>3 DEF d

(* Record keeps it too. *)
LEMMA RecordKeepsOrder ==
  ASSUME NEW m \in Meters, NEW k \in Keys, Ranked(m)
  PROVE  /\ LRURecord(m, k) \in Meters /\ LRURecord(m, k)[k] > 0
         /\ \A i, j \in Keys \ {k} :
              /\ LRURecord(m, k)[j] = 0 <=> m[j] = 0
              /\ LRURecord(m, k)[i] < LRURecord(m, k)[j] <=> m[i] < m[j]
<1> DEFINE d == LRUDelete(m, k)
           n == Cardinality(Recorded(d, Keys))
<1>1. d \in Meters
  BY Zenon, DeleteRanks
<1>2. n \in Nat
  <2>1. Recorded(d, Keys) \subseteq Keys
    BY Zenon DEF Recorded
  <2> QED BY Zenon, <2>1, KeysAssumption, FS_Subset, FS_CardinalityType
<1>3. LRURecord(m, k) = [d EXCEPT ![k] = n + 1]
  BY Zenon DEF LRURecord
<1>4. \A i, j \in Keys \ {k} : /\ d[j] = 0 <=> m[j] = 0
                               /\ d[i] < d[j] <=> m[i] < m[j]
  BY Zenon, DeleteKeepsOrder
<1> HIDE DEF d, n
<1>5. /\ LRURecord(m, k) \in Meters /\ LRURecord(m, k)[k] > 0
      /\ \A j \in Keys \ {k} : LRURecord(m, k)[j] = d[j]
  BY <1>1, <1>2, <1>3 DEF Meters
<1> QED BY Zenon, <1>4, <1>5

(* RanksOrderAccess as it is kept: no timestamp is in the future, and the  *)
(* ranks leave room for the next entry.                                    *)
LoopInv ==
  /\ clock \in Nat /\ access \in Meters /\ rank \in Meters
  /\ \A k \in Keys : access[k] <= clock
  /\ Ranked(rank)
  /\ RanksOrderAccess

(* Record gives the key the latest timestamp and the highest rank. *)
LEMMA RecordKeyStep == ASSUME LoopInv, NEW k \in Keys, RecordKey(k) PROVE LoopInv'
<1>1. /\ clock' = clock + 1 /\ access' = [access EXCEPT ![k] = clock + 1] /\ rank' = LRURecord(rank, k)
      /\ clock \in Nat /\ access \in [Keys -> Nat] /\ rank \in Meters /\ Ranked(rank)
      /\ \A j \in Keys : access[j] <= clock
  BY Zenon DEF RecordKey, LoopInv, Meters
<1>2. /\ clock' \in Nat /\ access' \in [Keys -> Nat]
      /\ access'[k] = clock + 1 /\ \A j \in Keys \ {k} : access'[j] = access[j]
      /\ \A j \in Keys : access'[j] <= clock' /\ access[j] \in Nat
  BY <1>1
<1>3. /\ rank' \in Meters /\ Ranked(rank') /\ rank'[k] > 0
      /\ \A j \in Keys \ {k} : rank'[j] < rank'[k]
      /\ \A i, j \in Keys \ {k} : /\ rank'[j] = 0 <=> rank[j] = 0
                                  /\ rank'[i] < rank'[j] <=> rank[i] < rank[j]
  BY Zenon, <1>1, RecordRanks, RecordKeepsOrder
<1>4. \A i, j \in Keys : /\ rank[i] = 0 <=> access[i] = 0
                         /\ rank[i] < rank[j] <=> access[i] < access[j]
  BY Zenon DEF LoopInv, RanksOrderAccess
<1>5. \A j \in Keys : rank'[j] \in Nat
  BY Zenon, <1>3 DEF Meters
<1>6. RanksOrderAccess'
  <2> SUFFICES ASSUME NEW i \in Keys, NEW j \in Keys
               PROVE  /\ rank'[i] = 0 <=> access'[i] = 0
                      /\ rank'[i] < rank'[j] <=> access'[i] < access'[j]
    BY Zenon DEF RanksOrderAccess
  <2>1. CASE i = k
    BY <1>1, <1>2, <1>3, <1>5, <2>1
  <2>2. CASE i # k /\ j = k
    BY <1>1, <1>2, <1>3, <1>4, <1>5, <2>2
  <2>3. CASE i # k /\ j # k
    BY Zenon, <1>2, <1>3, <1>4, <2>3
  <2> QED BY Zenon, <2>1, <2>2, <2>3
<1> QED BY Zenon, <1>2, <1>3, <1>6 DEF LoopInv, Meters

(* Delete takes the entry out of both maps. *)
LEMMA DeleteKeyStep == ASSUME LoopInv, NEW k \in Keys, DeleteKey(k) PROVE LoopInv'
<1>1. /\ clock' = clock /\ access' = [access EXCEPT ![k] = 0] /\ rank' = LRUDelete(rank, k)
      /\ clock \in Nat /\ access \in [Keys -> Nat] /\ rank \in Meters /\ Ranked(rank)
      /\ \A j \in Keys : access[j] <= clock
  BY Zenon DEF DeleteKey, LoopInv, Meters
<1>2. /\ access' \in [Keys -> Nat]
      /\ access'[k] = 0 /\ \A j \in Keys \ {k} : access'[j] = access[j]
      /\ \A j \in Keys : access'[j] <= clock' /\ access[j] \in Nat
  BY <1>1
<1>3. /\ rank' \in Meters /\ Ranked(rank') /\ rank'[k] = 0
      /\ \A i, j \in Keys \ {k} : /\ rank'[j] = 0 <=> rank[j] = 0
                                  /\ rank'[i] < rank'[j] <=> rank[i] < rank[j]
  BY Zenon, <1>1, DeleteRanks, DeleteKeepsOrder
<1>4. \A i, j \in Keys : /\ rank[i] = 0 <=> access[i] = 0
                         /\ rank[i] < rank[j] <=> access[i] < access[j]
  BY Zenon DEF LoopInv, RanksOrderAccess
<1>5. \A j \in Keys : rank'[j] \in Nat
  BY Zenon, <1>3 DEF Meters
<1>6. RanksOrderAccess'
  <2> SUFFICES ASSUME NEW i \in Keys, NEW j \in Keys
               PROVE  /\ rank'[i] = 0 <=> access'[i] = 0
                      /\ rank'[i] < rank'[j] <=> access'[i] < access'[j]
    BY Zenon DEF RanksOrderAccess
  <2>1. CASE i = k
    BY <1>2, <1>3, <1>4, <1>5, <2>1
  <2>2. CASE i # k /\ j = k
    BY <1>2, <1>3, <1>4, <1>5, <2>2
  <2>3. CASE i # k /\ j # k
    BY Zenon, <1>2, <1>3, <1>4, <2>3
  <2> QED BY Zenon, <2>1, <2>2, <2>3
<1> QED BY Zenon, <1>1, <1>2, <1>3, <1>6 DEF LoopInv, Meters

(* Record and Delete keep it, and a new deadline has nothing to do with it. *)
LEMMA LoopInvariant == LoopSpec => []LoopInv
<1>1. LoopInit => LoopInv
  <2> SUFFICES ASSUME LoopInit PROVE LoopInv
    OBVIOUS
  <2>1. Cardinality(Recorded(rank, Keys)) = 0
    <3>1. Recorded(rank, Keys) = {}
      BY DEF LoopInit, Recorded
    <3> QED BY Zenon, <3>1, FS_EmptySet
  <2>2. /\ clock \in Nat /\ access \in Meters /\ rank \in Meters
        /\ \A k \in Keys : rank[k] = 0 /\ access[k] = 0 /\ access[k] <= clock
    BY DEF LoopInit, Meters
  <2> QED BY <2>1, <2>2 DEF LoopInv, Ranked, RanksOrderAccess
<1>2. LoopInv /\ [LoopNext]_loopVars => LoopInv'
  <2> SUFFICES ASSUME LoopInv, [LoopNext]_loopVars PROVE LoopInv'
    OBVIOUS
  <2>1. ASSUME UNCHANGED <<clock, access, rank>> PROVE LoopInv'
    BY Zenon, <2>1 DEF LoopInv, Ranked, Recorded, RanksOrderAccess
  <2>2. CASE \E k \in Keys : RecordKey(k) \/ DeleteKey(k)
    BY Zenon, <2>2, RecordKeyStep, DeleteKeyStep
  <2>3. CASE \E k \in Keys : \E t \in (0 .. MaxTTL) \cup {None} : SetDeadline(k, t)
    BY Zenon, <2>1, <2>3 DEF SetDeadline
  <2>4. CASE UNCHANGED loopVars
    BY Zenon, <2>1, <2>4 DEF loopVars
  <2> QED BY Zenon, <2>2, <2>3, <2>4 DEF LoopNext
<1> QED BY <1>1, <1>2, PTL DEF LoopSpec

(* The ranks TTLStore keeps stand for the timestamps of LRUPolicy.access:  *)
(* whatever Record and Delete calls come, for any keys and times, the same *)
(* keys have an entry, and one is older by its rank exactly when it is by  *)
(* its timestamp.                                                          *)
THEOREM RanksAreTimestamps == LoopSpec => []RanksOrderAccess
<1>1. LoopInv => RanksOrderAccess
  BY Zenon DEF LoopInv
<1> QED BY <1>1, LoopInvariant, PTL

-----------------------------------------------------------------------------
(* The loops of Evict.                                                     *)

(* A set of numbers has a least one. *)
LEMMA LeastNumber ==
  ASSUME NEW T \in SUBSET Nat, T # {}
  PROVE  \E m \in T : \A n \in T : ~(n < m)
<1> DEFINE R == {ss \in Nat \X Nat : ss[1] < ss[2]}
<1>1. IsWellFoundedOn(R, Nat)
  BY Zenon, NatLessThanWellFounded DEF OpToRel
<1>2. PICK m \in T : \A n \in T : ~(<<n, m>> \in R)
  <2> HIDE DEF R
  <2> QED BY Zenon, <1>1, WFMin
<1>3. ASSUME NEW n \in T, n < m PROVE FALSE
  <2>1. <<n, m>> \in Nat \X Nat /\ <<n, m>>[1] < <<n, m>>[2]
    BY Zenon, <1>3
  <2> QED BY Zenon, <1>2, <2>1
<1> QED BY Zenon, <1>3

(* The loop of an Evict over the candidates s[1], ..., s[N]: best[i] is    *)
(* what it holds after i of them, H has the candidates with an entry, w    *)
(* is what it compares.                                                    *)
IsEvictLoop(best, s, N, H, w) ==
  /\ best[1] = s[1]
  /\ \A i \in 2 .. N : best[i] = IF s[i] \in H /\ w[s[i]] < w[best[i - 1]] THEN s[i] ELSE best[i - 1]

(* A loop that only moves to the current candidate holds a candidate. *)
LEMMA HoldsCandidate ==
  ASSUME NEW N \in Nat, NEW S, NEW s \in [1 .. N -> S], NEW best,
         best[1] = s[1], \A i \in 2 .. N : best[i] \in {s[i], best[i - 1]}
  PROVE  \A i \in 1 .. N : best[i] \in S
<1> DEFINE T == {i \in 1 .. N : best[i] \notin S}
<1> SUFFICES ASSUME T # {} PROVE FALSE
  BY Zenon
<1>1. PICK m \in T : \A n \in T : ~(n < m)
  <2>1. T \in SUBSET Nat
    OBVIOUS
  <2> HIDE DEF T
  <2> QED BY Zenon, <2>1, LeastNumber
<1>2. m \in 1 .. N /\ best[m] \notin S /\ s[m] \in S
  OBVIOUS
<1>3. m \in 2 .. N /\ m - 1 \in 1 .. N /\ m - 1 < m
  BY <1>2
<1>4. best[m - 1] \in S
  BY Zenon, <1>1, <1>3
<1> QED BY Zenon, <1>2, <1>3, <1>4

(* Every loop runs. *)
LEMMA EvictLoopExists ==
  ASSUME NEW N \in Nat \ {0}, NEW S, NEW s \in [1 .. N -> S], NEW H, NEW w
  PROVE  \E best \in [1 .. N -> S] : IsEvictLoop(best, s, N, H, w)
<1> DEFINE Good(k) == \E f \in [1 .. k -> S] : IsEvictLoop(f, s, k, H, w)
           T == {k \in 1 .. N : ~Good(k)}
<1> N \in 1 .. N
  OBVIOUS
<1> SUFFICES ASSUME T # {} PROVE FALSE
  BY Zenon
<1>1. PICK m \in T : \A n \in T : ~(n < m)
  <2>1. T \in SUBSET Nat
    OBVIOUS
  <2> HIDE DEF T
  <2> QED BY Zenon, <2>1, LeastNumber
<1>2. m \in 1 .. N /\ ~Good(m)
  BY Zenon
<1>3. Good(1)
  <2> DEFINE f == [i \in 1 .. 1 |-> s[1]]
  <2>1. f \in [1 .. 1 -> S] /\ IsEvictLoop(f, s, 1, H, w)
    BY DEF IsEvictLoop
  <2> HIDE DEF f
  <2> QED BY Zenon, <2>1
<1>4. m # 1
  BY Zenon, <1>2, <1>3
<1>5. m - 1 \in 1 .. N /\ m - 1 < m /\ m - 1 \in Nat
  BY <1>2, <1>4
<1>6. PICK f \in [1 .. m - 1 -> S] : IsEvictLoop(f, s, m - 1, H, w)
  <2>1. Good(m - 1)
    <3> HIDE DEF Good
    <3> QED BY Zenon, <1>1, <1>5
  <2> QED BY Zenon, <2>1
<1> DEFINE next == IF s[m] \in H /\ w[s[m]] < w[f[m - 1]] THEN s[m] ELSE f[m - 1]
           g == [i \in 1 .. m |-> IF i = m THEN next ELSE f[i]]
<1>7. next \in S
  BY <1>2, <1>5
<1> HIDE DEF next
<1>8. /\ g \in [1 .. m -> S] /\ g[1] = f[1] /\ g[m] = next /\ g[m - 1] = f[m - 1]
      /\ \A i \in 2 .. m - 1 : g[i] = f[i] /\ g[i - 1] = f[i - 1]
  BY <1>2, <1>4, <1>5, <1>7
<1>9. \A i \in 2 .. m : i = m \/ i \in 2 .. m - 1
  BY <1>2
<1> HIDE DEF g
<1>10. IsEvictLoop(g, s, m, H, w)
  BY ZenonT(60), <1>6, <1>8, <1>9 DEF IsEvictLoop, next
<1> QED BY Zenon, <1>2, <1>8, <1>10

(* The result k is a candidate that no candidate with an entry is below,   *)
(* and it is the first candidate if none is below that one.                *)
IsEvictResult(k, s, N, S, H, w) ==
  /\ k \in S
  /\ \A i \in 1 .. N : s[i] \in H => w[k] <= w[s[i]]
  /\ (\A i \in 1 .. N : s[i] \in H => w[s[1]] <= w[s[i]]) => k = s[1]

(* The loop ends with such a candidate. *)
LEMMA EvictLoopResult ==
  ASSUME NEW N \in Nat \ {0}, NEW S, NEW s \in [1 .. N -> S], NEW H, NEW w, NEW best,
         \A k \in S : w[k] \in Int,
         IsEvictLoop(best, s, N, H, w)
  PROVE  IsEvictResult(best[N], s, N, S, H, w)
<1>1. \A i \in 1 .. N : best[i] \in S
  <2>1. best[1] = s[1] /\ \A i \in 2 .. N : best[i] \in {s[i], best[i - 1]}
    BY Zenon DEF IsEvictLoop
  <2>2. N \in Nat
    OBVIOUS
  <2> QED BY ONLY Zenon, <2>1, <2>2, s \in [1 .. N -> S], HoldsCandidate
<1>2. /\ best[1] = s[1]
      /\ \A i \in 2 .. N : best[i] = IF s[i] \in H /\ w[s[i]] < w[best[i - 1]] THEN s[i] ELSE best[i - 1]
  BY Zenon DEF IsEvictLoop
<1> DEFINE Good(n) ==
      /\ w[best[n]] <= w[s[1]]
      /\ \A i \in 1 .. n : s[i] \in H => w[best[n]] <= w[s[i]]
      /\ (\A i \in 1 .. N : s[i] \in H => w[s[1]] <= w[s[i]]) => best[n] = s[1]
           T == {n \in 1 .. N : ~Good(n)}
<1>3. ASSUME T # {} PROVE FALSE
  <2>1. PICK m \in T : \A n \in T : ~(n < m)
    <3>1. T \in SUBSET Nat
      OBVIOUS
    <3> HIDE DEF T
    <3> QED BY Zenon, <1>3, <3>1, LeastNumber
  <2>2. m \in 1 .. N /\ ~Good(m)
    BY Zenon
  <2>3. Good(1)
    BY <1>1, <1>2
  <2>4. m # 1
    BY Zenon, <2>2, <2>3
  <2>5. m - 1 \in 1 .. N /\ m - 1 < m /\ m \in 2 .. N /\ 1 \in 1 .. N
    BY <2>2, <2>4
  <2>6. Good(m - 1)
    <3> HIDE DEF Good
    <3> QED BY Zenon, <2>1, <2>5
  <2>7. /\ best[m] = IF s[m] \in H /\ w[s[m]] < w[best[m - 1]] THEN s[m] ELSE best[m - 1]
        /\ w[best[m]] \in Int /\ w[best[m - 1]] \in Int /\ w[s[m]] \in Int /\ w[s[1]] \in Int
    BY Zenon, <1>1, <1>2, <2>5
  <2>8. w[best[m]] <= w[best[m - 1]] /\ (s[m] \in H => w[best[m]] <= w[s[m]])
    BY ONLY <2>7
  <2>9. w[best[m]] <= w[s[1]]
    BY ONLY SMTT(30), <2>6, <2>7, <2>8
  <2>10. ASSUME NEW i \in 1 .. m, s[i] \in H PROVE w[best[m]] <= w[s[i]]
    <3>1. CASE i = m
      BY Zenon, <2>8, <2>10, <3>1
    <3>2. CASE i # m
      <4>1. i \in 1 .. m - 1 /\ i \in 1 .. N
        BY <2>2, <3>2
      <4>2. w[best[m - 1]] <= w[s[i]] /\ w[s[i]] \in Int
        BY Zenon, <2>6, <2>10, <4>1
      <4> QED BY ONLY SMTT(30), <2>7, <2>8, <4>2
    <3> QED BY Zenon, <3>1, <3>2
  <2>11. ASSUME \A i \in 1 .. N : s[i] \in H => w[s[1]] <= w[s[i]] PROVE best[m] = s[1]
    <3>1. best[m - 1] = s[1] /\ (s[m] \in H => w[s[1]] <= w[s[m]])
      BY Zenon, <2>2, <2>6, <2>11
    <3> QED BY ONLY <2>7, <3>1
  <2>12. Good(m)
    BY Zenon, <2>9, <2>10, <2>11
  <2> QED BY Zenon, <2>2, <2>12
<1>4. Good(N) /\ N \in 1 .. N
  BY <1>3
<1> QED BY Zenon, <1>1, <1>4 DEF IsEvictResult

(* Some order of the candidates begins with any one of them. *)
LEMMA AnyFirst ==
  ASSUME NEW S \in SUBSET Keys, NEW k \in S
  PROVE  /\ Cardinality(S) \in Nat \ {0}
         /\ \E s \in Orders(S) : s[1] = k
<1> DEFINE N == Cardinality(S)
<1>1. IsFiniteSet(S)
  BY Zenon, KeysAssumption, FS_Subset
<1>2. N \in Nat /\ N # 0
  BY Zenon, <1>1, FS_CardinalityType, FS_EmptySet
<1>3. PICK s : s \in Bijection(1 .. N, S)
  BY Zenon, <1>1, FS_CardinalityType DEF ExistsBijection
<1>4. /\ s \in [1 .. N -> S]
      /\ \A i, j \in 1 .. N : s[i] = s[j] => i = j
      /\ \A x \in S : \E i \in 1 .. N : s[i] = x
  BY Zenon, <1>3 DEF Bijection, Injection, Surjection, IsInjective
<1>5. PICK p \in 1 .. N : s[p] = k
  BY Zenon, <1>4
<1> HIDE DEF N
<1> DEFINE at(i) == IF i = 1 THEN p ELSE IF i = p THEN 1 ELSE i
           t == [i \in 1 .. N |-> s[at(i)]]
<1>6. /\ \A i \in 1 .. N : at(i) \in 1 .. N /\ at(at(i)) = i
      /\ at(1) = p /\ 1 \in 1 .. N
  BY <1>2
<1> HIDE DEF at
<1>7. t \in [1 .. N -> S] /\ t[1] = k
  BY Zenon, <1>4, <1>5, <1>6
<1>8. ASSUME NEW i \in 1 .. N, NEW j \in 1 .. N, t[i] = t[j] PROVE i = j
  <2>1. at(i) = at(j)
    BY Zenon, <1>4, <1>6, <1>8
  <2> QED BY Zenon, <1>6, <2>1
<1>9. ASSUME NEW x \in S PROVE \E i \in 1 .. N : t[i] = x
  <2>1. PICK i \in 1 .. N : s[i] = x
    BY Zenon, <1>4
  <2>2. at(i) \in 1 .. N /\ t[at(i)] = x
    BY Zenon, <1>6, <2>1
  <2> QED BY Zenon, <2>2
<1> HIDE DEF t
<1>10. t \in Bijection(1 .. N, S)
  BY ZenonT(60), <1>7, <1>8, <1>9 DEF Bijection, Injection, Surjection, IsInjective
<1> QED BY Zenon, <1>2, <1>7, <1>10 DEF Orders, N

(* What Loop[s] returns for the order s of S is what the loop ends with.   *)
RunsEvictLoop(Loop, S, H, w) ==
  \A s \in Orders(S) : \E best : /\ IsEvictLoop(best, s, Cardinality(S), H, w)
                                /\ Loop[s] = best[Cardinality(S)]

(* Over all orders, it returns exactly the candidates that no candidate    *)
(* with an entry is below.                                                 *)
ReturnsLeast(Loop, S, H, w) ==
  {Loop[s] : s \in Orders(S)} = {k \in S : \A j \in H : w[k] <= w[j]}

(* Every such loop does. *)
LEMMA EvictLoopResults ==
  ASSUME NEW S \in CandidateSets, NEW H \in SUBSET S, NEW w, NEW Loop,
         \A k \in S : w[k] \in Int,
         RunsEvictLoop(Loop, S, H, w)
  PROVE  ReturnsLeast(Loop, S, H, w)
<1> DEFINE N == Cardinality(S)
<1>1. S \in SUBSET Keys /\ S # {}
  BY Zenon DEF CandidateSets
<1>2. N \in Nat \ {0}
  BY Zenon, <1>1, AnyFirst
<1>3. ASSUME NEW s \in Orders(S)
      PROVE  /\ Loop[s] \in S /\ \A j \in H : w[Loop[s]] <= w[j]
             /\ (\A j \in H : w[s[1]] <= w[j]) => Loop[s] = s[1]
  <2>1. PICK best : IsEvictLoop(best, s, N, H, w) /\ Loop[s] = best[N]
    BY Zenon DEF RunsEvictLoop
  <2>2. s \in [1 .. N -> S] /\ \A x \in S : \E i \in 1 .. N : s[i] = x
    BY Zenon DEF Orders, Bijection, Surjection
  <2> HIDE DEF N
  <2>3. IsEvictResult(best[N], s, N, S, H, w)
    <3>1. \A x \in S : w[x] \in Int
      OBVIOUS
    <3> QED BY ONLY Zenon, <1>2, <2>1, <2>2, <3>1, EvictLoopResult
  <2>4. \A j \in H : \E i \in 1 .. N : s[i] = j
    BY Zenon, <2>2
  <2>5. \A j \in H : w[best[N]] <= w[j]
    BY Zenon, <2>3, <2>4 DEF IsEvictResult
  <2>6. best[N] \in S /\ ((\A j \in H : w[s[1]] <= w[j]) => best[N] = s[1])
    BY Zenon, <2>3 DEF IsEvictResult
  <2> QED BY Zenon, <2>1, <2>5, <2>6
<1>4. ASSUME NEW k \in S, \A j \in H : w[k] <= w[j] PROVE \E s \in Orders(S) : Loop[s] = k
  <2>1. PICK s \in Orders(S) : s[1] = k
    BY Zenon, <1>1, AnyFirst
  <2> QED BY Zenon, <1>3, <1>4, <2>1
<1> QED BY ZenonT(60), <1>3, <1>4 DEF ReturnsLeast

(* An order of the candidates is a sequence of all of them. *)
LEMMA OrderIsSequence ==
  ASSUME NEW S \in CandidateSets, NEW s \in Orders(S)
  PROVE  s \in [1 .. Cardinality(S) -> S] /\ Len(s) = Cardinality(S) /\ Cardinality(S) \in Nat \ {0}
<1>1. Cardinality(S) \in Nat \ {0}
  BY Zenon, AnyFirst DEF CandidateSets
<1>2. s \in [1 .. Cardinality(S) -> S]
  BY Zenon DEF Orders, Bijection, Injection
<1>3. Len(s) = Cardinality(S)
  BY ONLY <1>1, <1>2
<1> QED BY Zenon, <1>1, <1>2, <1>3

(* The loop that LRUPolicy.Evict and LFUPolicy.Evict share, on the map m. *)
MeterLoop(m, s) ==
  LET best[i \in 1 .. Len(s)] ==
        IF i = 1 THEN s[1]
        ELSE LET held == best[i - 1]
             IN  IF m[s[i]] # 0 /\ m[s[i]] < m[held] THEN s[i] ELSE held
  IN  best[Len(s)]

(* It runs as described above. *)
LEMMA MeterLoopRuns ==
  ASSUME NEW S \in CandidateSets, NEW s \in Orders(S), NEW m
  PROVE  \E best : IsEvictLoop(best, s, Cardinality(S), {k \in S : m[k] # 0}, m)
                 /\ MeterLoop(m, s) = best[Cardinality(S)]
<1> DEFINE N == Cardinality(S)
           H == {k \in S : m[k] # 0}
           Body(f) == [i \in 1 .. Len(s) |->
                         IF i = 1 THEN s[1]
                         ELSE IF m[s[i]] # 0 /\ m[s[i]] < m[f[i - 1]] THEN s[i] ELSE f[i - 1]]
           best == CHOOSE f : f = Body(f)
<1>1. s \in [1 .. N -> S] /\ Len(s) = N /\ N \in Nat \ {0}
  BY Zenon, OrderIsSequence
<1>2. MeterLoop(m, s) = best[Len(s)]
  BY Zenon DEF MeterLoop
<1>3. \A i \in 1 .. N : s[i] \in H <=> m[s[i]] # 0
  BY Zenon, <1>1
<1> HIDE DEF N, H
<1>4. \E f : f = Body(f)
  <2>1. PICK f \in [1 .. N -> S] : IsEvictLoop(f, s, N, H, m)
    BY Zenon, <1>1, EvictLoopExists
  <2>2. \A i \in 1 .. N : i = 1 \/ i \in 2 .. N
    BY <1>1
  <2>3. f = Body(f)
    BY <1>1, <1>3, <2>1, <2>2 DEF IsEvictLoop
  <2> QED BY Zenon, <2>3
<1>5. best = Body(best)
  <2> HIDE DEF Body
  <2> QED BY Zenon, <1>4
<1> HIDE DEF best
<1>6. \A i \in 2 .. N : i \in 1 .. N /\ i # 1
  BY <1>1
<1>7. 1 \in 1 .. N
  BY <1>1
<1>8. IsEvictLoop(best, s, N, H, m)
  BY Zenon, <1>1, <1>3, <1>5, <1>6, <1>7 DEF IsEvictLoop
<1> QED BY Zenon, <1>1, <1>2, <1>8 DEF N, H

(* It returns a key without an entry or one with a least entry.            *)
LEMMA MeterLoopResults ==
  ASSUME NEW S \in CandidateSets, NEW m \in Meters
  PROVE  {MeterLoop(m, s) : s \in Orders(S)} = LeastVictims(m, S)
<1> DEFINE H == {k \in S : m[k] # 0}
           Loop == [s \in Orders(S) |-> MeterLoop(m, s)]
<1>1. \A k \in S : m[k] \in Nat
  BY Zenon DEF CandidateSets, Meters
<1>2. ReturnsLeast(Loop, S, H, m)
  <2>1. H \in SUBSET S /\ \A k \in S : m[k] \in Int
    BY <1>1
  <2>2. RunsEvictLoop(Loop, S, H, m)
    BY Zenon, MeterLoopRuns DEF RunsEvictLoop
  <2> HIDE DEF H, Loop
  <2> QED BY ONLY Zenon, S \in CandidateSets, <2>1, <2>2, EvictLoopResults
<1>3. {Loop[s] : s \in Orders(S)} = {MeterLoop(m, s) : s \in Orders(S)}
  BY Zenon
<1>4. {k \in S : \A j \in H : m[k] <= m[j]} = LeastVictims(m, S)
  BY <1>1 DEF LeastVictims, Recorded
<1> QED BY Zenon, <1>2, <1>3, <1>4 DEF ReturnsLeast

(* w has the time a candidate has left at t, as TTLPolicy.Evict sees it.   *)
IsTimeLeft(w, S, t) == \A k \in S : w[k] = IF deadline[k] = None THEN 0 ELSE deadline[k] - t

(* TTLPolicy.Evict runs as described above, with the time left.            *)
LEMMA TTLLoopRuns ==
  ASSUME NEW S \in CandidateSets, NEW s \in Orders(S), NEW t, NEW w, IsTimeLeft(w, S, t)
  PROVE  \E best : IsEvictLoop(best, s, Cardinality(S), {k \in S : deadline[k] # None}, w)
                 /\ TTLLoop(s, t) = best[Cardinality(S)]
<1> DEFINE N == Cardinality(S)
           H == {k \in S : deadline[k] # None}
           ttl(k) == IF deadline[k] = None THEN 0 ELSE deadline[k] - t
           Body(f) == [i \in 1 .. Len(s) |->
                         IF i = 1 THEN s[1]
                         ELSE IF deadline[s[i]] # None /\ ttl(s[i]) < ttl(f[i - 1]) THEN s[i] ELSE f[i - 1]]
           best == CHOOSE f : f = Body(f)
<1>1. s \in [1 .. N -> S] /\ Len(s) = N /\ N \in Nat \ {0}
  BY Zenon, OrderIsSequence
<1>2. TTLLoop(s, t) = best[Len(s)]
  BY Zenon DEF TTLLoop
<1>3. \A i \in 1 .. N : s[i] \in H <=> deadline[s[i]] # None
  BY Zenon, <1>1
<1>4. \A k \in S : w[k] = ttl(k)
  BY Zenon DEF IsTimeLeft
<1> HIDE DEF N, H, ttl
<1>5. \A i \in 2 .. N : i \in 1 .. N /\ i - 1 \in 1 .. N /\ i # 1
  BY <1>1
<1>6. 1 \in 1 .. N /\ \A i \in 1 .. N : i = 1 \/ i \in 2 .. N
  BY <1>1
<1>7. \E f : f = Body(f)
  <2>1. PICK f \in [1 .. N -> S] : IsEvictLoop(f, s, N, H, w)
    BY Zenon, <1>1, EvictLoopExists
  <2>2. \A i \in 2 .. N : w[f[i - 1]] = ttl(f[i - 1]) /\ w[s[i]] = ttl(s[i])
    BY Zenon, <1>1, <1>4, <1>5
  <2>3. f = Body(f)
    BY <1>1, <1>3, <1>5, <1>6, <2>1, <2>2 DEF IsEvictLoop
  <2> QED BY Zenon, <2>3
<1>8. best = Body(best)
  <2> HIDE DEF Body
  <2> QED BY Zenon, <1>7
<1> HIDE DEF best
<1>9. /\ best[1] = s[1]
      /\ \A i \in 2 .. N : best[i] = IF deadline[s[i]] # None /\ ttl(s[i]) < ttl(best[i - 1])
                                    THEN s[i] ELSE best[i - 1]
  BY Zenon, <1>1, <1>5, <1>6, <1>8
<1>10. \A i \in 2 .. N : w[best[i - 1]] = ttl(best[i - 1]) /\ w[s[i]] = ttl(s[i])
  <2>1. N \in Nat /\ \A i \in 2 .. N : best[i] \in {s[i], best[i - 1]}
    BY Zenon, <1>1, <1>9
  <2>2. \A i \in 1 .. N : best[i] \in S
    BY ONLY Zenon, <1>1, <1>9, <2>1, HoldsCandidate
  <2> QED BY Zenon, <1>1, <1>4, <1>5, <2>2
<1>11. IsEvictLoop(best, s, N, H, w)
  BY Zenon, <1>3, <1>5, <1>9, <1>10 DEF IsEvictLoop
<1> QED BY Zenon, <1>1, <1>2, <1>11 DEF N, H

(* It returns a key with the nearest deadline, or a key that has lost its  *)
(* own if no deadline is over.                                             *)
LEMMA TTLLoopResults ==
  ASSUME NEW S \in CandidateSets, deadline \in [Keys -> Int \cup {None}], NEW t \in Int
  PROVE  {TTLLoop(s, t) : s \in Orders(S)} = TTLEvict(S, deadline, t)
<1> DEFINE H == {k \in S : deadline[k] # None}
           w == [k \in S |-> IF deadline[k] = None THEN 0 ELSE deadline[k] - t]
           Loop == [s \in Orders(S) |-> TTLLoop(s, t)]
<1>1. \A k \in S : deadline[k] \in Int \/ deadline[k] = None
  BY Zenon DEF CandidateSets
<1>2. None \notin Int
  BY Zenon, KeysAssumption
<1>3. H \in SUBSET S /\ \A k \in S : w[k] \in Int
  BY <1>1
<1>4. ReturnsLeast(Loop, S, H, w)
  <2>1. RunsEvictLoop(Loop, S, H, w)
    <3>1. IsTimeLeft(w, S, t)
      BY Zenon DEF IsTimeLeft
    <3> HIDE DEF w
    <3>2. ASSUME NEW s \in Orders(S)
          PROVE  \E best : IsEvictLoop(best, s, Cardinality(S), H, w) /\ TTLLoop(s, t) = best[Cardinality(S)]
      BY ONLY Zenon, S \in CandidateSets, s \in Orders(S), <3>1, TTLLoopRuns
    <3> QED BY Zenon, <3>2 DEF RunsEvictLoop
  <2> HIDE DEF H, Loop, w
  <2> QED BY ONLY Zenon, S \in CandidateSets, <1>3, <2>1, EvictLoopResults
<1>5. {Loop[s] : s \in Orders(S)} = {TTLLoop(s, t) : s \in Orders(S)}
  BY Zenon
<1>6. {k \in S : \A j \in H : w[k] <= w[j]} = TTLEvict(S, deadline, t)
  <2>1. ASSUME NEW k \in S, NEW j \in H
        PROVE  w[k] <= w[j] <=> IF k \in H THEN deadline[k] <= deadline[j] ELSE deadline[j] >= t
    <3>1. /\ w[j] = deadline[j] - t /\ deadline[j] \in Int
          /\ k \in H => w[k] = deadline[k] - t /\ deadline[k] \in Int
          /\ k \notin H => w[k] = 0
      BY Zenon, <1>1
    <3> HIDE DEF H, w
    <3> QED BY ONLY <3>1, t \in Int
  <2>2. TTLEvict(S, deadline, t) = {k \in H : \A j \in H : deadline[k] <= deadline[j]}
                                   \cup {k \in S \ H : \A j \in H : deadline[j] >= t}
    BY Zenon DEF TTLEvict
  <2> HIDE DEF w
  <2>3. H \subseteq S
    BY Zenon
  <2> HIDE DEF H
  <2> QED BY Zenon, <2>1, <2>2, <2>3
<1> QED BY Zenon, <1>4, <1>5, <1>6 DEF ReturnsLeast

(* What the counts and deadlines are. *)
EntriesOK == freq \in Meters /\ deadline \in [Keys -> Int \cup {None}]

(* For any keys, and whatever Record, Delete and deadlines came before:    *)
(* the loops of LRU's, LFU's and volatile-ttl's Evict return, over the     *)
(* orders in which Go may range over the candidates, exactly the keys      *)
(* TTLStore chooses its victim from.                                       *)
THEOREM EvictReturnsVictims == LoopSpec => []VictimsAreLoopResults
<1>1. LoopInit => EntriesOK
  BY DEF LoopInit, EntriesOK, Meters
<1>2. EntriesOK /\ [LoopNext]_loopVars => EntriesOK'
  <2> SUFFICES ASSUME EntriesOK, [LoopNext]_loopVars PROVE EntriesOK'
    BY Zenon
  <2>1. ASSUME NEW k \in Keys, RecordKey(k) PROVE EntriesOK'
    BY <2>1 DEF RecordKey, LFURecord, EntriesOK, Meters
  <2>2. ASSUME NEW k \in Keys, DeleteKey(k) PROVE EntriesOK'
    BY <2>2 DEF DeleteKey, LFUDelete, EntriesOK, Meters
  <2>3. ASSUME NEW k \in Keys, NEW d \in (0 .. MaxTTL) \cup {None}, SetDeadline(k, d) PROVE EntriesOK'
    <3>1. d \in Int \cup {None}
      BY LoopAssumption
    <3> QED BY Zenon, <2>3, <3>1 DEF SetDeadline, EntriesOK
  <2>4. CASE UNCHANGED loopVars
    BY Zenon, <2>4 DEF loopVars, EntriesOK
  <2> QED BY Zenon, <2>1, <2>2, <2>3, <2>4 DEF LoopNext
<1>3. EntriesOK /\ LoopInv => VictimsAreLoopResults
  <2> SUFFICES ASSUME EntriesOK, LoopInv, NEW S \in CandidateSets
               PROVE  /\ {LRULoop(s) : s \in Orders(S)} = LRUEvict(rank, S)
                      /\ {LFULoop(s) : s \in Orders(S)} = LFUEvict(freq, S)
                      /\ \A t \in 0 .. MaxTTL : {TTLLoop(s, t) : s \in Orders(S)} = TTLEvict(S, deadline, t)
    BY Zenon DEF VictimsAreLoopResults
  <2>1. \A s : LRULoop(s) = MeterLoop(access, s) /\ LFULoop(s) = MeterLoop(freq, s)
    BY Zenon DEF LRULoop, LFULoop, MeterLoop
  <2>2. LeastVictims(access, S) = LeastVictims(rank, S)
    <3>1. \A j, k \in S : /\ rank[j] = 0 <=> access[j] = 0
                          /\ rank[j] < rank[k] <=> access[j] < access[k]
                          /\ rank[j] \in Nat /\ access[j] \in Nat
      BY Zenon DEF LoopInv, RanksOrderAccess, Meters, CandidateSets
    <3> QED BY <3>1 DEF LeastVictims, Recorded
  <2>3. {LRULoop(s) : s \in Orders(S)} = LRUEvict(rank, S)
    <3>1. {MeterLoop(access, s) : s \in Orders(S)} = LeastVictims(access, S)
      BY Zenon, MeterLoopResults DEF LoopInv
    <3>2. {LRULoop(s) : s \in Orders(S)} = {MeterLoop(access, s) : s \in Orders(S)}
      BY Zenon, <2>1
    <3> QED BY Zenon, <2>2, <3>1, <3>2 DEF LRUEvict
  <2>4. {LFULoop(s) : s \in Orders(S)} = LFUEvict(freq, S)
    <3>1. {MeterLoop(freq, s) : s \in Orders(S)} = LeastVictims(freq, S)
      BY Zenon, MeterLoopResults DEF EntriesOK
    <3>2. {LFULoop(s) : s \in Orders(S)} = {MeterLoop(freq, s) : s \in Orders(S)}
      BY Zenon, <2>1
    <3> QED BY Zenon, <3>1, <3>2 DEF LFUEvict
  <2>5. ASSUME NEW t \in 0 .. MaxTTL PROVE {TTLLoop(s, t) : s \in Orders(S)} = TTLEvict(S, deadline, t)
    <3>1. t \in Int
      BY LoopAssumption
    <3> QED BY Zenon, <3>1, TTLLoopResults DEF EntriesOK
  <2> QED BY Zenon, <2>3, <2>4, <2>5
<1> QED BY <1>1, <1>2, <1>3, LoopInvariant, PTL DEF LoopSpec

-----------------------------------------------------------------------------
(* What TTLStore promises a program with one client goroutine, which does  *)
(* not hold when several run: the limit and the count of the keys and the  *)
(* survival of the client's own write.  The sweeper runs beside the client *)
(* wherever keys have deadlines.                                           *)

(* The key limit, for a single client and the sweeper.                     *)

AllKeysPolicies == {"allkeys-lru", "allkeys-lfu", "allkeys-random"}

(* How far over the limit a client can be at each step.  The candidates    *)
(* may be stale, but only the sweeper can have removed one since.          *)
LimitInv(c) ==
  /\ Cardinality(allKeys) <= MaxKeys + 1
  /\ pc[c] \notin {"record", "limit", "candidates", "evict", "untrack"} =>
       Cardinality(allKeys) <= MaxKeys
  /\ pc[c] = "evict" => allKeys \subseteq cands[c] /\ Cardinality(cands[c]) <= MaxKeys + 1
  /\ pc[c] = "untrack" => Cardinality(allKeys) <= MaxKeys \/ target[c] \in allKeys

(* What the cardinalities of sets of keys do. *)
LEMMA KeySets ==
  ASSUME NEW S \in SUBSET Keys, NEW k \in Keys, NEW T \in SUBSET S
  PROVE  /\ Cardinality(S) \in Nat
         /\ Cardinality(T) <= Cardinality(S)
         /\ k \in S \ T => Cardinality(T) <= Cardinality(S) - 1
         /\ Cardinality(S \cup {k}) <= Cardinality(S) + 1
<1>1. IsFiniteSet(S) /\ IsFiniteSet(S \ {k})
  BY Zenon, KeysAssumption, FS_Subset
<1>2. Cardinality(S) \in Nat /\ Cardinality(T) <= Cardinality(S)
  BY Zenon, <1>1, FS_CardinalityType, FS_Subset
<1>3. ASSUME k \in S \ T PROVE Cardinality(T) <= Cardinality(S) - 1
  <2>1. Cardinality(S \ {k}) = Cardinality(S) - 1
    BY Zenon, <1>1, <1>3, FS_RemoveElement
  <2>2. Cardinality(T) <= Cardinality(S \ {k})
    BY Zenon, <1>1, <1>3, FS_Subset
  <2> QED BY Zenon, <2>1, <2>2
<1>4. Cardinality(S \cup {k}) <= Cardinality(S) + 1
  <2>1. Cardinality(S \cup {k}) = IF k \in S THEN Cardinality(S) ELSE Cardinality(S) + 1
    BY ONLY Zenon, <1>1, FS_AddElement
  <2> QED BY ONLY <1>2, <2>1
<1> QED BY Zenon, <1>2, <1>3, <1>4

(* The only client's steps, and the sweeper's, preserve LimitInv. *)
LEMMA LimitStep ==
  ASSUME NEW c, Clients = {c}, Policy \in AllKeysPolicies, EmptyKey \notin Keys, MaxKeys > 0,
         TypeOK, LimitInv(c), [Next]_vars
  PROVE  LimitInv(c)'
<1> USE TTLAssumption
<1>t. /\ allKeys \subseteq Keys /\ Cardinality(allKeys) \in Nat
      /\ pc \in [Clients -> Labels] /\ cands \in [Clients -> SUBSET Keys]
      /\ pc[c] # "idle" => call[c].key \in Keys
      /\ pc[c] \in {"untrack", "forget", "remove"} => target[c] \in Keys
      /\ target \in [Clients -> Keys \cup {None}]
  BY Zenon, KeysAssumption, KeySets, FS_Subset, FS_CardinalityType DEF TypeOK, ClientTypeOK
<1>s. ASSUME NEW T \in SUBSET allKeys
      PROVE  /\ Cardinality(T) \in Nat /\ Cardinality(T) <= Cardinality(allKeys)
             /\ \A k \in allKeys \ T : Cardinality(T) <= Cardinality(allKeys) - 1
  <2>1. allKeys \in SUBSET Keys /\ IsFiniteSet(allKeys) /\ IsFiniteSet(T)
    BY ONLY Zenon, <1>t, KeysAssumption, FS_Subset
  <2>2. \A k \in allKeys \ T : Cardinality(T) <= Cardinality(allKeys) - 1
    BY ONLY Zenon, <1>t, <2>1, KeySets
  <2>3. Cardinality(T) \in Nat /\ Cardinality(T) <= Cardinality(allKeys)
    BY ONLY Zenon, <2>1, FS_Subset, FS_CardinalityType
  <2> QED BY ONLY Zenon, <2>2, <2>3
<1>m. MaxKeys \in Nat /\ c \in Clients
  OBVIOUS
<1> USE <1>t DEF LimitInv, Goto, Return, At, Call, innerVars, metaVars, clientVars, sweepVars
<1>1. CASE Track(c)
  <2>1. /\ pc[c] = "track" /\ pc'[c] = "record" /\ call[c].key \in Keys
        /\ allKeys' = allKeys \cup {call[c].key}
    BY Zenon, <1>1 DEF Track
  <2>2. Cardinality(allKeys') <= Cardinality(allKeys) + 1
    BY ONLY Zenon, <1>t, <2>1, KeySets
  <2>3. Cardinality(allKeys) <= MaxKeys
    BY Zenon, <2>1
  <2>4. Cardinality(allKeys') \in Nat
    BY ONLY <1>t, <2>1, KeysAssumption, FS_Subset, FS_CardinalityType
  <2>5. Cardinality(allKeys') <= MaxKeys + 1
    BY ONLY <1>m, <1>t, <2>2, <2>3, <2>4
  <2> QED BY ONLY Zenon, <2>1, <2>5 DEF LimitInv
<1>2. CASE CheckLimit(c)
  <2>1. /\ pc[c] = "limit" /\ allKeys' = allKeys
        /\ pc'[c] = "candidates" \/ (pc'[c] = "idle" /\ ~(Cardinality(allKeys) > MaxKeys))
    BY Zenon, <1>2 DEF CheckLimit, OverLimit
  <2> QED BY ONLY LimitInv(c), <1>m, <1>t, <2>1 DEF LimitInv
<1>3. CASE Candidates(c)
  <2>1. CandidateKeys = allKeys
    BY Zenon DEF CandidateKeys, AllKeysPolicies
  <2>2. CASE CandidateKeys = {}
    <3>1. Cardinality(allKeys) = 0
      BY Zenon, <2>1, <2>2, FS_EmptySet
    <3>2. pc'[c] = "idle" /\ allKeys' = allKeys
      BY Zenon, <1>3, <2>2 DEF Candidates
    <3> QED BY ONLY <1>m, <3>1, <3>2 DEF LimitInv
  <2>3. CASE CandidateKeys # {}
    <3>1. pc'[c] = "evict" /\ allKeys' = allKeys /\ cands'[c] = allKeys
      BY Zenon, <1>3, <2>1, <2>3 DEF Candidates
    <3> QED BY ONLY Zenon, LimitInv(c), <3>1 DEF LimitInv
  <2> QED BY Zenon, <2>2, <2>3
<1>4. CASE ChooseVictim(c)
  <2>1. PICK k \in PolicyEvict(Policy, meter, cands[c], expireAt, now) :
          \/ /\ k # EmptyKey
             /\ target' = [target EXCEPT ![c] = k]
             /\ Goto(c, "untrack")
             /\ UNCHANGED <<exp, cands>>
          \/ k = EmptyKey /\ Return(c, Nothing)
    BY Zenon, <1>4 DEF ChooseVictim
  <2>2. k \in cands[c] /\ k # EmptyKey /\ k \in Keys
    BY <2>1 DEF PolicyEvict, AllKeysPolicies, LRUEvict, LFUEvict, LeastVictims, RandomEvict
  <2>3. k \in allKeys \/ Cardinality(allKeys) <= MaxKeys
    <3>1. k \notin allKeys => Cardinality(allKeys) <= Cardinality(cands[c]) - 1
      BY Zenon, <1>4, <2>2, KeySets DEF ChooseVictim
    <3>2. Cardinality(cands[c]) \in Nat
      BY ZenonT(40), KeySets, <2>2
    <3>3. Cardinality(cands[c]) <= MaxKeys + 1
      BY ZenonT(40), <1>4 DEF ChooseVictim
    <3> QED BY ONLY <3>1, <3>2, <3>3, <1>m, Cardinality(allKeys) \in Nat
  <2> QED BY Zenon, <1>4, <2>1, <2>2, <2>3 DEF ChooseVictim
<1>5. CASE Untrack(c)
  <2>1. pc[c] = "untrack" /\ pc'[c] = "forget" /\ allKeys' = allKeys \ {target[c]}
    BY Zenon, <1>5 DEF Untrack, UntrackKey
  <2>2. /\ Cardinality(allKeys') \in Nat /\ Cardinality(allKeys') <= Cardinality(allKeys)
        /\ target[c] \in allKeys => Cardinality(allKeys') <= Cardinality(allKeys) - 1
    BY ONLY Zenon, <1>s, <2>1
  <2> QED BY ONLY LimitInv(c), <1>m, <1>t, <2>1, <2>2 DEF LimitInv
<1>6. ASSUME NEW k \in Keys, Del(c, k) PROVE LimitInv(c)'
  <2>1. pc[c] = "idle" /\ pc'[c] = "forget" /\ allKeys' = allKeys \ {k}
    BY Zenon, <1>6 DEF Del, UntrackKey
  <2>2. Cardinality(allKeys') \in Nat /\ Cardinality(allKeys') <= Cardinality(allKeys)
    BY ONLY Zenon, <1>s, <2>1
  <2> QED BY ONLY LimitInv(c), <1>m, <1>t, <2>1, <2>2 DEF LimitInv
<1>7. CASE Sweep
  <2>1. UNCHANGED <<pc, cands, target>> /\ allKeys' \in SUBSET allKeys
    BY Zenon, <1>7 DEF Sweep
  <2>2. /\ Cardinality(allKeys') \in Nat /\ Cardinality(allKeys') <= Cardinality(allKeys)
        /\ \A k \in allKeys \ allKeys' : Cardinality(allKeys') <= Cardinality(allKeys) - 1
    BY ONLY Zenon, <1>s, <2>1
  <2> QED BY ONLY LimitInv(c), <1>m, <1>t, <2>1, <2>2 DEF LimitInv
<1>8. CASE \/ SetAfterDeadline(c) \/ TrackRecord(c) \/ UntrackForget(c) \/ Remove(c)
           \/ CheckExpired(c) \/ Touch(c) \/ ReadInner(c) \/ Arm(c) \/ Remaining(c)
  <2>1. /\ pc[c] \in {"set", "record", "forget", "remove", "check", "touch", "read", "arm", "remaining"}
        /\ allKeys' = allKeys
        /\ pc[c] = "record" => pc'[c] = "limit"
        /\ pc'[c] # "evict" /\ (pc'[c] = "untrack" => pc[c] = "check")
    BY ZenonT(60), <1>8 DEF SetAfterDeadline, TrackRecord, UntrackForget, Remove, CheckExpired, Touch,
                     ReadInner, Arm, Remaining
  <2> QED BY ONLY Zenon, LimitInv(c), <2>1 DEF LimitInv
<1>9. ASSUME Begin(c), ~\E k \in Keys : Del(c, k) PROVE LimitInv(c)'
  <2>1. /\ pc[c] = "idle" /\ allKeys' = allKeys
        /\ pc'[c] \in {"idle", "track", "set", "check", "arm", "remaining"}
    BY ZenonT(60), <1>9 DEF Begin, Set, SetWithTTL, HSet, Read, Expire, TTL
  <2> QED BY ONLY Zenon, LimitInv(c), <2>1 DEF LimitInv
<1>10. CASE (\E k \in Keys : SweepForget(k)) \/ SweepRemove \/ Close \/ SweepExit \/ Tick
            \/ UNCHANGED vars
  BY Zenon, <1>10 DEF SweepForget, SweepRemove, Close, SweepExit, Tick, vars
<1> QED BY Zenon, <1>1, <1>2, <1>3, <1>4, <1>5, <1>6, <1>7, <1>8, <1>9, <1>10
    DEF Next, Continue, SweepStep

(* With one client the limit of SetEvictionPolicy is kept, whatever the    *)
(* sweeper does meanwhile, under every policy that may evict any key and   *)
(* unless "" is used as a key.                                             *)
THEOREM SingleClientLimit ==
  ASSUME NEW c, Clients = {c}, Policy \in AllKeysPolicies, EmptyKey \notin Keys, MaxKeys > 0
  PROVE  Spec => []KeyLimit
<1>1. Init => LimitInv(c)
  BY TTLAssumption, FS_EmptySet DEF Init, LimitInv
<1>2. TypeOK /\ LimitInv(c) /\ [Next]_vars => LimitInv(c)'
  BY Zenon, LimitStep
<1>3. LimitInv(c) => KeyLimit
  BY Zenon DEF LimitInv, KeyLimit, Quiet
<1> QED BY <1>1, <1>2, <1>3, TypeCorrect, PTL DEF Spec

-----------------------------------------------------------------------------
(* The gauge of KeyCount, for a single client that sets no deadline.       *)

(* Nothing can expire: no key has a deadline and no sweep is under way. *)
NoDeadlineInv(c) ==
  /\ \A k \in Keys : expireAt[k] = None
  /\ pending = {} /\ sweeping = None
  /\ exp[c] = None
  /\ pc[c] \notin {"set", "arm"}

(* allKeys is the set of the stored keys but for the key of the write that *)
(* is not tracked yet, or of the removal that is not finished.             *)
CountInv(c) ==
  /\ pc[c] = "track" => Inner!Present(call[c].key)
  /\ pc[c] \in {"forget", "remove"} => target[c] \notin allKeys
  /\ \A k \in Keys :
       \/ pc[c] = "track" /\ k = call[c].key
       \/ pc[c] \in {"forget", "remove"} /\ k = target[c]
       \/ k \in allKeys <=> Inner!Present(k)

(* Without durations no step sets a deadline, and the sweeper finds no key. *)
LEMMA NoDeadlineStep ==
  ASSUME NEW c, Clients = {c}, TTLs = {}, TypeOK, NoDeadlineInv(c), [Next]_vars
  PROVE  NoDeadlineInv(c)'
<1> USE TTLAssumption
<1>t. /\ pc \in [Clients -> Labels] /\ exp \in [Clients -> Deadlines]
      /\ expireAt \in [Keys -> Deadlines] /\ None \notin Keys
      /\ pc[c] \in {"untrack", "forget", "remove"} => target[c] \in Keys
  BY Zenon DEF TypeOK, ClientTypeOK
<1> USE <1>t DEF NoDeadlineInv, Goto, Return, At, Call, innerVars, metaVars, clientVars, sweepVars
<1>1. ASSUME Begin(c) PROVE NoDeadlineInv(c)'
  <2>1. PICK k \in Keys :
      \/ \E v \in Values : Set(c, k, v)
      \/ \E f \in Fields, v \in Values : HSet(c, k, f, v)
      \/ \E op \in {"Get", "HGetAll"} : Read(c, op, k, None)
      \/ \E f \in Fields : Read(c, "HGet", k, f)
      \/ Del(c, k)
      \/ TTL(c, k)
    BY Zenon, <1>1 DEF Begin
  <2>2. CASE Del(c, k)
    BY Zenon, <2>2 DEF Del, UntrackKey
  <2>3. CASE ~Del(c, k)
    BY Zenon, <2>1, <2>3 DEF Set, HSet, Read, TTL
  <2> QED BY Zenon, <2>2, <2>3
<1>2. CASE Untrack(c)
  BY Zenon, <1>2 DEF Untrack, UntrackKey
<1>3. CASE \/ SetAfterDeadline(c) \/ Track(c) \/ TrackRecord(c)
           \/ CheckLimit(c) \/ Candidates(c) \/ ChooseVictim(c)
           \/ UntrackForget(c) \/ Remove(c)
           \/ CheckExpired(c) \/ Touch(c) \/ ReadInner(c)
           \/ Arm(c) \/ Remaining(c)
  <2>1. /\ UNCHANGED <<expireAt, pending, sweeping>>
        /\ exp'[c] \in {exp[c], None}
        /\ pc'[c] \notin {"set", "arm"}
    BY ZenonT(40), <1>3 DEF SetAfterDeadline, Track, TrackRecord, CheckLimit, Candidates, ChooseVictim,
         UntrackForget, Remove, CheckExpired, Touch, ReadInner, Arm, Remaining
  <2> QED BY Zenon, <2>1
<1>4. ~SweepStep
  BY Zenon DEF SweepStep, Sweep, SweepForget, SweepRemove, Overdue
<1>5. CASE Close \/ SweepExit \/ Tick \/ UNCHANGED vars
  BY Zenon, <1>5 DEF Close, SweepExit, Tick, vars
<1> QED BY Zenon, <1>1, <1>2, <1>3, <1>4, <1>5 DEF Next, Continue

(* With one client and nothing that expires, only the client's own current *)
(* operation can make allKeys and the stored keys differ.                  *)
LEMMA CountStep ==
  ASSUME NEW c, Clients = {c}, TypeOK, NoDeadlineInv(c), CountInv(c), [Next]_vars
  PROVE  CountInv(c)'
<1> USE TTLAssumption
<1>t. /\ pc \in [Clients -> Labels] /\ call \in [Clients -> Calls]
      /\ target \in [Clients -> Keys \cup {None}] /\ allKeys \subseteq Keys
      /\ strings \in [Keys -> Values \cup {None}]
      /\ hashes \in [Keys -> [Fields -> Values \cup {None}]]
      /\ pc[c] # "idle" => call[c].key \in Keys
      /\ pc[c] \in {"untrack", "forget", "remove"} => target[c] \in Keys
      /\ None \notin Values /\ c \in Clients
  BY Zenon DEF TypeOK, ClientTypeOK, Inner!StoreTypeOK, Inner!Slot
<1> USE <1>t DEF Goto, Return, At, Call, innerVars, metaVars, clientVars, sweepVars
<1>w. ASSUME NEW k \in Keys,
             pc[c] = "idle", pc'[c] = "track", call'[c].key = k, allKeys' = allKeys,
             Inner!Present(k)', \A j \in Keys \ {k} : Inner!Present(j)' <=> Inner!Present(j)
      PROVE  CountInv(c)'
  BY ONLY Zenon, CountInv(c), <1>w DEF CountInv
<1>1. ASSUME NEW k \in Keys, NEW v \in Values, Set(c, k, v) PROVE CountInv(c)'
  <2>1. pc[c] = "idle" /\ pc'[c] = "track" /\ call'[c].key = k /\ allKeys' = allKeys
    BY Zenon, <1>1 DEF Set
  <2>2. /\ Inner!Present(k)'
        /\ \A j \in Keys \ {k} : Inner!Present(j)' <=> Inner!Present(j)
    BY Zenon, <1>1 DEF Set, Inner!Set, Inner!Present, Inner!EmptyHash
  <2> QED BY ONLY Zenon, k \in Keys, <1>w, <2>1, <2>2
<1>2. ASSUME NEW k \in Keys, NEW f \in Fields, NEW v \in Values, HSet(c, k, f, v) PROVE CountInv(c)'
  <2>1. pc[c] = "idle" /\ pc'[c] = "track" /\ call'[c].key = k /\ allKeys' = allKeys
    BY Zenon, <1>2 DEF HSet
  <2>2. /\ Inner!Present(k)'
        /\ \A j \in Keys \ {k} : Inner!Present(j)' <=> Inner!Present(j)
    <3>1. hashes'[k][f] = v /\ v # None
      BY Zenon, <1>2 DEF HSet, Inner!HSet
    <3>2. \A j \in Keys \ {k} : hashes'[j] = hashes[j] /\ strings'[j] = strings[j]
      BY Zenon, <1>2 DEF HSet, Inner!HSet
    <3>3. hashes'[k] # Inner!EmptyHash
      BY Zenon, <3>1 DEF Inner!EmptyHash
    <3> QED BY Zenon, <3>2, <3>3 DEF Inner!Present, Inner!EmptyHash
  <2> QED BY ONLY Zenon, k \in Keys, <1>w, <2>1, <2>2
<1>p. ASSUME UNCHANGED <<strings, hashes>>
      PROVE  \A k \in Keys : Inner!Present(k)' <=> Inner!Present(k)
  BY Zenon, <1>p DEF Inner!Present, Inner!EmptyHash
<1>3. CASE Track(c)
  <2>1. /\ pc[c] = "track" /\ pc'[c] = "record" /\ call'[c] = call[c]
        /\ allKeys' = allKeys \cup {call[c].key} /\ UNCHANGED <<strings, hashes>>
    BY Zenon, <1>3 DEF Track
  <2> QED BY ONLY Zenon, CountInv(c), <1>t, <1>p, <2>1 DEF CountInv
<1>4. ASSUME NEW k \in Keys, Del(c, k) PROVE CountInv(c)'
  <2>1. /\ pc[c] = "idle" /\ pc'[c] = "forget" /\ target'[c] = k
        /\ allKeys' = allKeys \ {k} /\ UNCHANGED <<strings, hashes>>
    BY Zenon, <1>4 DEF Del, UntrackKey
  <2> QED BY ONLY Zenon, CountInv(c), <1>t, <1>p, <2>1, k \in Keys DEF CountInv
<1>5. CASE Untrack(c)
  <2>1. /\ pc[c] = "untrack" /\ pc'[c] = "forget" /\ target'[c] = target[c]
        /\ allKeys' = allKeys \ {target[c]} /\ UNCHANGED <<strings, hashes>>
    BY Zenon, <1>5 DEF Untrack, UntrackKey
  <2> QED BY ONLY Zenon, CountInv(c), <1>t, <1>p, <2>1 DEF CountInv
<1>6. CASE UntrackForget(c)
  <2>1. /\ pc[c] = "forget" /\ pc'[c] = "remove" /\ target'[c] = target[c]
        /\ UNCHANGED <<allKeys, strings, hashes>>
    BY Zenon, <1>6 DEF UntrackForget
  <2> QED BY ONLY Zenon, CountInv(c), <1>t, <1>p, <2>1 DEF CountInv
<1>7. CASE Remove(c)
  <2>1. pc[c] = "remove" /\ pc'[c] = "idle" /\ allKeys' = allKeys
    BY Zenon, <1>7 DEF Remove
  <2>2. PICK k \in Keys : k = target[c]
    BY Zenon, <2>1
  <2>3. /\ ~Inner!Present(k)'
        /\ \A j \in Keys \ {k} : Inner!Present(j)' <=> Inner!Present(j)
    BY Zenon, <1>7, <2>2 DEF Remove, Inner!Del, Inner!Present, Inner!EmptyHash
  <2> QED BY ONLY Zenon, CountInv(c), <2>1, <2>2, <2>3 DEF CountInv
<1>q. ASSUME pc[c] \notin {"track", "forget", "remove"}, pc'[c] \notin {"track", "forget", "remove"},
             UNCHANGED <<allKeys, strings, hashes>>
      PROVE  CountInv(c)'
  BY ONLY Zenon, CountInv(c), <1>q, <1>p DEF CountInv
<1>8. ASSUME Begin(c), \A k \in Keys : /\ ~Del(c, k)
                                       /\ \A v \in Values : ~Set(c, k, v)
                                       /\ \A f \in Fields, v \in Values : ~HSet(c, k, f, v)
      PROVE  CountInv(c)'
  <2>1. /\ pc[c] \notin {"track", "forget", "remove"} /\ pc'[c] \notin {"track", "forget", "remove"}
        /\ UNCHANGED <<allKeys, strings, hashes>>
    BY ZenonT(60), <1>8 DEF Begin, SetWithTTL, Read, Expire, TTL
  <2> QED BY ONLY Zenon, <1>q, <2>1
<1>9. CASE \/ TrackRecord(c) \/ CheckLimit(c) \/ Candidates(c) \/ ChooseVictim(c)
           \/ CheckExpired(c) \/ Touch(c) \/ ReadInner(c) \/ Remaining(c)
  <2>1. /\ pc[c] \notin {"track", "forget", "remove"} /\ pc'[c] \notin {"track", "forget", "remove"}
        /\ UNCHANGED <<allKeys, strings, hashes>>
    BY ZenonT(40), <1>9 DEF TrackRecord, CheckLimit, Candidates, ChooseVictim, CheckExpired, Touch,
         ReadInner, Remaining
  <2> QED BY ONLY Zenon, <1>q, <2>1
<1>10. ~SweepStep /\ ~SetAfterDeadline(c) /\ ~Arm(c)
  BY Zenon DEF NoDeadlineInv, SweepStep, Sweep, SweepForget, SweepRemove, Overdue, SetAfterDeadline, Arm
<1>11. CASE Close \/ SweepExit \/ Tick \/ UNCHANGED vars
  <2>1. UNCHANGED <<allKeys, strings, hashes, pc, call, target>>
    BY Zenon, <1>11 DEF Close, SweepExit, Tick, vars
  <2> QED BY ONLY Zenon, CountInv(c), <1>p, <1>t, <2>1 DEF CountInv
<1> QED BY ZenonT(40), <1>1, <1>2, <1>3, <1>4, <1>5, <1>6, <1>7, <1>8, <1>9, <1>10, <1>11 DEF Next, Continue

(* With one client that sets no deadline the gauge fed by KeyCount counts  *)
(* exactly the stored keys whenever no call is in progress, under every    *)
(* policy and limit: every write is tracked and every removal, eviction    *)
(* included, untracks.                                                     *)
THEOREM SingleClientCount ==
  ASSUME NEW c, Clients = {c}, TTLs = {}
  PROVE  Spec => []KeyCountExact
<1>1. Init => NoDeadlineInv(c) /\ CountInv(c)
  BY TTLAssumption DEF Init, NoDeadlineInv, CountInv, Inner!Init, Inner!Present
<1>2. TypeOK /\ NoDeadlineInv(c) /\ CountInv(c) /\ [Next]_vars => NoDeadlineInv(c)' /\ CountInv(c)'
  BY Zenon, NoDeadlineStep, CountStep
<1>3. TypeOK /\ CountInv(c) => KeyCountExact
  BY Zenon DEF CountInv, KeyCountExact, Quiet, TypeOK
<1> QED BY <1>1, <1>2, <1>3, TypeCorrect, PTL DEF Spec

-----------------------------------------------------------------------------
(* Eviction spares the key just written, for a single client.              *)

(* Under LRU the key of a write is the newest once it is recorded. *)
RankInv(c) ==
  /\ Ranked(meter)
  /\ pc[c] \in {"limit", "candidates", "evict"} =>
       \A j \in Keys \ {call[c].key} : meter[j] < meter[call[c].key]

(* When eviction chooses, it has a candidate besides the key just written, *)
(* and all its candidates are stored.                                      *)
EvictInv(c) ==
  /\ pc[c] = "candidates" => \E j \in allKeys : j # call[c].key
  /\ pc[c] = "evict" => /\ Policy # "volatile-ttl"
                        /\ cands[c] \subseteq allKeys
                        /\ \E j \in cands[c] : j # call[c].key

(* The value of the last Set is stored from its write until the next call. *)
SpareInv(c) ==
  call[c].op = "Set" =>
    /\ strings[call[c].key] = call[c].val
    /\ pc[c] \in {"untrack", "forget", "remove"} => target[c] # call[c].key

(* Record and Delete keep the ranks, and only track's Record leads to the  *)
(* check of the limit.                                                     *)
LEMMA RankStep ==
  ASSUME NEW c, Clients = {c}, Policy = "allkeys-lru", TypeOK, NoDeadlineInv(c), RankInv(c),
         [Next]_vars
  PROVE  RankInv(c)'
<1> USE TTLAssumption
<1>t. /\ pc \in [Clients -> Labels] /\ call \in [Clients -> Calls] /\ meter \in Meters
      /\ pc[c] # "idle" => call[c].key \in Keys
      /\ pc[c] \in {"untrack", "forget", "remove"} => target[c] \in Keys
      /\ c \in Clients
  BY Zenon DEF TypeOK, ClientTypeOK, Meters
<1> USE <1>t DEF Goto, Return, At, Call, innerVars, metaVars, clientVars, sweepVars
<1>1. CASE TrackRecord(c) \/ Touch(c)
  <2>1. PICK k \in Keys : k = call[c].key
    BY Zenon, <1>1 DEF TrackRecord, Touch
  <2>2. meter' = LRURecord(meter, k)
    BY Zenon, <1>1, <2>1 DEF TrackRecord, Touch, PolicyRecord
  <2>3. Ranked(meter) /\ call'[c].key = k
    BY Zenon, <1>1, <2>1 DEF RankInv, TrackRecord, Touch
  <2>4. Ranked(meter') /\ \A j \in Keys \ {k} : meter'[j] < meter'[k]
    BY ONLY Zenon, <1>t, <2>2, <2>3, k \in Keys, RecordRanks
  <2> QED BY ONLY Zenon, <2>3, <2>4 DEF RankInv, Ranked
<1>2. CASE UntrackForget(c)
  <2>1. PICK k \in Keys : k = target[c]
    BY Zenon, <1>2 DEF UntrackForget
  <2>2. meter' = LRUDelete(meter, k) /\ pc'[c] = "remove"
    BY Zenon, <1>2, <2>1 DEF UntrackForget, PolicyDelete
  <2>3. Ranked(meter')
    BY ONLY Zenon, RankInv(c), <1>t, <2>2, k \in Keys, DeleteRanks DEF RankInv
  <2> QED BY ONLY Zenon, <2>2, <2>3 DEF RankInv, Ranked
<1>q. ASSUME meter' = meter,
             pc'[c] \in {"limit", "candidates", "evict"} =>
               pc[c] \in {"limit", "candidates", "evict"} /\ call'[c] = call[c]
      PROVE  RankInv(c)'
  BY ONLY Zenon, RankInv(c), <1>q DEF RankInv, Ranked, Recorded
<1>3. ASSUME Begin(c) PROVE RankInv(c)'
  <2>1. meter' = meter /\ pc'[c] \notin {"limit", "candidates", "evict"}
    BY ZenonT(60), <1>3 DEF Begin, Set, SetWithTTL, HSet, Read, Del, Expire, TTL
  <2> QED BY ONLY Zenon, <1>q, <2>1
<1>4. CASE \/ SetAfterDeadline(c) \/ Track(c) \/ CheckLimit(c) \/ Candidates(c) \/ ChooseVictim(c)
           \/ Untrack(c) \/ Remove(c) \/ CheckExpired(c) \/ ReadInner(c) \/ Arm(c) \/ Remaining(c)
  <2>1. /\ meter' = meter /\ call' = call
        /\ pc'[c] \in {"limit", "candidates", "evict"} => pc[c] \in {"limit", "candidates", "evict"}
    BY ZenonT(40), <1>4 DEF SetAfterDeadline, Track, CheckLimit, Candidates, ChooseVictim, Untrack,
         Remove, CheckExpired, ReadInner, Arm, Remaining
  <2> QED BY ONLY Zenon, <1>q, <2>1
<1>5. ~SweepStep
  BY Zenon DEF NoDeadlineInv, SweepStep, Sweep, SweepForget, SweepRemove, Overdue
<1>6. CASE Close \/ SweepExit \/ Tick \/ UNCHANGED vars
  <2>1. UNCHANGED <<meter, pc, call>>
    BY Zenon, <1>6 DEF Close, SweepExit, Tick, vars
  <2> QED BY ONLY Zenon, <1>q, <2>1
<1> QED BY Zenon, <1>1, <1>2, <1>3, <1>4, <1>5, <1>6 DEF Next, Continue

(* More than MaxKeys keys, with a limit of at least one, are two keys. *)
LEMMA OverLimitOther ==
  ASSUME OverLimit, allKeys \subseteq Keys, NEW k
  PROVE  \E j \in allKeys : j # k
<1>1. MaxKeys \in Nat /\ MaxKeys > 0 /\ Cardinality(allKeys) > MaxKeys
  BY Zenon, TTLAssumption DEF OverLimit
<1>2. ASSUME \A j \in allKeys : j = k PROVE FALSE
  <2>1. allKeys \subseteq {k}
    BY Zenon, <1>2
  <2>2. IsFiniteSet({k}) /\ Cardinality({k}) = 1
    BY Zenon, FS_Singleton
  <2>3. Cardinality(allKeys) <= 1 /\ Cardinality(allKeys) \in Nat
    BY <2>1, <2>2, FS_Subset, FS_CardinalityType
  <2> QED BY <1>1, <2>3
<1> QED BY Zenon, <1>2

(* The limit is only exceeded with two keys, and the candidates are read   *)
(* from allKeys, which nobody else changes.                                *)
LEMMA EvictStep ==
  ASSUME NEW c, Clients = {c}, TypeOK, NoDeadlineInv(c), EvictInv(c), [Next]_vars
  PROVE  EvictInv(c)'
<1> USE TTLAssumption
<1>t. /\ pc \in [Clients -> Labels] /\ call \in [Clients -> Calls]
      /\ cands \in [Clients -> SUBSET Keys] /\ allKeys \subseteq Keys
      /\ c \in Clients
  BY Zenon DEF TypeOK, ClientTypeOK
<1> USE <1>t DEF Goto, Return, At, Call, innerVars, metaVars, clientVars, sweepVars
<1>q. ASSUME pc'[c] \notin {"candidates", "evict"} PROVE EvictInv(c)'
  BY ONLY Zenon, <1>q DEF EvictInv
<1>1. CASE CheckLimit(c)
  <2>1. /\ allKeys' = allKeys /\ call' = call
        /\ (pc'[c] = "candidates" /\ OverLimit) \/ pc'[c] = "idle"
    BY Zenon, <1>1 DEF CheckLimit
  <2> QED BY ONLY <1>t, <2>1, OverLimitOther DEF EvictInv
<1>2. CASE Candidates(c)
  <2>1. CASE CandidateKeys # {}
    <3>1. /\ pc[c] = "candidates" /\ pc'[c] = "evict"
          /\ allKeys' = allKeys /\ call' = call /\ cands'[c] = CandidateKeys
      BY Zenon, <1>2, <2>1 DEF Candidates
    <3>2. Policy # "volatile-ttl" /\ CandidateKeys = allKeys
      BY Zenon, <2>1 DEF CandidateKeys, NoDeadlineInv
    <3> QED BY ONLY Zenon, EvictInv(c), <3>1, <3>2 DEF EvictInv
  <2>2. CASE CandidateKeys = {}
    <3>1. pc'[c] = "idle"
      BY Zenon, <1>2, <2>2 DEF Candidates
    <3> QED BY ONLY Zenon, <1>q, <3>1
  <2> QED BY Zenon, <2>1, <2>2
<1>3. ASSUME Begin(c) PROVE EvictInv(c)'
  <2>1. pc'[c] \notin {"candidates", "evict"}
    BY ZenonT(60), <1>3 DEF Begin, Set, SetWithTTL, HSet, Read, Del, Expire, TTL
  <2> QED BY ONLY Zenon, <1>q, <2>1
<1>4. CASE \/ SetAfterDeadline(c) \/ Track(c) \/ TrackRecord(c) \/ ChooseVictim(c)
           \/ Untrack(c) \/ UntrackForget(c) \/ Remove(c)
           \/ CheckExpired(c) \/ Touch(c) \/ ReadInner(c) \/ Arm(c) \/ Remaining(c)
  <2>1. pc'[c] \notin {"candidates", "evict"}
    BY ZenonT(40), <1>4 DEF SetAfterDeadline, Track, TrackRecord, ChooseVictim, Untrack, UntrackForget,
         Remove, CheckExpired, Touch, ReadInner, Arm, Remaining
  <2> QED BY ONLY Zenon, <1>q, <2>1
<1>5. ~SweepStep
  BY Zenon DEF NoDeadlineInv, SweepStep, Sweep, SweepForget, SweepRemove, Overdue
<1>6. CASE Close \/ SweepExit \/ Tick \/ UNCHANGED vars
  <2>1. UNCHANGED <<allKeys, pc, call, cands>>
    BY Zenon, <1>6 DEF Close, SweepExit, Tick, vars
  <2> QED BY ONLY Zenon, EvictInv(c), <2>1 DEF EvictInv
<1> QED BY Zenon, <1>1, <1>2, <1>3, <1>4, <1>5, <1>6 DEF Next, Continue

(* The policies under which a write is never undone by its own eviction:   *)
(* LFU may find the new key the least used, and random may hit it.         *)
SparingPolicies == {"none", "allkeys-lru", "volatile-ttl"}

OwnInv(c) ==
  /\ NoDeadlineInv(c) /\ CountInv(c) /\ EvictInv(c) /\ SpareInv(c)
  /\ Policy = "allkeys-lru" => RankInv(c)

(* The victim is not the key just written: all candidates have an entry in *)
(* the policy's map, and another one has an older entry.                   *)
LEMMA VictimIsOther ==
  ASSUME NEW c, Clients = {c}, Policy \in SparingPolicies, SafetyInv, OwnInv(c), pc[c] = "evict",
         NEW k \in PolicyEvict(Policy, meter, cands[c], expireAt, now), k # EmptyKey
  PROVE  k # call[c].key
<1> USE TTLAssumption
<1>t. /\ cands[c] \subseteq Keys /\ meter \in [Keys -> Nat] /\ None \notin Keys
      /\ call[c].key \in Keys
  BY Zenon DEF SafetyInv, TypeOK, ClientTypeOK
<1>1. Policy = "allkeys-lru"
  BY Zenon DEF SparingPolicies, OwnInv, EvictInv, PolicyEvict
<1>2. k \in LeastVictims(meter, cands[c])
  BY Zenon, <1>1 DEF PolicyEvict, LRUEvict
<1>3. \A j \in cands[c] : meter[j] > 0
  <2> SUFFICES ASSUME NEW j \in cands[c] PROVE meter[j] > 0
    OBVIOUS
  <2>1. Inner!Present(j)
    BY Zenon, <1>t DEF OwnInv, EvictInv, CountInv
  <2>2. ~WillRecord(j) /\ ~RemovesNext(j)
    BY Zenon, <1>t DEF WillRecord, RemovesNext, OwnInv, NoDeadlineInv
  <2> QED BY Zenon, <1>1, <1>t, <2>1, <2>2 DEF SafetyInv, RecordInv
<1>4. PICK j \in cands[c] : j # call[c].key
  BY Zenon DEF OwnInv, EvictInv
<1>5. meter[j] < meter[call[c].key]
  BY Zenon, <1>1, <1>t, <1>4 DEF OwnInv, RankInv
<1>6. meter[k] <= meter[j]
  BY <1>2, <1>3 DEF LeastVictims, Recorded
<1> QED BY SMTT(30), <1>t, <1>5, <1>6

(* No step after a Set's write touches its key before the next call. *)
LEMMA SpareStep ==
  ASSUME NEW c, Clients = {c}, Policy \in SparingPolicies, SafetyInv, OwnInv(c), [Next]_vars
  PROVE  SpareInv(c)'
<1> USE TTLAssumption
<1>t. /\ pc \in [Clients -> Labels] /\ call \in [Clients -> Calls]
      /\ target \in [Clients -> Keys \cup {None}]
      /\ strings \in [Keys -> Values \cup {None}]
      /\ pc[c] # "idle" => call[c].key \in Keys
      /\ pc[c] \in {"untrack", "forget", "remove"} => target[c] \in Keys
      /\ c \in Clients
  BY Zenon DEF SafetyInv, TypeOK, ClientTypeOK, Inner!StoreTypeOK, Inner!Slot
<1>i. SpareInv(c) /\ NoDeadlineInv(c)
  BY Zenon DEF OwnInv
<1> USE <1>t DEF Goto, Return, At, Call, innerVars, metaVars, clientVars, sweepVars
<1>1. ASSUME NEW k \in Keys, NEW v \in Values, Set(c, k, v) PROVE SpareInv(c)'
  <2>1. call'[c].key = k /\ call'[c].val = v /\ pc'[c] = "track" /\ strings'[k] = v
    BY Zenon, <1>1 DEF Set, Inner!Set
  <2> QED BY ONLY Zenon, <2>1 DEF SpareInv
<1>2. ASSUME Begin(c), \A k \in Keys, v \in Values : ~Set(c, k, v) PROVE SpareInv(c)'
  <2> USE DEF SetWithTTL, HSet, Read, Del, Expire, TTL
  <2>1. ASSUME NEW k \in Keys, NEW v \in Values, NEW d \in TTLs, SetWithTTL(c, k, v, d)
        PROVE  call'[c].op = "SetWithTTL"
    BY Zenon, <2>1
  <2>2. ASSUME NEW k \in Keys, NEW f \in Fields, NEW v \in Values, HSet(c, k, f, v)
        PROVE  call'[c].op = "HSet"
    BY Zenon, <2>2
  <2>3. ASSUME NEW k \in Keys, NEW op, NEW f, Read(c, op, k, f) PROVE call'[c].op = op
    BY Zenon, <2>3
  <2>4. ASSUME NEW k \in Keys, Del(c, k) PROVE call'[c].op = "Del"
    BY Zenon, <2>4
  <2>5. ASSUME NEW k \in Keys, NEW d \in TTLs, Expire(c, k, d) PROVE call'[c].op = "Expire"
    BY Zenon, <2>5
  <2>6. ASSUME NEW k \in Keys, TTL(c, k) PROVE call'[c].op = "TTL"
    BY Zenon, <2>6
  <2>7. call'[c].op \in Methods \ {"Set"}
    <3> HIDE DEF SetWithTTL, HSet, Read, Del, Expire, TTL
    <3> QED BY ZenonT(40), <1>2, <2>1, <2>2, <2>3, <2>4, <2>5, <2>6 DEF Begin, Methods
  <2> QED BY ONLY Zenon, <2>7 DEF SpareInv
<1>3. CASE ChooseVictim(c)
  <2>1. PICK k \in PolicyEvict(Policy, meter, cands[c], expireAt, now) :
          \/ /\ k # EmptyKey
             /\ target' = [target EXCEPT ![c] = k]
             /\ Goto(c, "untrack")
             /\ UNCHANGED <<exp, cands>>
          \/ k = EmptyKey /\ Return(c, Nothing)
    BY Zenon, <1>3 DEF ChooseVictim
  <2>2. pc[c] = "evict" /\ UNCHANGED <<call, strings>>
    BY Zenon, <1>3 DEF ChooseVictim
  <2>3. CASE k # EmptyKey
    <3>1. k # call[c].key
      BY Zenon, <2>2, <2>3, VictimIsOther
    <3>2. target'[c] = k
      BY Zenon, <2>1, <2>3
    <3> QED BY ONLY Zenon, <1>i, <2>2, <3>1, <3>2 DEF SpareInv
  <2>4. CASE k = EmptyKey
    <3>1. pc'[c] = "idle"
      BY Zenon, <2>1, <2>4
    <3> QED BY ONLY Zenon, <1>i, <2>2, <3>1 DEF SpareInv
  <2> QED BY Zenon, <2>3, <2>4
<1>4. CASE Remove(c)
  <2>1. pc[c] = "remove" /\ pc'[c] = "idle" /\ call' = call
    BY Zenon, <1>4 DEF Remove
  <2>2. \A j \in Keys \ {target[c]} : strings'[j] = strings[j]
    BY Zenon, <1>4 DEF Remove, Inner!Del
  <2> QED BY ONLY Zenon, <1>i, <1>t, <2>1, <2>2 DEF SpareInv
<1>5. CASE CheckExpired(c)
  <2>1. UNCHANGED <<call, strings>> /\ pc'[c] = "touch"
    BY Zenon, <1>5, <1>i DEF CheckExpired, Overdue, NoDeadlineInv
  <2> QED BY ONLY Zenon, <1>i, <2>1 DEF SpareInv
<1>6. CASE \/ Track(c) \/ TrackRecord(c) \/ CheckLimit(c) \/ Candidates(c)
           \/ Touch(c) \/ ReadInner(c) \/ Remaining(c)
  <2>1. UNCHANGED <<call, strings>> /\ pc'[c] \notin {"untrack", "forget", "remove"}
    BY ZenonT(60), <1>6 DEF Track, TrackRecord, CheckLimit, Candidates, Touch, ReadInner, Remaining
  <2> QED BY ONLY Zenon, <1>i, <2>1 DEF SpareInv
<1>7. CASE Untrack(c) \/ UntrackForget(c)
  <2>1. UNCHANGED <<call, strings, target>> /\ pc[c] \in {"untrack", "forget"}
    BY Zenon, <1>7 DEF Untrack, UntrackForget
  <2> QED BY ONLY Zenon, <1>i, <2>1 DEF SpareInv
<1>8. ~SweepStep /\ ~SetAfterDeadline(c) /\ ~Arm(c)
  BY Zenon, <1>i DEF NoDeadlineInv, SweepStep, Sweep, SweepForget, SweepRemove, Overdue, SetAfterDeadline, Arm
<1>9. CASE Close \/ SweepExit \/ Tick \/ UNCHANGED vars
  <2>1. UNCHANGED <<call, strings, target, pc>>
    BY Zenon, <1>9 DEF Close, SweepExit, Tick, vars
  <2> QED BY ONLY Zenon, <1>i, <2>1 DEF SpareInv
<1> QED BY Zenon, <1>1, <1>2, <1>3, <1>4, <1>5, <1>6, <1>7, <1>8, <1>9 DEF Next, Continue

(* With one client that sets no deadline, the value of a Set that has      *)
(* returned is stored until the client's next call, whatever the limit:    *)
(* under LRU eviction never takes the key just written, no policy evicts   *)
(* nothing, and volatile-ttl has no candidates.                            *)
THEOREM SingleClientOwnWrite ==
  ASSUME NEW c, Clients = {c}, TTLs = {}, Policy \in SparingPolicies
  PROVE  Spec => []OwnWriteSurvives
<1>1. Init => OwnInv(c)
  <2> SUFFICES ASSUME Init PROVE OwnInv(c)
    OBVIOUS
  <2>1. NoDeadlineInv(c) /\ CountInv(c) /\ EvictInv(c) /\ SpareInv(c)
    BY Zenon, NoMethod, TTLAssumption
    DEF Init, NoDeadlineInv, CountInv, EvictInv, SpareInv, Inner!Init, Inner!Present, NoCall, Methods
  <2>2. RankInv(c)
    <3>1. Recorded(meter, Keys) = {} /\ pc[c] = "idle" /\ \A k \in Keys : meter[k] = 0
      BY DEF Init, Recorded
    <3>2. Cardinality(Recorded(meter, Keys)) = 0
      BY Zenon, <3>1, FS_EmptySet
    <3> QED BY ONLY SMTT(30), <3>1, <3>2 DEF RankInv, Ranked
  <2> QED BY Zenon, <2>1, <2>2 DEF OwnInv
<1>2. SafetyInv /\ OwnInv(c) /\ [Next]_vars => OwnInv(c)'
  BY Zenon, NoDeadlineStep, CountStep, EvictStep, RankStep, SpareStep DEF OwnInv, SafetyInv
<1>3. OwnInv(c) => OwnWriteSurvives
  BY Zenon DEF OwnInv, SpareInv, OwnWriteSurvives
<1> QED BY <1>1, <1>2, <1>3, SafetyInvariant, PTL DEF Spec
=============================================================================
