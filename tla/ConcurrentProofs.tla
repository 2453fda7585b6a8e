-------------------------- MODULE ConcurrentProofs --------------------------
(***************************************************************************)
(* What ConcurrentStores promises of the lock-free, the sharded, the       *)
(* sync.Map and the CRDT store, for any clients, keys and values, any      *)
(* assignment of keys to buckets and shards and any number of replicas.    *)
(***************************************************************************)
EXTENDS ConcurrentStores, TLAPS

-----------------------------------------------------------------------------
(* The lock-free store, on its own.                                        *)

(* A method's change keeps the type of a bucket. *)
LEMMA ChangedType ==
  ASSUME NEW b \in BucketData, NEW m \in Calls
  PROVE  Changed(b, m) \in BucketData
BY DEF BucketData, Calls, Changed, Maybe, NoHash

(* The types of the buckets and of the writers' local variables. *)
THEOREM TypeCorrect == Spec => []TypeOK
<1>1. Init => TypeOK
  BY DEF Init, TypeOK, EmptyBucket, BucketData, Maybe, NoHash
<1>2. TypeOK /\ [Next]_vars => TypeOK'
  <2> SUFFICES ASSUME TypeOK, [Next]_vars PROVE TypeOK'
    OBVIOUS
  <2> USE LockFreeAssumption DEF TypeOK
  <2>1. ASSUME NEW c \in Clients, NEW m \in Calls, Start(c, m) PROVE TypeOK'
    BY Zenon, <2>1 DEF Start
  <2>2. ASSUME NEW c \in Clients, Load(c) PROVE TypeOK'
    <3>1. call[c] \in Calls /\ call[c].key \in Keys
      BY Zenon, <2>2 DEF Load, Calls
    <3> QED BY Zenon, <2>2, <3>1 DEF Load
  <2>3. ASSUME NEW c \in Clients, Swap(c) PROVE TypeOK'
    <3>1. call[c] \in Calls /\ Changed(old[c], call[c]) \in BucketData
      BY Zenon, <2>3, ChangedType DEF Swap
    <3> QED BY Zenon, <2>3, <3>1 DEF Swap
  <2>4. ASSUME NEW c \in Clients, Retry(c) PROVE TypeOK'
    BY Zenon, <2>4 DEF Retry
  <2>5. CASE UNCHANGED vars
    BY Zenon, <2>5 DEF vars
  <2> QED BY Zenon, <2>1, <2>2, <2>3, <2>4, <2>5 DEF Next, Step
<1> QED BY <1>1, <1>2, PTL DEF Spec

(* The number of a pointer only grows, and identifies the bucket. *)
LEMMA SwapStep ==
  ASSUME TypeOK, NEW c \in Clients, Swap(c), NEW s \in Slots
  PROVE  buckets'[s] = buckets[s] \/ buckets'[s].id = buckets[s].id + 1
BY Zenon, LockFreeAssumption DEF TypeOK, Swap, Changed, BucketData

(* A writer that swaps has cloned the bucket it replaces. *)
THEOREM SwapIsFresh == Spec => []NoStaleSwap
<1>1. Init => NoStaleSwap
  BY Zenon DEF Init, NoStaleSwap
<1>2. TypeOK /\ TypeOK' /\ NoStaleSwap /\ [Next]_vars => NoStaleSwap'
  <2> SUFFICES ASSUME TypeOK, TypeOK', NoStaleSwap, [Next]_vars, NEW d \in Clients, pc'[d] = "cas"
               PROVE  LET b == buckets'[slotOf[call'[d].key]]
                      IN  /\ old'[d].id <= b.id
                          /\ old'[d].id = b.id => old'[d] = b
    BY Zenon DEF NoStaleSwap
  <2> USE LockFreeAssumption DEF TypeOK
  <2>k. call'[d].key \in Keys /\ slotOf[call'[d].key] \in Slots
    BY Zenon DEF Calls
  <2>t. \A s \in Slots : buckets[s].id \in Nat /\ buckets'[s].id \in Nat
    BY Zenon DEF BucketData
  <2>o. old[d].id \in Nat /\ old'[d].id \in Nat
    BY Zenon DEF BucketData
  <2>1. ASSUME NEW c \in Clients, NEW m \in Calls, Start(c, m)
        PROVE  pc[d] = "cas" /\ call'[d] = call[d] /\ UNCHANGED <<buckets, old>>
    BY Zenon, <2>1 DEF Start
  <2>2. ASSUME NEW c \in Clients, Load(c)
        PROVE  /\ UNCHANGED <<buckets, call>>
               /\ \/ c = d /\ old'[d] = buckets[slotOf[call[d].key]]
                  \/ pc[d] = "cas" /\ old'[d] = old[d]
    BY Zenon, <2>2 DEF Load
  <2>3. ASSUME NEW c \in Clients, Swap(c)
        PROVE  /\ pc[d] = "cas" /\ UNCHANGED <<call, old>>
               /\ \A s \in Slots : buckets'[s] = buckets[s] \/ buckets'[s].id = buckets[s].id + 1
    <3>1. pc[d] = "cas" /\ UNCHANGED <<call, old>>
      BY Zenon, <2>3 DEF Swap
    <3> QED BY Zenon, <2>3, <3>1, SwapStep
  <2>4. ASSUME NEW c \in Clients, Retry(c)
        PROVE  pc[d] = "cas" /\ UNCHANGED <<buckets, call, old>>
    BY Zenon, <2>4 DEF Retry
  <2>5. CASE UNCHANGED vars
    BY Zenon, <2>5, <2>k, <2>t DEF vars, NoStaleSwap
  <2>6. ASSUME NEW c \in Clients, Swap(c)
        PROVE  LET b == buckets'[slotOf[call'[d].key]]
               IN  old'[d].id <= b.id /\ (old'[d].id = b.id => old'[d] = b)
    BY SMTT(30), <2>6, <2>3, <2>k, <2>t, <2>o DEF NoStaleSwap
  <2>7. ASSUME NEW c \in Clients, (\E m \in Calls : Start(c, m)) \/ Load(c) \/ Retry(c)
        PROVE  LET b == buckets'[slotOf[call'[d].key]]
               IN  old'[d].id <= b.id /\ (old'[d].id = b.id => old'[d] = b)
    BY SMTT(30), <2>7, <2>1, <2>2, <2>4, <2>k, <2>t, <2>o DEF NoStaleSwap
  <2> QED BY Zenon, <2>5, <2>6, <2>7 DEF Next, Step
<1> QED BY <1>1, <1>2, TypeCorrect, PTL DEF Spec

(* A successful swap is the whole call, as MapStore would make it. *)
LEMMA SwapIsCall ==
  ASSUME TypeOK, NoStaleSwap, NEW c \in Clients, Swap(c)
  PROVE  Abstract!Next
<1> DEFINE m == call[c]
           k == m.key
           s == slotOf[k]
<1> USE LockFreeAssumption
<1>1. m \in Calls /\ k \in Keys /\ s \in Slots /\ pc[c] = "cas"
  BY Zenon DEF TypeOK, Swap, Calls
<1>2. old[c] = buckets[s] /\ buckets[s] \in BucketData
  BY Zenon, <1>1 DEF TypeOK, NoStaleSwap, Swap
<1>3. buckets' = [buckets EXCEPT ![s] = Changed(buckets[s], m)] /\ buckets \in [Slots -> BucketData]
  BY Zenon, <1>2 DEF Swap, TypeOK
<1>4. ASSUME NEW j \in Keys, slotOf[j] # s
      PROVE  Get(j)' = Get(j) /\ HGetAll(j)' = HGetAll(j)
  BY Zenon, <1>3, <1>4 DEF Get, HGetAll
<1>5. buckets'[s] = Changed(buckets[s], m)
  BY Zenon, <1>1, <1>3
<1>6. CASE m.op = "Set"
  <2>1. m.val \in Values
    BY Zenon, <1>1, <1>6 DEF Calls
  <2>c. /\ buckets'[s].strings = [buckets[s].strings EXCEPT ![k] = m.val]
        /\ buckets'[s].hashes = buckets[s].hashes
    <3> HIDE DEF s, m, k
    <3> QED BY <1>5, <1>6 DEF Changed, k
  <2>2. \A j \in Keys : Get(j)' = IF j = k THEN m.val ELSE Get(j)
    <3>1. buckets[s].strings \in [Keys -> Maybe]
      BY Zenon, <1>2 DEF BucketData
    <3>2. \A j \in Keys \ {k} : buckets'[s].strings[j] = buckets[s].strings[j]
      BY Zenon, <2>c, <3>1
    <3>3. buckets'[s].strings[k] = m.val
      BY Zenon, <1>1, <2>c, <3>1
    <3> QED BY Zenon, <1>4, <3>2, <3>3 DEF Get
  <2>3. \A j \in Keys : HGetAll(j)' = HGetAll(j)
    BY Zenon, <1>4, <2>c DEF HGetAll
  <2>4. Abstract!Set(k, m.val)
    BY Zenon, <1>1, <2>2, <2>3 DEF Abstract!Set
  <2> QED BY Zenon, <1>1, <2>1, <2>4 DEF Abstract!Next
<1>7. CASE m.op = "HSet"
  <2>1. m.val \in Values /\ m.field \in Fields
    BY Zenon, <1>1, <1>7 DEF Calls
  <2>c. /\ buckets'[s].strings = buckets[s].strings
        /\ buckets'[s].hashes = [buckets[s].hashes EXCEPT ![k][m.field] = m.val]
    <3>1. m.op # "Set"
      BY Zenon, <1>7
    <3> HIDE DEF s, m, k
    <3> QED BY <1>5, <1>7, <3>1 DEF Changed, k
  <2>2. \A j \in Keys : Get(j)' = Get(j)
    BY Zenon, <1>4, <2>c DEF Get
  <2>3. \A j \in Keys : HGetAll(j)' = IF j = k THEN [HGetAll(k) EXCEPT ![m.field] = m.val] ELSE HGetAll(j)
    <3>1. buckets[s].hashes \in [Keys -> [Fields -> Maybe]]
      BY Zenon, <1>2 DEF BucketData
    <3>2. \A j \in Keys \ {k} : buckets'[s].hashes[j] = buckets[s].hashes[j]
      BY Zenon, <2>c, <3>1
    <3>3. buckets'[s].hashes[k] = [buckets[s].hashes[k] EXCEPT ![m.field] = m.val]
      BY Zenon, <1>1, <2>c, <3>1
    <3> QED BY Zenon, <1>4, <3>2, <3>3 DEF HGetAll
  <2>4. Abstract!HSet(k, m.field, m.val)
    BY Zenon, <1>1, <2>2, <2>3 DEF Abstract!HSet
  <2> QED BY Zenon, <1>1, <2>1, <2>4 DEF Abstract!Next
<1>8. CASE m.op = "Del"
  <2>c. /\ buckets'[s].strings = [buckets[s].strings EXCEPT ![k] = None]
        /\ buckets'[s].hashes = [buckets[s].hashes EXCEPT ![k] = NoHash]
    <3>1. m.op # "Set" /\ m.op # "HSet"
      BY Zenon, <1>8
    <3> HIDE DEF s, m, k
    <3> QED BY <1>5, <1>8, <3>1 DEF Changed, k
  <2>2. \A j \in Keys : Get(j)' = IF j = k THEN None ELSE Get(j)
    <3>1. buckets[s].strings \in [Keys -> Maybe]
      BY Zenon, <1>2 DEF BucketData
    <3>2. \A j \in Keys \ {k} : buckets'[s].strings[j] = buckets[s].strings[j]
      BY Zenon, <2>c, <3>1
    <3>3. buckets'[s].strings[k] = None
      BY Zenon, <1>1, <2>c, <3>1
    <3> QED BY Zenon, <1>4, <3>2, <3>3 DEF Get
  <2>3. \A j \in Keys : HGetAll(j)' = IF j = k THEN NoHash ELSE HGetAll(j)
    <3>1. buckets[s].hashes \in [Keys -> [Fields -> Maybe]]
      BY Zenon, <1>2 DEF BucketData
    <3>2. \A j \in Keys \ {k} : buckets'[s].hashes[j] = buckets[s].hashes[j]
      BY Zenon, <2>c, <3>1
    <3>3. buckets'[s].hashes[k] = NoHash
      BY Zenon, <1>1, <2>c, <3>1
    <3> QED BY Zenon, <1>4, <3>2, <3>3 DEF HGetAll
  <2>4. Abstract!Del(k)
    BY Zenon, <1>1, <2>2, <2>3 DEF Abstract!Del, Abstract!EmptyHash, NoHash
  <2> QED BY Zenon, <1>1, <2>4 DEF Abstract!Next
<1> QED BY Zenon, <1>1, <1>6, <1>7, <1>8 DEF Calls

(* The lock-free store is linearizable: every history of its buckets is a  *)
(* history of MapStore, whose methods are atomic.                          *)
THEOREM Linearizable == Spec => ImplementsMapStore
<1>1. Init => Abstract!Init
  <2> SUFFICES ASSUME Init PROVE Abstract!Init
    OBVIOUS
  <2>1. \A k \in Keys : Get(k) = None /\ HGetAll(k) = NoHash
    BY Zenon, LockFreeAssumption DEF Init, Get, HGetAll, EmptyBucket
  <2> QED BY Zenon, <2>1 DEF Abstract!Init, Abstract!EmptyHash, NoHash
<1>2. TypeOK /\ NoStaleSwap /\ [Next]_vars => [Abstract!Next]_(Abstract!storeVars)
  <2> SUFFICES ASSUME TypeOK, NoStaleSwap, [Next]_vars
               PROVE  [Abstract!Next]_(Abstract!storeVars)
    OBVIOUS
  <2>1. CASE \E c \in Clients : Swap(c)
    BY Zenon, <2>1, SwapIsCall
  <2>2. CASE UNCHANGED buckets
    BY Zenon, <2>2 DEF Abstract!storeVars, Get, HGetAll
  <2> QED BY Zenon, <2>1, <2>2 DEF Next, Step, Start, Load, Retry, vars
<1> QED BY <1>1, <1>2, TypeCorrect, SwapIsFresh, PTL DEF Spec, ImplementsMapStore, Abstract!Spec

-----------------------------------------------------------------------------
(* A process that runs one store leaves the state of the others alone, so  *)
(* each store only makes steps of its own module.                          *)

(* Whatever store the process runs, the shards only make ShardedStore's    *)
(* steps.                                                                  *)
LEMMA RunsSharded == ConcurrentSpec => Sharded!Spec
<1>1. BuildConcurrent => Sharded!Init
  BY Zenon DEF BuildConcurrent
<1>2. [RunConcurrent]_concurrentVars => [Sharded!Next]_shards
  BY Zenon DEF RunConcurrent, concurrentVars
<1> QED  BY <1>1, <1>2, PTL DEF ConcurrentSpec, Sharded!Spec

(* The sync.Map store only makes SyncMapStore's steps. *)
LEMMA RunsSync == ConcurrentSpec => Sync!Spec
<1>1. BuildConcurrent => Sync!Init
  BY Zenon DEF BuildConcurrent
<1>2. [RunConcurrent]_concurrentVars => [Sync!Next]_(Sync!syncVars)
  BY Zenon DEF RunConcurrent, concurrentVars, syncVars, Sync!syncVars
<1> QED  BY <1>1, <1>2, PTL DEF ConcurrentSpec, Sync!Spec

-----------------------------------------------------------------------------

(* Each shard has a slot for every key, used or not. *)
ShardsOK ==
  shards \in [0 .. shardCount - 1 ->
                [strings: [Keys -> Values \cup {None}],
                 hashes: [Keys -> [Fields -> Values \cup {None}]]]]

(* The shards keep their shape: no method adds or drops a shard. *)
LEMMA ShardsKeepShape == Sharded!Spec => []ShardsOK
<1> USE ConcurrentAssumption
<1>1. Sharded!Init => ShardsOK
  BY DEF Sharded!ShardedAssumption, Sharded!Init, ShardsOK, Sharded!NewShard, Sharded!Map!EmptyHash
<1>2. ShardsOK /\ [Sharded!Next]_shards => ShardsOK'
  <2> SUFFICES ASSUME ShardsOK, [Sharded!Next]_shards PROVE ShardsOK'
    OBVIOUS
  <2>1. ASSUME NEW k \in Keys, NEW v \in Values, Sharded!Set(k, v) PROVE ShardsOK'
    BY Zenon, <2>1 DEF Sharded!ShardedAssumption, Sharded!Set, ShardsOK
  <2>2. ASSUME NEW k \in Keys, Sharded!Del(k) PROVE ShardsOK'
    BY ZenonT(60), <2>2 DEF Sharded!ShardedAssumption, Sharded!Del, Sharded!Map!EmptyHash, ShardsOK
  <2>3. ASSUME NEW k \in Keys, NEW f \in Fields, NEW v \in Values, Sharded!HSet(k, f, v)
        PROVE  ShardsOK'
    BY ZenonT(60), <2>3 DEF Sharded!ShardedAssumption, Sharded!HSet, ShardsOK
  <2>4. CASE UNCHANGED shards
    BY Zenon, <2>4 DEF ShardsOK
  <2> QED  BY Zenon, <2>1, <2>2, <2>3, <2>4 DEF Sharded!Next
<1> QED  BY <1>1, <1>2, PTL DEF Sharded!Spec

(* What the methods find in the shards changes as a single map's contents. *)
THEOREM ShardedImplementsMap == ConcurrentSpec => ShardsAreOneMap
<1> USE ConcurrentAssumption
<1>1. Sharded!Init => Sharded!Map!Init
  BY DEF Sharded!ShardedAssumption, Sharded!Init, Sharded!NewShard, Sharded!Map!Init, Sharded!Map!EmptyHash
<1>2. ShardsOK /\ [Sharded!Next]_shards => [Sharded!Map!Next]_(Sharded!Map!storeVars)
  <2> SUFFICES ASSUME ShardsOK, [Sharded!Next]_shards PROVE [Sharded!Map!Next]_(Sharded!Map!storeVars)
    OBVIOUS
  <2> DEFINE str(j) == shards[shardOf[j]].strings[j]
             has(j) == shards[shardOf[j]].hashes[j]
  <2>1. ASSUME NEW k \in Keys, NEW v \in Values, Sharded!Set(k, v) PROVE Sharded!Map!Set(k, v)
    <3>1. \A j \in Keys : str(j)' = IF j = k THEN v ELSE str(j)
      BY <2>1 DEF Sharded!ShardedAssumption, Sharded!Set, ShardsOK
    <3>2. \A j \in Keys : has(j)' = has(j)
      BY Zenon, <2>1 DEF Sharded!ShardedAssumption, Sharded!Set, ShardsOK
    <3> QED  BY ONLY Zenon, <3>1, <3>2 DEF Sharded!Map!Set
  <2>2. ASSUME NEW k \in Keys, Sharded!Del(k) PROVE Sharded!Map!Del(k)
    <3>1. \A j \in Keys : str(j)' = IF j = k THEN None ELSE str(j)
      BY SMTT(30), <2>2 DEF Sharded!ShardedAssumption, Sharded!Del, ShardsOK
    <3>2. \A j \in Keys : has(j)' = IF j = k THEN Sharded!Map!EmptyHash ELSE has(j)
      BY SMTT(30), <2>2 DEF Sharded!ShardedAssumption, Sharded!Del, ShardsOK
    <3> QED  BY ONLY Zenon, <3>1, <3>2 DEF Sharded!Map!Del
  <2>3. ASSUME NEW k \in Keys, NEW f \in Fields, NEW v \in Values, Sharded!HSet(k, f, v)
        PROVE  Sharded!Map!HSet(k, f, v)
    <3>1. \A j \in Keys : has(j)' = IF j = k THEN [has(k) EXCEPT ![f] = v] ELSE has(j)
      BY <2>3 DEF Sharded!ShardedAssumption, Sharded!HSet, ShardsOK
    <3>2. \A j \in Keys : str(j)' = str(j)
      BY Zenon, <2>3 DEF Sharded!ShardedAssumption, Sharded!HSet, ShardsOK
    <3> QED  BY ONLY Zenon, <3>1, <3>2 DEF Sharded!Map!HSet
  <2>4. CASE UNCHANGED shards
    BY Zenon, <2>4 DEF Sharded!Map!storeVars
  <2> QED  BY Zenon, <2>1, <2>2, <2>3, <2>4 DEF Sharded!Next, Sharded!Map!Next
<1>3. Sharded!Spec => []ShardsOK
  BY Zenon, ShardsKeepShape
<1>4. Sharded!Spec => ShardsAreOneMap
  BY <1>1, <1>2, <1>3, PTL DEF Sharded!Spec, ShardsAreOneMap, Sharded!ShardsAreOneMap, Sharded!Map!Spec
<1> QED  BY Zenon, <1>4, RunsSharded

-----------------------------------------------------------------------------

(* WriteReachesHash with the types its proof needs. *)
WriteInv == Sync!TypeOK /\ Sync!WriteReachesHash

(* LoadOrStore finds or makes the map of a hash, and gives nobody's away. *)
LEMMA LoadOrStoreLinks ==
  ASSUME Sync!TypeOK, NEW h \in SyncKeys, NEW m \in Maps, Sync!LoadOrStore(h, m)
  PROVE  /\ link'[h] = m
         /\ \A k \in SyncKeys : link[k] # None => link'[k] = link[k]
         /\ link' \in [SyncKeys -> Maps \cup {None}]
         /\ content' \in [Maps -> [Fields -> Values \cup {None}]]
<1>1. None \notin Maps
  BY Zenon, ConcurrentAssumption DEF Sync!SyncMapAssumption
<1> QED  BY SMTT(30), <1>1 DEF Sync!TypeOK, Sync!LoadOrStore, Sync!NoFields

(* Every step keeps the types and leaves each HSet that no Del has cut off *)
(* with the map its hash is linked to.                                     *)
LEMMA WriteStep == WriteInv /\ [Sync!Next]_(Sync!syncVars) => WriteInv'
<1> SUFFICES ASSUME Sync!TypeOK, Sync!WriteReachesHash, [Sync!Next]_(Sync!syncVars)
             PROVE  Sync!TypeOK' /\ Sync!WriteReachesHash'
  BY Zenon DEF WriteInv
<1>1. ASSUME NEW c \in Clients, NEW k \in SyncKeys, NEW v \in Values, Sync!Set(c, k, v)
      PROVE  Sync!TypeOK' /\ Sync!WriteReachesHash'
  BY Zenon, <1>1 DEF Sync!Set, Sync!TypeOK, Sync!WriteReachesHash
<1>2. ASSUME NEW c \in Clients, NEW k \in SyncKeys, NEW v \in Values, NEW f \in Fields, Sync!HSet(c, k, f, v)
      PROVE  Sync!TypeOK' /\ Sync!WriteReachesHash'
  <2>1. PICK m \in Maps : Sync!LoadOrStore(k, m) /\ held' = [held EXCEPT ![c] = m]
    BY Zenon, <1>2 DEF Sync!HSet
  <2>2. /\ link'[k] = m
        /\ \A j \in SyncKeys : link[j] # None => link'[j] = link[j]
        /\ link' \in [SyncKeys -> Maps \cup {None}]
        /\ content' \in [Maps -> [Fields -> Values \cup {None}]]
    BY Zenon, <2>1, LoadOrStoreLinks
  <2>3. Sync!TypeOK'
    BY Zenon, <1>2, <2>1, <2>2 DEF Sync!HSet, Sync!TypeOK
  <2>4. Sync!WriteReachesHash'
    <3> SUFFICES ASSUME NEW d \in Clients, syncPc'[d] = "store", d \notin cut'
                 PROVE  link'[syncCall'[d].key] = held'[d]
      BY Zenon DEF Sync!WriteReachesHash
    <3>1. CASE d = c
      BY Zenon, <3>1, <1>2, <2>1, <2>2 DEF Sync!HSet, Sync!TypeOK
    <3>2. CASE d # c
      <4>1. syncPc[d] = "store" /\ d \notin cut /\ syncCall'[d] = syncCall[d] /\ held'[d] = held[d]
        BY Zenon, <3>2, <1>2, <2>1 DEF Sync!HSet, Sync!TypeOK
      <4>2. link[syncCall[d].key] = held[d] /\ syncCall[d].key \in SyncKeys /\ held[d] \in Maps
        BY Zenon, <4>1 DEF Sync!WriteReachesHash, Sync!TypeOK
      <4> QED  BY Zenon, <4>1, <4>2, <2>2, ConcurrentAssumption DEF Sync!SyncMapAssumption
    <3> QED  BY Zenon, <3>1, <3>2
  <2> QED  BY Zenon, <2>3, <2>4
<1>3. ASSUME NEW c \in Clients, Sync!StoreField(c) PROVE Sync!TypeOK' /\ Sync!WriteReachesHash'
  <2>1. Sync!WriteReachesHash'
    BY Zenon, <1>3 DEF Sync!StoreField, Sync!TypeOK, Sync!WriteReachesHash
  <2>2. content' \in [Maps -> [Fields -> Values \cup {None}]]
    BY Zenon, <1>3 DEF Sync!StoreField, Sync!TypeOK
  <2> QED  BY Zenon, <1>3, <2>1, <2>2 DEF Sync!StoreField, Sync!TypeOK
<1>4. ASSUME NEW c \in Clients, NEW k \in SyncKeys, Sync!Del(c, k)
      PROVE  Sync!TypeOK' /\ Sync!WriteReachesHash'
  <2>1. Sync!TypeOK'
    BY Zenon, <1>4 DEF Sync!Del, Sync!TypeOK
  <2>2. Sync!WriteReachesHash'
    BY Zenon, <1>4 DEF Sync!Del, Sync!TypeOK, Sync!WriteReachesHash
  <2> QED  BY Zenon, <2>1, <2>2
<1>5. ASSUME NEW c \in Clients, Sync!DeleteHash(c) PROVE Sync!TypeOK' /\ Sync!WriteReachesHash'
  BY Zenon, <1>5 DEF Sync!DeleteHash, Sync!Writing, Sync!TypeOK, Sync!WriteReachesHash
<1>6. CASE UNCHANGED Sync!syncVars
  BY Zenon, <1>6 DEF Sync!syncVars, Sync!TypeOK, Sync!WriteReachesHash
<1> QED  BY Zenon, <1>1, <1>2, <1>3, <1>4, <1>5, <1>6 DEF Sync!Next

(* A field HSet stores is found by HGet, unless a Del ran meanwhile. *)
THEOREM FieldIsNotLost == ConcurrentSpec => []WriteReachesHash
<1>1. Sync!Init => WriteInv
  BY DEF Sync!Init, WriteInv, Sync!TypeOK, Sync!WriteReachesHash, Sync!NoFields
<1>2. WriteInv => WriteReachesHash
  BY Zenon DEF WriteInv, WriteReachesHash
<1>3. WriteInv /\ [Sync!Next]_(Sync!syncVars) => WriteInv'
  BY Zenon, WriteStep
<1>4. Sync!Spec => []WriteReachesHash
  BY <1>1, <1>2, <1>3, PTL DEF Sync!Spec
<1> QED  BY Zenon, <1>4, RunsSync

-----------------------------------------------------------------------------
(* The replicas of CRDTStore.                                              *)

(* No entry is ahead of the clock of the store that holds it. *)
ClockCovers == \A r \in Replicas, k \in CRDTKeys : data[r][k].ts <= clock[r]

(* A Merge holds the RLocks of its source that it has taken. *)
SourceLocked ==
  \A p \in Mergers :
    /\ merge[p].phase = "data" => rlocks[merge[p].from][p] >= 1
    /\ merge[p].phase = "hashes" => rlocks[merge[p].from][p] >= 2

(* The inductive invariant: MergedIsPast needs a source that stands still. *)
CRDTInv == CRDT!TypeOK /\ ClockCovers /\ SourceLocked /\ CRDT!MergedIsPast

(* Put changes one entry. *)
LEMMA PutPointwise ==
  ASSUME CRDT!TypeOK, NEW r \in Replicas, NEW k \in CRDTKeys,
         NEW e \in [val: CRDTValues \cup {None}, ts: Nat], CRDT!Put(r, k, e)
  PROVE  /\ data' \in [Replicas -> [CRDTKeys -> [val: CRDTValues \cup {None}, ts: Nat]]]
         /\ \A s \in Replicas, j \in CRDTKeys : data'[s][j] = IF s = r /\ j = k THEN e ELSE data[s][j]
  BY Zenon DEF CRDT!Put, CRDT!TypeOK

(* PutIfNewer, used by SetWithTS and by Merge, changes one entry, and only *)
(* to a newer one, and leaves the clock at or past it.                     *)
LEMMA PutIfNewerEffect ==
  ASSUME CRDT!TypeOK, NEW r \in Replicas, NEW k \in CRDTKeys,
         NEW e \in [val: CRDTValues \cup {None}, ts: Nat], CRDT!PutIfNewer(r, k, e)
  PROVE  /\ data' \in [Replicas -> [CRDTKeys -> [val: CRDTValues \cup {None}, ts: Nat]]]
         /\ clock' \in [Replicas -> Nat]
         /\ \A s \in Replicas : clock'[s] >= clock[s]
         /\ clock'[r] >= e.ts
         /\ \A s \in Replicas, j \in CRDTKeys : s # r \/ j # k => data'[s][j] = data[s][j]
         /\ \/ data'[r][k] = data[r][k]
            \/ data'[r][k] = e /\ (data[r][k].val = None \/ e.ts > data[r][k].ts)
<1>1. /\ clock' \in [Replicas -> Nat]
      /\ \A s \in Replicas : clock'[s] >= clock[s]
      /\ clock'[r] >= e.ts
  BY DEF CRDT!PutIfNewer, CRDT!Witness, CRDT!TypeOK
<1>2. CASE CRDT!Newer(r, k, e.ts)
  <2>1. CRDT!Put(r, k, e)  BY Zenon, <1>2 DEF CRDT!PutIfNewer
  <2> QED  BY <1>1, <1>2, <2>1, PutPointwise DEF CRDT!Newer
<1>3. CASE ~CRDT!Newer(r, k, e.ts)
  <2>1. data' = data  BY Zenon, <1>3 DEF CRDT!PutIfNewer
  <2> QED  BY Zenon, <1>1, <2>1 DEF CRDT!TypeOK
<1> QED  BY Zenon, <1>2, <1>3

(* Steps that change entries of one store nobody reads, and no lock, keep  *)
(* the clocks ahead of entries and of what was merged.                     *)
LEMMA WriteKeepsOrder ==
  ASSUME CRDTInv, NEW r \in Replicas, NEW k \in CRDTKeys, CRDT!Free(r),
         data' \in [Replicas -> [CRDTKeys -> [val: CRDTValues \cup {None}, ts: Nat]]],
         clock' \in [Replicas -> Nat],
         \A s \in Replicas : clock'[s] >= clock[s],
         \A s \in Replicas, j \in CRDTKeys : s # r \/ j # k => data'[s][j] = data[s][j],
         data'[r][k].ts <= clock'[r],
         UNCHANGED <<rlocks, merge>>
  PROVE  ClockCovers' /\ SourceLocked' /\ CRDT!MergedIsPast'
<1> USE DEF CRDTInv
<1>1. ClockCovers'
  <2> SUFFICES ASSUME NEW s \in Replicas, NEW j \in CRDTKeys PROVE data'[s][j].ts <= clock'[s]
    BY Zenon DEF ClockCovers
  <2>1. data[s][j].ts <= clock[s] /\ data[s][j].ts \in Nat /\ clock[s] \in Nat /\ clock'[s] \in Nat
    BY DEF ClockCovers, CRDT!TypeOK
  <2> QED  BY <2>1
<1>2. SourceLocked'
  BY Zenon DEF SourceLocked
<1>3. CRDT!MergedIsPast'
  <2> SUFFICES ASSUME NEW p \in Mergers, NEW j \in CRDTKeys, CRDT!Merged(p, j)',
                      data'[merge'[p].from][j].val # None
               PROVE  data'[merge'[p].from][j].ts <= clock'[merge'[p].to]
    BY Zenon DEF CRDT!MergedIsPast
  <2>1. CRDT!Merged(p, j) /\ merge[p].from \in Replicas /\ merge[p].to \in Replicas
    BY Zenon DEF CRDT!Merged, CRDT!TypeOK
  <2>2. rlocks[merge[p].from][p] >= 1
    BY <2>1 DEF CRDT!Merged, SourceLocked, CRDT!TypeOK
  <2>3. merge[p].from # r
    BY <2>2 DEF CRDT!Free
  <2>4. data'[merge[p].from][j].ts <= clock[merge[p].to]
    BY Zenon, <2>1, <2>3 DEF CRDT!MergedIsPast
  <2> QED  BY <2>1, <2>4 DEF CRDT!TypeOK
<1> QED  BY Zenon, <1>1, <1>2, <1>3

(* A step on hashes alone keeps the invariant. *)
LEMMA FrameStep ==
  ASSUME CRDTInv, hashes' \in [Replicas -> [CRDTKeys -> [Fields -> CRDTValues \cup {None}]]],
         UNCHANGED <<data, clock, rlocks, merge>>
  PROVE  CRDTInv' /\ CRDT!OnlyNewerReplaces
  BY Zenon DEF CRDTInv, CRDT!TypeOK, ClockCovers, SourceLocked, CRDT!MergedIsPast, CRDT!Merged, CRDT!OnlyNewerReplaces

(* SetWithTS keeps the invariant and last-writer-wins. *)
LEMMA NewerStep ==
  ASSUME CRDTInv, NEW r \in Replicas, NEW k \in CRDTKeys, CRDT!Free(r),
         NEW e \in [val: CRDTValues \cup {None}, ts: Nat], CRDT!PutIfNewer(r, k, e),
         UNCHANGED <<hashes, rlocks, merge>>
  PROVE  CRDTInv' /\ CRDT!OnlyNewerReplaces
<1> USE DEF CRDTInv
<1>1. /\ data' \in [Replicas -> [CRDTKeys -> [val: CRDTValues \cup {None}, ts: Nat]]]
      /\ clock' \in [Replicas -> Nat]
      /\ \A s \in Replicas : clock'[s] >= clock[s]
      /\ clock'[r] >= e.ts
      /\ \A s \in Replicas, j \in CRDTKeys : s # r \/ j # k => data'[s][j] = data[s][j]
      /\ \/ data'[r][k] = data[r][k]
         \/ data'[r][k] = e /\ (data[r][k].val = None \/ e.ts > data[r][k].ts)
  BY Zenon, PutIfNewerEffect
<1>2. data'[r][k].ts <= clock'[r]
  <2>1. data[r][k].ts <= clock[r] /\ data[r][k].ts \in Nat /\ clock[r] \in Nat /\ clock'[r] \in Nat
    BY <1>1 DEF ClockCovers, CRDT!TypeOK
  <2> QED  BY <1>1, <2>1
<1>3. ClockCovers' /\ SourceLocked' /\ CRDT!MergedIsPast'
  BY Zenon, <1>1, <1>2, WriteKeepsOrder
<1>4. CRDT!TypeOK'
  BY Zenon, <1>1 DEF CRDT!TypeOK
<1>5. CRDT!OnlyNewerReplaces
  BY Zenon, <1>1 DEF CRDT!OnlyNewerReplaces
<1> QED  BY Zenon, <1>3, <1>4, <1>5

(* The steps that write one store. *)
LEMMA ReplicaWriteStep == ASSUME CRDTInv, CRDT!Write PROVE CRDTInv' /\ CRDT!OnlyNewerReplaces
<1> USE DEF CRDTInv
<1> PICK r \in Replicas, k \in CRDTKeys :
      \/ \E v \in CRDTValues :
           \/ CRDT!Set(r, k, v)
           \/ \E ts \in 0 .. MaxTS : CRDT!SetWithTS(r, k, v, ts)
           \/ \E f \in Fields : CRDT!HSet(r, k, f, v)
      \/ CRDT!Del(r, k)
  BY Zenon DEF CRDT!Write
<1>1. ASSUME NEW v \in CRDTValues, CRDT!Set(r, k, v) PROVE CRDTInv' /\ CRDT!OnlyNewerReplaces
  <2> DEFINE e == [val |-> v, ts |-> clock[r] + 1]
  <2>1. e \in [val: CRDTValues \cup {None}, ts: Nat] /\ e.ts = clock[r] + 1
    BY DEF CRDT!TypeOK
  <2>2. /\ data' \in [Replicas -> [CRDTKeys -> [val: CRDTValues \cup {None}, ts: Nat]]]
        /\ \A s \in Replicas, j \in CRDTKeys : data'[s][j] = IF s = r /\ j = k THEN e ELSE data[s][j]
    BY SMTT(30), <1>1, <2>1, PutPointwise DEF CRDT!Set
  <2> HIDE DEF e
  <2>3. /\ clock' \in [Replicas -> Nat]
        /\ \A s \in Replicas : clock'[s] >= clock[s]
        /\ clock'[r] = e.ts
        /\ UNCHANGED <<hashes, rlocks, merge>> /\ CRDT!Free(r)
    BY <1>1, <2>1 DEF CRDT!Set, CRDT!TypeOK
  <2>4. /\ \A s \in Replicas, j \in CRDTKeys : s # r \/ j # k => data'[s][j] = data[s][j]
        /\ data'[r][k].ts <= clock'[r]
    BY <2>1, <2>2, <2>3 DEF CRDT!TypeOK
  <2>7. ClockCovers' /\ SourceLocked' /\ CRDT!MergedIsPast'
    BY Zenon, <2>2, <2>3, <2>4, WriteKeepsOrder
  <2>5. CRDT!TypeOK'
    BY Zenon, <2>2, <2>3 DEF CRDT!TypeOK
  <2>6. CRDT!OnlyNewerReplaces
    <3>1. data[r][k].ts <= clock[r] /\ data[r][k].ts \in Nat /\ clock[r] \in Nat
      BY DEF ClockCovers, CRDT!TypeOK
    <3> QED  BY SMTT(30), <3>1, <2>1, <2>2 DEF CRDT!OnlyNewerReplaces
  <2> QED  BY Zenon, <2>5, <2>6, <2>7
<1>2. ASSUME NEW v \in CRDTValues, NEW ts \in 0 .. MaxTS, CRDT!SetWithTS(r, k, v, ts)
      PROVE  CRDTInv' /\ CRDT!OnlyNewerReplaces
  <2> DEFINE e == [val |-> v, ts |-> ts]
  <2>1. e \in [val: CRDTValues \cup {None}, ts: Nat]
    OBVIOUS
  <2>2. CRDT!PutIfNewer(r, k, e) /\ CRDT!Free(r) /\ UNCHANGED <<hashes, rlocks, merge>>
    BY Zenon, <1>2 DEF CRDT!SetWithTS
  <2> HIDE DEF e
  <2> QED  BY Zenon, <2>1, <2>2, NewerStep
<1>3. ASSUME NEW v \in CRDTValues, NEW f \in Fields, CRDT!HSet(r, k, f, v) PROVE CRDTInv' /\ CRDT!OnlyNewerReplaces
  <2>1. hashes' \in [Replicas -> [CRDTKeys -> [Fields -> CRDTValues \cup {None}]]]
    BY <1>3 DEF CRDT!HSet, CRDT!TypeOK
  <2>2. UNCHANGED <<data, clock, rlocks, merge>>
    BY Zenon, <1>3 DEF CRDT!HSet
  <2> QED  BY Zenon, <2>1, <2>2, FrameStep
<1>4. ASSUME CRDT!Del(r, k) PROVE CRDTInv' /\ CRDT!OnlyNewerReplaces
  <2>1. CRDT!NoEntry \in [val: CRDTValues \cup {None}, ts: Nat] /\ CRDT!NoEntry.ts = 0 /\ CRDT!NoEntry.val = None
    BY Zenon DEF CRDT!NoEntry
  <2>2. /\ data' \in [Replicas -> [CRDTKeys -> [val: CRDTValues \cup {None}, ts: Nat]]]
        /\ \A s \in Replicas, j \in CRDTKeys : data'[s][j] = IF s = r /\ j = k THEN CRDT!NoEntry ELSE data[s][j]
    BY <1>4, <2>1, PutPointwise DEF CRDT!Del
  <2>3. UNCHANGED <<clock, rlocks, merge>> /\ CRDT!Free(r)
    BY Zenon, <1>4 DEF CRDT!Del
  <2>8. /\ clock' \in [Replicas -> Nat]
        /\ \A s \in Replicas : clock'[s] >= clock[s]
        /\ \A s \in Replicas, j \in CRDTKeys : s # r \/ j # k => data'[s][j] = data[s][j]
        /\ data'[r][k].ts <= clock'[r]
    BY <2>1, <2>2, <2>3 DEF CRDT!TypeOK
  <2>4. ClockCovers' /\ SourceLocked' /\ CRDT!MergedIsPast'
    BY Zenon, <2>2, <2>3, <2>8, WriteKeepsOrder
  <2>5. hashes' \in [Replicas -> [CRDTKeys -> [Fields -> CRDTValues \cup {None}]]]
    BY Zenon, <1>4 DEF CRDT!Del, CRDT!TypeOK, CRDT!NoFields
  <2>6. CRDT!TypeOK'
    BY Zenon, <2>2, <2>3, <2>5 DEF CRDT!TypeOK
  <2>7. CRDT!OnlyNewerReplaces
    BY Zenon, <2>1, <2>2 DEF CRDT!OnlyNewerReplaces
  <2> QED  BY Zenon, <2>4, <2>6, <2>7
<1> QED  BY Zenon, <1>1, <1>2, <1>3, <1>4

(* AddRLock changes one count. *)
LEMMA RLockPointwise ==
  ASSUME CRDT!TypeOK, NEW r \in Replicas, NEW p \in Mergers, NEW n \in Int,
         rlocks[r][p] + n \in Nat, CRDT!AddRLock(r, p, n)
  PROVE  /\ rlocks' \in [Replicas -> [Mergers -> Nat]]
         /\ \A s \in Replicas, q \in Mergers :
              rlocks'[s][q] = IF s = r /\ q = p THEN rlocks[s][q] + n ELSE rlocks[s][q]
<1> DEFINE row == [rlocks[r] EXCEPT ![p] = rlocks[r][p] + n]
<1>1. row \in [Mergers -> Nat] /\ \A q \in Mergers : row[q] = IF q = p THEN rlocks[r][q] + n ELSE rlocks[r][q]
  BY Zenon DEF CRDT!TypeOK
<1>2. rlocks' = [rlocks EXCEPT ![r] = row]
  BY Zenon DEF CRDT!AddRLock
<1> HIDE DEF row
<1> QED  BY Zenon, <1>1, <1>2 DEF CRDT!TypeOK

MergeRecord == [phase: {"idle", "data", "hashes"}, to: Replicas \cup {None},
                from: Replicas \cup {None}, todo: SUBSET CRDTKeys]

(* A step that only moves one Merge on, to m, keeps the invariant if m has *)
(* the RLocks of its phase and has copied no more than before.             *)
LEMMA MergerStep ==
  ASSUME CRDTInv, NEW p \in Mergers, NEW m \in MergeRecord,
         UNCHANGED <<data, clock>>,
         hashes' \in [Replicas -> [CRDTKeys -> [Fields -> CRDTValues \cup {None}]]],
         merge' = [merge EXCEPT ![p] = m],
         m.to \in Replicas, m.from \in Replicas,
         rlocks' \in [Replicas -> [Mergers -> Nat]],
         \A s \in Replicas, q \in Mergers : q # p => rlocks'[s][q] = rlocks[s][q],
         m.phase = "data" => rlocks'[m.from][p] >= 1,
         m.phase = "hashes" => rlocks'[m.from][p] >= 2,
         \A j \in CRDTKeys : CRDT!Merged(p, j)' =>
           \/ data[m.from][j].val = None
           \/ CRDT!Merged(p, j) /\ m.from = merge[p].from /\ m.to = merge[p].to
  PROVE  CRDTInv' /\ CRDT!OnlyNewerReplaces
<1>1. ClockCovers' /\ CRDT!OnlyNewerReplaces
  BY Zenon DEF CRDTInv, ClockCovers, CRDT!OnlyNewerReplaces
<1>2. \A q \in Mergers : merge'[q] = IF q = p THEN m ELSE merge[q]
  BY Zenon DEF CRDTInv, CRDT!TypeOK
<1>3. CRDT!TypeOK'
  <2>1. merge' \in [Mergers -> MergeRecord]
    BY Zenon DEF CRDTInv, CRDT!TypeOK, MergeRecord
  <2>2. \A q \in Mergers : merge'[q].phase # "idle" => merge'[q].to \in Replicas /\ merge'[q].from \in Replicas
    BY Zenon, <1>2 DEF CRDTInv, CRDT!TypeOK
  <2> QED  BY Zenon, <2>1, <2>2 DEF CRDTInv, CRDT!TypeOK, MergeRecord
<1>4. SourceLocked'
  <2>1. ASSUME NEW q \in Mergers, q # p
        PROVE  /\ merge[q].phase = "data" => rlocks'[merge[q].from][q] >= 1
               /\ merge[q].phase = "hashes" => rlocks'[merge[q].from][q] >= 2
    BY Zenon, <2>1 DEF CRDTInv, SourceLocked, CRDT!TypeOK
  <2> QED  BY SMTT(30), <1>2, <2>1 DEF SourceLocked
<1>5. CRDT!MergedIsPast'
  <2> SUFFICES ASSUME NEW q \in Mergers, NEW j \in CRDTKeys, CRDT!Merged(q, j)',
                      data'[merge'[q].from][j].val # None
               PROVE  data'[merge'[q].from][j].ts <= clock'[merge'[q].to]
    BY Zenon DEF CRDT!MergedIsPast
  <2>1. CRDT!Merged(q, j) /\ merge'[q].from = merge[q].from /\ merge'[q].to = merge[q].to
    BY SMTT(30), <1>2 DEF CRDT!Merged
  <2> QED  BY Zenon, <2>1 DEF CRDTInv, CRDT!MergedIsPast
<1> QED  BY Zenon, <1>1, <1>3, <1>4, <1>5 DEF CRDTInv

(* Merge copies the entry of one key: the sources of the other Merges and  *)
(* its own stand still, because nobody can lock them.                      *)
LEMMA MergeKeyStep ==
  ASSUME CRDTInv, NEW p \in Mergers, NEW k \in CRDTKeys, CRDT!MergeKey(p, k)
  PROVE  CRDTInv' /\ CRDT!OnlyNewerReplaces
<1> DEFINE to == merge[p].to
           from == merge[p].from
           m == [merge[p] EXCEPT !.todo = merge[p].todo \ {k}]
<1> CRDT!TypeOK  BY Zenon DEF CRDTInv
<1>1. /\ merge[p].phase = "data" /\ CRDT!Free(to) /\ CRDT!PutIfNewer(to, k, data[from][k])
      /\ UNCHANGED <<hashes, rlocks>> /\ merge' = [merge EXCEPT ![p] = m]
  BY Zenon DEF CRDT!MergeKey, CRDT!Done
<1>2. to \in Replicas /\ from \in Replicas /\ data[from][k] \in [val: CRDTValues \cup {None}, ts: Nat]
  BY <1>1 DEF CRDT!TypeOK
<1>3. /\ m \in MergeRecord /\ m.phase = "data" /\ m.to = to /\ m.from = from
      /\ \A j \in CRDTKeys : j # k /\ j \notin m.todo => j \notin merge[p].todo
  BY Zenon, <1>1 DEF MergeRecord, CRDT!TypeOK
<1> HIDE DEF m
<1>4. /\ data' \in [Replicas -> [CRDTKeys -> [val: CRDTValues \cup {None}, ts: Nat]]]
      /\ clock' \in [Replicas -> Nat]
      /\ \A s \in Replicas : clock'[s] >= clock[s]
      /\ clock'[to] >= data[from][k].ts
      /\ \A s \in Replicas, j \in CRDTKeys : s # to \/ j # k => data'[s][j] = data[s][j]
      /\ \/ data'[to][k] = data[to][k]
         \/ data'[to][k] = data[from][k] /\ (data[to][k].val = None \/ data[from][k].ts > data[to][k].ts)
  BY Zenon, <1>1, <1>2, PutIfNewerEffect
<1>5. \A q \in Mergers : merge'[q] = IF q = p THEN m ELSE merge[q]
  BY Zenon, <1>1 DEF CRDT!TypeOK
<1>6. CRDT!TypeOK'
  <2>1. merge' \in [Mergers -> MergeRecord]
    BY Zenon, <1>1, <1>3 DEF CRDT!TypeOK, MergeRecord
  <2>2. \A q \in Mergers : merge'[q].phase # "idle" => merge'[q].to \in Replicas /\ merge'[q].from \in Replicas
    BY Zenon, <1>2, <1>3, <1>5 DEF CRDT!TypeOK
  <2> QED  BY Zenon, <1>1, <1>4, <2>1, <2>2 DEF CRDT!TypeOK, MergeRecord
<1>7. CRDT!OnlyNewerReplaces
  BY SMTT(30), <1>2, <1>4 DEF CRDT!OnlyNewerReplaces
<1>8. ClockCovers'
  <2> SUFFICES ASSUME NEW s \in Replicas, NEW j \in CRDTKeys PROVE data'[s][j].ts <= clock'[s]
    BY Zenon DEF ClockCovers
  <2>1. data[s][j].ts <= clock[s] /\ data[s][j].ts \in Nat /\ clock[s] \in Nat /\ clock'[s] \in Nat
    BY SMTT(30), <1>4 DEF CRDTInv, ClockCovers, CRDT!TypeOK
  <2>2. data[from][k].ts \in Nat
    BY Zenon, <1>2
  <2> QED  BY SMTT(30), <1>2, <1>4, <2>1, <2>2
<1>9. SourceLocked'
  BY ZenonT(60), <1>1, <1>3, <1>5 DEF CRDTInv, SourceLocked
<1>10. CRDT!MergedIsPast'
  <2> SUFFICES ASSUME NEW q \in Mergers, NEW j \in CRDTKeys, CRDT!Merged(q, j)',
                      data'[merge'[q].from][j].val # None
               PROVE  data'[merge'[q].from][j].ts <= clock'[merge'[q].to]
    BY Zenon DEF CRDT!MergedIsPast
  <2>1. /\ merge'[q].phase = merge[q].phase /\ merge[q].phase # "idle"
        /\ merge'[q].from = merge[q].from /\ merge'[q].to = merge[q].to
    BY Zenon, <1>1, <1>3, <1>5 DEF CRDT!Merged
  <2>2. merge[q].from \in Replicas /\ merge[q].to \in Replicas
    BY Zenon, <2>1 DEF CRDT!TypeOK
  <2>3. rlocks[merge[q].from][q] >= 1
    BY SMTT(30), <2>1, <2>2 DEF CRDTInv, SourceLocked, CRDT!TypeOK
  <2>4. merge[q].from # to
    BY SMTT(30), <1>1, <2>3 DEF CRDT!Free
  <2>5. data'[merge[q].from][j] = data[merge[q].from][j]
    BY Zenon, <1>4, <2>2, <2>4
  <2>6. data[merge[q].from][j].ts \in Nat /\ clock[merge[q].to] \in Nat /\ clock'[merge[q].to] \in Nat
    BY SMTT(30), <1>4, <2>2 DEF CRDT!TypeOK
  <2>7. CASE CRDT!Merged(q, j)
    <3>1. data[merge[q].from][j].ts <= clock[merge[q].to]
      BY Zenon, <2>1, <2>5, <2>7 DEF CRDTInv, CRDT!MergedIsPast
    <3> QED  BY SMTT(30), <1>4, <2>1, <2>2, <2>5, <2>6, <3>1
  <2>8. CASE ~ CRDT!Merged(q, j)
    <3>1. q = p /\ j = k
      BY Zenon, <1>1, <1>3, <1>5, <2>1, <2>8 DEF CRDT!Merged
    <3> QED  BY Zenon, <1>4, <2>1, <2>5, <3>1
  <2> QED  BY Zenon, <2>7, <2>8
<1> QED  BY Zenon, <1>6, <1>7, <1>8, <1>9, <1>10 DEF CRDTInv

(* The steps of Merge. *)
LEMMA MergeStep == ASSUME CRDTInv, CRDT!Merge PROVE CRDTInv' /\ CRDT!OnlyNewerReplaces
<1> CRDT!TypeOK  BY Zenon DEF CRDTInv
<1> PICK p \in Mergers :
      \/ \E to, from \in Replicas : CRDT!MergeStart(p, to, from)
      \/ \E k \in CRDTKeys : CRDT!MergeKey(p, k) \/ CRDT!MergeHash(p, k)
      \/ CRDT!MergeRLock(p)
      \/ CRDT!MergeEnd(p)
  BY Zenon DEF CRDT!Merge
<1>1. ASSUME NEW to \in Replicas, NEW from \in Replicas, CRDT!MergeStart(p, to, from)
      PROVE  CRDTInv' /\ CRDT!OnlyNewerReplaces
  <2> DEFINE m == [phase |-> "data", to |-> to, from |-> from,
                   todo |-> {k \in CRDTKeys : data[from][k].val # None}]
  <2>1. UNCHANGED <<data, hashes, clock>> /\ CRDT!AddRLock(from, p, 1) /\ rlocks[from][p] \in Nat
    BY <1>1 DEF CRDT!MergeStart, CRDT!TypeOK
  <2>2. /\ rlocks' \in [Replicas -> [Mergers -> Nat]]
        /\ \A s \in Replicas, q \in Mergers :
             rlocks'[s][q] = IF s = from /\ q = p THEN rlocks[s][q] + 1 ELSE rlocks[s][q]
    BY SMTT(30), <2>1, RLockPointwise
  <2>3. merge' = [merge EXCEPT ![p] = m]
    BY Zenon, <1>1 DEF CRDT!MergeStart
  <2>4. m \in MergeRecord /\ m.phase = "data" /\ m.to \in Replicas /\ m.from = from
    BY Zenon DEF MergeRecord
  <2>5. \A j \in CRDTKeys : CRDT!Merged(p, j)' => data[m.from][j].val = None
    BY Zenon, <2>3 DEF CRDT!Merged, CRDT!TypeOK
  <2> HIDE DEF m
  <2>6. rlocks'[m.from][p] >= 1 /\ \A s \in Replicas, q \in Mergers : q # p => rlocks'[s][q] = rlocks[s][q]
    BY SMTT(30), <2>1, <2>2, <2>4
  <2>7. hashes' \in [Replicas -> [CRDTKeys -> [Fields -> CRDTValues \cup {None}]]]
    BY Zenon, <2>1 DEF CRDT!TypeOK
  <2>8. UNCHANGED <<data, clock>>
    BY Zenon, <2>1
  <2>9. m \in MergeRecord /\ m.to \in Replicas /\ m.from \in Replicas /\ m.phase # "hashes"
    BY Zenon, <2>4
  <2>10. \A j \in CRDTKeys : CRDT!Merged(p, j)' =>
           \/ data[m.from][j].val = None
           \/ CRDT!Merged(p, j) /\ m.from = merge[p].from /\ m.to = merge[p].to
    BY Zenon, <2>5
  <2> QED  BY Zenon, <2>2, <2>3, <2>6, <2>7, <2>8, <2>9, <2>10, MergerStep, Zenon
<1>2. ASSUME NEW k \in CRDTKeys, CRDT!MergeKey(p, k) PROVE CRDTInv' /\ CRDT!OnlyNewerReplaces
  BY Zenon, <1>2, MergeKeyStep
<1>3. ASSUME NEW h \in CRDTKeys, CRDT!MergeHash(p, h) PROVE CRDTInv' /\ CRDT!OnlyNewerReplaces
  <2> DEFINE m == [merge[p] EXCEPT !.todo = merge[p].todo \ {h}]
  <2>1. UNCHANGED <<data, clock, rlocks>> /\ merge' = [merge EXCEPT ![p] = m] /\ merge[p].phase = "hashes"
    BY Zenon, <1>3 DEF CRDT!MergeHash, CRDT!Done
  <2>2. /\ m \in MergeRecord /\ m.phase = "hashes" /\ m.to = merge[p].to /\ m.from = merge[p].from
        /\ m.to \in Replicas /\ m.from \in Replicas
    BY Zenon, <2>1 DEF MergeRecord, CRDT!TypeOK
  <2> HIDE DEF m
  <2>3. hashes' \in [Replicas -> [CRDTKeys -> [Fields -> CRDTValues \cup {None}]]]
    <3> DEFINE inner == hashes[m.from][h]
               merged == [f \in Fields |-> IF inner[f] # None THEN inner[f] ELSE hashes[m.to][h][f]]
    <3>1. merged \in [Fields -> CRDTValues \cup {None}]
      BY SMTT(30), <2>2 DEF CRDT!TypeOK
    <3>2. hashes' = [hashes EXCEPT ![m.to][h] = merged]
      BY Zenon, <1>3, <2>2 DEF CRDT!MergeHash
    <3> HIDE DEF merged
    <3> QED  BY Zenon, <2>2, <3>1, <3>2 DEF CRDT!TypeOK
  <2>4. rlocks' \in [Replicas -> [Mergers -> Nat]] /\ rlocks'[m.from][p] >= 2
    BY Zenon, <2>1, <2>2 DEF CRDTInv, SourceLocked, CRDT!TypeOK
  <2>5. \A j \in CRDTKeys : CRDT!Merged(p, j)
    BY Zenon, <2>1 DEF CRDT!Merged
  <2> QED  BY Zenon, <2>1, <2>2, <2>3, <2>4, <2>5, MergerStep
<1>4. ASSUME CRDT!MergeRLock(p) PROVE CRDTInv' /\ CRDT!OnlyNewerReplaces
  <2> DEFINE from == merge[p].from
             todo == {h \in CRDTKeys : hashes[from][h] # CRDT!NoFields}
             m == [merge[p] EXCEPT !.phase = "hashes", !.todo = todo]
  <2>1. /\ UNCHANGED <<data, hashes, clock>> /\ merge' = [merge EXCEPT ![p] = m]
        /\ merge[p].phase = "data" /\ merge[p].todo = {} /\ CRDT!AddRLock(from, p, 1)
    BY Zenon, <1>4 DEF CRDT!MergeRLock
  <2>2. from \in Replicas /\ todo \in SUBSET CRDTKeys
    BY Zenon, <2>1 DEF CRDT!TypeOK
  <2> HIDE DEF todo
  <2>3. /\ m \in MergeRecord /\ m.phase = "hashes" /\ m.to = merge[p].to /\ m.from = from
        /\ m.to \in Replicas
    BY ZenonT(60), <2>1, <2>2 DEF MergeRecord, CRDT!TypeOK
  <2> HIDE DEF m
  <2>4. rlocks[from][p] \in Nat /\ rlocks[from][p] >= 1
    BY SMTT(30), <2>1, <2>2 DEF CRDTInv, SourceLocked, CRDT!TypeOK
  <2>5. /\ rlocks' \in [Replicas -> [Mergers -> Nat]]
        /\ \A s \in Replicas, q \in Mergers :
             rlocks'[s][q] = IF s = from /\ q = p THEN rlocks[s][q] + 1 ELSE rlocks[s][q]
    BY SMTT(30), <2>1, <2>2, <2>4, RLockPointwise
  <2>6. rlocks'[m.from][p] >= 2 /\ \A s \in Replicas, q \in Mergers : q # p => rlocks'[s][q] = rlocks[s][q]
    BY SMTT(30), <2>2, <2>3, <2>4, <2>5
  <2>7. \A j \in CRDTKeys : CRDT!Merged(p, j)
    BY Zenon, <2>1 DEF CRDT!Merged
  <2>8. hashes' \in [Replicas -> [CRDTKeys -> [Fields -> CRDTValues \cup {None}]]]
    BY Zenon, <2>1 DEF CRDT!TypeOK
  <2> QED  BY Zenon, <2>1, <2>2, <2>3, <2>5, <2>6, <2>7, <2>8, MergerStep
<1>5. ASSUME CRDT!MergeEnd(p) PROVE CRDTInv' /\ CRDT!OnlyNewerReplaces
  <2> DEFINE from == merge[p].from
             m == [merge[p] EXCEPT !.phase = "idle"]
  <2>1. /\ UNCHANGED <<data, hashes, clock>> /\ merge' = [merge EXCEPT ![p] = m]
        /\ merge[p].phase = "hashes" /\ CRDT!AddRLock(from, p, -1)
    BY Zenon, <1>5 DEF CRDT!MergeEnd
  <2>2. /\ m \in MergeRecord /\ m.phase = "idle" /\ m.to \in Replicas
        /\ m.from = from /\ from \in Replicas
    BY ZenonT(60), <2>1 DEF MergeRecord, CRDT!TypeOK
  <2>3. \A j \in CRDTKeys : ~ CRDT!Merged(p, j)'
    BY Zenon, <2>1, <2>2 DEF CRDT!Merged, CRDT!TypeOK
  <2> HIDE DEF m
  <2>4. rlocks[from][p] \in Nat /\ rlocks[from][p] >= 2
    BY SMTT(30), <2>1, <2>2 DEF CRDTInv, SourceLocked, CRDT!TypeOK
  <2>5. /\ rlocks' \in [Replicas -> [Mergers -> Nat]]
        /\ \A s \in Replicas, q \in Mergers :
             rlocks'[s][q] = IF s = from /\ q = p THEN rlocks[s][q] + (-1) ELSE rlocks[s][q]
    BY SMTT(30), <2>1, <2>2, <2>4, RLockPointwise
  <2>6. \A s \in Replicas, q \in Mergers : q # p => rlocks'[s][q] = rlocks[s][q]
    BY Zenon, <2>5
  <2>7. hashes' \in [Replicas -> [CRDTKeys -> [Fields -> CRDTValues \cup {None}]]]
    BY Zenon, <2>1 DEF CRDT!TypeOK
  <2> QED  BY Zenon, <2>1, <2>2, <2>3, <2>5, <2>6, <2>7, MergerStep
<1> QED  BY Zenon, <1>1, <1>2, <1>3, <1>4, <1>5

(* Every reachable state satisfies the invariant, and every step obeys     *)
(* OnlyNewerReplaces.                                                      *)
LEMMA CRDTStep == CRDTInv /\ [CRDT!Next]_(CRDT!crdtVars) => CRDTInv' /\ (CRDT!OnlyNewerReplaces \/ UNCHANGED CRDT!crdtVars)
<1> SUFFICES ASSUME CRDTInv, [CRDT!Next]_(CRDT!crdtVars)
             PROVE  CRDTInv' /\ (CRDT!OnlyNewerReplaces \/ UNCHANGED CRDT!crdtVars)
  OBVIOUS
<1>1. CASE UNCHANGED CRDT!crdtVars
  BY Zenon, <1>1 DEF CRDT!crdtVars, CRDTInv, CRDT!TypeOK, ClockCovers, SourceLocked, CRDT!MergedIsPast, CRDT!Merged
<1>2. CASE CRDT!Next
  BY Zenon, <1>2, ReplicaWriteStep, MergeStep DEF CRDT!Next
<1> QED  BY Zenon, <1>1, <1>2

(* The empty stores of NewCRDTStore satisfy the invariant. *)
LEMMA CRDTInit == CRDT!Init => CRDTInv
  BY SMTT(30) DEF CRDT!Init, CRDTInv, CRDT!TypeOK, ClockCovers, SourceLocked, CRDT!MergedIsPast, CRDT!Merged, CRDT!NoEntry, CRDT!NoFields

(* The replicas only make CRDTStore's steps: every reachable state         *)
(* satisfies the invariant, and every step obeys OnlyNewerReplaces.        *)
LEMMA RunsCRDT ==
  CRDTInv /\ [RunConcurrent]_concurrentVars
    => CRDTInv' /\ (CRDT!OnlyNewerReplaces \/ UNCHANGED CRDT!crdtVars)
<1>1. [RunConcurrent]_concurrentVars => [CRDT!Next]_(CRDT!crdtVars)
  BY Zenon DEF RunConcurrent, concurrentVars, crdtVars, CRDT!crdtVars
<1> QED  BY Zenon, <1>1, CRDTStep

(* The stores that buildStore makes satisfy it. *)
LEMMA BuildsReplicas == BuildConcurrent => CRDTInv
  BY Zenon, CRDTInit DEF BuildConcurrent

(* What a running Merge has copied is not ahead of its target's clock,     *)
(* though Set, SetWithTS, Del and other Merges run beside it.              *)
THEOREM MergeStaysBehind == ConcurrentSpec => []MergedIsPast
<1>1. CRDTInv => MergedIsPast
  BY Zenon DEF CRDTInv, MergedIsPast
<1> QED  BY <1>1, BuildsReplicas, RunsCRDT, PTL DEF ConcurrentSpec

(* No Set, SetWithTS or Merge on any replica replaces an entry by one that *)
(* is not newer.                                                           *)
THEOREM NewestEntryStays == ConcurrentSpec => LastWriterWins
<1>1. CRDTInv /\ [RunConcurrent]_concurrentVars => [CRDT!OnlyNewerReplaces]_(CRDT!crdtVars)
  BY Zenon, RunsCRDT
<1> QED  BY <1>1, BuildsReplicas, RunsCRDT, PTL DEF ConcurrentSpec, LastWriterWins, CRDT!LastWriterWins
=============================================================================
