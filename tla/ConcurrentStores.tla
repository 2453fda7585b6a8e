-------------------------- MODULE ConcurrentStores --------------------------
(***************************************************************************)
(* The stores whose methods are more than one step, or that have a lock    *)
(* for each part of their data, in one process.  config.buildStore makes   *)
(* one of them and the others stay as they are: LockFreeStore under its    *)
(* own names, the others as instances.                                     *)
(***************************************************************************)
EXTENDS LockFreeStore

CONSTANTS
  shardCount, shardOf,
  SyncKeys, Maps,
  CRDTKeys, CRDTValues, Replicas, Mergers, MaxTS, MaxRLocks

VARIABLES
  which,  \* the store of the configuration
  shards,
  strings, link, content, syncPc, syncCall, held, cut,
  data, hashes, clock, rlocks, merge

Sharded == INSTANCE ShardedStore

Sync == INSTANCE SyncMapStore WITH Keys <- SyncKeys, pc <- syncPc, call <- syncCall

CRDT == INSTANCE CRDTStore WITH Keys <- CRDTKeys, Values <- CRDTValues

ASSUME ConcurrentAssumption == Sharded!ShardedAssumption /\ Sync!SyncMapAssumption

syncVars == <<strings, link, content, syncPc, syncCall, held, cut>>
crdtVars == <<data, hashes, clock, rlocks, merge>>
concurrentVars == <<which, vars, shards, syncVars, crdtVars>>

BuildConcurrent == Init /\ Sharded!Init /\ Sync!Init /\ CRDT!Init

RunConcurrent ==
  \/ which = "lockfree" /\ Next /\ UNCHANGED <<which, shards, syncVars, crdtVars>>
  \/ which = "sharded" /\ Sharded!Next /\ UNCHANGED <<which, vars, syncVars, crdtVars>>
  \/ which = "sync" /\ Sync!Next /\ UNCHANGED <<which, vars, shards, crdtVars>>
  \/ which = "crdt" /\ CRDT!Next /\ UNCHANGED <<which, vars, shards, syncVars>>

ConcurrentSpec == BuildConcurrent /\ [][RunConcurrent]_concurrentVars

-----------------------------------------------------------------------------

(* The shards of the sharded store behave like one map.                    *)
ShardsAreOneMap == Sharded!ShardsAreOneMap

(* HSet of the sync.Map store stores the field where HGet looks for it,    *)
(* unless a Del of the hash came between.                                  *)
WriteReachesHash == Sync!WriteReachesHash

(* Entries of a CRDT store are only replaced by strictly newer ones.       *)
LastWriterWins == CRDT!LastWriterWins

(* The clock of a CRDT store is past all that a Merge has brought to it.   *)
MergedIsPast == CRDT!MergedIsPast
=============================================================================
