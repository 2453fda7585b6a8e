------------------------------- MODULE Stores -------------------------------
(***************************************************************************)
(* config.buildStore: a process runs exactly one of the stores, the one    *)
(* the configuration names, and the others stay as they are.  Each store   *)
(* is a module of its own; this one only lets them be checked together,    *)
(* those of ConcurrentStores and the Bitcask store, and, as an instance,   *)
(* the ordered stores.                                                     *)
(***************************************************************************)
EXTENDS ConcurrentStores, Bitcask

CONSTANTS
  OrdKeys, OrdValues, HashKeys, SkipMaxLevel, BpOrder, MaxByte, Cap

VARIABLES
  kind, tree, stuck, ordStrings, ordHashes

Ordered == INSTANCE OrderedStore WITH Keys <- OrdKeys, Values <- OrdValues, strings <- ordStrings, hashes <- ordHashes

orderedVars == <<kind, tree, stuck, ordStrings, ordHashes>>

buildStore ==
  /\ which \in {"lockfree", "ordered", "sharded", "sync", "crdt", "bitcask"}
  /\ BuildConcurrent
  /\ IF which = "ordered" THEN Ordered!Init
     ELSE kind = None /\ tree = None /\ stuck = FALSE /\ ordStrings = None /\ ordHashes = None
  /\ BitcaskInit

RunStore ==
  \/ RunConcurrent /\ UNCHANGED <<orderedVars, bitcaskVars>>
  \/ which = "ordered" /\ Ordered!Next /\ UNCHANGED <<concurrentVars, bitcaskVars>>
  \/ which = "bitcask" /\ BitcaskNext /\ UNCHANGED <<concurrentVars, orderedVars>>

StoresSpec ==
  /\ buildStore
  /\ [][RunStore]_<<concurrentVars, orderedVars, bitcaskVars>>
  /\ \A c \in Clients : WF_vars(Step(c))

-----------------------------------------------------------------------------

(* Get of the skip list, B+ tree and radix tree finds what a map would.    *)
GetIsMapGet == which = "ordered" => Ordered!GetIsMapGet

(* Their RangeKeys and PrefixKeys list the stored keys asked for, sorted.  *)
ScansAreSorted == which = "ordered" => Ordered!ScansAreSorted
=============================================================================
