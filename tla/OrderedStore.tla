---------------------------- MODULE OrderedStore ----------------------------
(***************************************************************************)
(* store/skiplist.go, store/bptree.go and store/art.go as stores: every    *)
(* method runs under the store's RWMutex, so each is one step, except that *)
(* a Set of the radix tree may end up waiting for the lock it holds.  The  *)
(* module MapStore runs beside the ordered structure: `strings` is what    *)
(* the keys should hold, and `hashes` is the map of hashes itself, which   *)
(* the three stores keep the way MapStore does.                            *)
(***************************************************************************)
EXTENDS SkipList, BPTree, ART

CONSTANTS
  Keys, Fields, Values,
  HashKeys  \* the keys that name hashes as well

VARIABLES
  kind,     \* which of the three stores it is
  tree,     \* the list or tree
  stuck,    \* whether the lock is held for ever
  strings,  \* the same strings in a MapStore
  hashes    \* s.hashes

orderedVars == <<kind, tree, stuck, strings, hashes>>

Map == INSTANCE MapStore

Init ==
  /\ kind \in {"skiplist", "bptree", "art"}
  /\ tree = CASE kind = "skiplist" -> NewSkipList
              [] kind = "bptree" -> NewBPTree
              [] kind = "art" -> None
  /\ stuck = FALSE
  /\ Map!Init

(* The trees a Set can leave. *)
SetResults(k, v) ==
  CASE kind = "skiplist" -> {SkipSet(tree, k, v, level) : level \in 1 .. SkipMaxLevel}
    [] kind = "bptree" -> {BpSet(tree, k, v)}
    [] kind = "art" -> {ARTSet(tree, k, v)}

SetReturns(k, v) ==
  /\ ~stuck /\ ~(kind = "art" /\ PrefixOutruns(tree, k))
  /\ tree' \in SetResults(k, v)
  /\ Map!Set(k, v)
  /\ UNCHANGED <<kind, stuck>>

SetBlocks(k, v) ==
  /\ ~stuck /\ kind = "art" /\ PrefixOutruns(tree, k)
  /\ tree' \in SetResults(k, v)
  /\ stuck' = TRUE
  /\ UNCHANGED <<kind, strings, hashes>>

Del(k) ==
  /\ ~stuck
  /\ tree' = CASE kind = "skiplist" -> SkipDel(tree, k)
               [] kind = "bptree" -> BpDel(tree, k)
               [] kind = "art" -> ARTDel(tree, k)
  /\ Map!Del(k)
  /\ UNCHANGED <<kind, stuck>>

HSet(k, f, v) ==
  /\ ~stuck
  /\ Map!HSet(k, f, v)
  /\ UNCHANGED <<kind, tree, stuck>>

Next ==
  \E k \in Keys :
    \/ \E v \in Values : SetReturns(k, v) \/ SetBlocks(k, v)
    \/ Del(k)
    \/ k \in HashKeys /\ \E f \in Fields, v \in Values : HSet(k, f, v)

Get(k) ==
  CASE kind = "skiplist" -> SkipGet(tree, k)
    [] kind = "bptree" -> BpGet(tree, k)
    [] kind = "art" -> ARTGet(tree, k)

PrefixKeys(prefix) ==
  CASE kind = "skiplist" -> SkipPrefixKeys(tree, prefix)
    [] kind = "bptree" -> BpPrefixKeys(tree, prefix)
    [] kind = "art" -> ARTPrefixKeys(tree, prefix)

RangeKeys(start, end) ==
  CASE kind = "skiplist" -> SkipRangeKeys(tree, start, end)
    [] kind = "bptree" -> BpRangeKeys(tree, start, end)
    [] kind = "art" -> ARTRangeKeys(tree, start, end)

-----------------------------------------------------------------------------

(* Get of each ordered store finds under every key what a plain map would  *)
(* hold after the same calls, whatever splits, levels and node types the   *)
(* calls led to.                                                           *)
GetIsMapGet == ~stuck => \A k \in Keys : Get(k) = Map!Get(k)

(* RangeKeys and PrefixKeys list exactly the stored keys they are asked    *)
(* for, in ascending order, for bounds and prefixes that are stored or not.*)
ScansAreSorted ==
  ~stuck =>
    LET stored == {k \in Keys : strings[k] # None}
    IN  \A a \in Keys :
          /\ Lists(PrefixKeys(a), {k \in stored : HasPrefix(k, a)})
          /\ \A b \in Keys : Lists(RangeKeys(a, b), {k \in stored : InRange(k, a, b)})
=============================================================================
