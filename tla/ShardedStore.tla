---------------------------- MODULE ShardedStore ----------------------------
(***************************************************************************)
(* store/sharded.go: the strings and hashes of a key live in the shard its *)
(* hash selects, under that shard's RWMutex, so every method is one step   *)
(* on one shard.                                                           *)
(***************************************************************************)
EXTENDS Integers

CONSTANTS
  Keys, Fields, Values, None,
  shardCount,  \* the number of shards
  shardOf      \* hash of the key & s.mask

VARIABLE shards

(* What the theorems about the store assume of its constants. *)
ShardedAssumption ==
  /\ shardCount \in Nat \ {0}
  /\ shardOf \in [Keys -> 0 .. shardCount - 1]

Map == INSTANCE MapStore WITH strings <- [k \in Keys |-> shards[shardOf[k]].strings[k]],
                              hashes <- [k \in Keys |-> shards[shardOf[k]].hashes[k]]

NewShard == [strings |-> [k \in Keys |-> None], hashes |-> [k \in Keys |-> Map!EmptyHash]]

Init == shards = [i \in 0 .. shardCount - 1 |-> NewShard]

Set(k, v) == shards' = [shards EXCEPT ![shardOf[k]].strings[k] = v]

(* Mutant: the hash is dropped from the first shard. *)
DelFirst(k) ==
  shards' = [shards EXCEPT ![shardOf[k]].strings[k] = None, ![0].hashes[k] = Map!EmptyHash]

Del(k) ==
  shards' = [shards EXCEPT ![shardOf[k]].strings[k] = None,
                           ![shardOf[k]].hashes[k] = Map!EmptyHash]

HSet(h, f, v) == shards' = [shards EXCEPT ![shardOf[h]].hashes[h][f] = v]

Next ==
  \E k \in Keys :
    \/ \E v \in Values : Set(k, v)
    \/ Del(k)
    \/ \E f \in Fields, v \in Values : HSet(k, f, v)

Spec == Init /\ [][Next]_shards

(* The shards together behave like one map: a call changes what Get, HGet  *)
(* and HGetAll find under its own key and under no other.                  *)
ShardsAreOneMap == Map!Spec
=============================================================================
