------------------------------ MODULE MCStores ------------------------------
(* Stores on small instances.  The ordered stores get keys of one to three *)
(* bytes that share prefixes and one that does not, and node sizes that a  *)
(* few keys fill; the sharded store a mask that leaves a shard unused; the *)
(* file of the Bitcask store keys that begin alike and empty strings.      *)
EXTENDS Stores, Bitwise, TLC

CONSTANTS k1, k2, k3

MCKeys == {k1, k2, k3}

MCSlotOf == (k1 :> 1) @@ (k2 :> 1) @@ (k3 :> 2)

MCOrdKeys == {<<1, 1>>, <<1, 1, 1>>, <<1, 1, 2>>, <<1, 2>>, <<3>>}

MCHashKeys == {<<3>>}

MCCap == <<2, 3, 4>>

MCHash == (k1 :> 1) @@ (k2 :> 6) @@ (k3 :> 7)

MCShardOf == [k \in MCKeys |-> MCHash[k] & (shardCount - 1)]

MCBitKeys == {<<1>>, <<1, 2>>}

MCBitFields == {<<>>}

(* The last one spells a deletion of the key <<1>>. *)
MCBitValues == {<<>>, <<2>>, <<OpD, 0, 0, 0, 1, 1>>}

MCMagic == <<3, 3>>
=============================================================================
