------------------------------ MODULE MapStore ------------------------------
(***************************************************************************)
(* store/map.go: the reference key-value store.  Every method runs under   *)
(* one RWMutex, so each is a single atomic step.  The module doubles as    *)
(* the abstract specification of the Store interface (store/store.go):     *)
(* what a linearizable store of strings and hashes may do.                 *)
(*                                                                         *)
(* A Go map is a total function into the values plus None, where None      *)
(* stands for "not in the map".  The code creates the map of a hash with   *)
(* its first field and never deletes a single field, so a hash exists      *)
(* exactly when one of its fields does.                                    *)
(***************************************************************************)

CONSTANTS
  Keys,    \* names of strings and of hashes
  Fields,  \* field names of hashes
  Values,  \* values of strings and of fields
  None     \* "not in the map"

VARIABLES
  strings, \* MapStore.strings
  hashes   \* MapStore.hashes

storeVars == <<strings, hashes>>

Slot == Values \cup {None}

EmptyHash == [f \in Fields |-> None]

StoreTypeOK ==
  /\ strings \in [Keys -> Slot]
  /\ hashes \in [Keys -> [Fields -> Slot]]

Init ==
  /\ strings = [k \in Keys |-> None]
  /\ hashes = [k \in Keys |-> EmptyHash]

(* Some data is stored under the key. *)
Present(k) == strings[k] # None \/ hashes[k] # EmptyHash

Set(k, v) ==
  /\ strings' = [strings EXCEPT ![k] = v]
  /\ UNCHANGED hashes

HSet(h, f, v) ==
  /\ hashes' = [hashes EXCEPT ![h][f] = v]
  /\ UNCHANGED strings

(* Del drops the string and the hash of that name. *)
Del(k) ==
  /\ strings' = [strings EXCEPT ![k] = None]
  /\ hashes' = [hashes EXCEPT ![k] = EmptyHash]

Get(k) == strings[k]

HGet(h, f) == hashes[h][f]

HGetAll(h) == hashes[h]

Next ==
  \E k \in Keys :
    \/ \E v \in Values : Set(k, v)
    \/ \E f \in Fields, v \in Values : HSet(k, f, v)
    \/ Del(k)

Spec == Init /\ [][Next]_storeVars
=============================================================================
