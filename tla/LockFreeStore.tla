--------------------------- MODULE LockFreeStore ---------------------------
(***************************************************************************)
(* store/lockfree.go: buckets of immutable maps, replaced by CAS.          *)
(*                                                                         *)
(* A writer loads the pointer of the key's bucket, clones the bucket,      *)
(* changes the clone and swaps the pointer if it is still the one it       *)
(* loaded; otherwise it starts again.  A pointer is modelled by the bucket *)
(* it points to together with a number that no earlier bucket of the same  *)
(* slot had: while a goroutine holds the old pointer its memory cannot be  *)
(* reused, so pointers are equal exactly when the numbers are.             *)
(*                                                                         *)
(* Get, HGet and HGetAll load one pointer and read what it points to,      *)
(* which nobody changes: one atomic step that leaves the state alone.      *)
(***************************************************************************)
EXTENDS Integers

CONSTANTS
  Clients, Keys, Fields, Values, None,
  Slots,    \* indices of s.buckets
  slotOf,   \* hash of the key & s.mask
  MaxSwaps  \* bound on the successful swaps of a slot when a call starts

VARIABLES
  buckets,  \* s.buckets
  pc,       \* "idle", "load" or "cas"
  call,     \* the method and the arguments of each client's current call
  old       \* the pointer each client loaded

vars == <<buckets, pc, call, old>>

ASSUME LockFreeAssumption ==
  /\ slotOf \in [Keys -> Slots]
  /\ MaxSwaps \in Nat

Maybe == Values \cup {None}

NoHash == [f \in Fields |-> None]

Calls == [op: {"Set"}, key: Keys, val: Values]
         \cup [op: {"HSet"}, key: Keys, field: Fields, val: Values]
         \cup [op: {"Del"}, key: Keys]

BucketData == [id: Nat, strings: [Keys -> Maybe], hashes: [Keys -> [Fields -> Maybe]]]

EmptyBucket ==
  [id |-> 0, strings |-> [k \in Keys |-> None], hashes |-> [k \in Keys |-> NoHash]]

TypeOK ==
  /\ buckets \in [Slots -> BucketData]
  /\ pc \in [Clients -> {"idle", "load", "cas"}]
  /\ call \in [Clients -> Calls \cup {None}]
  /\ old \in [Clients -> BucketData]
  /\ \A c \in Clients : pc[c] # "idle" => call[c] \in Calls

Init ==
  /\ buckets = [s \in Slots |-> EmptyBucket]
  /\ pc = [c \in Clients |-> "idle"]
  /\ call = [c \in Clients |-> None]
  /\ old = [c \in Clients |-> EmptyBucket]

(* Mutant: the bucket is changed in place, under its old pointer. *)
ChangedInPlace(data, m) ==
  [id |-> data.id,
   strings |-> IF m.op = "HSet" THEN data.strings
               ELSE [data.strings EXCEPT ![m.key] = IF m.op = "Set" THEN m.val ELSE None],
   hashes |-> CASE m.op = "Set" -> data.hashes
                [] m.op = "HSet" -> [data.hashes EXCEPT ![m.key][m.field] = m.val]
                [] OTHER -> [data.hashes EXCEPT ![m.key] = NoHash]]

(* The clone of a bucket with the call's change, as a new object. *)
Changed(data, m) ==
  [id |-> data.id + 1,
   strings |-> IF m.op = "HSet" THEN data.strings
               ELSE [data.strings EXCEPT ![m.key] = IF m.op = "Set" THEN m.val ELSE None],
   hashes |-> CASE m.op = "Set" -> data.hashes
                [] m.op = "HSet" -> [data.hashes EXCEPT ![m.key][m.field] = m.val]
                [] OTHER -> [data.hashes EXCEPT ![m.key] = NoHash]]

Start(c, m) ==
  /\ pc[c] = "idle"
  /\ \A s \in Slots : buckets[s].id < MaxSwaps
  /\ call' = [call EXCEPT ![c] = m]
  /\ pc' = [pc EXCEPT ![c] = "load"]
  /\ UNCHANGED <<buckets, old>>

Load(c) ==
  /\ pc[c] = "load"
  /\ old' = [old EXCEPT ![c] = buckets[slotOf[call[c].key]]]
  /\ pc' = [pc EXCEPT ![c] = "cas"]
  /\ UNCHANGED <<buckets, call>>

(* Mutant: Store instead of CompareAndSwap. *)
SwapBlind(c) ==
  /\ pc[c] = "cas"
  /\ LET s == slotOf[call[c].key]
     IN  buckets' = [buckets EXCEPT ![s] = Changed(old[c], call[c])]
  /\ pc' = [pc EXCEPT ![c] = "idle"]
  /\ UNCHANGED <<call, old>>

Swap(c) ==
  /\ pc[c] = "cas"
  /\ LET s == slotOf[call[c].key]
     IN  /\ buckets[s].id = old[c].id
         /\ buckets' = [buckets EXCEPT ![s] = Changed(old[c], call[c])]
  /\ pc' = [pc EXCEPT ![c] = "idle"]
  /\ UNCHANGED <<call, old>>

(* Mutant: the loop retries the swap without loading the pointer again. *)
RetryNoLoad(c) ==
  /\ pc[c] = "cas"
  /\ buckets[slotOf[call[c].key]].id # old[c].id
  /\ UNCHANGED <<buckets, pc, call, old>>

Retry(c) ==
  /\ pc[c] = "cas"
  /\ buckets[slotOf[call[c].key]].id # old[c].id
  /\ pc' = [pc EXCEPT ![c] = "load"]
  /\ UNCHANGED <<buckets, call, old>>

Step(c) == Load(c) \/ Swap(c) \/ Retry(c)

Next == \E c \in Clients : (\E m \in Calls : Start(c, m)) \/ Step(c)

Spec == Init /\ [][Next]_vars

(* Every goroutine inside a method gets to run. *)
FairSpec == Spec /\ \A c \in Clients : WF_vars(Step(c))

-----------------------------------------------------------------------------

Get(k) == buckets[slotOf[k]].strings[k]

HGetAll(h) == buckets[slotOf[h]].hashes[h]

Abstract == INSTANCE MapStore
            WITH strings <- [k \in Keys |-> Get(k)], hashes <- [k \in Keys |-> HGetAll(k)]

(* The store is linearizable: what Get, HGet and HGetAll read changes only *)
(* by whole calls of Set, HSet and Del, so a writer that loses the race    *)
(* for a bucket never undoes the winner's write to another key of it.      *)
ImplementsMapStore == Abstract!Spec

(* A pointer that is still current when it is compared points to the data  *)
(* the writer cloned: CompareAndSwap never takes a changed bucket for the  *)
(* one it loaded.                                                          *)
NoStaleSwap ==
  \A c \in Clients :
    pc[c] = "cas" =>
      LET b == buckets[slotOf[call[c].key]]
      IN  /\ old[c].id <= b.id
          /\ old[c].id = b.id => old[c] = b

(* Lock freedom: a writer is sent back only by another one's success, so   *)
(* when the calls are finite in number every one of them returns.          *)
CallReturns == \A c \in Clients : pc[c] # "idle" ~> pc[c] = "idle"
=============================================================================
