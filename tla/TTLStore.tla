------------------------------ MODULE TTLStore ------------------------------
(***************************************************************************)
(* store/ttl.go: the wrapper that adds expiry and eviction to a store.     *)
(*                                                                         *)
(* Each client is a connection goroutine calling the methods of TTLStore;  *)
(* the sweeper is the goroutine of sweepLoop.  A method is not atomic: it  *)
(* takes t.mu, the policy's mutex and the inner store's mutex one after    *)
(* the other.  Every critical section is one action here, and pc names the *)
(* next one a client will enter.  The first critical section of a method   *)
(* happens with the call.  Time only moves between critical sections.      *)
(*                                                                         *)
(* The policy and the key limit are set once, while the server is built    *)
(* (SetEvictionPolicy), hence constants.                                   *)
(***************************************************************************)
EXTENDS EvictPolicies

CONSTANTS
  Clients,  \* connection goroutines
  Fields,
  Values,
  Policy,   \* the Name() of t.policy
  MaxKeys,  \* t.maxKeys, 0 for no limit
  Ops,      \* the methods the clients call
  TTLs,     \* durations given to SetWithTTL and Expire
  MaxTime,  \* bound on the clock
  MaxMeter  \* bound on a policy counter when a call starts

VARIABLES
  strings, hashes, \* the inner store
  expireAt, \* t.expireAt
  allKeys,  \* t.allKeys
  meter,    \* the map of t.policy
  now,      \* the wall clock
  pc,       \* the next critical section of each client
  call,     \* the method and the arguments of each client's current call
  exp,      \* the deadline read by isExpired or TTL
  cands,    \* the candidates read by evictIfNeeded
  target,   \* the key that untrack and inner.Del remove
  reply,    \* what the client's last read returned
  pending,  \* keys a running sweep has untracked and not yet deleted
  sweeping, \* the key of the sweep's loop between its two calls
  sweeper   \* "running", "closing" once done is closed, "stopped"

innerVars == <<strings, hashes>>
metaVars == <<expireAt, allKeys, meter>>
clientVars == <<pc, call, exp, cands, target, reply>>
sweepVars == <<pending, sweeping, sweeper>>
vars == <<innerVars, metaVars, now, clientVars, sweepVars>>

Inner == INSTANCE MapStore

Methods ==
  {"Set", "SetWithTTL", "HSet", "Get", "HGet", "HGetAll", "Del", "Expire", "TTL", "Close"}

ASSUME TTLAssumption ==
  /\ None \notin Keys \cup Values
  /\ EmptyKey # None
  /\ Policy \in PolicyNames
  /\ MaxKeys \in Nat
  /\ TTLs \subseteq Int
  /\ MaxTime \in Nat
  /\ MaxMeter \in Nat

ASSUME NoMethod == None \notin Methods

Labels ==
  {"idle", "set", "track", "record", "limit", "candidates", "evict", "untrack",
   "forget", "remove", "check", "touch", "read", "arm", "remaining"}

Calls == [op: Methods \cup {None}, key: Keys \cup {None}, field: Fields \cup {None},
          val: Values \cup {None}, ttl: TTLs \cup {None}]

Deadlines == Int \cup {None}

(* A string or a field, all the fields of a hash, or a number. *)
Replies == [val: Values \cup {None}] \cup [all: [Fields -> Values \cup {None}]] \cup [num: Int]

Nothing == [val |-> None]

ClientTypeOK ==
  /\ pc \in [Clients -> Labels]
  /\ call \in [Clients -> Calls]
  /\ exp \in [Clients -> Deadlines]
  /\ cands \in [Clients -> SUBSET Keys]
  /\ target \in [Clients -> Keys \cup {None}]
  /\ reply \in [Clients -> Replies]
  /\ \A c \in Clients :
       /\ pc[c] # "idle" => call[c].key \in Keys
       /\ pc[c] = "set" => call[c].val \in Values
       /\ pc[c] = "arm" => call[c].ttl \in TTLs
       /\ pc[c] # "idle" /\ call[c].op = "HGet" => call[c].field \in Fields
       /\ pc[c] \in {"untrack", "forget", "remove"} => target[c] \in Keys

(* The types of the state, and of the arguments each step relies on. *)
TypeOK ==
  /\ Inner!StoreTypeOK
  /\ expireAt \in [Keys -> Deadlines]
  /\ allKeys \subseteq Keys
  /\ meter \in [Keys -> Nat]
  /\ now \in Nat
  /\ ClientTypeOK
  /\ pending \subseteq Keys
  /\ sweeping \in pending \cup {None}
  /\ sweeper \in {"running", "closing", "stopped"}

NoCall == [op |-> None, key |-> None, field |-> None, val |-> None, ttl |-> None]

Init ==
  /\ Inner!Init
  /\ expireAt = [k \in Keys |-> None]
  /\ allKeys = {}
  /\ meter = [k \in Keys |-> 0]
  /\ now = 0
  /\ pc = [c \in Clients |-> "idle"]
  /\ call = [c \in Clients |-> NoCall]
  /\ exp = [c \in Clients |-> None]
  /\ cands = [c \in Clients |-> {}]
  /\ target = [c \in Clients |-> None]
  /\ reply = [c \in Clients |-> Nothing]
  /\ pending = {}
  /\ sweeping = None
  /\ sweeper = "running"

-----------------------------------------------------------------------------
(* Calls and returns.                                                      *)

(* A client issues its next command. *)
Call(c, op, k, f, v, d) ==
  /\ op \in Ops
  /\ pc[c] = "idle"
  /\ \A j \in Keys : meter[j] <= MaxMeter
  /\ call' = [call EXCEPT ![c] = [op |-> op, key |-> k, field |-> f, val |-> v, ttl |-> d]]

At(c, label) == pc[c] = label /\ UNCHANGED call

Goto(c, label) ==
  /\ pc' = [pc EXCEPT ![c] = label]
  /\ reply' = [reply EXCEPT ![c] = Nothing]

Return(c, r) ==
  /\ pc' = [pc EXCEPT ![c] = "idle"]
  /\ reply' = [reply EXCEPT ![c] = r]
  /\ exp' = [exp EXCEPT ![c] = None]
  /\ cands' = [cands EXCEPT ![c] = {}]
  /\ target' = [target EXCEPT ![c] = None]

-----------------------------------------------------------------------------
(* Set, SetWithTTL and HSet: write, track, evict if over the limit.        *)

Set(c, k, v) ==
  /\ Call(c, "Set", k, None, v, None)
  /\ Inner!Set(k, v)
  /\ Goto(c, "track")
  /\ UNCHANGED <<metaVars, now, exp, cands, target, sweepVars>>

SetWithTTL(c, k, v, d) ==
  /\ Call(c, "SetWithTTL", k, None, v, d)
  /\ expireAt' = [expireAt EXCEPT ![k] = now + d]
  /\ Goto(c, "set")
  /\ UNCHANGED <<innerVars, allKeys, meter, now, exp, cands, target, sweepVars>>

(* The call of Set that ends SetWithTTL. *)
SetAfterDeadline(c) ==
  /\ At(c, "set")
  /\ Inner!Set(call[c].key, call[c].val)
  /\ Goto(c, "track")
  /\ UNCHANGED <<metaVars, now, exp, cands, target, sweepVars>>

(* Mutant: HSet forgets to track the hash. *)
HSetUntracked(c, h, f, v) ==
  /\ Call(c, "HSet", h, f, v, None)
  /\ Inner!HSet(h, f, v)
  /\ Return(c, Nothing)
  /\ UNCHANGED <<metaVars, now, sweepVars>>

HSet(c, h, f, v) ==
  /\ Call(c, "HSet", h, f, v, None)
  /\ Inner!HSet(h, f, v)
  /\ Goto(c, "track")
  /\ UNCHANGED <<metaVars, now, exp, cands, target, sweepVars>>

(* Mutant: track forgets policy.Record. *)
TrackUnrecorded(c) ==
  /\ At(c, "track")
  /\ allKeys' = allKeys \cup {call[c].key}
  /\ Goto(c, "limit")
  /\ UNCHANGED <<innerVars, expireAt, meter, now, exp, cands, target, sweepVars>>

Track(c) ==
  /\ At(c, "track")
  /\ allKeys' = allKeys \cup {call[c].key}
  /\ Goto(c, "record")
  /\ UNCHANGED <<innerVars, expireAt, meter, now, exp, cands, target, sweepVars>>

(* policy.Record, called by track after it has released t.mu. *)
TrackRecord(c) ==
  /\ At(c, "record")
  /\ meter' = PolicyRecord(Policy, meter, call[c].key)
  /\ Goto(c, "limit")
  /\ UNCHANGED <<innerVars, expireAt, allKeys, now, exp, cands, target, sweepVars>>

(* Mutant: off by one. *)
OverLimitByTwo == MaxKeys > 0 /\ Cardinality(allKeys) > MaxKeys + 1

OverLimit == MaxKeys > 0 /\ Cardinality(allKeys) > MaxKeys

CheckLimit(c) ==
  /\ At(c, "limit")
  /\ \/ OverLimit /\ Goto(c, "candidates") /\ UNCHANGED <<exp, cands, target>>
     \/ ~OverLimit /\ Return(c, Nothing)
  /\ UNCHANGED <<innerVars, metaVars, now, sweepVars>>

CandidateKeys ==
  IF Policy = "volatile-ttl" THEN {k \in Keys : expireAt[k] # None} ELSE allKeys

Candidates(c) ==
  /\ At(c, "candidates")
  /\ \/ /\ CandidateKeys # {}
        /\ cands' = [cands EXCEPT ![c] = CandidateKeys]
        /\ Goto(c, "evict")
        /\ UNCHANGED <<exp, target>>
     \/ CandidateKeys = {} /\ Return(c, Nothing)
  /\ UNCHANGED <<innerVars, metaVars, now, sweepVars>>

(* The policy chooses among the candidates read before; "" means none. *)
ChooseVictim(c) ==
  /\ At(c, "evict")
  /\ \E k \in PolicyEvict(Policy, meter, cands[c], expireAt, now) :
       \/ /\ k # EmptyKey
          /\ target' = [target EXCEPT ![c] = k]
          /\ Goto(c, "untrack")
          /\ UNCHANGED <<exp, cands>>
       \/ k = EmptyKey /\ Return(c, Nothing)
  /\ UNCHANGED <<innerVars, metaVars, now, sweepVars>>

-----------------------------------------------------------------------------
(* Removal: untrack and then inner.Del, for Del, delExpired and eviction.  *)

(* Mutant: untrack leaves the key in allKeys. *)
UntrackDeadline(k) ==
  /\ UNCHANGED allKeys
  /\ expireAt' = [expireAt EXCEPT ![k] = None]

UntrackKey(k) ==
  /\ allKeys' = allKeys \ {k}
  /\ expireAt' = [expireAt EXCEPT ![k] = None]

Del(c, k) ==
  /\ Call(c, "Del", k, None, None, None)
  /\ UntrackKey(k)
  /\ target' = [target EXCEPT ![c] = k]
  /\ Goto(c, "forget")
  /\ UNCHANGED <<innerVars, meter, now, exp, cands, sweepVars>>

Untrack(c) ==
  /\ At(c, "untrack")
  /\ UntrackKey(target[c])
  /\ Goto(c, "forget")
  /\ UNCHANGED <<innerVars, meter, now, exp, cands, target, sweepVars>>

(* policy.Delete, called by untrack after it has released t.mu. *)
UntrackForget(c) ==
  /\ At(c, "forget")
  /\ meter' = PolicyDelete(Policy, meter, target[c])
  /\ Goto(c, "remove")
  /\ UNCHANGED <<innerVars, expireAt, allKeys, now, exp, cands, target, sweepVars>>

Remove(c) ==
  /\ At(c, "remove")
  /\ Inner!Del(target[c])
  /\ Return(c, Nothing)
  /\ UNCHANGED <<metaVars, now, sweepVars>>

-----------------------------------------------------------------------------
(* Get, HGet and HGetAll: lazy expiry, then the policy, then the read.     *)

(* isExpired reads the deadline under t.mu ... *)
Read(c, op, k, f) ==
  /\ Call(c, op, k, f, None, None)
  /\ exp' = [exp EXCEPT ![c] = expireAt[k]]
  /\ Goto(c, "check")
  /\ UNCHANGED <<innerVars, metaVars, now, cands, target, sweepVars>>

Overdue(deadline) == deadline # None /\ now > deadline

(* ... and compares it with the clock after the unlock. *)
CheckExpired(c) ==
  /\ At(c, "check")
  /\ \/ /\ Overdue(exp[c])
        /\ target' = [target EXCEPT ![c] = call[c].key]
        /\ Goto(c, "untrack")
     \/ ~Overdue(exp[c]) /\ Goto(c, "touch") /\ UNCHANGED target
  /\ UNCHANGED <<innerVars, metaVars, now, exp, cands, sweepVars>>

Touch(c) ==
  /\ At(c, "touch")
  /\ meter' = PolicyRecord(Policy, meter, call[c].key)
  /\ Goto(c, "read")
  /\ UNCHANGED <<innerVars, expireAt, allKeys, now, exp, cands, target, sweepVars>>

ReadInner(c) ==
  /\ At(c, "read")
  /\ LET k == call[c].key
     IN  Return(c, CASE call[c].op = "Get" -> [val |-> Inner!Get(k)]
                     [] call[c].op = "HGet" -> [val |-> Inner!HGet(k, call[c].field)]
                     [] OTHER -> [all |-> Inner!HGetAll(k)])
  /\ UNCHANGED <<innerVars, metaVars, now, sweepVars>>

-----------------------------------------------------------------------------
(* Expire and TTL.                                                         *)

Expire(c, k, d) ==
  /\ Call(c, "Expire", k, None, None, d)
  /\ \/ Inner!Get(k) # None /\ Goto(c, "arm") /\ UNCHANGED <<exp, cands, target>>
     \/ Inner!Get(k) = None /\ Return(c, [num |-> 0])
  /\ UNCHANGED <<innerVars, metaVars, now, sweepVars>>

Arm(c) ==
  /\ At(c, "arm")
  /\ expireAt' = [expireAt EXCEPT ![call[c].key] = now + call[c].ttl]
  /\ Return(c, [num |-> 1])
  /\ UNCHANGED <<innerVars, allKeys, meter, now, sweepVars>>

TTL(c, k) ==
  /\ Call(c, "TTL", k, None, None, None)
  /\ exp' = [exp EXCEPT ![c] = expireAt[k]]
  /\ Goto(c, "remaining")
  /\ UNCHANGED <<innerVars, metaVars, now, cands, target, sweepVars>>

NoTTL == -2

Remaining(c) ==
  /\ At(c, "remaining")
  /\ Return(c, [num |-> IF exp[c] = None \/ exp[c] <= now THEN NoTTL ELSE exp[c] - now])
  /\ UNCHANGED <<innerVars, metaVars, now, sweepVars>>

-----------------------------------------------------------------------------
(* The sweeper, Close and the clock.                                       *)

(* A tick that finds something: the keys leave the maps under t.mu ...     *)
Sweep ==
  LET expired == {k \in Keys : Overdue(expireAt[k])}
  IN  /\ pending = {}
      /\ sweeper # "stopped"
      /\ expired # {}
      /\ expireAt' = [k \in Keys |-> IF k \in expired THEN None ELSE expireAt[k]]
      /\ allKeys' = allKeys \ expired
      /\ pending' = expired
      /\ UNCHANGED <<innerVars, meter, now, clientVars, sweeping, sweeper>>

(* ... then, key by key, the policy and the inner store.                   *)
SweepForget(k) ==
  /\ k \in pending
  /\ sweeping = None
  /\ meter' = PolicyDelete(Policy, meter, k)
  /\ sweeping' = k
  /\ UNCHANGED <<innerVars, expireAt, allKeys, now, clientVars, pending, sweeper>>

(* Mutant: the sweep forgets inner.Del. *)
SweepKeep ==
  /\ sweeping # None
  /\ pending' = pending \ {sweeping}
  /\ sweeping' = None
  /\ UNCHANGED <<innerVars, metaVars, now, clientVars, sweeper>>

SweepRemove ==
  /\ sweeping # None
  /\ Inner!Del(sweeping)
  /\ pending' = pending \ {sweeping}
  /\ sweeping' = None
  /\ UNCHANGED <<metaVars, now, clientVars, sweeper>>

(* Close closes the done channel; MapStore.Close does nothing. *)
Close ==
  /\ "Close" \in Ops
  /\ sweeper = "running"
  /\ sweeper' = "closing"
  /\ UNCHANGED <<innerVars, metaVars, now, clientVars, pending, sweeping>>

(* sweepLoop sees done between two sweeps. *)
SweepExit ==
  /\ sweeper = "closing"
  /\ pending = {}
  /\ sweeper' = "stopped"
  /\ UNCHANGED <<innerVars, metaVars, now, clientVars, pending, sweeping>>

Tick ==
  /\ now < MaxTime
  /\ now' = now + 1
  /\ UNCHANGED <<innerVars, metaVars, clientVars, sweepVars>>

-----------------------------------------------------------------------------

Begin(c) ==
  \E k \in Keys :
    \/ \E v \in Values : Set(c, k, v)
    \/ \E v \in Values, d \in TTLs : SetWithTTL(c, k, v, d)
    \/ \E f \in Fields, v \in Values : HSet(c, k, f, v)
    \/ \E op \in {"Get", "HGetAll"} : Read(c, op, k, None)
    \/ \E f \in Fields : Read(c, "HGet", k, f)
    \/ Del(c, k)
    \/ \E d \in TTLs : Expire(c, k, d)
    \/ TTL(c, k)

Continue(c) ==
  \/ SetAfterDeadline(c) \/ Track(c) \/ TrackRecord(c)
  \/ CheckLimit(c) \/ Candidates(c) \/ ChooseVictim(c)
  \/ Untrack(c) \/ UntrackForget(c) \/ Remove(c)
  \/ CheckExpired(c) \/ Touch(c) \/ ReadInner(c)
  \/ Arm(c) \/ Remaining(c)

SweepStep == Sweep \/ (\E k \in Keys : SweepForget(k)) \/ SweepRemove

Next ==
  \/ \E c \in Clients : Begin(c) \/ Continue(c)
  \/ SweepStep
  \/ Close
  \/ SweepExit
  \/ Tick

(* The Go scheduler and mutexes starve no goroutine, and the ticker fires  *)
(* again and again; whether a client calls, and time, are left free.       *)
Fairness ==
  /\ \A c \in Clients : WF_vars(Continue(c))
  /\ WF_vars(SweepStep)

Spec == Init /\ [][Next]_vars

FairSpec == Spec /\ Fairness

-----------------------------------------------------------------------------
(* Properties.                                                             *)

(* A client or the sweeper is in the middle of an operation on the key. *)
Busy(k) ==
  \/ \E c \in Clients : pc[c] # "idle" /\ k \in {call[c].key, target[c]}
  \/ k \in pending

Quiet == pending = {} /\ \A c \in Clients : pc[c] = "idle"

(* Data of a key no goroutine is working on is tracked in allKeys: Set and *)
(* HSet track after the write, and Del, delExpired, eviction and sweep     *)
(* untrack before inner.Del, so no interleaving leaves data that KeyCount  *)
(* misses and eviction can never choose.                                   *)
NoUntrackedValue ==
  \A k \in Keys : Inner!Present(k) /\ ~Busy(k) => k \in allKeys

(* ... and, under LRU and LFU, it has an entry in the policy's map, so     *)
(* Evict never takes stored data for a key that was never used: track and  *)
(* untrack call the policy outside t.mu, but in the order of the inner     *)
(* store's calls.                                                          *)
NoUnrecordedValue ==
  Policy \in {"allkeys-lru", "allkeys-lfu"} =>
    \A k \in Keys : Inner!Present(k) /\ ~Busy(k) => meter[k] > 0

(* The limit of SetEvictionPolicy holds whenever no call is in progress. *)
KeyLimit == MaxKeys > 0 /\ Quiet => Cardinality(allKeys) <= MaxKeys

(* The value of the Set that has just returned is stored: eviction after   *)
(* a write never takes the key that was written.                           *)
OwnWriteSurvives ==
  \A c \in Clients :
    Quiet /\ call[c].op = "Set" => strings[call[c].key] = call[c].val

(* Data whose deadline has passed is removed, lazily or by the sweeper,    *)
(* unless the deadline is moved again or the store is closed.              *)
ExpiredValueRemoved ==
  \A k \in Keys :
    Inner!Present(k) /\ Overdue(expireAt[k])
      ~> \/ ~Inner!Present(k)
         \/ expireAt[k] # None /\ now <= expireAt[k]
         \/ sweeper # "running"

(* The gauge fed by KeyCount counts the keys in the store, once no call    *)
(* and no sweep is in progress.                                            *)
KeyCountExact == Quiet => allKeys = {k \in Keys : Inner!Present(k)}
=============================================================================
