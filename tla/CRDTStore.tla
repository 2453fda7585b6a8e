------------------------------ MODULE CRDTStore ------------------------------
(***************************************************************************)
(* store/crdt.go: last-writer-wins replicas.  Every method holds the       *)
(* replica's RWMutex throughout and is one step, except Merge: it reads    *)
(* its source under RLock, locks the target once for each key, and takes   *)
(* the source's RLock twice but releases it once.  Get, HGet, HGetAll and  *)
(* Snapshot only read.  A store is not merged into itself.                 *)
(***************************************************************************)
EXTENDS Integers

CONSTANTS
  Replicas, Keys, Fields, Values, None,
  Mergers,   \* goroutines that call Merge
  MaxTS,     \* bound on timestamps
  MaxRLocks  \* bound on the RLocks of a goroutine on one replica

VARIABLES
  data,    \* s.data; val is None for no entry
  hashes,  \* s.hashes
  clock,   \* s.clock
  rlocks,  \* the RLocks of s.mu each goroutine has not released
  merge    \* what each Merge has still to copy

crdtVars == <<data, hashes, clock, rlocks, merge>>

NoEntry == [val |-> None, ts |-> 0]

NoFields == [f \in Fields |-> None]

TypeOK ==
  /\ data \in [Replicas -> [Keys -> [val: Values \cup {None}, ts: Nat]]]
  /\ hashes \in [Replicas -> [Keys -> [Fields -> Values \cup {None}]]]
  /\ clock \in [Replicas -> Nat]
  /\ rlocks \in [Replicas -> [Mergers -> Nat]]
  /\ merge \in [Mergers -> [phase: {"idle", "data", "hashes"}, to: Replicas \cup {None},
                            from: Replicas \cup {None}, todo: SUBSET Keys]]
  /\ \A p \in Mergers : merge[p].phase # "idle" => merge[p].to \in Replicas /\ merge[p].from \in Replicas

Init ==
  /\ data = [r \in Replicas |-> [k \in Keys |-> NoEntry]]
  /\ hashes = [r \in Replicas |-> [k \in Keys |-> NoFields]]
  /\ clock = [r \in Replicas |-> 0]
  /\ rlocks = [r \in Replicas |-> [p \in Mergers |-> 0]]
  /\ merge = [p \in Mergers |-> [phase |-> "idle", to |-> None, from |-> None, todo |-> {}]]

(* s.mu.Lock() can return. *)
Free(r) == \A p \in Mergers : rlocks[r][p] = 0

(* Mutant: a tie goes to the later call. *)
NewerOrTie(r, k, ts) == data[r][k].val = None \/ ts >= data[r][k].ts

Newer(r, k, ts) == data[r][k].val = None \/ ts > data[r][k].ts

(* Mutant: the clock of a store is its own count of writes. *)
NoWitness(r, ts) == clock' = clock

Witness(r, ts) == clock' = [clock EXCEPT ![r] = IF ts > @ THEN ts ELSE @]

Put(r, k, entry) == data' = [data EXCEPT ![r] = [@ EXCEPT ![k] = entry]]

(* SetWithTS, and what Merge does with one key. *)
PutIfNewer(r, k, entry) ==
  /\ IF Newer(r, k, entry.ts) THEN Put(r, k, entry) ELSE UNCHANGED data
  /\ Witness(r, entry.ts)

Set(r, k, v) ==
  /\ Free(r) /\ clock[r] < MaxTS
  /\ clock' = [clock EXCEPT ![r] = @ + 1]
  /\ Put(r, k, [val |-> v, ts |-> clock[r] + 1])
  /\ UNCHANGED <<hashes, rlocks, merge>>

SetWithTS(r, k, v, ts) ==
  /\ Free(r)
  /\ PutIfNewer(r, k, [val |-> v, ts |-> ts])
  /\ UNCHANGED <<hashes, rlocks, merge>>

Del(r, k) ==
  /\ Free(r)
  /\ Put(r, k, NoEntry)
  /\ hashes' = [hashes EXCEPT ![r] = [@ EXCEPT ![k] = NoFields]]
  /\ UNCHANGED <<clock, rlocks, merge>>

HSet(r, h, f, v) ==
  /\ Free(r)
  /\ hashes' = [hashes EXCEPT ![r][h][f] = v]
  /\ UNCHANGED <<data, clock, rlocks, merge>>

AddRLock(r, p, n) == rlocks' = [rlocks EXCEPT ![r] = [@ EXCEPT ![p] = rlocks[r][p] + n]]

Done(p, k) == merge' = [merge EXCEPT ![p] = [@ EXCEPT !.todo = merge[p].todo \ {k}]]

MergeStart(p, to, from) ==
  /\ merge[p].phase = "idle" /\ to # from
  /\ rlocks[from][p] < MaxRLocks
  /\ AddRLock(from, p, 1)
  /\ merge' = [merge EXCEPT ![p] = [phase |-> "data", to |-> to, from |-> from,
                                    todo |-> {k \in Keys : data[from][k].val # None}]]
  /\ UNCHANGED <<data, hashes, clock>>

MergeKey(p, k) ==
  LET to == merge[p].to
      from == merge[p].from
  IN  /\ merge[p].phase = "data" /\ k \in merge[p].todo
      /\ Free(to)
      /\ PutIfNewer(to, k, data[from][k])
      /\ Done(p, k)
      /\ UNCHANGED <<hashes, rlocks>>

(* The second other.mu.RLock(). *)
MergeRLock(p) ==
  LET from == merge[p].from
  IN  /\ merge[p].phase = "data" /\ merge[p].todo = {}
      /\ rlocks[from][p] < MaxRLocks
      /\ AddRLock(from, p, 1)
      /\ merge' = [merge EXCEPT ![p] = [@ EXCEPT !.phase = "hashes",
                                                 !.todo = {h \in Keys : hashes[from][h] # NoFields}]]
      /\ UNCHANGED <<data, hashes, clock>>

MergeHash(p, h) ==
  LET to == merge[p].to
      inner == hashes[merge[p].from][h]
  IN  /\ merge[p].phase = "hashes" /\ h \in merge[p].todo
      /\ Free(to)
      /\ hashes' = [hashes EXCEPT ![to][h] =
                      [f \in Fields |-> IF inner[f] # None THEN inner[f] ELSE @[f]]]
      /\ Done(p, h)
      /\ UNCHANGED <<data, clock, rlocks>>

MergeEnd(p) ==
  /\ merge[p].phase = "hashes" /\ merge[p].todo = {}
  /\ AddRLock(merge[p].from, p, -1)
  /\ merge' = [merge EXCEPT ![p] = [@ EXCEPT !.phase = "idle"]]
  /\ UNCHANGED <<data, hashes, clock>>

Write ==
  \E r \in Replicas, k \in Keys :
    \/ \E v \in Values :
         \/ Set(r, k, v)
         \/ \E ts \in 0 .. MaxTS : SetWithTS(r, k, v, ts)
         \/ \E f \in Fields : HSet(r, k, f, v)
    \/ Del(r, k)

Merge ==
  \E p \in Mergers :
    \/ \E to, from \in Replicas : MergeStart(p, to, from)
    \/ \E k \in Keys : MergeKey(p, k) \/ MergeHash(p, k)
    \/ MergeRLock(p)
    \/ MergeEnd(p)

Next == Write \/ Merge

Spec == Init /\ [][Next]_crdtVars

-----------------------------------------------------------------------------

(* One step never replaces an entry by another that is not strictly newer, *)
(* whatever Set, SetWithTS and Merge calls interleave.                     *)
OnlyNewerReplaces ==
  \A r \in Replicas, k \in Keys :
    \/ data'[r][k] = data[r][k]
    \/ data[r][k].val = None
    \/ data'[r][k].val = None
    \/ data'[r][k].ts > data[r][k].ts

(* Last writer wins, in every step. *)
LastWriterWins == [][OnlyNewerReplaces]_crdtVars

(* Merge p has copied the entry of k. *)
Merged(p, k) == merge[p].phase = "hashes" \/ (merge[p].phase = "data" /\ k \notin merge[p].todo)

(* What Merge has copied is older than the next Set at its target, even    *)
(* though others write both stores while it runs: the source cannot move   *)
(* on under Merge, and the target's clock has caught up with it.           *)
MergedIsPast ==
  \A p \in Mergers, k \in Keys :
    Merged(p, k) /\ data[merge[p].from][k].val # None =>
      data[merge[p].from][k].ts <= clock[merge[p].to]
=============================================================================
