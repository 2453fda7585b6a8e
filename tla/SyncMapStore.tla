---------------------------- MODULE SyncMapStore ----------------------------
(***************************************************************************)
(* store/syncmap.go: strings and hashes in two sync.Maps without a lock    *)
(* around them, so Del and HSet are two steps each.  The fields of a hash  *)
(* are a sync.Map of their own, named by a member of Maps; one that nobody *)
(* points to any more may be used again.  Set is one step; Get, HGet and   *)
(* HGetAll only read.                                                      *)
(***************************************************************************)

CONSTANTS
  Clients, Keys, Fields, Values, None,
  Maps  \* the inner sync.Maps

VARIABLES
  strings,  \* s.strings
  link,     \* s.hashes: the inner map of each hash
  content,  \* the fields of each inner map
  pc,       \* "idle", "store" inside HSet or "delete" inside Del
  call,     \* the arguments of each client's current call
  held,     \* the inner map each HSet has got from LoadOrStore
  cut       \* history: the clients whose hash was deleted during their HSet

syncVars == <<strings, link, content, pc, call, held, cut>>

(* What the theorem about the store assumes of its constants. *)
SyncMapAssumption == None \notin Maps

NoFields == [f \in Fields |-> None]

TypeOK ==
  /\ strings \in [Keys -> Values \cup {None}]
  /\ link \in [Keys -> Maps \cup {None}]
  /\ content \in [Maps -> [Fields -> Values \cup {None}]]
  /\ pc \in [Clients -> {"idle", "store", "delete"}]
  /\ call \in [Clients -> [key: Keys \cup {None}, field: Fields \cup {None},
                           val: Values \cup {None}]]
  /\ held \in [Clients -> Maps \cup {None}]
  /\ cut \subseteq Clients
  /\ \A c \in Clients : pc[c] # "idle" => call[c].key \in Keys
  /\ \A c \in Clients : pc[c] = "store" => held[c] \in Maps

Init ==
  /\ strings = [k \in Keys |-> None]
  /\ link = [k \in Keys |-> None]
  /\ content = [m \in Maps |-> NoFields]
  /\ pc = [c \in Clients |-> "idle"]
  /\ call = [c \in Clients |-> [key |-> None, field |-> None, val |-> None]]
  /\ held = [c \in Clients |-> None]
  /\ cut = {}

Writing(c, h) == pc[c] = "store" /\ call[c].key = h

Set(c, k, v) ==
  /\ pc[c] = "idle"
  /\ strings' = [strings EXCEPT ![k] = v]
  /\ UNCHANGED <<link, content, pc, call, held, cut>>

(* The inner map of a hash that has one, or a new one that is then its own.*)
Unused(m) ==
  /\ \A k \in Keys : link[k] # m
  /\ \A c \in Clients : pc[c] = "store" => held[c] # m

(* Mutant: Store without looking whether the hash has a map. *)
AlwaysStore(h, m) ==
  /\ Unused(m)
  /\ link' = [link EXCEPT ![h] = m]
  /\ content' = [content EXCEPT ![m] = NoFields]

LoadOrStore(h, m) ==
  \/ link[h] = m /\ UNCHANGED <<link, content>>
  \/ /\ link[h] = None /\ Unused(m)
     /\ link' = [link EXCEPT ![h] = m]
     /\ content' = [content EXCEPT ![m] = NoFields]

HSet(c, h, f, v) ==
  /\ pc[c] = "idle"
  /\ \E m \in Maps : LoadOrStore(h, m) /\ held' = [held EXCEPT ![c] = m]
  /\ pc' = [pc EXCEPT ![c] = "store"]
  /\ call' = [call EXCEPT ![c] = [key |-> h, field |-> f, val |-> v]]
  /\ cut' = cut \ {c}
  /\ UNCHANGED strings

StoreField(c) ==
  /\ pc[c] = "store"
  /\ content' = [content EXCEPT ![held[c]][call[c].field] = call[c].val]
  /\ pc' = [pc EXCEPT ![c] = "idle"]
  /\ UNCHANGED <<strings, link, call, held, cut>>

Del(c, k) ==
  /\ pc[c] = "idle"
  /\ strings' = [strings EXCEPT ![k] = None]
  /\ pc' = [pc EXCEPT ![c] = "delete"]
  /\ call' = [call EXCEPT ![c] = [key |-> k, field |-> None, val |-> None]]
  /\ UNCHANGED <<link, content, held, cut>>

DeleteHash(c) ==
  /\ pc[c] = "delete"
  /\ link' = [link EXCEPT ![call[c].key] = None]
  /\ cut' = cut \cup {d \in Clients : Writing(d, call[c].key)}
  /\ pc' = [pc EXCEPT ![c] = "idle"]
  /\ UNCHANGED <<strings, content, call, held>>

Next ==
  \E c \in Clients :
    \/ \E k \in Keys :
         \/ \E v \in Values : Set(c, k, v) \/ \E f \in Fields : HSet(c, k, f, v)
         \/ Del(c, k)
    \/ StoreField(c)
    \/ DeleteHash(c)

Spec == Init /\ [][Next]_syncVars

(* A field is stored where readers of the hash look for it, unless a Del   *)
(* of that hash ran during the HSet: two HSets that create the hash at the *)
(* same time agree on its map, and neither write is lost.                  *)
WriteReachesHash ==
  \A c \in Clients : pc[c] = "store" /\ c \notin cut => link[call[c].key] = held[c]
=============================================================================
