------------------------------ MODULE SkipList ------------------------------
(***************************************************************************)
(* store/skiplist.go: the list itself, as operators on its value.  A node  *)
(* is named by its key, and None names both the head and the nil pointer   *)
(* the lists end in.  skipLevel is random, so the level of a new node is a *)
(* parameter of SkipSet.                                                   *)
(***************************************************************************)
EXTENDS KeyOrder

CONSTANT SkipMaxLevel  \* 32 in the code

NewSkipList ==
  [level |-> 1,
   node |-> [n \in {None} |-> [value |-> None, next |-> [i \in 1 .. SkipMaxLevel |-> None]]]]

(* The inner loop of every search: along level i as long as keys are less. *)
RECURSIVE Forward(_, _, _, _)
Forward(list, n, i, key) ==
  LET m == list.node[n].next[i]
  IN  IF m # None /\ Less(m, key) THEN Forward(list, m, i, key) ELSE n

(* prev[i]: where the search for key leaves level i. *)
Prev(list, key) ==
  LET prev[i \in 1 .. list.level] ==
        Forward(list, IF i = list.level THEN None ELSE prev[i + 1], i, key)
  IN  prev

(* The first node whose key is not less. *)
Seek(list, key) == list.node[Prev(list, key)[1]].next[1]

SkipGet(list, key) == IF Seek(list, key) = key THEN list.node[key].value ELSE None

SkipSet(list, key, value, level) ==
  LET below == Prev(list, key)
      prev == [i \in 1 .. level |-> IF i <= list.level THEN below[i] ELSE None]
      new == [value |-> value, next |-> [i \in 1 .. level |-> list.node[prev[i]].next[i]]]
  IN  IF Seek(list, key) = key THEN [list EXCEPT !.node[key].value = value]
      ELSE [level |-> Max({level, list.level}),
            node |-> [n \in DOMAIN list.node \cup {key} |->
                        IF n = key THEN new
                        ELSE [list.node[n] EXCEPT !.next =
                                [i \in DOMAIN @ |-> IF i <= level /\ prev[i] = n THEN key ELSE @[i]]]]]

(* The list's level stays what it was. *)
SkipDel(list, key) ==
  LET prev == Prev(list, key)
      gone == list.node[key].next
  IN  IF Seek(list, key) # key THEN list
      ELSE [list EXCEPT !.node =
              [n \in DOMAIN @ \ {key} |->
                 [@[n] EXCEPT !.next =
                    [i \in DOMAIN @ |-> IF i \in DOMAIN gone /\ prev[i] = n THEN gone[i] ELSE @[i]]]]]

(* The keys from node n on, along the lowest level. *)
RECURSIVE SkipFrom(_, _)
SkipFrom(list, n) == IF n = None THEN <<>> ELSE <<n>> \o SkipFrom(list, list.node[n].next[1])

SkipPrefixKeys(list, prefix) ==
  TakeWhile(SkipFrom(list, Seek(list, prefix)), LAMBDA k : HasPrefix(k, prefix))

SkipRangeKeys(list, start, end) ==
  SelectSeq(TakeWhile(SkipFrom(list, Seek(list, start)), LAMBDA k : ~Less(end, k)),
            LAMBDA k : ~Less(k, start))
=============================================================================
