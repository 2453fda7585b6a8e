--------------------------------- MODULE ART ---------------------------------
(***************************************************************************)
(* store/art.go: the adaptive radix tree, as operators on its value, which *)
(* is a leaf, an inner node or None for nil.  The children of an inner     *)
(* node are a function from the bytes it has a child for: the sorted       *)
(* arrays of the two small types and the index of the third are layouts of *)
(* that function.  `slots` is len(n.children), which the third type never  *)
(* lowers.  Byte 0 leads to the key that ends at the node; keys that       *)
(* contain the byte 0 themselves are not covered.                          *)
(***************************************************************************)
EXTENDS KeyOrder, SequencesExt

CONSTANTS
  MaxByte,  \* 255 in the code
  Cap       \* what the types 1, 2 and 3 hold: 4, 16 and 48 in the code

ARTLeaf(key, value) == [isLeaf |-> TRUE, key |-> key, value |-> value]

Node4(prefix) ==
  [isLeaf |-> FALSE, prefix |-> prefix, type |-> 1, slots |-> 0, children |-> <<>>]

(* The byte of key after the first depth ones, 0 past its end. *)
ByteAfter(key, depth) == IF depth < Len(key) THEN key[depth + 1] ELSE 0

(* addChild with grow4to16, grow16to48 and grow48to256: the last type has  *)
(* a slot for every byte.                                                  *)
AddChild(n, b, child) ==
  LET slots == n.slots + 1
      grows == n.type < 4 /\ slots >= Cap[n.type]
  IN  [n EXCEPT !.children = [c \in DOMAIN @ \cup {b} |-> IF c = b THEN child ELSE @[c]],
                !.type = IF grows THEN @ + 1 ELSE @,
                !.slots = IF n.type = 4 \/ (grows /\ n.type = 3) THEN MaxByte + 1 ELSE slots]

(* Only the two small types get their slot back. *)
RemoveChild(n, b) ==
  [n EXCEPT !.children = [c \in DOMAIN @ \ {b} |-> @[c]],
            !.slots = IF n.type <= 2 /\ b \in DOMAIN n.children THEN @ - 1 ELSE @]

(* The number of bytes of n.prefix the key has after the first depth ones. *)
Matching(n, key, depth) ==
  Len(LongestCommonPrefix({n.prefix, SubSeq(key, depth + 1, Len(key))}))

(* The depth below the prefix, and whether the key goes on that far. *)
Below(n, depth) == depth + Len(n.prefix)

Matches(n, key, depth) ==
  Below(n, depth) <= Len(key) /\ Matching(n, key, depth) = Len(n.prefix)

RECURSIVE ARTGetFrom(_, _, _)
ARTGetFrom(n, key, depth) ==
  CASE n.isLeaf -> IF n.key = key THEN n.value ELSE None
    [] ~n.isLeaf /\ Matches(n, key, depth)
        /\ ByteAfter(key, Below(n, depth)) \in DOMAIN n.children ->
         ARTGetFrom(n.children[ByteAfter(key, Below(n, depth))], key, Below(n, depth) + 1)
    [] OTHER -> None

ARTGet(root, key) == IF root = None THEN None ELSE ARTGetFrom(root, key, 0)

-----------------------------------------------------------------------------

(* The leaf becomes the parent of itself and of the new key's leaf. *)
SplitARTLeaf(leaf, key, value, depth) ==
  LET shared == LongestCommonPrefix({SubSeq(leaf.key, depth + 1, Len(leaf.key)),
                                     SubSeq(key, depth + 1, Len(key))})
      at == depth + Len(shared)
  IN  AddChild(AddChild(Node4(shared), ByteAfter(leaf.key, at), leaf),
               ByteAfter(key, at), ARTLeaf(key, value))

(* Mutant: the part of the prefix after the mismatch is kept whole. *)
SplitPrefixWhole(n, key, value, depth) ==
  LET m == Matching(n, key, depth)
      lower == [n EXCEPT !.prefix = SubSeq(@, m + 1, Len(@))]
  IN  AddChild(AddChild(Node4(SubSeq(n.prefix, 1, m)), n.prefix[m + 1], lower),
               ByteAfter(key, depth + m), ARTLeaf(key, value))

SplitPrefixAt(n, key, value, depth) ==
  LET m == Matching(n, key, depth)
      lower == [n EXCEPT !.prefix = SubSeq(@, m + 2, Len(@))]
  IN  AddChild(AddChild(Node4(SubSeq(n.prefix, 1, m)), n.prefix[m + 1], lower),
               ByteAfter(key, depth + m), ARTLeaf(key, value))

(* What splitPrefix has made of n when it calls Set, which waits for the   *)
(* lock its own caller holds.                                              *)
SplitPrefix(n) == AddChild(Node4(<<>>), n.prefix[1], n)

RECURSIVE ARTSetFrom(_, _, _, _)
ARTSetFrom(n, key, value, depth) ==
  LET at == Below(n, depth)
      b == ByteAfter(key, at)
  IN  CASE n.isLeaf -> IF n.key = key THEN ARTLeaf(key, value)
                       ELSE SplitARTLeaf(n, key, value, depth)
        [] ~n.isLeaf /\ at > Len(key) -> SplitPrefix(n)
        [] ~n.isLeaf /\ at <= Len(key) /\ ~Matches(n, key, depth) ->
             SplitPrefixAt(n, key, value, depth)
        [] OTHER ->
             IF b \in DOMAIN n.children
             THEN [n EXCEPT !.children[b] = ARTSetFrom(@, key, value, at + 1)]
             ELSE AddChild(n, b, ARTLeaf(key, value))

ARTSet(root, key, value) ==
  IF root = None THEN ARTLeaf(key, value) ELSE ARTSetFrom(root, key, value, 0)

(* Set comes to a prefix that is longer than the rest of the key. *)
RECURSIVE OutrunsFrom(_, _, _)
OutrunsFrom(n, key, depth) ==
  LET b == ByteAfter(key, Below(n, depth))
  IN  ~n.isLeaf /\ \/ Below(n, depth) > Len(key)
                   \/ /\ Matches(n, key, depth)
                      /\ b \in DOMAIN n.children
                      /\ OutrunsFrom(n.children[b], key, Below(n, depth) + 1)

PrefixOutruns(root, key) == root # None /\ OutrunsFrom(root, key, 0)

(* delNode: the child without whom n is removed is the one for the key's   *)
(* byte, whichever child was searched; only a node of the two small types  *)
(* can have no slots left, and is removed as well.                         *)
RECURSIVE DelNode(_, _, _)
DelNode(n, key, depth) ==
  LET at == Below(n, depth)
      b == ByteAfter(key, at)
      c == IF b \in DOMAIN n.children THEN b ELSE 0
      child == DelNode(n.children[c], key, at + 1)
      rest == IF child = None THEN RemoveChild(n, b) ELSE [n EXCEPT !.children[c] = child]
  IN  CASE n.isLeaf -> IF n.key = key THEN None ELSE n
        [] ~n.isLeaf /\ (~Matches(n, key, depth) \/ c \notin DOMAIN n.children) -> n
        [] OTHER -> IF rest.slots = 0 THEN None ELSE rest

ARTDel(root, key) == IF root = None THEN None ELSE DelNode(root, key, 0)

-----------------------------------------------------------------------------

(* The keys below n, child by child in the order of the bytes. *)
RECURSIVE CollectKeys(_)
CollectKeys(n) ==
  CASE n = None -> <<>>
    [] n # None /\ n.isLeaf -> <<n.key>>
    [] OTHER -> FlattenSeq([i \in 1 .. MaxByte + 1 |->
                  IF i - 1 \in DOMAIN n.children THEN CollectKeys(n.children[i - 1]) ELSE <<>>])

RECURSIVE PrefixKeysFrom(_, _, _)
PrefixKeysFrom(n, prefix, depth) ==
  LET at == Below(n, depth)
      b == ByteAfter(prefix, at)
  IN  CASE n.isLeaf -> IF HasPrefix(n.key, prefix) THEN <<n.key>> ELSE <<>>
        [] ~n.isLeaf /\ at >= Len(prefix) /\ Matching(n, prefix, depth) = Len(prefix) - depth ->
             CollectKeys(n)
        [] ~n.isLeaf /\ at < Len(prefix) /\ Matches(n, prefix, depth) /\ b \in DOMAIN n.children ->
             PrefixKeysFrom(n.children[b], prefix, at + 1)
        [] OTHER -> <<>>

ARTPrefixKeys(root, prefix) ==
  IF root = None THEN <<>> ELSE PrefixKeysFrom(root, prefix, 0)

(* collectRange visits every leaf; sort.Strings puts the keys in order. *)
ARTRangeKeys(root, start, end) ==
  SortSeq(SelectSeq(CollectKeys(root), LAMBDA k : InRange(k, start, end)), Less)
=============================================================================
