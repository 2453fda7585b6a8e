------------------------------- MODULE BPTree -------------------------------
(***************************************************************************)
(* store/bptree.go: the B+ tree, as operators on its value.  The nodes are *)
(* a sequence, in the order in which they were made, and a pointer is a    *)
(* place in it, 0 being nil.  No node is ever freed.                       *)
(***************************************************************************)
EXTENDS KeyOrder, SequencesExt

CONSTANT BpOrder  \* 32 in the code

LeafNode(keys, values, next) ==
  [isLeaf |-> TRUE, keys |-> keys, values |-> values, children |-> <<>>, next |-> next]

InternalNode(keys, children) ==
  [isLeaf |-> FALSE, keys |-> keys, values |-> <<>>, children |-> children, next |-> 0]

NewBPTree == [root |-> 1, node |-> <<LeafNode(<<>>, <<>>, 0)>>]

(* Mutant: a key equal to a separator is looked for to its left. *)
ChildOfLeft(n, key) == n.children[Search(n.keys, LAMBDA k : ~Less(k, key))]

(* The child of an internal node on the way to a key. *)
ChildOf(n, key) == n.children[Search(n.keys, LAMBDA k : Less(key, k))]

RECURSIVE LeafBelow(_, _, _)
LeafBelow(tree, n, key) ==
  IF tree.node[n].isLeaf THEN n ELSE LeafBelow(tree, ChildOf(tree.node[n], key), key)

SearchLeaf(tree, key) == LeafBelow(tree, tree.root, key)

PlaceIn(leaf, key) == Search(leaf.keys, LAMBDA k : ~Less(k, key))

Holds(leaf, key) == PlaceIn(leaf, key) <= Len(leaf.keys) /\ leaf.keys[PlaceIn(leaf, key)] = key

BpGet(tree, key) ==
  LET leaf == tree.node[SearchLeaf(tree, key)]
  IN  IF Holds(leaf, key) THEN leaf.values[PlaceIn(leaf, key)] ELSE None

(* The leaf stays, however few keys it has left. *)
BpDel(tree, key) ==
  LET n == SearchLeaf(tree, key)
      i == PlaceIn(tree.node[n], key)
  IN  IF Holds(tree.node[n], key)
      THEN [tree EXCEPT !.node[n].keys = RemoveAt(@, i), !.node[n].values = RemoveAt(@, i)]
      ELSE tree

-----------------------------------------------------------------------------

Mid == BpOrder \div 2

(* The parent of a node, and which of its children the node is. *)
ParentOf(tree, n) == CHOOSE p \in DOMAIN tree.node : n \in ToSet(tree.node[p].children)

ChildIndex(parent, n) == CHOOSE i \in DOMAIN parent.children : parent.children[i] = n

(* insertIntoParent, and splitInternal for a parent that is then full: the *)
(* node `right` joins the tree after `left`, separated from it by key.     *)
RECURSIVE InsertIntoParent(_, _, _, _)
InsertIntoParent(tree, left, key, right) ==
  LET new == Len(tree.node) + 1
      p == ParentOf(tree, left)
      i == ChildIndex(tree.node[p], left)
      keys == InsertAt(tree.node[p].keys, i, key)
      children == InsertAt(tree.node[p].children, i + 1, right)
      full == Len(keys) >= BpOrder
      low == IF full THEN InternalNode(SubSeq(keys, 1, Mid), SubSeq(children, 1, Mid + 1))
             ELSE InternalNode(keys, children)
      high == InternalNode(SubSeq(keys, Mid + 2, Len(keys)),
                           SubSeq(children, Mid + 2, Len(children)))
  IN  CASE tree.root = left ->
             [root |-> new, node |-> Append(tree.node, InternalNode(<<key>>, <<left, right>>))]
        [] tree.root # left /\ ~full ->
             [tree EXCEPT !.node[p] = low]
        [] OTHER ->
             InsertIntoParent([tree EXCEPT !.node = Append([@ EXCEPT ![p] = low], high)],
                              p, keys[Mid + 1], new)

Split(tree, n) ==
  LET leaf == tree.node[n]
      new == Len(tree.node) + 1
      right == LeafNode(SubSeq(leaf.keys, Mid + 1, BpOrder),
                        SubSeq(leaf.values, Mid + 1, BpOrder), leaf.next)
      left == LeafNode(SubSeq(leaf.keys, 1, Mid), SubSeq(leaf.values, 1, Mid), new)
  IN  InsertIntoParent([tree EXCEPT !.node = Append([@ EXCEPT ![n] = left], right)],
                       n, right.keys[1], new)

BpSet(tree, key, value) ==
  LET n == SearchLeaf(tree, key)
      leaf == tree.node[n]
      i == PlaceIn(leaf, key)
      grown == [tree EXCEPT !.node[n].keys = InsertAt(@, i, key),
                            !.node[n].values = InsertAt(@, i, value)]
  IN  CASE Holds(leaf, key) -> [tree EXCEPT !.node[n].values[i] = value]
        [] ~Holds(leaf, key) /\ Len(leaf.keys) + 1 < BpOrder -> grown
        [] OTHER -> Split(grown, n)

-----------------------------------------------------------------------------

(* The keys of leaf n and of the leaves its next pointers lead to. *)
RECURSIVE KeysFrom(_, _)
KeysFrom(tree, n) ==
  IF n = 0 THEN <<>> ELSE tree.node[n].keys \o KeysFrom(tree, tree.node[n].next)

BpPrefixKeys(tree, prefix) ==
  SelectSeq(TakeWhile(KeysFrom(tree, SearchLeaf(tree, prefix)),
                      LAMBDA k : HasPrefix(k, prefix) \/ ~Less(prefix, k)),
            LAMBDA k : HasPrefix(k, prefix))

BpRangeKeys(tree, start, end) ==
  SelectSeq(TakeWhile(KeysFrom(tree, SearchLeaf(tree, start)), LAMBDA k : ~Less(end, k)),
            LAMBDA k : ~Less(k, start))
=============================================================================
