------------------------------ MODULE KeyOrder ------------------------------
(***************************************************************************)
(* Keys as the ordered stores see them: Go strings, which are sequences of *)
(* bytes compared lexicographically, and the two loops those stores share. *)
(***************************************************************************)
EXTENDS Integers, Sequences, FiniteSetsExt

CONSTANT None  \* "not in the map", and the nil pointer

(* a < b on Go strings. *)
Less(a, b) ==
  \E i \in 1 .. Len(b) :
    /\ i <= Len(a) + 1
    /\ SubSeq(a, 1, i - 1) = SubSeq(b, 1, i - 1)
    /\ i > Len(a) \/ a[i] < b[i]

(* strings.HasPrefix *)
HasPrefix(k, prefix) == Len(prefix) <= Len(k) /\ SubSeq(k, 1, Len(prefix)) = prefix

InRange(k, start, end) == ~Less(k, start) /\ ~Less(end, k)

(* sort.Search: the first place whose key passes, or the one after them. *)
Search(keys, Passes(_)) == Min({i \in DOMAIN keys : Passes(keys[i])} \cup {Len(keys) + 1})

(* A loop over s that stops at the first key that does not pass. *)
TakeWhile(s, Passes(_)) == SubSeq(s, 1, Search(s, LAMBDA k : ~Passes(k)) - 1)

(* s lists the keys of S once each, in ascending order. *)
Lists(s, S) ==
  /\ {s[i] : i \in DOMAIN s} = S
  /\ \A i \in 1 .. Len(s) - 1 : Less(s[i], s[i + 1])
=============================================================================
