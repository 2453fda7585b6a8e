--------------------------- MODULE SnapshotProofs ---------------------------
(***************************************************************************)
(* A snapshot file of RDB gives back what memory had when it was written,  *)
(* whole or cut off, for any keys, fields and values and any number of     *)
(* entries: a theorem about Lifecycle.                                     *)
(***************************************************************************)
EXTENDS LifecycleProofs, FiniteSetTheorems

-----------------------------------------------------------------------------
(* The layout of RDB's snapshot file.                                      *)

Strings == Values \cup Keys \cup Fields \cup {"FLXCRDB"}

Tokens == [count : Nat] \cup [string : Strings]

(* A count and a string are read as they were written. *)
LEMMA TokenParts ==
  /\ \A n \in Nat : Count(n) \in Tokens /\ Count(n).count = n
  /\ \A s \in Strings : Str(s) \in Tokens /\ Str(s).string = s
<1>1. ASSUME NEW n \in Nat PROVE Count(n) \in Tokens /\ Count(n).count = n
  BY Zenon DEF Count, Tokens
<1>2. ASSUME NEW s \in Strings PROVE Str(s) \in Tokens /\ Str(s).string = s
  BY Zenon DEF Str, Tokens
<1> QED BY Zenon, <1>1, <1>2

(* range goes through all the keys of a map, and through nothing else. *)
LEMMA OrderKeys ==
  ASSUME NEW S, IsFiniteSet(S), NEW s \in Orders(S)
  PROVE  s \in Seq(S) /\ Range(s) = S
<1>1. Cardinality(S) \in Nat
  BY Zenon, FS_CardinalityType
<1>2. s \in [1 .. Cardinality(S) -> S] /\ \A x \in S : \E i \in 1 .. Cardinality(S) : s[i] = x
  BY Zenon DEF Orders, Bijection, Surjection
<1>3. s \in Seq(S)
  BY <1>1, <1>2
<1>4. Range(s) = S
  BY Zenon, <1>2 DEF Range
<1> QED BY Zenon, <1>3, <1>4

(* After the first o tokens of t stand the count of the entries and the    *)
(* entries of the map e, in the order of keys.                             *)
EntriesAt(t, o, e, keys) ==
  /\ o + 1 + 2 * Len(keys) <= Len(t)
  /\ t[o + 1] = Count(Len(keys))
  /\ \A i \in 1 .. Len(keys) :
       t[o + 2 * i] = Str(keys[i]) /\ t[o + 2 * i + 1] = Str(e[keys[i]])

(* What writeSnapshot writes of a map. *)
LEMMA EntriesWritten ==
  ASSUME NEW e, NEW K \in SUBSET Strings, NEW keys \in Seq(K), \A k \in K : e[k] \in Strings
  PROVE  /\ WriteEntries(e, keys) \in Seq(Tokens)
         /\ Len(WriteEntries(e, keys)) = 1 + 2 * Len(keys)
         /\ EntriesAt(WriteEntries(e, keys), 0, e, keys)
<1> DEFINE N == Len(keys)
           pairs == [i \in DOMAIN keys |-> <<Str(keys[i]), Str(e[keys[i]])>>]
           all == AppendAll(pairs)
<1>1. N \in Nat /\ DOMAIN keys = 1 .. N /\ \A i \in 1 .. N : keys[i] \in K /\ keys[i] \in Strings
  BY LenProperties
<1>2. ASSUME NEW i \in 1 .. N
      PROVE  /\ pairs[i] = <<Str(keys[i]), Str(e[keys[i]])>>
             /\ Str(keys[i]) \in Tokens /\ Str(e[keys[i]]) \in Tokens
  BY Zenon, <1>1, TokenParts
<1>3. ASSUME NEW i \in 1 .. N
      PROVE  /\ pairs[i] \in Seq(Tokens) /\ Len(pairs[i]) = 2
             /\ pairs[i][1] = Str(keys[i]) /\ pairs[i][2] = Str(e[keys[i]])
  <2> DEFINE a == Str(keys[i])
             b == Str(e[keys[i]])
  <2>1. pairs[i] = <<a, b>> /\ a \in Tokens /\ b \in Tokens
    BY Zenon, <1>2
  <2> HIDE DEF a, b
  <2>2. <<a, b>> \in Seq(Tokens) /\ Len(<<a, b>>) = 2 /\ <<a, b>>[1] = a /\ <<a, b>>[2] = b
    BY <2>1
  <2> QED BY Zenon, <2>1, <2>2 DEF a, b
<1>4. pairs \in Seq(Seq(Tokens)) /\ Len(pairs) = N
  <2>1. pairs = [i \in 1 .. N |-> pairs[i]]
    BY Zenon, <1>1
  <2> HIDE DEF pairs, N
  <2>2. pairs \in [1 .. N -> Seq(Tokens)]
    BY Zenon, <1>3, <2>1
  <2> QED BY <1>1, <2>2
<1> HIDE DEF pairs, N
<1>5. all \in Seq(Tokens) /\ \E at \in [0 .. N -> Nat] : Laid(all, pairs, at)
  BY Zenon, <1>4, AppendLaid
<1>6. PICK at \in [0 .. N -> Nat] : Laid(all, pairs, at)
  BY Zenon, <1>5
<1> HIDE DEF all
<1>7. /\ at[0] = 0 /\ at[N] = Len(all)
      /\ \A i \in 1 .. N : at[i] = at[i - 1] + 2 /\ \A j \in 1 .. 2 : all[at[i - 1] + j] = pairs[i][j]
  BY Zenon, <1>3, <1>4, <1>6 DEF Laid
<1> DEFINE P == {i \in 0 .. N : at[i] = 2 * i}
<1>8. \A i \in 0 .. N : i \in P
  <2>1. 0 \in P
    BY <1>1, <1>7
  <2>2. ASSUME NEW i \in 0 .. N - 1, i \in P PROVE i + 1 \in P
    <3>1. i + 1 \in 1 .. N /\ (i + 1) - 1 = i /\ i + 1 \in 0 .. N
      BY <1>1
    <3>2. at[i + 1] = at[i] + 2 /\ at[i] = 2 * i
      BY Zenon, <1>7, <2>2, <3>1
    <3> QED BY <1>1, <3>1, <3>2
  <2> HIDE DEF P
  <2> QED BY Zenon, <1>1, <2>1, <2>2, Induction
<1>9. Len(all) = 2 * N
  <2>1. N \in 0 .. N
    BY <1>1
  <2> QED BY Zenon, <1>7, <1>8, <2>1
<1>10. ASSUME NEW i \in 1 .. N
       PROVE  all[2 * i - 1] = Str(keys[i]) /\ all[2 * i] = Str(e[keys[i]])
  <2>1. i - 1 \in 0 .. N /\ 2 * (i - 1) + 1 = 2 * i - 1 /\ 2 * (i - 1) + 2 = 2 * i /\ 1 \in 1 .. 2 /\ 2 \in 1 .. 2
    BY <1>1
  <2>2. at[i - 1] = 2 * (i - 1)
    BY Zenon, <1>8, <2>1
  <2>3. all[at[i - 1] + 1] = pairs[i][1] /\ all[at[i - 1] + 2] = pairs[i][2]
    BY Zenon, <1>7, <2>1
  <2>4. at[i - 1] + 1 = 2 * i - 1 /\ at[i - 1] + 2 = 2 * i
    BY Zenon, <2>1, <2>2
  <2> QED BY Zenon, <1>3, <2>3, <2>4
<1> DEFINE c == Count(N)
           w == <<c>> \o all
<1>11. c \in Tokens
  BY Zenon, <1>1, TokenParts
<1>12. WriteEntries(e, keys) = w
  BY Zenon DEF WriteEntries, N, all, pairs
<1> HIDE DEF c
<1>13. /\ w \in Seq(Tokens) /\ Len(w) = 1 + 2 * N /\ w[1] = c
       /\ \A j \in 1 .. 2 * N : w[1 + j] = all[j]
  BY <1>1, <1>5, <1>9, <1>11
<1> HIDE DEF w
<1>14. ASSUME NEW i \in 1 .. N PROVE w[2 * i] = all[2 * i - 1] /\ w[2 * i + 1] = all[2 * i]
  <2>1. /\ 2 * i - 1 \in 1 .. 2 * N /\ 2 * i \in 1 .. 2 * N
        /\ 1 + (2 * i - 1) = 2 * i /\ 1 + 2 * i = 2 * i + 1
    BY <1>1
  <2> QED BY Zenon, <1>13, <2>1
<1>15. 0 + 1 + 2 * N <= Len(w) /\ 0 + 1 = 1 /\ \A i \in 1 .. N : 0 + 2 * i = 2 * i
  BY <1>1, <1>13
<1>16. EntriesAt(w, 0, e, keys)
  BY Zenon, <1>10, <1>13, <1>14, <1>15 DEF EntriesAt, N, c
<1> QED BY Zenon, <1>12, <1>13, <1>16 DEF N

(* t holds w after its first o tokens. *)
Holds(t, o, w) == o + Len(w) <= Len(t) /\ \A j \in 1 .. Len(w) : t[o + j] = w[j]

(* Entries that are written after something else stand after it. *)
LEMMA EntriesMove ==
  ASSUME NEW t, NEW w, NEW o \in Nat, NEW p \in Nat, NEW e, NEW n \in Nat, NEW keys, Len(keys) = n,
         Len(t) \in Nat, Len(w) \in Nat, EntriesAt(w, p, e, keys), Holds(t, o, w)
  PROVE  EntriesAt(t, o + p, e, keys)
<1>1. /\ p + 1 + 2 * n <= Len(w) /\ w[p + 1] = Count(n) /\ o + Len(w) <= Len(t)
      /\ \A i \in 1 .. n : w[p + 2 * i] = Str(keys[i]) /\ w[p + 2 * i + 1] = Str(e[keys[i]])
      /\ \A j \in 1 .. Len(w) : t[o + j] = w[j]
  BY Zenon DEF EntriesAt, Holds
<1>2. (o + p) + 1 + 2 * n <= Len(t)
  BY <1>1
<1>3. p + 1 \in 1 .. Len(w) /\ (o + p) + 1 = o + (p + 1)
  BY <1>1
<1>4. ASSUME NEW i \in 1 .. n
      PROVE  /\ p + 2 * i \in 1 .. Len(w) /\ (o + p) + 2 * i = o + (p + 2 * i)
             /\ p + 2 * i + 1 \in 1 .. Len(w) /\ (o + p) + 2 * i + 1 = o + (p + 2 * i + 1)
  BY <1>1
<1>5. t[(o + p) + 1] = Count(n)
  BY Zenon, <1>1, <1>3
<1>6. ASSUME NEW i \in 1 .. n
      PROVE  t[(o + p) + 2 * i] = Str(keys[i]) /\ t[(o + p) + 2 * i + 1] = Str(e[keys[i]])
  <2>1. t[o + (p + 2 * i)] = w[p + 2 * i] /\ t[o + (p + 2 * i + 1)] = w[p + 2 * i + 1]
    BY Zenon, <1>1, <1>4
  <2> QED BY Zenon, <1>1, <1>4, <2>1
<1> QED BY Zenon, <1>2, <1>5, <1>6 DEF EntriesAt

(* After the first o tokens of t stands the hash e of key k. *)
HashAt(t, o, e, k, fields) == t[o + 1] = Str(k) /\ EntriesAt(t, o + 1, e, fields)

(* What writeSnapshot writes of a hash. *)
LEMMA HashWritten ==
  ASSUME NEW e, NEW K \in SUBSET Strings, NEW fields \in Seq(K), \A k \in K : e[k] \in Strings,
         NEW k \in Strings
  PROVE  /\ WriteHash(e, k, fields) \in Seq(Tokens)
         /\ Len(WriteHash(e, k, fields)) = 2 + 2 * Len(fields)
         /\ HashAt(WriteHash(e, k, fields), 0, e, k, fields)
<1> DEFINE c == Str(k)
           w == WriteEntries(e, fields)
           t == <<c>> \o w
           n == Len(fields)
<1>1. w \in Seq(Tokens) /\ Len(w) = 1 + 2 * n /\ EntriesAt(w, 0, e, fields) /\ n \in Nat
  BY Zenon, EntriesWritten, LenProperties
<1>2. c \in Tokens
  BY Zenon, TokenParts
<1>3. WriteHash(e, k, fields) = t
  BY Zenon DEF WriteHash
<1> HIDE DEF c, w, n
<1>4. t \in Seq(Tokens) /\ Len(t) = 2 + 2 * n /\ t[0 + 1] = c /\ \A j \in 1 .. Len(w) : t[1 + j] = w[j]
  BY <1>1, <1>2
<1> HIDE DEF t
<1>5. 1 + Len(w) <= Len(t) /\ Len(t) \in Nat /\ Len(w) \in Nat /\ 1 + 0 = 1 /\ 0 + 1 = 1
  BY <1>1, <1>4
<1>6. Holds(t, 1, w)
  BY Zenon, <1>4, <1>5 DEF Holds
<1>7. EntriesAt(t, 1 + 0, e, fields)
  BY Zenon, <1>1, <1>5, <1>6, EntriesMove DEF n
<1>8. HashAt(t, 0, e, k, fields)
  BY Zenon, <1>4, <1>5, <1>7 DEF HashAt, c
<1> QED BY Zenon, <1>3, <1>4, <1>8 DEF n

(* So does a hash. *)
LEMMA HashMove ==
  ASSUME NEW t, NEW w, NEW o \in Nat, NEW e, NEW k, NEW n \in Nat, NEW fields, Len(fields) = n,
         Len(t) \in Nat, Len(w) = 2 + 2 * n, HashAt(w, 0, e, k, fields), Holds(t, o, w)
  PROVE  HashAt(t, o, e, k, fields)
<1>1. w[0 + 1] = Str(k) /\ EntriesAt(w, 0 + 1, e, fields)
  BY Zenon DEF HashAt
<1>2. 0 + 1 = 1 /\ 1 \in Nat /\ 1 \in 1 .. Len(w) /\ Len(w) \in Nat
  OBVIOUS
<1>3. EntriesAt(t, o + 1, e, fields)
  BY Zenon, <1>1, <1>2, EntriesMove
<1>4. t[o + 1] = w[1]
  BY Zenon, <1>2 DEF Holds
<1> QED BY Zenon, <1>1, <1>2, <1>3, <1>4 DEF HashAt

(* t is p and, after it, q. *)
Joint(t, p, q, X) ==
  /\ t \in Seq(X) /\ Len(t) = Len(p) + Len(q)
  /\ \A j \in 1 .. Len(p) : t[j] = p[j]
  /\ \A j \in 1 .. Len(q) : t[Len(p) + j] = q[j]

(* That is what \o gives. *)
LEMMA TwoParts ==
  ASSUME NEW X, NEW p \in Seq(X), NEW q \in Seq(X)
  PROVE  Joint(p \o q, p, q, X)
BY DEF Joint

(* t is p, then q, then c, then r. *)
FourJoint(t, p, q, c, r, X) ==
  /\ t \in Seq(X) /\ Len(t) = Len(p) + Len(q) + 1 + Len(r)
  /\ \A j \in 1 .. Len(q) : t[Len(p) + j] = q[j]
  /\ t[Len(p) + Len(q) + 1] = c
  /\ \A j \in 1 .. Len(r) : t[(Len(p) + Len(q) + 1) + j] = r[j]

(* So four sequences stand that are put together. *)
LEMMA FourParts ==
  ASSUME NEW X, NEW p \in Seq(X), NEW q \in Seq(X), NEW c \in X, NEW r \in Seq(X), NEW t,
         t = p \o q \o <<c>> \o r
  PROVE  FourJoint(t, p, q, c, r, X)
<1> DEFINE pq == p \o q
           pqc == pq \o <<c>>
<1>1. Len(p) \in Nat /\ Len(q) \in Nat /\ Len(r) \in Nat
  BY LenProperties
<1>2. /\ pq \in Seq(X) /\ Len(pq) = Len(p) + Len(q)
      /\ \A j \in 1 .. Len(q) : pq[Len(p) + j] = q[j]
  <2>1. Joint(pq, p, q, X)
    BY Zenon, TwoParts
  <2> HIDE DEF pq
  <2> QED BY Zenon, <2>1 DEF Joint
<1> HIDE DEF pq
<1>3. /\ pqc \in Seq(X) /\ Len(pqc) = Len(pq) + 1 /\ pqc[Len(pq) + 1] = c
      /\ \A j \in 1 .. Len(pq) : pqc[j] = pq[j]
  <2>1. <<c>> \in Seq(X) /\ Len(<<c>>) = 1 /\ 1 \in 1 .. 1 /\ <<c>>[1] = c
    OBVIOUS
  <2>2. Joint(pqc, pq, <<c>>, X)
    BY Zenon, <1>2, <2>1, TwoParts
  <2> HIDE DEF pqc
  <2> QED BY Zenon, <2>1, <2>2 DEF Joint
<1>4. t = pqc \o r
  BY Zenon DEF pq
<1> HIDE DEF pqc
<1>5. /\ t \in Seq(X) /\ Len(t) = Len(pqc) + Len(r)
      /\ \A j \in 1 .. Len(pqc) : t[j] = pqc[j]
      /\ \A j \in 1 .. Len(r) : t[Len(pqc) + j] = r[j]
  <2>1. Joint(t, pqc, r, X)
    BY Zenon, <1>3, <1>4, TwoParts
  <2> QED BY Zenon, <2>1 DEF Joint
<1>6. Len(pqc) = Len(p) + Len(q) + 1 /\ Len(t) = Len(p) + Len(q) + 1 + Len(r)
  BY <1>1, <1>2, <1>3, <1>5
<1>7. ASSUME NEW j \in 1 .. Len(q) PROVE t[Len(p) + j] = q[j]
  <2>1. Len(p) + j \in 1 .. Len(pqc) /\ Len(p) + j \in 1 .. Len(pq)
    BY <1>1, <1>2, <1>6
  <2> QED BY Zenon, <1>2, <1>3, <1>5, <2>1
<1>8. t[Len(p) + Len(q) + 1] = c
  <2>1. Len(p) + Len(q) + 1 \in 1 .. Len(pqc) /\ Len(p) + Len(q) + 1 = Len(pq) + 1
    BY <1>1, <1>2, <1>6
  <2> QED BY Zenon, <1>3, <1>5, <2>1
<1> QED BY Zenon, <1>5, <1>6, <1>7, <1>8 DEF FourJoint

(* The values of a store are strings, and its keys are. *)
LEMMA StoredParts ==
  ASSUME NEW m \in Stored
  PROVE  /\ Present(m.strings) \subseteq Keys /\ \A k \in Present(m.strings) : m.strings[k] \in Values
         /\ HashKeys(m) \subseteq Keys
         /\ \A k \in Keys : /\ Present(m.hashes[k]) \subseteq Fields
                            /\ \A f \in Present(m.hashes[k]) : m.hashes[k][f] \in Values
<1>1. m.strings \in [Keys -> Slot] /\ m.hashes \in [Keys -> [Fields -> Slot]]
  BY Zenon DEF Stored
<1>2. ASSUME NEW S, NEW f \in [S -> Slot]
      PROVE  Present(f) \subseteq S /\ \A k \in Present(f) : f[k] \in Values
  BY Zenon DEF Present, Slot
<1>3. HashKeys(m) \subseteq Keys
  BY Zenon DEF HashKeys
<1> QED BY Zenon, <1>1, <1>2, <1>3

(* The hashes stand in w; the i-th ends at at[i]. *)
HashesAt(w, m, hs, fs, at) ==
  \A i \in 1 .. Len(hs) :
    /\ HashAt(w, at[i - 1], m.hashes[hs[i]], hs[i], fs[hs[i]])
    /\ at[i] = at[i - 1] + 2 + 2 * Len(fs[hs[i]])

(* So they are written, one after the other. *)
LEMMA HashesWritten ==
  ASSUME NEW m \in Stored, NEW hs \in Seq(Keys), NEW fs,
         \A k \in Keys : fs[k] \in Seq(Fields) /\ Range(fs[k]) = Present(m.hashes[k]),
         NEW w, w = AppendAll([i \in DOMAIN hs |-> WriteHash(m.hashes[hs[i]], hs[i], fs[hs[i]])])
  PROVE  /\ w \in Seq(Tokens)
         /\ \E at \in [0 .. Len(hs) -> Nat] :
              at[0] = 0 /\ at[Len(hs)] = Len(w) /\ HashesAt(w, m, hs, fs, at)
<1> DEFINE N == Len(hs)
           e(i) == m.hashes[hs[i]]
           g(i) == fs[hs[i]]
           part == [i \in DOMAIN hs |-> WriteHash(e(i), hs[i], g(i))]
<1>1. N \in Nat /\ DOMAIN hs = 1 .. N /\ \A i \in 1 .. N : hs[i] \in Keys /\ hs[i] \in Strings
  BY LenProperties DEF Strings
<1>2. ASSUME NEW i \in 1 .. N
      PROVE  /\ part[i] \in Seq(Tokens) /\ Len(part[i]) = 2 + 2 * Len(g(i)) /\ Len(g(i)) \in Nat
             /\ HashAt(part[i], 0, e(i), hs[i], g(i))
  <2> DEFINE K == Present(e(i))
  <2>1. hs[i] \in Keys /\ hs[i] \in Strings /\ g(i) \in Seq(Fields) /\ Range(g(i)) = K
    BY Zenon, <1>1
  <2>2. g(i) \in Seq(K) /\ Len(g(i)) \in Nat
    BY Zenon, <2>1, SeqOfRange, LenProperties
  <2>3. K \in SUBSET Strings /\ \A k \in K : e(i)[k] \in Strings
    BY Zenon, <2>1, StoredParts DEF Strings
  <2>4. part[i] = WriteHash(e(i), hs[i], g(i))
    BY Zenon, <1>1
  <2> HIDE DEF K, e, g, part
  <2> QED BY Zenon, <2>1, <2>2, <2>3, <2>4, HashWritten
<1>3. part \in Seq(Seq(Tokens)) /\ Len(part) = N
  <2>1. part = [i \in 1 .. N |-> part[i]]
    BY Zenon, <1>1
  <2> HIDE DEF part, N
  <2>2. part \in [1 .. N -> Seq(Tokens)]
    BY Zenon, <1>2, <2>1
  <2> QED BY <1>1, <2>2
<1>4. w = AppendAll(part)
  BY Zenon
<1> HIDE DEF part, N, e, g
<1>5. w \in Seq(Tokens) /\ \E at \in [0 .. N -> Nat] : Laid(w, part, at)
  BY Zenon, <1>3, <1>4, AppendLaid
<1>6. PICK at \in [0 .. N -> Nat] : Laid(w, part, at)
  BY Zenon, <1>5
<1>7. /\ at[0] = 0 /\ at[N] = Len(w) /\ Len(w) \in Nat
      /\ \A i \in 1 .. N : /\ at[i] = at[i - 1] + Len(part[i])
                          /\ \A j \in 1 .. Len(part[i]) : w[at[i - 1] + j] = part[i][j]
  BY Zenon, <1>3, <1>5, <1>6, LenProperties DEF Laid
<1>8. ASSUME NEW i \in 1 .. N
      PROVE  i - 1 \in 0 .. N /\ i \in 0 .. N /\ at[i - 1] \in Nat /\ at[i] \in Nat /\ at[i - 1] <= at[i]
  <2>1. i - 1 \in 0 .. N /\ i \in 0 .. N
    BY <1>1
  <2>2. at[i - 1] \in Nat /\ at[i] \in Nat
    BY Zenon, <2>1
  <2>3. at[i] = at[i - 1] + (2 + 2 * Len(g(i))) /\ Len(g(i)) \in Nat
    BY Zenon, <1>2, <1>7
  <2> QED BY <2>1, <2>2, <2>3
<1>9. ASSUME NEW i \in 1 .. N PROVE at[i] <= Len(w)
  <2>1. at \in [0 .. N -> Int] /\ N \in 0 .. N
    BY <1>1
  <2> QED BY Zenon, <1>1, <1>7, <1>8, <2>1, Monotone
<1>10. ASSUME NEW i \in 1 .. N
       PROVE  /\ HashAt(w, at[i - 1], e(i), hs[i], g(i))
              /\ at[i] = at[i - 1] + 2 + 2 * Len(g(i))
  <2>1. at[i] = at[i - 1] + (2 + 2 * Len(g(i)))
    BY Zenon, <1>2, <1>7
  <2>2. at[i] = at[i - 1] + 2 + 2 * Len(g(i))
    BY <1>2, <1>8, <2>1
  <2>3. Holds(w, at[i - 1], part[i])
    BY Zenon, <1>7, <1>9 DEF Holds
  <2>4. HashAt(w, at[i - 1], e(i), hs[i], g(i))
    BY Zenon, <1>2, <1>7, <1>8, <2>3, HashMove
  <2> QED BY Zenon, <2>2, <2>4
<1> QED BY Zenon, <1>5, <1>7, <1>10 DEF HashesAt, N, e, g

(* What RDB's maps have: finitely many entries, since Write adds one. *)
Finite(m) ==
  /\ IsFiniteSet(Present(m.strings)) /\ IsFiniteSet(HashKeys(m))
  /\ \A k \in Keys : IsFiniteSet(Present(m.hashes[k]))

(* The snapshot t of m has the strings in the order ks, the hashes in the  *)
(* order hs and their fields in the orders fs; at[i] is the end of the     *)
(* i-th hash.                                                              *)
LaidOut(t, m, ks, hs, fs, at) ==
  /\ t \in Seq(Tokens)
  /\ ks \in Seq(Keys) /\ Range(ks) = Present(m.strings)
  /\ hs \in Seq(Keys) /\ Range(hs) = HashKeys(m)
  /\ \A k \in Keys : fs[k] \in Seq(Fields) /\ Range(fs[k]) = Present(m.hashes[k])
  /\ EntriesAt(t, 2, m.strings, ks)
  /\ t[4 + 2 * Len(ks)] = Count(Len(hs))
  /\ at \in [0 .. Len(hs) -> Nat] /\ at[0] = 4 + 2 * Len(ks) /\ at[Len(hs)] = Len(t)
  /\ HashesAt(t, m, hs, fs, at)

(* Every snapshot of m is laid out in some order. *)
LEMMA SnapshotLaid ==
  ASSUME NEW m \in Stored, Finite(m), NEW t \in WriteSnapshot(m)
  PROVE  \E ks, hs, fs, at : LaidOut(t, m, ks, hs, fs, at)
<1>1. \E ks \in Orders(Present(m.strings)), hs \in Orders(HashKeys(m)), fs \in FieldOrders(m) :
        t = SnapshotInOrder(m, ks, hs, fs)
  BY SMT DEF WriteSnapshot
<1>2. PICK ks \in Orders(Present(m.strings)), hs \in Orders(HashKeys(m)), fs \in FieldOrders(m) :
        t = SnapshotInOrder(m, ks, hs, fs)
  BY Zenon, <1>1
<1> DEFINE K == Present(m.strings)
           N == Len(ks)
           Nh == Len(hs)
<1>3. ks \in Seq(K) /\ Range(ks) = K /\ ks \in Seq(Keys) /\ N \in Nat
  <2>1. ks \in Seq(K) /\ Range(ks) = K
    BY Zenon, OrderKeys DEF Finite
  <2>2. K \subseteq Keys
    BY Zenon, StoredParts
  <2> HIDE DEF K
  <2> QED BY Zenon, <2>1, <2>2, SeqMonotonic, LenProperties
<1>4. hs \in Seq(Keys) /\ Range(hs) = HashKeys(m) /\ Nh \in Nat
  <2> DEFINE H == HashKeys(m)
  <2>1. hs \in Seq(H) /\ Range(hs) = H /\ H \subseteq Keys
    BY Zenon, OrderKeys, StoredParts DEF Finite
  <2> HIDE DEF H
  <2> QED BY Zenon, <2>1, SeqMonotonic, LenProperties DEF H
<1>5. \A k \in Keys : fs[k] \in Seq(Fields) /\ Range(fs[k]) = Present(m.hashes[k])
  <2> SUFFICES ASSUME NEW k \in Keys PROVE fs[k] \in Seq(Fields) /\ Range(fs[k]) = Present(m.hashes[k])
    OBVIOUS
  <2> DEFINE F == Present(m.hashes[k])
  <2>1. fs[k] \in Orders(F) /\ IsFiniteSet(F) /\ F \subseteq Fields
    BY Zenon, StoredParts DEF FieldOrders, Finite
  <2> HIDE DEF F
  <2>2. fs[k] \in Seq(F) /\ Range(fs[k]) = F
    BY Zenon, <2>1, OrderKeys
  <2> QED BY Zenon, <2>1, <2>2, SeqMonotonic DEF F
<1> DEFINE head == <<Str("FLXCRDB"), Count(1)>>
           body == WriteEntries(m.strings, ks)
           c == Count(Nh)
           tail == AppendAll([i \in DOMAIN hs |-> WriteHash(m.hashes[hs[i]], hs[i], fs[hs[i]])])
<1>6. head \in Seq(Tokens) /\ Len(head) = 2
  <2> DEFINE a == Str("FLXCRDB")
             b == Count(1)
  <2>1. "FLXCRDB" \in Strings /\ 1 \in Nat
    BY DEF Strings
  <2>2. a \in Tokens /\ b \in Tokens
    BY Zenon, <2>1, TokenParts
  <2> HIDE DEF a, b
  <2>3. <<a, b>> \in Seq(Tokens) /\ Len(<<a, b>>) = 2
    BY <2>2
  <2> QED BY Zenon, <2>3 DEF a, b
<1>7. body \in Seq(Tokens) /\ Len(body) = 1 + 2 * N /\ EntriesAt(body, 0, m.strings, ks)
  <2>1. K \in SUBSET Strings /\ \A k \in K : m.strings[k] \in Strings
    BY Zenon, StoredParts DEF Strings
  <2> HIDE DEF K
  <2> QED BY Zenon, <1>3, <2>1, EntriesWritten
<1>8. c \in Tokens
  BY Zenon, <1>4, TokenParts
<1>9. /\ tail \in Seq(Tokens)
      /\ \E at \in [0 .. Nh -> Nat] : at[0] = 0 /\ at[Nh] = Len(tail) /\ HashesAt(tail, m, hs, fs, at)
  BY Zenon, <1>4, <1>5, HashesWritten
<1>10. PICK at \in [0 .. Nh -> Nat] : at[0] = 0 /\ at[Nh] = Len(tail) /\ HashesAt(tail, m, hs, fs, at)
  BY Zenon, <1>9
<1>11. t = head \o body \o <<c>> \o tail
  BY Zenon, <1>2 DEF SnapshotInOrder
<1> HIDE DEF head, body, c, tail, K, N, Nh
<1> DEFINE o == 4 + 2 * N
<1>12. /\ t \in Seq(Tokens) /\ Len(t) = Len(head) + Len(body) + 1 + Len(tail)
       /\ \A j \in 1 .. Len(body) : t[Len(head) + j] = body[j]
       /\ t[Len(head) + Len(body) + 1] = c
       /\ \A j \in 1 .. Len(tail) : t[(Len(head) + Len(body) + 1) + j] = tail[j]
  <2>1. FourJoint(t, head, body, c, tail, Tokens)
    BY Zenon, <1>6, <1>7, <1>8, <1>9, <1>11, FourParts
  <2> QED BY Zenon, <2>1 DEF FourJoint
<1>13. /\ Len(head) + Len(body) + 1 = o /\ Len(t) = o + Len(tail) /\ o \in Nat
       /\ 2 + Len(body) <= Len(t) /\ 2 + 0 = 2 /\ Len(t) \in Nat /\ Len(body) \in Nat /\ Len(tail) \in Nat
       /\ o + Len(tail) <= Len(t)
  BY <1>3, <1>6, <1>7, <1>9, <1>12, LenProperties
<1> HIDE DEF o
<1>14. EntriesAt(t, 2, m.strings, ks)
  <2>1. Holds(t, 2, body)
    BY Zenon, <1>6, <1>12, <1>13 DEF Holds
  <2>2. 0 \in Nat /\ 2 \in Nat
    OBVIOUS
  <2>3. EntriesAt(t, 2 + 0, m.strings, ks)
    BY Zenon, <1>3, <1>7, <1>13, <2>1, <2>2, EntriesMove DEF N
  <2> QED BY Zenon, <1>13, <2>3
<1>15. Holds(t, o, tail)
  BY Zenon, <1>12, <1>13 DEF Holds
<1> DEFINE end == [i \in 0 .. Nh |-> o + at[i]]
<1>16. end \in [0 .. Nh -> Nat] /\ end[0] = o /\ end[Nh] = Len(t)
  <2>1. \A i \in 0 .. Nh : o + at[i] \in Nat
    BY <1>13
  <2>2. 0 \in 0 .. Nh /\ Nh \in 0 .. Nh /\ o + 0 = o
    BY <1>4, <1>13
  <2> QED BY Zenon, <1>10, <1>13, <2>1, <2>2
<1>17. ASSUME NEW i \in 1 .. Nh
       PROVE  /\ HashAt(t, end[i - 1], m.hashes[hs[i]], hs[i], fs[hs[i]])
              /\ end[i] = end[i - 1] + 2 + 2 * Len(fs[hs[i]])
  <2> DEFINE n == Len(fs[hs[i]])
             p == at[i - 1]
             e == m.hashes[hs[i]]
             g == fs[hs[i]]
  <2>1. i - 1 \in 0 .. Nh /\ i \in 0 .. Nh
    BY <1>4
  <2>2. end[i] = o + at[i] /\ end[i - 1] = o + p /\ p \in Nat /\ at[i] = p + 2 + 2 * n
    BY Zenon, <1>10, <2>1 DEF HashesAt, Nh
  <2>3. hs[i] \in Keys
    BY <1>4 DEF Nh
  <2>4. n \in Nat
    BY Zenon, <1>5, <2>3, LenProperties
  <2>5. HashAt(tail, p, e, hs[i], g)
    BY Zenon, <1>10 DEF HashesAt, Nh
  <2> HIDE DEF end, n, p, e, g
  <2>6. end[i] = end[i - 1] + 2 + 2 * n
    BY <1>13, <2>2, <2>4
  <2>7. tail[p + 1] = Str(hs[i]) /\ EntriesAt(tail, p + 1, e, g)
    BY Zenon, <2>5 DEF HashAt
  <2>8. p + 1 \in Nat /\ (o + p) + 1 = o + (p + 1) /\ p + 1 \in 1 .. Len(tail)
    <3>1. (p + 1) + 1 + 2 * n <= Len(tail)
      BY Zenon, <2>7 DEF EntriesAt, n, g
    <3> QED BY <1>13, <2>2, <2>4, <3>1
  <2>9. EntriesAt(t, o + (p + 1), e, g)
    BY Zenon, <1>13, <1>15, <2>4, <2>7, <2>8, EntriesMove DEF n, g
  <2>10. t[o + (p + 1)] = tail[p + 1]
    BY Zenon, <1>15, <2>8 DEF Holds
  <2>11. HashAt(t, o + p, e, hs[i], g)
    BY Zenon, <2>7, <2>8, <2>9, <2>10 DEF HashAt
  <2> QED BY Zenon, <2>2, <2>6, <2>11 DEF n, e, g
<1>18. LaidOut(t, m, ks, hs, fs, end)
  <2>1. t[o] = c
    BY Zenon, <1>12, <1>13
  <2> HIDE DEF end
  <2> QED BY Zenon, <1>3, <1>4, <1>5, <1>12, <1>14, <1>16, <1>17, <2>1 DEF LaidOut, HashesAt, o, N, Nh, K, c
<1> QED BY Zenon, <1>18

-----------------------------------------------------------------------------
(* Reading a snapshot.                                                     *)

(* The file f is the snapshot t as far as it goes, and if that is not all  *)
(* then "" may be read as well.                                            *)
CutOff(f, t, W) ==
  /\ f \in Seq(Tokens) /\ t \in Seq(Tokens) /\ Len(f) <= Len(t)
  /\ \A i \in 1 .. Len(f) : f[i] = t[i]
  /\ W \subseteq {""} /\ (Len(f) < Len(t) => "" \in W)

(* The commands that the strings of m, or their keys alone, may give. *)
StringGiven(cmd, m, W) ==
  \E k \in Present(m.strings) : \E v \in {m.strings[k]} \cup W :
    cmd = SetCommand(k, v) /\ ~(k = "" /\ v = "")

(* Those of the fields of the hashes. *)
FieldGiven(cmd, m, W) ==
  \E k \in Keys :
    \/ \E f \in Present(m.hashes[k]) : \E v \in {m.hashes[k][f]} \cup W : cmd = HSetCommand(k, f, v)
    \/ "" \in W /\ cmd = HSetCommand(k, "", "")

(* The arguments of a command of two or three. *)
LEMMA Tuples ==
  ASSUME NEW S, NEW x \in S, NEW y \in S, NEW z \in S
  PROVE  /\ <<x, y>> \in Seq(S) /\ <<x, y>>[1] = x /\ <<x, y>>[2] = y
         /\ <<x, y, z>> \in Seq(S) /\ <<x, y, z>>[1] = x /\ <<x, y, z>>[2] = y /\ <<x, y, z>>[3] = z
OBVIOUS

(* A SET tells its key and its value. *)
LEMMA SetDiffers ==
  ASSUME NEW x, NEW y, NEW u, NEW v, SetCommand(x, y) = SetCommand(u, v)
  PROVE  x = u /\ y = v
BY SMT DEF SetCommand

(* main can replay them. *)
LEMMA GivenWrites ==
  ASSUME NEW m \in Stored, NEW W \in SUBSET {""}, NEW cmd, StringGiven(cmd, m, W) \/ FieldGiven(cmd, m, W)
  PROVE  cmd \in Writes
<1> DEFINE S == Texts \cup Keys \cup Fields \cup {""}
<1>1. ASSUME NEW k \in Keys, NEW v \in Values PROVE SetCommand(k, v) \in Writes
  <2>1. k \in S /\ v \in S
    BY Zenon DEF Values
  <2> HIDE DEF S
  <2>2. <<k, v>> \in Seq(S) /\ <<k, v>>[1] = k /\ <<k, v>>[2] = v
    BY Zenon, <2>1, Tuples
  <2>3. "SET" # "HSET"
    OBVIOUS
  <2> QED BY Zenon, <2>2, <2>3 DEF SetCommand, Writes, S
<1>2. ASSUME NEW k \in Keys, NEW f \in Fields \cup {""}, NEW v \in Values PROVE HSetCommand(k, f, v) \in Writes
  <2>1. k \in S /\ f \in S /\ v \in S
    BY Zenon DEF Values
  <2> HIDE DEF S
  <2>2. <<k, f, v>> \in Seq(S) /\ <<k, f, v>>[1] = k /\ <<k, f, v>>[3] = v
    BY Zenon, <2>1, Tuples
  <2>3. "SET" # "HSET"
    OBVIOUS
  <2> QED BY Zenon, <2>2, <2>3 DEF HSetCommand, Writes, S
<1>3. "" \in Values /\ "" \in Fields \cup {""} /\ \A v \in W : v \in Values
  BY Zenon DEF Values
<1>4. ASSUME StringGiven(cmd, m, W) PROVE cmd \in Writes
  <2>1. PICK k \in Present(m.strings) : \E v \in {m.strings[k]} \cup W : cmd = SetCommand(k, v)
    BY Zenon, <1>4 DEF StringGiven
  <2>2. k \in Keys /\ \A v \in {m.strings[k]} \cup W : v \in Values
    BY Zenon, <1>3, StoredParts
  <2> QED BY Zenon, <1>1, <2>1, <2>2
<1>5. ASSUME FieldGiven(cmd, m, W) PROVE cmd \in Writes
  <2>1. PICK k \in Keys :
          \/ \E f \in Present(m.hashes[k]) : \E v \in {m.hashes[k][f]} \cup W : cmd = HSetCommand(k, f, v)
          \/ "" \in W /\ cmd = HSetCommand(k, "", "")
    BY Zenon, <1>5 DEF FieldGiven
  <2>2. ASSUME NEW f \in Present(m.hashes[k]), NEW v \in {m.hashes[k][f]} \cup W PROVE f \in Fields /\ v \in Values
    BY Zenon, <1>3, <2>2, StoredParts
  <2> QED BY Zenon, <1>2, <1>3, <2>1, <2>2
<1> QED BY Zenon, <1>4, <1>5

(* A string is read where it was written, or "" if the file ends before. *)
LEMMA ReadAt ==
  ASSUME NEW f, NEW t, NEW W, CutOff(f, t, W), NEW i \in Nat, i >= 1, i <= Len(t),
         NEW s \in Strings, t[i] = Str(s)
  PROVE  ReadString(f, i) = (IF i <= Len(f) THEN s ELSE "") /\ (~(i <= Len(f)) => "" \in W)
<1>1. Len(f) \in Nat /\ Len(t) \in Nat
  BY Zenon, LenProperties DEF CutOff
<1>2. CASE i <= Len(f)
  <2>1. i \in 1 .. Len(f)
    BY <1>1, <1>2
  <2>2. f[i] = Str(s) /\ Str(s).string = s
    BY Zenon, <2>1, TokenParts DEF CutOff
  <2> QED BY Zenon, <1>2, <2>2 DEF ReadString
<1>3. CASE ~(i <= Len(f))
  <2>1. Len(f) < Len(t)
    BY <1>1, <1>3
  <2> QED BY Zenon, <1>3, <2>1 DEF ReadString, CutOff
<1> QED BY Zenon, <1>2, <1>3

(* What Replay reads of the j-th string. *)
LEMMA EntryRead ==
  ASSUME NEW m \in Stored, NEW f, NEW t, NEW W, CutOff(f, t, W), NEW ks \in Seq(Keys),
         Range(ks) = Present(m.strings), EntriesAt(t, 2, m.strings, ks), NEW j \in 1 .. Len(ks)
  PROVE  /\ ReadEntry(f, 2 + 2 * j) \in Seq(Writes)
         /\ \A cmd \in Range(ReadEntry(f, 2 + 2 * j)) : StringGiven(cmd, m, W)
         /\ Len(f) = Len(t) /\ ~(ks[j] = "" /\ m.strings[ks[j]] = "") =>
              SetCommand(ks[j], m.strings[ks[j]]) \in Range(ReadEntry(f, 2 + 2 * j))
<1> DEFINE k == ks[j]
           v == m.strings[k]
           a == 2 + 2 * j
           x == ReadString(f, a)
           y == ReadString(f, a + 1)
           cmd == SetCommand(x, y)
<1>1. /\ Len(ks) \in Nat /\ j \in DOMAIN ks /\ Len(f) \in Nat /\ Len(t) \in Nat /\ Len(f) <= Len(t)
  BY Zenon, LenProperties DEF CutOff
<1>2. k \in Present(m.strings)
  BY Zenon, <1>1 DEF Range
<1>3. k \in Strings /\ v \in Strings
  BY Zenon, <1>2, StoredParts DEF Strings
<1>4. t[a] = Str(k) /\ t[a + 1] = Str(v)
  BY Zenon DEF EntriesAt
<1>5. a \in Nat /\ a + 1 \in Nat /\ a >= 1 /\ a + 1 >= 1 /\ a <= Len(t) /\ a + 1 <= Len(t)
  <2>1. 2 + 1 + 2 * Len(ks) <= Len(t)
    BY Zenon DEF EntriesAt
  <2> QED BY <1>1, <2>1
<1>6. x = (IF a <= Len(f) THEN k ELSE "") /\ (~(a <= Len(f)) => "" \in W)
  <2> HIDE DEF a, k
  <2> QED BY Zenon, <1>3, <1>4, <1>5, ReadAt
<1>7. y = (IF a + 1 <= Len(f) THEN v ELSE "") /\ (~(a + 1 <= Len(f)) => "" \in W)
  <2> HIDE DEF a, v
  <2> QED BY Zenon, <1>3, <1>4, <1>5, ReadAt
<1>8. ~(a <= Len(f)) => ~(a + 1 <= Len(f))
  BY <1>1, <1>5
<1>9. Len(f) = Len(t) => a <= Len(f) /\ a + 1 <= Len(f)
  BY <1>5
<1>10. ReadEntry(f, a) = IF cmd = SetCommand("", "") THEN <<>> ELSE <<cmd>>
  BY Zenon DEF ReadEntry
<1> HIDE DEF a, k, v, x, y
<1>11. cmd = SetCommand("", "") <=> x = "" /\ y = ""
  BY Zenon, SetDiffers
<1>12. CASE x = "" /\ y = ""
  <2>1. ReadEntry(f, a) = <<>>
    BY Zenon, <1>10, <1>12
  <2>2. <<>> \in Seq(Writes) /\ Range(<<>>) = {}
    BY DEF Range
  <2>3. Len(f) = Len(t) => k = "" /\ v = ""
    BY Zenon, <1>6, <1>7, <1>9, <1>12
  <2> QED BY Zenon, <2>1, <2>2, <2>3 DEF a, k, v
<1>13. CASE ~(x = "" /\ y = "")
  <2>1. ReadEntry(f, a) = <<cmd>>
    BY Zenon, <1>10, <1>11, <1>13
  <2>2. x = k /\ y \in {v} \cup W
    BY Zenon, <1>6, <1>7, <1>8, <1>13
  <2>3. StringGiven(cmd, m, W)
    BY Zenon, <1>2, <1>13, <2>2 DEF StringGiven, v
  <2>4. cmd \in Writes
    BY Zenon, <2>3, GivenWrites DEF CutOff
  <2>5. <<cmd>> \in Seq(Writes) /\ Range(<<cmd>>) = {cmd}
    <3> HIDE DEF cmd
    <3> QED BY <2>4 DEF Range
  <2>6. Len(f) = Len(t) => cmd = SetCommand(k, v)
    BY Zenon, <1>6, <1>7, <1>9
  <2> HIDE DEF cmd
  <2> QED BY Zenon, <2>1, <2>3, <2>5, <2>6 DEF a, k, v
<1> QED BY Zenon, <1>12, <1>13

(* What Replay reads of a hash, and where it goes on.  Past the end of the *)
(* file it reads nothing and stays.                                        *)
LEMMA HashRead ==
  ASSUME NEW m \in Stored, NEW f, NEW t, NEW W, CutOff(f, t, W), NEW o \in Nat, NEW k \in Keys,
         NEW g \in Seq(Fields), Range(g) = Present(m.hashes[k]), HashAt(t, o, m.hashes[k], k, g)
  PROVE  /\ ReadHash(f, o + 1) \in Seq(Writes)
         /\ \A cmd \in Range(ReadHash(f, o + 1)) : FieldGiven(cmd, m, W)
         /\ NextHash(f, o + 1) \in {o + 1, (o + 2 + 2 * Len(g)) + 1}
         /\ Len(f) = Len(t) =>
              /\ NextHash(f, o + 1) = (o + 2 + 2 * Len(g)) + 1
              /\ \A x \in Present(m.hashes[k]) : HSetCommand(k, x, m.hashes[k][x]) \in Range(ReadHash(f, o + 1))
<1> DEFINE e == m.hashes[k]
           n == Len(g)
           p == o + 1
           L == Len(f)
           cmd(j) == HSetCommand(ReadString(f, p), ReadString(f, p + 2 * j), ReadString(f, p + 2 * j + 1))
<1>1. n \in Nat /\ DOMAIN g = 1 .. n /\ L \in Nat /\ Len(t) \in Nat /\ L <= Len(t) /\ p \in Nat
  <2>1. L \in Nat /\ Len(t) \in Nat /\ L <= Len(t)
    BY Zenon, LenProperties DEF CutOff
  <2> QED BY <2>1, LenProperties
<1>2. t[p] = Str(k) /\ t[p + 1] = Count(n) /\ p + 1 + 2 * n <= Len(t)
  BY Zenon DEF HashAt, EntriesAt
<1>3. ASSUME NEW j \in 1 .. n
      PROVE  t[p + 2 * j] = Str(g[j]) /\ t[p + 2 * j + 1] = Str(e[g[j]])
  BY Zenon DEF HashAt, EntriesAt
<1>4. CASE p + 1 > L
  <2>1. NextHash(f, p) = p
    BY Zenon, <1>4 DEF NextHash
  <2>2. ReadHash(f, p) = <<>>
    <3>1. ReadHash(f, p) = [j \in 1 .. 0 |-> cmd(j)]
      BY Zenon, <1>4 DEF ReadHash
    <3> HIDE DEF cmd
    <3> QED BY <3>1
  <2>3. <<>> \in Seq(Writes) /\ Range(<<>>) = {}
    BY DEF Range
  <2>4. L # Len(t)
    BY <1>1, <1>2, <1>4
  <2> QED BY Zenon, <2>1, <2>2, <2>3, <2>4 DEF p, L
<1>5. CASE ~(p + 1 > L)
  <2>1. f[p + 1].count = n
    <3>1. p + 1 \in 1 .. L
      BY <1>1, <1>5
    <3>2. f[p + 1] = Count(n)
      BY Zenon, <1>2, <3>1 DEF CutOff
    <3> QED BY Zenon, <1>1, <3>2, TokenParts
  <2>2. NextHash(f, p) = p + 2 + 2 * n
    BY Zenon, <1>5, <2>1 DEF NextHash
  <2>3. NextHash(f, p) = (o + 2 + 2 * n) + 1
    <3> DEFINE next == NextHash(f, p)
    <3>1. next = p + 2 + 2 * n
      BY Zenon, <2>2
    <3> HIDE DEF next
    <3>2. next = (o + 2 + 2 * n) + 1
      BY <1>1, <3>1
    <3> QED BY Zenon, <3>2 DEF next
  <2>4. ReadHash(f, p) = [j \in 1 .. n |-> cmd(j)]
    BY Zenon, <1>5, <2>1 DEF ReadHash
  <2>5. ReadString(f, p) = k
    <3>1. p <= L /\ p >= 1 /\ p <= Len(t)
      BY <1>1, <1>5
    <3>2. k \in Strings
      BY Zenon DEF Strings
    <3> HIDE DEF p
    <3> QED BY Zenon, <1>1, <1>2, <3>1, <3>2, ReadAt DEF L
  <2>6. ASSUME NEW j \in 1 .. n
        PROVE  /\ g[j] \in Present(e)
               /\ FieldGiven(cmd(j), m, W)
               /\ L = Len(t) => cmd(j) = HSetCommand(k, g[j], e[g[j]])
    <3> DEFINE a == p + 2 * j
               x == ReadString(f, a)
               y == ReadString(f, a + 1)
    <3>1. g[j] \in Present(e)
      BY Zenon, <1>1 DEF Range
    <3>2. g[j] \in Strings /\ e[g[j]] \in Strings
      BY Zenon, <3>1, StoredParts DEF Strings
    <3>3. /\ a \in Nat /\ a + 1 \in Nat /\ a >= 1 /\ a + 1 >= 1 /\ a <= Len(t) /\ a + 1 <= Len(t)
          /\ (~(a <= L) => ~(a + 1 <= L))
          /\ L = Len(t) => a <= L /\ a + 1 <= L
      BY <1>1, <1>2
    <3>4. t[a] = Str(g[j]) /\ t[a + 1] = Str(e[g[j]])
      BY Zenon, <1>3
    <3>5. x = (IF a <= L THEN g[j] ELSE "") /\ (~(a <= L) => "" \in W)
      <4> HIDE DEF a
      <4> QED BY Zenon, <3>2, <3>3, <3>4, ReadAt DEF L
    <3>6. y = (IF a + 1 <= L THEN e[g[j]] ELSE "") /\ (~(a + 1 <= L) => "" \in W)
      <4> HIDE DEF a
      <4> QED BY Zenon, <3>2, <3>3, <3>4, ReadAt DEF L
    <3>7. cmd(j) = HSetCommand(k, x, y)
      BY Zenon, <2>5
    <3> HIDE DEF cmd, a, x, y
    <3>8. FieldGiven(cmd(j), m, W)
      <4>1. CASE a <= L
        <5>1. x = g[j] /\ y \in {e[g[j]]} \cup W
          BY Zenon, <3>5, <3>6, <4>1
        <5> QED BY Zenon, <3>1, <3>7, <5>1 DEF FieldGiven
      <4>2. CASE ~(a <= L)
        <5>1. x = "" /\ y = "" /\ "" \in W
          BY Zenon, <3>3, <3>5, <3>6, <4>2
        <5> QED BY Zenon, <3>7, <5>1 DEF FieldGiven
      <4> QED BY Zenon, <4>1, <4>2
    <3>9. L = Len(t) => cmd(j) = HSetCommand(k, g[j], e[g[j]])
      BY Zenon, <3>3, <3>5, <3>6, <3>7
    <3> QED BY Zenon, <3>1, <3>8, <3>9
  <2>7. ASSUME NEW j \in 1 .. n PROVE cmd(j) \in Writes
    BY Zenon, <2>6, GivenWrites DEF CutOff
  <2> DEFINE all == [j \in 1 .. n |-> cmd(j)]
  <2>8. Range(all) = {cmd(j) : j \in 1 .. n}
    <3> HIDE DEF cmd
    <3> QED BY Zenon DEF Range
  <2>9. all \in Seq(Writes)
    <3> HIDE DEF cmd, n
    <3>1. all \in [1 .. n -> Writes]
      BY Zenon, <2>7
    <3> HIDE DEF all
    <3> QED BY <1>1, <3>1
  <2>10. ASSUME L = Len(t), NEW x \in Present(e) PROVE HSetCommand(k, x, e[x]) \in Range(all)
    <3>1. PICK j \in 1 .. n : g[j] = x
      BY Zenon, <1>1 DEF Range
    <3>2. cmd(j) = HSetCommand(k, x, e[x])
      BY Zenon, <2>6, <2>10, <3>1
    <3> HIDE DEF cmd, all, n
    <3> QED BY Zenon, <2>8, <3>2
  <2>11. \A c \in Range(all) : FieldGiven(c, m, W)
    <3> HIDE DEF cmd, all, n
    <3> QED BY Zenon, <2>6, <2>8
  <2> HIDE DEF all, cmd
  <2>12. ReadHash(f, p) = all
    BY Zenon, <2>4 DEF all
  <2> QED BY Zenon, <2>3, <2>9, <2>10, <2>11, <2>12 DEF p, L, n, e
<1> QED BY Zenon, <1>4, <1>5

(* A hash that begins past the end of the file gives nothing. *)
LEMMA NoHash ==
  ASSUME NEW f, NEW i \in Nat, i + 1 > Len(f)
  PROVE  ReadHash(f, i) = <<>> /\ NextHash(f, i) = i
<1> DEFINE cmd(j) == HSetCommand(ReadString(f, i), ReadString(f, i + 2 * j), ReadString(f, i + 2 * j + 1))
<1>1. ReadHash(f, i) = [j \in 1 .. 0 |-> cmd(j)]
  BY Zenon DEF ReadHash
<1>2. ReadHash(f, i) = <<>>
  <2> HIDE DEF cmd
  <2> QED BY <1>1
<1> QED BY Zenon, <1>2 DEF NextHash

(* What Replay reads of all the hashes. *)
LEMMA HashesRead ==
  ASSUME NEW m \in Stored, NEW f, NEW t, NEW W, CutOff(f, t, W),
         NEW ks, NEW hs, NEW fs, NEW at, LaidOut(t, m, ks, hs, fs, at)
  PROVE  /\ ReadHashes(f, at[0] + 1, Len(hs)) \in Seq(Writes)
         /\ \A cmd \in Range(ReadHashes(f, at[0] + 1, Len(hs))) : FieldGiven(cmd, m, W)
         /\ Len(f) = Len(t) =>
              \A k \in Keys : \A x \in Present(m.hashes[k]) :
                HSetCommand(k, x, m.hashes[k][x]) \in Range(ReadHashes(f, at[0] + 1, Len(hs)))
<1> DEFINE N == Len(hs)
           S == {at[i] + 1 : i \in 0 .. N}
           first == at[0] + 1
<1>1. /\ N \in Nat /\ at \in [0 .. N -> Nat] /\ at[N] = Len(t) /\ Len(t) \in Nat
      /\ Len(f) \in Nat /\ Len(f) <= Len(t) /\ DOMAIN hs = 1 .. N /\ Range(hs) = HashKeys(m)
  BY Zenon, LenProperties DEF LaidOut, CutOff
<1>2. ASSUME NEW i \in 0 .. N - 1
      PROVE  /\ i + 1 \in 1 .. N /\ (i + 1) - 1 = i /\ i \in 0 .. N /\ i + 1 \in 0 .. N
             /\ hs[i + 1] \in Keys
  <2>1. i + 1 \in 1 .. N /\ (i + 1) - 1 = i /\ i \in 0 .. N /\ i + 1 \in 0 .. N
    BY <1>1
  <2>2. hs[i + 1] \in HashKeys(m)
    BY Zenon, <1>1, <2>1 DEF Range
  <2> QED BY Zenon, <2>1, <2>2, StoredParts
<1>3. ASSUME NEW i \in 0 .. N - 1
      PROVE  /\ ReadHash(f, at[i] + 1) \in Seq(Writes)
             /\ \A cmd \in Range(ReadHash(f, at[i] + 1)) : FieldGiven(cmd, m, W)
             /\ NextHash(f, at[i] + 1) \in {at[i] + 1, at[i + 1] + 1}
             /\ Len(f) = Len(t) =>
                  /\ NextHash(f, at[i] + 1) = at[i + 1] + 1
                  /\ \A x \in Present(m.hashes[hs[i + 1]]) :
                       HSetCommand(hs[i + 1], x, m.hashes[hs[i + 1]][x]) \in Range(ReadHash(f, at[i] + 1))
  <2> DEFINE k == hs[i + 1]
             g == fs[k]
             o == at[i]
  <2>1. k \in Keys /\ g \in Seq(Fields) /\ Range(g) = Present(m.hashes[k]) /\ o \in Nat
    BY Zenon, <1>1, <1>2 DEF LaidOut
  <2>2. HashAt(t, o, m.hashes[k], k, g) /\ at[i + 1] = o + 2 + 2 * Len(g)
    BY Zenon, <1>2 DEF LaidOut, HashesAt
  <2> HIDE DEF k, g, o, N
  <2>3. /\ ReadHash(f, o + 1) \in Seq(Writes)
        /\ \A cmd \in Range(ReadHash(f, o + 1)) : FieldGiven(cmd, m, W)
        /\ NextHash(f, o + 1) \in {o + 1, (o + 2 + 2 * Len(g)) + 1}
        /\ Len(f) = Len(t) =>
             /\ NextHash(f, o + 1) = (o + 2 + 2 * Len(g)) + 1
             /\ \A x \in Present(m.hashes[k]) : HSetCommand(k, x, m.hashes[k][x]) \in Range(ReadHash(f, o + 1))
    BY Zenon, <2>1, <2>2, HashRead
  <2> QED BY Zenon, <2>2, <2>3 DEF o, k
<1>4. ReadHash(f, at[N] + 1) = <<>> /\ NextHash(f, at[N] + 1) = at[N] + 1
  <2>1. at[N] + 1 \in Nat /\ (at[N] + 1) + 1 > Len(f)
    BY <1>1
  <2> QED BY Zenon, <2>1, NoHash
<1>5. \A i \in 0 .. N : i = N \/ i \in 0 .. N - 1
  <2> HIDE DEF N, S
  <2> QED BY <1>1
<1>6. <<>> \in Seq(Writes) /\ Range(<<>>) = {}
  BY DEF Range
<1>7. ASSUME NEW p \in S
      PROVE  /\ ReadHash(f, p) \in Seq(Writes)
             /\ \A cmd \in Range(ReadHash(f, p)) : FieldGiven(cmd, m, W)
             /\ NextHash(f, p) \in S
  <2>1. PICK i \in 0 .. N : p = at[i] + 1
    BY Zenon
  <2>2. CASE i = N
    BY Zenon, <1>4, <1>6, <2>1, <2>2
  <2>3. CASE i \in 0 .. N - 1
    <3>1. at[i] + 1 \in S /\ at[i + 1] + 1 \in S
      BY Zenon, <1>2, <2>3
    <3> HIDE DEF S, N
    <3> QED BY Zenon, <1>3, <2>1, <2>3, <3>1
  <2> QED BY Zenon, <1>5, <2>2, <2>3
<1>8. first \in S
  <2>1. 0 \in 0 .. N
    BY <1>1
  <2> QED BY Zenon, <2>1
<1> HIDE DEF S
<1> DEFINE Body(h) == [n \in 0 .. N |-> IF n = 0 THEN first ELSE NextHash(f, h[n - 1])]
           start == CHOOSE h : h = Body(h)
           parts == [n \in 1 .. N |-> ReadHash(f, start[n - 1])]
<1>9. ReadHashes(f, first, N) = AppendAll(parts)
  BY Zenon DEF ReadHashes
<1>10. \E h : h = Body(h)
  <2> DEFINE step == [n \in 1 .. N |-> [p \in S |-> NextHash(f, p)]]
  <2>1. Rounds(step, N, S)
    BY Zenon, <1>7 DEF Rounds
  <2>2. PICK h \in [0 .. N -> S] : IsLoop(h, first, N, step)
    <3> HIDE DEF step, first, N
    <3> QED BY Zenon, <1>1, <1>8, <2>1, LoopExists
  <2>3. ASSUME NEW n \in 1 .. N PROVE h[n] = NextHash(f, h[n - 1])
    <3>1. n - 1 \in 0 .. N
      BY <1>1
    <3>2. h[n - 1] \in S /\ h[n] = step[n][h[n - 1]]
      BY Zenon, <2>2, <3>1 DEF IsLoop
    <3> QED BY Zenon, <3>2
  <2>4. \A n \in 0 .. N : n = 0 \/ n \in 1 .. N
    BY <1>1
  <2>5. h[0] = first
    BY Zenon, <2>2 DEF IsLoop
  <2>6. ASSUME NEW n \in 0 .. N PROVE h[n] = IF n = 0 THEN first ELSE NextHash(f, h[n - 1])
    BY Zenon, <2>3, <2>4, <2>5
  <2>7. h = Body(h)
    BY Zenon, <2>6
  <2> QED BY Zenon, <2>7
<1>11. start = Body(start)
  <2> HIDE DEF Body
  <2> QED BY Zenon, <1>10
<1> HIDE DEF start, N, first
<1>12. \A n \in 0 .. N : start[n] = IF n = 0 THEN first ELSE NextHash(f, start[n - 1])
  BY Zenon, <1>11
<1>13. ASSUME NEW n \in 0 .. N - 1 PROVE start[n + 1] = NextHash(f, start[n]) /\ n + 1 \in 0 .. N
  <2>1. n + 1 \in 0 .. N /\ (n + 1) - 1 = n /\ n + 1 # 0
    BY <1>1
  <2> QED BY Zenon, <1>12, <2>1
<1>14. 0 \in 0 .. N /\ start[0] = first
  <2>1. 0 \in 0 .. N
    BY <1>1
  <2> QED BY Zenon, <1>12, <2>1
<1> DEFINE P == {n \in 0 .. N : start[n] \in S}
<1>15. \A n \in 0 .. N : n \in P
  <2>1. 0 \in P
    BY Zenon, <1>8, <1>14
  <2>2. ASSUME NEW n \in 0 .. N - 1, n \in P PROVE n + 1 \in P
    BY Zenon, <1>7, <1>13, <2>2
  <2> HIDE DEF P
  <2> QED BY Zenon, <1>1, <2>1, <2>2, Induction
<1> DEFINE Q == {n \in 0 .. N : start[n] = at[n] + 1}
<1>16. ASSUME Len(f) = Len(t) PROVE \A n \in 0 .. N : n \in Q
  <2>1. 0 \in Q
    BY Zenon, <1>14 DEF first
  <2>2. ASSUME NEW n \in 0 .. N - 1, n \in Q PROVE n + 1 \in Q
    BY Zenon, <1>3, <1>13, <1>16, <2>2
  <2> HIDE DEF Q
  <2> QED BY Zenon, <1>1, <2>1, <2>2, Induction
<1>17. ASSUME NEW n \in 1 .. N
       PROVE  n - 1 \in 0 .. N /\ n - 1 \in 0 .. N - 1 /\ (n - 1) + 1 = n
  BY <1>1
<1>18. ASSUME NEW n \in 1 .. N
       PROVE  parts[n] \in Seq(Writes) /\ \A cmd \in Range(parts[n]) : FieldGiven(cmd, m, W)
  <2>1. start[n - 1] \in S /\ parts[n] = ReadHash(f, start[n - 1])
    BY Zenon, <1>15, <1>17
  <2> HIDE DEF parts
  <2> QED BY Zenon, <1>7, <2>1
<1>19. parts \in Seq(Seq(Writes)) /\ Len(parts) = N
  <2>1. parts = [n \in 1 .. N |-> parts[n]]
    BY Zenon
  <2> HIDE DEF parts
  <2>2. parts \in [1 .. N -> Seq(Writes)]
    BY Zenon, <1>18, <2>1
  <2> QED BY <1>1, <2>2
<1> DEFINE all == AppendAll(parts)
<1>20. all \in Seq(Writes) /\ Range(all) = UNION {Range(parts[n]) : n \in 1 .. N}
  <2> HIDE DEF parts
  <2> QED BY Zenon, <1>19, AppendElements
<1>21. \A cmd \in Range(all) : FieldGiven(cmd, m, W)
  <2> HIDE DEF parts, all
  <2> QED BY Zenon, <1>18, <1>20
<1>22. ASSUME Len(f) = Len(t), NEW k \in Keys, NEW x \in Present(m.hashes[k])
       PROVE  HSetCommand(k, x, m.hashes[k][x]) \in Range(all)
  <2>1. k \in HashKeys(m)
    BY Zenon DEF HashKeys
  <2>2. PICK n \in 1 .. N : hs[n] = k
    BY Zenon, <1>1, <2>1 DEF Range
  <2>3. parts[n] = ReadHash(f, at[n - 1] + 1)
    BY Zenon, <1>16, <1>17, <1>22
  <2>4. HSetCommand(k, x, m.hashes[k][x]) \in Range(parts[n])
    <3> HIDE DEF parts
    <3> QED BY Zenon, <1>3, <1>17, <1>22, <2>2, <2>3
  <2> HIDE DEF parts, all
  <2> QED BY Zenon, <1>20, <2>4
<1> HIDE DEF parts
<1> QED BY Zenon, <1>9, <1>20, <1>21, <1>22 DEF first, N

(* The commands that Replay gives of a snapshot of m. *)
AllGiven(cmds, m, W) ==
  cmds \in Seq(Writes) /\ \A cmd \in Range(cmds) : StringGiven(cmd, m, W) \/ FieldGiven(cmd, m, W)

(* All the strings, and all the fields, of m are among the commands. *)
StringsIn(cmds, m) ==
  \A k \in Present(m.strings) : ~(k = "" /\ m.strings[k] = "") => SetCommand(k, m.strings[k]) \in Range(cmds)

FieldsIn(cmds, m) ==
  \A k \in Keys : \A x \in Present(m.hashes[k]) : HSetCommand(k, x, m.hashes[k][x]) \in Range(cmds)

(* What Replay reads of the strings. *)
LEMMA EntriesRead ==
  ASSUME NEW m \in Stored, NEW f, NEW t, NEW W, CutOff(f, t, W), NEW ks \in Seq(Keys),
         Range(ks) = Present(m.strings), EntriesAt(t, 2, m.strings, ks),
         NEW entries, entries = AppendAll([j \in 1 .. Len(ks) |-> ReadEntry(f, 2 + 2 * j)])
  PROVE  /\ entries \in Seq(Writes) /\ \A cmd \in Range(entries) : StringGiven(cmd, m, W)
         /\ Len(f) = Len(t) => StringsIn(entries, m)
<1> DEFINE N == Len(ks)
           parts == [j \in 1 .. N |-> ReadEntry(f, 2 + 2 * j)]
<1>1. N \in Nat /\ DOMAIN ks = 1 .. N
  BY Zenon, LenProperties
<1>2. ASSUME NEW j \in 1 .. N
      PROVE  /\ parts[j] \in Seq(Writes) /\ \A cmd \in Range(parts[j]) : StringGiven(cmd, m, W)
             /\ Len(f) = Len(t) /\ ~(ks[j] = "" /\ m.strings[ks[j]] = "") =>
                  SetCommand(ks[j], m.strings[ks[j]]) \in Range(parts[j])
  <2>1. parts[j] = ReadEntry(f, 2 + 2 * j)
    BY Zenon
  <2> HIDE DEF parts
  <2> QED BY Zenon, <2>1, EntryRead
<1>3. parts \in Seq(Seq(Writes)) /\ Len(parts) = N
  <2>1. parts = [n \in 1 .. N |-> parts[n]]
    BY Zenon
  <2> HIDE DEF parts
  <2>2. parts \in [1 .. N -> Seq(Writes)]
    BY Zenon, <1>2, <2>1
  <2> QED BY <1>1, <2>2
<1>4. entries = AppendAll(parts)
  BY Zenon
<1> HIDE DEF parts
<1>5. entries \in Seq(Writes) /\ Range(entries) = UNION {Range(parts[n]) : n \in 1 .. N}
  BY Zenon, <1>3, <1>4, AppendElements
<1>6. \A cmd \in Range(entries) : StringGiven(cmd, m, W)
  BY Zenon, <1>2, <1>5
<1>7. ASSUME Len(f) = Len(t), NEW k \in Present(m.strings), ~(k = "" /\ m.strings[k] = "")
      PROVE  SetCommand(k, m.strings[k]) \in Range(entries)
  <2>1. PICK j \in 1 .. N : ks[j] = k
    BY Zenon, <1>1 DEF Range
  <2> QED BY Zenon, <1>2, <1>5, <1>7, <2>1
<1> QED BY Zenon, <1>5, <1>6, <1>7 DEF StringsIn

(* What Replay reads of a snapshot, or of as much of it as there is. *)
LEMMA SnapshotRead ==
  ASSUME NEW m \in Stored, NEW f, NEW t, NEW W, CutOff(f, t, W),
         NEW ks, NEW hs, NEW fs, NEW at, LaidOut(t, m, ks, hs, fs, at)
  PROVE  /\ AllGiven(RDBReplay(f), m, W)
         /\ Len(f) = Len(t) => StringsIn(RDBReplay(f), m) /\ FieldsIn(RDBReplay(f), m)
<1> DEFINE n == f[3].count
           N == Len(ks)
           entries == AppendAll([j \in 1 .. n |-> ReadEntry(f, 2 + 2 * j)])
           next == 4 + 2 * n
           hashes == ReadHashes(f, next + 1, f[next].count)
<1>1. RDBReplay(f) = IF Len(f) < 3 THEN <<>> ELSE IF Len(f) < next THEN entries ELSE entries \o hashes
  BY Zenon DEF RDBReplay
<1>2. /\ Len(f) \in Nat /\ Len(t) \in Nat /\ Len(f) <= Len(t) /\ N \in Nat /\ Len(hs) \in Nat
      /\ \A i \in 1 .. Len(f) : f[i] = t[i]
  BY Zenon, LenProperties DEF CutOff, LaidOut
<1>3. /\ ks \in Seq(Keys) /\ Range(ks) = Present(m.strings) /\ EntriesAt(t, 2, m.strings, ks)
      /\ at[0] = 4 + 2 * N /\ t[4 + 2 * N] = Count(Len(hs)) /\ t[3] = Count(N)
  <2>1. 2 + 1 = 3
    OBVIOUS
  <2> QED BY Zenon, <2>1 DEF LaidOut, EntriesAt
<1>4. 4 + 2 * N <= Len(t)
  <2>1. at[0] <= Len(t)
    <3>1. CASE Len(hs) = 0
      <4>1. at[Len(hs)] = Len(t) /\ Len(t) <= Len(t)
        BY <1>2 DEF LaidOut
      <4> QED BY Zenon, <3>1, <4>1
    <3>2. CASE Len(hs) # 0
      <4>1. 1 \in 1 .. Len(hs) /\ 1 - 1 = 0
        BY <1>2, <3>2
      <4>2. HashAt(t, at[0], m.hashes[hs[1]], hs[1], fs[hs[1]])
        BY Zenon, <4>1 DEF LaidOut, HashesAt
      <4>3. (at[0] + 1) + 1 + 2 * Len(fs[hs[1]]) <= Len(t)
        BY Zenon, <4>2 DEF HashAt, EntriesAt
      <4>4. hs[1] \in Keys
        BY <4>1 DEF LaidOut
      <4>5. Len(fs[hs[1]]) \in Nat
        BY Zenon, <4>4, LenProperties DEF LaidOut
      <4>6. at[0] \in Nat
        BY <1>2, <1>3
      <4> QED BY ONLY <1>2, <4>3, <4>5, <4>6
    <3> QED BY Zenon, <3>1, <3>2
  <2> QED BY Zenon, <1>3, <2>1
<1>5. CASE Len(f) < 3
  <2>1. RDBReplay(f) = <<>>
    BY Zenon, <1>1, <1>5
  <2>2. <<>> \in Seq(Writes) /\ Range(<<>>) = {}
    BY DEF Range
  <2>3. Len(f) # Len(t)
    BY <1>2, <1>4, <1>5
  <2> QED BY Zenon, <2>1, <2>2, <2>3 DEF AllGiven
<1>6. CASE ~(Len(f) < 3)
  <2>1. n = N
    <3>1. 3 \in 1 .. Len(f)
      BY <1>2, <1>6
    <3> QED BY Zenon, <1>2, <1>3, <3>1, TokenParts
  <2>2. /\ entries \in Seq(Writes) /\ \A cmd \in Range(entries) : StringGiven(cmd, m, W)
        /\ Len(f) = Len(t) => StringsIn(entries, m)
    <3>1. entries = AppendAll([j \in 1 .. N |-> ReadEntry(f, 2 + 2 * j)])
      BY Zenon, <2>1
    <3> HIDE DEF entries
    <3> QED BY Zenon, <1>3, <3>1, EntriesRead
  <2>3. CASE Len(f) < next
    <3>1. RDBReplay(f) = entries
      BY Zenon, <1>1, <1>6, <2>3
    <3>2. Len(f) # Len(t)
      BY <1>2, <1>4, <2>1, <2>3
    <3> HIDE DEF entries
    <3> QED BY Zenon, <2>2, <3>1, <3>2 DEF AllGiven
  <2>4. CASE ~(Len(f) < next)
    <3>1. RDBReplay(f) = entries \o hashes
      BY Zenon, <1>1, <1>6, <2>4
    <3>2. next = at[0] /\ f[next].count = Len(hs)
      <4>1. next = at[0]
        BY Zenon, <1>3, <2>1
      <4>2. 4 + 2 * N \in 1 .. Len(f)
        BY <1>2, <2>1, <2>4
      <4> QED BY Zenon, <1>2, <1>3, <2>1, <4>1, <4>2, TokenParts
    <3>3. /\ hashes \in Seq(Writes) /\ \A cmd \in Range(hashes) : FieldGiven(cmd, m, W)
          /\ Len(f) = Len(t) => FieldsIn(hashes, m)
      <4>1. hashes = ReadHashes(f, at[0] + 1, Len(hs))
        BY Zenon, <3>2
      <4> HIDE DEF hashes
      <4> QED BY ZenonT(60), <4>1, HashesRead DEF FieldsIn
    <3> DEFINE all == entries \o hashes
    <3> HIDE DEF entries, hashes
    <3>4. all \in Seq(Writes) /\ Range(all) = Range(entries) \cup Range(hashes)
      BY ZenonT(60), <2>2, <3>3, ConcatProperties, RangeConcatenation
    <3>5. RDBReplay(f) = all
      BY Zenon, <3>1
    <3> HIDE DEF all
    <3> QED BY Zenon, <2>2, <3>3, <3>4, <3>5 DEF AllGiven, StringsIn, FieldsIn
  <2> QED BY Zenon, <2>3, <2>4
<1> QED BY Zenon, <1>5, <1>6

(* What the commands of a snapshot give, each to its own cell. *)
SetGives(k, v, x) ==
  /\ x = <<"string", k, None>> => Cell(Given(SetCommand(k, v)), x) = v
  /\ x # <<"string", k, None>> => Cell(Given(SetCommand(k, v)), x) = None

HSetGives(k, f, v, x) ==
  /\ x = <<"field", k, f>> => Cell(Given(HSetCommand(k, f, v)), x) = v
  /\ x # <<"field", k, f>> => Cell(Given(HSetCommand(k, f, v)), x) = None

LEMMA SnapshotCells ==
  ASSUME NEW k \in Keys, NEW v \in Values, NEW x \in Cells
  PROVE  SetGives(k, v, x) /\ \A f : HSetGives(k, f, v, x)
<1> SUFFICES ASSUME NEW f PROVE SetGives(k, v, x) /\ HSetGives(k, f, v, x)
  BY Zenon
<1>1. Given(SetCommand(k, v)) = PutString(Empty, k, v)
  <2> DEFINE a == <<k, v>>
  <2>1. Len(a) >= 2 /\ a[1] = k /\ a[2] = v
    OBVIOUS
  <2> QED BY Zenon, <2>1 DEF Given, ReplayCommand, SetCommand
<1>2. Given(HSetCommand(k, f, v)) = PutField(Empty, k, f, v)
  <2> DEFINE a == <<k, f, v>>
  <2>1. Len(a) >= 3 /\ a[1] = k /\ a[2] = f /\ a[3] = v
    OBVIOUS
  <2>2. "SET" # "HSET"
    OBVIOUS
  <2> QED BY Zenon, <2>1, <2>2 DEF Given, ReplayCommand, HSetCommand
<1>3. Empty \in Stored /\ Cell(Empty, x) = None
  BY Zenon, EmptyCells
<1>4. /\ Cell(PutString(Empty, k, v), x) = IF x = <<"string", k, None>> THEN v ELSE Cell(Empty, x)
      /\ Cell(PutField(Empty, k, f, v), x) = IF x = <<"field", k, f>> THEN v ELSE Cell(Empty, x)
  BY ONLY <1>3, PutCells, k \in Keys, v \in Values, x \in Cells
<1>5. SetGives(k, v, x)
  BY ONLY <1>1, <1>3, <1>4 DEF SetGives
<1>6. HSetGives(k, f, v, x)
  BY ONLY <1>2, <1>3, <1>4 DEF HSetGives
<1> QED BY Zenon, <1>5, <1>6

(* A string that is restored is one of m, with its value or cut off. *)
StringKept(d, m, W, k) ==
  d.strings[k] # None =>
    /\ m.strings[k] # None /\ d.strings[k] \in {m.strings[k]} \cup W
    /\ ~(k = "" /\ d.strings[k] = "")

(* A field that is restored has its value in m, or an empty one. *)
FieldKept(d, m, W, k, f) ==
  d.hashes[k][f] # None => d.hashes[k][f] = m.hashes[k][f] \/ (d.hashes[k][f] = "" /\ "" \in W)

(* What a command of the snapshot gives to a string, or to a field. *)
LEMMA GivenKept ==
  ASSUME NEW m \in Stored, NEW W \in SUBSET {""}, NEW cmd, StringGiven(cmd, m, W) \/ FieldGiven(cmd, m, W),
         NEW k \in Keys
  PROVE  /\ StringKept(Given(cmd), m, W, k)
         /\ \A f \in Fields : FieldKept(Given(cmd), m, W, k, f)
<1> DEFINE x == <<"string", k, None>>
           y(f) == <<"field", k, f>>
<1>1. x \in Cells /\ \A d : Cell(d, x) = d.strings[k]
  BY Zenon DEF Cells, Cell
<1>2. ASSUME NEW f \in Fields PROVE y(f) \in Cells /\ \A d : Cell(d, y(f)) = d.hashes[k][f]
  BY Zenon DEF Cells, Cell
<1>3. "string" # "field"
  OBVIOUS
<1>t. "" \in Values /\ \A v \in W : v = "" /\ v \in Values
  BY Zenon DEF Values
<1>4. CASE StringGiven(cmd, m, W)
  <2>1. PICK j \in Present(m.strings) : \E v \in {m.strings[j]} \cup W : cmd = SetCommand(j, v) /\ ~(j = "" /\ v = "")
    BY Zenon, <1>4 DEF StringGiven
  <2>2. PICK v \in {m.strings[j]} \cup W : cmd = SetCommand(j, v) /\ ~(j = "" /\ v = "")
    BY Zenon, <2>1
  <2>3. j \in Keys /\ v \in Values /\ m.strings[j] # None
    BY Zenon, <1>t, StoredParts DEF Present
  <2>4. (Given(cmd).strings[k] = v /\ x = <<"string", j, None>>) \/ Given(cmd).strings[k] = None
    <3>1. SetGives(j, v, x)
      BY Zenon, <1>1, <2>3, SnapshotCells
    <3> QED BY Zenon, <1>1, <2>2, <3>1 DEF SetGives
  <2>5. ASSUME NEW f \in Fields PROVE Given(cmd).hashes[k][f] = None
    <3>1. y(f) # <<"string", j, None>>
      BY <1>3
    <3> HIDE DEF y
    <3>2. SetGives(j, v, y(f))
      BY Zenon, <1>2, <2>3, SnapshotCells
    <3> QED BY Zenon, <1>2, <2>2, <3>1, <3>2 DEF SetGives
  <2>6. x = <<"string", j, None>> => k = j
    OBVIOUS
  <2> HIDE DEF x
  <2>7. StringKept(Given(cmd), m, W, k)
    BY Zenon, <2>2, <2>3, <2>4, <2>6 DEF StringKept
  <2> QED BY Zenon, <2>5, <2>7 DEF FieldKept
<1>5. CASE FieldGiven(cmd, m, W)
  <2>1. PICK j \in Keys :
          \/ \E g \in Present(m.hashes[j]) : \E v \in {m.hashes[j][g]} \cup W : cmd = HSetCommand(j, g, v)
          \/ "" \in W /\ cmd = HSetCommand(j, "", "")
    BY Zenon, <1>5 DEF FieldGiven
  <2>2. \E g, v : /\ cmd = HSetCommand(j, g, v) /\ v \in Values
                  /\ (g \in Fields /\ v = m.hashes[j][g]) \/ (v = "" /\ "" \in W)
    <3>1. CASE "" \in W /\ cmd = HSetCommand(j, "", "")
      BY Zenon, <1>t, <3>1
    <3>2. ASSUME NEW g \in Present(m.hashes[j]), NEW v \in {m.hashes[j][g]} \cup W, cmd = HSetCommand(j, g, v)
          PROVE  \E h, u : /\ cmd = HSetCommand(j, h, u) /\ u \in Values
                           /\ (h \in Fields /\ u = m.hashes[j][h]) \/ (u = "" /\ "" \in W)
      <4>1. g \in Fields /\ m.hashes[j][g] \in Values
        BY Zenon, StoredParts
      <4> QED BY Zenon, <1>t, <3>2, <4>1
    <3> QED BY Zenon, <2>1, <3>1, <3>2
  <2>3. PICK g, v : /\ cmd = HSetCommand(j, g, v) /\ v \in Values
                    /\ (g \in Fields /\ v = m.hashes[j][g]) \/ (v = "" /\ "" \in W)
    BY Zenon, <2>2
  <2>4. Given(cmd).strings[k] = None
    <3>1. x # <<"field", j, g>>
      BY <1>3
    <3> HIDE DEF x
    <3>2. HSetGives(j, g, v, x)
      BY Zenon, <1>1, <2>3, SnapshotCells
    <3> QED BY Zenon, <1>1, <2>3, <3>1, <3>2 DEF HSetGives
  <2>5. ASSUME NEW f \in Fields PROVE FieldKept(Given(cmd), m, W, k, f)
    <3>1. (Given(cmd).hashes[k][f] = v /\ y(f) = <<"field", j, g>>) \/ Given(cmd).hashes[k][f] = None
      <4> HIDE DEF y
      <4>1. HSetGives(j, g, v, y(f))
        BY Zenon, <1>2, <2>3, SnapshotCells
      <4> QED BY Zenon, <1>2, <2>3, <4>1 DEF HSetGives
    <3>2. y(f) = <<"field", j, g>> => k = j /\ f = g
      OBVIOUS
    <3> HIDE DEF y
    <3> QED BY Zenon, <2>3, <3>1, <3>2 DEF FieldKept
  <2> QED BY Zenon, <2>4, <2>5 DEF StringKept
<1> QED BY Zenon, <1>4, <1>5

(* What the commands of a snapshot restore. *)
LEMMA RestoredKept ==
  ASSUME NEW m \in Stored, NEW W \in SUBSET {""}, NEW cmds, AllGiven(cmds, m, W), NEW r, r = Restored(Empty, cmds)
  PROVE  /\ r \in Stored
         /\ \A k \in Keys : /\ StringKept(r, m, W, k)
                            /\ \A f \in Fields : FieldKept(r, m, W, k, f)
         /\ StringsIn(cmds, m) => \A k \in Present(m.strings) : (k = "" /\ m.strings[k] = "") \/ r.strings[k] # None
         /\ FieldsIn(cmds, m) => \A k \in Keys : \A f \in Present(m.hashes[k]) : r.hashes[k][f] # None
<1>1. cmds \in Seq(Writes) /\ DOMAIN cmds = 1 .. Len(cmds)
  BY Zenon, LenProperties DEF AllGiven
<1>2. /\ r \in Stored
      /\ \A x \in Cells :
           /\ Cell(r, x) # None => \E i \in 1 .. Len(cmds) : Cell(Given(cmds[i]), x) = Cell(r, x)
           /\ \A i \in 1 .. Len(cmds) : Cell(Given(cmds[i]), x) # None => Cell(r, x) # None
  BY Zenon, <1>1, EmptyCells, RestoredCells
<1>3. \A i \in 1 .. Len(cmds) : StringGiven(cmds[i], m, W) \/ FieldGiven(cmds[i], m, W)
  BY Zenon, <1>1 DEF AllGiven, Range
<1>t. None \notin Values
  BY Zenon, LifecycleAssumption DEF Values
<1>4. ASSUME NEW k \in Keys PROVE StringKept(r, m, W, k)
  <2> DEFINE x == <<"string", k, None>>
  <2>1. x \in Cells /\ \A d : Cell(d, x) = d.strings[k]
    BY Zenon DEF Cells, Cell
  <2> HIDE DEF x
  <2>2. r.strings[k] # None => \E i \in 1 .. Len(cmds) : Given(cmds[i]).strings[k] = r.strings[k]
    BY Zenon, <1>2, <2>1
  <2>3. \A i \in 1 .. Len(cmds) : StringKept(Given(cmds[i]), m, W, k)
    BY Zenon, <1>3, GivenKept
  <2> QED BY Zenon, <2>2, <2>3 DEF StringKept
<1>5. ASSUME NEW k \in Keys, NEW f \in Fields PROVE FieldKept(r, m, W, k, f)
  <2> DEFINE x == <<"field", k, f>>
  <2>1. x \in Cells /\ \A d : Cell(d, x) = d.hashes[k][f]
    BY Zenon DEF Cells, Cell
  <2> HIDE DEF x
  <2>2. r.hashes[k][f] # None => \E i \in 1 .. Len(cmds) : Given(cmds[i]).hashes[k][f] = r.hashes[k][f]
    BY Zenon, <1>2, <2>1
  <2>3. \A i \in 1 .. Len(cmds) : FieldKept(Given(cmds[i]), m, W, k, f)
    BY Zenon, <1>3, GivenKept
  <2> QED BY Zenon, <2>2, <2>3 DEF FieldKept
<1>6. ASSUME StringsIn(cmds, m), NEW k \in Present(m.strings), ~(k = "" /\ m.strings[k] = "")
      PROVE  r.strings[k] # None
  <2> DEFINE x == <<"string", k, None>>
             v == m.strings[k]
  <2>1. k \in Keys /\ v \in Values
    BY Zenon, StoredParts
  <2>2. x \in Cells /\ \A d : Cell(d, x) = d.strings[k]
    BY Zenon, <2>1 DEF Cells, Cell
  <2>3. PICK i \in 1 .. Len(cmds) : cmds[i] = SetCommand(k, v)
    BY Zenon, <1>1, <1>6 DEF StringsIn, Range
  <2>4. Cell(Given(cmds[i]), x) = v
    <3>1. SetGives(k, v, x)
      BY Zenon, <2>1, <2>2, SnapshotCells
    <3> QED BY Zenon, <2>3, <3>1 DEF SetGives
  <2> QED BY Zenon, <1>2, <1>t, <2>1, <2>2, <2>4
<1>7. ASSUME FieldsIn(cmds, m), NEW k \in Keys, NEW f \in Present(m.hashes[k])
      PROVE  r.hashes[k][f] # None
  <2> DEFINE x == <<"field", k, f>>
             v == m.hashes[k][f]
  <2>1. f \in Fields /\ v \in Values
    BY Zenon, StoredParts
  <2>2. x \in Cells /\ \A d : Cell(d, x) = d.hashes[k][f]
    BY Zenon, <2>1 DEF Cells, Cell
  <2>3. PICK i \in 1 .. Len(cmds) : cmds[i] = HSetCommand(k, f, v)
    BY Zenon, <1>1, <1>7 DEF FieldsIn, Range
  <2>4. Cell(Given(cmds[i]), x) = v
    <3>1. HSetGives(k, f, v, x)
      BY Zenon, <2>1, <2>2, SnapshotCells
    <3> QED BY Zenon, <2>3, <3>1 DEF HSetGives
  <2> QED BY Zenon, <1>2, <1>t, <2>1, <2>2, <2>4
<1> QED BY Zenon, <1>2, <1>4, <1>5, <1>6, <1>7

(* Stores that agree everywhere are the same. *)
LEMMA SameStore ==
  ASSUME NEW d \in Stored, NEW e \in Stored, \A k \in Keys : d.strings[k] = e.strings[k],
         \A k \in Keys : \A f \in Fields : d.hashes[k][f] = e.hashes[k][f]
  PROVE  d = e
<1>1. ASSUME NEW S, NEW T, NEW f \in [S -> T], NEW g \in [S -> T], \A x \in S : f[x] = g[x] PROVE f = g
  BY ONLY <1>1
<1> DEFINE ds == d.strings
           dh == d.hashes
           es == e.strings
           eh == e.hashes
<1>2. d = [strings |-> ds, hashes |-> dh] /\ e = [strings |-> es, hashes |-> eh]
  BY Zenon DEF Stored
<1>3. /\ ds \in [Keys -> Slot] /\ es \in [Keys -> Slot]
      /\ dh \in [Keys -> [Fields -> Slot]] /\ eh \in [Keys -> [Fields -> Slot]]
      /\ \A k \in Keys : ds[k] = es[k] /\ \A f \in Fields : dh[k][f] = eh[k][f]
  BY Zenon DEF Stored
<1> HIDE DEF ds, dh, es, eh, Slot
<1>4. ds = es
  BY ONLY <1>3
<1>5. dh = eh
  BY ONLY <1>3
<1> QED BY Zenon, <1>2, <1>4, <1>5

(* A finished snapshot gives back all that can be read of m. *)
LEMMA FinishedRead ==
  ASSUME NEW m \in Stored, Finite(m), NEW t \in WriteSnapshot(m)
  PROVE  Restored(Empty, RDBReplay(t)) = Readable(m)
<1> DEFINE r == Restored(Empty, RDBReplay(t))
           q == Readable(m)
<1>1. PICK ks, hs, fs, at : LaidOut(t, m, ks, hs, fs, at)
  BY Zenon, SnapshotLaid
<1>2. CutOff(t, t, {})
  <2>1. t \in Seq(Tokens) /\ Len(t) \in Nat
    BY Zenon, <1>1, LenProperties DEF LaidOut
  <2>2. Len(t) <= Len(t) /\ ~(Len(t) < Len(t))
    BY <2>1
  <2> QED BY Zenon, <2>1, <2>2 DEF CutOff
<1>3. AllGiven(RDBReplay(t), m, {}) /\ StringsIn(RDBReplay(t), m) /\ FieldsIn(RDBReplay(t), m)
  BY Zenon, <1>1, <1>2, SnapshotRead
<1>4. {} \in SUBSET {""}
  BY Zenon
<1>5. /\ r \in Stored
      /\ \A k \in Keys : StringKept(r, m, {}, k) /\ \A f \in Fields : FieldKept(r, m, {}, k, f)
      /\ \A k \in Present(m.strings) : (k = "" /\ m.strings[k] = "") \/ r.strings[k] # None
      /\ \A k \in Keys : \A f \in Present(m.hashes[k]) : r.hashes[k][f] # None
  BY Zenon, <1>3, <1>4, RestoredKept
<1> HIDE DEF r
<1>6. /\ m.strings \in [Keys -> Slot] /\ m.hashes \in [Keys -> [Fields -> Slot]]
  BY Zenon, <1>5 DEF Stored
<1>7. ASSUME NEW k \in Keys, NEW f \in Fields PROVE r.hashes[k][f] = m.hashes[k][f]
  <2>1. m.hashes[k][f] # None => f \in Present(m.hashes[k])
    BY Zenon, <1>6 DEF Present
  <2>2. m.hashes[k][f] # None => r.hashes[k][f] # None
    BY Zenon, <1>5, <2>1
  <2> QED BY Zenon, <1>5, <2>2 DEF FieldKept
<1>8. ASSUME NEW k \in Keys, ~(k = "" /\ m.strings[k] = "") PROVE r.strings[k] = m.strings[k]
  <2>1. m.strings[k] # None => k \in Present(m.strings)
    BY Zenon, <1>6 DEF Present
  <2>2. m.strings[k] # None => r.strings[k] # None
    BY Zenon, <1>5, <1>8, <2>1
  <2> QED BY Zenon, <1>5, <2>2 DEF StringKept
<1>9. ASSUME NEW k \in Keys, k = "", m.strings[k] = "" PROVE r.strings[k] = None
  <2>1. StringKept(r, m, {}, k)
    BY Zenon, <1>5
  <2> QED BY Zenon, <1>9, <2>1 DEF StringKept
<1>10. CASE "" \in Keys /\ m.strings[""] = ""
  <2>1. q = PutString(m, "", None)
    BY Zenon, <1>10 DEF Readable
  <2>2. /\ q \in Stored /\ q.hashes = m.hashes
        /\ \A k \in Keys : q.strings[k] = IF k = "" THEN None ELSE m.strings[k]
    <3>1. None \in Slot
      BY Zenon DEF Slot
    <3> HIDE DEF Slot, q
    <3>2. m \in Stored /\ "" \in Keys
      BY Zenon, <1>10
    <3> QED BY ONLY <2>1, <3>1, <3>2 DEF PutString, Stored
  <2> HIDE DEF q
  <2>3. \A k \in Keys : r.strings[k] = q.strings[k]
    BY Zenon, <1>8, <1>9, <1>10, <2>2
  <2>4. r = q
    <3>1. \A k \in Keys : \A f \in Fields : r.hashes[k][f] = q.hashes[k][f]
      BY Zenon, <1>7, <2>2
    <3> QED BY Zenon, <1>5, <2>2, <2>3, <3>1, SameStore
  <2> QED BY Zenon, <2>4 DEF r, q
<1>11. CASE ~("" \in Keys /\ m.strings[""] = "")
  <2>1. q = m
    BY Zenon, <1>11 DEF Readable
  <2>2. \A k \in Keys : r.strings[k] = m.strings[k]
    BY Zenon, <1>8, <1>11
  <2>3. r = m
    BY Zenon, <1>5, <1>7, <2>2, SameStore
  <2> QED BY Zenon, <2>1, <2>3 DEF r
<1> QED BY Zenon, <1>10, <1>11

(* One that was cut off gives back parts of m. *)
LEMMA CutOffRead ==
  ASSUME NEW m \in Stored, Finite(m), NEW t \in WriteSnapshot(m), NEW n \in 0 .. Len(t),
         NEW r, r = Restored(Empty, RDBReplay(SubSeq(t, 1, n)))
  PROVE  /\ \A k \in Present(r.strings) : r.strings[k] \in {m.strings[k], ""} /\ m.strings[k] # None
         /\ \A k \in Keys : \A f \in Present(r.hashes[k]) : r.hashes[k][f] \in {m.hashes[k][f], ""}
<1> DEFINE s == SubSeq(t, 1, n)
           W == {""}
<1>1. PICK ks, hs, fs, at : LaidOut(t, m, ks, hs, fs, at)
  BY Zenon, SnapshotLaid
<1>2. CutOff(s, t, W)
  <2>1. t \in Seq(Tokens) /\ Len(t) \in Nat
    BY Zenon, <1>1, LenProperties DEF LaidOut
  <2>2. s \in Seq(Tokens) /\ Len(s) <= Len(t) /\ \A i \in 1 .. Len(s) : s[i] = t[i]
    <3> HIDE DEF Tokens
    <3> QED BY <2>1
  <2> HIDE DEF s
  <2> QED BY Zenon, <2>1, <2>2 DEF CutOff
<1> HIDE DEF s
<1>3. AllGiven(RDBReplay(s), m, W)
  BY Zenon, <1>1, <1>2, SnapshotRead
<1>4. W \in SUBSET {""}
  BY Zenon
<1>5. /\ r \in Stored
      /\ \A k \in Keys : StringKept(r, m, W, k) /\ \A f \in Fields : FieldKept(r, m, W, k, f)
  BY Zenon, <1>3, <1>4, RestoredKept DEF s
<1>6. Present(r.strings) \subseteq Keys /\ \A k \in Keys : Present(r.hashes[k]) \subseteq Fields
  BY Zenon, <1>5, StoredParts
<1>7. ASSUME NEW k \in Present(r.strings) PROVE r.strings[k] \in {m.strings[k], ""} /\ m.strings[k] # None
  <2>1. r.strings[k] # None /\ k \in Keys
    BY Zenon, <1>6 DEF Present
  <2> QED BY Zenon, <1>5, <2>1 DEF StringKept
<1>8. ASSUME NEW k \in Keys, NEW f \in Present(r.hashes[k]) PROVE r.hashes[k][f] \in {m.hashes[k][f], ""}
  <2>1. r.hashes[k][f] # None /\ f \in Fields
    BY Zenon, <1>6 DEF Present
  <2> QED BY Zenon, <1>5, <2>1 DEF FieldKept
<1> QED BY Zenon, <1>7, <1>8

-----------------------------------------------------------------------------
(* The snapshot loop.                                                      *)

(* RDB's maps stay as they are while a snapshot of them is written.        *)
SnapInv ==
  /\ Finite(mem)
  /\ snap \notin {None, Ended} => snap.tokens \in WriteSnapshot(mem) /\ last = None
  /\ last # None => last \in Stored /\ Finite(last) /\ file \in WriteSnapshot(last)

(* Write adds at most one entry. *)
LEMMA FinitePut ==
  ASSUME NEW d \in Stored, Finite(d), NEW k \in Keys, NEW f, NEW v
  PROVE  Finite(PutString(d, k, v)) /\ Finite(PutField(d, k, f, v))
<1>1. /\ d.strings \in [Keys -> Slot] /\ d.hashes \in [Keys -> [Fields -> Slot]]
      /\ d = [strings |-> d.strings, hashes |-> d.hashes]
  BY Zenon DEF Stored
<1>2. ASSUME NEW S, NEW g \in [S -> Slot], NEW x, IsFiniteSet(Present(g))
      PROVE  IsFiniteSet(Present([g EXCEPT ![x] = v]))
  <2> DEFINE A == Present(g)
             B == Present([g EXCEPT ![x] = v])
  <2>1. B \in SUBSET (A \cup {x})
    <3> HIDE DEF Slot
    <3> QED BY DEF Present
  <2> HIDE DEF A, B
  <2>2. IsFiniteSet(A \cup {x})
    BY Zenon, <1>2, FS_AddElement DEF A
  <2>3. IsFiniteSet(B)
    BY Zenon, <2>1, <2>2, FS_Subset
  <2> QED BY Zenon, <2>3 DEF B
<1>3. Finite(PutString(d, k, v))
  <2> DEFINE p == PutString(d, k, v)
             g == [d.strings EXCEPT ![k] = v]
  <2>1. p.strings = g /\ p.hashes = d.hashes
    BY Zenon, <1>1 DEF PutString
  <2>2. HashKeys(p) = HashKeys(d)
    BY Zenon, <2>1 DEF HashKeys
  <2>3. IsFiniteSet(Present(g))
    BY Zenon, <1>1, <1>2 DEF Finite
  <2> HIDE DEF p, g
  <2>4. Finite(p)
    BY Zenon, <2>1, <2>2, <2>3 DEF Finite
  <2> QED BY Zenon, <2>4 DEF p
<1>4. Finite(PutField(d, k, f, v))
  <2> DEFINE p == PutField(d, k, f, v)
             g == [d.hashes[k] EXCEPT ![f] = v]
  <2>1. p.strings = d.strings /\ p.hashes = [d.hashes EXCEPT ![k] = g]
    BY <1>1 DEF PutField
  <2>2. \A j \in Keys : p.hashes[j] = IF j = k THEN g ELSE d.hashes[j]
    BY Zenon, <1>1, <2>1
  <2>3. IsFiniteSet(Present(g))
    BY Zenon, <1>1, <1>2 DEF Finite
  <2> HIDE DEF p, g
  <2>4. \A j \in Keys : IsFiniteSet(Present(p.hashes[j]))
    BY <2>2, <2>3 DEF Finite
  <2>5. IsFiniteSet(HashKeys(p))
    <3>1. HashKeys(p) \in SUBSET (HashKeys(d) \cup {k})
      BY <2>2 DEF HashKeys
    <3>2. IsFiniteSet(HashKeys(d) \cup {k})
      BY Zenon, FS_AddElement DEF Finite
    <3> QED BY Zenon, <3>1, <3>2, FS_Subset
  <2>6. Finite(p)
    BY Zenon, <2>1, <2>4, <2>5 DEF Finite
  <2> QED BY Zenon, <2>6 DEF p
<1> QED BY Zenon, <1>3, <1>4

(* So does a command, and RDB begins with nothing. *)
LEMMA FiniteWrite ==
  /\ Finite(Empty)
  /\ \A d \in Stored : \A cmd \in Commands : Finite(d) => Finite(RDBWrite(d, cmd))
<1>1. Finite(Empty)
  <2>1. Present(Empty.strings) = {} /\ \A k \in Keys : Present(Empty.hashes[k]) = {}
    BY DEF Empty, Present
  <2>2. HashKeys(Empty) = {}
    BY Zenon, <2>1 DEF HashKeys
  <2> QED BY Zenon, <2>1, <2>2, FS_EmptySet DEF Finite
<1>2. ASSUME NEW d \in Stored, NEW cmd \in Commands, Finite(d) PROVE Finite(RDBWrite(d, cmd))
  <2> DEFINE a == cmd.args
  <2>1. CASE cmd.name = "SET" /\ Len(a) >= 2
    <3>1. a[1] \in Keys /\ RDBWrite(d, cmd) = PutString(d, a[1], a[2])
      BY Zenon, <2>1, Arguments DEF RDBWrite
    <3> QED BY Zenon, <1>2, <3>1, FinitePut
  <2>2. CASE cmd.name = "HSET" /\ Len(a) >= 3
    <3>1. "HSET" # "SET"
      OBVIOUS
    <3>2. a[1] \in Keys /\ RDBWrite(d, cmd) = PutField(d, a[1], a[2], a[3])
      BY Zenon, <2>2, <3>1, Arguments DEF RDBWrite
    <3> QED BY Zenon, <1>2, <3>2, FinitePut
  <2>3. CASE ~(cmd.name = "SET" /\ Len(a) >= 2) /\ ~(cmd.name = "HSET" /\ Len(a) >= 3)
    <3>1. RDBWrite(d, cmd) = d
      BY Zenon, <2>3 DEF RDBWrite
    <3> QED BY Zenon, <1>2, <3>1
  <2> QED BY Zenon, <2>1, <2>2, <2>3
<1> QED BY Zenon, <1>1, <1>2

(* SnapInv is inductive. *)
LEMMA SnapStep == LifeInv /\ SnapInv /\ [Next]_vars => SnapInv'
<1> SUFFICES ASSUME LifeInv, SnapInv, [Next]_vars PROVE SnapInv'
  OBVIOUS
<1>1. ASSUME UNCHANGED <<mem, file, snap, last>> PROVE SnapInv'
  BY Zenon, <1>1 DEF SnapInv
<1>2. CASE LoadConfig \/ BuildAll \/ StartNetwork \/ Shutdown \/ CloseStore
  BY Zenon, <1>1, <1>2 DEF LoadConfig, BuildAll, StartNetwork, Shutdown, CloseStore, data
<1>3. CASE Replay \/ Restart
  BY Zenon, <1>1, <1>3 DEF Replay, Restart
<1>4. CASE Stop
  <2>1. mem' = Empty /\ snap' = None /\ last' = last
    BY Zenon, <1>4 DEF Stop
  <2>2. snap \in {None, Ended} => file' = file
    BY Zenon, <1>4 DEF Stop, Written
  <2> QED BY Zenon, <2>1, <2>2, FiniteWrite DEF SnapInv
<1>5. CASE BeginSnapshot
  <2>1. PICK tokens \in WriteSnapshot(mem), final \in {FALSE, Closing} : snap' = [tokens |-> tokens, final |-> final]
    BY Zenon, <1>5 DEF BeginSnapshot
  <2>2. snap'.tokens \in WriteSnapshot(mem) /\ last' = None /\ mem' = mem
    BY Zenon, <1>5, <2>1 DEF BeginSnapshot
  <2> QED BY Zenon, <2>2 DEF SnapInv
<1>6. CASE EndSnapshot
  <2>1. /\ snap \notin {None, Ended} /\ file' = SubSeq(snap.tokens, 1, Len(snap.tokens)) /\ last' = mem /\ mem' = mem
        /\ snap' \in {None, Ended}
    BY Zenon, <1>6 DEF EndSnapshot, Written
  <2>2. snap.tokens \in WriteSnapshot(mem) /\ mem \in Stored /\ Finite(mem)
    BY Zenon, <2>1 DEF SnapInv, LifeInv
  <2>3. SubSeq(snap.tokens, 1, Len(snap.tokens)) = snap.tokens
    <3>1. snap.tokens \in Seq(Tokens)
      BY Zenon, <2>2, SnapshotLaid DEF LaidOut
    <3> HIDE DEF Tokens
    <3> QED BY <3>1
  <2> QED BY Zenon, <2>1, <2>2, <2>3 DEF SnapInv
<1>7. ASSUME NEW c \in Clients, Call(c) \/ HandleCall(c) PROVE SnapInv'
  BY Zenon, <1>1, <1>7 DEF Call, HandleCall
<1>8. ASSUME NEW c \in Clients, WriteBackend(c) PROVE SnapInv'
  <2>1. UNCHANGED <<file, snap, last>> /\ pc[c] # 0
    BY SMTT(30), <1>8 DEF WriteBackend
  <2>2. mem' = mem \/ (snap \in {None, Ended} /\ mem' = RDBWrite(mem, call[c]))
    BY Zenon, <1>8 DEF WriteBackend
  <2>3. call[c] \in Commands /\ mem \in Stored
    BY Zenon, <2>1 DEF LifeInv
  <2>4. Finite(mem')
    BY Zenon, <2>2, <2>3, FiniteWrite DEF SnapInv
  <2> QED BY Zenon, <2>1, <2>2, <2>4 DEF SnapInv
<1>9. ASSUME NEW k \in Keys, Drop(k) PROVE SnapInv'
  BY Zenon, <1>1, <1>9 DEF Drop
<1>10. CASE UNCHANGED vars
  BY Zenon, <1>1, <1>10 DEF vars
<1> QED BY Zenon, <1>2, <1>3, <1>4, <1>5, <1>6, <1>7, <1>8, <1>9, <1>10 DEF Next

(* RDB: whatever was written, and in whatever order the maps were gone     *)
(* through, Replay of a finished snapshot gives back what Write had noted, *)
(* but for an empty key with an empty string, and Replay of one that was   *)
(* cut off anywhere gives parts of it, some of them as empty strings, and  *)
(* to no key or field the value of another.                                *)
THEOREM SnapshotsAreRead == Spec => []SnapshotIsRead
<1>1. Init => SnapInv
  BY Zenon, FiniteWrite DEF Init, SnapInv
<1>2. LifeInv /\ SnapInv => SnapshotIsRead
  <2> SUFFICES ASSUME LifeInv, SnapInv PROVE SnapshotIsRead
    OBVIOUS
  <2>1. last # None => Restored(Empty, RDBReplay(file)) = Readable(last)
    BY Zenon, FinishedRead DEF SnapInv
  <2>2. ASSUME snap \notin {None, Ended}, NEW n \in 0 .. Len(snap.tokens), NEW r, r = Restored(Empty, RDBReplay(Written(n)))
        PROVE  /\ \A k \in Present(r.strings) : r.strings[k] \in {mem.strings[k], ""} /\ mem.strings[k] # None
               /\ \A k \in Keys : \A f \in Present(r.hashes[k]) : r.hashes[k][f] \in {mem.hashes[k][f], ""}
    <3>1. Written(n) = SubSeq(snap.tokens, 1, n)
      BY Zenon, <2>2 DEF Written
    <3>2. snap.tokens \in WriteSnapshot(mem) /\ mem \in Stored /\ Finite(mem)
      BY Zenon, <2>2 DEF SnapInv, LifeInv
    <3> DEFINE t == snap.tokens
    <3>3. t \in WriteSnapshot(mem) /\ n \in 0 .. Len(t) /\ r = Restored(Empty, RDBReplay(SubSeq(t, 1, n)))
      BY Zenon, <2>2, <3>1, <3>2
    <3> HIDE DEF t
    <3> QED BY Zenon, <3>2, <3>3, CutOffRead
  <2> QED BY Zenon, <2>1, <2>2 DEF SnapshotIsRead
<1> QED BY <1>1, <1>2, LifeInit, LifeStep, OffsetStep, SnapStep, PTL DEF Spec
=============================================================================
