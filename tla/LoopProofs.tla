----------------------------- MODULE LoopProofs -----------------------------
(***************************************************************************)
(* Induction and recursion over the naturals, and what a loop that writes  *)
(* one part after the other leaves in the file: for any number of rounds   *)
(* and parts of any length.                                                *)
(***************************************************************************)
EXTENDS Loops, WellFoundedInduction, SequenceTheorems, TLAPS

-----------------------------------------------------------------------------
(* Recursion over the naturals.                                            *)

(* A set of naturals that is not empty has a least element. *)
LEMMA LeastElement ==
  ASSUME NEW T \in SUBSET Nat, T # {}
  PROVE  \E m \in T : \A n \in T : ~(n < m)
<1> DEFINE R == {ss \in Nat \X Nat : ss[1] < ss[2]}
<1>1. IsWellFoundedOn(R, Nat)
  BY Zenon, NatLessThanWellFounded DEF OpToRel
<1>2. PICK m \in T : \A n \in T : ~(<<n, m>> \in R)
  <2> HIDE DEF R
  <2> QED BY Zenon, <1>1, WFMin
<1>3. ASSUME NEW n \in T, n < m PROVE FALSE
  <2>1. <<n, m>> \in Nat \X Nat /\ <<n, m>>[1] < <<n, m>>[2]
    BY Zenon, <1>3
  <2> QED BY Zenon, <1>2, <2>1
<1> QED BY Zenon, <1>3

(* What holds at 0 and goes on from each number to the next holds up to N. *)
LEMMA Induction ==
  ASSUME NEW N \in Nat, NEW P, 0 \in P, \A n \in 0 .. N - 1 : n \in P => n + 1 \in P
  PROVE  \A n \in 0 .. N : n \in P
<1> DEFINE R == {ss \in Nat \X Nat : ss[1] < ss[2]}
           T == {n \in 0 .. N : n \notin P}
<1> SUFFICES ASSUME T # {} PROVE FALSE
  OBVIOUS
<1>1. IsWellFoundedOn(R, Nat)
  BY Zenon, NatLessThanWellFounded DEF OpToRel
<1>2. T \in SUBSET Nat
  OBVIOUS
<1>3. PICK m \in T : \A n \in T : ~(<<n, m>> \in R)
  <2> HIDE DEF R, T
  <2> QED BY Zenon, <1>1, <1>2, WFMin
<1>4. m \in 1 .. N
  OBVIOUS
<1>5. m - 1 \in Nat /\ <<m - 1, m>> \in R
  BY <1>4
<1>6. m - 1 \in 0 .. N - 1 /\ m - 1 \in P
  BY <1>3, <1>4, <1>5
<1>7. (m - 1) + 1 \in P /\ (m - 1) + 1 = m
  BY <1>4, <1>6
<1> QED BY <1>7

(* The bodies of the N rounds of a loop, and the values it passes through  *)
(* when it starts with b.                                                  *)
Rounds(step, N, S) == \A n \in 1 .. N : step[n] \in [S -> S]

IsLoop(f, b, N, step) == f[0] = b /\ \A n \in 1 .. N : f[n] = step[n][f[n - 1]]

(* Every loop with a fixed number of rounds has such values. *)
LEMMA LoopExists ==
  ASSUME NEW S, NEW b \in S, NEW N \in Nat, NEW step, Rounds(step, N, S)
  PROVE  \E f \in [0 .. N -> S] : IsLoop(f, b, N, step)
<1> DEFINE Good(k, f) == f[0] = b /\ \A n \in 1 .. k : f[n] = step[n][f[n - 1]]
           P == {k \in 0 .. N : \E f \in [0 .. N -> S] : Good(k, f)}
<1>1. 0 \in P
  <2> DEFINE f == [i \in 0 .. N |-> b]
  <2>1. f \in [0 .. N -> S] /\ Good(0, f)
    OBVIOUS
  <2>2. 0 \in 0 .. N
    OBVIOUS
  <2> HIDE DEF f, Good
  <2> QED BY Zenon, <2>1, <2>2
<1>2. ASSUME NEW k \in 0 .. N - 1, k \in P PROVE k + 1 \in P
  <2>1. PICK f \in [0 .. N -> S] : Good(k, f)
    BY Zenon, <1>2
  <2> DEFINE g == [n \in 0 .. N |-> IF n = k + 1 THEN step[k + 1][f[k]] ELSE f[n]]
  <2>2. step[k + 1][f[k]] \in S
    BY DEF Rounds
  <2>3. g \in [0 .. N -> S]
    BY <2>2
  <2>4. Good(k + 1, g)
    BY <2>1
  <2>5. k + 1 \in 0 .. N
    OBVIOUS
  <2> HIDE DEF g, Good
  <2> QED BY Zenon, <2>3, <2>4, <2>5
<1>3. N \in P
  <2>1. N \in 0 .. N
    OBVIOUS
  <2> HIDE DEF P
  <2> QED BY Zenon, <1>1, <1>2, <2>1, Induction
<1> HIDE DEF Good
<1>4. PICK f \in [0 .. N -> S] : Good(N, f)
  BY Zenon, <1>3
<1> QED BY Zenon, <1>4 DEF Good, IsLoop

(* The values of a recursion that goes from each p up to N to a later      *)
(* place next[p], or stops there with base[p].                             *)
IsScan(f, N, next, step, base) ==
  \A p \in 0 .. N : f[p] = IF next[p] > p THEN step[p][f[next[p]]] ELSE base[p]

(* Every such recursion has values. *)
LEMMA ScanExists ==
  ASSUME NEW S, NEW N \in Nat, NEW next \in [0 .. N -> 0 .. N],
         NEW step \in [0 .. N -> [S -> S]], NEW base \in [0 .. N -> S]
  PROVE  \E f \in [0 .. N -> S] : IsScan(f, N, next, step, base)
<1> DEFINE Value(f, p) == IF next[p] > p THEN step[p][f[next[p]]] ELSE base[p]
           Good(k, f) == \A p \in N - k .. N : f[p] = Value(f, p)
           P == {k \in 0 .. N : \E f \in [0 .. N -> S] : Good(k, f)}
<1>1. 0 \in P
  <2>1. base \in [0 .. N -> S] /\ Good(0, base) /\ 0 \in 0 .. N
    OBVIOUS
  <2> HIDE DEF Good
  <2> QED BY Zenon, <2>1
<1>2. ASSUME NEW k \in 0 .. N - 1, k \in P PROVE k + 1 \in P
  <2>1. PICK f \in [0 .. N -> S] : Good(k, f)
    BY Zenon, <1>2
  <2> DEFINE q == N - (k + 1)
             g == [f EXCEPT ![q] = Value(f, q)]
  <2>2. q \in 0 .. N /\ Value(f, q) \in S
    OBVIOUS
  <2>3. g \in [0 .. N -> S]
    BY <2>2
  <2>4. ASSUME NEW p \in q .. N PROVE g[p] = Value(g, p)
    <3>1. next[p] > p => g[next[p]] = f[next[p]]
      OBVIOUS
    <3>2. g[p] = Value(f, p)
      <4>1. CASE p = q
        BY <2>2, <4>1
      <4>2. CASE p # q
        <5>1. p \in N - k .. N
          BY <4>2
        <5> QED BY <2>1, <4>2, <5>1
      <4> QED BY <4>1, <4>2
    <3> QED BY <3>1, <3>2
  <2>5. k + 1 \in 0 .. N
    OBVIOUS
  <2>6. Good(k + 1, g)
    BY Zenon, <2>4
  <2> HIDE DEF g, Good
  <2> QED BY Zenon, <2>3, <2>5, <2>6
<1>3. N \in P
  <2>1. N \in 0 .. N
    OBVIOUS
  <2> HIDE DEF P
  <2> QED BY Zenon, <1>1, <1>2, <2>1, Induction
<1> HIDE DEF Good
<1>4. PICK f \in [0 .. N -> S] : Good(N, f)
  BY Zenon, <1>3
<1>5. IsScan(f, N, next, step, base)
  <2>1. N - N = 0
    OBVIOUS
  <2> QED BY Zenon, <1>4, <2>1 DEF Good, IsScan
<1> QED BY Zenon, <1>5

(* What does not fall from one place to the next does not fall at all. *)
LEMMA Monotone ==
  ASSUME NEW N \in Nat, NEW f \in [0 .. N -> Int], \A i \in 1 .. N : f[i - 1] <= f[i]
  PROVE  \A k \in 0 .. N : \A i \in 0 .. k : f[i] <= f[k]
<1> DEFINE P == {k \in 0 .. N : \A i \in 0 .. k : f[i] <= f[k]}
<1>1. 0 \in P
  OBVIOUS
<1>2. ASSUME NEW k \in 0 .. N - 1, k \in P PROVE k + 1 \in P
  <2>1. k + 1 \in 1 .. N /\ f[k] <= f[k + 1]
    OBVIOUS
  <2>2. ASSUME NEW i \in 0 .. k + 1 PROVE f[i] <= f[k + 1]
    <3>1. CASE i = k + 1
      BY <3>1
    <3>2. CASE i \in 0 .. k
      <4>1. f[i] <= f[k]
        BY <1>2, <3>2
      <4> QED BY <2>1, <3>2, <4>1
    <3> QED BY <3>1, <3>2
  <2> QED BY <2>1, <2>2
<1>3. \A k \in 0 .. N : k \in P
  <2> HIDE DEF P
  <2> QED BY Zenon, <1>1, <1>2, Induction
<1> QED BY Zenon, <1>3

-----------------------------------------------------------------------------
(* What AppendAll puts where.                                              *)

(* The sequences that AppendAll goes through. *)
IsAppending(f, seqs) ==
  /\ f[0] = <<>>
  /\ \A i \in 1 .. Len(seqs) : f[i] = f[i - 1] \o seqs[i]
  /\ AppendAll(seqs) = f[Len(seqs)]

(* Every sequence of sequences has them. *)
LEMMA AppendLoop ==
  ASSUME NEW X, NEW seqs \in Seq(Seq(X))
  PROVE  \E f \in [0 .. Len(seqs) -> Seq(X)] : IsAppending(f, seqs)
<1> DEFINE N == Len(seqs)
           step == [i \in 1 .. N |-> [s \in Seq(X) |-> s \o seqs[i]]]
<1>1. N \in Nat /\ <<>> \in Seq(X) /\ \A i \in 1 .. N : seqs[i] \in Seq(X)
  OBVIOUS
<1>2. Rounds(step, N, Seq(X))
  BY <1>1 DEF Rounds
<1>3. PICK f \in [0 .. N -> Seq(X)] : IsLoop(f, <<>>, N, step)
  <2> HIDE DEF N, step
  <2> QED BY Zenon, <1>1, <1>2, LoopExists
<1>4. ASSUME NEW i \in 1 .. N PROVE f[i] = f[i - 1] \o seqs[i] /\ f[i - 1] \in Seq(X)
  <2>1. f[i] = step[i][f[i - 1]]
    BY Zenon, <1>3 DEF IsLoop
  <2>2. i - 1 \in 0 .. N
    <3> HIDE DEF N
    <3> QED BY <1>1
  <2>3. f[i - 1] \in Seq(X)
    BY Zenon, <2>2
  <2> QED BY Zenon, <2>1, <2>3
<1>5. f[0] = <<>>
  BY Zenon, <1>3 DEF IsLoop
<1>6. AppendAll(seqs) = f[N]
  <2> DEFINE Body(h) == [n \in 0 .. N |-> IF n = 0 THEN <<>> ELSE h[n - 1] \o seqs[n]]
             upto == CHOOSE h : h = Body(h)
  <2>1. \A n \in 0 .. N : n = 0 \/ n \in 1 .. N
    OBVIOUS
  <2>2. f = Body(f)
    <3>1. ASSUME NEW n \in 0 .. N PROVE f[n] = IF n = 0 THEN <<>> ELSE f[n - 1] \o seqs[n]
      BY Zenon, <1>4, <1>5, <2>1
    <3> QED BY Zenon, <3>1
  <2>3. upto = Body(upto)
    <3> HIDE DEF Body
    <3> QED BY Zenon, <2>2
  <2>4. AppendAll(seqs) = upto[N]
    BY Zenon DEF AppendAll
  <2> HIDE DEF upto, N
  <2>5. \A n \in 0 .. N : upto[n] = IF n = 0 THEN <<>> ELSE upto[n - 1] \o seqs[n]
    BY Zenon, <2>3
  <2> DEFINE P == {k \in 0 .. N : upto[k] = f[k]}
  <2>6. 0 \in P
    <3>1. 0 \in 0 .. N
      BY <1>1
    <3> QED BY Zenon, <1>5, <2>5, <3>1
  <2>7. ASSUME NEW k \in 0 .. N - 1, k \in P PROVE k + 1 \in P
    <3>1. k + 1 \in 1 .. N /\ k + 1 \in 0 .. N /\ (k + 1) - 1 = k /\ k + 1 # 0
      BY <1>1
    <3> QED BY Zenon, <1>4, <2>5, <2>7, <3>1
  <2>8. N \in P
    <3>1. N \in 0 .. N
      BY <1>1
    <3> HIDE DEF P
    <3> QED BY Zenon, <1>1, <2>6, <2>7, <3>1, Induction
  <2> QED BY Zenon, <2>4, <2>8
<1> QED BY Zenon, <1>4, <1>5, <1>6 DEF IsAppending

(* One sequence more is put at the end. *)
LEMMA AppendOneMore ==
  ASSUME NEW X, NEW seqs \in Seq(Seq(X)), NEW s \in Seq(X)
  PROVE  /\ AppendAll(seqs) \in Seq(X)
         /\ AppendAll(Append(seqs, s)) = AppendAll(seqs) \o s
<1> DEFINE N == Len(seqs)
           more == Append(seqs, s)
<1>1. N \in Nat /\ more \in Seq(Seq(X)) /\ Len(more) = N + 1 /\ more[N + 1] = s
  BY AppendProperties
<1>2. \A i \in 1 .. N : more[i] = seqs[i]
  BY AppendProperties
<1>3. PICK f \in [0 .. N -> Seq(X)] : IsAppending(f, seqs)
  BY Zenon, AppendLoop
<1>4. PICK g \in [0 .. N + 1 -> Seq(X)] : IsAppending(g, more)
  <2> HIDE DEF more
  <2> QED BY Zenon, <1>1, AppendLoop
<1> HIDE DEF more, N
<1>5. /\ \A i \in 1 .. N : f[i] = f[i - 1] \o seqs[i]
      /\ f[0] = <<>> /\ AppendAll(seqs) = f[N]
  BY Zenon, <1>3 DEF IsAppending, N
<1>6. /\ \A i \in 1 .. N + 1 : g[i] = g[i - 1] \o more[i]
      /\ g[0] = <<>> /\ AppendAll(more) = g[N + 1]
  BY Zenon, <1>1, <1>4 DEF IsAppending
<1> DEFINE P == {k \in 0 .. N : f[k] = g[k]}
<1>7. 0 \in P
  <2>1. 0 \in 0 .. N
    BY <1>1
  <2> QED BY Zenon, <1>5, <1>6, <2>1
<1>8. ASSUME NEW k \in 0 .. N - 1, k \in P PROVE k + 1 \in P
  <2>1. k + 1 \in 1 .. N /\ k + 1 \in 1 .. N + 1 /\ (k + 1) - 1 = k /\ k + 1 \in 0 .. N
    BY <1>1
  <2>2. f[k + 1] = f[k] \o seqs[k + 1] /\ g[k + 1] = g[k] \o seqs[k + 1]
    BY Zenon, <1>2, <1>5, <1>6, <2>1
  <2> QED BY Zenon, <1>8, <2>1, <2>2
<1>9. \A k \in 0 .. N : k \in P
  <2> HIDE DEF P
  <2> QED BY Zenon, <1>1, <1>7, <1>8, Induction
<1>10. N \in 0 .. N /\ N + 1 \in 1 .. N + 1 /\ (N + 1) - 1 = N
  BY <1>1
<1> QED BY Zenon, <1>1, <1>5, <1>6, <1>9, <1>10 DEF more

(* s holds the sequences one after the other; the i-th ends at at[i]. *)
Laid(s, seqs, at) ==
  /\ at[0] = 0 /\ at[Len(seqs)] = Len(s)
  /\ \A i \in 1 .. Len(seqs) :
       at[i] = at[i - 1] + Len(seqs[i]) /\ \A j \in 1 .. Len(seqs[i]) : s[at[i - 1] + j] = seqs[i][j]

(* That is what AppendAll gives. *)
LEMMA AppendLaid ==
  ASSUME NEW X, NEW seqs \in Seq(Seq(X))
  PROVE  /\ AppendAll(seqs) \in Seq(X)
         /\ \E at \in [0 .. Len(seqs) -> Nat] : Laid(AppendAll(seqs), seqs, at)
<1> DEFINE N == Len(seqs)
<1>1. N \in Nat /\ \A i \in 1 .. N : seqs[i] \in Seq(X)
  OBVIOUS
<1>2. PICK f \in [0 .. N -> Seq(X)] : IsAppending(f, seqs)
  BY Zenon, AppendLoop
<1>3. /\ \A i \in 1 .. N : f[i] = f[i - 1] \o seqs[i]
      /\ f[0] = <<>> /\ AppendAll(seqs) = f[N]
  BY Zenon, <1>2 DEF IsAppending
<1> DEFINE at == [i \in 0 .. N |-> Len(f[i])]
<1> HIDE DEF N
<1>4. ASSUME NEW i \in 1 .. N
      PROVE  /\ f[i - 1] \in Seq(X) /\ f[i] \in Seq(X) /\ seqs[i] \in Seq(X)
             /\ at[i] = at[i - 1] + Len(seqs[i])
             /\ \A j \in 1 .. Len(f[i]) :
                  f[i][j] = IF j <= at[i - 1] THEN f[i - 1][j] ELSE seqs[i][j - at[i - 1]]
  <2>1. i - 1 \in 0 .. N /\ i \in 0 .. N
    BY <1>1
  <2>2. f[i - 1] \in Seq(X) /\ f[i] \in Seq(X) /\ seqs[i] \in Seq(X)
    BY Zenon, <1>1, <2>1
  <2>3. at[i] = Len(f[i]) /\ at[i - 1] = Len(f[i - 1]) /\ f[i] = f[i - 1] \o seqs[i]
    BY Zenon, <1>3, <2>1
  <2>4. /\ Len(f[i]) = Len(f[i - 1]) + Len(seqs[i])
        /\ \A j \in 1 .. Len(f[i - 1]) + Len(seqs[i]) :
             f[i][j] = IF j <= Len(f[i - 1]) THEN f[i - 1][j] ELSE seqs[i][j - Len(f[i - 1])]
    <3>1. /\ Len(f[i - 1] \o seqs[i]) = Len(f[i - 1]) + Len(seqs[i])
          /\ \A j \in 1 .. Len(f[i - 1]) + Len(seqs[i]) :
               (f[i - 1] \o seqs[i])[j] =
                 IF j <= Len(f[i - 1]) THEN f[i - 1][j] ELSE seqs[i][j - Len(f[i - 1])]
      BY Zenon, <2>2, ConcatProperties
    <3> QED BY Zenon, <2>3, <3>1
  <2> HIDE DEF at
  <2> QED BY Zenon, <2>2, <2>3, <2>4
<1>5. at \in [0 .. N -> Nat] /\ at[0] = 0 /\ at[N] = Len(f[N]) /\ f[N] \in Seq(X)
  <2>1. 0 \in 0 .. N /\ N \in 0 .. N
    BY <1>1
  <2>2. ASSUME NEW i \in 0 .. N PROVE Len(f[i]) \in Nat
    BY Zenon, LenProperties
  <2>3. at[0] = Len(f[0]) /\ at[N] = Len(f[N]) /\ f[N] \in Seq(X)
    BY Zenon, <2>1
  <2>4. Len(<<>>) = 0
    OBVIOUS
  <2> QED BY Zenon, <1>3, <2>2, <2>3, <2>4
<1> DEFINE In(m) == \A i \in 1 .. m : \A j \in 1 .. Len(seqs[i]) :
                      at[i - 1] + j <= at[m] /\ f[m][at[i - 1] + j] = seqs[i][j]
           P == {m \in 0 .. N : In(m)}
<1> HIDE DEF at
<1>6. 0 \in P
  BY <1>1
<1>7. ASSUME NEW m \in 0 .. N - 1, m \in P PROVE m + 1 \in P
  <2>1. m + 1 \in 1 .. N /\ (m + 1) - 1 = m /\ m \in 0 .. N /\ m + 1 \in 0 .. N
    BY <1>1
  <2>2. /\ f[m] \in Seq(X) /\ f[m + 1] \in Seq(X) /\ seqs[m + 1] \in Seq(X)
        /\ at[m + 1] = at[m] + Len(seqs[m + 1])
        /\ \A j \in 1 .. Len(f[m + 1]) :
             f[m + 1][j] = IF j <= at[m] THEN f[m][j] ELSE seqs[m + 1][j - at[m]]
    BY Zenon, <1>4, <2>1
  <2>3. at[m] \in Nat /\ Len(seqs[m + 1]) \in Nat /\ at[m + 1] = Len(f[m + 1])
    <3>1. at[m] \in Nat /\ at[m + 1] = Len(f[m + 1])
      BY Zenon, <1>5, <2>1 DEF at
    <3> QED BY Zenon, <2>2, <3>1, LenProperties
  <2>4. ASSUME NEW i \in 1 .. m + 1, NEW j \in 1 .. Len(seqs[i])
        PROVE  at[i - 1] + j <= at[m + 1] /\ f[m + 1][at[i - 1] + j] = seqs[i][j]
    <3>1. CASE i = m + 1
      <4>1. at[m] + j \in 1 .. Len(f[m + 1]) /\ ~(at[m] + j <= at[m]) /\ (at[m] + j) - at[m] = j
        BY <2>2, <2>3, <3>1
      <4>2. f[m + 1][at[m] + j] = seqs[m + 1][j]
        BY Zenon, <2>2, <4>1
      <4>3. at[m] + j <= at[m + 1]
        BY <2>2, <2>3, <3>1
      <4> QED BY Zenon, <2>1, <3>1, <4>2, <4>3
    <3>2. CASE i \in 1 .. m
      <4>1. i - 1 \in 0 .. N /\ i \in 1 .. N
        BY <1>1, <3>2
      <4>2. at[i - 1] \in Nat /\ Len(seqs[i]) \in Nat
        BY Zenon, <1>1, <1>5, <4>1, LenProperties
      <4>3. at[i - 1] + j <= at[m] /\ f[m][at[i - 1] + j] = seqs[i][j]
        BY Zenon, <1>7, <3>2
      <4>4. j \in Nat /\ j > 0
        BY <4>2
      <4>5. \A a, b, c, k \in Nat : k > 0 /\ a + k <= b => a + k \in 1 .. b + c /\ a + k <= b + c
        OBVIOUS
      <4>6. at[i - 1] + j \in 1 .. at[m + 1] /\ at[i - 1] + j <= at[m + 1]
        BY Zenon, <2>2, <2>3, <4>2, <4>3, <4>4, <4>5
      <4>7. at[i - 1] + j \in 1 .. Len(f[m + 1])
        BY Zenon, <2>3, <4>6
      <4> QED BY Zenon, <2>2, <4>3, <4>6, <4>7
    <3> QED BY <1>1, <3>1, <3>2
  <2> QED BY Zenon, <2>1, <2>4
<1>8. \A m \in 0 .. N : m \in P
  <2> HIDE DEF P
  <2> QED BY Zenon, <1>1, <1>6, <1>7, Induction
<1>9. In(N)
  <2>1. N \in 0 .. N
    BY <1>1
  <2> QED BY Zenon, <1>8, <2>1
<1>10. \A i \in 1 .. N : at[i] = at[i - 1] + Len(seqs[i])
  BY Zenon, <1>4
<1>11. Laid(AppendAll(seqs), seqs, at)
  BY Zenon, <1>3, <1>5, <1>9, <1>10 DEF Laid, N
<1> QED BY Zenon, <1>3, <1>5, <1>11 DEF N

(* It holds what the parts hold, and nothing else. *)
LEMMA AppendElements ==
  ASSUME NEW X, NEW seqs \in Seq(Seq(X))
  PROVE  /\ AppendAll(seqs) \in Seq(X)
         /\ Range(AppendAll(seqs)) = UNION {Range(seqs[i]) : i \in 1 .. Len(seqs)}
<1> DEFINE N == Len(seqs)
           All(m) == UNION {Range(seqs[i]) : i \in 1 .. m}
<1>1. N \in Nat /\ \A i \in 1 .. N : seqs[i] \in Seq(X)
  OBVIOUS
<1>2. PICK f \in [0 .. N -> Seq(X)] : IsAppending(f, seqs)
  BY Zenon, AppendLoop
<1>3. /\ \A i \in 1 .. N : f[i] = f[i - 1] \o seqs[i]
      /\ f[0] = <<>> /\ AppendAll(seqs) = f[N]
  BY Zenon, <1>2 DEF IsAppending
<1> HIDE DEF N
<1> DEFINE P == {m \in 0 .. N : Range(f[m]) = All(m)}
<1>4. 0 \in P
  <2>1. 0 \in 0 .. N /\ \A i : i \notin 1 .. 0
    BY <1>1
  <2>2. Range(<<>>) = {}
    BY DEF Range
  <2> QED BY Zenon, <1>3, <2>1, <2>2
<1>5. ASSUME NEW m \in 0 .. N - 1, m \in P PROVE m + 1 \in P
  <2>1. m + 1 \in 1 .. N /\ (m + 1) - 1 = m /\ m \in 0 .. N /\ m + 1 \in 0 .. N
    BY <1>1
  <2>2. f[m + 1] = f[m] \o seqs[m + 1] /\ f[m] \in Seq(X) /\ seqs[m + 1] \in Seq(X)
    BY Zenon, <1>1, <1>3, <2>1
  <2>3. Range(f[m + 1]) = Range(f[m]) \cup Range(seqs[m + 1])
    <3> DEFINE s == f[m]
               t == seqs[m + 1]
    <3>1. s \in Seq(X) /\ t \in Seq(X) /\ f[m + 1] = s \o t
      BY Zenon, <2>2
    <3> HIDE DEF s, t
    <3>2. Range(s \o t) = Range(s) \cup Range(t)
      BY <3>1, RangeConcatenation
    <3> QED BY Zenon, <3>1, <3>2 DEF s, t
  <2>4. \A i : i \in 1 .. m + 1 <=> i \in 1 .. m \/ i = m + 1
    BY <1>1
  <2>5. All(m + 1) = All(m) \cup Range(seqs[m + 1])
    BY Zenon, <2>4
  <2> HIDE DEF All
  <2> QED BY Zenon, <1>5, <2>1, <2>3, <2>5
<1>6. \A m \in 0 .. N : m \in P
  <2> HIDE DEF P
  <2> QED BY Zenon, <1>1, <1>4, <1>5, Induction
<1>7. N \in 0 .. N
  BY <1>1
<1> QED BY Zenon, <1>3, <1>6, <1>7 DEF N
=============================================================================
