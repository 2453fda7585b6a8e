---------------------------- MODULE FormatProofs ----------------------------
(***************************************************************************)
(* Proofs about the files of the WAL and of the Bitcask store, for any     *)
(* size of a byte, any names, arguments, keys and values whose lengths fit *)
(* their fields, and any number of frames and records.                     *)
(***************************************************************************)
EXTENDS WALCodec, Bitcask, LoopProofs

-----------------------------------------------------------------------------
(* Numbers of a fixed width.                                               *)

(* A number is its low byte and the rest. *)
LEMMA LowByte ==
  ASSUME NEW n \in Nat
  PROVE  Shift1(n) \in Nat /\ n % Base \in Byte /\ n = Shift1(n) * Base + (n % Base)
<1>1. n % Base \in Byte
  BY BytesAssumption DEF Byte
<1>2. n \div Base \in Nat
  BY BytesAssumption
<1>3. n = (n \div Base) * Base + (n % Base)
  BY BytesAssumption
<1> QED BY <1>1, <1>2, <1>3 DEF Shift1

(* A number that the shift takes to 0 is its low byte. *)
LEMMA OneByte ==
  ASSUME NEW n \in Nat, Shift1(n) = 0
  PROVE  n % Base = n
<1>1. n = 0 * Base + (n % Base) /\ n % Base \in Nat
  BY LowByte, BytesAssumption DEF Byte
<1> QED BY <1>1, BytesAssumption

(* The bytes of n stand after the first off bytes of s. *)
Head16(s, off, n) == s[off + 1] = PutUint16(n)[1] /\ s[off + 2] = PutUint16(n)[2]

Head32(s, off, n) == \A j \in 1 .. 4 : s[off + j] = PutUint32(n)[j]

(* The bytes that PutUint16 writes are the number that Uint16 reads, if it *)
(* fits.                                                                   *)
LEMMA Put16 ==
  ASSUME NEW n \in Nat
  PROVE  /\ PutUint16(n) \in Seq(Byte) /\ Len(PutUint16(n)) = 2
         /\ \A d, off : Fits16(n) /\ Head16(d, off, n) => Uint16(d, off) = n
<1>1. Shift1(n) \in Nat /\ n % Base \in Byte /\ n = Shift1(n) * Base + (n % Base)
  BY LowByte
<1>2. Shift1(n) % Base \in Byte
  BY <1>1, LowByte
<1>3. Fits16(n) => Shift1(n) % Base = Shift1(n)
  BY <1>1, OneByte DEF Fits16, Shift2
<1>4. PutUint16(n) \in Seq(Byte) /\ Len(PutUint16(n)) = 2
  BY <1>1, <1>2 DEF PutUint16
<1>5. PutUint16(n)[1] = Shift1(n) % Base /\ PutUint16(n)[2] = n % Base
  BY DEF PutUint16
<1> QED BY Zenon, <1>1, <1>3, <1>4, <1>5 DEF Uint16, Head16

(* So are those of PutUint32 for Uint32. *)
LEMMA Put32 ==
  ASSUME NEW n \in Nat
  PROVE  /\ PutUint32(n) \in Seq(Byte) /\ Len(PutUint32(n)) = 4
         /\ \A d, off : Fits32(n) /\ Head32(d, off, n) => Uint32(d, off) = n
<1>1. Shift1(n) \in Nat /\ n % Base \in Byte /\ n = Shift1(n) * Base + (n % Base)
  BY LowByte
<1>2. /\ Shift2(n) \in Nat /\ Shift1(n) % Base \in Byte
      /\ Shift1(n) = Shift2(n) * Base + (Shift1(n) % Base)
  BY <1>1, LowByte DEF Shift2
<1>3. /\ Shift3(n) \in Nat /\ Shift2(n) % Base \in Byte
      /\ Shift2(n) = Shift3(n) * Base + (Shift2(n) % Base)
  BY <1>2, LowByte DEF Shift3
<1>4. Shift3(n) % Base \in Byte
  BY <1>3, LowByte
<1>5. Fits32(n) => Shift3(n) % Base = Shift3(n)
  BY <1>3, OneByte DEF Fits32
<1>6. PutUint32(n) \in Seq(Byte) /\ Len(PutUint32(n)) = 4
  BY <1>1, <1>2, <1>3, <1>4 DEF PutUint32
<1>7. /\ PutUint32(n)[1] = Shift3(n) % Base /\ PutUint32(n)[2] = Shift2(n) % Base
      /\ PutUint32(n)[3] = Shift1(n) % Base /\ PutUint32(n)[4] = n % Base
  BY DEF PutUint32
<1>8. 1 \in 1 .. 4 /\ 2 \in 1 .. 4 /\ 3 \in 1 .. 4 /\ 4 \in 1 .. 4
  OBVIOUS
<1> QED BY Zenon, <1>1, <1>2, <1>3, <1>5, <1>6, <1>7, <1>8 DEF Uint32, Head32

(* Any bytes are a number. *)
LEMMA UintType ==
  ASSUME NEW d \in Seq(Byte), NEW off \in Nat
  PROVE  /\ off + 2 <= Len(d) => Uint16(d, off) \in Nat
         /\ off + 4 <= Len(d) => Uint32(d, off) \in Nat
<1>1. \A j \in 1 .. 4 : off + j <= Len(d) => d[off + j] \in Nat
  BY BytesAssumption DEF Byte
<1>2. \A x, y \in Nat : x * Base + y \in Nat
  BY BytesAssumption
<1>3. ASSUME off + 2 <= Len(d) PROVE Uint16(d, off) \in Nat
  <2>1. d[off + 1] \in Nat /\ d[off + 2] \in Nat
    BY <1>1, <1>3
  <2> QED BY Zenon, <1>2, <2>1 DEF Uint16
<1>4. ASSUME off + 4 <= Len(d) PROVE Uint32(d, off) \in Nat
  <2>1. d[off + 1] \in Nat /\ d[off + 2] \in Nat /\ d[off + 3] \in Nat /\ d[off + 4] \in Nat
    BY <1>1, <1>4
  <2> QED BY Zenon, <1>2, <2>1 DEF Uint32
<1> QED BY <1>3, <1>4

(* A byte behind a number is its low byte. *)
LEMMA ByteBack ==
  ASSUME NEW a \in Nat, NEW b \in Byte
  PROVE  a * Base + b \in Nat /\ Shift1(a * Base + b) = a /\ (a * Base + b) % Base = b
<1> DEFINE n == a * Base + b
           s == Shift1(n)
           r == n % Base
<1>1. Base \in Nat /\ Base > 1 /\ b \in 0 .. Base - 1
  BY BytesAssumption DEF Byte
<1>2. n \in Nat
  BY <1>1
<1>3. s \in Nat /\ r \in Byte /\ n = s * Base + r
  BY Zenon, <1>2, LowByte
<1>4. r \in 0 .. Base - 1 /\ s * Base + r = a * Base + b
  BY Zenon, <1>3 DEF Byte
<1> HIDE DEF s, r
<1>5. \A x \in Nat : x >= 1 => x * Base >= Base
  BY <1>1
<1>6. ASSUME NEW x \in Nat, NEW y \in Nat, NEW e \in 0 .. Base - 1, NEW f \in 0 .. Base - 1,
             x * Base + e = y * Base + f, x > y
      PROVE  FALSE
  <2>1. x - y \in Nat /\ x - y >= 1 /\ (x - y) * Base = x * Base - y * Base
    BY <1>1, <1>6
  <2>2. (x - y) * Base >= Base
    BY Zenon, <1>5, <2>1
  <2>3. x * Base \in Nat /\ y * Base \in Nat
    BY <1>1
  <2> QED BY <1>1, <1>6, <2>1, <2>2, <2>3
<1>7. s = a
  <2>1. ~(s > a) /\ ~(a > s)
    BY Zenon, <1>1, <1>3, <1>4, <1>6
  <2> QED BY <1>3, <2>1
<1>8. r = b
  <2>1. a * Base \in Nat
    BY <1>1
  <2> QED BY <1>1, <1>4, <1>7, <2>1
<1> QED BY Zenon, <1>2, <1>7, <1>8 DEF s, r

(* So four bytes are those of the number that they are. *)
LEMMA NumberBytes ==
  ASSUME NEW d \in Seq(Byte), NEW off \in Nat, off + 4 <= Len(d)
  PROVE  Head32(d, off, Uint32(d, off))
<1> DEFINE b1 == d[off + 1]
           b2 == d[off + 2]
           b3 == d[off + 3]
           b4 == d[off + 4]
           n1 == b1
           n2 == n1 * Base + b2
           n3 == n2 * Base + b3
           n4 == n3 * Base + b4
<1>1. b1 \in Byte /\ b2 \in Byte /\ b3 \in Byte /\ b4 \in Byte
  OBVIOUS
<1>2. n1 \in Nat /\ 0 \in Nat /\ 0 * Base + b1 = n1
  BY <1>1, BytesAssumption DEF Byte
<1>3. n1 % Base = b1
  BY Zenon, <1>1, <1>2, ByteBack
<1>4. n2 \in Nat /\ Shift1(n2) = n1 /\ n2 % Base = b2
  BY Zenon, <1>1, <1>2, ByteBack
<1> HIDE DEF n2
<1>5. n3 \in Nat /\ Shift1(n3) = n2 /\ n3 % Base = b3
  BY Zenon, <1>1, <1>4, ByteBack
<1> HIDE DEF n3
<1>6. Shift1(n4) = n3 /\ n4 % Base = b4
  BY Zenon, <1>1, <1>5, ByteBack
<1>7. Uint32(d, off) = n4
  BY Zenon DEF Uint32, n2, n3
<1> HIDE DEF n4
<1>8. PutUint32(n4) = <<b1, b2, b3, b4>>
  BY Zenon, <1>3, <1>4, <1>5, <1>6 DEF PutUint32, Shift3, Shift2
<1> HIDE DEF b1, b2, b3, b4
<1>9. \A j \in 1 .. 4 : j = 1 \/ j = 2 \/ j = 3 \/ j = 4
  OBVIOUS
<1>10. PutUint32(n4)[1] = b1 /\ PutUint32(n4)[2] = b2 /\ PutUint32(n4)[3] = b3 /\ PutUint32(n4)[4] = b4
  BY <1>8
<1> QED BY Zenon, <1>7, <1>9, <1>10 DEF Head32, b1, b2, b3, b4

-----------------------------------------------------------------------------
(* Sequences of bytes.                                                     *)

(* The bytes of two sequences, of m and n bytes, one after the other. *)
Joined(r, s, m, t, n) ==
  /\ r \in Seq(Byte) /\ Len(r) = m + n
  /\ \A j \in 1 .. m : r[j] = s[j]
  /\ \A j \in 1 .. n : r[m + j] = t[j]

(* That is what \o gives. *)
LEMMA Concat ==
  ASSUME NEW s \in Seq(Byte), NEW t \in Seq(Byte)
  PROVE  Joined(s \o t, s, Len(s), t, Len(t))
BY ConcatProperties DEF Joined

(* A slice of the data, as `data[a:a+n]` takes it, is as long as it should be and has   *)
(* the bytes of its place.                                                              *)
LEMMA Slice ==
  ASSUME NEW d \in Seq(Byte), NEW a \in Nat, NEW n \in Nat, a + n <= Len(d)
  PROVE  /\ SubSeq(d, a + 1, a + n) \in Seq(Byte) /\ Len(SubSeq(d, a + 1, a + n)) = n
         /\ \A j \in 1 .. n : SubSeq(d, a + 1, a + n)[j] = d[a + j]
<1> DEFINE b == a + 1
           e == a + n
           sub == SubSeq(d, b, e)
<1>1. b \in Int /\ e \in Int /\ e - b + 1 = n /\ (b <= e \/ n = 0) /\ (b <= e => n > 0)
  OBVIOUS
<1>2. \A i \in b .. e : d[i] \in Byte
  OBVIOUS
<1>3. \A j \in 1 .. n : b + j - 1 = a + j
  OBVIOUS
<1> HIDE DEF b, e
<1>4. /\ sub \in Seq(Byte)
      /\ Len(sub) = IF b <= e THEN e - b + 1 ELSE 0
      /\ \A i \in 1 .. e - b + 1 : sub[i] = d[b + i - 1]
  BY <1>1, <1>2, SubSeqProperties
<1> HIDE DEF sub
<1>5. Len(sub) = n
  BY <1>1, <1>4
<1>6. \A j \in 1 .. n : sub[j] = d[a + j]
  BY Zenon, <1>1, <1>3, <1>4
<1> QED BY Zenon, <1>4, <1>5, <1>6 DEF sub, b, e

(* The same for the place where the slice ends. *)
LEMMA SliceTo ==
  ASSUME NEW d \in Seq(Byte), NEW p \in Nat, NEW m \in p .. Len(d)
  PROVE  /\ SubSeq(d, p + 1, m) \in Seq(Byte) /\ Len(SubSeq(d, p + 1, m)) = m - p
         /\ \A j \in 1 .. m - p : SubSeq(d, p + 1, m)[j] = d[p + j]
<1> DEFINE n == m - p
<1>1. Len(d) \in Nat
  OBVIOUS
<1>2. n \in Nat /\ p + n = m /\ p + n <= Len(d)
  BY <1>1
<1> HIDE DEF n
<1>3. /\ SubSeq(d, p + 1, p + n) \in Seq(Byte) /\ Len(SubSeq(d, p + 1, p + n)) = n
      /\ \A j \in 1 .. n : SubSeq(d, p + 1, p + n)[j] = d[p + j]
  BY Zenon, <1>2, Slice
<1> QED BY Zenon, <1>2, <1>3 DEF n

-----------------------------------------------------------------------------
(* The frames of the WAL.                                                  *)

(* What a command that is logged consists of. *)
LEMMA CommandParts ==
  ASSUME NEW cmd \in CommandSet
  PROVE  /\ cmd = [name |-> cmd.name, args |-> cmd.args]
         /\ cmd.name \in Seq(Byte) /\ cmd.name # <<>> /\ Fits16(Len(cmd.name))
         /\ cmd.args \in Seq(Seq(Byte)) /\ Fits16(Len(cmd.args))
         /\ \A i \in 1 .. Len(cmd.args) : cmd.args[i] \in Seq(Byte) /\ Fits32(Len(cmd.args[i]))
<1>1. /\ cmd = [name |-> cmd.name, args |-> cmd.args]
      /\ cmd.name \in Names /\ cmd.args \in UNION {[1 .. n -> Arguments] : n \in 0 .. MaxArgs}
  BY DEF CommandSet
<1>2. PICK m \in 0 .. MaxArgs : cmd.args \in [1 .. m -> Arguments]
  BY Zenon, <1>1
<1>3. MaxArgs \in Nat
  BY Zenon, CodecAssumption
<1>4. cmd.args \in Seq(Arguments) /\ Len(cmd.args) = m
  BY <1>2, <1>3
<1>5. \A i \in 1 .. m : cmd.args[i] \in Arguments
  BY Zenon, <1>2
<1>6. cmd.args \in Seq(Seq(Byte))
  BY Zenon, <1>4, SeqMonotonic, CodecAssumption
<1> QED BY Zenon, <1>1, <1>4, <1>5, <1>6, CodecAssumption

(* marshalCommand lays out a frame: the name after its length, the number  *)
(* of arguments, and each argument after its length; the i-th ends at      *)
(* at[i].                                                                  *)
Text(s, off, t) == \A j \in 1 .. Len(t) : s[off + j] = t[j]

FrameLaid(s, cmd, at) ==
  /\ at[0] = Len(cmd.name) + 4 /\ at[Len(cmd.args)] = Len(s)
  /\ Head16(s, 0, Len(cmd.name)) /\ Text(s, 2, cmd.name)
  /\ Head16(s, Len(cmd.name) + 2, Len(cmd.args))
  /\ \A i \in 1 .. Len(cmd.args) :
       /\ at[i] = at[i - 1] + 4 + Len(cmd.args[i])
       /\ Head32(s, at[i - 1], Len(cmd.args[i])) /\ Text(s, at[i - 1] + 4, cmd.args[i])

(* An argument after its length. *)
LEMMA ArgumentLaid ==
  ASSUME NEW arg \in Seq(Byte)
  PROVE  /\ MarshalArg(arg) \in Seq(Byte) /\ Len(MarshalArg(arg)) = 4 + Len(arg)
         /\ Head32(MarshalArg(arg), 0, Len(arg)) /\ Text(MarshalArg(arg), 4, arg)
<1> DEFINE p == PutUint32(Len(arg))
<1>1. Len(arg) \in Nat
  OBVIOUS
<1>2. p \in Seq(Byte) /\ Len(p) = 4
  BY Zenon, <1>1, Put32
<1> HIDE DEF p
<1>3. Joined(p \o arg, p, 4, arg, Len(arg))
  BY Zenon, <1>2, Concat
<1>4. \A j \in 1 .. 4 : 0 + j = j
  OBVIOUS
<1> QED BY Zenon, <1>3, <1>4 DEF Joined, MarshalArg, Head32, Text, p

(* Strings after their lengths, behind some bytes h; the i-th ends at      *)
(* at[i].                                                                  *)
ArgsLaid(s, args, at) ==
  /\ at[Len(args)] = Len(s)
  /\ \A i \in 1 .. Len(args) :
       /\ at[i] = at[i - 1] + 4 + Len(args[i])
       /\ Head32(s, at[i - 1], Len(args[i])) /\ Text(s, at[i - 1] + 4, args[i])

(* That is what appending MarshalArg of each gives. *)
LEMMA ArgsLayout ==
  ASSUME NEW h \in Seq(Byte), NEW args \in Seq(Seq(Byte)), NEW s,
         s = h \o AppendAll([i \in DOMAIN args |-> MarshalArg(args[i])])
  PROVE  /\ s \in Seq(Byte) /\ Text(s, 0, h)
         /\ \E at \in [0 .. Len(args) -> Nat] : at[0] = Len(h) /\ ArgsLaid(s, args, at)
<1> DEFINE c == Len(args)
           l == Len(h)
           seqs == [i \in DOMAIN args |-> MarshalArg(args[i])]
           fl == AppendAll(seqs)
<1>1. c \in Nat /\ DOMAIN args = 1 .. c /\ l \in Nat /\ \A i \in 1 .. c : args[i] \in Seq(Byte)
  BY Zenon, LenProperties, ElementOfSeq
<1>2. seqs \in Seq(Seq(Byte)) /\ Len(seqs) = c /\ \A i \in 1 .. c : seqs[i] = MarshalArg(args[i])
  <2>1. \A i \in 1 .. c : MarshalArg(args[i]) \in Seq(Byte)
    BY Zenon, <1>1, ArgumentLaid
  <2>2. seqs \in [1 .. c -> Seq(Byte)]
    BY Zenon, <1>1, <2>1
  <2>3. seqs \in Seq(Seq(Byte)) /\ Len(seqs) = c
    <3> HIDE DEF seqs, c
    <3> QED BY <1>1, <2>2
  <2> QED BY Zenon, <1>1, <2>3
<1>3. s = h \o fl
  OBVIOUS
<1> HIDE DEF seqs, c, l
<1>4. fl \in Seq(Byte) /\ \E la \in [0 .. Len(seqs) -> Nat] : Laid(fl, seqs, la)
  BY Zenon, <1>2, AppendLaid
<1>5. PICK la \in [0 .. c -> Nat] : Laid(fl, seqs, la)
  <2> HIDE DEF fl
  <2> QED BY Zenon, <1>2, <1>4
<1>6. /\ la[0] = 0 /\ la[c] = Len(fl)
      /\ \A i \in 1 .. c : /\ la[i] = la[i - 1] + Len(seqs[i])
                          /\ \A j \in 1 .. Len(seqs[i]) : fl[la[i - 1] + j] = seqs[i][j]
  BY Zenon, <1>2, <1>5 DEF Laid
<1> HIDE DEF fl
<1>7. Joined(s, h, l, fl, Len(fl)) /\ Len(fl) \in Nat
  BY Zenon, <1>3, <1>4, Concat, LenProperties DEF l
<1>8. s \in Seq(Byte) /\ Len(s) = l + Len(fl) /\ Text(s, 0, h)
  <2>1. \A j \in 1 .. l : 0 + j = j
    BY <1>1
  <2> QED BY Zenon, <1>7, <2>1 DEF Joined, Text, l
<1> DEFINE at == [i \in 0 .. c |-> la[i] + l]
<1>9. at \in [0 .. c -> Nat] /\ at[0] = l /\ at[c] = Len(s)
  <2>1. 0 \in 0 .. c /\ c \in 0 .. c /\ \A i \in 0 .. c : la[i] + l \in Nat
    BY <1>1
  <2>2. at[0] = 0 + l /\ at[c] = Len(fl) + l /\ at \in [0 .. c -> Nat]
    BY Zenon, <1>6, <2>1
  <2>3. 0 + l = l /\ Len(fl) + l = l + Len(fl)
    BY <1>1, <1>7
  <2> QED BY Zenon, <1>8, <2>2, <2>3
<1>10. \A k \in 0 .. c : \A i \in 0 .. k : la[i] <= la[k]
  <2>1. ASSUME NEW i \in 1 .. c PROVE la[i - 1] <= la[i]
    <3>1. la[i] = la[i - 1] + Len(seqs[i])
      BY Zenon, <1>6
    <3>2. i - 1 \in 0 .. c /\ i \in 0 .. c
      BY <1>1
    <3>3. Len(seqs[i]) \in Nat
      BY Zenon, <1>1, <1>2, ArgumentLaid, LenProperties
    <3>4. la[i - 1] \in Nat
      BY Zenon, <3>2
    <3> QED BY <3>1, <3>3, <3>4
  <2>2. la \in [0 .. c -> Int]
    BY <1>1
  <2> QED BY Zenon, <1>1, <2>1, <2>2, Monotone
<1>11. ASSUME NEW i \in 1 .. c
       PROVE  /\ at[i] = at[i - 1] + 4 + Len(args[i])
              /\ Head32(s, at[i - 1], Len(args[i])) /\ Text(s, at[i - 1] + 4, args[i])
  <2> DEFINE arg == args[i]
             m == seqs[i]
             o == la[i - 1]
  <2>1. arg \in Seq(Byte) /\ m = MarshalArg(arg)
    BY Zenon, <1>1, <1>2
  <2> HIDE DEF m, arg
  <2>2. m \in Seq(Byte) /\ Len(m) = 4 + Len(arg) /\ Head32(m, 0, Len(arg)) /\ Text(m, 4, arg)
    BY Zenon, <2>1, ArgumentLaid
  <2>3. i - 1 \in 0 .. c /\ i \in 0 .. c /\ c \in 0 .. c
    BY <1>1
  <2>4. o \in Nat /\ la[i] \in Nat /\ at[i - 1] = o + l /\ at[i] = la[i] + l
    BY Zenon, <2>3
  <2>5. la[i] = o + Len(m) /\ (\A j \in 1 .. Len(m) : fl[o + j] = m[j]) /\ la[i] <= Len(fl)
    <3>1. la[i] <= la[c]
      BY Zenon, <1>10, <2>3
    <3> QED BY Zenon, <1>6, <3>1 DEF m
  <2>6. Len(arg) \in Nat
    BY Zenon, <2>1, LenProperties
  <2> HIDE DEF o, at
  <2>7. ASSUME NEW j \in 1 .. Len(m) PROVE s[at[i - 1] + j] = m[j]
    <3>1. o + j \in 1 .. Len(fl) /\ l + (o + j) = at[i - 1] + j
      BY <1>1, <1>7, <2>2, <2>4, <2>5, <2>6
    <3> QED BY Zenon, <1>7, <2>5, <3>1 DEF Joined
  <2>8. \A j \in 1 .. 4 : s[at[i - 1] + j] = m[j]
    <3>1. \A j \in 1 .. 4 : j \in 1 .. Len(m)
      BY <2>2, <2>6
    <3> QED BY Zenon, <2>7, <3>1
  <2>9. ASSUME NEW j \in 1 .. Len(arg) PROVE s[(at[i - 1] + 4) + j] = m[4 + j]
    <3>1. 4 + j \in 1 .. Len(m) /\ (at[i - 1] + 4) + j = at[i - 1] + (4 + j)
      BY <1>1, <2>2, <2>4, <2>6
    <3> QED BY Zenon, <2>7, <3>1
  <2>10. \A j \in 1 .. 4 : 0 + j = j
    OBVIOUS
  <2>11. Head32(s, at[i - 1], Len(arg)) /\ Text(s, at[i - 1] + 4, arg)
    BY Zenon, <2>2, <2>8, <2>9, <2>10 DEF Head32, Text
  <2>12. at[i] = at[i - 1] + 4 + Len(arg)
    <3>1. (o + (4 + Len(arg))) + l = (o + l) + 4 + Len(arg)
      BY <1>1, <2>4, <2>6
    <3>2. la[i] = o + (4 + Len(arg))
      BY Zenon, <2>2, <2>5
    <3> QED BY Zenon, <2>4, <3>1, <3>2
  <2> QED BY Zenon, <2>11, <2>12 DEF arg
<1> HIDE DEF at
<1>12. ArgsLaid(s, args, at)
  BY Zenon, <1>9, <1>11 DEF ArgsLaid, c
<1> QED BY Zenon, <1>8, <1>9, <1>12 DEF c, l

(* The frame of a command is such a layout behind its name and count. *)
LEMMA FrameLayout ==
  ASSUME NEW cmd \in CommandSet
  PROVE  /\ MarshalCommand(cmd) \in Seq(Byte)
         /\ \E at \in [0 .. Len(cmd.args) -> Nat] : FrameLaid(MarshalCommand(cmd), cmd, at)
<1> DEFINE name == cmd.name
           args == cmd.args
           nm == Len(cmd.name)
           c == Len(cmd.args)
           a == PutUint16(nm) \o name
           h == a \o PutUint16(c)
           s == h \o AppendAll([i \in DOMAIN args |-> MarshalArg(args[i])])
<1>1. name \in Seq(Byte) /\ args \in Seq(Seq(Byte)) /\ nm \in Nat /\ c \in Nat
  BY Zenon, CommandParts, LenProperties
<1>2. /\ PutUint16(nm) \in Seq(Byte) /\ Len(PutUint16(nm)) = 2
      /\ PutUint16(c) \in Seq(Byte) /\ Len(PutUint16(c)) = 2
  BY Zenon, <1>1, Put16
<1> HIDE DEF c, nm, name, args, a, h, s
<1>3. Joined(a, PutUint16(nm), 2, name, nm)
  BY Zenon, <1>1, <1>2, Concat DEF a, nm, name
<1>4. Joined(h, a, 2 + nm, PutUint16(c), 2)
  <2>1. a \in Seq(Byte) /\ Len(a) = 2 + nm
    BY Zenon, <1>3 DEF Joined
  <2> QED BY Zenon, <1>2, <2>1, Concat DEF h
<1>5. h \in Seq(Byte) /\ Len(h) = (2 + nm) + 2 /\ (2 + nm) + 2 = nm + 4
  <2>1. (2 + nm) + 2 = nm + 4
    BY <1>1
  <2> QED BY Zenon, <1>4, <2>1 DEF Joined
<1>6. /\ s \in Seq(Byte) /\ Text(s, 0, h)
      /\ \E at \in [0 .. Len(args) -> Nat] : at[0] = Len(h) /\ ArgsLaid(s, args, at)
  BY Zenon, <1>1, <1>5, ArgsLayout DEF s
<1>7. PICK at \in [0 .. c -> Nat] : at[0] = nm + 4 /\ ArgsLaid(s, args, at)
  BY Zenon, <1>5, <1>6 DEF c, args
<1>8. Head16(s, 0, nm) /\ Text(s, 2, name) /\ Head16(s, nm + 2, c)
  <2>1. /\ \A j \in 1 .. 2 : j \in 1 .. 2 + nm /\ j \in 1 .. (2 + nm) + 2
        /\ \A j \in 1 .. 2 : (2 + nm) + j \in 1 .. (2 + nm) + 2 /\ (2 + nm) + j = nm + 2 + j
        /\ \A j \in 1 .. nm : 2 + j \in 1 .. 2 + nm /\ 2 + j \in 1 .. (2 + nm) + 2
        /\ \A j \in 1 .. (2 + nm) + 2 : 0 + j = j
    BY <1>1
  <2>2. 1 \in 1 .. 2 /\ 2 \in 1 .. 2 /\ 0 + 1 = 1 /\ 0 + 2 = 2
    OBVIOUS
  <2>3. \A j \in 1 .. (2 + nm) + 2 : s[j] = h[j]
    BY Zenon, <1>5, <1>6, <2>1 DEF Text
  <2>4. \A j \in 1 .. 2 : s[j] = PutUint16(nm)[j]
    BY Zenon, <1>3, <1>4, <2>1, <2>3 DEF Joined
  <2>5. ASSUME NEW j \in 1 .. nm PROVE s[2 + j] = name[j]
    <3>1. a[2 + j] = name[j]
      BY Zenon, <1>3 DEF Joined
    <3>2. h[2 + j] = a[2 + j]
      BY Zenon, <1>4, <2>1 DEF Joined
    <3> QED BY Zenon, <2>1, <2>3, <3>1, <3>2
  <2>6. \A j \in 1 .. 2 : s[nm + 2 + j] = PutUint16(c)[j]
    BY Zenon, <1>4, <2>1, <2>3 DEF Joined
  <2> QED BY Zenon, <2>2, <2>4, <2>5, <2>6 DEF Head16, Text, nm, name
<1>9. FrameLaid(s, cmd, at)
  BY Zenon, <1>7, <1>8 DEF FrameLaid, ArgsLaid, nm, c, name, args
<1>10. s = MarshalCommand(cmd)
  BY Zenon DEF s, h, a, nm, c, name, args, MarshalCommand
<1> QED BY Zenon, <1>6, <1>9, <1>10 DEF c

(* The loop of unmarshalCommand over the arguments. *)
AfterNext(d, off) ==
  IF off < 0 \/ off + 4 > Len(d) \/ off + 4 + Uint32(d, off) > Len(d)
  THEN -1 ELSE off + 4 + Uint32(d, off)

(* It ends at a place, or at -1. *)
LEMMA AfterType ==
  ASSUME NEW d \in Seq(Byte), NEW off \in Int
  PROVE  AfterNext(d, off) \in Int
<1>1. CASE off < 0 \/ off + 4 > Len(d)
  BY <1>1 DEF AfterNext
<1>2. CASE ~(off < 0 \/ off + 4 > Len(d))
  <2>1. off \in Nat /\ off + 4 <= Len(d)
    BY <1>2
  <2>2. Uint32(d, off) \in Nat
    BY Zenon, <2>1, UintType
  <2> QED BY <2>2 DEF AfterNext
<1> QED BY Zenon, <1>1, <1>2

(* AfterArg gives the values that this loop goes through. *)
LEMMA AfterLoop ==
  ASSUME NEW d \in Seq(Byte), NEW start \in Int, NEW count \in Nat
  PROVE  /\ AfterArg(d, start, count)[0] = start
         /\ \A i \in 1 .. count :
              AfterArg(d, start, count)[i] = AfterNext(d, AfterArg(d, start, count)[i - 1])
         /\ \A i \in 0 .. count : AfterArg(d, start, count)[i] \in Int
<1> DEFINE step == [i \in 1 .. count |-> [off \in Int |-> AfterNext(d, off)]]
           Body(f) == [i \in 0 .. count |-> IF i = 0 THEN start ELSE AfterNext(d, f[i - 1])]
           after == CHOOSE f : f = Body(f)
<1>1. Rounds(step, count, Int)
  <2>1. [off \in Int |-> AfterNext(d, off)] \in [Int -> Int]
    BY Zenon, AfterType
  <2> QED BY Zenon, <2>1 DEF Rounds
<1>2. PICK g \in [0 .. count -> Int] : IsLoop(g, start, count, step)
  <2> HIDE DEF step
  <2> QED BY Zenon, <1>1, LoopExists
<1>3. g = Body(g)
  <2>1. ASSUME NEW i \in 0 .. count PROVE g[i] = IF i = 0 THEN start ELSE AfterNext(d, g[i - 1])
    <3>1. CASE i = 0
      BY Zenon, <1>2, <3>1 DEF IsLoop
    <3>2. CASE i # 0
      <4>1. i \in 1 .. count /\ i - 1 \in 0 .. count
        BY <3>2
      <4>2. g[i] = step[i][g[i - 1]] /\ g[i - 1] \in Int
        BY Zenon, <1>2, <4>1 DEF IsLoop
      <4> QED BY Zenon, <3>2, <4>1, <4>2
    <3> QED BY Zenon, <3>1, <3>2
  <2> QED BY Zenon, <2>1
<1>4. after = Body(after)
  <2> HIDE DEF Body
  <2> QED BY Zenon, <1>3
<1>5. AfterArg(d, start, count) = after
  BY Zenon DEF AfterArg, AfterNext
<1> HIDE DEF after
<1>6. \A i \in 0 .. count : after[i] = IF i = 0 THEN start ELSE AfterNext(d, after[i - 1])
  BY Zenon, <1>4
<1>7. after[0] = start /\ \A i \in 1 .. count : after[i] = AfterNext(d, after[i - 1])
  <2>1. 0 \in 0 .. count /\ \A i \in 1 .. count : i \in 0 .. count /\ i # 0
    OBVIOUS
  <2> QED BY Zenon, <1>6, <2>1
<1> DEFINE P == {i \in 0 .. count : after[i] \in Int}
<1>8. 0 \in P
  BY <1>7
<1>9. ASSUME NEW k \in 0 .. count - 1, k \in P PROVE k + 1 \in P
  <2>1. k + 1 \in 1 .. count /\ k + 1 \in 0 .. count /\ (k + 1) - 1 = k
    OBVIOUS
  <2>2. after[k] \in Int /\ after[k + 1] = AfterNext(d, after[k])
    BY Zenon, <1>7, <1>9, <2>1
  <2> QED BY Zenon, <2>1, <2>2, AfterType
<1>10. \A i \in 0 .. count : i \in P
  <2> HIDE DEF P
  <2> QED BY Zenon, <1>8, <1>9, Induction
<1> QED BY Zenon, <1>5, <1>7, <1>10

(* d goes on as s does, as far as it goes. *)
Agrees(d, s) == \A j \in 1 .. Len(s) : j <= Len(d) => d[j] = s[j]

(* On data that goes on as the frame of a command does, the loop comes to  *)
(* the end of each argument that the data holds, and to -1 for the rest.   *)
LEMMA AfterFrame ==
  ASSUME NEW cmd \in CommandSet, NEW s \in Seq(Byte), NEW at \in [0 .. Len(cmd.args) -> Nat],
         FrameLaid(s, cmd, at), NEW d \in Seq(Byte), Agrees(d, s), at[0] <= Len(d)
  PROVE  \A i \in 0 .. Len(cmd.args) :
           AfterArg(d, at[0], Len(cmd.args))[i] = IF at[i] <= Len(d) THEN at[i] ELSE -1
<1> DEFINE c == Len(cmd.args)
           after == AfterArg(d, at[0], c)
           L == Len(d)
           P == {i \in 0 .. c : after[i] = IF at[i] <= L THEN at[i] ELSE -1}
<1>1. c \in Nat /\ at \in [0 .. c -> Int] /\ at[0] \in Int /\ L \in Nat
  <2>1. c \in Nat
    BY Zenon, CommandParts, LenProperties
  <2>2. 0 \in 0 .. c
    BY <2>1
  <2>3. at[0] \in Nat
    BY Zenon, <2>2
  <2>4. at \in [0 .. c -> Nat]
    OBVIOUS
  <2> HIDE DEF c
  <2> QED BY <2>1, <2>3, <2>4
<1>2. after[0] = at[0] /\ \A i \in 1 .. c : after[i] = AfterNext(d, after[i - 1])
  <2> HIDE DEF c
  <2> QED BY Zenon, <1>1, AfterLoop
<1> HIDE DEF after
<1>3. 0 \in P
  <2>1. 0 \in 0 .. c
    BY <1>1
  <2> QED BY Zenon, <1>2, <2>1
<1>4. ASSUME NEW k \in 0 .. c - 1, k \in P PROVE k + 1 \in P
  <2> DEFINE arg == cmd.args[k + 1]
             o == at[k]
             e == at[k + 1]
  <2>1. k + 1 \in 1 .. c /\ k \in 0 .. c /\ k + 1 \in 0 .. c /\ (k + 1) - 1 = k
    <3> HIDE DEF c
    <3> QED BY <1>1
  <2>2. arg \in Seq(Byte) /\ Fits32(Len(arg)) /\ Len(arg) \in Nat /\ o \in Nat /\ e \in Nat
    BY Zenon, <2>1, CommandParts, LenProperties
  <2>3. e = o + 4 + Len(arg) /\ Head32(s, o, Len(arg))
    BY Zenon, <2>1 DEF FrameLaid
  <2>4. e <= Len(s)
    <3>1. \A i \in 1 .. c : at[i - 1] <= at[i]
      <4> SUFFICES ASSUME NEW i \in 1 .. c PROVE at[i - 1] <= at[i]
        OBVIOUS
      <4>1. i - 1 \in 0 .. c
        <5> HIDE DEF c
        <5> QED BY <1>1
      <4>2. at[i] = at[i - 1] + 4 + Len(cmd.args[i]) /\ at[i - 1] \in Nat /\ Len(cmd.args[i]) \in Nat
        BY Zenon, <4>1, CommandParts, LenProperties DEF FrameLaid
      <4>3. \A x, y \in Nat : x <= x + 4 + y
        OBVIOUS
      <4> QED BY Zenon, <4>2, <4>3
    <3>2. c \in 0 .. c
      <4> HIDE DEF c
      <4> QED BY <1>1
    <3>3. at[k + 1] <= at[c]
      <4> HIDE DEF c
      <4>1. k + 1 \in 0 .. c
        BY <1>1
      <4> QED BY Zenon, <1>1, <3>1, <3>2, <4>1, Monotone
    <3> QED BY Zenon, <3>3 DEF FrameLaid
  <2>5. after[k + 1] = AfterNext(d, after[k]) /\ after[k] = IF o <= L THEN o ELSE -1
    BY Zenon, <1>2, <1>4, <2>1
  <2>6. Len(s) \in Nat
    BY Zenon, LenProperties
  <2> HIDE DEF arg, o, e, L
  <2>7. CASE o + 4 <= L
    <3>1. ASSUME NEW j \in 1 .. 4 PROVE d[o + j] = PutUint32(Len(arg))[j]
      <4>1. o + j \in 1 .. Len(s) /\ o + j <= L
        BY <1>1, <2>2, <2>3, <2>4, <2>6, <2>7
      <4>2. d[o + j] = s[o + j]
        BY Zenon, <4>1 DEF Agrees, L
      <4> QED BY Zenon, <2>3, <4>2 DEF Head32
    <3>2. Uint32(d, o) = Len(arg)
      <4>1. Head32(d, o, Len(arg))
        BY Zenon, <3>1 DEF Head32
      <4> QED BY Zenon, <2>2, <4>1, Put32
    <3>3. o <= L /\ ~(o < 0) /\ ~(o + 4 > L)
      BY <1>1, <2>2, <2>7
    <3>4. after[k + 1] = IF o + 4 + Len(arg) > L THEN -1 ELSE o + 4 + Len(arg)
      BY Zenon, <2>5, <3>2, <3>3 DEF AfterNext, L
    <3>5. after[k + 1] = IF e <= L THEN e ELSE -1
      BY <1>1, <2>2, <2>3, <3>4
    <3> QED BY Zenon, <2>1, <3>5 DEF e
  <2>8. CASE ~(o + 4 <= L)
    <3>1. ~(e <= L) /\ (o <= L => o + 4 > L) /\ -1 < 0
      BY <1>1, <2>2, <2>3, <2>8
    <3>2. after[k + 1] = -1
      BY Zenon, <2>5, <3>1 DEF AfterNext, L
    <3> QED BY Zenon, <2>1, <3>1, <3>2 DEF e
  <2> QED BY Zenon, <2>7, <2>8
<1>5. \A i \in 0 .. c : i \in P
  <2> HIDE DEF P, c
  <2> QED BY Zenon, <1>1, <1>3, <1>4, Induction
<1> QED BY Zenon, <1>5 DEF after

(* unmarshalCommand leaves a part of the data, whatever it reads. *)
LEMMA UnmarshalRest ==
  ASSUME NEW d \in Seq(Byte)
  PROVE  UnmarshalCommand(d).rest \in Seq(Byte) /\ Len(UnmarshalCommand(d).rest) <= Len(d)
<1> DEFINE afterName == 2 + Uint16(d, 0)
           count == Uint16(d, afterName)
           after == AfterArg(d, afterName + 2, count)
           none == Len(d) < 4 \/ afterName + 2 > Len(d) \/ after[count] < 0
<1>1. UnmarshalCommand(d).rest = IF none THEN d ELSE SubSeq(d, after[count] + 1, Len(d))
  BY Zenon DEF UnmarshalCommand
<1>2. CASE none
  <2>1. UnmarshalCommand(d).rest = d
    BY Zenon, <1>1, <1>2
  <2>2. Len(d) <= Len(d)
    OBVIOUS
  <2> QED BY Zenon, <2>1, <2>2
<1>3. CASE ~none
  <2>1. 0 + 2 <= Len(d) /\ 0 \in Nat
    <3> HIDE DEF afterName, after
    <3> QED BY <1>3
  <2>2. Uint16(d, 0) \in Nat
    BY Zenon, <2>1, UintType
  <2>3. afterName \in Nat /\ afterName + 2 <= Len(d) /\ afterName + 2 \in Int
    <3> HIDE DEF after
    <3> QED BY <1>3, <2>2
  <2> HIDE DEF afterName
  <2>4. count \in Nat
    BY Zenon, <2>3, UintType
  <2> HIDE DEF count
  <2>5. count \in 0 .. count
    BY <2>4
  <2>6. after[count] \in Int
    BY Zenon, <2>3, <2>4, <2>5, AfterLoop
  <2> DEFINE k == after[count]
  <2> HIDE DEF after
  <2>7. k \in Int /\ ~(k < 0)
    BY Zenon, <1>3, <2>6
  <2> HIDE DEF k
  <2>8. SubSeq(d, k + 1, Len(d)) \in Seq(Byte) /\ Len(SubSeq(d, k + 1, Len(d))) <= Len(d)
    BY <2>7
  <2> QED BY Zenon, <1>1, <1>3, <2>8 DEF k
<1> QED BY Zenon, <1>2, <1>3

(* Of data that goes on as the frame of a command does, unmarshalCommand   *)
(* reads the command if the frame is whole, and nothing if it is not.      *)
Parsed(d, s, cmd) ==
  IF Len(s) <= Len(d) THEN [cmd |-> cmd, rest |-> SubSeq(d, Len(s) + 1, Len(d))]
  ELSE [cmd |-> NoCommand, rest |-> d]

(* unmarshalCommand gives that on data that goes on as a frame does. *)
LEMMA UnmarshalFrame ==
  ASSUME NEW cmd \in CommandSet, NEW d \in Seq(Byte), Agrees(d, MarshalCommand(cmd))
  PROVE  UnmarshalCommand(d) = Parsed(d, MarshalCommand(cmd), cmd)
<1> DEFINE s == MarshalCommand(cmd)
           nm == Len(cmd.name)
           c == Len(cmd.args)
           L == Len(d)
           afterName == 2 + Uint16(d, 0)
           count == Uint16(d, afterName)
           after == AfterArg(d, afterName + 2, count)
           none == Len(d) < 4 \/ afterName + 2 > Len(d) \/ after[count] < 0
           whole == [cmd |-> [name |-> SubSeq(d, 3, afterName),
                              args |-> [i \in 1 .. count |-> SubSeq(d, after[i - 1] + 5, after[i])]],
                     rest |-> SubSeq(d, after[count] + 1, Len(d))]
<1>1. UnmarshalCommand(d) = IF none THEN [cmd |-> NoCommand, rest |-> d] ELSE whole
  BY Zenon DEF UnmarshalCommand
<1>2. s \in Seq(Byte) /\ \E at \in [0 .. Len(cmd.args) -> Nat] : FrameLaid(s, cmd, at)
  BY Zenon, FrameLayout
<1>3. PICK at \in [0 .. Len(cmd.args) -> Nat] : FrameLaid(s, cmd, at)
  <2> HIDE DEF s
  <2> QED BY Zenon, <1>2
<1>4. /\ nm \in Nat /\ c \in Nat /\ Len(s) \in Nat /\ L \in Nat
      /\ Fits16(nm) /\ Fits16(c) /\ cmd.name \in Seq(Byte)
  BY Zenon, <1>2, CommandParts, LenProperties
<1>5. /\ at[0] = nm + 4 /\ at[c] = Len(s) /\ Head16(s, 0, nm) /\ Text(s, 2, cmd.name)
      /\ Head16(s, nm + 2, c)
  BY Zenon, <1>3 DEF FrameLaid
<1>6. \A k \in 0 .. c : at[k] \in Nat /\ \A i \in 0 .. k : at[i] <= at[k]
  <2> SUFFICES \A k \in 0 .. c : \A i \in 0 .. k : at[i] <= at[k]
    BY Zenon
  <2>1. \A i \in 1 .. c : at[i - 1] <= at[i]
    <3> SUFFICES ASSUME NEW i \in 1 .. c PROVE at[i - 1] <= at[i]
      OBVIOUS
    <3>1. i - 1 \in 0 .. c
      <4> HIDE DEF c
      <4> QED BY <1>4
    <3>2. at[i] = at[i - 1] + 4 + Len(cmd.args[i]) /\ at[i - 1] \in Nat /\ Len(cmd.args[i]) \in Nat
      BY Zenon, <1>3, <3>1, CommandParts, LenProperties DEF FrameLaid
    <3>3. \A x, y \in Nat : x <= x + 4 + y
      OBVIOUS
    <3> QED BY Zenon, <3>2, <3>3
  <2>2. at \in [0 .. c -> Nat]
    OBVIOUS
  <2> HIDE DEF c
  <2>3. at \in [0 .. c -> Int]
    BY <1>4, <2>2
  <2> QED BY Zenon, <1>4, <2>1, <2>3, Monotone
<1>7. nm + 4 <= Len(s)
  <2>1. 0 \in 0 .. c /\ c \in 0 .. c
    <3> HIDE DEF c
    <3> QED BY <1>4
  <2> QED BY Zenon, <1>5, <1>6, <2>1
<1>8. Agrees(d, s)
  OBVIOUS
<1> HIDE DEF s, nm, c, L
<1>9. CASE L < 4
  <2>1. ~(Len(s) <= L)
    BY <1>4, <1>7, <1>9
  <2> QED BY Zenon, <1>1, <1>9, <2>1 DEF Parsed, L, s
<1>10. CASE ~(L < 4)
  <2>1. afterName = nm + 2
    <3>1. 0 + 1 \in 1 .. Len(s) /\ 0 + 1 <= L /\ 0 + 2 \in 1 .. Len(s) /\ 0 + 2 <= L
      BY <1>4, <1>7, <1>10
    <3>2. Head16(d, 0, nm)
      BY Zenon, <1>5, <1>8, <3>1 DEF Head16, Agrees, L
    <3>3. Uint16(d, 0) = nm
      BY Zenon, <1>4, <3>2, Put16
    <3>4. 2 + nm = nm + 2
      BY <1>4
    <3> QED BY Zenon, <3>3, <3>4
  <2> HIDE DEF afterName
  <2>2. CASE nm + 2 + 2 > L
    <3>1. ~(Len(s) <= L)
      BY <1>4, <1>7, <2>2
    <3> QED BY Zenon, <1>1, <2>1, <2>2, <3>1 DEF Parsed, L, s
  <2>3. CASE ~(nm + 2 + 2 > L)
    <3>1. count = c
      <4>1. nm + 2 + 1 \in 1 .. Len(s) /\ nm + 2 + 1 <= L /\ nm + 2 + 2 \in 1 .. Len(s) /\ nm + 2 + 2 <= L
        BY <1>4, <1>7, <2>3
      <4>2. Head16(d, nm + 2, c)
        BY Zenon, <1>5, <1>8, <4>1 DEF Head16, Agrees, L
      <4> QED BY Zenon, <1>4, <2>1, <4>2, Put16
    <3>2. nm + 2 + 2 = at[0] /\ at[0] <= L
      BY <1>4, <1>5, <2>3
    <3>3. \A i \in 0 .. c : after[i] = IF at[i] <= L THEN at[i] ELSE -1
      <4>1. \A i \in 0 .. c : AfterArg(d, at[0], c)[i] = IF at[i] <= L THEN at[i] ELSE -1
        BY Zenon, <1>2, <1>3, <1>8, <3>2, AfterFrame DEF c, L
      <4> HIDE DEF count
      <4>2. after = AfterArg(d, at[0], c)
        BY Zenon, <2>1, <3>1, <3>2
      <4> QED BY Zenon, <4>1, <4>2
    <3> HIDE DEF count, after
    <3>4. c \in 0 .. c
      BY <1>4
    <3>5. CASE ~(Len(s) <= L)
      <4>1. after[c] = -1 /\ -1 < 0
        BY <1>5, <3>3, <3>4, <3>5
      <4> QED BY Zenon, <1>1, <3>1, <3>5, <4>1 DEF Parsed, L, s
    <3>6. CASE Len(s) <= L
      <4>1. ASSUME NEW i \in 0 .. c PROVE after[i] = at[i] /\ at[i] \in Nat /\ at[i] <= Len(s)
        <5>1. at[i] \in Nat /\ at[i] <= at[c]
          BY Zenon, <1>6, <3>4
        <5>2. at[i] <= L /\ at[i] <= Len(s)
          BY <1>4, <1>5, <3>6, <5>1
        <5> QED BY Zenon, <3>3, <5>1, <5>2
      <4>2. after[count] = Len(s) /\ ~(Len(s) < 0)
        BY <1>4, <1>5, <3>1, <3>4, <4>1
      <4>3. SubSeq(d, 3, afterName) = cmd.name
        <5>1. nm + 2 <= L /\ nm + 2 <= Len(s)
          BY <1>4, <1>7, <3>6
        <5>2. ASSUME NEW j \in 1 .. nm PROVE d[2 + j] = cmd.name[j]
          <6>1. 2 + j \in 1 .. Len(s) /\ 2 + j <= L
            BY <1>4, <5>1
          <6> QED BY Zenon, <1>5, <1>8, <6>1 DEF Agrees, Text, L, nm
        <5>3. /\ SubSeq(d, 3, nm + 2) \in Seq(Byte) /\ Len(SubSeq(d, 3, nm + 2)) = nm
              /\ \A j \in 1 .. nm : SubSeq(d, 3, nm + 2)[j] = d[2 + j]
          BY <1>4, <5>1, SubSeqProperties DEF L
        <5> QED BY Zenon, <1>4, <2>1, <5>2, <5>3, SeqEqual DEF nm
      <4>4. [i \in 1 .. count |-> SubSeq(d, after[i - 1] + 5, after[i])] = cmd.args
        <5>1. ASSUME NEW i \in 1 .. c PROVE SubSeq(d, after[i - 1] + 5, after[i]) = cmd.args[i]
          <6> DEFINE arg == cmd.args[i]
                     n == Len(arg)
                     o == at[i - 1]
          <6>1. i - 1 \in 0 .. c /\ i \in 0 .. c
            BY <1>4
          <6>2. after[i - 1] = o /\ after[i] = at[i] /\ o \in Nat /\ at[i] <= Len(s)
            BY Zenon, <4>1, <6>1
          <6>3. arg \in Seq(Byte) /\ n \in Nat
            BY Zenon, CommandParts, LenProperties DEF c
          <6>4. at[i] = o + 4 + n /\ Text(s, o + 4, arg)
            BY Zenon, <1>3 DEF FrameLaid, c
          <6> DEFINE e == at[i]
          <6> HIDE DEF arg, n, o, e
          <6>5. e = o + 4 + n /\ e <= Len(s) /\ e <= L
            <7>1. e = o + 4 + n /\ e <= Len(s)
              BY Zenon, <6>2, <6>4 DEF e
            <7> QED BY <1>4, <3>6, <6>2, <6>3, <7>1
          <6>6. ASSUME NEW j \in 1 .. n PROVE d[(o + 4) + j] = arg[j]
            <7>1. (o + 4) + j \in 1 .. Len(s) /\ (o + 4) + j <= L
              BY <1>4, <6>2, <6>3, <6>5
            <7> QED BY Zenon, <1>8, <6>4, <7>1 DEF Agrees, Text, L, n
          <6>7. /\ SubSeq(d, o + 5, e) \in Seq(Byte) /\ Len(SubSeq(d, o + 5, e)) = n
                /\ \A j \in 1 .. n : SubSeq(d, o + 5, e)[j] = d[(o + 4) + j]
            <7>1. o + 4 \in Nat /\ o + 5 = (o + 4) + 1 /\ e = (o + 4) + n /\ e <= Len(d)
              BY <6>2, <6>3, <6>5 DEF L
            <7>2. SubSeq(d, o + 5, e) = SubSeq(d, (o + 4) + 1, (o + 4) + n) /\ (o + 4) + n <= Len(d)
              BY Zenon, <7>1
            <7> DEFINE a == o + 4
            <7>3. a \in Nat /\ a + n <= Len(d) /\ d \in Seq(Byte)
              BY Zenon, <1>4, <7>1, <7>2
            <7> HIDE DEF a
            <7>4. /\ SubSeq(d, a + 1, a + n) \in Seq(Byte) /\ Len(SubSeq(d, a + 1, a + n)) = n
                  /\ \A j \in 1 .. n : SubSeq(d, a + 1, a + n)[j] = d[a + j]
              BY <6>3, <7>3, Slice
            <7> QED BY Zenon, <7>2, <7>4 DEF a
          <6>8. SubSeq(d, o + 5, e) = arg
            BY Zenon, <6>3, <6>6, <6>7, SeqEqual DEF n
          <6> QED BY Zenon, <6>2, <6>8 DEF arg, e
        <5>2. cmd.args = [i \in 1 .. c |-> cmd.args[i]]
          BY Zenon, CommandParts, LenProperties DEF c
        <5> QED BY Zenon, <3>1, <5>1, <5>2
      <4>5. ~none
        BY Zenon, <1>10, <2>1, <2>3, <4>2 DEF L
      <4>6. whole = [cmd |-> [name |-> cmd.name, args |-> cmd.args],
                     rest |-> SubSeq(d, Len(s) + 1, Len(d))]
        BY Zenon, <4>2, <4>3, <4>4
      <4>7. cmd = [name |-> cmd.name, args |-> cmd.args]
        BY Zenon, CommandParts
      <4> HIDE DEF none, whole
      <4> QED BY Zenon, <1>1, <3>6, <4>5, <4>6, <4>7 DEF Parsed, L, s
    <3> QED BY Zenon, <3>5, <3>6
  <2> QED BY Zenon, <2>2, <2>3
<1> QED BY Zenon, <1>9, <1>10

-----------------------------------------------------------------------------
(* The loop of Replay.                                                     *)

UnmarshalAt(d, off) == UnmarshalCommand(SubSeq(d, off + 1, Len(d)))

NextAt(d, off) == Len(d) - Len(UnmarshalAt(d, off).rest)

(* One round of the loop, if f is what the later ones give. *)
ReplayRound(d, f, off) ==
  IF NextAt(d, off) = off THEN [given |-> <<>>, rest |-> UnmarshalAt(d, off).rest]
  ELSE [given |-> IF UnmarshalAt(d, off).cmd.name = <<>> THEN f[NextAt(d, off)].given
                  ELSE <<UnmarshalAt(d, off).cmd>> \o f[NextAt(d, off)].given,
        rest |-> f[NextAt(d, off)].rest]

(* The loop never goes back. *)
LEMMA NextLater ==
  ASSUME NEW d \in Seq(Byte), NEW off \in 0 .. Len(d)
  PROVE  NextAt(d, off) \in off .. Len(d) /\ UnmarshalAt(d, off).rest \in Seq(Byte)
<1> DEFINE t == SubSeq(d, off + 1, Len(d))
<1>1. t \in Seq(Byte) /\ Len(t) = Len(d) - off
  BY SubSeqProperties
<1> HIDE DEF t
<1>2. UnmarshalCommand(t).rest \in Seq(Byte) /\ Len(UnmarshalCommand(t).rest) <= Len(t)
  BY Zenon, <1>1, UnmarshalRest
<1>3. UnmarshalAt(d, off).rest \in Seq(Byte) /\ Len(UnmarshalAt(d, off).rest) <= Len(t)
  BY Zenon, <1>2 DEF UnmarshalAt, t
<1> QED BY <1>1, <1>3 DEF NextAt

(* Replay is the first of the values that these rounds have. *)
LEMMA ReplayLoop ==
  ASSUME NEW d \in Seq(Byte)
  PROVE  \E f : Replay(d) = f[0] /\ \A off \in 0 .. Len(d) : f[off] = ReplayRound(d, f, off)
<1> DEFINE N == Len(d)
           X == {UnmarshalAt(d, off).cmd : off \in 0 .. N}
           S == [given : Seq(X), rest : Seq(Byte)]
           Add(off, r) == [given |-> IF UnmarshalAt(d, off).cmd.name = <<>> THEN r.given
                                     ELSE <<UnmarshalAt(d, off).cmd>> \o r.given,
                           rest |-> r.rest]
           next == [off \in 0 .. N |-> NextAt(d, off)]
           step == [off \in 0 .. N |-> [r \in S |-> Add(off, r)]]
           base == [off \in 0 .. N |-> [given |-> <<>>, rest |-> UnmarshalAt(d, off).rest]]
           Body(f) == [off \in 0 .. N |-> ReplayRound(d, f, off)]
           from == CHOOSE f : f = Body(f)
<1>1. N \in Nat
  OBVIOUS
<1>2. \A off \in 0 .. N : NextAt(d, off) \in 0 .. N /\ ~(NextAt(d, off) < off)
  <2> SUFFICES ASSUME NEW off \in 0 .. N PROVE NextAt(d, off) \in 0 .. N /\ ~(NextAt(d, off) < off)
    OBVIOUS
  <2>1. NextAt(d, off) \in off .. N
    BY Zenon, NextLater
  <2> QED BY <2>1
<1>3. next \in [0 .. N -> 0 .. N]
  BY Zenon, <1>2
<1>4. step \in [0 .. N -> [S -> S]]
  <2>1. ASSUME NEW off \in 0 .. N, NEW r \in S PROVE Add(off, r) \in S
    <3>1. UnmarshalAt(d, off).cmd \in X
      BY Zenon
    <3> DEFINE x == UnmarshalAt(d, off).cmd
    <3> HIDE DEF X, x
    <3>2. x \in X
      BY Zenon, <3>1 DEF x
    <3>3. r.given \in Seq(X) /\ r.rest \in Seq(Byte)
      BY Zenon
    <3>4. <<x>> \o r.given \in Seq(X)
      BY <3>2, <3>3
    <3> QED BY Zenon, <3>3, <3>4 DEF x
  <2> HIDE DEF S, Add
  <2>2. \A off \in 0 .. N : [r \in S |-> Add(off, r)] \in [S -> S]
    BY Zenon, <2>1
  <2> QED BY Zenon, <2>2
<1>5. base \in [0 .. N -> S]
  <2>1. <<>> \in Seq(X)
    OBVIOUS
  <2> HIDE DEF X
  <2>2. \A off \in 0 .. N : [given |-> <<>>, rest |-> UnmarshalAt(d, off).rest] \in S
    BY Zenon, <2>1, NextLater
  <2> HIDE DEF S
  <2> QED BY Zenon, <2>2
<1>6. PICK f \in [0 .. N -> S] : IsScan(f, N, next, step, base)
  <2> HIDE DEF N, next, step, base, S
  <2> QED BY Zenon, <1>1, <1>3, <1>4, <1>5, ScanExists
<1>7. ASSUME NEW off \in 0 .. N PROVE f[off] = ReplayRound(d, f, off)
  <2> DEFINE q == NextAt(d, off)
  <2>1. f[off] = IF next[off] > off THEN step[off][f[next[off]]] ELSE base[off]
    BY Zenon, <1>6 DEF IsScan
  <2>2. next[off] = q /\ f[q] \in S
    BY Zenon, <1>2
  <2>3. q \in 0 .. N /\ ~(q < off)
    BY Zenon, <1>2
  <2> HIDE DEF q, S, Add
  <2>4. q > off \/ q = off
    BY <2>3
  <2>5. ~(q > q)
    BY <2>3
  <2>6. CASE q = off
    <3>1. f[off] = base[off]
      BY Zenon, <2>1, <2>2, <2>5, <2>6
    <3> QED BY Zenon, <2>6, <3>1 DEF ReplayRound, q
  <2>7. CASE q > off
    <3>1. f[off] = Add(off, f[q])
      BY Zenon, <2>1, <2>2, <2>7
    <3>2. q # off
      BY <2>3, <2>7
    <3> QED BY Zenon, <3>1, <3>2 DEF ReplayRound, q, Add
  <2> QED BY Zenon, <2>4, <2>6, <2>7
<1>8. f = Body(f)
  <2> HIDE DEF S
  <2> QED BY Zenon, <1>7
<1>9. from = Body(from)
  <2> HIDE DEF Body
  <2> QED BY Zenon, <1>8
<1>10. Replay(d) = from[0]
  BY Zenon DEF Replay, ReplayRound, NextAt, UnmarshalAt
<1> HIDE DEF from
<1>11. \A off \in 0 .. N : from[off] = ReplayRound(d, from, off)
  BY Zenon, <1>9
<1> QED BY Zenon, <1>10, <1>11

(* The frames of commands, and the file that holds them. *)
FramesOf(c) == [i \in DOMAIN c |-> MarshalCommand(c[i])]

(* The frames of commands are sequences of bytes. *)
LEMMA FramesType ==
  ASSUME NEW c \in Seq(CommandSet)
  PROVE  /\ Len(c) \in Nat /\ FramesOf(c) \in Seq(Seq(Byte)) /\ Len(FramesOf(c)) = Len(c)
         /\ \A i \in 1 .. Len(c) : c[i] \in CommandSet /\ FramesOf(c)[i] = MarshalCommand(c[i])
         /\ AppendAll(FramesOf(c)) \in Seq(Byte)
<1> DEFINE N == Len(c)
           F == FramesOf(c)
<1>1. N \in Nat /\ DOMAIN c = 1 .. N /\ \A i \in 1 .. N : c[i] \in CommandSet
  BY Zenon, LenProperties, ElementOfSeq
<1>2. F \in [1 .. N -> Seq(Byte)] /\ \A i \in 1 .. N : F[i] = MarshalCommand(c[i])
  BY Zenon, <1>1, FrameLayout DEF FramesOf
<1> HIDE DEF N, F
<1>3. F \in Seq(Seq(Byte)) /\ Len(F) = N
  BY <1>1, <1>2
<1>4. AppendAll(F) \in Seq(Byte)
  BY Zenon, <1>3, AppendLaid
<1> QED BY Zenon, <1>1, <1>2, <1>3, <1>4 DEF N, F

(* The ends of the frames do not fall, and no frame is empty. *)
LEMMA EndsRise ==
  ASSUME NEW c \in Seq(CommandSet), NEW ends \in [0 .. Len(c) -> Nat],
         Laid(AppendAll(FramesOf(c)), FramesOf(c), ends)
  PROVE  /\ \A k \in 0 .. Len(c) : \A i \in 0 .. k : ends[i] <= ends[k]
         /\ \A i \in 1 .. Len(c) : ends[i - 1] < ends[i]
<1> DEFINE N == Len(c)
<1>1. N \in Nat /\ Len(FramesOf(c)) = N /\ \A i \in 1 .. N : c[i] \in CommandSet /\ FramesOf(c)[i] = MarshalCommand(c[i])
  BY Zenon, FramesType
<1>2. ends \in [0 .. N -> Nat]
  OBVIOUS
<1> HIDE DEF N
<1>3. ASSUME NEW i \in 1 .. N PROVE ends[i - 1] < ends[i] /\ ends[i - 1] <= ends[i]
  <2> DEFINE m == MarshalCommand(c[i])
             nm == Len(c[i].name)
             k == Len(c[i].args)
  <2>1. ends[i] = ends[i - 1] + Len(m)
    BY Zenon, <1>1 DEF Laid
  <2>2. i - 1 \in 0 .. N
    BY <1>1
  <2>3. c[i] \in CommandSet
    BY Zenon, <1>1
  <2>4. PICK at \in [0 .. k -> Nat] : FrameLaid(m, c[i], at)
    BY Zenon, <2>3, FrameLayout
  <2>5. nm \in Nat /\ k \in Nat
    BY Zenon, <2>3, CommandParts, LenProperties
  <2>6. at[0] = nm + 4 /\ at[k] = Len(m) /\ \A j \in 1 .. k : at[j] = at[j - 1] + 4 + Len(c[i].args[j])
    BY Zenon, <2>4 DEF FrameLaid
  <2>7. \A j \in 1 .. k : at[j - 1] <= at[j]
    <3> SUFFICES ASSUME NEW j \in 1 .. k PROVE at[j - 1] <= at[j]
      OBVIOUS
    <3>1. j - 1 \in 0 .. k
      <4> HIDE DEF k
      <4> QED BY <2>5
    <3>2. at[j - 1] \in Nat /\ Len(c[i].args[j]) \in Nat
      BY Zenon, <2>3, <3>1, CommandParts, LenProperties
    <3>3. \A x, y \in Nat : x <= x + 4 + y
      OBVIOUS
    <3> QED BY Zenon, <2>6, <3>2, <3>3
  <2>8. at[0] <= at[k]
    <3> HIDE DEF k
    <3>1. at \in [0 .. k -> Int] /\ k \in 0 .. k /\ 0 \in 0 .. k
      BY <2>5
    <3> QED BY Zenon, <2>5, <2>7, <3>1, Monotone
  <2>9. ends[i - 1] \in Nat /\ Len(m) \in Nat
    BY Zenon, <1>2, <2>2, <2>3, FrameLayout, LenProperties
  <2> HIDE DEF m, nm, k
  <2> QED BY <2>1, <2>5, <2>6, <2>8, <2>9
<1>4. ends \in [0 .. N -> Int]
  BY <1>1, <1>2
<1>5. \A k \in 0 .. N : \A i \in 0 .. k : ends[i] <= ends[k]
  BY Zenon, <1>1, <1>3, <1>4, Monotone
<1> QED BY Zenon, <1>3, <1>5 DEF N

(* What Replay does with the first n bytes of a file of frames, when the   *)
(* first k frames are whole and the next one is not: it gives fn the first *)
(* k commands, and stays at the bytes after them.                          *)
LEMMA ReplayFrames ==
  ASSUME NEW c \in Seq(CommandSet), NEW ends \in [0 .. Len(c) -> Nat],
         Laid(AppendAll(FramesOf(c)), FramesOf(c), ends),
         NEW n \in 0 .. Len(AppendAll(FramesOf(c))), NEW k \in 0 .. Len(c),
         ends[k] <= n, k < Len(c) => n < ends[k + 1]
  PROVE  Replay(SubSeq(AppendAll(FramesOf(c)), 1, n)) =
           [given |-> SubSeq(c, 1, k), rest |-> SubSeq(AppendAll(FramesOf(c)), ends[k] + 1, n)]
<1> DEFINE N == Len(c)
           F == AppendAll(FramesOf(c))
           D == SubSeq(F, 1, n)
           T(i) == SubSeq(D, ends[i] + 1, Len(D))
<1>1. /\ N \in Nat /\ F \in Seq(Byte) /\ Len(FramesOf(c)) = N
      /\ \A i \in 1 .. N : c[i] \in CommandSet /\ FramesOf(c)[i] = MarshalCommand(c[i])
  BY Zenon, FramesType
<1>2. ends \in [0 .. N -> Nat] /\ k \in 0 .. N /\ n \in 0 .. Len(F) /\ (k < N => n < ends[k + 1])
  OBVIOUS
<1>3. /\ \A j \in 0 .. N : \A i \in 0 .. j : ends[i] <= ends[j]
      /\ \A i \in 1 .. N : ends[i - 1] < ends[i]
  BY Zenon, EndsRise
<1>4. /\ ends[0] = 0 /\ ends[N] = Len(F)
      /\ \A i \in 1 .. N : /\ ends[i] = ends[i - 1] + Len(MarshalCommand(c[i]))
                          /\ \A j \in 1 .. Len(MarshalCommand(c[i])) :
                               F[ends[i - 1] + j] = MarshalCommand(c[i])[j]
  <2>1. ends[0] = 0 /\ ends[N] = Len(F)
    BY Zenon, <1>1 DEF Laid
  <2>2. ASSUME NEW i \in 1 .. N
        PROVE  /\ ends[i] = ends[i - 1] + Len(FramesOf(c)[i])
               /\ \A j \in 1 .. Len(FramesOf(c)[i]) : F[ends[i - 1] + j] = FramesOf(c)[i][j]
    BY Zenon, <1>1 DEF Laid
  <2>3. ASSUME NEW i \in 1 .. N
        PROVE  /\ ends[i] = ends[i - 1] + Len(MarshalCommand(c[i]))
               /\ \A j \in 1 .. Len(MarshalCommand(c[i])) :
                    F[ends[i - 1] + j] = MarshalCommand(c[i])[j]
    <3>1. FramesOf(c)[i] = MarshalCommand(c[i])
      BY Zenon, <1>1
    <3> QED BY Zenon, <2>2, <3>1
  <2> QED BY Zenon, <2>1, <2>3
<1> HIDE DEF N, F
<1>5. D \in Seq(Byte) /\ Len(D) = n /\ \A j \in 1 .. n : D[j] = F[j]
  BY <1>1, <1>2, SubSeqProperties
<1> HIDE DEF D
<1>6. PICK f : Replay(D) = f[0] /\ \A off \in 0 .. n : f[off] = ReplayRound(D, f, off)
  BY Zenon, <1>5, ReplayLoop
<1>7. ASSUME NEW i \in 0 .. k
      PROVE  /\ i \in 0 .. N /\ ends[i] \in Nat /\ ends[i] <= n /\ ends[i] \in 0 .. n
             /\ T(i) \in Seq(Byte) /\ Len(T(i)) = n - ends[i]
             /\ \A j \in 1 .. n - ends[i] : T(i)[j] = F[ends[i] + j]
  <2>1. i \in 0 .. N
    BY <1>1, <1>2
  <2>2. ends[i] \in Nat /\ ends[k] \in Nat /\ ends[i] <= ends[k]
    BY Zenon, <1>2, <1>3, <2>1
  <2>3. ends[i] <= n /\ ends[i] \in 0 .. n
    BY <1>2, <2>2
  <2> DEFINE e == ends[i]
  <2>4. e \in Nat /\ e <= n
    BY Zenon, <2>2, <2>3
  <2> HIDE DEF e
  <2>5. /\ SubSeq(D, e + 1, Len(D)) \in Seq(Byte) /\ Len(SubSeq(D, e + 1, Len(D))) = n - e
        /\ \A j \in 1 .. n - e : SubSeq(D, e + 1, Len(D))[j] = F[e + j]
    BY <1>2, <1>5, <2>4, SubSeqProperties
  <2> QED BY Zenon, <2>1, <2>2, <2>3, <2>5 DEF e
<1> HIDE DEF T
<1>8. ASSUME NEW i \in 0 .. k, i < N
      PROVE  /\ i + 1 \in 1 .. N /\ c[i + 1] \in CommandSet
             /\ UnmarshalCommand(T(i)) = Parsed(T(i), MarshalCommand(c[i + 1]), c[i + 1])
             /\ Len(MarshalCommand(c[i + 1])) \in Nat
             /\ ends[i + 1] = ends[i] + Len(MarshalCommand(c[i + 1]))
  <2> DEFINE m == MarshalCommand(c[i + 1])
  <2>1. i + 1 \in 1 .. N /\ (i + 1) - 1 = i
    BY <1>1, <1>2, <1>8
  <2>2. c[i + 1] \in CommandSet /\ ends[i + 1] = ends[i] + Len(m) /\ Text(F, ends[i], m)
    BY Zenon, <1>1, <1>4, <2>1 DEF Text
  <2>3. m \in Seq(Byte) /\ Len(m) \in Nat
    BY Zenon, <2>2, FrameLayout, LenProperties
  <2> HIDE DEF m
  <2>4. Agrees(T(i), m)
    <3> SUFFICES ASSUME NEW j \in 1 .. Len(m), j <= Len(T(i)) PROVE T(i)[j] = m[j]
      BY DEF Agrees
    <3>1. ends[i] \in Nat /\ Len(T(i)) = n - ends[i]
      BY Zenon, <1>7
    <3>2. j \in 1 .. n - ends[i]
      BY <1>2, <2>3, <3>1
    <3> QED BY Zenon, <1>7, <2>2, <3>2 DEF Text
  <2>5. UnmarshalCommand(T(i)) = Parsed(T(i), m, c[i + 1])
    BY Zenon, <1>7, <2>2, <2>4, UnmarshalFrame DEF m
  <2> QED BY Zenon, <2>1, <2>2, <2>3, <2>5 DEF m
<1>9. ASSUME NEW i \in 0 .. k PROVE UnmarshalAt(D, ends[i]) = UnmarshalCommand(T(i))
  BY Zenon DEF UnmarshalAt, T
<1>10. f[ends[k]] = [given |-> <<>>, rest |-> T(k)]
  <2>1. k \in 0 .. k
    BY <1>1, <1>2
  <2>2. UnmarshalCommand(T(k)).rest = T(k)
    <3>1. CASE k < N
      <4> DEFINE m == MarshalCommand(c[k + 1])
      <4>1. UnmarshalCommand(T(k)) = Parsed(T(k), m, c[k + 1]) /\ Len(m) \in Nat /\ ends[k + 1] = ends[k] + Len(m)
        BY Zenon, <1>8, <2>1, <3>1
      <4>2. ends[k] \in Nat /\ Len(T(k)) = n - ends[k]
        BY Zenon, <1>7, <2>1
      <4> HIDE DEF m
      <4>3. ~(Len(m) <= Len(T(k)))
        BY <1>2, <3>1, <4>1, <4>2
      <4>4. Parsed(T(k), m, c[k + 1]) = [cmd |-> NoCommand, rest |-> T(k)]
        BY Zenon, <4>3 DEF Parsed
      <4> QED BY <4>1, <4>4
    <3>2. CASE ~(k < N)
      <4>1. k = N
        BY <1>1, <1>2, <3>2
      <4>2. ends[k] = Len(F) /\ Len(F) \in Nat
        BY Zenon, <1>1, <1>4, <4>1, LenProperties
      <4>3. ends[k] = n
        BY <1>2, <4>2
      <4>4. Len(T(k)) = n - ends[k]
        BY Zenon, <1>7, <2>1
      <4>5. Len(T(k)) < 4
        BY <1>2, <4>3, <4>4
      <4> QED BY Zenon, <4>5 DEF UnmarshalCommand
    <3> QED BY Zenon, <3>1, <3>2
  <2>3. NextAt(D, ends[k]) = ends[k]
    <3>1. Len(T(k)) = n - ends[k] /\ ends[k] \in Nat
      BY Zenon, <1>7, <2>1
    <3>2. NextAt(D, ends[k]) = n - Len(T(k))
      BY Zenon, <1>5, <1>9, <2>1, <2>2 DEF NextAt
    <3> QED BY <1>2, <3>1, <3>2
  <2>4. ends[k] \in 0 .. n
    BY Zenon, <1>7, <2>1
  <2>5. UnmarshalAt(D, ends[k]).rest = T(k)
    BY Zenon, <1>9, <2>1, <2>2
  <2> QED BY Zenon, <1>6, <2>3, <2>4, <2>5 DEF ReplayRound
<1>11. ASSUME NEW i \in 0 .. k, i < k
       PROVE  f[ends[i]] = [given |-> <<c[i + 1]>> \o f[ends[i + 1]].given, rest |-> f[ends[i + 1]].rest]
  <2> DEFINE m == MarshalCommand(c[i + 1])
             u == UnmarshalAt(D, ends[i])
  <2>1. i < N /\ i + 1 \in 0 .. k
    BY <1>1, <1>2, <1>11
  <2>2. /\ u = Parsed(T(i), m, c[i + 1]) /\ Len(m) \in Nat /\ ends[i + 1] = ends[i] + Len(m)
        /\ i + 1 \in 1 .. N /\ c[i + 1] \in CommandSet
    BY Zenon, <1>8, <1>9, <2>1
  <2>3. /\ ends[i] \in Nat /\ ends[i] \in 0 .. n /\ T(i) \in Seq(Byte) /\ Len(T(i)) = n - ends[i]
        /\ ends[i + 1] \in Nat /\ ends[i + 1] <= n
    BY Zenon, <1>7, <2>1
  <2> DEFINE e == ends[i]
             e2 == ends[i + 1]
  <2>4. e < e2
    <3>1. (i + 1) - 1 = i
      BY <1>1, <1>2
    <3> QED BY Zenon, <1>3, <2>2, <3>1
  <2>5. /\ e \in Nat /\ e2 \in Nat /\ e2 <= n /\ e2 = e + Len(m) /\ Len(m) \in Nat
        /\ T(i) \in Seq(Byte) /\ Len(T(i)) = n - e /\ u = Parsed(T(i), m, c[i + 1])
    BY Zenon, <2>2, <2>3
  <2> HIDE DEF m, e, e2, u
  <2>6. Len(m) <= Len(T(i)) /\ Len(SubSeq(T(i), Len(m) + 1, Len(T(i)))) = n - e2
    BY <1>2, <2>4, <2>5
  <2>7. u.cmd = c[i + 1] /\ u.rest = SubSeq(T(i), Len(m) + 1, Len(T(i)))
    BY Zenon, <2>5, <2>6 DEF Parsed
  <2>8. Len(u.rest) = n - e2
    BY Zenon, <2>6, <2>7
  <2>9. n - (n - e2) = e2 /\ e2 # e
    BY <1>2, <2>4, <2>5
  <2>10. NextAt(D, e) = e2
    BY Zenon, <1>5, <2>8, <2>9 DEF NextAt, u, e
  <2>11. u.cmd.name # <<>>
    BY Zenon, <2>2, <2>7, CommandParts
  <2>12. f[e] = ReplayRound(D, f, e)
    BY Zenon, <1>6, <2>3 DEF e
  <2>13. f[e] = [given |-> <<u.cmd>> \o f[e2].given, rest |-> f[e2].rest]
    BY Zenon, <2>9, <2>10, <2>11, <2>12 DEF ReplayRound, u, e
  <2> QED BY Zenon, <2>7, <2>13 DEF e, e2
<1> DEFINE P == {m \in 0 .. k : f[ends[k - m]] = [given |-> SubSeq(c, (k - m) + 1, k), rest |-> T(k)]}
<1>12. 0 \in P
  <2>1. 0 \in 0 .. k /\ k - 0 = k /\ SubSeq(c, k + 1, k) = <<>>
    BY <1>1, <1>2, SubSeqEmpty
  <2> QED BY Zenon, <1>10, <2>1
<1>13. ASSUME NEW m \in 0 .. k - 1, m \in P PROVE m + 1 \in P
  <2> DEFINE i == k - (m + 1)
  <2>1. i \in 0 .. k /\ i < k /\ i + 1 = k - m /\ m + 1 \in 0 .. k /\ i + 1 \in 1 .. N /\ k \in i + 1 .. N
    BY <1>1, <1>2
  <2>2. f[ends[i + 1]] = [given |-> SubSeq(c, (i + 1) + 1, k), rest |-> T(k)]
    BY Zenon, <1>13, <2>1
  <2>3. SubSeq(c, i + 1, k) = <<c[i + 1]>> \o SubSeq(c, (i + 1) + 1, k)
    <3> HIDE DEF i
    <3> QED BY Zenon, <2>1, SubSeqRecursiveFirst DEF N
  <2>4. f[ends[i + 1]].given = SubSeq(c, (i + 1) + 1, k) /\ f[ends[i + 1]].rest = T(k)
    <3> DEFINE v == f[ends[i + 1]]
               given == SubSeq(c, (i + 1) + 1, k)
               rest == T(k)
    <3>1. v = [given |-> given, rest |-> rest]
      BY Zenon, <2>2
    <3> HIDE DEF v, given, rest
    <3>2. v.given = given /\ v.rest = rest
      BY <3>1
    <3> QED BY Zenon, <3>2 DEF v, given, rest
  <2>5. f[ends[i]] = [given |-> SubSeq(c, i + 1, k), rest |-> T(k)]
    <3> HIDE DEF i
    <3> QED BY Zenon, <1>11, <2>1, <2>3, <2>4
  <2> QED BY Zenon, <2>1, <2>5
<1>14. \A m \in 0 .. k : m \in P
  <2>1. k \in Nat
    BY <1>1, <1>2
  <2> HIDE DEF P
  <2> QED BY Zenon, <1>12, <1>13, <2>1, Induction
<1>15. Replay(D) = [given |-> SubSeq(c, 1, k), rest |-> T(k)]
  <2>1. k \in 0 .. k /\ k - k = 0 /\ 0 + 1 = 1
    BY <1>1, <1>2
  <2> QED BY Zenon, <1>4, <1>6, <1>14, <2>1
<1>16. T(k) = SubSeq(F, ends[k] + 1, n)
  <2>1. k \in 0 .. k
    BY <1>1, <1>2
  <2> DEFINE e == ends[k]
  <2>2. /\ e \in Nat /\ e <= n /\ T(k) \in Seq(Byte) /\ Len(T(k)) = n - e
        /\ \A j \in 1 .. n - e : T(k)[j] = F[e + j]
    BY Zenon, <1>7, <2>1
  <2> HIDE DEF e
  <2> DEFINE t == SubSeq(F, e + 1, n)
  <2>3. t \in Seq(Byte) /\ Len(t) = n - e /\ \A j \in 1 .. n - e : t[j] = F[e + j]
    BY <1>1, <1>2, <2>2, SubSeqProperties
  <2> HIDE DEF t
  <2>4. T(k) = t
    BY Zenon, <2>2, <2>3, SeqEqual
  <2> QED BY Zenon, <2>4 DEF t, e
<1> QED BY Zenon, <1>15, <1>16 DEF D, F

(* The first k of a sequence. *)
LEMMA Prefix ==
  ASSUME NEW X, NEW s \in Seq(X), NEW k \in 0 .. Len(s)
  PROVE  /\ SubSeq(s, 1, k) \in Seq(X) /\ Len(SubSeq(s, 1, k)) = k
         /\ \A i \in 1 .. k : SubSeq(s, 1, k)[i] = s[i]
BY SubSeqProperties

(* The first sequences give the first bytes. *)
LEMMA AppendPrefix ==
  ASSUME NEW seqs \in Seq(Seq(Byte)), NEW at \in [0 .. Len(seqs) -> Nat],
         Laid(AppendAll(seqs), seqs, at), NEW k \in 0 .. Len(seqs)
  PROVE  AppendAll(SubSeq(seqs, 1, k)) = SubSeq(AppendAll(seqs), 1, at[k])
<1> DEFINE N == Len(seqs)
           F == AppendAll(seqs)
           pre == SubSeq(seqs, 1, k)
<1>1. N \in Nat /\ k \in 0 .. N /\ at \in [0 .. N -> Nat]
  BY Zenon, LenProperties
<1>2. pre \in Seq(Seq(Byte)) /\ Len(pre) = k /\ \A i \in 1 .. k : pre[i] = seqs[i]
  BY Zenon, Prefix
<1>3. PICK f \in [0 .. N -> Seq(Byte)] : IsAppending(f, seqs)
  BY Zenon, AppendLoop
<1>4. PICK g \in [0 .. k -> Seq(Byte)] : IsAppending(g, pre)
  <2> HIDE DEF pre
  <2> QED BY Zenon, <1>2, AppendLoop
<1>5. /\ f[0] = <<>> /\ F = f[N] /\ at[0] = 0
      /\ \A i \in 1 .. N : f[i] = f[i - 1] \o seqs[i] /\ at[i] = at[i - 1] + Len(seqs[i])
  BY Zenon, <1>3 DEF IsAppending, Laid
<1>6. /\ g[0] = <<>> /\ AppendAll(pre) = g[k]
      /\ \A i \in 1 .. k : g[i] = g[i - 1] \o seqs[i]
  <2> HIDE DEF pre
  <2>1. g[0] = <<>> /\ AppendAll(pre) = g[k] /\ \A i \in 1 .. k : g[i] = g[i - 1] \o pre[i]
    BY Zenon, <1>2, <1>4 DEF IsAppending
  <2> QED BY Zenon, <1>2, <2>1
<1>7. \A i \in 1 .. N : seqs[i] \in Seq(Byte)
  BY Zenon, ElementOfSeq
<1> HIDE DEF N, F, pre
<1>8. AppendAll(pre) = f[k]
  <2> DEFINE P == {i \in 0 .. k : f[i] = g[i]}
  <2>1. 0 \in P
    <3>1. 0 \in 0 .. k
      BY <1>1
    <3> QED BY Zenon, <1>5, <1>6, <3>1
  <2>2. ASSUME NEW i \in 0 .. k - 1, i \in P PROVE i + 1 \in P
    <3>1. i + 1 \in 1 .. k /\ i + 1 \in 1 .. N /\ i + 1 \in 0 .. k /\ (i + 1) - 1 = i
      BY <1>1
    <3>2. f[i + 1] = f[i] \o seqs[i + 1] /\ g[i + 1] = g[i] \o seqs[i + 1]
      BY Zenon, <1>5, <1>6, <3>1
    <3> QED BY Zenon, <2>2, <3>1, <3>2
  <2>3. \A i \in 0 .. k : i \in P
    <3>1. k \in Nat
      BY <1>1
    <3> HIDE DEF P
    <3> QED BY Zenon, <2>1, <2>2, <3>1, Induction
  <2>4. k \in 0 .. k
    BY <1>1
  <2> QED BY Zenon, <1>6, <2>3, <2>4
<1> DEFINE Starts(i) == /\ Len(f[i]) = at[i]
                        /\ i >= k => at[k] <= at[i] /\ \A j \in 1 .. at[k] : f[i][j] = f[k][j]
           Q == {i \in 0 .. N : Starts(i)}
<1>9. 0 \in Q
  <2>1. Len(<<>>) = 0 /\ 0 <= 0 /\ 0 \in 0 .. N /\ (0 >= k => k = 0)
    BY <1>1
  <2> QED BY Zenon, <1>5, <2>1
<1>10. ASSUME NEW i \in 0 .. N - 1, i \in Q PROVE i + 1 \in Q
  <2>1. i + 1 \in 1 .. N /\ i + 1 \in 0 .. N /\ i \in 0 .. N /\ (i + 1) - 1 = i
    BY <1>1
  <2> DEFINE x == f[i]
             y == seqs[i + 1]
             a == at[i]
             b == at[k]
             z == f[i + 1]
  <2>2. z = x \o y /\ at[i + 1] = a + Len(y) /\ x \in Seq(Byte) /\ y \in Seq(Byte) /\ a \in Nat /\ b \in Nat
    BY Zenon, <1>1, <1>5, <1>7, <2>1
  <2>3. Len(x) = a /\ (i >= k => b <= a /\ \A j \in 1 .. b : x[j] = f[k][j])
    BY Zenon, <1>10
  <2> HIDE DEF x, y, a, b, z
  <2>4. Joined(z, x, a, y, Len(y)) /\ Len(y) \in Nat
    BY Zenon, <2>2, <2>3, Concat, LenProperties
  <2>5. Len(z) = at[i + 1]
    BY Zenon, <2>2, <2>4 DEF Joined
  <2>6. ASSUME i + 1 >= k PROVE b <= at[i + 1] /\ \A j \in 1 .. b : z[j] = f[k][j]
    <3>1. CASE i + 1 = k
      <4>1. at[i + 1] = b /\ z = f[k]
        BY Zenon, <3>1 DEF b, z
      <4>2. b <= b
        BY <2>2
      <4> QED BY Zenon, <4>1, <4>2
    <3>2. CASE i + 1 # k
      <4>1. i >= k
        BY <1>1, <2>6, <3>2
      <4>2. b <= a + Len(y) /\ \A j \in 1 .. b : j \in 1 .. a
        BY <2>2, <2>3, <2>4, <4>1
      <4>3. \A j \in 1 .. b : z[j] = x[j] /\ x[j] = f[k][j]
        BY Zenon, <2>3, <2>4, <4>1, <4>2 DEF Joined
      <4> QED BY Zenon, <2>2, <4>2, <4>3
    <3> QED BY Zenon, <3>1, <3>2
  <2>7. Starts(i + 1)
    BY Zenon, <2>5, <2>6 DEF b, z
  <2> HIDE DEF Starts
  <2> QED BY Zenon, <2>1, <2>7
<1>11. \A i \in 0 .. N : i \in Q
  <2> HIDE DEF Q
  <2> QED BY Zenon, <1>1, <1>9, <1>10, Induction
<1>12. Starts(N) /\ Starts(k)
  <2>1. N \in 0 .. N
    BY <1>1
  <2> HIDE DEF Starts
  <2> QED BY Zenon, <1>1, <1>11, <2>1
<1>13. /\ at[k] \in Nat /\ at[k] <= Len(F) /\ f[k] \in Seq(Byte) /\ Len(f[k]) = at[k] /\ F \in Seq(Byte)
       /\ \A j \in 1 .. at[k] : F[j] = f[k][j]
  <2>1. N >= k /\ N \in 0 .. N
    BY <1>1
  <2> QED BY Zenon, <1>1, <1>5, <1>12, <2>1
<1> DEFINE b == at[k]
           t == SubSeq(F, 1, b)
<1>14. b \in Nat /\ b <= Len(F)
  BY Zenon, <1>13
<1> HIDE DEF b
<1>15. t \in Seq(Byte) /\ Len(t) = b /\ \A j \in 1 .. b : t[j] = F[j]
  BY <1>13, <1>14, SubSeqProperties
<1> HIDE DEF t
<1>16. f[k] = t
  <2>1. Len(f[k]) = Len(t) /\ \A j \in 1 .. Len(f[k]) : f[k][j] = t[j]
    BY Zenon, <1>13, <1>15 DEF b
  <2> QED BY Zenon, <1>13, <1>15, <2>1, SeqEqual
<1> QED BY Zenon, <1>8, <1>16 DEF pre, t, F, b

(* Every place is in a frame, or at the end of the file. *)
LEMMA FrameAt ==
  ASSUME NEW N \in Nat, NEW ends \in [0 .. N -> Nat], ends[0] = 0, NEW n \in Nat
  PROVE  \E k \in 0 .. N : ends[k] <= n /\ (k < N => n < ends[k + 1])
<1> DEFINE Found(m) == \E k \in 0 .. m : ends[k] <= n /\ (k < m => n < ends[k + 1])
           P == {m \in 0 .. N : Found(m)}
<1>1. 0 \in P
  <2>1. 0 \in 0 .. 0 /\ 0 \in 0 .. N /\ ends[0] <= n /\ ~(0 < 0)
    OBVIOUS
  <2> QED BY Zenon, <2>1
<1>2. ASSUME NEW m \in 0 .. N - 1, m \in P PROVE m + 1 \in P
  <2>1. PICK k \in 0 .. m : ends[k] <= n /\ (k < m => n < ends[k + 1])
    BY Zenon, <1>2
  <2>2. m + 1 \in 0 .. N /\ m + 1 \in 0 .. m + 1 /\ k \in 0 .. m + 1 /\ ~(m + 1 < m + 1)
    OBVIOUS
  <2>3. CASE k < m
    BY Zenon, <2>1, <2>2, <2>3
  <2>4. CASE ~(k < m)
    <3>1. k = m /\ ends[m + 1] \in Nat
      BY <2>4
    <3>2. ends[m + 1] <= n \/ n < ends[m + 1]
      BY <3>1
    <3> QED BY Zenon, <2>1, <2>2, <3>1, <3>2
  <2> QED BY Zenon, <2>3, <2>4
<1>3. \A m \in 0 .. N : m \in P
  <2> HIDE DEF P
  <2> QED BY Zenon, <1>1, <1>2, Induction
<1>4. N \in 0 .. N
  OBVIOUS
<1> QED BY Zenon, <1>3, <1>4

(* The inductive invariant: the file is the frames of the commands written, *)
(* one after the other.                                                    *)
FileIsFrames == cmds \in Seq(CommandSet) /\ data = AppendAll(FramesOf(cmds))

(* It holds of every file that NewWAL and Write make. *)
THEOREM FileInvariant == CodecSpec => []FileIsFrames
<1>1. CodecInit => FileIsFrames
  <2> SUFFICES ASSUME CodecInit PROVE FileIsFrames
    OBVIOUS
  <2>1. cmds = <<>> /\ data = <<>>
    BY DEF CodecInit
  <2>2. <<>> \in Seq(CommandSet) /\ Len(<<>>) = 0
    OBVIOUS
  <2>3. FramesOf(<<>>) \in Seq(Seq(Byte)) /\ Len(FramesOf(<<>>)) = 0
    BY Zenon, <2>2, FramesType
  <2>4. FramesOf(<<>>) = <<>>
    <3> DEFINE F == FramesOf(<<>>)
    <3> HIDE DEF F
    <3>1. F \in Seq(Seq(Byte)) /\ Len(F) = 0
      BY Zenon, <2>3 DEF F
    <3>2. F # <<>> => Len(F) \in Nat \ {0}
      BY Zenon, <3>1, EmptySeq
    <3>3. F = <<>>
      BY <3>1, <3>2
    <3> QED BY Zenon, <3>3 DEF F
  <2>5. AppendAll(<<>>) = <<>>
    <3>1. <<>> \in Seq(Seq(Byte))
      OBVIOUS
    <3>2. PICK f \in [0 .. Len(<<>>) -> Seq(Byte)] : IsAppending(f, <<>>)
      BY Zenon, <3>1, AppendLoop
    <3> QED BY Zenon, <2>2, <3>2 DEF IsAppending
  <2> QED BY Zenon, <2>1, <2>2, <2>4, <2>5 DEF FileIsFrames
<1>2. FileIsFrames /\ [CodecNext]_codecVars => FileIsFrames'
  <2> SUFFICES ASSUME FileIsFrames, [CodecNext]_codecVars PROVE FileIsFrames'
    OBVIOUS
  <2>1. CASE CodecNext
    <3>1. PICK cmd \in CommandSet : cmds' = Append(cmds, cmd) /\ data' = data \o MarshalCommand(cmd)
      BY Zenon, <2>1 DEF CodecNext, AppendFrame
    <3> DEFINE c == cmds
               more == Append(c, cmd)
               m == MarshalCommand(cmd)
               N == Len(c)
    <3>2. c \in Seq(CommandSet) /\ data = AppendAll(FramesOf(c))
      BY Zenon DEF FileIsFrames
    <3> HIDE DEF c
    <3>3. /\ more \in Seq(CommandSet) /\ Len(more) = N + 1 /\ N \in Nat
          /\ (\A i \in 1 .. N : more[i] = c[i]) /\ more[N + 1] = cmd
      BY <3>2, AppendProperties
    <3>4. /\ FramesOf(c) \in Seq(Seq(Byte)) /\ Len(FramesOf(c)) = N
          /\ \A i \in 1 .. N : FramesOf(c)[i] = MarshalCommand(c[i])
      BY Zenon, <3>2, FramesType
    <3>5. /\ FramesOf(more) \in Seq(Seq(Byte)) /\ Len(FramesOf(more)) = N + 1
          /\ \A i \in 1 .. N + 1 : FramesOf(more)[i] = MarshalCommand(more[i])
      <4> HIDE DEF more
      <4> QED BY Zenon, <3>3, FramesType
    <3>6. m \in Seq(Byte)
      BY Zenon, FrameLayout
    <3> HIDE DEF more, m, N
    <3>7. FramesOf(more) = Append(FramesOf(c), m)
      <4> DEFINE F == FramesOf(c)
                 G == FramesOf(more)
      <4>1. /\ F \in Seq(Seq(Byte)) /\ Len(F) = N /\ G \in Seq(Seq(Byte)) /\ Len(G) = N + 1
            /\ (\A i \in 1 .. N : G[i] = F[i]) /\ G[N + 1] = m
        <5>1. N + 1 \in 1 .. N + 1 /\ \A i \in 1 .. N : i \in 1 .. N + 1
          BY <3>3
        <5> QED BY Zenon, <3>3, <3>4, <3>5, <5>1 DEF m
      <4> DEFINE B == Seq(Byte)
      <4> HIDE DEF F, G, B
      <4>2. F \in Seq(B) /\ G \in Seq(B) /\ m \in B
        BY Zenon, <3>6, <4>1 DEF B
      <4>3. G = Append(F, m)
        BY <3>3, <4>1, <4>2, AppendProperties, SeqEqual
      <4> QED BY Zenon, <4>3 DEF F, G
    <3>8. AppendAll(FramesOf(more)) = AppendAll(FramesOf(c)) \o m
      BY Zenon, <3>4, <3>6, <3>7, AppendOneMore
    <3>9. cmds' = more /\ data' = AppendAll(FramesOf(more))
      BY Zenon, <3>1, <3>2, <3>8 DEF c, more, m
    <3> QED BY Zenon, <3>3, <3>9 DEF FileIsFrames
  <2>2. CASE UNCHANGED codecVars
    BY Zenon, <2>2 DEF codecVars, FileIsFrames
  <2> QED BY Zenon, <2>1, <2>2
<1> QED BY <1>1, <1>2, PTL DEF CodecSpec

(* Replay gives the server every command that Write has put in the file,   *)
(* as it was, whatever bytes its name and arguments hold, and returns.     *)
THEOREM ReplayGivesAll == CodecSpec => []RoundTrip
<1>1. FileIsFrames => RoundTrip
  <2> SUFFICES ASSUME FileIsFrames PROVE RoundTrip
    OBVIOUS
  <2> DEFINE c == cmds
             F == AppendAll(FramesOf(c))
             N == Len(c)
  <2>1. c \in Seq(CommandSet) /\ data = F
    BY Zenon DEF FileIsFrames
  <2> HIDE DEF c
  <2>2. N \in Nat /\ F \in Seq(Byte) /\ FramesOf(c) \in Seq(Seq(Byte)) /\ Len(FramesOf(c)) = N
    BY Zenon, <2>1, FramesType
  <2>3. PICK ends \in [0 .. N -> Nat] : Laid(F, FramesOf(c), ends)
    BY Zenon, <2>2, AppendLaid
  <2>4. ends[N] = Len(F)
    BY Zenon, <2>2, <2>3 DEF Laid
  <2>5. /\ N \in 0 .. N /\ ~(N < N) /\ Len(F) \in 0 .. Len(F) /\ Len(F) <= Len(F)
        /\ SubSeq(F, Len(F) + 1, Len(F)) = <<>>
    BY <2>2, SubSeqEmpty
  <2>6. ends[N] <= Len(F)
    BY Zenon, <2>4, <2>5
  <2>7. Replay(SubSeq(F, 1, Len(F))) = [given |-> SubSeq(c, 1, N), rest |-> SubSeq(F, ends[N] + 1, Len(F))]
    BY Zenon, <2>1, <2>3, <2>5, <2>6, ReplayFrames
  <2>8. SubSeq(F, 1, Len(F)) = F /\ SubSeq(c, 1, N) = c
    BY Zenon, <2>1, <2>2, SubSeqFull
  <2> QED BY Zenon, <2>1, <2>4, <2>5, <2>7, <2>8 DEF RoundTrip, c
<1> QED BY <1>1, FileInvariant, PTL

(* The frames of the first commands are the first frames. *)
LEMMA FramesPrefix ==
  ASSUME NEW c \in Seq(CommandSet), NEW k \in 0 .. Len(c)
  PROVE  FramesOf(SubSeq(c, 1, k)) = SubSeq(FramesOf(c), 1, k)
<1> DEFINE p == SubSeq(c, 1, k)
           F == FramesOf(c)
           G == FramesOf(p)
           N == Len(c)
<1>1. p \in Seq(CommandSet) /\ Len(p) = k /\ \A i \in 1 .. k : p[i] = c[i]
  BY Zenon, Prefix
<1>2. N \in Nat /\ F \in Seq(Seq(Byte)) /\ Len(F) = N /\ \A i \in 1 .. N : F[i] = MarshalCommand(c[i])
  BY Zenon, FramesType
<1> HIDE DEF p
<1>3. G \in Seq(Seq(Byte)) /\ Len(G) = k /\ \A i \in 1 .. k : G[i] = MarshalCommand(p[i])
  BY Zenon, <1>1, FramesType
<1>4. SubSeq(F, 1, k) \in Seq(Seq(Byte)) /\ Len(SubSeq(F, 1, k)) = k /\ \A i \in 1 .. k : SubSeq(F, 1, k)[i] = F[i]
  <2> HIDE DEF F
  <2>1. k \in 0 .. Len(F)
    BY Zenon, <1>2
  <2> QED BY Zenon, <1>2, <2>1, Prefix
<1>5. \A i \in 1 .. k : i \in 1 .. N
  BY <1>2
<1> HIDE DEF F, G
<1>6. ASSUME NEW i \in 1 .. k PROVE G[i] = SubSeq(F, 1, k)[i]
  BY Zenon, <1>1, <1>2, <1>3, <1>4, <1>5
<1>7. G = SubSeq(F, 1, k)
  <2>1. Len(G) = Len(SubSeq(F, 1, k)) /\ \A i \in 1 .. Len(G) : G[i] = SubSeq(F, 1, k)[i]
    BY Zenon, <1>3, <1>4, <1>6
  <2> QED BY Zenon, <1>3, <1>4, <2>1, SeqEqual
<1> QED BY Zenon, <1>7 DEF p, F, G

(* Two parts of a file, one after the other. *)
LEMMA Parts ==
  ASSUME NEW F \in Seq(Byte), NEW n \in 0 .. Len(F), NEW e \in 0 .. n
  PROVE  /\ SubSeq(F, 1, e) \o SubSeq(F, e + 1, n) = SubSeq(F, 1, n)
         /\ SubSeq(F, e + 1, n) \in Seq(Byte) /\ Len(SubSeq(F, e + 1, n)) = n - e
         /\ \A j \in 1 .. n - e : SubSeq(F, e + 1, n)[j] = F[e + j]
<1> DEFINE a == SubSeq(F, 1, e)
           b == SubSeq(F, e + 1, n)
           t == SubSeq(F, 1, n)
<1>1. a \in Seq(Byte) /\ Len(a) = e /\ \A j \in 1 .. e : a[j] = F[j]
  BY SubSeqProperties
<1>2. b \in Seq(Byte) /\ Len(b) = n - e /\ \A j \in 1 .. n - e : b[j] = F[e + j]
  BY SubSeqProperties
<1>3. t \in Seq(Byte) /\ Len(t) = n /\ \A j \in 1 .. n : t[j] = F[j]
  BY SubSeqProperties
<1> HIDE DEF a, b, t
<1>4. a \o b = t
  <2>1. Joined(a \o b, a, e, b, n - e)
    BY Zenon, <1>1, <1>2, Concat
  <2>2. ASSUME NEW j \in 1 .. n PROVE (a \o b)[j] = t[j]
    <3>1. CASE j <= e
      <4>1. j \in 1 .. e
        BY <3>1
      <4> QED BY Zenon, <1>1, <1>3, <2>1, <4>1 DEF Joined
    <3>2. CASE ~(j <= e)
      <4>1. j - e \in 1 .. n - e /\ e + (j - e) = j
        BY <3>2
      <4>2. (a \o b)[e + (j - e)] = b[j - e] /\ b[j - e] = F[e + (j - e)]
        BY Zenon, <1>2, <2>1, <4>1 DEF Joined
      <4> QED BY Zenon, <1>3, <4>1, <4>2
    <3> QED BY Zenon, <3>1, <3>2
  <2>3. e + (n - e) = n
    OBVIOUS
  <2>4. a \o b \in Seq(Byte) /\ Len(a \o b) = Len(t) /\ \A j \in 1 .. Len(a \o b) : (a \o b)[j] = t[j]
    BY Zenon, <1>3, <2>1, <2>2, <2>3 DEF Joined
  <2> QED BY Zenon, <1>3, <2>4, SeqEqual
<1> QED BY Zenon, <1>2, <1>4 DEF a, b, t

(* Replay never takes a part of a frame for a command: a file that a crash *)
(* has cut, anywhere, gives the server the commands before the cut, and    *)
(* Replay stays at the first byte of the frame that was cut.               *)
THEOREM CutsAreNoticed == CodecSpec => []CutIsNoticed
<1>1. FileIsFrames => CutIsNoticed
  <2> SUFFICES ASSUME FileIsFrames, NEW n \in 0 .. Len(data)
               PROVE  LET cut == SubSeq(data, 1, n)
                          r == Replay(cut)
                          frames == AppendAll([i \in DOMAIN r.given |-> MarshalCommand(r.given[i])])
                      IN  /\ Begins(r.given, cmds)
                          /\ frames \o r.rest = cut
                          /\ r.rest # <<>> => BeginsOnly(r.rest, MarshalCommand(cmds[Len(r.given) + 1]))
    BY Zenon DEF CutIsNoticed
  <2> DEFINE c == cmds
             F == AppendAll(FramesOf(c))
             N == Len(c)
  <2>1. c \in Seq(CommandSet) /\ data = F /\ n \in 0 .. Len(F)
    BY Zenon DEF FileIsFrames
  <2> HIDE DEF c
  <2>2. /\ N \in Nat /\ F \in Seq(Byte) /\ FramesOf(c) \in Seq(Seq(Byte)) /\ Len(FramesOf(c)) = N
        /\ \A i \in 1 .. N : c[i] \in CommandSet /\ FramesOf(c)[i] = MarshalCommand(c[i])
    BY Zenon, <2>1, FramesType
  <2>3. PICK ends \in [0 .. N -> Nat] : Laid(F, FramesOf(c), ends)
    BY Zenon, <2>2, AppendLaid
  <2>4. ends[0] = 0 /\ ends[N] = Len(F)
    BY Zenon, <2>2, <2>3 DEF Laid
  <2> HIDE DEF F, N
  <2>5. n \in Nat /\ n <= Len(F)
    BY <2>1, <2>2
  <2>6. PICK k \in 0 .. N : ends[k] <= n /\ (k < N => n < ends[k + 1])
    BY Zenon, <2>2, <2>4, <2>5, FrameAt
  <2> DEFINE e == ends[k]
             given == SubSeq(c, 1, k)
             rest == SubSeq(F, e + 1, n)
             cut == SubSeq(F, 1, n)
  <2>7. Replay(cut) = [given |-> given, rest |-> rest]
    BY Zenon, <2>1, <2>3, <2>6, ReplayFrames DEF F, N
  <2>8. e \in 0 .. n
    <3>1. e \in Nat
      BY Zenon
    <3> QED BY <2>5, <2>6, <3>1
  <2>9. /\ SubSeq(F, 1, e) \o rest = cut /\ rest \in Seq(Byte) /\ Len(rest) = n - e
        /\ \A j \in 1 .. n - e : rest[j] = F[e + j]
    <3> HIDE DEF e
    <3> QED BY Zenon, <2>1, <2>2, <2>8, Parts
  <2>10. given \in Seq(CommandSet) /\ Len(given) = k
    BY Zenon, <2>1, Prefix DEF N
  <2>11. Begins(given, c)
    <3>1. k <= N
      BY <2>2
    <3> QED BY Zenon, <2>10, <3>1 DEF Begins, N
  <2>12. AppendAll(FramesOf(given)) = SubSeq(F, 1, e)
    <3>1. FramesOf(given) = SubSeq(FramesOf(c), 1, k)
      BY Zenon, <2>1, FramesPrefix DEF N
    <3>2. AppendAll(SubSeq(FramesOf(c), 1, k)) = SubSeq(F, 1, e)
      BY Zenon, <2>2, <2>3, AppendPrefix DEF F
    <3> QED BY Zenon, <3>1, <3>2
  <2>13. ASSUME rest # <<>> PROVE BeginsOnly(rest, MarshalCommand(c[k + 1]))
    <3> DEFINE m == MarshalCommand(c[k + 1])
    <3> HIDE DEF rest
    <3>1. e < n
      <4>1. Len(rest) # 0
        BY <2>9, <2>13
      <4> QED BY <2>5, <2>8, <2>9, <4>1
    <3>2. k < N
      <4>1. ASSUME k = N PROVE FALSE
        <5>1. e = Len(F)
          BY Zenon, <2>4, <4>1
        <5> QED BY <2>2, <2>5, <3>1, <5>1
      <4> QED BY <2>2, <4>1
    <3>3. k + 1 \in 1 .. N /\ (k + 1) - 1 = k
      BY <2>2, <3>2
    <3>4. c[k + 1] \in CommandSet /\ FramesOf(c)[k + 1] = m
      BY Zenon, <2>2, <3>3
    <3>5. m \in Seq(Byte) /\ Len(m) \in Nat
      BY Zenon, <3>4, FrameLayout, LenProperties
    <3>6. /\ ends[k + 1] = e + Len(FramesOf(c)[k + 1])
          /\ \A j \in 1 .. Len(FramesOf(c)[k + 1]) : F[e + j] = FramesOf(c)[k + 1][j]
      BY Zenon, <2>2, <2>3, <3>3 DEF Laid
    <3>7. ends[k + 1] = e + Len(m) /\ \A j \in 1 .. Len(m) : F[e + j] = m[j]
      BY Zenon, <3>4, <3>6
    <3>8. n < ends[k + 1]
      BY Zenon, <2>6, <3>2
    <3> DEFINE l == n - e
    <3> HIDE DEF m, e
    <3>9. l \in 0 .. Len(m) /\ l < Len(m) /\ \A j \in 1 .. l : j \in 1 .. Len(m)
      BY <2>5, <2>8, <3>5, <3>7, <3>8
    <3>10. SubSeq(m, 1, l) \in Seq(Byte) /\ Len(SubSeq(m, 1, l)) = l /\ \A j \in 1 .. l : SubSeq(m, 1, l)[j] = m[j]
      <4> HIDE DEF l
      <4> QED BY Zenon, <3>5, <3>9, Prefix
    <3>11. Len(rest) = l /\ \A j \in 1 .. l : rest[j] = m[j]
      BY Zenon, <2>9, <3>7, <3>9
    <3> HIDE DEF l
    <3>12. rest = SubSeq(m, 1, l)
      <4>1. Len(rest) = Len(SubSeq(m, 1, l)) /\ \A j \in 1 .. Len(rest) : rest[j] = SubSeq(m, 1, l)[j]
        BY Zenon, <3>10, <3>11
      <4> QED BY Zenon, <2>9, <3>10, <4>1, SeqEqual
    <3>13. Begins(rest, m)
      <4>1. l <= Len(m)
        BY <3>9
      <4>2. Len(rest) <= Len(m) /\ rest = SubSeq(m, 1, Len(rest))
        BY Zenon, <3>11, <3>12, <4>1
      <4> QED BY Zenon, <4>2 DEF Begins
    <3>14. rest # m
      BY <3>5, <3>9, <3>11
    <3> QED BY Zenon, <3>13, <3>14 DEF BeginsOnly, m
  <2>14. Replay(cut).given = given /\ Replay(cut).rest = rest
    <3> HIDE DEF cut, given, rest
    <3> QED BY <2>7
  <2> DEFINE r == Replay(cut)
  <2>15. r.given = given /\ r.rest = rest /\ SubSeq(data, 1, n) = cut
    BY Zenon, <2>1, <2>14
  <2> HIDE DEF r, given, rest, cut
  <2>16. /\ Begins(r.given, c) /\ AppendAll(FramesOf(r.given)) \o r.rest = cut
         /\ r.rest # <<>> => BeginsOnly(r.rest, MarshalCommand(c[Len(r.given) + 1]))
    BY Zenon, <2>9, <2>10, <2>11, <2>12, <2>13, <2>15
  <2> QED BY Zenon, <2>15, <2>16 DEF FramesOf, r, c
<1> QED BY <1>1, FileInvariant, PTL

-----------------------------------------------------------------------------
(* The file of the Bitcask store.                                          *)

(* readStringAt gives a later position in the file. *)
LEMMA ReadLater ==
  ASSUME NEW d \in Seq(Byte), NEW pos \in 0 .. Len(d)
  PROVE  ReadStringAt(d, pos).pos \in pos .. Len(d)
<1> DEFINE L == Len(d)
           u == Uint32(d, pos)
           e == pos + 4 + u
<1>1. L \in Nat /\ pos \in Nat /\ pos <= L
  OBVIOUS
<1>2. pos + 4 <= L => u \in Nat
  BY Zenon, <1>1, UintType
<1>3. ReadStringAt(d, pos).pos = IF pos + 4 > L THEN pos ELSE IF e > L THEN pos + 4 ELSE e
  BY DEF ReadStringAt
<1> HIDE DEF L, u
<1> QED BY <1>1, <1>2, <1>3 DEF L

(* It gives a string that is there, and the place after it. *)
LEMMA ReadWhole ==
  ASSUME NEW d \in Seq(Byte), NEW pos \in Nat, NEW t \in Seq(Byte), Fits32(Len(t)),
         Head32(d, pos, Len(t)), Text(d, pos + 4, t), pos + 4 + Len(t) <= Len(d)
  PROVE  ReadStringAt(d, pos) = [str |-> t, pos |-> pos + 4 + Len(t)]
<1> DEFINE L == Len(d)
           l == Len(t)
           e == pos + 4 + l
           sub == SubSeq(d, pos + 5, e)
<1>1. L \in Nat /\ l \in Nat /\ e \in Nat
  BY LenProperties
<1>2. Uint32(d, pos) = l
  BY Zenon, <1>1, Put32
<1>3. \A i \in pos + 5 .. e : d[i] \in Byte
  OBVIOUS
<1>4. pos + 4 \in Nat /\ pos + 5 = (pos + 4) + 1 /\ e = (pos + 4) + l /\ e <= Len(d)
  BY <1>1
<1>5. Len(sub) = l /\ sub \in Seq(Byte) /\ \A i \in 1 .. l : sub[i] = d[(pos + 4) + i]
  <2> HIDE DEF e, l
  <2>1. sub = SubSeq(d, (pos + 4) + 1, (pos + 4) + l) /\ (pos + 4) + l <= Len(d)
    BY Zenon, <1>4
  <2> DEFINE a == pos + 4
  <2>2. a \in Nat /\ a + l <= Len(d)
    BY Zenon, <1>4, <2>1
  <2> HIDE DEF sub, a
  <2>3. /\ SubSeq(d, a + 1, a + l) \in Seq(Byte) /\ Len(SubSeq(d, a + 1, a + l)) = l
        /\ \A j \in 1 .. l : SubSeq(d, a + 1, a + l)[j] = d[a + j]
    BY <1>1, <2>2, Slice
  <2> QED BY Zenon, <2>1, <2>3 DEF a
<1>6. sub = t
  <2>1. \A i \in 1 .. l : sub[i] = t[i]
    BY Zenon, <1>5 DEF Text
  <2> HIDE DEF sub
  <2> QED BY Zenon, <1>4, <1>5, <2>1, SeqEqual
<1>7. ~(pos + 4 > L) /\ ~(e > L)
  <2> HIDE DEF L, l
  <2>1. pos + 4 + l <= L
    BY DEF L, l
  <2> QED BY <1>1, <2>1
<1> QED BY Zenon, <1>2, <1>6, <1>7 DEF ReadStringAt

(* The string t stands in the file behind its length, after pos. *)
StandsAt(d, pos, t) ==
  /\ pos + Len(Field(t)) <= Len(d)
  /\ \A j \in 1 .. Len(Field(t)) : d[pos + j] = Field(t)[j]

(* What readStringAt gives stands there, unless it is empty. *)
LEMMA ReadStands ==
  ASSUME NEW d \in Seq(Byte), NEW pos \in Nat, NEW t, t = ReadStringAt(d, pos).str, t # <<>>
  PROVE  StandsAt(d, pos, t)
<1> DEFINE L == Len(d)
           u == Uint32(d, pos)
           a == pos + 4
           sub == SubSeq(d, a + 1, a + u)
<1>1. L \in Nat /\ a \in Nat /\ a + 1 = pos + 5
  BY LenProperties
<1>2. ReadStringAt(d, pos).str = IF a > L \/ a + u > L THEN <<>> ELSE SubSeq(d, pos + 5, a + u)
  BY DEF ReadStringAt
<1>3. ~(a > L) /\ ~(a + u > L) /\ t = sub
  BY Zenon, <1>1, <1>2
<1>4. a <= L
  <2> HIDE DEF L, a
  <2> QED BY <1>1, <1>3
<1>5. u \in Nat /\ Head32(d, pos, u)
  BY Zenon, <1>4, UintType, NumberBytes
<1>6. a + u <= L
  <2> HIDE DEF L, a, u
  <2> QED BY <1>1, <1>3, <1>5
<1>7. t \in Seq(Byte) /\ Len(t) = u /\ \A j \in 1 .. u : t[j] = d[a + j]
  <2> HIDE DEF a, u
  <2>1. sub \in Seq(Byte) /\ Len(sub) = u /\ \A j \in 1 .. u : sub[j] = d[a + j]
    BY Zenon, <1>1, <1>5, <1>6, Slice DEF L
  <2> QED BY Zenon, <1>3, <2>1
<1> DEFINE fd == Field(t)
<1>8. Len(fd) = 4 + u /\ Head32(fd, 0, u) /\ Text(fd, 4, t)
  BY Zenon, <1>7, ArgumentLaid DEF Field, MarshalArg
<1> HIDE DEF fd, u, L, sub
<1>9. ASSUME NEW j \in 1 .. 4 + u PROVE d[pos + j] = fd[j]
  <2>1. CASE j \in 1 .. 4
    <3>1. 0 + j = j
      OBVIOUS
    <3>2. fd[0 + j] = PutUint32(u)[j] /\ d[pos + j] = PutUint32(u)[j]
      BY Zenon, <1>5, <1>8, <2>1 DEF Head32
    <3> QED BY Zenon, <3>1, <3>2
  <2>2. CASE j \notin 1 .. 4
    <3> DEFINE i == j - 4
    <3>1. i \in 1 .. u /\ 4 + i = j /\ a + i = pos + j
      BY <1>5, <2>2
    <3> HIDE DEF i, a
    <3>2. fd[4 + i] = t[i] /\ t[i] = d[a + i]
      BY Zenon, <1>7, <1>8, <3>1 DEF Text
    <3> QED BY Zenon, <3>1, <3>2
  <2> QED BY Zenon, <2>1, <2>2
<1>10. pos + (4 + u) <= L
  BY <1>1, <1>5, <1>6
<1> QED BY Zenon, <1>8, <1>9, <1>10 DEF StandsAt, fd, L

(* A round of recover's loop at pos: whether it finds an operation there,  *)
(* which, and where it goes on.                                            *)
Ops == {OpS, OpD, OpH}

Entry(d, pos) ==
  LET a == ReadStringAt(d, pos + 1)
      b == ReadStringAt(d, a.pos)
      c == ReadStringAt(d, b.pos)
  IN  CASE d[pos + 1] = OpS -> [op |-> OpS, parts |-> <<a.str, b.str>>]
        [] d[pos + 1] = OpD -> [op |-> OpD, parts |-> <<a.str>>]
        [] d[pos + 1] = OpH -> [op |-> OpH, parts |-> <<a.str, b.str, c.str>>]
        [] OTHER -> <<>>

EntryEnd(d, pos) ==
  LET a == ReadStringAt(d, pos + 1)
      b == ReadStringAt(d, a.pos)
      c == ReadStringAt(d, b.pos)
  IN  CASE d[pos + 1] = OpS -> b.pos
        [] d[pos + 1] = OpD -> a.pos
        [] d[pos + 1] = OpH -> c.pos
        [] OTHER -> pos + 1

OperationsRound(d, f, pos) ==
  IF pos = Len(d) THEN <<>>
  ELSE IF d[pos + 1] \in Ops THEN <<Entry(d, pos)>> \o f[EntryEnd(d, pos)]
  ELSE f[EntryEnd(d, pos)]

(* The three operation bytes are different. *)
LEMMA OpsDiffer == OpS \in Byte /\ OpD \in Byte /\ OpH \in Byte /\ OpS # OpD /\ OpS # OpH /\ OpD # OpH
BY BitcaskAssumption

(* The loop moves on. *)
LEMMA EntryLater ==
  ASSUME NEW d \in Seq(Byte), NEW pos \in 0 .. Len(d), pos # Len(d)
  PROVE  EntryEnd(d, pos) \in pos + 1 .. Len(d)
<1> DEFINE a == ReadStringAt(d, pos + 1)
           b == ReadStringAt(d, a.pos)
           c == ReadStringAt(d, b.pos)
           L == Len(d)
<1>1. L \in Nat /\ pos \in Nat /\ pos + 1 \in 0 .. L
  OBVIOUS
<1>2. a.pos \in pos + 1 .. L
  BY Zenon, <1>1, ReadLater
<1> HIDE DEF a, L
<1>3. a.pos \in 0 .. L
  BY <1>1, <1>2
<1>4. b.pos \in a.pos .. L
  BY Zenon, <1>3, ReadLater DEF L
<1> HIDE DEF b
<1>5. b.pos \in 0 .. L
  BY <1>3, <1>4
<1>6. c.pos \in b.pos .. L
  BY Zenon, <1>5, ReadLater DEF L
<1> HIDE DEF c
<1>7. b.pos \in pos + 1 .. L /\ c.pos \in pos + 1 .. L /\ pos + 1 \in pos + 1 .. L
  BY <1>1, <1>2, <1>3, <1>4, <1>5, <1>6
<1>8. EntryEnd(d, pos) \in {a.pos, b.pos, c.pos, pos + 1}
  BY OpsDiffer DEF EntryEnd, a, b, c
<1> QED BY Zenon, <1>2, <1>7, <1>8 DEF L
(* The operations that they may find. *)
Entries(d) == {Entry(d, pos) : pos \in 0 .. Len(d)}

(* Operations has the values that these rounds have. *)
LEMMA OperationsLoop ==
  ASSUME NEW d \in Seq(Byte)
  PROVE  \A pos \in 0 .. Len(d) :
           /\ Operations(d)[pos] \in Seq(Entries(d))
           /\ Operations(d)[pos] = OperationsRound(d, Operations(d), pos)
<1> DEFINE N == Len(d)
           X == Entries(d)
           S == Seq(X)
           Add(pos, r) == IF d[pos + 1] \in Ops THEN <<Entry(d, pos)>> \o r ELSE r
           next == [pos \in 0 .. N |-> IF pos = N THEN N ELSE EntryEnd(d, pos)]
           step == [pos \in 0 .. N |-> [r \in S |-> Add(pos, r)]]
           base == [pos \in 0 .. N |-> <<>>]
           Body(f) == [pos \in 0 .. N |-> OperationsRound(d, f, pos)]
           from == CHOOSE f : f = Body(f)
<1>1. N \in Nat
  OBVIOUS
<1>2. \A pos \in 0 .. N : pos # N => EntryEnd(d, pos) \in 0 .. N /\ EntryEnd(d, pos) > pos
  <2> SUFFICES ASSUME NEW pos \in 0 .. N, pos # N
               PROVE  EntryEnd(d, pos) \in 0 .. N /\ EntryEnd(d, pos) > pos
    OBVIOUS
  <2>1. EntryEnd(d, pos) \in pos + 1 .. N
    BY Zenon, EntryLater
  <2> HIDE DEF N
  <2> QED BY <1>1, <2>1
<1>3. next \in [0 .. N -> 0 .. N]
  <2>1. N \in 0 .. N
    BY <1>1
  <2> HIDE DEF N
  <2> QED BY Zenon, <1>2, <2>1
<1>4. step \in [0 .. N -> [S -> S]]
  <2>1. ASSUME NEW pos \in 0 .. N, NEW r \in S PROVE Add(pos, r) \in S
    <3> DEFINE x == Entry(d, pos)
    <3>1. x \in X
      BY Zenon DEF Entries
    <3> HIDE DEF X, x
    <3>2. <<x>> \o r \in Seq(X)
      BY <3>1
    <3> QED BY Zenon, <3>2 DEF x
  <2> HIDE DEF S, Add
  <2>2. \A pos \in 0 .. N : [r \in S |-> Add(pos, r)] \in [S -> S]
    BY Zenon, <2>1
  <2> QED BY Zenon, <2>2
<1>5. base \in [0 .. N -> S] /\ <<>> \in S
  OBVIOUS
<1>6. PICK f \in [0 .. N -> S] : IsScan(f, N, next, step, base)
  <2> HIDE DEF N, next, step, base, S
  <2> QED BY Zenon, <1>1, <1>3, <1>4, <1>5, ScanExists
<1>7. ASSUME NEW pos \in 0 .. N PROVE f[pos] = OperationsRound(d, f, pos)
  <2>1. f[pos] = IF next[pos] > pos THEN step[pos][f[next[pos]]] ELSE base[pos]
    BY Zenon, <1>6 DEF IsScan
  <2>2. CASE pos = N
    <3>1. next[pos] = N /\ ~(N > pos)
      BY <1>1, <2>2
    <3>2. f[pos] = <<>>
      BY Zenon, <2>1, <3>1
    <3> QED BY Zenon, <2>2, <3>2 DEF OperationsRound
  <2>3. CASE pos # N
    <3> DEFINE q == EntryEnd(d, pos)
    <3>1. next[pos] = q /\ q \in 0 .. N /\ q > pos
      BY Zenon, <1>2, <2>3
    <3>2. f[q] \in S
      BY Zenon, <3>1
    <3>3. f[pos] = step[pos][f[q]]
      BY Zenon, <2>1, <3>1
    <3> HIDE DEF q, S
    <3>4. f[pos] = Add(pos, f[q])
      BY Zenon, <3>2, <3>3
    <3> QED BY Zenon, <2>3, <3>4 DEF OperationsRound, q
  <2> QED BY <2>2, <2>3
<1>8. f = Body(f)
  <2> HIDE DEF S
  <2> QED BY Zenon, <1>7
<1>9. from = Body(from)
  <2> HIDE DEF Body
  <2> QED BY Zenon, <1>8
<1>10. Operations(d) = from
  <2> DEFINE At(g, pos) ==
          LET a == ReadStringAt(d, pos + 1)
              b == ReadStringAt(d, a.pos)
              c == ReadStringAt(d, b.pos)
          IN  IF pos = N THEN <<>>
              ELSE CASE d[pos + 1] = OpS -> <<[op |-> OpS, parts |-> <<a.str, b.str>>]>> \o g[b.pos]
                     [] d[pos + 1] = OpD -> <<[op |-> OpD, parts |-> <<a.str>>]>> \o g[a.pos]
                     [] d[pos + 1] = OpH -> <<[op |-> OpH, parts |-> <<a.str, b.str, c.str>>]>> \o g[c.pos]
                     [] OTHER -> g[pos + 1]
      Source(g) == [pos \in 0 .. N |-> At(g, pos)]
  <2>1. ASSUME NEW g PROVE Source(g) = Body(g)
    <3>1. ASSUME NEW pos \in 0 .. N PROVE At(g, pos) = OperationsRound(d, g, pos)
      <4>1. CASE pos = N
        BY Zenon, <4>1 DEF OperationsRound
      <4>2. CASE pos # N /\ d[pos + 1] = OpS
        BY Zenon, <4>2, OpsDiffer DEF OperationsRound, Entry, EntryEnd, Ops
      <4>3. CASE pos # N /\ d[pos + 1] = OpD
        BY Zenon, <4>3, OpsDiffer DEF OperationsRound, Entry, EntryEnd, Ops
      <4>4. CASE pos # N /\ d[pos + 1] = OpH
        BY Zenon, <4>4, OpsDiffer DEF OperationsRound, Entry, EntryEnd, Ops
      <4>5. CASE pos # N /\ d[pos + 1] \notin Ops
        BY Zenon, <4>5, OpsDiffer DEF OperationsRound, Entry, EntryEnd, Ops
      <4> QED BY Zenon, <4>1, <4>2, <4>3, <4>4, <4>5 DEF Ops
    <3> HIDE DEF At
    <3> QED BY Zenon, <3>1
  <2>2. Operations(d) = CHOOSE g : g = Source(g)
    BY Zenon DEF Operations
  <2> HIDE DEF Source, Body
  <2> QED BY Zenon, <2>1, <2>2
<1>11. \A pos \in 0 .. N : from[pos] = OperationsRound(d, from, pos)
  BY Zenon, <1>9
<1> DEFINE P == {k \in 0 .. N : \A pos \in N - k .. N : from[pos] = f[pos]}
<1> HIDE DEF from, Body, N, next, step, base, S
<1>12. 0 \in P
  <2>1. \A pos \in N - 0 .. N : pos = N /\ pos \in 0 .. N
    BY <1>1
  <2>2. ASSUME NEW pos \in N - 0 .. N PROVE from[pos] = f[pos]
    <3>1. OperationsRound(d, from, pos) = <<>> /\ OperationsRound(d, f, pos) = <<>>
      BY Zenon, <2>1 DEF OperationsRound, N
    <3> QED BY Zenon, <1>7, <1>11, <2>1, <3>1
  <2>3. 0 \in 0 .. N
    BY <1>1
  <2> QED BY Zenon, <2>2, <2>3
<1>13. ASSUME NEW k \in 0 .. N - 1, k \in P PROVE k + 1 \in P
  <2>1. \A pos \in N - k .. N : from[pos] = f[pos]
    BY Zenon, <1>13
  <2>2. ASSUME NEW pos \in N - (k + 1) .. N PROVE from[pos] = f[pos]
    <3>1. pos \in 0 .. N
      BY <1>1
    <3>2. CASE pos = N
      <4>1. N \in N - k .. N
        BY <1>1
      <4> QED BY Zenon, <2>1, <3>2, <4>1
    <3>3. CASE pos # N
      <4> DEFINE q == EntryEnd(d, pos)
      <4>1. q \in 0 .. N /\ q > pos
        BY Zenon, <1>2, <3>1, <3>3
      <4>2. q \in N - k .. N
        <5> HIDE DEF q
        <5> QED BY <1>1, <4>1
      <4>3. from[q] = f[q]
        BY Zenon, <2>1, <4>2
      <4>4. OperationsRound(d, from, pos) = OperationsRound(d, f, pos)
        BY Zenon, <4>3 DEF OperationsRound
      <4> QED BY Zenon, <1>7, <1>11, <3>1, <4>4
    <3> QED BY Zenon, <3>2, <3>3
  <2>3. k + 1 \in 0 .. N
    BY <1>1
  <2> QED BY Zenon, <2>2, <2>3
<1>14. \A pos \in 0 .. N : from[pos] = f[pos]
  <2>1. N \in 0 .. N /\ N - N = 0
    BY <1>1
  <2>2. N \in P
    <3> HIDE DEF P
    <3> QED BY Zenon, <1>1, <1>12, <1>13, <2>1, Induction
  <2> QED BY Zenon, <2>1, <2>2
<1>15. \A pos \in 0 .. N : from[pos] \in S
  BY Zenon, <1>14
<1> QED BY Zenon, <1>10, <1>11, <1>15 DEF N, S

(* An operation is on the key that stands behind its byte, or on the empty *)
(* one.                                                                    *)
LEMMA EntryNames ==
  ASSUME NEW d \in Seq(Byte), NEW pos \in 0 .. Len(d), d[pos + 1] \in Ops, NEW x, x = Entry(d, pos)
  PROVE  x.op \in Ops /\ (x.parts[1] # <<>> => StandsAt(d, pos + 1, x.parts[1]))
<1> DEFINE a == ReadStringAt(d, pos + 1)
           b == ReadStringAt(d, a.pos)
           e == ReadStringAt(d, b.pos)
<1>1. x.op \in Ops /\ x.parts[1] = a.str
  <2>1. CASE d[pos + 1] = OpS
    <3>1. x = [op |-> OpS, parts |-> <<a.str, b.str>>]
      BY Zenon, <2>1, OpsDiffer DEF Entry
    <3> HIDE DEF a, b
    <3> QED BY <3>1 DEF Ops
  <2>2. CASE d[pos + 1] = OpD
    <3>1. x = [op |-> OpD, parts |-> <<a.str>>]
      BY Zenon, <2>2, OpsDiffer DEF Entry
    <3> HIDE DEF a
    <3> QED BY <3>1 DEF Ops
  <2>3. CASE d[pos + 1] = OpH
    <3>1. x = [op |-> OpH, parts |-> <<a.str, b.str, e.str>>]
      BY Zenon, <2>3, OpsDiffer DEF Entry
    <3> HIDE DEF a, b, e
    <3> QED BY <3>1 DEF Ops
  <2> QED BY Zenon, <2>1, <2>2, <2>3 DEF Ops
<1>2. pos + 1 \in Nat
  OBVIOUS
<1>3. a.str # <<>> => StandsAt(d, pos + 1, a.str)
  BY Zenon, <1>2, ReadStands
<1> QED BY Zenon, <1>1, <1>3

(* The operations of the places from p on. *)
EntriesFrom(d, p) == {Entry(d, q) : q \in {r \in p .. Len(d) - 1 : d[r + 1] \in Ops}}

(* From p on the loop finds no others. *)
LEMMA OperationsFrom ==
  ASSUME NEW d \in Seq(Byte), NEW p \in 0 .. Len(d)
  PROVE  Operations(d)[p] \in Seq(EntriesFrom(d, p))
<1> DEFINE N == Len(d)
           O == Operations(d)
           X == EntriesFrom(d, p)
           M == N - p
           P == {k \in 0 .. M : \A pos \in N - k .. N : O[pos] \in Seq(X)}
<1>1. N \in Nat /\ p \in 0 .. N /\ M \in Nat
  OBVIOUS
<1>2. \A pos \in 0 .. N : O[pos] = OperationsRound(d, O, pos)
  BY Zenon, OperationsLoop
<1>3. \A pos \in 0 .. N : pos # N => EntryEnd(d, pos) \in pos + 1 .. N
  BY Zenon, EntryLater
<1>x. \A pos \in p .. N - 1 : d[pos + 1] \in Ops => Entry(d, pos) \in X
  BY Zenon DEF EntriesFrom
<1> HIDE DEF O, X
<1>4. 0 \in P
  <2>1. O[N] = <<>> /\ <<>> \in Seq(X)
    <3>1. N \in 0 .. N
      BY <1>1
    <3> QED BY Zenon, <1>2, <3>1, EmptySeq DEF OperationsRound
  <2> HIDE DEF N
  <2>2. 0 \in 0 .. M /\ \A pos \in N - 0 .. N : pos = N
    BY <1>1
  <2> QED BY Zenon, <2>1, <2>2
<1>5. ASSUME NEW k \in 0 .. M - 1, k \in P PROVE k + 1 \in P
  <2>1. \A pos \in N - k .. N : O[pos] \in Seq(X)
    BY Zenon, <1>5
  <2> HIDE DEF N
  <2>2. ASSUME NEW pos \in N - (k + 1) .. N PROVE O[pos] \in Seq(X)
    <3>1. pos \in 0 .. N
      BY <1>1
    <3>2. CASE pos \in N - k .. N
      BY Zenon, <2>1, <3>2
    <3>3. CASE pos \notin N - k .. N
      <4>1. pos # N /\ pos \in p .. N - 1
        BY <1>1, <3>3
      <4> DEFINE q == EntryEnd(d, pos)
                 x == Entry(d, pos)
      <4>2. q \in pos + 1 .. N
        BY Zenon, <1>3, <3>1, <4>1
      <4>3. q \in N - k .. N
        <5> HIDE DEF q
        <5> QED BY <1>1, <3>1, <3>3, <4>2
      <4>4. O[q] \in Seq(X)
        BY Zenon, <2>1, <4>3
      <4>5. CASE d[pos + 1] \in Ops
        <5>1. O[pos] = <<x>> \o O[q] /\ x \in X
          BY Zenon, <1>2, <1>x, <3>1, <4>1, <4>5 DEF OperationsRound, N
        <5> HIDE DEF x, q
        <5>2. <<x>> \in Seq(X)
          BY <5>1
        <5> QED BY Zenon, <4>4, <5>1, <5>2, ConcatProperties
      <4>6. CASE d[pos + 1] \notin Ops
        <5>1. O[pos] = O[q]
          BY Zenon, <1>2, <3>1, <4>1, <4>6 DEF OperationsRound, N
        <5> QED BY Zenon, <4>4, <5>1
      <4> QED BY Zenon, <4>5, <4>6
    <3> QED BY Zenon, <3>2, <3>3
  <2>3. k + 1 \in 0 .. M
    BY <1>1
  <2> QED BY Zenon, <2>2, <2>3
<1>6. M \in P
  <2>1. M \in 0 .. M
    BY <1>1
  <2> HIDE DEF P, M
  <2> QED BY Zenon, <1>1, <1>4, <1>5, <2>1, Induction
<1>7. p \in N - M .. N
  BY <1>1
<1> QED BY Zenon, <1>6, <1>7 DEF O, X
(* The maps that recover passes through as it applies operations. *)
IsApplied(f, ops) ==
  f[0] = NoEntries /\ \A n \in 1 .. Len(ops) : f[n] = Apply(f[n - 1], ops[n].op, ops[n].parts)

(* Applied gives the last of them. *)
LEMMA AppliedLoop ==
  ASSUME NEW X, NEW ops \in Seq(X)
  PROVE  \E f : IsApplied(f, ops) /\ Applied(ops) = f[Len(ops)]
<1> DEFINE N == Len(ops)
           Val(f, n) == IF n = 0 THEN NoEntries ELSE Apply(f[n - 1], ops[n].op, ops[n].parts)
           Body(k, f) == [n \in 0 .. k |-> Val(f, n)]
           P == {k \in 0 .. N : \E f : f = Body(k, f)}
           upto == CHOOSE f : f = Body(N, f)
<1>1. N \in Nat
  OBVIOUS
<1> HIDE DEF N
<1>2. 0 \in P
  <2> DEFINE f == [n \in 0 .. 0 |-> NoEntries]
  <2>1. 0 \in 0 .. N /\ \A n \in 0 .. 0 : n = 0
    BY <1>1
  <2>2. f = Body(0, f)
    BY Zenon, <2>1
  <2> HIDE DEF f, Body
  <2> QED BY Zenon, <2>1, <2>2
<1>3. ASSUME NEW k \in 0 .. N - 1, k \in P PROVE k + 1 \in P
  <2>1. PICK f : f = Body(k, f)
    BY Zenon, <1>3
  <2> DEFINE v == Apply(f[k], ops[k + 1].op, ops[k + 1].parts)
             g == [n \in 0 .. k + 1 |-> IF n = k + 1 THEN v ELSE f[n]]
  <2>2. k + 1 \in 0 .. N /\ k \in 0 .. k + 1 /\ k # k + 1 /\ (k + 1) - 1 = k /\ k + 1 # 0 /\ k + 1 \in 0 .. k + 1
    BY <1>1
  <2>3. ASSUME NEW n \in 0 .. k + 1 PROVE g[n] = Val(g, n)
    <3>1. CASE n = k + 1
      <4>1. g[n] = v /\ g[k] = f[k]
        BY Zenon, <2>2, <3>1
      <4>2. Val(g, n) = Apply(g[k], ops[k + 1].op, ops[k + 1].parts)
        BY Zenon, <2>2, <3>1
      <4> QED BY Zenon, <4>1, <4>2
    <3>2. CASE n # k + 1
      <4>1. n \in 0 .. k
        BY <3>2
      <4>2. f[n] = Val(f, n)
        BY Zenon, <2>1, <4>1
      <4>3. n # 0 => n - 1 \in 0 .. k + 1 /\ n - 1 # k + 1
        BY <4>1
      <4>4. n # 0 => g[n - 1] = f[n - 1]
        BY Zenon, <4>3
      <4>5. g[n] = f[n]
        BY Zenon, <3>2
      <4> HIDE DEF g
      <4> QED BY Zenon, <4>2, <4>4, <4>5
    <3> QED BY Zenon, <3>1, <3>2
  <2>4. g = Body(k + 1, g)
    <3> HIDE DEF Val, v
    <3> QED BY Zenon, <2>3
  <2> HIDE DEF g, Body
  <2> QED BY Zenon, <2>2, <2>4
<1>4. N \in P
  <2>1. N \in 0 .. N
    BY <1>1
  <2> HIDE DEF P
  <2> QED BY Zenon, <1>1, <1>2, <1>3, <2>1, Induction
<1>5. upto = Body(N, upto)
  <2> HIDE DEF Body
  <2> QED BY Zenon, <1>4
<1>6. Applied(ops) = upto[N]
  BY Zenon DEF Applied, N
<1> HIDE DEF upto
<1>7. \A n \in 0 .. N : upto[n] = Val(upto, n)
  <2> HIDE DEF Val
  <2> QED BY Zenon, <1>5
<1>8. 0 \in 0 .. N /\ \A n \in 1 .. N : n \in 0 .. N /\ n # 0
  BY <1>1
<1>9. IsApplied(upto, ops)
  BY Zenon, <1>7, <1>8 DEF IsApplied, N
<1> QED BY Zenon, <1>6, <1>9 DEF N

(* One more operation changes the maps that the others leave. *)
LEMMA AppliedAppend ==
  ASSUME NEW X, NEW ops \in Seq(X), NEW o \in X
  PROVE  Applied(Append(ops, o)) = Apply(Applied(ops), o.op, o.parts)
<1> DEFINE N == Len(ops)
           more == Append(ops, o)
<1>1. /\ N \in Nat /\ more \in Seq(X) /\ Len(more) = N + 1 /\ more[N + 1] = o
      /\ \A n \in 1 .. N : more[n] = ops[n]
  OBVIOUS
<1> HIDE DEF N, more
<1>2. PICK f : IsApplied(f, ops) /\ Applied(ops) = f[N]
  BY Zenon, AppliedLoop DEF N
<1>3. PICK g : IsApplied(g, more) /\ Applied(more) = g[N + 1]
  BY Zenon, <1>1, AppliedLoop
<1> DEFINE P == {n \in 0 .. N : g[n] = f[n]}
<1>4. 0 \in P
  <2>1. 0 \in 0 .. N
    BY <1>1
  <2> QED BY Zenon, <1>2, <1>3, <2>1 DEF IsApplied
<1>5. ASSUME NEW n \in 0 .. N - 1, n \in P PROVE n + 1 \in P
  <2>1. n + 1 \in 1 .. N /\ n + 1 \in 0 .. N /\ n + 1 \in 1 .. N + 1 /\ (n + 1) - 1 = n
    BY <1>1
  <2>2. g[n + 1] = Apply(g[n], more[n + 1].op, more[n + 1].parts)
    BY Zenon, <1>1, <1>3, <2>1 DEF IsApplied
  <2>3. f[n + 1] = Apply(f[n], ops[n + 1].op, ops[n + 1].parts)
    BY Zenon, <1>2, <2>1 DEF IsApplied, N
  <2> QED BY Zenon, <1>1, <1>5, <2>1, <2>2, <2>3
<1>6. g[N] = f[N]
  <2>1. N \in 0 .. N
    BY <1>1
  <2>2. N \in P
    <3> HIDE DEF P
    <3> QED BY Zenon, <1>1, <1>4, <1>5, <2>1, Induction
  <2> QED BY Zenon, <2>2
<1>7. g[N + 1] = Apply(g[N], o.op, o.parts)
  <2>1. N + 1 \in 1 .. N + 1 /\ (N + 1) - 1 = N
    BY <1>1
  <2> QED BY Zenon, <1>1, <1>3, <2>1 DEF IsApplied
<1> QED BY Zenon, <1>2, <1>3, <1>6, <1>7 DEF more

(* No operation leaves the empty maps. *)
LEMMA AppliedEmpty == Applied(<<>>) = NoEntries
<1>1. <<>> \in Seq({}) /\ Len(<<>>) = 0
  OBVIOUS
<1>2. PICK f : IsApplied(f, <<>>) /\ Applied(<<>>) = f[Len(<<>>)]
  BY Zenon, <1>1, AppliedLoop
<1> QED BY Zenon, <1>1, <1>2 DEF IsApplied

(* Two maps with the same entry for a key. *)
SameEntries(m, r, k) ==
  Lookup(m.strings, k) = Lookup(r.strings, k) /\ Lookup(m.hashes, k) = Lookup(r.hashes, k)

(* Set, Del and HSet leave every other key as it was. *)
LEMMA ApplyTouchesKey ==
  ASSUME NEW m, NEW o, o.op \in Ops, NEW k, k # o.parts[1]
  PROVE  SameEntries(Apply(m, o.op, o.parts), m, k)
<1> DEFINE a == o.parts[1]
           r == Apply(m, o.op, o.parts)
<1>1. ASSUME NEW f, NEW v PROVE Lookup(Upsert(f, a, v), k) = Lookup(f, k)
  BY Zenon DEF Lookup, Upsert
<1>2. ASSUME NEW f PROVE Lookup(Restrict(f, DOMAIN f \ {a}), k) = Lookup(f, k)
  BY Zenon DEF Lookup, Restrict
<1> HIDE DEF a
<1>3. CASE o.op = OpS
  <2>1. r = SetIn(m, a, o.parts[2])
    BY Zenon, <1>3, OpsDiffer DEF Apply, a
  <2>2. r.strings = Upsert(m.strings, a, o.parts[2]) /\ r.hashes = m.hashes
    BY <2>1 DEF SetIn
  <2> QED BY Zenon, <1>1, <2>2 DEF SameEntries
<1>4. CASE o.op = OpD
  <2>1. r = DelIn(m, a)
    BY Zenon, <1>4, OpsDiffer DEF Apply, a
  <2>2. /\ r.strings = Restrict(m.strings, DOMAIN m.strings \ {a})
        /\ r.hashes = Restrict(m.hashes, DOMAIN m.hashes \ {a})
    BY <2>1 DEF DelIn
  <2> QED BY Zenon, <1>2, <2>2 DEF SameEntries
<1>5. CASE o.op = OpH
  <2>1. r = HSetIn(m, a, o.parts[2], o.parts[3])
    BY Zenon, <1>5, OpsDiffer DEF Apply, a
  <2> DEFINE fields == IF a \in DOMAIN m.hashes THEN m.hashes[a] ELSE NoMap
             u == Upsert(fields, o.parts[2], o.parts[3])
  <2>2. r.strings = m.strings /\ r.hashes = Upsert(m.hashes, a, u)
    BY <2>1 DEF HSetIn
  <2> HIDE DEF u
  <2> QED BY Zenon, <1>1, <2>2 DEF SameEntries
<1> QED BY Zenon, <1>3, <1>4, <1>5 DEF Ops

(* Operations on other keys leave the entry of a key as it was. *)
LEMMA AppliedRest ==
  ASSUME NEW X, NEW pre \in Seq(X), NEW rest \in Seq(X), NEW k,
         \A i \in 1 .. Len(rest) : rest[i].op \in Ops /\ k # rest[i].parts[1]
  PROVE  SameEntries(Applied(pre \o rest), Applied(pre), k)
<1> DEFINE N == Len(pre)
           M == Len(rest)
           all == pre \o rest
           upto(m) == SubSeq(all, 1, N + m)
           P == {m \in 0 .. M : SameEntries(Applied(upto(m)), Applied(pre), k)}
<1>1. /\ N \in Nat /\ M \in Nat /\ all \in Seq(X) /\ Len(all) = N + M
      /\ (\A j \in 1 .. N : all[j] = pre[j]) /\ \A j \in 1 .. M : all[N + j] = rest[j]
  OBVIOUS
<1> HIDE DEF N, M, all
<1>2. ASSUME NEW m \in 0 .. M
      PROVE  upto(m) \in Seq(X) /\ Len(upto(m)) = N + m /\ \A j \in 1 .. N + m : upto(m)[j] = all[j]
  <2>1. N + m \in 0 .. Len(all)
    BY <1>1
  <2> QED BY Zenon, <1>1, <2>1, Prefix
<1> HIDE DEF upto
<1>3. 0 \in P
  <2>1. 0 \in 0 .. M /\ N + 0 = N
    BY <1>1
  <2>2. upto(0) \in Seq(X) /\ Len(upto(0)) = N /\ \A j \in 1 .. N : upto(0)[j] = pre[j]
    BY Zenon, <1>1, <1>2, <2>1
  <2>3. upto(0) = pre
    BY Zenon, <2>2, SeqEqual DEF N
  <2> QED BY Zenon, <2>1, <2>3 DEF SameEntries
<1>4. ASSUME NEW m \in 0 .. M - 1, m \in P PROVE m + 1 \in P
  <2> DEFINE x == rest[m + 1]
             more == Append(upto(m), x)
  <2>1. /\ m \in 0 .. M /\ m + 1 \in 0 .. M /\ m + 1 \in 1 .. M /\ N + (m + 1) = (N + m) + 1
        /\ \A j \in 1 .. (N + m) + 1 : j = (N + m) + 1 \/ j \in 1 .. N + m
    BY <1>1
  <2>2. x \in X /\ x = all[N + (m + 1)]
    BY Zenon, <1>1, <2>1, ElementOfSeq DEF M
  <2> HIDE DEF x
  <2>3. /\ more \in Seq(X) /\ Len(more) = (N + m) + 1 /\ more[(N + m) + 1] = x
        /\ \A j \in 1 .. N + m : more[j] = upto(m)[j]
    BY <1>2, <2>1, <2>2
  <2> HIDE DEF more
  <2>4. upto(m + 1) = more
    <3>1. /\ upto(m + 1) \in Seq(X) /\ Len(upto(m + 1)) = (N + m) + 1
          /\ \A j \in 1 .. (N + m) + 1 : upto(m + 1)[j] = all[j]
      BY Zenon, <1>2, <2>1
    <3>2. ASSUME NEW j \in 1 .. (N + m) + 1 PROVE upto(m + 1)[j] = more[j]
      <4>1. CASE j = (N + m) + 1
        BY Zenon, <2>1, <2>2, <2>3, <3>1, <4>1
      <4>2. CASE j \in 1 .. N + m
        BY Zenon, <1>2, <2>1, <2>3, <3>1, <4>2
      <4> QED BY Zenon, <2>1, <4>1, <4>2
    <3>3. Len(more) = Len(upto(m + 1)) /\ \A j \in 1 .. Len(more) : more[j] = upto(m + 1)[j]
      BY Zenon, <2>3, <3>1, <3>2
    <3> QED BY Zenon, <2>3, <3>1, <3>3, SeqEqual
  <2>5. Applied(more) = Apply(Applied(upto(m)), x.op, x.parts)
    BY Zenon, <1>2, <2>1, <2>2, AppliedAppend DEF more
  <2>6. x.op \in Ops /\ k # x.parts[1]
    BY Zenon, <2>1 DEF M, x
  <2>7. SameEntries(Apply(Applied(upto(m)), x.op, x.parts), Applied(upto(m)), k)
    BY Zenon, <2>6, ApplyTouchesKey
  <2> QED BY Zenon, <1>4, <2>1, <2>4, <2>5, <2>7 DEF SameEntries
<1>5. M \in P
  <2>1. M \in 0 .. M
    BY <1>1
  <2> HIDE DEF P
  <2> QED BY Zenon, <1>1, <1>3, <1>4, <2>1, Induction
<1>6. upto(M) = all
  BY Zenon, <1>1, SubSeqFull DEF upto
<1> QED BY Zenon, <1>5, <1>6 DEF all

(* The strings and the operations that Set, Del and HSet log. *)
Strings == BitKeys \cup BitFields \cup BitValues

LoggedSets == {[op |-> OpS, parts |-> <<k, v>>] : k \in BitKeys, v \in BitValues}

LoggedDels == {[op |-> OpD, parts |-> <<k>>] : k \in BitKeys}

LoggedHSets ==
  {[op |-> OpH, parts |-> <<k, f, v>>] : k \in BitKeys, f \in BitFields, v \in BitValues}

Logged == LoggedSets \cup LoggedDels \cup LoggedHSets

LogRecord(o) == Record(o.op, o.parts)

(* What they consist of. *)
LEMMA LoggedParts ==
  ASSUME NEW o \in Logged
  PROVE  /\ o.op \in Ops /\ o.op \in Byte
         /\ \/ o.op = OpS /\ Len(o.parts) = 2 /\ o = [op |-> OpS, parts |-> <<o.parts[1], o.parts[2]>>]
            \/ o.op = OpD /\ Len(o.parts) = 1 /\ o = [op |-> OpD, parts |-> <<o.parts[1]>>]
            \/ /\ o.op = OpH /\ Len(o.parts) = 3
               /\ o = [op |-> OpH, parts |-> <<o.parts[1], o.parts[2], o.parts[3]>>]
         /\ o.parts \in Seq(Strings) /\ o.parts \in Seq(Seq(Byte))
         /\ \A i \in 1 .. Len(o.parts) : o.parts[i] \in Seq(Byte) /\ Fits32(Len(o.parts[i]))
<1>1. Strings \subseteq Seq(Byte) /\ \A s \in Strings : Fits32(Len(s))
  BY Zenon, BitcaskAssumption DEF Strings
<1>2. OpS \in Ops /\ OpD \in Ops /\ OpH \in Ops /\ OpS \in Byte /\ OpD \in Byte /\ OpH \in Byte
  BY Zenon, OpsDiffer DEF Ops
<1>3. CASE o \in LoggedSets
  <2>1. PICK k \in BitKeys, v \in BitValues : o = [op |-> OpS, parts |-> <<k, v>>]
    BY <1>3 DEF LoggedSets
  <2>2. o.op = OpS /\ o.parts = <<k, v>> /\ k \in Strings /\ v \in Strings
    BY <2>1 DEF Strings
  <2>3. Len(o.parts) = 2 /\ o.parts[1] = k /\ o.parts[2] = v /\ o.parts \in Seq(Strings)
    BY <2>2
  <2>4. o.parts \in Seq(Seq(Byte)) /\ \A i \in 1 .. Len(o.parts) : o.parts[i] \in Strings
    BY <1>1, <2>3
  <2> QED BY Zenon, <1>1, <1>2, <2>1, <2>2, <2>3, <2>4
<1>4. CASE o \in LoggedDels
  <2>1. PICK k \in BitKeys : o = [op |-> OpD, parts |-> <<k>>]
    BY <1>4 DEF LoggedDels
  <2>2. o.op = OpD /\ o.parts = <<k>> /\ k \in Strings
    BY <2>1 DEF Strings
  <2>3. Len(o.parts) = 1 /\ o.parts[1] = k /\ o.parts \in Seq(Strings)
    BY <2>2
  <2>4. o.parts \in Seq(Seq(Byte)) /\ \A i \in 1 .. Len(o.parts) : o.parts[i] \in Strings
    BY <1>1, <2>3
  <2> QED BY Zenon, <1>1, <1>2, <2>1, <2>2, <2>3, <2>4
<1>5. CASE o \in LoggedHSets
  <2>1. PICK k \in BitKeys, f \in BitFields, v \in BitValues : o = [op |-> OpH, parts |-> <<k, f, v>>]
    BY <1>5 DEF LoggedHSets
  <2>2. o.op = OpH /\ o.parts = <<k, f, v>> /\ k \in Strings /\ f \in Strings /\ v \in Strings
    BY <2>1 DEF Strings
  <2>3. Len(o.parts) = 3 /\ o.parts[1] = k /\ o.parts[2] = f /\ o.parts[3] = v /\ o.parts \in Seq(Strings)
    BY <2>2
  <2>4. o.parts \in Seq(Seq(Byte)) /\ \A i \in 1 .. Len(o.parts) : o.parts[i] \in Strings
    BY <1>1, <2>3
  <2> QED BY Zenon, <1>1, <1>2, <2>1, <2>2, <2>3, <2>4
<1> QED BY Zenon, <1>3, <1>4, <1>5 DEF Logged

(* writeOp lays out the operation byte and then the strings, each after    *)
(* its length.                                                             *)
LEMMA RecordLayout ==
  ASSUME NEW o \in Logged
  PROVE  /\ LogRecord(o) \in Seq(Byte) /\ LogRecord(o)[1] = o.op
         /\ \E at \in [0 .. Len(o.parts) -> Nat] : at[0] = 1 /\ ArgsLaid(LogRecord(o), o.parts, at)
<1> DEFINE h == <<o.op>>
           ps == o.parts
           R == LogRecord(o)
<1>1. o.op \in Byte /\ ps \in Seq(Seq(Byte))
  BY Zenon, LoggedParts
<1>2. h \in Seq(Byte) /\ Len(h) = 1 /\ h[1] = o.op
  BY <1>1
<1>3. R = h \o AppendAll([i \in DOMAIN ps |-> MarshalArg(ps[i])])
  BY Zenon DEF LogRecord, Record, Field, MarshalArg
<1> HIDE DEF h, ps, R
<1>4. R \in Seq(Byte) /\ Text(R, 0, h) /\ \E at \in [0 .. Len(ps) -> Nat] : at[0] = Len(h) /\ ArgsLaid(R, ps, at)
  BY Zenon, <1>1, <1>2, <1>3, ArgsLayout
<1>5. R[1] = o.op
  <2>1. 1 \in 1 .. 1 /\ 0 + 1 = 1
    OBVIOUS
  <2> QED BY Zenon, <1>2, <1>4, <2>1 DEF Text
<1> QED BY Zenon, <1>2, <1>4, <1>5 DEF R, ps

(* Where the file holds a record, recover finds its operation, and goes on *)
(* after it.                                                               *)
LEMMA EntryOfRecord ==
  ASSUME NEW d \in Seq(Byte), NEW p \in Nat, NEW o \in Logged,
         Text(d, p, LogRecord(o)), p + Len(LogRecord(o)) <= Len(d)
  PROVE  /\ p \in 0 .. Len(d) /\ p # Len(d) /\ d[p + 1] \in Ops
         /\ Entry(d, p) = o /\ EntryEnd(d, p) = p + Len(LogRecord(o))
         /\ p + Len(LogRecord(o)) \in 0 .. Len(d)
<1> DEFINE R == LogRecord(o)
           ps == o.parts
           c == Len(o.parts)
           L == Len(d)
<1>1. R \in Seq(Byte) /\ Len(R) \in Nat /\ R[1] = o.op /\ c \in Nat /\ c >= 1 /\ L \in Nat
  <2>1. R \in Seq(Byte) /\ R[1] = o.op /\ Len(R) \in Nat /\ L \in Nat
    BY Zenon, RecordLayout, LenProperties
  <2>2. c = 1 \/ c = 2 \/ c = 3
    BY Zenon, LoggedParts
  <2> HIDE DEF R, c, L
  <2> QED BY <2>1, <2>2
<1>2. PICK at \in [0 .. c -> Nat] : at[0] = 1 /\ ArgsLaid(R, ps, at)
  BY Zenon, RecordLayout
<1>3. Text(d, p, R) /\ p + Len(R) <= L
  OBVIOUS
<1> HIDE DEF R, ps, c, L
<1>4. \A i \in 1 .. c : ps[i] \in Seq(Byte) /\ Len(ps[i]) \in Nat /\ Fits32(Len(ps[i]))
  BY Zenon, LoggedParts, LenProperties DEF ps, c
<1>5. /\ at[c] = Len(R)
      /\ \A i \in 1 .. c : /\ at[i] = at[i - 1] + 4 + Len(ps[i])
                           /\ Head32(R, at[i - 1], Len(ps[i])) /\ Text(R, at[i - 1] + 4, ps[i])
  BY Zenon, <1>2 DEF ArgsLaid, ps, c
<1>6. \A k \in 0 .. c : \A i \in 0 .. k : at[i] <= at[k]
  <2>1. ASSUME NEW i \in 1 .. c PROVE at[i - 1] <= at[i]
    <3>1. i - 1 \in 0 .. c /\ at[i - 1] \in Nat
      BY <1>1
    <3>2. at[i] = at[i - 1] + 4 + Len(ps[i]) /\ Len(ps[i]) \in Nat
      BY Zenon, <1>4, <1>5
    <3> QED BY <3>1, <3>2
  <2>2. at \in [0 .. c -> Int]
    BY <1>1
  <2> QED BY Zenon, <1>1, <2>1, <2>2, Monotone
<1>7. ASSUME NEW i \in 1 .. c
      PROVE  ReadStringAt(d, p + at[i - 1]) = [str |-> ps[i], pos |-> p + at[i]]
  <2> DEFINE t == ps[i]
             a == at[i - 1]
             l == Len(t)
             q == p + a
  <2>1. i - 1 \in 0 .. c /\ i \in 0 .. c /\ c \in 0 .. c
    BY <1>1
  <2>2. a \in Nat /\ at[i] \in Nat /\ l \in Nat /\ t \in Seq(Byte) /\ Fits32(l)
    BY Zenon, <1>4, <2>1
  <2>3. at[i] = a + 4 + l /\ Head32(R, a, l) /\ Text(R, a + 4, t)
    BY Zenon, <1>5
  <2>4. at[i] <= Len(R)
    BY Zenon, <1>5, <1>6, <2>1
  <2> HIDE DEF a, t, l
  <2>5. \A j \in 1 .. 4 : a + j \in 1 .. Len(R) /\ p + (a + j) = q + j
    BY <1>1, <2>2, <2>3, <2>4
  <2>6. \A j \in 1 .. l : (a + 4) + j \in 1 .. Len(R) /\ p + ((a + 4) + j) = (q + 4) + j
    BY <1>1, <2>2, <2>3, <2>4
  <2>7. q \in Nat /\ q + 4 + l <= L /\ q + 4 + l = p + at[i]
    BY <1>1, <1>3, <2>2, <2>3, <2>4
  <2> HIDE DEF q
  <2>8. Head32(d, q, l)
    BY Zenon, <1>3, <2>3, <2>5 DEF Head32, Text
  <2>9. Text(d, q + 4, t)
    <3>1. ASSUME NEW j \in 1 .. l PROVE d[(q + 4) + j] = t[j]
      <4>1. R[(a + 4) + j] = t[j]
        BY Zenon, <2>3 DEF Text, l
      <4>2. d[p + ((a + 4) + j)] = R[(a + 4) + j]
        BY Zenon, <1>3, <2>6 DEF Text
      <4> QED BY Zenon, <2>6, <4>1, <4>2
    <3> QED BY Zenon, <3>1 DEF Text, l
  <2>10. ReadStringAt(d, q) = [str |-> t, pos |-> q + 4 + l]
    BY Zenon, <2>2, <2>7, <2>8, <2>9, ReadWhole DEF l, L
  <2> QED BY Zenon, <2>7, <2>10 DEF q, t, a
<1>8. Len(R) >= 1
  <2>1. 0 \in 0 .. c /\ c \in 0 .. c
    BY <1>1
  <2>2. at[0] <= Len(R)
    BY Zenon, <1>5, <1>6, <2>1
  <2> QED BY <1>1, <1>2, <2>2
<1>9. p \in 0 .. L /\ p # L /\ p + Len(R) \in 0 .. L
  BY <1>1, <1>3, <1>8
<1>10. d[p + 1] = o.op
  <2>1. 1 \in 1 .. Len(R)
    BY <1>1, <1>8
  <2> QED BY Zenon, <1>1, <1>3, <2>1 DEF Text
<1> DEFINE a == ReadStringAt(d, p + 1)
           b == ReadStringAt(d, a.pos)
           e == ReadStringAt(d, b.pos)
<1>11. a.str = ps[1] /\ a.pos = p + at[1]
  <2>1. 1 \in 1 .. c /\ 1 - 1 = 0
    BY <1>1
  <2>2. a = [str |-> ps[1], pos |-> p + at[1]]
    BY Zenon, <1>2, <1>7, <2>1
  <2> QED BY <2>2
<1>12. c >= 2 => b.str = ps[2] /\ b.pos = p + at[2]
  <2> SUFFICES ASSUME c >= 2 PROVE b.str = ps[2] /\ b.pos = p + at[2]
    OBVIOUS
  <2>1. 2 \in 1 .. c /\ 2 - 1 = 1
    BY <1>1
  <2>2. b = [str |-> ps[2], pos |-> p + at[2]]
    BY Zenon, <1>7, <1>11, <2>1
  <2> QED BY <2>2
<1>13. c >= 3 => e.str = ps[3] /\ e.pos = p + at[3]
  <2> SUFFICES ASSUME c >= 3 PROVE e.str = ps[3] /\ e.pos = p + at[3]
    OBVIOUS
  <2>1. 3 \in 1 .. c /\ 3 - 1 = 2 /\ c >= 2
    BY <1>1
  <2>2. e = [str |-> ps[3], pos |-> p + at[3]]
    BY Zenon, <1>7, <1>12, <2>1
  <2> QED BY <2>2
<1>14. Entry(d, p) = o /\ EntryEnd(d, p) = p + Len(R)
  <2>1. CASE o.op = OpS /\ c = 2 /\ o = [op |-> OpS, parts |-> <<ps[1], ps[2]>>]
    <3>1. Entry(d, p) = [op |-> OpS, parts |-> <<a.str, b.str>>] /\ EntryEnd(d, p) = b.pos
      BY Zenon, <1>10, <2>1, OpsDiffer DEF Entry, EntryEnd
    <3>2. 2 >= 2
      OBVIOUS
    <3> HIDE DEF a, b
    <3> QED BY Zenon, <1>5, <1>11, <1>12, <2>1, <3>1, <3>2
  <2>2. CASE o.op = OpD /\ c = 1 /\ o = [op |-> OpD, parts |-> <<ps[1]>>]
    <3>1. Entry(d, p) = [op |-> OpD, parts |-> <<a.str>>] /\ EntryEnd(d, p) = a.pos
      BY Zenon, <1>10, <2>2, OpsDiffer DEF Entry, EntryEnd
    <3> HIDE DEF a
    <3> QED BY Zenon, <1>5, <1>11, <2>2, <3>1
  <2>3. CASE o.op = OpH /\ c = 3 /\ o = [op |-> OpH, parts |-> <<ps[1], ps[2], ps[3]>>]
    <3>1. Entry(d, p) = [op |-> OpH, parts |-> <<a.str, b.str, e.str>>] /\ EntryEnd(d, p) = e.pos
      BY Zenon, <1>10, <2>3, OpsDiffer DEF Entry, EntryEnd
    <3>2. 3 >= 2 /\ 3 >= 3
      OBVIOUS
    <3> HIDE DEF a, b, e
    <3> QED BY Zenon, <1>5, <1>11, <1>12, <1>13, <2>3, <3>1, <3>2
  <2> QED BY Zenon, <2>1, <2>2, <2>3, LoggedParts DEF ps, c
<1> QED BY Zenon, <1>9, <1>10, <1>14, LoggedParts DEF R, L

(* The file d holds the records of ops after the magic; the i-th ends at   *)
(* e[i].                                                                   *)
RecordsIn(d, ops, e) ==
  /\ e[0] = Len(Magic) /\ Len(Magic) <= Len(d)
  /\ \A i \in 1 .. Len(ops) :
       /\ e[i] = e[i - 1] + Len(LogRecord(ops[i])) /\ e[i] <= Len(d)
       /\ Text(d, e[i - 1], LogRecord(ops[i]))

(* Three sequences joined the one way or the other. *)
Glued(st, s, t) == st = s \o t

(* They are the same sequence. *)
LEMMA Regroup ==
  ASSUME NEW X, NEW s \in Seq(X), NEW t \in Seq(X), NEW u \in Seq(X),
         NEW st, NEW tu, NEW all, Glued(st, s, t), Glued(tu, t, u), Glued(all, s, tu)
  PROVE  Glued(all, st, u)
<1>1. (s \o t) \o u = s \o (t \o u)
  BY ConcatAssociative
<1> QED BY Zenon, <1>1 DEF Glued

(* Then recover finds those operations and goes on after them. *)
LEMMA RecordsAreFound ==
  ASSUME NEW d \in Seq(Byte), NEW ops \in Seq(Logged), NEW e \in [0 .. Len(ops) -> Nat],
         RecordsIn(d, ops, e)
  PROVE  /\ Operations(d)[Len(Magic)] = ops \o Operations(d)[e[Len(ops)]]
         /\ e[Len(ops)] \in 0 .. Len(d)
<1> DEFINE N == Len(ops)
           L == Len(d)
           O == Operations(d)
           X == Logged \cup Entries(d)
           P == {k \in 0 .. N : e[k] \in 0 .. L /\ O[Len(Magic)] = SubSeq(ops, 1, k) \o O[e[k]]}
<1>1. N \in Nat /\ L \in Nat /\ e \in [0 .. N -> Nat] /\ \A i \in 1 .. N : ops[i] \in Logged
  BY Zenon, LenProperties, ElementOfSeq
<1>2. ops \in Seq(X) /\ \A pos \in 0 .. L : O[pos] \in Seq(X)
  <2>1. Logged \subseteq X /\ Entries(d) \subseteq X
    BY Zenon
  <2>2. \A pos \in 0 .. L : O[pos] \in Seq(Entries(d))
    BY Zenon, OperationsLoop
  <2> HIDE DEF X, O
  <2>3. \A A, B : A \subseteq B => Seq(A) \subseteq Seq(B)
    OBVIOUS
  <2> QED BY Zenon, <2>1, <2>2, <2>3
<1>3. \A pos \in 0 .. L : O[pos] = OperationsRound(d, O, pos)
  BY Zenon, OperationsLoop
<1>4. /\ e[0] = Len(Magic) /\ Len(Magic) <= L
      /\ \A i \in 1 .. N : /\ e[i] = e[i - 1] + Len(LogRecord(ops[i])) /\ e[i] <= L
                           /\ Text(d, e[i - 1], LogRecord(ops[i]))
  BY Zenon DEF RecordsIn
<1> HIDE DEF N, L, O, X
<1>5. 0 \in P
  <2>1. 0 \in 0 .. N /\ SubSeq(ops, 1, 0) = <<>>
    BY <1>1, SubSeqEmpty
  <2>2. e[0] \in 0 .. L
    <3>1. e[0] \in Nat
      BY Zenon, <1>1, <2>1
    <3> QED BY <1>1, <1>4, <3>1
  <2>3. <<>> \o O[e[0]] = O[e[0]]
    BY Zenon, <1>2, <2>2, ConcatEmptySeq
  <2> QED BY Zenon, <1>4, <2>1, <2>2, <2>3
<1>6. ASSUME NEW k \in 0 .. N - 1, k \in P PROVE k + 1 \in P
  <2> DEFINE p == e[k]
             o == ops[k + 1]
             r == e[k + 1]
             s == SubSeq(ops, 1, k)
  <2>1. k + 1 \in 1 .. N /\ (k + 1) - 1 = k /\ k + 1 \in 0 .. N /\ k \in 0 .. N
    BY <1>1
  <2>2. p \in Nat /\ r \in Nat /\ o \in Logged /\ p \in 0 .. L /\ O[Len(Magic)] = s \o O[p]
    BY Zenon, <1>1, <1>6, <2>1
  <2>3. r = p + Len(LogRecord(o)) /\ r <= L /\ Text(d, p, LogRecord(o))
    BY Zenon, <1>4, <2>1
  <2>4. SubSeq(ops, 1, k + 1) = s \o <<o>>
    <3>1. 1 \in 1 .. Len(ops) /\ k + 1 \in 1 .. Len(ops)
      BY <1>1, <2>1 DEF N
    <3> QED BY Zenon, <2>1, <3>1, SubSeqRecursiveSecond
  <2>5. s \in Seq(X)
    BY Zenon, <1>2, <2>1, Prefix DEF N
  <2> HIDE DEF p, o, r, s
  <2>6. /\ p # L /\ d[p + 1] \in Ops /\ Entry(d, p) = o /\ EntryEnd(d, p) = r /\ r \in 0 .. L
    BY Zenon, <2>2, <2>3, EntryOfRecord DEF L
  <2>7. O[p] = <<o>> \o O[r]
    BY Zenon, <1>3, <2>2, <2>6 DEF OperationsRound, L
  <2>8. O[r] \in Seq(X) /\ <<o>> \in Seq(X)
    <3>1. o \in X
      BY Zenon, <2>2 DEF X
    <3>2. <<o>> \in Seq(X)
      BY <3>1
    <3> QED BY Zenon, <1>2, <2>6, <3>2
  <2>9. Glued(SubSeq(ops, 1, k + 1), s, <<o>>) /\ Glued(O[p], <<o>>, O[r]) /\ Glued(O[Len(Magic)], s, O[p])
    BY Zenon, <2>2, <2>4, <2>7 DEF Glued, s
  <2>10. Glued(O[Len(Magic)], SubSeq(ops, 1, k + 1), O[r])
    <3> DEFINE st == SubSeq(ops, 1, k + 1)
               u == O[r]
               tu == O[p]
               t == <<o>>
               all == O[Len(Magic)]
    <3>1. /\ s \in Seq(X) /\ t \in Seq(X) /\ u \in Seq(X)
          /\ Glued(st, s, t) /\ Glued(tu, t, u) /\ Glued(all, s, tu)
      BY Zenon, <2>5, <2>8, <2>9
    <3> HIDE DEF st, u, tu, t, all
    <3>2. Glued(all, st, u)
      BY <3>1, Regroup
    <3> QED BY Zenon, <3>2 DEF all, st, u
  <2> QED BY Zenon, <2>1, <2>6, <2>10 DEF r, Glued
<1>7. N \in P
  <2>1. N \in 0 .. N
    BY <1>1
  <2> HIDE DEF P
  <2> QED BY Zenon, <1>1, <1>5, <1>6, <2>1, Induction
<1>8. SubSeq(ops, 1, N) = ops
  BY Zenon, SubSeqFull DEF N
<1> QED BY Zenon, <1>7, <1>8 DEF N, L, O

(* The inductive invariant: the file is the magic and the records of some  *)
(* operations, the maps are what those operations leave, and last          *)
(* describes the last of them.                                             *)
LastIs(ops) ==
  IF ops = <<>> THEN last.len = 0
  ELSE /\ last.len = Len(LogRecord(ops[Len(ops)]))
       /\ last.mem = Applied(SubSeq(ops, 1, Len(ops) - 1))

FileIsRecords ==
  /\ file \in Seq(Byte) /\ Text(file, 0, Magic)
  /\ \E ops \in Seq(Logged) :
       /\ \E e \in [0 .. Len(ops) -> Nat] : RecordsIn(file, ops, e) /\ e[Len(ops)] = Len(file)
       /\ records = Len(ops) /\ mem = Applied(ops) /\ LastIs(ops)

(* recover finds all the records of such a file. *)
LEMMA FileIsFound ==
  ASSUME file \in Seq(Byte), NEW ops \in Seq(Logged), NEW e \in [0 .. Len(ops) -> Nat],
         RecordsIn(file, ops, e), e[Len(ops)] = Len(file)
  PROVE  Recover(file) = Applied(ops)
<1>1. Operations(file)[Len(Magic)] = ops \o Operations(file)[Len(file)]
  BY Zenon, RecordsAreFound
<1>2. Operations(file)[Len(file)] = <<>>
  <2>1. Len(file) \in 0 .. Len(file)
    OBVIOUS
  <2> QED BY Zenon, <2>1, OperationsLoop DEF OperationsRound
<1>3. ops \o <<>> = ops
  BY Zenon, ConcatEmptySeq
<1> QED BY Zenon, <1>1, <1>2, <1>3 DEF Recover
(* A write appends a record. *)
LEMMA WriteKeepsRecords ==
  ASSUME FileIsRecords, NEW o \in Logged, WriteOp(o.op, o.parts)
  PROVE  FileIsRecords'
<1>1. PICK ops \in Seq(Logged) :
        /\ \E e \in [0 .. Len(ops) -> Nat] : RecordsIn(file, ops, e) /\ e[Len(ops)] = Len(file)
        /\ records = Len(ops) /\ mem = Applied(ops) /\ LastIs(ops)
  BY Zenon DEF FileIsRecords
<1> DEFINE N == Len(ops)
           R == LogRecord(o)
           more == Append(ops, o)
           L == Len(file)
           l == Len(R)
           d == file'
<1>2. PICK e \in [0 .. N -> Nat] : RecordsIn(file, ops, e) /\ e[N] = L
  BY Zenon, <1>1
<1>3. /\ N \in Nat /\ L \in Nat /\ R \in Seq(Byte) /\ l \in Nat /\ file \in Seq(Byte) /\ Text(file, 0, Magic)
      /\ Magic \in Seq(Byte) /\ Len(Magic) \in Nat
  BY Zenon, RecordLayout, LenProperties, BitcaskAssumption DEF FileIsRecords
<1>4. /\ more \in Seq(Logged) /\ Len(more) = N + 1 /\ more[N + 1] = o
      /\ \A i \in 1 .. N : more[i] = ops[i]
  OBVIOUS
<1>5. /\ mem' = Apply(mem, o.op, o.parts) /\ d = file \o R /\ records' = records + 1
      /\ last' = [len |-> l, mem |-> mem]
  BY Zenon DEF WriteOp, LogRecord
<1>6. /\ e[0] = Len(Magic) /\ Len(Magic) <= L
      /\ \A i \in 1 .. N : /\ e[i] = e[i - 1] + Len(LogRecord(ops[i])) /\ e[i] <= L
                           /\ Text(file, e[i - 1], LogRecord(ops[i]))
  BY Zenon, <1>2 DEF RecordsIn
<1> HIDE DEF N, R, more, L, l, d
<1>7. Joined(d, file, L, R, l)
  BY Zenon, <1>3, <1>5, Concat DEF L, l
<1>8. d \in Seq(Byte) /\ Len(d) = L + l /\ (\A j \in 1 .. L : d[j] = file[j]) /\ \A j \in 1 .. l : d[L + j] = R[j]
  BY Zenon, <1>7 DEF Joined
<1>9. Text(d, 0, Magic)
  <2>1. \A j \in 1 .. Len(Magic) : 0 + j \in 1 .. L
    BY <1>3, <1>6
  <2> QED BY Zenon, <1>3, <1>8, <2>1 DEF Text
<1> DEFINE e2 == [i \in 0 .. N + 1 |-> IF i = N + 1 THEN L + l ELSE e[i]]
<1>10. e2 \in [0 .. N + 1 -> Nat] /\ e2[N + 1] = L + l /\ \A i \in 0 .. N : e2[i] = e[i]
  BY <1>3
<1> HIDE DEF e2
<1>11. ASSUME NEW i \in 1 .. N + 1
       PROVE  /\ e2[i] = e2[i - 1] + Len(LogRecord(more[i])) /\ e2[i] <= L + l
              /\ Text(d, e2[i - 1], LogRecord(more[i]))
  <2>1. CASE i = N + 1
    <3>1. i - 1 = N /\ N \in 0 .. N /\ L + l <= L + l
      BY <1>3, <2>1
    <3>2. e2[i - 1] = L /\ LogRecord(more[i]) = R
      BY Zenon, <1>2, <1>4, <1>10, <2>1, <3>1 DEF R
    <3>3. Text(d, L, R)
      BY Zenon, <1>8 DEF Text, l
    <3> QED BY Zenon, <1>10, <2>1, <3>1, <3>2, <3>3 DEF l
  <2>2. CASE i # N + 1
    <3> DEFINE Ri == LogRecord(ops[i])
               a == e[i - 1]
    <3>1. i \in 1 .. N /\ i \in 0 .. N /\ i - 1 \in 0 .. N
      BY <1>3, <2>2
    <3>2. e2[i] = e[i] /\ e2[i - 1] = a /\ LogRecord(more[i]) = Ri
      BY Zenon, <1>4, <1>10, <3>1
    <3>3. e[i] = a + Len(Ri) /\ e[i] <= L /\ Text(file, a, Ri)
      BY Zenon, <1>6, <3>1
    <3>4. a \in Nat /\ e[i] \in Nat
      BY Zenon, <1>2, <3>1
    <3>5. Len(Ri) \in Nat
      <4>1. ops[i] \in Logged
        BY Zenon, <3>1, ElementOfSeq DEF N
      <4> QED BY Zenon, <4>1, RecordLayout, LenProperties
    <3> HIDE DEF Ri, a
    <3>6. \A j \in 1 .. Len(Ri) : a + j \in 1 .. L
      BY <1>3, <3>3, <3>4, <3>5
    <3>7. Text(d, a, Ri)
      BY Zenon, <1>8, <3>3, <3>6 DEF Text
    <3>8. e[i] <= L + l
      BY <1>3, <3>3, <3>4
    <3> QED BY Zenon, <3>2, <3>3, <3>7, <3>8
  <2> QED BY Zenon, <2>1, <2>2
<1>12. RecordsIn(d, more, e2)
  <2>1. 0 \in 0 .. N /\ Len(Magic) <= L + l
    BY <1>3, <1>6
  <2> QED BY Zenon, <1>4, <1>6, <1>8, <1>10, <1>11, <2>1 DEF RecordsIn
<1>13. mem' = Applied(more)
  BY Zenon, <1>1, <1>5, AppliedAppend DEF more
<1>14. LastIs(more)'
  <2>1. more # <<>>
    BY <1>3, <1>4
  <2>2. last'.len = l /\ last'.mem = mem
    BY <1>5
  <2>3. SubSeq(more, 1, N) = ops /\ (N + 1) - 1 = N
    BY <1>3, <1>4 DEF N
  <2> QED BY Zenon, <1>1, <1>4, <2>1, <2>2, <2>3 DEF LastIs, l, R
<1>15. records' = Len(more)
  BY Zenon, <1>1, <1>4, <1>5 DEF N
<1>16. (\E e3 \in [0 .. Len(more) -> Nat] : RecordsIn(d, more, e3) /\ e3[Len(more)] = Len(d))
  BY Zenon, <1>4, <1>8, <1>10, <1>12
<1> QED BY Zenon, <1>4, <1>8, <1>9, <1>13, <1>14, <1>15, <1>16 DEF FileIsRecords, d

(* Every record that is ever written stays in the file, whole and in the   *)
(* order of the calls, and memory is what the records say: writes, and     *)
(* starts on the file at any point, keep the file and the maps together.   *)
THEOREM RecordsInvariant == BitcaskSpec => []FileIsRecords
<1>1. BitcaskInit => FileIsRecords
  <2> SUFFICES ASSUME BitcaskInit PROVE FileIsRecords
    OBVIOUS
  <2> DEFINE e == [i \in 0 .. 0 |-> Len(Magic)]
  <2>1. file = Magic /\ mem = NoEntries /\ records = 0 /\ last.len = 0
    BY DEF BitcaskInit
  <2>2. Magic \in Seq(Byte) /\ Len(Magic) \in Nat
    BY Zenon, BitcaskAssumption, LenProperties
  <2>3. Text(Magic, 0, Magic) /\ Len(Magic) <= Len(Magic)
    BY <2>2 DEF Text
  <2>4. e \in [0 .. 0 -> Nat] /\ e[0] = Len(Magic)
    BY <2>2
  <2>5. <<>> \in Seq(Logged) /\ Len(<<>>) = 0 /\ \A i \in 1 .. 0 : FALSE
    OBVIOUS
  <2> HIDE DEF e
  <2>6. RecordsIn(Magic, <<>>, e)
    BY Zenon, <2>3, <2>4, <2>5 DEF RecordsIn
  <2>7. \E f \in [0 .. Len(<<>>) -> Nat] : RecordsIn(file, <<>>, f) /\ f[Len(<<>>)] = Len(file)
    BY Zenon, <2>1, <2>4, <2>5, <2>6
  <2>8. LastIs(<<>>)
    BY Zenon, <2>1 DEF LastIs
  <2>9. \E ops \in Seq(Logged) :
       /\ \E f \in [0 .. Len(ops) -> Nat] : RecordsIn(file, ops, f) /\ f[Len(ops)] = Len(file)
       /\ records = Len(ops) /\ mem = Applied(ops) /\ LastIs(ops)
    BY Zenon, <2>1, <2>5, <2>7, <2>8, AppliedEmpty
  <2> QED BY Zenon, <2>1, <2>2, <2>3, <2>9 DEF FileIsRecords
<1>2. FileIsRecords /\ [BitcaskNext]_bitcaskVars => FileIsRecords'
  <2> SUFFICES ASSUME FileIsRecords, [BitcaskNext]_bitcaskVars PROVE FileIsRecords'
    OBVIOUS
  <2>1. ASSUME NEW k \in BitKeys, NEW v \in BitValues, BitcaskSet(k, v) PROVE FileIsRecords'
    <3> DEFINE o == [op |-> OpS, parts |-> <<k, v>>]
    <3>1. o \in Logged /\ o.op = OpS /\ o.parts = <<k, v>>
      BY DEF Logged, LoggedSets
    <3> HIDE DEF o
    <3>2. WriteOp(o.op, o.parts)
      BY Zenon, <2>1, <3>1 DEF BitcaskSet
    <3> QED BY Zenon, <3>1, <3>2, WriteKeepsRecords
  <2>2. ASSUME NEW k \in BitKeys, BitcaskDel(k) PROVE FileIsRecords'
    <3> DEFINE o == [op |-> OpD, parts |-> <<k>>]
    <3>1. o \in Logged /\ o.op = OpD /\ o.parts = <<k>>
      BY DEF Logged, LoggedDels
    <3> HIDE DEF o
    <3>2. WriteOp(o.op, o.parts)
      BY Zenon, <2>2, <3>1 DEF BitcaskDel
    <3> QED BY Zenon, <3>1, <3>2, WriteKeepsRecords
  <2>3. ASSUME NEW k \in BitKeys, NEW f \in BitFields, NEW v \in BitValues, BitcaskHSet(k, f, v)
        PROVE  FileIsRecords'
    <3> DEFINE o == [op |-> OpH, parts |-> <<k, f, v>>]
    <3>1. o \in Logged /\ o.op = OpH /\ o.parts = <<k, f, v>>
      BY DEF Logged, LoggedHSets
    <3> HIDE DEF o
    <3>2. WriteOp(o.op, o.parts)
      BY Zenon, <2>3, <3>1 DEF BitcaskHSet
    <3> QED BY Zenon, <3>1, <3>2, WriteKeepsRecords
  <2>4. CASE Reopen
    <3>1. mem' = Recover(file) /\ file' = file /\ records' = records /\ last' = last
      BY Zenon, <2>4 DEF Reopen
    <3>2. PICK ops \in Seq(Logged) :
            /\ \E e \in [0 .. Len(ops) -> Nat] : RecordsIn(file, ops, e) /\ e[Len(ops)] = Len(file)
            /\ records = Len(ops) /\ mem = Applied(ops) /\ LastIs(ops)
      BY Zenon DEF FileIsRecords
    <3>3. mem' = mem
      BY Zenon, <3>1, <3>2, FileIsFound DEF FileIsRecords
    <3> QED BY Zenon, <3>1, <3>3 DEF FileIsRecords, LastIs
  <2>5. CASE UNCHANGED bitcaskVars
    BY Zenon, <2>5 DEF FileIsRecords, LastIs, bitcaskVars
  <2> QED BY Zenon, <2>1, <2>2, <2>3, <2>4, <2>5 DEF BitcaskNext
<1> QED BY <1>1, <1>2, PTL DEF BitcaskSpec

(* Recovery is exact: at any point, a start on the file gives the maps     *)
(* that the process has.                                                   *)
THEOREM RecoverGivesMemory == BitcaskSpec => []RecoverIsMemory
<1>1. FileIsRecords => RecoverIsMemory
  BY Zenon, FileIsFound DEF FileIsRecords, RecoverIsMemory
<1> QED BY <1>1, RecordsInvariant, PTL

(* A torn last record: however much of it the file has lost, a start       *)
(* leaves a key as it was before that record, unless what is left of the   *)
(* record spells an operation on the key or the key is empty.              *)
THEOREM CutsLoseLastOnly == BitcaskSpec => []CutLosesLastOnly
<1>1. ASSUME FileIsRecords, NEW n \in 1 .. last.len, NEW k \in BitKeys \ {<<>>},
             ~Spells(SubSeq(file, Len(file) - last.len + 1, Len(file) - n), k)
      PROVE  SameEntries(Recover(SubSeq(file, 1, Len(file) - n)), last.mem, k)
  <2>1. PICK ops \in Seq(Logged) :
          /\ \E e \in [0 .. Len(ops) -> Nat] : RecordsIn(file, ops, e) /\ e[Len(ops)] = Len(file)
          /\ LastIs(ops)
    BY Zenon, <1>1 DEF FileIsRecords
  <2> DEFINE N == Len(ops)
             L == Len(file)
             M == L - n
             d == SubSeq(file, 1, M)
             o == ops[N]
             R == LogRecord(o)
             l == Len(R)
             pre == SubSeq(ops, 1, N - 1)
  <2>2. PICK e \in [0 .. N -> Nat] : RecordsIn(file, ops, e) /\ e[N] = L
    BY Zenon, <2>1
  <2>3. N \in Nat /\ L \in Nat /\ file \in Seq(Byte) /\ \A i \in 1 .. N : ops[i] \in Logged
    BY Zenon, <1>1, LenProperties, ElementOfSeq DEF FileIsRecords
  <2>4. ops # <<>>
    <3>1. ASSUME ops = <<>> PROVE FALSE
      <4>1. last.len = 0
        BY Zenon, <2>1, <3>1 DEF LastIs
      <4> QED BY <4>1
    <3> QED BY <3>1
  <2>5. N >= 1 /\ N \in 1 .. N /\ N - 1 \in 0 .. N /\ N - 1 \in Nat
    BY <2>3, <2>4
  <2>6. last.len = l /\ last.mem = Applied(pre)
    BY Zenon, <2>1, <2>4 DEF LastIs
  <2>7. o \in Logged /\ R \in Seq(Byte) /\ l \in Nat
    BY Zenon, <2>3, <2>5, RecordLayout, LenProperties
  <2>8. pre \in Seq(Logged) /\ Len(pre) = N - 1 /\ \A i \in 1 .. N - 1 : pre[i] = ops[i]
    BY Zenon, <2>5, Prefix
  <2> DEFINE p == e[N - 1]
  <2>9. /\ e[0] = Len(Magic) /\ Len(Magic) <= L
        /\ \A i \in 1 .. N : /\ e[i] = e[i - 1] + Len(LogRecord(ops[i])) /\ e[i] <= L
                             /\ Text(file, e[i - 1], LogRecord(ops[i]))
    BY Zenon, <2>2 DEF RecordsIn
  <2>10. L = p + l /\ Text(file, p, R) /\ p \in Nat /\ n \in 1 .. l
    BY Zenon, <2>2, <2>5, <2>6, <2>9
  <2>11. M \in p .. L /\ M \in 0 .. L /\ M < p + l
    <3> HIDE DEF L, p, l
    <3> QED BY <2>3, <2>7, <2>10
  <2>12. d \in Seq(Byte) /\ Len(d) = M /\ \A j \in 1 .. M : d[j] = file[j]
    BY Zenon, <2>3, <2>11, Prefix
  <2> HIDE DEF N, L, M, d, o, R, l, pre, p
  <2>13. \A i \in 0 .. N - 1 : e[i] <= p
    <3>1. ASSUME NEW i \in 1 .. N PROVE e[i - 1] <= e[i]
      <4>1. i - 1 \in 0 .. N /\ e[i - 1] \in Nat
        BY <2>3
      <4>2. e[i] = e[i - 1] + Len(LogRecord(ops[i]))
        BY Zenon, <2>9
      <4>3. Len(LogRecord(ops[i])) \in Nat
        BY Zenon, <2>3, RecordLayout, LenProperties
      <4> QED BY <4>1, <4>2, <4>3
    <3>2. e \in [0 .. N -> Int]
      BY <2>3
    <3>3. \A m \in 0 .. N : \A i \in 0 .. m : e[i] <= e[m]
      BY Zenon, <2>3, <3>1, <3>2, Monotone
    <3> QED BY Zenon, <2>5, <3>3 DEF p
  <2> DEFINE e2 == [i \in 0 .. N - 1 |-> e[i]]
  <2>14. e2 \in [0 .. N - 1 -> Nat] /\ e2[N - 1] = p /\ \A i \in 0 .. N - 1 : e2[i] = e[i]
    BY <2>3, <2>5 DEF p
  <2> HIDE DEF e2
  <2>15. ASSUME NEW i \in 1 .. N - 1
         PROVE  /\ e2[i] = e2[i - 1] + Len(LogRecord(pre[i])) /\ e2[i] <= M
                /\ Text(d, e2[i - 1], LogRecord(pre[i]))
    <3> DEFINE Ri == LogRecord(ops[i])
               a == e[i - 1]
    <3>1. i \in 1 .. N /\ i \in 0 .. N - 1 /\ i - 1 \in 0 .. N - 1 /\ i \in 0 .. N /\ i - 1 \in 0 .. N
      BY <2>5
    <3>2. e2[i] = e[i] /\ e2[i - 1] = a /\ LogRecord(pre[i]) = Ri
      BY Zenon, <2>8, <2>14, <3>1
    <3>3. e[i] = a + Len(Ri) /\ Text(file, a, Ri) /\ e[i] <= p
      BY Zenon, <2>9, <2>13, <3>1
    <3>4. a \in Nat /\ e[i] \in Nat /\ Len(Ri) \in Nat
      BY Zenon, <2>2, <2>3, <3>1, RecordLayout, LenProperties
    <3> HIDE DEF Ri, a
    <3>5. e[i] <= M /\ \A j \in 1 .. Len(Ri) : a + j \in 1 .. M
      BY <2>3, <2>10, <2>11, <3>3, <3>4
    <3>6. Text(d, a, Ri)
      BY Zenon, <2>12, <3>3, <3>5 DEF Text
    <3> QED BY Zenon, <3>2, <3>3, <3>5, <3>6
  <2>16. RecordsIn(d, pre, e2)
    <3>1. 0 \in 0 .. N - 1
      BY <2>5
    <3>2. Len(Magic) <= M
      <4>1. e[0] <= p
        BY Zenon, <2>13, <3>1
      <4>2. Len(Magic) \in Nat
        BY Zenon, BitcaskAssumption, LenProperties
      <4> QED BY <2>3, <2>9, <2>10, <2>11, <4>1, <4>2
    <3> QED BY Zenon, <2>8, <2>9, <2>12, <2>14, <2>15, <3>1, <3>2 DEF RecordsIn
  <2> DEFINE O == Operations(d)
  <2>17. O[Len(Magic)] = pre \o O[p]
    <3>1. e2 \in [0 .. Len(pre) -> Nat] /\ e2[Len(pre)] = p
      BY Zenon, <2>8, <2>14
    <3> QED BY Zenon, <2>8, <2>12, <2>16, <3>1, RecordsAreFound
  <2>18. p \in 0 .. M
    BY <2>10, <2>11
  <2> DEFINE X == EntriesFrom(d, p)
             all == Logged \cup X
  <2>19. O[p] \in Seq(X)
    BY Zenon, <2>12, <2>18, OperationsFrom
  <2> DEFINE rest == O[p]
             left == SubSeq(file, p + 1, M)
             fk == Field(k)
  <2> HIDE DEF O
  <2>20. ~Spells(left, k)
    <3>1. L - last.len + 1 = p + 1
      <4> HIDE DEF p
      <4> QED BY <2>6, <2>7, <2>10
    <3> QED BY Zenon, <1>1, <3>1 DEF L, M
  <2>21. /\ left \in Seq(Byte) /\ Len(left) = M - p /\ DOMAIN left = 1 .. M - p
         /\ \A j \in 1 .. M - p : left[j] = file[p + j]
    <3>1. left \in Seq(Byte) /\ Len(left) = M - p /\ \A j \in 1 .. M - p : left[j] = file[p + j]
      BY Zenon, <2>3, <2>10, <2>11, SliceTo DEF L
    <3> HIDE DEF left
    <3> QED BY <3>1
  <2> HIDE DEF left
  <2>22. ASSUME NEW x \in X PROVE x.op \in Ops /\ k # x.parts[1]
    <3>1. PICK q \in p .. M - 1 : d[q + 1] \in Ops /\ x = Entry(d, q)
      BY Zenon, <2>12 DEF EntriesFrom
    <3>2. q \in 0 .. M
      BY <2>10, <2>11
    <3>3. x.op \in Ops /\ (x.parts[1] # <<>> => StandsAt(d, q + 1, x.parts[1]))
      BY Zenon, <2>12, <3>1, <3>2, EntryNames
    <3>4. ASSUME k = x.parts[1] PROVE FALSE
      <4>1. StandsAt(d, q + 1, k) /\ k \in Seq(Byte)
        BY Zenon, <3>3, <3>4, BitcaskAssumption
      <4>2. fk \in Seq(Byte) /\ Len(fk) \in Nat
        BY Zenon, <4>1, ArgumentLaid, LenProperties DEF Field, MarshalArg
      <4>3. (q + 1) + Len(fk) <= M /\ \A j \in 1 .. Len(fk) : d[(q + 1) + j] = fk[j]
        BY Zenon, <2>12, <4>1 DEF StandsAt
      <4> DEFINE i == q + 1 - p
      <4> HIDE DEF fk
      <4>4. /\ i \in 1 .. M - p /\ p + i = q + 1 /\ q + 1 \in 1 .. M /\ i + Len(fk) <= M - p
            /\ \A j \in 1 .. Len(fk) : i + j \in 1 .. M - p /\ p + (i + j) = (q + 1) + j /\ (q + 1) + j \in 1 .. M
        BY <2>10, <2>11, <3>1, <4>2, <4>3
      <4> HIDE DEF i
      <4>5. left[i] \in Ops
        BY Zenon, <2>12, <2>21, <3>1, <4>4
      <4>6. ASSUME NEW j \in 1 .. Len(fk) PROVE left[i + j] = fk[j]
        <5>1. i + j \in 1 .. M - p /\ p + (i + j) = (q + 1) + j /\ (q + 1) + j \in 1 .. M
          BY Zenon, <4>4
        <5>2. left[i + j] = file[(q + 1) + j]
          BY Zenon, <2>21, <5>1
        <5>3. d[(q + 1) + j] = file[(q + 1) + j] /\ d[(q + 1) + j] = fk[j]
          BY Zenon, <2>12, <4>3, <5>1
        <5> QED BY Zenon, <5>2, <5>3
      <4>7. SubSeq(left, i + 1, i + Len(fk)) = fk
        <5> DEFINE sub == SubSeq(left, i + 1, i + Len(fk))
        <5>1. left \in Seq(Byte) /\ i \in Nat /\ i + Len(fk) <= Len(left)
          BY <2>21, <4>4
        <5>2. sub \in Seq(Byte) /\ Len(sub) = Len(fk) /\ \A j \in 1 .. Len(fk) : sub[j] = left[i + j]
          BY Zenon, <4>2, <5>1, Slice
        <5> HIDE DEF sub
        <5> QED BY Zenon, <4>2, <4>6, <5>2, SeqEqual DEF sub
      <4>8. i \in DOMAIN left /\ i + Len(fk) <= Len(left)
        BY Zenon, <2>21, <4>4
      <4>9. Spells(left, k)
        BY Zenon, <4>5, <4>7, <4>8 DEF Spells, Ops, fk
      <4> QED BY Zenon, <2>20, <4>9
    <3> QED BY Zenon, <3>3, <3>4
  <2> HIDE DEF X
  <2>23. pre \in Seq(all) /\ rest \in Seq(all)
    <3>1. \A A, B : A \subseteq B => Seq(A) \subseteq Seq(B)
      OBVIOUS
    <3> QED BY Zenon, <2>8, <2>19, <3>1
  <2>24. \A i \in 1 .. Len(rest) : rest[i].op \in Ops /\ k # rest[i].parts[1]
    <3>1. \A i \in 1 .. Len(rest) : rest[i] \in X
      BY Zenon, <2>19, ElementOfSeq
    <3> QED BY Zenon, <2>22, <3>1
  <2> HIDE DEF all, rest
  <2>25. SameEntries(Applied(pre \o rest), Applied(pre), k)
    BY Zenon, <2>23, <2>24, AppliedRest
  <2>26. Recover(d) = Applied(pre \o rest)
    BY Zenon, <2>17 DEF Recover, O, rest
  <2> QED BY Zenon, <2>6, <2>25, <2>26 DEF d, M, L
<1>2. FileIsRecords => CutLosesLastOnly
  BY Zenon, <1>1 DEF CutLosesLastOnly, SameEntries
<1> QED BY <1>2, RecordsInvariant, PTL
=============================================================================
