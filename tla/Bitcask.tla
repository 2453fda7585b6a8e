------------------------------- MODULE Bitcask -------------------------------
(***************************************************************************)
(* store/bitcask.go: maps in memory and a log file that NewBitcaskStore    *)
(* reads back.  Every method runs under s.mu and appends its record with   *)
(* one file.Write, so each is one step.  The maps are partial functions.   *)
(* Get, HGet and HGetAll read the maps as those of MapStore do.            *)
(***************************************************************************)
EXTENDS Bytes, Functions

CONSTANTS
  BitKeys, BitFields, BitValues,  \* sequences of bytes
  Magic,                          \* bitcaskMagic
  OpS, OpD, OpH,                  \* the bytes 'S', 'D' and 'H'
  MaxRecords                      \* bound on the records of the file

VARIABLES
  file,    \* the bytes of s.file
  mem,     \* s.strings and s.hashes
  records, \* how many records the file holds
  last     \* history: the last record's length, and mem before it

bitcaskVars == <<file, mem, records, last>>

ASSUME BitcaskAssumption ==
  /\ BitKeys \cup BitFields \cup BitValues \subseteq Seq(Byte)
  /\ \A s \in BitKeys \cup BitFields \cup BitValues : Fits32(Len(s))
  /\ Magic \in Seq(Byte)
  /\ {OpS, OpD, OpH} \subseteq Byte /\ OpS # OpD /\ OpS # OpH /\ OpD # OpH
  /\ MaxRecords \in Nat

NoMap == [x \in {} |-> {}]

Upsert(f, k, v) == [x \in DOMAIN f \cup {k} |-> IF x = k THEN v ELSE f[x]]

SetIn(m, k, v) == [strings |-> Upsert(m.strings, k, v), hashes |-> m.hashes]

DelIn(m, k) ==
  [strings |-> Restrict(m.strings, DOMAIN m.strings \ {k}),
   hashes |-> Restrict(m.hashes, DOMAIN m.hashes \ {k})]

HSetIn(m, h, f, v) ==
  LET fields == IF h \in DOMAIN m.hashes THEN m.hashes[h] ELSE NoMap
  IN  [strings |-> m.strings, hashes |-> Upsert(m.hashes, h, Upsert(fields, f, v))]

(* Mutant: the position moves on only past strings that are not empty. *)
ReadStringNoSkip(d, pos) ==
  LET strLen == Uint32(d, pos)
  IN  IF pos + 4 > Len(d) \/ strLen = 0 THEN [str |-> <<>>, pos |-> pos]
      ELSE IF pos + 4 + strLen > Len(d) THEN [str |-> <<>>, pos |-> pos + 4]
      ELSE [str |-> SubSeq(d, pos + 5, pos + 4 + strLen), pos |-> pos + 4 + strLen]

(* Mutant: a string that the file cuts off is what there is of it. *)
ReadStringShort(d, pos) ==
  LET full == pos + 4 + Uint32(d, pos)
      end == IF full > Len(d) THEN Len(d) ELSE full
  IN  IF pos + 4 > Len(d) THEN [str |-> <<>>, pos |-> pos]
      ELSE [str |-> SubSeq(d, pos + 5, end), pos |-> end]

(* The string at pos and the position after it; a string cut off by the    *)
(* end of the file is empty, and the position stays before its bytes.      *)
ReadStringAt(d, pos) ==
  LET end == pos + 4 + Uint32(d, pos)
  IN  IF pos + 4 > Len(d) THEN [str |-> <<>>, pos |-> pos]
      ELSE IF end > Len(d) THEN [str |-> <<>>, pos |-> pos + 4]
      ELSE [str |-> SubSeq(d, pos + 5, end), pos |-> end]

NoEntries == [strings |-> NoMap, hashes |-> NoMap]

(* What an operation does to the maps. *)
Apply(m, op, parts) ==
  CASE op = OpS -> SetIn(m, parts[1], parts[2])
    [] op = OpD -> DelIn(m, parts[1])
    [] op = OpH -> HSetIn(m, parts[1], parts[2], parts[3])

(* The operations that the loop of recover finds from each position on; a  *)
(* byte that is none is skipped.                                           *)
Operations(d) ==
  LET from[pos \in 0 .. Len(d)] ==
        LET a == ReadStringAt(d, pos + 1)
            b == ReadStringAt(d, a.pos)
            c == ReadStringAt(d, b.pos)
        IN  IF pos = Len(d) THEN <<>>
            ELSE CASE d[pos + 1] = OpS -> <<[op |-> OpS, parts |-> <<a.str, b.str>>]>> \o from[b.pos]
                   [] d[pos + 1] = OpD -> <<[op |-> OpD, parts |-> <<a.str>>]>> \o from[a.pos]
                   [] d[pos + 1] = OpH -> <<[op |-> OpH, parts |-> <<a.str, b.str, c.str>>]>> \o from[c.pos]
                   [] OTHER -> from[pos + 1]
  IN  from

(* It applies them one after the other as it finds them. *)
Applied(ops) ==
  LET upto[n \in 0 .. Len(ops)] ==
        IF n = 0 THEN NoEntries ELSE Apply(upto[n - 1], ops[n].op, ops[n].parts)
  IN  upto[Len(ops)]

Recover(d) == Applied(Operations(d)[Len(Magic)])

Field(part) == PutUint32(Len(part)) \o part

Record(op, parts) == <<op>> \o AppendAll([i \in DOMAIN parts |-> Field(parts[i])])

(* A new file holds the magic. *)
BitcaskInit ==
  /\ file = Magic
  /\ mem = NoEntries
  /\ records = 0
  /\ last = [len |-> 0, mem |-> NoEntries]

(* Set, Del and HSet change the maps and call writeOp. *)
WriteOp(op, parts) ==
  LET bytes == Record(op, parts)
  IN  /\ records < MaxRecords
      /\ mem' = Apply(mem, op, parts)
      /\ file' = file \o bytes
      /\ records' = records + 1
      /\ last' = [len |-> Len(bytes), mem |-> mem]

BitcaskSet(k, v) == WriteOp(OpS, <<k, v>>)

BitcaskDel(k) == WriteOp(OpD, <<k>>)

BitcaskHSet(h, f, v) == WriteOp(OpH, <<h, f, v>>)

(* Close, or the end of the process between two writes, and a new start. *)
Reopen == mem' = Recover(file) /\ UNCHANGED <<file, records, last>>

BitcaskNext ==
  \/ \E k \in BitKeys :
       \/ \E v \in BitValues : BitcaskSet(k, v) \/ \E f \in BitFields : BitcaskHSet(k, f, v)
       \/ BitcaskDel(k)
  \/ Reopen

BitcaskSpec == BitcaskInit /\ [][BitcaskNext]_bitcaskVars

-----------------------------------------------------------------------------

(* A restart at any point finds exactly the maps the process had: recover  *)
(* undoes writeOp for every mix of records, the empty strings included.    *)
RecoverIsMemory == Recover(file) = mem

Lookup(f, k) == IF k \in DOMAIN f THEN <<f[k]>> ELSE <<>>

(* Among the bytes there is the beginning of an operation on k. *)
Spells(bytes, k) ==
  \E j \in DOMAIN bytes :
    /\ bytes[j] \in {OpS, OpD, OpH}
    /\ j + Len(Field(k)) <= Len(bytes)
    /\ SubSeq(bytes, j + 1, j + Len(Field(k))) = Field(k)

(* A file whose last record is cut anywhere: recover goes on inside that   *)
(* record, but of the keys that are not empty it changes only those on     *)
(* which the bytes that are left of the record spell an operation, the key *)
(* of the record itself if it is there.  A key that a string of the record *)
(* happens to spell is really lost or overwritten.                         *)
CutLosesLastOnly ==
  \A n \in 1 .. last.len :
    LET cut == SubSeq(file, 1, Len(file) - n)
        left == SubSeq(file, Len(file) - last.len + 1, Len(file) - n)
        m == Recover(cut)
    IN  \A k \in BitKeys \ {<<>>} :
          \/ Spells(left, k)
          \/ /\ Lookup(m.strings, k) = Lookup(last.mem.strings, k)
             /\ Lookup(m.hashes, k) = Lookup(last.mem.hashes, k)
=============================================================================
