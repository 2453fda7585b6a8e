-------------------------------- MODULE RESP --------------------------------
(***************************************************************************)
(* resp/value.go and resp/reader.go: the wire format and its reader.  A    *)
(* byte is a string, "CR" and "LF" for the two that end a line.  The input *)
(* is all the bytes that will arrive, with the places at which one Read of *)
(* the connection ends: bufio gives out bytes one by one across them, but  *)
(* never more of them in one call of Read than up to the next.             *)
(***************************************************************************)
EXTENDS Decimal, SequencesExt

CONSTANTS
  Texts,    \* contents of strings, as sequences of bytes
  Numbers,  \* contents of integers
  MaxItems, \* bound on the length of an array
  MaxValues \* bound on the values written

VARIABLES
  sent,  \* the values written
  wire   \* the bytes of the connection

respVars == <<sent, wire>>

CRLF == <<"CR", "LF">>

(* Values carry their content as a sequence: bytes, items or one number.   *)
RECURSIVE Marshal(_)
Marshal(v) ==
  CASE v.type = "string" -> <<"+">> \o v.content \o CRLF
    [] v.type = "error" -> <<"-">> \o v.content \o CRLF
    [] v.type = "integer" -> <<":">> \o Itoa(v.content[1]) \o CRLF
    [] v.type = "null" -> <<"$", "-", "1">> \o CRLF
    [] v.type = "bulk" -> <<"$">> \o Itoa(Len(v.content)) \o CRLF \o v.content \o CRLF
    [] v.type = "array" -> <<"*">> \o Itoa(Len(v.content)) \o CRLF
                           \o FlattenSeq([i \in DOMAIN v.content |-> Marshal(v.content[i])])

(* Mutant: a line ends with its CR. *)
ReadLineToCR(d, pos) ==
  LET ends == {j \in pos + 1 .. Len(d) : d[j] = "CR"}
      end == Min(ends)
  IN  IF ends = {} THEN [ok |-> FALSE, line |-> <<>>, pos |-> Len(d)]
      ELSE [ok |-> TRUE, line |-> SubSeq(d, pos + 1, end - 1), pos |-> end]

(* A line ends with the byte after a CR. *)
ReadLine(d, pos) ==
  LET ends == {j \in pos + 2 .. Len(d) : d[j - 1] = "CR"}
      end == Min(ends)
  IN  IF ends = {} THEN [ok |-> FALSE, line |-> <<>>, pos |-> Len(d)]
      ELSE [ok |-> TRUE, line |-> SubSeq(d, pos + 1, end - 2), pos |-> end]

ReadInteger(d, pos) ==
  LET l == ReadLine(d, pos)
      n == ParseInt(l.line)
  IN  [ok |-> l.ok /\ n # <<>>, num |-> n, pos |-> l.pos]

(* reader.Read into len bytes: what one piece of the input has of them,    *)
(* and zeros for the rest.                                                 *)
Fill(d, cuts, pos, len) ==
  LET end == Min({pos + len, Len(d)} \cup {c \in cuts : c > pos})
  IN  [bytes |-> [i \in 1 .. len |-> IF pos + i <= end THEN d[pos + i] ELSE "NUL"], pos |-> end]

(* Mutant: the end of the bulk is skipped as two bytes. *)
AfterBulkTwo(d, pos) == pos + 2

(* The position after the line that ends a bulk. *)
AfterBulk(d, pos) == ReadLine(d, pos).pos

Failed(pos) == [ok |-> FALSE, val |-> [type |-> "", content |-> <<>>], pos |-> pos]

(* make of a length below zero: the goroutine panics, nothing is returned. *)
Panicked(pos) == [ok |-> FALSE, val |-> [type |-> "panic", content |-> <<>>], pos |-> pos]

Parsed(type, content, pos) == [ok |-> TRUE, val |-> [type |-> type, content |-> content], pos |-> pos]

ReadBulk(d, cuts, pos) ==
  LET n == ReadInteger(d, pos)
      body == Fill(d, cuts, n.pos, n.num[1])
  IN  IF ~n.ok THEN Failed(n.pos)
      ELSE IF n.num[1] = -1 THEN Parsed("null", <<>>, n.pos)
      ELSE IF n.num[1] < 0 THEN Panicked(n.pos)
      ELSE Parsed("bulk", body.bytes, AfterBulk(d, body.pos))

ReadText(type, d, pos) ==
  LET l == ReadLine(d, pos)
  IN  IF l.ok THEN Parsed(type, l.line, l.pos) ELSE Failed(l.pos)

ReadIntegerValue(d, pos) ==
  LET n == ReadInteger(d, pos)
  IN  IF n.ok THEN Parsed("integer", n.num, n.pos) ELSE Failed(n.pos)

(* The value after position pos of the input. *)
RECURSIVE Read(_, _, _), ReadItems(_, _, _, _, _)
Read(d, cuts, pos) ==
  LET n == ReadInteger(d, pos + 1)
  IN  IF pos >= Len(d) THEN Failed(pos)
      ELSE CASE d[pos + 1] = "*" -> IF n.ok THEN ReadItems(d, cuts, n.pos, n.num[1], <<>>) ELSE Failed(n.pos)
             [] d[pos + 1] = "$" -> ReadBulk(d, cuts, pos + 1)
             [] d[pos + 1] = "+" -> ReadText("string", d, pos + 1)
             [] d[pos + 1] = "-" -> ReadText("error", d, pos + 1)
             [] d[pos + 1] = ":" -> ReadIntegerValue(d, pos + 1)
             [] OTHER -> Parsed("", <<>>, pos + 1)
ReadItems(d, cuts, pos, len, items) ==
  LET item == Read(d, cuts, pos)
  IN  IF len <= 0 THEN Parsed("array", items, pos)
      ELSE IF ~item.ok THEN item
      ELSE ReadItems(d, cuts, item.pos, len - 1, Append(items, item.val))

-----------------------------------------------------------------------------

Plain == {t \in Texts : "CR" \notin ToSet(t)}

Bulks(T) == [type: {"bulk"}, content: T]

Arrays(S) == [type: {"array"}, content: SeqOf(S, MaxItems)]

(* Commands and replies.  Bulks may hold any bytes, lines no CR. *)
Values ==
  LET atoms == Bulks(Texts) \cup [type: {"string", "error"}, content: Plain]
               \cup [type: {"integer"}, content: {<<n>> : n \in Numbers}]
               \cup {[type |-> "null", content |-> <<>>]}
  IN  atoms \cup Arrays(atoms)

Init == sent = <<>> /\ wire = <<>>

(* Writer.Write *)
Write(v) ==
  /\ Len(sent) < MaxValues
  /\ sent' = Append(sent, v)
  /\ wire' = wire \o Marshal(v)

Next == \E v \in Values : Write(v)

-----------------------------------------------------------------------------

(* Values that arrive in one piece are read as they were marshalled, each  *)
(* Read stopping where its value ends.                                     *)
MarshalledIsRead ==
  LET r[i \in 0 .. Len(sent)] == IF i = 0 THEN Failed(0) ELSE Read(wire, {}, r[i - 1].pos)
  IN  /\ \A i \in DOMAIN sent : r[i].ok /\ r[i].val = sent[i]
      /\ r[Len(sent)].pos = Len(wire)

(* A command that arrives in pieces, cut anywhere, is read to its end and  *)
(* with as many arguments of the same lengths: the next value is read from *)
(* its first byte.  An argument that is cut gets zeros for the bytes after *)
(* the cut.  Arguments with a CR in them are not covered.                  *)
CutKeepsStep ==
  sent # <<>> /\ sent[1] \in Arrays(Bulks(Plain)) =>
    \A c1, c2 \in 1 .. Len(Marshal(sent[1])) :
      LET r == Read(wire, {c1, c2}, 0)
          args == sent[1].content
      IN  /\ r.ok /\ r.pos = Len(Marshal(sent[1]))
          /\ Len(r.val.content) = Len(args)
          /\ \A i \in DOMAIN args :
               LET got == r.val.content[i].content
               IN  /\ Len(got) = Len(args[i].content)
                   /\ \A j \in DOMAIN got : got[j] \in {args[i].content[j], "NUL"}
=============================================================================
