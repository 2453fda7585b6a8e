------------------------------ MODULE WALCodec ------------------------------
(***************************************************************************)
(* persistence/wal.go: marshalCommand, unmarshalCommand and the loop of    *)
(* Replay, on bytes.  Names are logged in upper case, so ToUpper gives     *)
(* them back unchanged.                                                    *)
(***************************************************************************)
EXTENDS Bytes

CONSTANTS
  Names,       \* command names, as sequences of bytes
  Arguments,   \* arguments, as sequences of bytes
  MaxArgs,     \* bound on the arguments of a command
  MaxCommands  \* bound on the commands in the file

VARIABLES
  cmds,  \* the commands written
  data   \* the file

codecVars == <<cmds, data>>

(* Longer names and arguments and more arguments do not fit their lengths, *)
(* which marshalCommand cuts to 16 and 32 bits without a word.             *)
ASSUME CodecAssumption ==
  /\ Names \subseteq Seq(Byte) /\ <<>> \notin Names /\ \A name \in Names : Fits16(Len(name))
  /\ Arguments \subseteq Seq(Byte) /\ \A arg \in Arguments : Fits32(Len(arg))
  /\ MaxArgs \in Nat /\ \A n \in 0 .. MaxArgs : Fits16(n)
  /\ MaxCommands \in Nat

CommandSet == [name: Names, args: UNION {[1 .. n -> Arguments] : n \in 0 .. MaxArgs}]

MarshalArg(arg) == PutUint32(Len(arg)) \o arg

MarshalCommand(cmd) ==
  PutUint16(Len(cmd.name)) \o cmd.name \o PutUint16(Len(cmd.args))
  \o AppendAll([i \in DOMAIN cmd.args |-> MarshalArg(cmd.args[i])])

(* The place after the i-th argument, or -1 if the data ends before it. *)
AfterArg(d, start, count) ==
  LET after[i \in 0 .. count] ==
        IF i = 0 THEN start
        ELSE LET off == after[i - 1]
             IN  IF \/ off < 0
                    \/ off + 4 > Len(d)
                    \/ off + 4 + Uint32(d, off) > Len(d)
                 THEN -1
                 ELSE off + 4 + Uint32(d, off)
  IN  after

NoCommand == [name |-> <<>>, args |-> <<>>]

(* Mutant: the arguments end where the data does. *)
UnmarshalShort(d) ==
  LET afterName == 2 + Uint16(d, 0)
      count == Uint16(d, afterName)
      after == AfterArg(d, afterName + 2, count)
      whole == {i \in 1 .. count : after[i] > 0}
  IN  IF Len(d) < 4 \/ afterName + 2 > Len(d)
      THEN [cmd |-> NoCommand, rest |-> d]
      ELSE [cmd |-> [name |-> SubSeq(d, 3, afterName),
                     args |-> [i \in whole |-> SubSeq(d, after[i - 1] + 5, after[i])]],
            rest |-> IF whole = 1 .. count THEN SubSeq(d, after[count] + 1, Len(d)) ELSE <<>>]

(* The first command and the rest of the data, or all of the data. *)
UnmarshalCommand(d) ==
  LET afterName == 2 + Uint16(d, 0)
      count == Uint16(d, afterName)
      after == AfterArg(d, afterName + 2, count)
  IN  IF Len(d) < 4 \/ afterName + 2 > Len(d) \/ after[count] < 0
      THEN [cmd |-> NoCommand, rest |-> d]
      ELSE [cmd |-> [name |-> SubSeq(d, 3, afterName),
                     args |-> [i \in 1 .. count |-> SubSeq(d, after[i - 1] + 5, after[i])]],
            rest |-> SubSeq(d, after[count] + 1, Len(d))]

(* What the loop of Replay gives to fn from the place off on, and the data *)
(* on which it then goes round for ever; it ends when no data is left.     *)
Replay(d) ==
  LET from[off \in 0 .. Len(d)] ==
        LET u == UnmarshalCommand(SubSeq(d, off + 1, Len(d)))
            next == Len(d) - Len(u.rest)
            later == from[next]
        IN  IF next = off THEN [given |-> <<>>, rest |-> u.rest]
            ELSE [given |-> IF u.cmd.name = <<>> THEN later.given ELSE <<u.cmd>> \o later.given,
                  rest |-> later.rest]
  IN  from[0]

-----------------------------------------------------------------------------

CodecInit == cmds = <<>> /\ data = <<>>

AppendFrame(cmd) ==
  /\ Len(cmds) < MaxCommands
  /\ cmds' = Append(cmds, cmd)
  /\ data' = data \o MarshalCommand(cmd)

CodecNext == \E cmd \in CommandSet : AppendFrame(cmd)

CodecSpec == CodecInit /\ [][CodecNext]_codecVars

-----------------------------------------------------------------------------

(* Replay gives fn every command of the file, as it was written, and ends. *)
RoundTrip == Replay(data) = [given |-> cmds, rest |-> <<>>]

(* s is the first elements of t; of a t that goes on. *)
Begins(s, t) == Len(s) <= Len(t) /\ s = SubSeq(t, 1, Len(s))

BeginsOnly(s, t) == Begins(s, t) /\ s # t

(* A file cut anywhere gives the commands before the cut and stops at the  *)
(* frame that was cut: no part of a frame is taken for a command.          *)
CutIsNoticed ==
  \A n \in 0 .. Len(data) :
    LET cut == SubSeq(data, 1, n)
        r == Replay(cut)
        frames == AppendAll([i \in DOMAIN r.given |-> MarshalCommand(r.given[i])])
    IN  /\ Begins(r.given, cmds)
        /\ frames \o r.rest = cut
        /\ r.rest # <<>> => BeginsOnly(r.rest, MarshalCommand(cmds[Len(r.given) + 1]))
=============================================================================
