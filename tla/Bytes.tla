-------------------------------- MODULE Bytes --------------------------------
(***************************************************************************)
(* encoding/binary: fixed-width big-endian numbers, as the files of        *)
(* persistence/wal.go and store/bitcask.go hold them.  A byte is a number  *)
(* below Base, which is 256 in the code; a small Base lets 16-bit lengths  *)
(* wrap around within TLC's reach.                                         *)
(***************************************************************************)
EXTENDS Integers, Sequences, Loops

CONSTANT Base

ASSUME BytesAssumption == Base \in Nat /\ Base > 1

Byte == 0 .. Base - 1

(* n without its k low bytes, for the shifts by 8, 16 and 24 bits. *)
Shift1(n) == n \div Base
Shift2(n) == Shift1(Shift1(n))
Shift3(n) == Shift1(Shift2(n))

(* binary.BigEndian.PutUint16 and PutUint32: the low bytes of n. *)
PutUint16(n) == <<Shift1(n) % Base, n % Base>>

PutUint32(n) == <<Shift3(n) % Base, Shift2(n) % Base, Shift1(n) % Base, n % Base>>

(* Mutant: little endian. *)
Uint16Little(d, off) == d[off + 2] * Base + d[off + 1]

(* The numbers in the bytes after the first `off` ones. *)
Uint16(d, off) == d[off + 1] * Base + d[off + 2]

Uint32(d, off) == ((d[off + 1] * Base + d[off + 2]) * Base + d[off + 3]) * Base + d[off + 4]

(* The numbers that uint16 and uint32 leave as they are. *)
Fits16(n) == Shift2(n) = 0

Fits32(n) == Shift1(Shift3(n)) = 0
=============================================================================
