------------------------------- MODULE Loops -------------------------------
(* Loops over the parts of a file. *)
EXTENDS Integers, Sequences

(* What a loop that writes one part after the other leaves in the file. *)
AppendAll(parts) ==
  LET upto[n \in 0 .. Len(parts)] == IF n = 0 THEN <<>> ELSE upto[n - 1] \o parts[n]
  IN  upto[Len(parts)]
=============================================================================
