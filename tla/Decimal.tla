------------------------------- MODULE Decimal -------------------------------
(***************************************************************************)
(* strconv: decimal texts, as sequences of one-character strings.  Texts   *)
(* are too short for numbers out of range.                                 *)
(***************************************************************************)
EXTENDS Integers, Sequences, Functions

Digit == <<"0", "1", "2", "3", "4", "5", "6", "7", "8", "9">>

(* strconv.Itoa *)
Itoa(n) ==
  LET digits[m \in Nat] == (IF m < 10 THEN <<>> ELSE digits[m \div 10]) \o <<Digit[(m % 10) + 1]>>
  IN  IF n < 0 THEN <<"-">> \o digits[-n] ELSE digits[n]

(* strconv.ParseInt and Atoi: <<n>>, or <<>> for a text that is no number. *)
ParseInt(text) ==
  LET signed == text # <<>> /\ text[1] = "-"
      digits == IF signed THEN Tail(text) ELSE text
      at(b) == CHOOSE i \in 0 .. 9 : Digit[i + 1] = b
      value[n \in 0 .. Len(digits)] == IF n = 0 THEN 0 ELSE 10 * value[n - 1] + at(digits[n])
      abs == value[Len(digits)]
  IN  IF digits = <<>> \/ ~(Range(digits) \subseteq Range(Digit)) THEN <<>>
      ELSE <<IF signed THEN -abs ELSE abs>>
=============================================================================
