---------------------------- MODULE MCAlgorithms ----------------------------
(* Algorithms on small inputs: bytes of one bit, so that the counts of the *)
(* WAL wrap around at 4, and RESP texts that hold a line end or a prefix.  *)
EXTENDS Algorithms

MCNames == {<<1>>, <<1, 0>>}

MCArguments == {<<>>, <<0>>, <<1, 1>>}

MCTexts == {<<>>, <<"a", "$">>, <<"a", "CR", "LF", "*">>}

MCNumbers == {-2, 10}
=============================================================================
