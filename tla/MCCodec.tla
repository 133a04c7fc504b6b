------------------------------- MODULE MCCodec -------------------------------
(* Values of the constants of ParamCodec for TLC: every list of up to two   *)
(* parameters of up to two characters and of up to four of at most one, and *)
(* longer lists that take the counter round. Where a NUL is lost there may  *)
(* be a zero byte, a character, or a separator with a character behind it.  *)
EXTENDS ParamCodec, TLC

Params(n) == BoundedSeq(Chars, n)

HeapBytes == {<<>>, <<"b">>, <<",", "b">>}

Lists ==
  BoundedSeq(Params(2), 2) \cup BoundedSeq(Params(1), 4)
  \cup {[i \in 1..n |-> <<"a", "b">>] : n \in 3..6}
=============================================================================
